------------------------------- MODULE Config -------------------------------
(***************************************************************************)
(* What src/c/smoke.c makes of the sections that ini.c read: the sink's    *)
(* settings (load_sink_conf), a camera's (build_cameras), and those each   *)
(* backend is created with (mock_from_ini, v4l2_from_ini).  A reader gives *)
(* the set of what it may return: none when it fails.                      *)
(***************************************************************************)
EXTENDS Ini

CONSTANTS
  CamNames,  \* the section names that begin with "cam."
  Second     \* the clock's units in a second

ASSUME ConfigAssumption ==
  /\ CamNames \subseteq STRING
  /\ Second \in Nat \ {0}

-----------------------------------------------------------------------------
(***************************************************************************)
(* parse_grid.  sscanf reads each side like strtoul, saturating, and keeps *)
(* the low half of it.                                                     *)
(***************************************************************************)
Side(n) == IF n \in 1 - Long .. Long - 1 THEN Unsigned(n) % Word ELSE Word - 1

ParseGrid(value) ==
  IF value.kind = "grid" /\ Side(value.r) # 0 /\ Side(value.c) # 0
  THEN {[rows |-> Side(value.r), cols |-> Side(value.c)]}
  ELSE {}

GridOf(ini, section, key, def) ==
  UNION {ParseGrid(value) : value \in Str(ini, section, key, def)}

\* A test x <= 0.0, which nan passes.
AtMostZero(x) == x.n < 0 \/ (x.n = 0 /\ x.d # 0)

-----------------------------------------------------------------------------
SinkKeys == {"endpoint", "frames", "tol", "timeout_s", "verbose"}

DefaultEndpoint == Name("ipc:///tmp/frames.sock")

\* load_sink_conf
SinkConf(ini) ==
  IF HasSection(ini, "sink") /\ CheckKeys(ini, "sink", SinkKeys)
  THEN {conf \in
          {[endpoint |-> endpoint, frames |-> frames, tol |-> tol, timeout_s |-> timeout,
            verbose  |-> verbose] :
             endpoint \in Str(ini, "sink", "endpoint", DefaultEndpoint),
             frames   \in U32(ini, "sink", "frames", 100),
             tol      \in F64(ini, "sink", "tol", Number(1, 2)),
             timeout  \in U32(ini, "sink", "timeout_s", 60),
             verbose  \in Bool(ini, "sink", "verbose", TRUE)} :
          ~AtMostZero(conf.tol)}
  ELSE {}

-----------------------------------------------------------------------------
\* COMMON_CAM_KEYS
CamKeys    == {"backend", "enabled", "id", "fps"}
MockKeys   == CamKeys \cup {"grid", "sites"}
WebcamKeys ==
  CamKeys \cup {"device", "grid", "resolution", "threshold", "buffers", "timeout_ms"}

\* The defaults of a camera's keys.
DefaultFps    == Number(30, 1)
DefaultGrid   == Grid(64, 64)
DefaultDevice == Name("/dev/video0")

\* period_ns of mock_ctx_create; a frame rate that is not positive, not finite
\* or above the clock's resolution gives none.  (One so small that its period
\* exceeds 64 bits is not among the inputs: the conversion is undefined.)
MockPeriod(fps) ==
  IF fps.n > 0 /\ fps.d > 0 THEN (Second * fps.d) \div fps.n ELSE 0

\* mock_from_ini with mock_ctx_create
MockFromIni(ini, section) ==
  IF CheckKeys(ini, section, MockKeys)
  THEN {conf \in
          {[backend |-> "mock", rows |-> grid.rows, cols |-> grid.cols, sites |-> sites,
            period  |-> MockPeriod(fps)] :
             grid  \in GridOf(ini, section, "grid", DefaultGrid),
             sites \in U32(ini, section, "sites", 256),
             fps   \in F64(ini, section, "fps", DefaultFps)} :
          conf.sites # 0 /\ conf.period > 0}
  ELSE {}

\* v4l2_from_ini
V4l2FromIni(ini, section) ==
  IF CheckKeys(ini, section, WebcamKeys)
  THEN {conf \in
          {[backend |-> "v4l2", rows |-> grid.rows, cols |-> grid.cols,
            height  |-> res.rows, width |-> res.cols, threshold |-> threshold,
            buffers |-> buffers, timeout_ms |-> timeout, device |-> device] :
             device    \in Str(ini, section, "device", DefaultDevice),
             res       \in GridOf(ini, section, "resolution", Grid(480, 640)),
             grid      \in GridOf(ini, section, "grid", DefaultGrid),
             threshold \in U32(ini, section, "threshold", 32),
             buffers   \in U32(ini, section, "buffers", 4),
             timeout   \in U32(ini, section, "timeout_ms", 2000)} :
          conf.threshold <= 255 /\ conf.buffers >= 2}
  ELSE {}

\* mock_max_sites and v4l2_max_sites, whose geometry is never 0 here
SitesOf(conf) == conf.rows * conf.cols

NoBackend == [backend |-> "none"]

\* g_backends and backend_find; NoBackend stands for a name that is missing.
Backends == {"mock", "v4l2"}

BackendName(ini, section) ==
  {IF value.kind = "word" /\ value.word \in Backends THEN value.word ELSE "unknown" :
     value \in Str(ini, section, "backend", Name("missing"))}

FromIni(name, ini, section) ==
  CASE name = "mock" -> MockFromIni(ini, section)
    [] name = "v4l2" -> V4l2FromIni(ini, section)

-----------------------------------------------------------------------------
\* The period the sink expects of a frame rate, as a fraction; 0 for none.
NoPeriod == [n |-> 0, d |-> 1]

ExpectedPeriod(fps) ==
  IF fps.n > 0 THEN [n |-> Second * fps.d, d |-> fps.n] ELSE NoPeriod

\* What build_cameras reads itself of a camera's section.
EnabledOf(ini, section) == Bool(ini, section, "enabled", TRUE)
IdOf(ini, section)      == U32(ini, section, "id", 0)

\* Mutant of FpsOf: another default than the mock has.
FpsOfOther(ini, section) == F64(ini, section, "fps", Number(25, 1))
FpsOf(ini, section) == F64(ini, section, "fps", DefaultFps)
==============================================================================
