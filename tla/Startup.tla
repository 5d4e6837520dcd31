------------------------------- MODULE Startup -------------------------------
(***************************************************************************)
(* What src/c/smoke.c builds before its threads run and releases after     *)
(* them: main from ini_load to its return, load_sink_conf, build_cameras   *)
(* and cams_release, sink_new and sink_del, camera_new and camera_del.     *)
(* One thread does all of it, and every allocation and every call of       *)
(* ZeroMQ or of a backend may fail.  The file is read line by line (Ini),  *)
(* and everything is made of what its lines mean (Config).  The threads    *)
(* and the drain loop are one step here, Run; Smoke models them.           *)
(*                                                                         *)
(* The state is what the process holds: a resource is a kind of object and *)
(* the camera slot it belongs to, 0 for those of main and the sink.  A     *)
(* pointer of the program is not NULL exactly while its resource is held.  *)
(***************************************************************************)
EXTENDS Config

CONSTANTS
  Files,      \* the config files, as sequences of lines
  MaxCameras  \* SINK_MAX_CAMERAS

ASSUME StartupAssumption ==
  /\ MaxCameras \in Nat \ {0}
  /\ Files \subseteq Seq(Line)

VARIABLES
  pc,      \* where main is
  file,    \* the config file
  lineno,  \* how many of its lines were read
  ini,     \* the sections they made
  sc,      \* the sink's settings
  section, \* i of build_cameras
  n,       \* the cameras built so far
  specs,   \* the table the sink will validate against
  slot,    \* i of cams_release
  scope,   \* how many slots cams_release visits
  backends,\* what each slot's backend was created with
  held,    \* the resources that are held
  capacity,\* the capacity of each camera's frame
  code,    \* the exit status
  ran      \* history: did the threads run?

\* What only the reading of the file, only build_cameras and only cams_release
\* change.
fileVars  == <<file, lineno, ini, sc>>
tableVars == <<section, n, specs, backends, capacity>>
loopVars  == <<slot, scope>>

vars == <<pc, fileVars, tableVars, loopVars, held, code, ran>>

Kind == {"file", "ini", "sink", "sink_frame", "sink_ctx", "sink_socket", "ctx",
         "impl", "camera", "frame", "scratch", "socket", "device"}

Res(kind, cam) == [kind |-> kind, cam |-> cam]
Main(kinds)    == {Res(kind, 0) : kind \in kinds}

Slots   == 1 .. MaxCameras
Current == ini[section].name
New     == n + 1   \* the slot that build_cameras fills

MaxSites == Word - 1   \* UINT32_MAX

NoConf ==
  [endpoint |-> Empty, frames |-> 0, tol |-> Number(0, 1), timeout_s |-> 0,
   verbose  |-> FALSE]

Init ==
  /\ pc = "open"
  /\ file \in Files /\ lineno = 0 /\ ini = <<>> /\ sc = NoConf
  /\ section = 1 /\ n = 0 /\ specs = <<>>
  /\ backends = [c \in Slots |-> NoBackend] /\ capacity = [c \in Slots |-> 0]
  /\ slot = 0 /\ scope = 0
  /\ held = {} /\ code = 0 /\ ran = FALSE

-----------------------------------------------------------------------------
GoTo(label)  == pc' = label
Acquire(res) == held' = held \cup {res}
Free(set)    == held' = held \ set

\* A step of main that acquires something and goes on, or fails with status 2
\* and goes to its error exit.
Step(from, res, next, exit) ==
  /\ pc = from
  /\ \/ Acquire(res) /\ GoTo(next) /\ UNCHANGED code
     \/ UNCHANGED held /\ GoTo(exit) /\ code' = 2
  /\ UNCHANGED <<fileVars, tableVars, loopVars, ran>>

(***************************************************************************)
(* ini_load: the file is opened, the sections are allocated, and one line  *)
(* is read after the other until one is refused or fgets delivers no more, *)
(* at the end of the file or because reading fails, which nothing tests.   *)
(* Without a config main returns at once.                                  *)
(***************************************************************************)
IniOpen == Step("open", Res("file", 0), "alloc", "exit")

IniAlloc ==
  /\ pc = "alloc"
  /\ \/ Acquire(Res("ini", 0)) /\ GoTo("read") /\ UNCHANGED code
     \/ Free(Main({"file"})) /\ GoTo("exit") /\ code' = 2
  /\ UNCHANGED <<fileVars, tableVars, loopVars, ran>>

ReadLine ==
  /\ pc = "read"
  /\ lineno < Len(file)
  /\ lineno' = lineno + 1
  /\ IF LineRefused(ini, file[lineno'])
       THEN GoTo("fail") /\ UNCHANGED ini
       ELSE ini' = Taken(ini, file[lineno']) /\ UNCHANGED pc
  /\ UNCHANGED <<file, sc, tableVars, loopVars, held, code, ran>>

ReadNoMore ==
  /\ pc = "read"
  /\ Free(Main({"file"}))
  /\ GoTo("conf")
  /\ UNCHANGED <<fileVars, tableVars, loopVars, code, ran>>

ReadFails ==
  /\ pc = "fail"
  /\ Free(Main({"file", "ini"})) /\ ini' = <<>>
  /\ GoTo("exit")
  /\ code' = 2
  /\ UNCHANGED <<file, lineno, sc, tableVars, loopVars, ran>>

LoadSinkConf ==
  /\ pc = "conf"
  /\ \/ sc' \in SinkConf(ini) /\ GoTo("sink") /\ UNCHANGED code
     \/ SinkConf(ini) = {} /\ GoTo("ini_free") /\ code' = 2 /\ UNCHANGED sc
  /\ UNCHANGED <<file, lineno, ini, tableVars, loopVars, held, ran>>

\* sink_new: the sink, its frame, its context, its socket and the bind.
SinkNew    == Step("sink", Res("sink", 0), "sink_frame", "ini_free")
SinkFrame  == Step("sink_frame", Res("sink_frame", 0), "sink_ctx", "sink_close")
SinkCtx    == Step("sink_ctx", Res("sink_ctx", 0), "sink_socket", "sink_close")
SinkSocket == Step("sink_socket", Res("sink_socket", 0), "sink_bind", "sink_close")

SinkBind ==
  /\ pc = "sink_bind"
  /\ \/ GoTo("ctx") /\ UNCHANGED code
     \/ GoTo("sink_close") /\ code' = 2
  /\ UNCHANGED <<fileVars, tableVars, loopVars, held, ran>>

\* The context that all cameras share.
ZmqCtxNew == Step("ctx", Res("ctx", 0), "build", "sink_close")

-----------------------------------------------------------------------------
(***************************************************************************)
(* build_cameras.  A failure of it returns -1, and main releases the whole *)
(* table, the slot that is being filled included.                          *)
(***************************************************************************)

\* The slots cams_release visits after a failure.  Mutant: those of the
\* cameras that were counted.
FailureScopeCounted == n
FailureScope == MaxCameras

BuildFails ==
  /\ GoTo("cams_release")
  /\ code' = 2
  /\ slot' = 1 /\ scope' = FailureScope

\* Sections that are no camera or are switched off.
Skipped(s) == s \notin CamNames \/ EnabledOf(ini, s) = {FALSE}

Duplicate(id) == \E k \in 1 .. n : specs[k].camera_id = id

\* Mutant of Full: the limit is off by one.
FullOffByOne == n > MaxCameras
Full == n >= MaxCameras

\* What build_cameras refuses before it creates the backend.
Refused(s) ==
  \/ EnabledOf(ini, s) = {}
  \/ Full
  \/ BackendName(ini, s) \in {{}, {"unknown"}}
  \/ IdOf(ini, s) = {} \/ FpsOf(ini, s) = {}
  \/ \E id \in IdOf(ini, s) : Duplicate(id)

More == pc = "build" /\ section <= Len(ini)

BuildSkip ==
  /\ More
  /\ Skipped(Current)
  /\ section' = section + 1
  /\ UNCHANGED <<pc, fileVars, n, specs, backends, capacity, loopVars, held, code, ran>>

BuildRefuse ==
  /\ More
  /\ ~Skipped(Current) /\ Refused(Current)
  /\ BuildFails
  /\ UNCHANGED <<fileVars, tableVars, held, ran>>

\* backend->create, which may run out of memory, and what max_sites reports.
BackendCreate ==
  /\ More
  /\ ~Skipped(Current) /\ ~Refused(Current)
  /\ \/ \E name \in BackendName(ini, Current) :
         \E conf \in FromIni(name, ini, Current) :
           /\ backends' = [backends EXCEPT ![New] = conf]
           /\ Acquire(Res("impl", New))
           /\ IF SitesOf(conf) <= MaxSites
                THEN GoTo("camera") /\ UNCHANGED <<loopVars, code>>
                ELSE BuildFails
     \/ BuildFails /\ UNCHANGED <<held, backends>>
  /\ UNCHANGED <<fileVars, section, n, specs, capacity, ran>>

(***************************************************************************)
(* camera_new, one acquisition after the other.  Without a camera nothing  *)
(* is to be released; where a later one fails, camera_del releases what    *)
(* there is (below), and then build_cameras fails.                         *)
(***************************************************************************)
\* camera_release.  The camera is in no slot of cams_release yet.  Mutant: only
\* the memory is released.
CameraNewFailsFreed ==
  GoTo("del_frames") /\ code' = 2 /\ slot' = 0 /\ scope' = FailureScope
CameraNewFails ==
  GoTo("deinit") /\ code' = 2 /\ slot' = 0 /\ scope' = FailureScope

CameraAlloc ==
  /\ pc = "camera"
  /\ \/ Acquire(Res("camera", New)) /\ GoTo("frame") /\ UNCHANGED <<loopVars, code>>
     \/ BuildFails /\ UNCHANGED held
  /\ UNCHANGED <<fileVars, tableVars, ran>>

CameraStep(from, kind, next) ==
  /\ pc = from
  /\ \/ Acquire(Res(kind, New)) /\ GoTo(next) /\ UNCHANGED <<loopVars, code>>
     \/ CameraNewFails /\ UNCHANGED held
  /\ UNCHANGED <<fileVars, tableVars, ran>>

CameraScratch == CameraStep("scratch", "scratch", "socket")
CameraSocket  == CameraStep("socket", "socket", "connect")

\* The capacity is kept in a uint32_t.
CameraFrame ==
  /\ pc = "frame"
  /\ \/ /\ Acquire(Res("frame", New))
        /\ capacity' = [capacity EXCEPT ![New] = SitesOf(backends[New]) % Word]
        /\ GoTo("scratch")
        /\ UNCHANGED <<loopVars, code>>
     \/ CameraNewFails /\ UNCHANGED <<held, capacity>>
  /\ UNCHANGED <<fileVars, section, n, specs, backends, ran>>

CameraConnect ==
  /\ pc = "connect"
  /\ \/ GoTo("init") /\ UNCHANGED <<loopVars, code>>
     \/ CameraNewFails
  /\ UNCHANGED <<fileVars, tableVars, held, ran>>

\* The entries of the table, which build_cameras makes of what it read itself
\* and of what the backend reports.
SpecsOf(s, conf) ==
  {[camera_id |-> id, max_sites |-> SitesOf(conf) % Word,
    expect_period |-> ExpectedPeriod(fps)] : id \in IdOf(ini, s), fps \in FpsOf(ini, s)}

\* interface->init; a webcam's may fail with the device open (V4l2).  After it
\* build_cameras enters the camera into the table.
CameraInit ==
  /\ pc = "init"
  /\ LET device == IF backends[New].backend = "v4l2" THEN {Res("device", New)} ELSE {}
     IN  /\ held' = held \cup device
         /\ \/ /\ \E spec \in SpecsOf(Current, backends[New]) : specs' = Append(specs, spec)
               /\ n' = n + 1
               /\ section' = section + 1
               /\ GoTo("build")
               /\ UNCHANGED <<loopVars, code>>
            \/ CameraNewFails /\ UNCHANGED <<section, n, specs>>
  /\ UNCHANGED <<fileVars, backends, capacity, ran>>

-----------------------------------------------------------------------------
\* The end of build_cameras.  Without a camera main goes past cams_release.
BuildDone ==
  /\ pc = "build"
  /\ section > Len(ini)
  /\ \/ n = 0 /\ GoTo("ctx_destroy") /\ code' = 2
     \/ n > 0 /\ GoTo("expect") /\ UNCHANGED code
  /\ UNCHANGED <<fileVars, tableVars, loopVars, held, ran>>

\* sink_expect, which fails without memory.
SinkExpect ==
  /\ pc = "expect"
  /\ \/ GoTo("run") /\ UNCHANGED <<loopVars, code>>
     \/ GoTo("cams_release") /\ code' = 2 /\ slot' = 1 /\ scope' = n
  /\ UNCHANGED <<fileVars, tableVars, held, ran>>

\* The threads, the drain loop, the joins and the report.
Run ==
  /\ pc = "run"
  /\ ran' = TRUE
  /\ code' \in {0, 1}
  /\ GoTo("cams_release")
  /\ slot' = 1 /\ scope' = n
  /\ UNCHANGED <<fileVars, tableVars, held>>

-----------------------------------------------------------------------------
(***************************************************************************)
(* cams_release, slot by slot: the camera, whose deinit uses the backend's *)
(* context, and then that context.                                         *)
(***************************************************************************)
unwinding == <<fileVars, tableVars, loopVars, code, ran>>

\* Mutant of ReleaseCamera: the backend's context goes before the camera.
ReleaseImplFirst ==
  /\ pc = "cams_release"
  /\ Free({Res("impl", slot)})
  /\ \/ slot <= scope /\ Res("camera", slot) \in held /\ GoTo("deinit")
     \/ slot <= scope /\ Res("camera", slot) \notin held /\ GoTo("impl_destroy")
     \/ slot > scope /\ GoTo("ctx_destroy")
  /\ UNCHANGED unwinding

ReleaseCamera ==
  /\ pc = "cams_release"
  /\ \/ slot <= scope /\ Res("camera", slot) \in held /\ GoTo("deinit")
     \/ slot <= scope /\ Res("camera", slot) \notin held /\ GoTo("impl_destroy")
     \/ slot > scope /\ GoTo("ctx_destroy")
  /\ UNCHANGED <<held, unwinding>>

ReleaseImpl ==
  /\ pc = "impl_destroy"
  /\ Free({Res("impl", slot)})
  /\ backends' = [backends EXCEPT ![slot] = NoBackend]
  /\ slot' = slot + 1
  /\ GoTo("cams_release")
  /\ UNCHANGED <<fileVars, section, n, specs, capacity, scope, code, ran>>

(***************************************************************************)
(* camera_del of the slot's camera, or of the one camera_new gives up: the *)
(* device, by deinit, whether or not init ran, the socket, the frame, the  *)
(* scratch buffer and the camera itself, as far as they are there.         *)
(***************************************************************************)
Victim == IF slot = 0 THEN New ELSE slot

CameraDel(from, kind, next) ==
  /\ pc = from
  /\ Free({Res(kind, Victim)})
  /\ GoTo(next)
  /\ UNCHANGED unwinding

CameraDeinit      == CameraDel("deinit", "device", "close")
CameraClose       == CameraDel("close", "socket", "del_frames")
CameraDelFrames   == CameraDel("del_frames", "frame", "free_scratch")
CameraFreeScratch == CameraDel("free_scratch", "scratch", "free_camera")

CameraFree ==
  /\ pc = "free_camera"
  /\ Free({Res("camera", Victim)})
  /\ \/ slot = 0 /\ slot' = 1 /\ GoTo("cams_release")
     \/ slot # 0 /\ UNCHANGED slot /\ GoTo("impl_destroy")
  /\ UNCHANGED <<fileVars, tableVars, scope, code, ran>>

(***************************************************************************)
(* The rest in the order of main: the cameras' context, the sink, whose    *)
(* parts sink_del releases as far as they are there, and the config.  Each *)
(* zmq_ctx_destroy waits until the sockets of its context are closed.      *)
(***************************************************************************)
MainDel(from, kind, next) ==
  /\ pc = from
  /\ Free(Main({kind}))
  /\ GoTo(next)
  /\ UNCHANGED unwinding

Sockets == {r \in held : r.kind = "socket"}

CtxDestroy     == Sockets = {} /\ MainDel("ctx_destroy", "ctx", "sink_close")
SinkClose      == MainDel("sink_close", "sink_socket", "sink_ctx_destroy")
SinkCtxDestroy ==
  /\ Res("sink_socket", 0) \notin held
  /\ MainDel("sink_ctx_destroy", "sink_ctx", "sink_del_frames")
SinkDelFrames  == MainDel("sink_del_frames", "sink_frame", "sink_free")
SinkFree       == MainDel("sink_free", "sink", "ini_free")

IniFree ==
  /\ pc = "ini_free"
  /\ Free(Main({"ini"})) /\ ini' = <<>>
  /\ GoTo("exit")
  /\ UNCHANGED <<file, lineno, sc, tableVars, loopVars, code, ran>>

Terminated == pc = "exit" /\ UNCHANGED vars

Load    == IniOpen \/ IniAlloc \/ ReadLine \/ ReadNoMore \/ ReadFails
             \/ LoadSinkConf \/ SinkNew \/ SinkFrame \/ SinkCtx \/ SinkSocket
             \/ SinkBind \/ ZmqCtxNew
Build   == BuildSkip \/ BuildRefuse \/ BackendCreate \/ BuildDone
Camera  == CameraAlloc \/ CameraFrame \/ CameraScratch \/ CameraSocket
             \/ CameraConnect \/ CameraInit
Unwind  == ReleaseCamera \/ ReleaseImpl \/ CameraDeinit \/ CameraClose
             \/ CameraDelFrames \/ CameraFreeScratch \/ CameraFree \/ CtxDestroy
             \/ SinkClose \/ SinkCtxDestroy \/ SinkDelFrames \/ SinkFree \/ IniFree

Forward == Load \/ Build \/ Camera \/ SinkExpect \/ Run \/ Unwind

Next == Forward \/ Terminated

Spec == Init /\ [][Next]_vars

\* Calls return, main's thread runs on, and a run ends (Smoke's Termination).
FairSpec == Spec /\ WF_vars(Forward)

-----------------------------------------------------------------------------
Conf ==
  [endpoint : Value \cup {DefaultEndpoint, Empty}, frames : Nat,
   tol : [kind : {"number"}, n : Int, d : Nat], timeout_s : Nat, verbose : BOOLEAN]

Backend ==
  {NoBackend}
    \cup [backend : {"mock"}, rows : Nat, cols : Nat, sites : Nat, period : Nat]
    \cup [backend : {"v4l2"}, rows : Nat, cols : Nat, height : Nat, width : Nat,
          threshold : 0 .. 255, buffers : Nat, timeout_ms : Nat,
          device : Value \cup {DefaultDevice}]

TypeOK ==
  /\ pc \in {"open", "alloc", "read", "fail", "conf", "sink", "sink_frame",
             "sink_ctx", "sink_socket", "sink_bind", "ctx", "build", "camera",
             "frame", "scratch", "socket", "connect", "init", "expect", "run",
             "cams_release", "deinit", "close", "del_frames", "free_scratch",
             "free_camera", "impl_destroy", "ctx_destroy", "sink_close",
             "sink_ctx_destroy", "sink_del_frames", "sink_free", "ini_free", "exit"}
  /\ file \in Files /\ lineno \in 0 .. Len(file)
  /\ ini \in Sections /\ Len(ini) <= MaxSections
  /\ sc \in Conf
  /\ section \in 1 .. MaxSections + 1
  /\ n \in 0 .. MaxCameras
  /\ specs \in Seq([camera_id : Nat, max_sites : Nat, expect_period : [n : Nat, d : Nat]])
  /\ Len(specs) = n
  /\ backends \in [Slots -> Backend]
  /\ slot \in 0 .. MaxCameras + 1 /\ scope \in 0 .. MaxCameras
  /\ held \subseteq [kind : Kind, cam : 0 .. MaxCameras]
  /\ capacity \in [Slots -> Nat]
  /\ code \in 0 .. 2
  /\ ran \in BOOLEAN

-----------------------------------------------------------------------------
(***************************************************************************)
(* What a file says, by the places of its lines and without sections.      *)
(***************************************************************************)
Headers == {k \in 1 .. lineno : file[k].kind = "header"}
Pairs   == {k \in 1 .. lineno : file[k].kind = "pair"}

\* The how-manieth of some lines is line k?
Place(k, lines) == Cardinality({j \in lines : j <= k})

\* The headers before line k, and the last of them, or 0.
HeadersBefore(k) == {h \in Headers : h < k}
HeaderOf(k)      == Max({0} \cup HeadersBefore(k))

\* The settings of a header, and those of line k's header that come before it.
Settings(h)       == {k \in Pairs : HeaderOf(k) = h}
SettingsBefore(k) == {j \in Settings(HeaderOf(k)) : j < k}

\* Does line k fit after the lines before?  The grammar is that of ini.h, with
\* its limits and repeats, and with the one rule ini.h:7 says otherwise: a
\* setting before the first header does not fit.
Fits(k) ==
  LET line == file[k]
  IN  /\ line.kind # "words"
      /\ line.kind = "header" =>
           /\ line.closed /\ line.name # "" /\ line.name \notin TooLong
           /\ \A h \in HeadersBefore(k) : file[h].name # line.name
           /\ Cardinality(HeadersBefore(k)) < MaxSections
      /\ line.kind = "pair" =>
           /\ HeaderOf(k) # 0
           /\ line.key # "" /\ line.key \notin TooLong /\ ~TooLongValue(line.value)
           /\ \A j \in SettingsBefore(k) : file[j].key # line.key
           /\ Cardinality(SettingsBefore(k)) < MaxKeys

(***************************************************************************)
(* At every point of the reading the sections say what the lines read so   *)
(* far say: each header's section is there, in its order, and holds the    *)
(* settings after that header and before the next, and no other.  And the  *)
(* reading fails at the first line that does not fit, the one the message  *)
(* names (ini.h:9), and never passes one.  ini_load and ini_get.           *)
(***************************************************************************)
ReaderIsExact ==
  /\ pc # "exit" => \A k \in 1 .. lineno : Fits(k) <=> ~(pc = "fail" /\ k = lineno)
  /\ pc \notin {"fail", "exit"} =>
       /\ Len(ini) = Cardinality(Headers)
       /\ \A h \in Headers :
            /\ ini[Place(h, Headers)].name = file[h].name
            /\ \A k \in Settings(h) :
                 Get(ini, file[h].name, file[k].key) = {file[k].value}
            /\ CheckKeys(ini, file[h].name, {file[k].key : k \in Settings(h)})

(***************************************************************************)
(* What stands before the first header is no reason to refuse a file:      *)
(* "everything before the first one is ignored" (ini.h:7).  The code does  *)
(* refuse it: a setting outside of a section is an error (ini.c:193).      *)
(***************************************************************************)
PreambleIgnored == pc = "fail" => Headers # {}

-----------------------------------------------------------------------------
(***************************************************************************)
(* Whatever failed and wherever, nothing is held any more when main        *)
(* returns: the exits of ini_load and of main, cams_release on a table     *)
(* that is only partly filled, camera_new and sink_new on their own        *)
(* failures.                                                               *)
(***************************************************************************)
NothingLeaks == pc = "exit" => held = {}

\* What must still be there while a resource is: a socket is closed before its
\* context; deinit is called by way of the camera and works on the backend's
\* context; the parts of a camera and of the sink are found in it.
Uses ==
  (UNION {{<<Res("socket", c), Res("ctx", 0)>>, <<Res("camera", c), Res("impl", c)>>} :
            c \in Slots})
    \cup {<<Res(kind, c), Res("camera", c)>> :
            kind \in {"device", "socket", "frame", "scratch"}, c \in Slots}
    \cup {<<Res("sink_socket", 0), Res("sink_ctx", 0)>>}
    \cup {<<Res(kind, 0), Res("sink", 0)>> :
            kind \in {"sink_socket", "sink_ctx", "sink_frame"}}

(***************************************************************************)
(* Nothing is released while something that still uses it is held, on any  *)
(* path through the exits of main and of camera_new.  cams_release,        *)
(* camera_del, sink_del.                                                   *)
(***************************************************************************)
UsersGoFirst == \A use \in Uses : use[1] \in held => use[2] \in held

-----------------------------------------------------------------------------
\* The value a file gives a key under a header, or its default.
Says(h, key, def) ==
  LET at == {k \in Settings(h) : file[k].key = key}
  IN  IF at = {} THEN def ELSE file[CHOOSE k \in at : TRUE].value

On(h) == file[h].name \in CamNames /\ Says(h, "enabled", Name("true")) \notin No

\* A number of a file is what the program goes by, if it is one of 32 bits.
\* (Others are mostly refused; ini_get_u32 and parse_grid let some wrap.)
Means(value, number) == value.n \in 0 .. Word - 1 => number = value.n

KeysOf(name) ==
  CASE name = "mock" -> MockKeys
    [] name = "v4l2" -> WebcamKeys
    [] name = "sink" -> SinkKeys

\* A geometry is what the program goes by, each side on its own.
MeansGrid(value, rows, cols) ==
  /\ value.r \in 0 .. Word - 1 => rows = value.r
  /\ value.c \in 0 .. Word - 1 => cols = value.c

\* The sink's settings are those of the file.
SinkSaid(h) ==
  /\ {file[k].key : k \in Settings(h)} \subseteq SinkKeys
  /\ sc.endpoint = Says(h, "endpoint", DefaultEndpoint)
  /\ sc.verbose <=> Says(h, "verbose", Name("true")) \in Yes
  /\ Means(Says(h, "frames", Number(100, 1)), sc.frames)
  /\ Means(Says(h, "timeout_s", Number(60, 1)), sc.timeout_s)
  /\ sc.tol = Says(h, "tol", Number(1, 2))

\* The settings only a mock has, and those only a webcam has.  The mock paces
\* itself to the cadence the sink expects, in whole units of the clock.
MockSaid(c, h) ==
  LET backend == backends[c]
      period  == specs[c].expect_period
  IN  /\ Means(Says(h, "sites", Number(256, 1)), backend.sites)
      /\ backend.period * period.d <= period.n
      /\ period.n < (backend.period + 1) * period.d

WebcamSaid(c, h) ==
  LET backend == backends[c]
  IN  /\ MeansGrid(Says(h, "resolution", Grid(480, 640)), backend.height, backend.width)
      /\ Means(Says(h, "threshold", Number(32, 1)), backend.threshold)
      /\ Means(Says(h, "buffers", Number(4, 1)), backend.buffers)
      /\ Means(Says(h, "timeout_ms", Number(2000, 1)), backend.timeout_ms)
      /\ backend.device = Says(h, "device", DefaultDevice)

\* Camera c and its entry in the sink's table are what the file says under h.
CameraSaid(c, h) ==
  LET backend == backends[c]
      fps     == Says(h, "fps", DefaultFps)
      period  == specs[c].expect_period
  IN  /\ Name(backend.backend) = Says(h, "backend", Empty)
      /\ {file[k].key : k \in Settings(h)} \subseteq KeysOf(backend.backend)
      /\ Means(Says(h, "id", Number(0, 1)), specs[c].camera_id)
      /\ MeansGrid(Says(h, "grid", DefaultGrid), backend.rows, backend.cols)
      /\ capacity[c] = SitesOf(backend) /\ specs[c].max_sites = capacity[c]
      /\ fps.n > 0 => period.n * fps.n = Second * fps.d * period.d
      /\ fps.n <= 0 => period = NoPeriod
      /\ backend.backend = "mock" => MockSaid(c, h)
      /\ backend.backend = "v4l2" => WebcamSaid(c, h)

(***************************************************************************)
(* The threads only start on a complete system: every camera the lines     *)
(* switch on, in its order and no other, is built, the ids are distinct,   *)
(* and the sink and every camera run by each of the settings of their own  *)
(* header, by defaults where there is none, and by no other key.  The      *)
(* capacity of each frame is the number of cells of its grid, which is     *)
(* what the sink judges its sites by, and the sink expects the cadence     *)
(* that the mock paces itself to, though the key is read in two places.    *)
(* build_cameras; this is where Smoke begins.                              *)
(***************************************************************************)
ReadyToRun ==
  pc = "run" =>
    LET cams == {h \in Headers : On(h)}
    IN  /\ n > 0 /\ n = Cardinality(cams)
        /\ \E h \in Headers : file[h].name = "sink" /\ SinkSaid(h)
        /\ \A h \in cams :
             LET c == Place(h, cams)
             IN  /\ {Res(kind, c) : kind \in {"impl", "camera", "frame", "scratch",
                                              "socket"}} \subseteq held
                 /\ backends[c].backend = "v4l2" => Res("device", c) \in held
                 /\ CameraSaid(c, h)
                 /\ \A d \in 1 .. c - 1 : specs[d].camera_id # specs[c].camera_id

(***************************************************************************)
(* main always returns: no exit waits for ever in zmq_ctx_destroy, its own *)
(* or sink_del's, for a socket that nobody will close.  A run that was     *)
(* never made exits with 2 and one that was made does not, so that a       *)
(* broken config is told from a failed check.  The returns of main.        *)
(***************************************************************************)
AlwaysReturns == <>(pc = "exit" /\ (code = 2 <=> ~ran))
=============================================================================
