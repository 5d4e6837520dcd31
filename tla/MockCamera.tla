----------------------------- MODULE MockCamera -----------------------------
(***************************************************************************)
(* The synthetic backend of src/c/mock_camera.c: a context is created from *)
(* a configuration, brought up, and asked for one frame after the other;   *)
(* each acquire sleeps until an absolute deadline and emits a band of      *)
(* cells that walks over the grid.                                         *)
(*                                                                         *)
(* CLOCK_MONOTONIC is the variable now.  It advances by any steps while    *)
(* the thread sleeps or is descheduled, so a wake may come at its deadline *)
(* or any time after it.  The luminance of a site is left out.             *)
(***************************************************************************)
EXTENDS Integers, FiniteSetsExt, SequencesExt

CONSTANTS
  Configs,    \* the configurations asked for, refused ones among them
  Capacities, \* the capacities of the frames handed to acquire
  Word,       \* the number of values of a uint32_t
  MaxNow,     \* bound of the model on the clock
  MaxShots    \* bound of the model on the frames between two calls of init

\* period stands for fps: it is below 1 where fps is not positive or too high.
Config == [rows : Nat, cols : Nat, sites : Nat, period : Int]

\* build_cameras and mock_from_ini only let such a grid get to acquire.
ASSUME MockAssumption ==
  /\ Word \in Nat \ {0}
  /\ Configs \subseteq Config
  /\ \A c \in Configs : c.rows * c.cols < Word
  /\ Capacities \subseteq Nat
  /\ MaxNow \in Nat /\ MaxShots \in Nat

VARIABLES
  exists,   \* is there a context?
  cfg,      \* its configuration
  up,       \* mock_ctx_t's own flag
  next,     \* next_ns
  sequence, \* the number of the next frame
  waiting,  \* the capacity of the frame an acquire is asleep with, or Nobody
  now,      \* CLOCK_MONOTONIC
  start,    \* history: when init was called
  shots     \* history: the frames since

mockVars == <<exists, cfg, up, next, sequence, waiting, now, start, shots>>

Nobody   == -1
NoConfig == [rows |-> 0, cols |-> 0, sites |-> 0, period |-> 0]

Init ==
  /\ exists = FALSE /\ cfg = NoConfig /\ up = FALSE
  /\ next = 0 /\ sequence = 0 /\ waiting = Nobody
  /\ now = 0 /\ start = 0 /\ shots = <<>>

-----------------------------------------------------------------------------
Valid(c) == c.rows # 0 /\ c.cols # 0 /\ c.period > 0

\* mock_ctx_create; a refused configuration leaves no trace.
Create(c) ==
  /\ ~exists
  /\ Valid(c)
  /\ exists' = TRUE /\ cfg' = c
  /\ up' = FALSE /\ next' = 0 /\ sequence' = 0
  /\ UNCHANGED <<waiting, now, start, shots>>

\* Mutant of FirstDeadline: the first frame is due at once.
FirstDeadlineNow(period) == now
FirstDeadline(period) == now + period

\* Mutant of MockInit: the numbering goes on from the last time.
MockInitGoesOn ==
  /\ exists /\ waiting = Nobody
  /\ next' = FirstDeadline(cfg.period)
  /\ up' = TRUE
  /\ start' = now /\ shots' = <<>>
  /\ UNCHANGED <<exists, cfg, sequence, waiting, now>>

MockInit ==
  /\ exists /\ waiting = Nobody
  /\ sequence' = 0
  /\ next' = FirstDeadline(cfg.period)
  /\ up' = TRUE
  /\ start' = now /\ shots' = <<>>
  /\ UNCHANGED <<exists, cfg, waiting, now>>

\* mock_deinit, which camera_del calls whether or not init ran.
MockDeinit ==
  /\ exists /\ waiting = Nobody
  /\ up' = FALSE /\ next' = 0
  /\ UNCHANGED <<exists, cfg, sequence, waiting, now, start, shots>>

Destroy ==
  /\ exists /\ ~up /\ waiting = Nobody
  /\ exists' = FALSE /\ cfg' = NoConfig
  /\ start' = 0 /\ shots' = <<>>
  /\ UNCHANGED <<up, next, sequence, waiting, now>>

\* mock_acquire up to its sleep; it is refused unless the backend is up.
Acquire(capacity) ==
  /\ exists /\ up /\ waiting = Nobody
  /\ Len(shots) < MaxShots
  /\ waiting' = capacity
  /\ UNCHANGED <<exists, cfg, up, next, sequence, now, start, shots>>

Total(c) == (c.rows * c.cols) % Word

\* The i-th cell of the band, i from 0.  Mutant: the band walks over the edge.
SiteOverEdge(c, s, i) == ((s % Total(c)) + i) % Word
Site(c, s, i) == (((s % Total(c)) + i) % Word) % Total(c)

BandLength(c, capacity) == Min({c.sites, Total(c), capacity})

Band(c, s, capacity) ==
  [i \in 1 .. BandLength(c, capacity) |-> Site(c, s, i - 1)]

\* The deadline after a frame stamped t.  Mutants: the test is off by one, or
\* the period alone is added.
DeadlineAfterOffByOne(t) ==
  IF next + cfg.period < t THEN t + cfg.period ELSE next + cfg.period
DeadlineAfterAlone(t) == next + cfg.period
DeadlineAfter(t) ==
  IF next + cfg.period <= t THEN t + cfg.period ELSE next + cfg.period

\* clock_nanosleep returns, and the frame is stamped and filled.
Wake ==
  /\ waiting # Nobody
  /\ now >= next
  /\ next' = DeadlineAfter(now)
  /\ shots' = Append(shots, [t_ns |-> now, sequence |-> sequence,
                             capacity |-> waiting,
                             support |-> Band(cfg, sequence, waiting)])
  /\ sequence' = sequence + 1
  /\ waiting' = Nobody
  /\ UNCHANGED <<exists, cfg, up, now, start>>

\* Time passes.
Tick ==
  /\ now < MaxNow
  /\ now' = now + 1
  /\ UNCHANGED <<exists, cfg, up, next, sequence, waiting, start, shots>>

Next ==
  \/ \E c \in Configs : Create(c)
  \/ MockInit \/ MockDeinit \/ Destroy
  \/ \E capacity \in Capacities : Acquire(capacity)
  \/ Wake \/ Tick

MockSpec == Init /\ [][Next]_mockVars

-----------------------------------------------------------------------------
Shot == [t_ns : Int, sequence : Nat, capacity : Nat, support : Seq(Nat)]

MockTypeOK ==
  /\ exists \in BOOLEAN /\ up \in BOOLEAN
  /\ cfg \in Config
  /\ exists => cfg.rows > 0 /\ cfg.cols > 0 /\ cfg.period > 0
  /\ next \in Int /\ now \in Nat /\ start \in Nat
  /\ sequence \in Nat
  /\ waiting \in Nat \cup {Nobody}
  /\ shots \in Seq(Shot)

(***************************************************************************)
(* What the sink demands of a stream holds of the mock's by itself: from   *)
(* init on the frames are numbered from 0 without a gap and their stamps   *)
(* strictly ascend, however late the thread wakes.  mock_acquire.          *)
(***************************************************************************)
StampsAscend ==
  \A k \in 1 .. Len(shots) :
    /\ shots[k].sequence = k - 1
    /\ k > 1 => shots[k - 1].t_ns < shots[k].t_ns

(***************************************************************************)
(* The comment on the resync in mock_acquire: a thread that was            *)
(* descheduled past its deadlines does not emit the backlog.  Any three    *)
(* frames in a row span at least a period.                                 *)
(***************************************************************************)
NoBacklog ==
  \A k \in 3 .. Len(shots) : shots[k].t_ns >= shots[k - 2].t_ns + cfg.period

(***************************************************************************)
(* The mock never runs ahead of the fps it was asked for: its k-th frame   *)
(* is at least k periods after init.  mock_init and mock_acquire.          *)
(***************************************************************************)
NeverAhead ==
  \A k \in 1 .. Len(shots) : shots[k].t_ns >= start + k * cfg.period

\* Can base + i overflow?
NoOverflow(c) == 2 * Total(c) <= Word

(***************************************************************************)
(* The sites of a frame lie in the grid, which is what the sink checks     *)
(* them against, and they are distinct cells.  The site computation of     *)
(* mock_acquire with its 32-bit sum; beyond 2^31 cells, where that sum     *)
(* can overflow, only the range is claimed.                                *)
(***************************************************************************)
BandAccepted ==
  \A k \in 1 .. Len(shots) :
    LET band == shots[k].support
    IN  /\ Len(band) <= shots[k].capacity
        /\ \A i \in 1 .. Len(band) : band[i] < cfg.rows * cfg.cols
        /\ NoOverflow(cfg) => IsInjective(band)

(***************************************************************************)
(* The mock is a backend as camera.h demands one, numbers its frames       *)
(* without a gap and stamps them in ascending order, which is what a mock  *)
(* is in Smoke: whenever it is brought up, taken down or replaced.         *)
(* mock_camera_interface and mock_max_sites.                               *)
(***************************************************************************)
MockContract ==
  INSTANCE CameraContract WITH
    Gapless <- TRUE, Ascends <- TRUE,
    phase   <- IF up THEN "up" ELSE "down",
    grid    <- cfg.rows * cfg.cols,
    frames  <- IF up THEN [k \in DOMAIN shots |->
                             [t_ns     |-> shots[k].t_ns,
                              sequence |-> shots[k].sequence,
                              support  |-> shots[k].support,
                              room     |-> shots[k].capacity]]
               ELSE <<>>

MockKeepsContract == MockContract!BackendSpec
=============================================================================
