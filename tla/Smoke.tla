-------------------------------- MODULE Smoke --------------------------------
(***************************************************************************)
(* The smoke test of src/c/smoke.c from the first pthread_create to the    *)
(* exit status: one thread per camera runs cam_run, which calls            *)
(* camera_tick until it has made its attempts or g_stop is set; the main   *)
(* thread drains one sink, decides when the run is over, joins the         *)
(* threads, reports and releases everything.                               *)
(*                                                                         *)
(* The queues between a PUSH socket and the sink's PULL socket belong to   *)
(* ZeroMQ.  They are modelled as the code relies on them: a bounded queue  *)
(* at each end, in order, lossless once zmq_send has accepted the message, *)
(* of any latency.  Programs that are not part of the run may connect to   *)
(* the sink's endpoint too; their messages come from the set Foreign.      *)
(*                                                                         *)
(* A frame is reduced to what the sink compares: its camera, its sequence  *)
(* number and its stamp.  A clock of this program advances by one unit     *)
(* with each frame of a camera; the stamps of a webcam are its driver's,   *)
(* which need not advance.  No cadence is expected (expect_period_ms 0, as *)
(* in configs/ini/memtest.ini).                                            *)
(***************************************************************************)
EXTENDS Wire, FiniteSetsExt, SequencesExt

CONSTANTS
  N,             \* the cameras build_cameras made, ids 1 .. N
  Webcams,       \* those whose driver may time out, fail or lose a frame
  DriverStamps,  \* the stamps a webcam's driver may give a frame, 0 for none
  Want,          \* sc.frames: the ticks of each camera, 0 to run until stopped
  SndHwm,        \* the high water mark of a camera's PUSH socket
  RcvHwm,        \* the messages held on the sink's side of one connection
  Prompt,        \* does an accepted message always arrive within one poll?
  Watchdog,      \* is timeout_s set?
  SpawnMayFail,  \* may pthread_create fail?
  Interrupts,    \* may SIGINT arrive?
  Foreign,       \* the messages of other programs
  MaxForeign,    \* bound of the model on how many of them arrive
  MaxSeq         \* bound of the model on the frames of a camera when Want = 0

Cams     == 1 .. N
CameraId == 0 .. N   \* 0 is nobody's

ASSUME SmokeAssumption ==
  /\ N \in Nat \ {0}
  /\ Webcams \subseteq Cams
  /\ DriverStamps \subseteq Int
  /\ Want \in Nat
  /\ SndHwm \in Nat \ {0} /\ RcvHwm \in Nat \ {0}
  /\ Prompt \in BOOLEAN
  /\ Watchdog \in BOOLEAN /\ SpawnMayFail \in BOOLEAN /\ Interrupts \in BOOLEAN
  /\ Foreign \subseteq Message(CameraId)
  /\ MaxForeign \in Nat /\ MaxSeq \in Nat

VARIABLES
  pc,        \* where the main thread is
  g_stop,    \* the stop flag, set by SIGINT and by main
  started,   \* the cameras whose thread was created
  quiet,     \* main's count of empty polls in a row, cut off at 2
  scanned,   \* the cameras main's scan has found finished, 1 .. scanned
  late,      \* history: the returns of sink_recv after the deadline, cut off at 2
  timed_out, \* main's flag
  why,       \* history: what made main leave its loop
  code,      \* the exit status, 0 before it is known
  thread,    \* each camera's thread, its camera_ctx and its driver
  live,      \* the cameras not yet released
  expired,   \* has the deadline passed?
  sndq,      \* the queue of each camera's PUSH socket
  rcvq,      \* the queue of each connection at the sink, 0 the other programs'
  foreign,   \* how many messages of other programs have arrived
  cams, specs, stats, decoded, heard, refused   \* the sink

Connections == 0 .. N

\* The table of build_cameras: every camera, one site each, no cadence.
SmokeSpecs ==
  [c \in Cams |-> [camera_id |-> c, max_sites |-> 1, expect_period |-> 0]]

Sink ==
  INSTANCE Sink WITH
    MaxCameras <- N + 1, DefaultSites <- 0, DefaultPeriod <- 0,
    TolPercent <- 50, DefaultCapacity <- 4096, ReserveFailures <- {},
    SpecTables <- {SmokeSpecs}, ExpectAnytime <- FALSE,
    Arrivals <- {}, MaxReceived <- 0

loopVars == <<quiet, scanned, late>>
mainVars == <<pc, g_stop, started, loopVars, timed_out, why, code, live>>
zmqVars  == <<sndq, rcvq, foreign>>
sinkVars == <<cams, specs, stats, decoded, heard, refused>>
vars     == <<mainVars, thread, expired, zmqVars, sinkVars>>

\* Frame n of camera c, stamped t, as it goes over the wire.
Shot(c, n, t) ==
  Pack([camera_id |-> c, sequence |-> n, t_ns |-> t, count |-> 1,
        support |-> <<0>>, signal |-> <<0>>])

(***************************************************************************)
(* at is where the thread is in cam_run and camera_tick; ticks and failed  *)
(* (rc < 0) are cam_thread_t's; next is the number of the driver's next    *)
(* frame, held that of the frame about to be sent and stamp its t_ns; sent *)
(* and dropped are camera_ctx's counters; skipped is a history of the      *)
(* frames the driver lost.                                                 *)
(***************************************************************************)
Thread ==
  [at : {"idle", "head", "acquire", "send", "count", "fault", "done"},
   ticks : Nat, failed : BOOLEAN, next : Nat, held : Nat,
   stamp : Int, sent : Nat, dropped : Nat, skipped : Nat]

IdleThread ==
  [at |-> "idle", ticks |-> 0, failed |-> FALSE, next |-> 0, held |-> 0,
   stamp |-> 0, sent |-> 0, dropped |-> 0, skipped |-> 0]

-----------------------------------------------------------------------------
\* main after sink_expect: every camera is built and streams, no thread runs.
Init ==
  /\ pc = "spawn" /\ g_stop = FALSE /\ started = {} /\ quiet = 0
  /\ scanned = 0 /\ late = 0
  /\ timed_out = FALSE /\ why = "none" /\ code = 0
  /\ thread = [c \in Cams |-> IdleThread]
  /\ live = Cams
  /\ expired = FALSE
  /\ sndq = [c \in Cams |-> <<>>]
  /\ rcvq = [k \in Connections |-> <<>>]
  /\ foreign = 0
  /\ cams    = [i \in 1 .. N + 1 |-> Sink!NoCam]
  /\ specs   = SmokeSpecs
  /\ stats   = [received |-> 0, bad_parse |-> 0, backwards |-> 0, jitter |-> 0,
                seq_gaps |-> 0, seq_lost |-> 0, bad_index |-> 0,
                bad_value |-> 0, cameras_seen |-> 0, unexpected_cams |-> 0]
  /\ decoded = [capacity |-> 4096, count |-> 0, room |-> 4096]
  /\ heard   = [id \in CameraId |-> <<>>]
  /\ refused = <<>>

-----------------------------------------------------------------------------
(***************************************************************************)
(* The thread of camera c: cam_run around camera_tick.                     *)
(***************************************************************************)

\* Mutant of CamHead: a camera without a number of frames never stops.
CamHeadDeaf(c) ==
  /\ thread[c].at = "head"
  /\ LET over == Want # 0 /\ (g_stop \/ thread[c].ticks >= Want)
     IN  /\ over \/ Want # 0 \/ thread[c].next < MaxSeq
         /\ thread' = [thread EXCEPT ![c].at = IF over THEN "done" ELSE "acquire"]
  /\ UNCHANGED <<mainVars, expired, zmqVars, sinkVars>>

\* The loop's test.  Where nothing else ends the run, the bound of the model
\* holds the thread back after MaxSeq frames until g_stop is set.
CamHead(c) ==
  /\ thread[c].at = "head"
  /\ LET over == g_stop \/ (Want # 0 /\ thread[c].ticks >= Want)
     IN  /\ over \/ Want # 0 \/ thread[c].next < MaxSeq
         /\ thread' = [thread EXCEPT ![c].at = IF over THEN "done" ELSE "acquire"]
  /\ UNCHANGED <<mainVars, expired, zmqVars, sinkVars>>

\* The stamps of the next frame.  A mock's are its own clock's; a webcam's are
\* its driver's, but camera_tick puts the time in place of a stamp that is 0.
Stamps(c) ==
  LET now == thread[c].next + 1
  IN  IF c \in Webcams THEN {IF t = 0 THEN now ELSE t : t \in DriverStamps}
                       ELSE {now}

\* interface->acquire returns a frame, which is packed into scratch.
AcquireFrame(c) ==
  /\ thread[c].at = "acquire"
  /\ \E t \in Stamps(c) :
       thread' = [thread EXCEPT ![c].at    = "send",
                                ![c].held  = thread[c].next,
                                ![c].stamp = t,
                                ![c].next  = @ + 1]
  /\ UNCHANGED <<mainVars, expired, zmqVars, sinkVars>>

\* interface->acquire of a webcam gives no frame: by a timeout, and the tick
\* returns 1, or by an error, and it returns a negative code.
AcquireNothing(c) ==
  /\ c \in Webcams
  /\ thread[c].at = "acquire"
  /\ \E outcome \in {"count", "fault"} :
       thread' = [thread EXCEPT ![c].at = outcome]
  /\ UNCHANGED <<mainVars, expired, zmqVars, sinkVars>>

\* The driver of a webcam numbers a frame that it had no buffer for: it streams
\* from camera_new on, before the first tick, and while the thread is busy.
DriverSkip(c) ==
  /\ c \in Webcams
  /\ thread[c].at # "done"
  /\ thread[c].next < MaxSeq
  /\ thread' = [thread EXCEPT ![c].next = @ + 1, ![c].skipped = @ + 1]
  /\ UNCHANGED <<mainVars, expired, zmqVars, sinkVars>>

\* zmq_send without blocking, which queues the frame or, with a full queue,
\* loses it; the tick returns 0 or 1.
Enqueue(c) ==
  /\ Len(sndq[c]) < SndHwm
  /\ sndq' = [sndq EXCEPT ![c] = Append(@, Shot(c, thread[c].held, thread[c].stamp))]
  /\ thread' = [thread EXCEPT ![c].at = "count", ![c].held = 0, ![c].stamp = 0,
                              ![c].sent = @ + 1]

\* Mutant of Drop: the drop is not counted.
DropUncounted(c) ==
  /\ Len(sndq[c]) >= SndHwm
  /\ thread' = [thread EXCEPT ![c].at = "count", ![c].held = 0, ![c].stamp = 0]
  /\ UNCHANGED sndq

Drop(c) ==
  /\ Len(sndq[c]) >= SndHwm
  /\ thread' = [thread EXCEPT ![c].at = "count", ![c].held = 0, ![c].stamp = 0,
                              ![c].dropped = @ + 1]
  /\ UNCHANGED sndq

\* zmq_send fails for another reason, and the tick returns a negative code: the
\* frame is gone and nothing counts it.
SendError(c) ==
  /\ thread' = [thread EXCEPT ![c].at = "fault", ![c].held = 0, ![c].stamp = 0]
  /\ UNCHANGED sndq

Send(c) ==
  /\ thread[c].at = "send"
  /\ Enqueue(c) \/ Drop(c) \/ SendError(c)
  /\ UNCHANGED <<mainVars, expired, rcvq, foreign, sinkVars>>

\* ct->ticks++: timeouts and drops count as attempts.  Nobody reads the count
\* of a camera that runs until stopped.
Count(c) ==
  /\ thread[c].at = "count"
  /\ thread' = [thread EXCEPT ![c].at = "head",
                              ![c].ticks = IF Want = 0 THEN 0 ELSE @ + 1]
  /\ UNCHANGED <<mainVars, expired, zmqVars, sinkVars>>

\* ct->rc = rc, and the thread ends.
Fault(c) ==
  /\ thread[c].at = "fault"
  /\ thread' = [thread EXCEPT ![c].at = "done", ![c].failed = TRUE]
  /\ UNCHANGED <<mainVars, expired, zmqVars, sinkVars>>

CamStep(c) ==
  CamHead(c) \/ AcquireFrame(c) \/ AcquireNothing(c) \/ Send(c) \/ Count(c) \/ Fault(c)

-----------------------------------------------------------------------------
(***************************************************************************)
(* ZeroMQ, other programs, the terminal and the clock.                     *)
(***************************************************************************)

\* A message of camera c reaches the sink's side of the connection.
Transfer(c) ==
  /\ sndq[c] # <<>>
  /\ Len(rcvq[c]) < RcvHwm
  /\ rcvq' = [rcvq EXCEPT ![c] = Append(@, Head(sndq[c]))]
  /\ sndq' = [sndq EXCEPT ![c] = Tail(@)]
  /\ UNCHANGED <<mainVars, thread, expired, foreign, sinkVars>>

\* A message of another program does.
ForeignArrive ==
  /\ pc \in {"head", "recv", "scan"}
  /\ foreign < MaxForeign
  /\ foreign' = foreign + 1
  /\ \E m \in Foreign : rcvq' = [rcvq EXCEPT ![0] = Append(@, m)]
  /\ UNCHANGED <<mainVars, thread, expired, sndq, sinkVars>>

\* on_sigint
Interrupt ==
  /\ Interrupts
  /\ pc # "exit"
  /\ ~g_stop
  /\ g_stop' = TRUE
  /\ UNCHANGED <<pc, started, loopVars, timed_out, why, code, live, thread, expired,
                 zmqVars, sinkVars>>

\* monotonic_ns() reaches deadline_ns, which is 0 without a watchdog.
Expire ==
  /\ Watchdog
  /\ pc \in {"head", "recv", "scan"}
  /\ ~expired
  /\ expired' = TRUE
  /\ UNCHANGED <<mainVars, thread, zmqVars, sinkVars>>

-----------------------------------------------------------------------------
(***************************************************************************)
(* The main thread.                                                        *)
(***************************************************************************)

\* Mutant of SpawnOne: the count of the cameras starts at 0.
SpawnFromZero ==
  /\ pc = "spawn"
  /\ LET c == Cardinality(started)
     IN  /\ started' = started \cup {c}
         /\ thread' = [thread EXCEPT ![c].at = "head"]
         /\ pc' = IF c = N THEN "head" ELSE "spawn"
  /\ UNCHANGED <<g_stop, loopVars, timed_out, why, code, live, expired, zmqVars,
                 sinkVars>>

\* pthread_create gives the next camera its thread; after the last one the
\* drain loop begins.
SpawnOne ==
  /\ pc = "spawn"
  /\ LET c == Cardinality(started) + 1
     IN  /\ started' = started \cup {c}
         /\ thread' = [thread EXCEPT ![c].at = "head"]
         /\ pc' = IF c = N THEN "head" ELSE "spawn"
  /\ UNCHANGED <<g_stop, loopVars, timed_out, why, code, live, expired, zmqVars,
                 sinkVars>>

\* Mutant of SpawnFail: the stop flag is not set.
SpawnFailGoesOn ==
  /\ SpawnMayFail
  /\ pc = "spawn"
  /\ pc' = "head"
  /\ UNCHANGED <<g_stop, started, loopVars, timed_out, why, code, live, thread, expired,
                 zmqVars, sinkVars>>

\* pthread_create fails: the threads that already run are told to stop.
SpawnFail ==
  /\ SpawnMayFail
  /\ pc = "spawn"
  /\ g_stop' = TRUE
  /\ pc' = "head"
  /\ UNCHANGED <<started, loopVars, timed_out, why, code, live, thread, expired,
                 zmqVars, sinkVars>>

Leave(reason) == pc' = "stop" /\ why' = reason

\* The test of the drain loop.
LoopHead ==
  /\ pc = "head"
  /\ \/ g_stop /\ Leave("stop")
     \/ ~g_stop /\ pc' = "recv" /\ UNCHANGED why
  /\ UNCHANGED <<g_stop, started, loopVars, timed_out, code, live, thread, expired,
                 zmqVars, sinkVars>>

\* want_total, and the test that it was reached.  Mutant: the frames of one
\* camera only.
WantOfOne == Want
WantTotal == Want * N
Complete(received) == WantTotal # 0 /\ received >= WantTotal

\* The returns of sink_recv since the deadline, with this one.
Late == IF expired THEN Min({2, late + 1}) ELSE 0

\* sink_recv handles a message of connection k, whichever is served next.
RecvOne(k) ==
  /\ pc = "recv"
  /\ rcvq[k] # <<>>
  /\ rcvq' = [rcvq EXCEPT ![k] = Tail(@)]
  /\ Sink!RecvMessage(Head(rcvq[k]))
  /\ quiet' = 0
  /\ \/ Complete(stats.received') /\ Leave("total")
     \/ ~Complete(stats.received') /\ pc' = "scan" /\ UNCHANGED why
  /\ late' = Late
  /\ UNCHANGED <<g_stop, started, scanned, timed_out, code, live, thread, expired,
                 sndq, foreign>>

\* sink_recv returns 1: nothing came for 250 ms, or a signal cut the wait short.
\* The total cannot be reached here: the loop would have ended before.
Silent ==
  /\ \A k \in Connections : rcvq[k] = <<>>
  /\ Prompt => \A c \in Cams : sndq[c] = <<>>

RecvNothing ==
  /\ pc = "recv"
  /\ Silent \/ (Interrupts /\ g_stop)
  /\ quiet' = Min({2, quiet + 1})
  /\ late' = Late
  /\ pc' = "scan"
  /\ UNCHANGED <<g_stop, started, scanned, timed_out, why, code, live, thread,
                 expired, zmqVars, sinkVars>>

\* sink_recv returns a negative code: zmq_poll or zmq_msg_recv failed.
RecvError ==
  /\ pc = "recv"
  /\ Leave("error")
  /\ late' = Late
  /\ UNCHANGED <<g_stop, started, quiet, scanned, timed_out, code, live, thread,
                 expired, zmqVars, sinkVars>>

\* Mutant of Producing: a camera that failed is still waited for.
ProducingFailed(c) == c \in started /\ (Want = 0 \/ thread[c].ticks < Want)

Producing(c) ==
  /\ c \in started
  /\ ~thread[c].failed
  /\ Want = 0 \/ thread[c].ticks < Want

(***************************************************************************)
(* main reads rc and ticks of one camera after the other, as long as each  *)
(* is found finished.  The two reads of one camera are one step: ticks     *)
(* stays once rc is set, so what two reads give is what a single one gives *)
(* at one of the two moments or between them.                              *)
(***************************************************************************)
ScanCamera ==
  /\ pc = "scan"
  /\ scanned < N
  /\ ~Producing(scanned + 1)
  /\ scanned' = scanned + 1
  /\ UNCHANGED <<pc, g_stop, started, quiet, late, timed_out, why, code, live,
                 thread, expired, zmqVars, sinkVars>>

\* The scan is over: at the end of the table or at a camera that produces.
Scanned == scanned = N \/ Producing(scanned + 1)

\* Mutant of Finished: silence alone ends the run.
FinishedWhenQuiet == quiet >= 2

Finished == quiet >= 2 /\ scanned = N

\* Mutants of Decide: the deadline is not looked at; it is looked at only when the
\* socket was silent.
DecideWithoutWatchdog ==
  /\ pc = "scan"
  /\ Scanned
  /\ \/ Finished /\ Leave("quiet") /\ UNCHANGED timed_out
     \/ ~Finished /\ pc' = "head" /\ UNCHANGED <<why, timed_out>>
  /\ scanned' = 0
  /\ UNCHANGED <<g_stop, started, quiet, late, code, live, thread, expired, zmqVars,
                 sinkVars>>

DecideWhenSilent ==
  /\ pc = "scan"
  /\ Scanned
  /\ \/ Finished /\ Leave("quiet") /\ UNCHANGED timed_out
     \/ ~Finished /\ expired /\ quiet > 0 /\ Leave("watchdog") /\ timed_out' = TRUE
     \/ ~Finished /\ ~(expired /\ quiet > 0) /\ pc' = "head"
          /\ UNCHANGED <<why, timed_out>>
  /\ scanned' = 0
  /\ UNCHANGED <<g_stop, started, quiet, late, code, live, thread, expired, zmqVars,
                 sinkVars>>

\* The rest of the loop's body: the two tests after the scan.
Decide ==
  /\ pc = "scan"
  /\ Scanned
  /\ \/ Finished /\ Leave("quiet") /\ UNCHANGED timed_out
     \/ ~Finished /\ expired /\ Leave("watchdog") /\ timed_out' = TRUE
     \/ ~Finished /\ ~expired /\ pc' = "head" /\ UNCHANGED <<why, timed_out>>
  /\ scanned' = 0
  /\ UNCHANGED <<g_stop, started, quiet, late, code, live, thread, expired, zmqVars,
                 sinkVars>>

\* g_stop = 1 after the loop.
Stop ==
  /\ pc = "stop"
  /\ g_stop' = TRUE
  /\ pc' = "join"
  /\ UNCHANGED <<started, loopVars, timed_out, why, code, live, thread, expired,
                 zmqVars, sinkVars>>

\* Mutant of Join: the threads are not waited for.
JoinWithoutWait ==
  /\ pc = "join"
  /\ pc' = "report"
  /\ UNCHANGED <<g_stop, started, loopVars, timed_out, why, code, live, thread,
                 expired, zmqVars, sinkVars>>

\* pthread_join of every thread that was created.
Join ==
  /\ pc = "join"
  /\ \A c \in started : thread[c].at = "done"
  /\ pc' = "report"
  /\ UNCHANGED <<g_stop, started, loopVars, timed_out, why, code, live, thread,
                 expired, zmqVars, sinkVars>>

\* sink_report; the watchdog overrides its result in what main returns.
Report ==
  /\ pc = "report"
  /\ code' = IF timed_out \/ Sink!Failed THEN 1 ELSE 0
  /\ pc' = "release"
  /\ UNCHANGED <<g_stop, started, loopVars, timed_out, why, live, thread, expired,
                 zmqVars, sinkVars>>

\* cams_release: camera_del stops the next camera's driver and closes its
\* socket; without linger, what the socket still holds is gone.
Release ==
  /\ pc = "release"
  /\ live # {}
  /\ live' = live \ {Min(live)}
  /\ sndq' = [sndq EXCEPT ![Min(live)] = <<>>]
  /\ UNCHANGED <<pc, g_stop, started, loopVars, timed_out, why, code, thread, expired,
                 rcvq, foreign, sinkVars>>

\* zmq_ctx_destroy, which waits until every socket of the context is closed,
\* then sink_del and the return from main.
Destroy ==
  /\ pc = "release"
  /\ live = {}
  /\ pc' = "exit"
  /\ UNCHANGED <<g_stop, started, loopVars, timed_out, why, code, live, thread,
                 expired, zmqVars, sinkVars>>

MainStep ==
  \/ SpawnOne \/ SpawnFail
  \/ LoopHead \/ (\E k \in Connections : RecvOne(k)) \/ RecvNothing
  \/ ScanCamera \/ Decide
  \/ Stop \/ Join \/ Report \/ Release \/ Destroy

\* The process is gone.
Terminated == pc = "exit" /\ UNCHANGED vars

Next ==
  \/ MainStep
  \/ RecvError
  \/ \E c \in Cams : CamStep(c) \/ Transfer(c) \/ DriverSkip(c)
  \/ ForeignArrive \/ Interrupt \/ Expire
  \/ Terminated

Spec == Init /\ [][Next]_vars

(***************************************************************************)
(* Every thread is scheduled, acquire always returns (the mock sleeps      *)
(* until a deadline, the webcam polls with a timeout) and an accepted      *)
(* message is eventually delivered.  Nothing is assumed of the driver's    *)
(* losses, of other programs, of errors, of SIGINT or of the clock.        *)
(***************************************************************************)
Fairness ==
  /\ WF_vars(MainStep)
  /\ \A c \in Cams : WF_vars(CamStep(c)) /\ WF_vars(Transfer(c))

FairSpec == Spec /\ Fairness

-----------------------------------------------------------------------------
\* Types of the state; what the sink keeps is typed in Sink.
TypeOK ==
  /\ pc \in {"spawn", "head", "recv", "scan", "stop", "join", "report", "release",
            "exit"}
  /\ g_stop \in BOOLEAN /\ timed_out \in BOOLEAN /\ expired \in BOOLEAN
  /\ started \subseteq Cams /\ live \subseteq Cams
  /\ quiet \in 0 .. 2 /\ scanned \in 0 .. N /\ late \in 0 .. 2
  /\ why \in {"none", "stop", "total", "quiet", "watchdog", "error"}
  /\ code \in {0, 1}
  /\ thread \in [Cams -> Thread]
  /\ sndq \in [Cams -> Seq(Message(CameraId))]
  /\ rcvq \in [Connections -> Seq(Message(CameraId))]
  /\ foreign \in 0 .. MaxForeign

Numbers(s) == [i \in DOMAIN s |-> s[i].sequence]

\* The frames of camera c that zmq_send accepted, from the sink back to the
\* camera, and the one about to be sent.
Travelling(c) ==
  Numbers(heard[c]) \o Numbers(rcvq[c]) \o Numbers(sndq[c])

(***************************************************************************)
(* Nothing is lost, doubled or overtaken on the way: until the sockets are *)
(* closed, what a camera has sent is what the sink has checked and what    *)
(* still travels, in the order of the frame numbers, and every number the  *)
(* driver gave out was sent, dropped by a full queue, skipped by the       *)
(* driver or is about to be sent, but for the last one of a camera that    *)
(* failed.  camera_tick, sink_recv, cams_release.  (A message of another   *)
(* program that bears a camera's id is excluded by the choice of Foreign.) *)
(***************************************************************************)
FramesConserved ==
  \A c \in live :
    LET way    == Travelling(c)
        unsent == thread[c].next - thread[c].sent - thread[c].dropped
                    - thread[c].skipped
    IN  /\ Len(way) = thread[c].sent
        /\ \A i \in 1 .. Len(way) - 1 : way[i] < way[i + 1]
        /\ thread[c].at = "send" => \A i \in DOMAIN way : way[i] < thread[c].held
        /\ \/ thread[c].at # "send" /\ unsent = 0
           \/ (thread[c].at \in {"send", "fault"} \/ thread[c].failed) /\ unsent = 1

(***************************************************************************)
(* The sink never cries wolf: as long as nobody else sends anything, the   *)
(* frames it counts as lost were lost by a camera, and a run without a     *)
(* timeout in which something was received only fails when a frame was     *)
(* really lost or the stamps that the driver of a webcam gave its frames   *)
(* do not ascend; v4l2_acquire only warns of their clock.  camera_tick,    *)
(* sink_validate, sink_report and the end of main.                         *)
(***************************************************************************)
LossesAreReal ==
  LET Losses(c) == thread[c].dropped + thread[c].skipped
      total     == MapThenSumSet(Losses, Cams)
  IN  foreign = 0 =>
        /\ stats.seq_lost <= total
        /\ (pc = "exit" /\ code = 1 /\ ~timed_out /\ stats.received > 0) =>
             \/ total > 0
             \/ \E c \in Webcams : ~Sink!Ascending(heard[c])

(***************************************************************************)
(* When main stops draining because the total is reached, and nobody else  *)
(* sent anything, every tick of every camera gave a frame and the sink has *)
(* checked all of them, numbered without a gap unless the driver skipped.  *)
(* The comment on main's drain loop.                                       *)
(***************************************************************************)
TotalMeansEveryFrame ==
  (why = "total" /\ foreign = 0) =>
    \A c \in Cams : /\ Len(heard[c]) = Want
                    /\ thread[c].sent = Want /\ thread[c].dropped = 0
                    /\ thread[c].at \in {"head", "count", "done"}

(***************************************************************************)
(* When main stops draining because everyone is finished, no camera sends  *)
(* another frame, though main read ticks and rc without a lock and one     *)
(* camera after the other.  main's scan, cam_run.                          *)
(***************************************************************************)
QuietMeansNobodySends ==
  why = "quiet" => \A c \in Cams : thread[c].at \in {"idle", "head", "done"}

(***************************************************************************)
(* A thread only runs while its camera exists: cams_release comes after    *)
(* the join of every thread that was created, on every path out of the     *)
(* drain loop, a failed pthread_create included.                           *)
(***************************************************************************)
NoUseAfterRelease ==
  \A c \in Cams : thread[c].at \notin {"idle", "done"} => c \in live

(***************************************************************************)
(* A run in which not every camera got its thread never exits with 0.      *)
(* Nothing in main remembers the failure: it follows from the drain loop   *)
(* being skipped, so that nothing is received.                             *)
(***************************************************************************)
SpawnFailureFails == (pc = "exit" /\ started # Cams) => code = 1

\* A run with a number of frames to send ends: queues that fill up, frames that
\* are lost and cameras that fail do not keep main in its loop.
Termination == <>(pc = "exit")

\* Once the stop flag is set, whoever set it, the run ends.
StopEndsRun == g_stop ~> pc = "exit"

(***************************************************************************)
(* The deadline is looked at whatever sink_recv returned: once it has      *)
(* passed, main comes back from at most one more call of sink_recv before  *)
(* it leaves its loop, also when a message is there every time.  The drain *)
(* loop of main.                                                           *)
(***************************************************************************)
OneMoreReceive == late <= 1

\* Once the deadline has passed the run ends, also when no camera ever does: main
\* leaves its loop, stops every thread, joins it and releases everything.
DeadlineEndsRun == expired ~> pc = "exit"

(***************************************************************************)
(* The comment on main's exit when everyone has finished, smoke.c:562: and *)
(* nothing is still arriving.                                              *)
(***************************************************************************)
NothingStillArriving ==
  why = "quiet" => \A c \in Cams : sndq[c] = <<>> /\ rcvq[c] = <<>>

=============================================================================
