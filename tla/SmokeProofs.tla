----------------------------- MODULE SmokeProofs -----------------------------
(***************************************************************************)
(* What is proved of a run of the smoke test for every number of cameras,  *)
(* of frames, of places in the queues and of messages from elsewhere: the  *)
(* order in which main starts, stops, joins and releases the threads, and  *)
(* that nothing is lost on the way from a driver to the verdict.           *)
(*                                                                         *)
(* The inductive invariant has one part for main (Phases), one for the     *)
(* threads (Threads), one for the queues and the sink (Queues), one for    *)
(* what travels from each camera to the sink (Way) and one for what the    *)
(* counters of the sink say of it (Verdict).  The deadline has one of its  *)
(* own (Deadline).                                                         *)
(***************************************************************************)
EXTENDS Smoke, WireProofs, DataLemmas

\* The sink of the run, with the theorems about it.
SP ==
  INSTANCE SinkProofs WITH
    MaxCameras <- N + 1, DefaultSites <- 0, DefaultPeriod <- 0,
    TolPercent <- 50, DefaultCapacity <- 4096, ReserveFailures <- {},
    SpecTables <- {SmokeSpecs}, ExpectAnytime <- FALSE,
    Arrivals <- {}, MaxReceived <- 0

-----------------------------------------------------------------------------
(***************************************************************************)
(* The inductive invariant.                                                *)
(***************************************************************************)
Places == {"spawn", "head", "recv", "scan", "stop", "join", "report", "release",
           "exit"}

\* The places after the drain loop, and those after the join.
Left   == {"stop", "join", "report", "release", "exit"}
Joined == {"report", "release", "exit"}

\* Threads are created in order; where one is missing, the loop is skipped.
Phases ==
  /\ pc \in Places
  /\ scanned \in 0 .. N /\ (pc # "scan" => scanned = 0)
  /\ \E k \in 0 .. N : started = 1 .. k /\ (pc = "spawn" => k < N)
  /\ pc = "spawn" => stats.received = 0
  /\ pc # "spawn" /\ started # Cams =>
       g_stop /\ pc \notin {"recv", "scan"} /\ stats.received = 0
  /\ live \subseteq Cams
  /\ pc \notin {"release", "exit"} => live = Cams
  /\ why = "none" <=> pc \notin Left
  /\ timed_out = (why = "watchdog")
  /\ pc \in {"release", "exit"} => code = IF timed_out \/ Sink!Failed THEN 1 ELSE 0

\* A mock's frames are stamped by a clock that advances with their numbers.
Stamped(c, n, t) == c \notin Webcams => t = n + 1

\* An attempt is sent, dropped or neither, and counted after it was made; a camera
\* that main's scan has passed stays finished.
ThreadOK(c) ==
  /\ c \notin started <=> thread[c].at = "idle"
  /\ thread[c].failed => thread[c].at = "done"
  /\ Want # 0 =>
       /\ thread[c].ticks <= Want
       /\ thread[c].at \in {"acquire", "send", "count", "fault"} =>
            thread[c].ticks < Want
       /\ thread[c].sent + thread[c].dropped <=
            thread[c].ticks + IF thread[c].at = "count" THEN 1 ELSE 0
  /\ pc \in Joined /\ c \in started => thread[c].at = "done"
  /\ why = "quiet" \/ c <= scanned => ~Producing(c)
  /\ thread[c].at = "send" => Stamped(c, thread[c].held, thread[c].stamp)

Threads == thread \in [Cams -> Thread] /\ \A c \in Cams : ThreadOK(c)

\* Only frames of a camera are in the queues of its connection.
Shots(c) ==
  {m \in Message(CameraId) : \E n \in Nat, t \in Int :
                               m = Shot(c, n, t) /\ Stamped(c, n, t)}

Queues ==
  /\ DOMAIN sndq = Cams /\ DOMAIN rcvq = Connections
  /\ \A c \in Cams : sndq[c] \in Seq(Shots(c)) /\ rcvq[c] \in Seq(Shots(c))
  /\ rcvq[0] \in Seq(Foreign)
  /\ foreign \in 0 .. MaxForeign
  /\ foreign = 0 => rcvq[0] = <<>>
  /\ SP!TableInv
  /\ specs = SmokeSpecs
  /\ decoded.capacity > 0

\* No other program's message bears the id of a camera of the run.
Strangers == \A m \in Foreign : m.camera_id \notin Cams
Unmixed   == foreign = 0 \/ Strangers

\* The numbers that the last frame heard of camera c leaves out.
Missing(c) ==
  IF heard[c] = <<>> THEN 0
  ELSE heard[c][Len(heard[c])].sequence + 1 - Len(heard[c])

Unsent(c) ==
  thread[c].next - thread[c].sent - thread[c].dropped - thread[c].skipped

\* What travels, while the sockets of the camera are open.
Moving(c) ==
  LET way == Travelling(c)
  IN  /\ Len(way) = thread[c].sent
      /\ \A i \in 1 .. Len(way) - 1 : way[i] < way[i + 1]
      /\ \A i \in 1 .. Len(way) :
           /\ i - 1 <= way[i] /\ way[i] < i + thread[c].dropped + thread[c].skipped
           /\ way[i] < thread[c].next
           /\ thread[c].at = "send" => way[i] < thread[c].held

\* The numbers that the driver gave out, all but one of them accounted for.
Numbered(c) ==
  /\ thread[c].at = "send" => thread[c].held < thread[c].next
  /\ \/ thread[c].at # "send" /\ Unsent(c) = 0
     \/ (thread[c].at \in {"send", "fault"} \/ thread[c].failed) /\ Unsent(c) = 1

\* What the sink has heard is no more than what was sent, and misses no more than
\* what was lost.
Reached(c) ==
  /\ \A i \in 1 .. Len(heard[c]) :
       Stamped(c, heard[c][i].sequence, heard[c][i].t_ns)
  /\ Len(heard[c]) <= thread[c].sent
  /\ 0 <= Missing(c) /\ Missing(c) <= thread[c].dropped + thread[c].skipped

Way ==
  /\ \A c \in Cams : Numbered(c)
  /\ Unmixed => \A c \in Cams : (c \in live => Moving(c)) /\ Reached(c)

\* How many frames of each camera were heard, how many numbers the sink has
\* missed, and how many each camera has lost.
Heard  == [c \in Cams |-> Len(heard[c])]
Missed == [c \in Cams |-> Missing(c)]
Losses == [c \in Cams |-> thread[c].dropped + thread[c].skipped]

Verdict ==
  /\ why = "total" => Complete(stats.received)
  /\ foreign = 0 =>
       /\ stats.received = Cardinality(Pile(Cams, Heard))
       /\ stats.seq_lost <= Cardinality(Pile(Cams, Missed))
       /\ stats.bad_parse = 0 /\ stats.bad_index = 0
       /\ stats.bad_value = 0 /\ stats.unexpected_cams = 0
       /\ stats.backwards > 0 => \E c \in Webcams : ~Sink!Ascending(heard[c])
       /\ stats.seq_gaps > 0 => \E c \in Cams : Missing(c) > 0
       /\ \A i \in SP!Slot : cams[i].seen =>
            cams[i].spec_known /\ cams[i].max_sites = 1

SmokeInv == Phases /\ Threads /\ Queues /\ Way /\ Verdict

-----------------------------------------------------------------------------
(***************************************************************************)
(* The main thread.                                                        *)
(***************************************************************************)

\* The cameras' threads, the driver, the network, other programs and the clock
\* leave the main thread and the sink alone.
OtherStep ==
  \/ \E c \in Cams : CamStep(c) \/ Transfer(c) \/ DriverSkip(c)
  \/ ForeignArrive \/ Expire

LEMMA OthersLeaveMain ==
  ASSUME OtherStep
  PROVE  UNCHANGED mainVars /\ UNCHANGED sinkVars
BY DEF OtherStep, CamStep, CamHead, AcquireFrame, AcquireNothing, Send, Count, Fault,
       Transfer, DriverSkip, ForeignArrive, Expire

\* The threads that were created are those of the first cameras.
LEMMA FirstCams ==
  ASSUME Phases
  PROVE  /\ started \subseteq Cams
         /\ Cardinality(started) \in 0 .. N
         /\ started = 1 .. Cardinality(started)
         /\ pc = "spawn" => Cardinality(started) < N
         /\ Cardinality(started) = N => started = Cams
<1>1. PICK k \in 0 .. N : started = 1 .. k /\ (pc = "spawn" => k < N)
  BY DEF Phases
<1>2. N \in Nat
  BY SmokeAssumption
<1>3. Cardinality(1 .. k) = k
  BY FS_Interval
<1> QED BY <1>1, <1>2, <1>3 DEF Cams

LEMMA SpawnOnePhases ==
  ASSUME Phases, SpawnOne
  PROVE  Phases'
<1> DEFINE k == Cardinality(started)
<1>1. /\ k \in 0 .. N /\ k < N /\ started = 1 .. k /\ started # Cams
  BY FirstCams, SmokeAssumption DEF SpawnOne, Cams
<1>2. /\ pc = "spawn" /\ started' = started \cup {k + 1}
      /\ pc' = IF k + 1 = N THEN "head" ELSE "spawn"
      /\ UNCHANGED <<g_stop, scanned, timed_out, why, code, live, sinkVars>>
  BY DEF SpawnOne, loopVars
<1> HIDE DEF k
<1>3. N \in Nat /\ started' = 1 .. k + 1 /\ k + 1 \in 0 .. N
  BY <1>1, <1>2, SmokeAssumption
<1>4. \E j \in 0 .. N : started' = 1 .. j /\ (pc' = "spawn" => j < N)
  <2>1. pc' = "spawn" => k + 1 < N
    BY <1>1, <1>2, <1>3
  <2> QED BY <1>3, <2>1
<1>5. pc' = "head" => started' = Cams
  BY <1>2, <1>3 DEF Cams
<1> QED BY <1>2, <1>4, <1>5 DEF Phases, Places, Left, sinkVars

LEMMA MainPhases ==
  ASSUME Phases, MainStep \/ RecvError
  PROVE  Phases'
<1>1. CASE SpawnOne
  BY <1>1, SpawnOnePhases
<1>2. CASE SpawnFail
  BY <1>2, FirstCams DEF SpawnFail, loopVars, Phases, Places, Left, sinkVars
<1>3. CASE LoopHead
  BY <1>3 DEF LoopHead, loopVars, Leave, Phases, Places, Left, sinkVars
<1>4. ASSUME NEW k \in Connections, RecvOne(k) PROVE Phases'
  BY <1>4 DEF RecvOne, loopVars, Leave, Phases, Places, Left
<1>5. CASE RecvNothing
  BY <1>5 DEF RecvNothing, loopVars, Phases, Places, Left, sinkVars
<1>6. CASE RecvError
  BY <1>6 DEF RecvError, loopVars, Leave, Phases, Places, Left, sinkVars
<1>7. CASE ScanCamera \/ Decide
  <2>1. scanned' \in 0 .. N /\ (pc' # "scan" => scanned' = 0)
    BY <1>7, SmokeAssumption DEF ScanCamera, Decide, Leave, Phases
  <2> QED BY <1>7, <2>1 DEF ScanCamera, Decide, Leave, Phases, Places, Left, sinkVars
<1>8. CASE Stop
  BY <1>8 DEF Stop, loopVars, Phases, Places, Left, sinkVars
<1>9. CASE Join
  BY <1>9 DEF Join, loopVars, Phases, Places, Left, sinkVars
<1>10. CASE Report
  BY <1>10 DEF Report, loopVars, Phases, Places, Left, sinkVars, Sink!Failed
<1>11. CASE Release
  BY <1>11 DEF Release, loopVars, Phases, Places, Left, sinkVars, Sink!Failed
<1>12. CASE Destroy
  BY <1>12 DEF Destroy, loopVars, Phases, Places, Left, sinkVars, Sink!Failed
<1> QED BY <1>1, <1>2, <1>3, <1>4, <1>5, <1>6, <1>7, <1>8, <1>9, <1>10, <1>11, <1>12
        DEF MainStep

\* Every step keeps the order of main.
LEMMA PhasesNext == Phases /\ [Next]_vars => Phases'
<1> SUFFICES ASSUME Phases, [Next]_vars PROVE Phases'
  OBVIOUS
<1>1. CASE MainStep \/ RecvError
  BY <1>1, MainPhases
<1>2. CASE OtherStep \/ UNCHANGED vars
  <2>1. UNCHANGED mainVars /\ UNCHANGED sinkVars
    BY <1>2, OthersLeaveMain DEF vars
  <2> QED BY <2>1 DEF Phases, mainVars, loopVars, sinkVars, Sink!Failed
<1>3. CASE Interrupt
  BY <1>3 DEF Interrupt, loopVars, Phases, sinkVars, Sink!Failed
<1> QED BY <1>1, <1>2, <1>3 DEF Next, OtherStep, Terminated

-----------------------------------------------------------------------------
(***************************************************************************)
(* The cameras' threads.                                                   *)
(***************************************************************************)

\* What a send does to the thread that makes it.
LEMMA SendEffect ==
  ASSUME thread \in [Cams -> Thread], NEW c \in Cams, Send(c)
  PROVE  /\ thread' \in [Cams -> Thread]
         /\ \A d \in Cams : d # c => thread'[d] = thread[d]
         /\ thread'[c].failed = thread[c].failed /\ thread'[c].ticks = thread[c].ticks
         /\ thread'[c].next = thread[c].next /\ thread'[c].skipped = thread[c].skipped
         /\ thread'[c].held = 0
         /\ \/ /\ thread'[c].at = "fault" /\ SendError(c)
               /\ thread'[c].sent = thread[c].sent
               /\ thread'[c].dropped = thread[c].dropped
            \/ /\ thread'[c].at = "count" /\ Enqueue(c)
               /\ thread'[c].sent = thread[c].sent + 1
               /\ thread'[c].dropped = thread[c].dropped
            \/ /\ thread'[c].at = "count" /\ Drop(c)
               /\ thread'[c].sent = thread[c].sent
               /\ thread'[c].dropped = thread[c].dropped + 1
<1>1. CASE Enqueue(c)
  <2>1. thread' = [thread EXCEPT ![c].at = "count", ![c].held = 0, ![c].stamp = 0,
                                   ![c].sent = @ + 1]
    BY <1>1 DEF Enqueue
  <2> QED BY <1>1, <2>1 DEF Thread
<1>2. CASE Drop(c)
  <2>1. thread' = [thread EXCEPT ![c].at = "count", ![c].held = 0, ![c].stamp = 0,
                                   ![c].dropped = @ + 1]
    BY <1>2 DEF Drop
  <2> QED BY <1>2, <2>1 DEF Thread
<1>3. CASE SendError(c)
  <2>1. /\ thread' = [thread EXCEPT ![c].at = "fault", ![c].held = 0, ![c].stamp = 0]
        /\ 0 \in Nat /\ 0 \in Int /\ thread[c] \in Thread
    BY <1>3 DEF SendError
  <2>2. /\ \A d \in Cams : d # c => thread'[d] = thread[d]
        /\ thread'[c] = [thread[c] EXCEPT !.at = "fault", !.held = 0, !.stamp = 0]
        /\ DOMAIN thread' = Cams /\ thread' = [d \in Cams |-> thread'[d]]
    BY <2>1
  <2>3. /\ thread'[c] \in Thread
        /\ thread'[c].at = "fault" /\ thread'[c].held = 0
        /\ thread'[c].failed = thread[c].failed /\ thread'[c].ticks = thread[c].ticks
        /\ thread'[c].next = thread[c].next /\ thread'[c].skipped = thread[c].skipped
        /\ thread'[c].sent = thread[c].sent /\ thread'[c].dropped = thread[c].dropped
    BY <2>1, <2>2 DEF Thread
  <2>4. thread' \in [Cams -> Thread]
    BY <2>2, <2>3
  <2> QED BY <1>3, <2>2, <2>3, <2>4
<1> QED BY <1>1, <1>2, <1>3 DEF Send

\* A step of one thread or of its driver.
LEMMA ThreadStep ==
  ASSUME Threads, NEW c \in Cams, CamStep(c) \/ DriverSkip(c)
  PROVE  Threads'
<1>1. thread \in [Cams -> Thread] /\ \A d \in Cams : ThreadOK(d)
  BY DEF Threads
<1>2. UNCHANGED mainVars
  BY OthersLeaveMain DEF OtherStep
<1>3. Want \in Nat
  BY SmokeAssumption
<1>4. /\ thread' \in [Cams -> Thread]
      /\ \A d \in Cams : d # c => thread'[d] = thread[d]
      /\ ThreadOK(c)'
  <2>1. CASE CamHead(c)
    BY <1>1, <1>2, <1>3, <2>1 DEF CamHead, Thread, ThreadOK, Producing, mainVars, loopVars
  <2>2. CASE AcquireFrame(c)
    BY <1>1, <1>2, <1>3, <2>2 DEF AcquireFrame, Stamps, Stamped, Thread, ThreadOK, Producing, mainVars, loopVars
  <2>3. CASE AcquireNothing(c)
    BY <1>1, <1>2, <1>3, <2>3 DEF AcquireNothing, Thread, ThreadOK, Producing, mainVars, loopVars
  <2>4. CASE Send(c)
    <3>0. thread[c].sent \in Nat /\ thread[c].dropped \in Nat
      BY <1>1 DEF Thread
    <3>1. /\ thread' \in [Cams -> Thread]
          /\ \A d \in Cams : d # c => thread'[d] = thread[d]
          /\ thread'[c].failed = thread[c].failed /\ thread'[c].ticks = thread[c].ticks
          /\ \/ /\ thread'[c].at = "fault"
                /\ thread'[c].sent = thread[c].sent
                /\ thread'[c].dropped = thread[c].dropped
             \/ /\ thread'[c].at = "count"
                /\ thread'[c].sent + thread'[c].dropped = thread[c].sent + thread[c].dropped + 1
      BY <1>1, <2>4, <3>0, SendEffect
    <3>2. thread[c].at = "send"
      BY <2>4 DEF Send
    <3> QED BY <1>1, <1>2, <1>3, <3>1, <3>2 DEF Thread, ThreadOK, Producing, mainVars, loopVars
  <2>5. CASE Count(c)
    <3> DEFINE t == IF Want = 0 THEN 0 ELSE thread[c].ticks + 1
    <3>1. thread' = [thread EXCEPT ![c].at = "head", ![c].ticks = t] /\ thread[c].at = "count"
      BY <2>5 DEF Count
    <3>2. t \in Nat /\ (Want # 0 => t = thread[c].ticks + 1)
      BY <1>1 DEF Thread
    <3> HIDE DEF t
    <3>3. /\ thread' \in [Cams -> Thread]
          /\ \A d \in Cams : d # c => thread'[d] = thread[d]
          /\ thread'[c].at = "head" /\ thread'[c].failed = thread[c].failed
          /\ thread'[c].ticks = t /\ thread'[c].sent = thread[c].sent
          /\ thread'[c].dropped = thread[c].dropped
      BY <1>1, <3>1, <3>2 DEF Thread
    <3>4. ThreadOK(c)'
      BY <1>1, <1>2, <1>3, <3>1, <3>2, <3>3 DEF Thread, ThreadOK, Producing, mainVars, loopVars
    <3> QED BY <3>3, <3>4
  <2>6. CASE Fault(c)
    BY <1>1, <1>2, <1>3, <2>6 DEF Fault, Thread, ThreadOK, Producing, mainVars, loopVars
  <2>7. CASE DriverSkip(c)
    BY <1>1, <1>2, <1>3, <2>7 DEF DriverSkip, Thread, ThreadOK, Producing, mainVars, loopVars
  <2> QED BY <2>1, <2>2, <2>3, <2>4, <2>5, <2>6, <2>7 DEF CamStep
<1>5. ASSUME NEW d \in Cams, d # c PROVE ThreadOK(d)'
  BY <1>1, <1>2, <1>4, <1>5 DEF ThreadOK, Producing, mainVars, loopVars
<1> QED BY <1>4, <1>5 DEF Threads

LEMMA SpawnThreads ==
  ASSUME Phases, Threads, SpawnOne
  PROVE  Threads'
<1>1. PICK c \in Cams : c = Cardinality(started) + 1 /\ c \notin started
  BY FirstCams, SmokeAssumption DEF SpawnOne, Cams
<1>2. /\ started' = started \cup {c}
      /\ thread' = [thread EXCEPT ![c].at = "head"]
      /\ pc' \in {"head", "spawn"} /\ UNCHANGED why /\ why # "quiet"
      /\ scanned' = 0
      /\ \A d \in Cams : ~(d <= 0)
  BY <1>1 DEF SpawnOne, loopVars, Phases, Left, Cams
<1>3. thread \in [Cams -> Thread] /\ \A d \in Cams : ThreadOK(d)
  BY DEF Threads
<1>4. /\ thread' \in [Cams -> Thread]
      /\ \A d \in Cams : d # c => thread'[d] = thread[d]
      /\ ThreadOK(c)'
  <2>1. /\ thread' \in [Cams -> Thread]
        /\ \A d \in Cams : d # c => thread'[d] = thread[d]
        /\ thread'[c].at = "head" /\ thread'[c].failed = thread[c].failed
        /\ thread'[c].ticks = thread[c].ticks /\ thread'[c].sent = thread[c].sent
        /\ thread'[c].dropped = thread[c].dropped
    BY <1>1, <1>2, <1>3 DEF Thread
  <2>2. thread[c].at = "idle"
    BY <1>1, <1>3 DEF ThreadOK
  <2>3. ThreadOK(c)'
    BY <1>1, <1>2, <1>3, <2>1, <2>2 DEF ThreadOK, Joined
  <2> QED BY <2>1, <2>3
<1>5. ASSUME NEW d \in Cams, d # c PROVE ThreadOK(d)'
  BY <1>2, <1>3, <1>4, <1>5 DEF ThreadOK, Joined
<1> QED BY <1>4, <1>5 DEF Threads

\* Every step keeps the threads in their order.
LEMMA ThreadsNext == Phases /\ Threads /\ [Next]_vars => Threads'
<1> SUFFICES ASSUME Phases, Threads, [Next]_vars PROVE Threads'
  OBVIOUS
<1>1. CASE SpawnOne
  BY <1>1, SpawnThreads
<1>2. ASSUME NEW c \in Cams, CamStep(c) \/ DriverSkip(c) PROVE Threads'
  BY <1>2, ThreadStep
<1>3. CASE Join
  BY <1>3, FirstCams DEF Join, loopVars, Threads, ThreadOK, Joined, Producing
<1>4. CASE ScanCamera \/ Decide
  <2>1. UNCHANGED <<thread, started>> /\ pc' \notin Joined
    BY <1>4 DEF ScanCamera, Decide, Leave, Joined
  <2>2. ASSUME NEW c \in Cams, why' = "quiet" \/ c <= scanned' PROVE ~Producing(c)
    <3>1. scanned \in Nat /\ N \in Nat /\ c \in Nat /\ c <= N /\ c > 0
      BY SmokeAssumption DEF Phases, Cams
    <3>2. why = "quiet" \/ c <= scanned => ~Producing(c)
      BY DEF Threads, ThreadOK
    <3>3. CASE ScanCamera
      <4>1. scanned' = scanned + 1 /\ why' = why /\ ~Producing(scanned + 1)
        BY <3>3 DEF ScanCamera
      <4>2. CASE c = scanned + 1
        BY <4>1, <4>2
      <4>3. CASE c # scanned + 1
        <5>1. why = "quiet" \/ c <= scanned
          BY <2>2, <3>1, <4>1, <4>3
        <5> QED BY <3>2, <5>1
      <4> QED BY <4>2, <4>3
    <3>4. CASE Decide
      <4>1. scanned' = 0 /\ (why' = "quiet" => why = "quiet" \/ scanned = N)
        BY <3>4 DEF Decide, Leave, Finished
      <4>2. why = "quiet" \/ c <= scanned
        BY <2>2, <3>1, <4>1
      <4> QED BY <3>2, <4>2
    <3> QED BY <1>4, <3>3, <3>4
  <2>3. ASSUME NEW c \in Cams PROVE ThreadOK(c)'
    <3>1. ThreadOK(c)
      BY DEF Threads
    <3>2. why' = "quiet" \/ c <= scanned' => ~Producing(c)
      BY <2>2
    <3> QED BY <2>1, <3>1, <3>2 DEF ThreadOK, Producing
  <2> QED BY <2>1, <2>3 DEF Threads
<1>5. ASSUME UNCHANGED <<thread, started>>,
             pc' \in Joined => pc \in Joined, why' = "quiet" => why = "quiet",
             scanned' = scanned
      PROVE  Threads'
  BY <1>5 DEF Threads, ThreadOK, Producing
<1>6. ASSUME SpawnFail \/ LoopHead \/ RecvNothing \/ RecvError \/ Stop \/ Report
               \/ Release \/ Destroy \/ Interrupt \/ Expire \/ ForeignArrive
               \/ UNCHANGED vars
      PROVE  Threads'
  <2>1. UNCHANGED <<thread, started>>
    BY <1>6 DEF SpawnFail, LoopHead, RecvNothing, RecvError, Stop, Report, Release,
                Destroy, Interrupt, Expire, ForeignArrive, vars, mainVars, loopVars
  <2>2. /\ pc' \in Joined => pc \in Joined
        /\ why' = "quiet" => why = "quiet"
        /\ scanned' = scanned
    BY <1>6 DEF SpawnFail, LoopHead, RecvNothing, RecvError, Stop, Report, Release,
                Destroy, Interrupt, Expire, ForeignArrive, vars, mainVars, loopVars, Leave, Joined
  <2> QED BY <1>5, <2>1, <2>2
<1>7. ASSUME NEW k \in Connections, RecvOne(k) PROVE Threads'
  BY <1>5, <1>7 DEF RecvOne, Leave, Joined
<1>8. ASSUME NEW c \in Cams, Transfer(c) PROVE Threads'
  BY <1>5, <1>8 DEF Transfer, mainVars, loopVars
<1> QED BY <1>1, <1>2, <1>3, <1>4, <1>6, <1>7, <1>8 DEF Next, MainStep, Terminated

LEMMA OrderInit == Init => Phases /\ Threads
<1> SUFFICES ASSUME Init PROVE Phases /\ Threads
  OBVIOUS
<1>1. N \in Nat \ {0} /\ Want \in Nat
  BY SmokeAssumption
<1>2. Phases
  <2>1. started = 1 .. 0 /\ 0 \in 0 .. N /\ 0 < N
    BY <1>1 DEF Init
  <2>2. \E k \in 0 .. N : started = 1 .. k /\ (pc = "spawn" => k < N)
    BY <2>1
  <2>3. scanned \in 0 .. N /\ scanned = 0
    BY <1>1 DEF Init
  <2> QED BY <2>2, <2>3 DEF Init, Phases, Places, Left
<1>3. Threads
  <2>1. \A c \in Cams : ~(c <= scanned)
    BY <1>1 DEF Init, Cams
  <2> QED BY <1>1, <2>1 DEF Init, Threads, ThreadOK, Thread, IdleThread, Joined
<1> QED BY <1>2, <1>3

LEMMA OrderInvariant == Spec => [](Phases /\ Threads)
BY OrderInit, PhasesNext, ThreadsNext, PTL DEF Spec

-----------------------------------------------------------------------------
\* Every thread is joined before its camera is released.
THEOREM NeverUsedAfterRelease == Spec => []NoUseAfterRelease
<1>1. Phases /\ Threads => NoUseAfterRelease
  BY DEF Phases, Threads, ThreadOK, NoUseAfterRelease, Joined
<1>2. QED BY <1>1, OrderInvariant, PTL

\* A run that could not create every thread never exits with 0.
THEOREM SpawnFailureAlwaysFails == Spec => []SpawnFailureFails
<1>1. Phases => SpawnFailureFails
  BY DEF Phases, SpawnFailureFails, Sink!Failed
<1>2. QED BY <1>1, OrderInvariant, PTL

\* When main leaves its loop because everyone has finished, everyone has.
THEOREM QuietAlwaysMeansNobodySends == Spec => []QuietMeansNobodySends
<1>1. Phases /\ Threads => QuietMeansNobodySends
  <2> SUFFICES ASSUME Phases, Threads, why = "quiet", NEW c \in Cams
               PROVE  thread[c].at \in {"idle", "head", "done"}
    BY DEF QuietMeansNobodySends
  <2>1. Want \in Nat /\ thread[c] \in Thread
    BY SmokeAssumption DEF Threads
  <2> QED BY <2>1 DEF Threads, ThreadOK, Producing, Thread
<1>2. QED BY <1>1, OrderInvariant, PTL

-----------------------------------------------------------------------------
(***************************************************************************)
(* The deadline.                                                           *)
(***************************************************************************)

\* main that goes on receiving has not yet come back after the deadline; once it
\* has, it leaves its loop at the end of the scan.
Deadline ==
  /\ late \in {0, 1}
  /\ late = 1 => expired
  /\ pc \in {"spawn", "head", "recv"} => late = 0

LEMMA LateAtMostOnce ==
  ASSUME late = 0
  PROVE  Late \in {0, 1} /\ (Late = 1 => expired)
<1>1. Min({2, 1}) = 1
  BY MinOfTwo
<1>2. late + 1 = 1
  OBVIOUS
<1> QED BY <1>1, <1>2 DEF Late

LEMMA DeadlineNext == Deadline /\ [Next]_vars => Deadline'
<1> SUFFICES ASSUME Deadline, [Next]_vars PROVE Deadline'
  OBVIOUS
<1>1. ASSUME NEW k \in Connections, RecvOne(k) PROVE Deadline'
  BY <1>1, LateAtMostOnce DEF RecvOne, Leave, Deadline
<1>2. CASE RecvNothing
  BY <1>2, LateAtMostOnce DEF RecvNothing, Deadline
<1>3. CASE RecvError
  BY <1>3, LateAtMostOnce DEF RecvError, Leave, Deadline
<1>4. CASE ScanCamera
  BY <1>4 DEF ScanCamera, Deadline
<1>5. CASE Decide
  BY <1>5 DEF Decide, Leave, Deadline
<1>6. CASE SpawnOne \/ SpawnFail \/ LoopHead \/ Stop \/ Join \/ Report \/ Release
           \/ Destroy \/ Interrupt
  BY <1>6 DEF SpawnOne, SpawnFail, LoopHead, Leave, Stop, Join, Report, Release,
              Destroy, Interrupt, loopVars, Deadline
<1>7. CASE Expire
  BY <1>7 DEF Expire, mainVars, loopVars, Deadline
<1>8. ASSUME NEW c \in Cams, CamStep(c) \/ DriverSkip(c) \/ Transfer(c)
      PROVE  Deadline'
  BY <1>8 DEF CamStep, CamHead, AcquireFrame, AcquireNothing, Send, Count, Fault,
              DriverSkip, Transfer, mainVars, loopVars, Deadline
<1>9. CASE ForeignArrive \/ UNCHANGED vars
  BY <1>9 DEF ForeignArrive, vars, mainVars, loopVars, Deadline
<1> QED BY <1>1, <1>2, <1>3, <1>4, <1>5, <1>6, <1>7, <1>8, <1>9
        DEF Next, MainStep, Terminated

LEMMA DeadlineInvariant == Spec => []Deadline
<1>1. Init => Deadline
  BY DEF Init, Deadline
<1> QED BY <1>1, DeadlineNext, PTL DEF Spec

(***************************************************************************)
(* After the deadline main comes back from at most one call of sink_recv,  *)
(* however many messages there are and however many cameras go on sending. *)
(***************************************************************************)
THEOREM AlwaysOneMoreReceive == Spec => []OneMoreReceive
<1>1. Deadline => OneMoreReceive
  BY DEF Deadline, OneMoreReceive
<1> QED BY <1>1, DeadlineInvariant, PTL

-----------------------------------------------------------------------------
(***************************************************************************)
(* The sink of the run is the sink of the theorems: both are made from the *)
(* same definitions.                                                       *)
(***************************************************************************)
LEMMA SameMessages == SP!Message(CameraId) = Message(CameraId)
BY DEF SP!Message, Message, SP!FormatTag, SP!HeaderBytes, SP!WordBytes, FormatTag,
       HeaderBytes, WordBytes

LEMMA SameDecoding ==
  ASSUME NEW m, NEW capacity
  PROVE  SP!UnpackStatus(m, capacity) = UnpackStatus(m, capacity)
         /\ SP!Unpacked(m) = Unpacked(m)
BY DEF SP!UnpackStatus, UnpackStatus, SP!Peek, Peek, SP!HeaderBytes, HeaderBytes,
       SP!FormatTag, FormatTag, SP!WireVersion, WireVersion, SP!FrameWireSize,
       FrameWireSize, SP!WordBytes, WordBytes, SP!Unpacked, Unpacked

LEMMA SameSink ==
  ASSUME NEW m
  PROVE  Sink!RecvMessage(m) <=> SP!RecvMessage(m)
BY DEF Sink!RecvMessage, SP!RecvMessage, Sink!Decodings, SP!Decodings, Sink!Validate,
       SP!Validate, Sink!Unpacked, SP!Unpacked, Sink!UnpackStatus, SP!UnpackStatus,
       Sink!Peek, SP!Peek, Sink!FormatTag, SP!FormatTag, Sink!WireVersion,
       SP!WireVersion, Sink!HeaderBytes, SP!HeaderBytes, Sink!WordBytes, SP!WordBytes,
       Sink!FrameWireSize, SP!FrameWireSize, Sink!Remember, SP!Remember, Sink!BadParse,
       SP!BadParse, Sink!CamFind, SP!CamFind, Sink!SeenSlots, SP!SeenSlots,
       Sink!FreeSlots, SP!FreeSlots, Sink!Slot, SP!Slot, Sink!FirstSight,
       SP!FirstSight, Sink!SpecsOf, SP!SpecsOf, Sink!Checked, SP!Checked, Sink!One,
       SP!One, Sink!StampBack, SP!StampBack, Sink!OffCadence, SP!OffCadence, Sink!Tol,
       SP!Tol, Sink!SequenceGap, SP!SequenceGap, Sink!Lost, SP!Lost, Sink!IndexBad,
       SP!IndexBad, Sink!ValueBad, SP!ValueBad, Sink!Frames!Reserve,
       SP!Frames!Reserve, Sink!Min, SP!Min

\* What the code of the sink assumes of its parameters holds in the run.
LEMMA SinkParameters == SP!SinkAssumption
BY SmokeAssumption DEF SP!SinkAssumption, SP!CamSpec, SP!Message, SmokeSpecs, Cams, CameraId

\* A message that the sink handles keeps what is proved of the sink.
LEMMA SinkStep ==
  ASSUME SP!TableInv, NEW m \in Message(CameraId), Sink!RecvMessage(m)
  PROVE  /\ SP!TableInv'
         /\ decoded.capacity \in Nat /\ decoded'.capacity \in Nat
         /\ decoded'.capacity >= decoded.capacity
         /\ UNCHANGED specs
         /\ \A id \in CameraId : id # m.camera_id => heard'[id] = heard[id]
<1>1. SP!RecvMessage(m) /\ m \in SP!Message(CameraId) /\ SP!SinkTypeOK
  BY SameMessages, SameSink DEF SP!TableInv
<1>2. SP!SinkTypeOK'
  BY <1>1, SinkParameters, SP!RecvType
<1>3. SP!TableTracksStreams' /\ SP!CountersTellTruth'
  BY <1>1, SinkParameters, SP!TableInvRecv
<1>4. decoded'.capacity >= decoded.capacity
  BY <1>1, SinkParameters, SP!RecvGrows
<1>5. decoded.capacity \in Nat /\ decoded'.capacity \in Nat
  BY <1>1, <1>2 DEF SP!SinkTypeOK
<1>6. UNCHANGED specs
  BY <1>1 DEF SP!RecvMessage
<1>7. \A id \in CameraId : id # m.camera_id => heard'[id] = heard[id]
  BY <1>1, SinkParameters, SP!RecvElsewhere
<1> QED BY <1>2, <1>3, <1>4, <1>5, <1>6, <1>7 DEF SP!TableInv

-----------------------------------------------------------------------------
(***************************************************************************)
(* The queues.                                                             *)
(***************************************************************************)

\* A frame of a camera is a message that the sink accepts.
LEMMA ShotFacts ==
  ASSUME NEW c \in CameraId, NEW n \in Nat, NEW t \in Int
  PROVE  /\ Shot(c, n, t) \in Message(CameraId)
         /\ Shot(c, n, t).sequence = n /\ Shot(c, n, t).camera_id = c
         /\ \A capacity \in Nat \ {0} : UnpackStatus(Shot(c, n, t), capacity) = "ok"
         /\ Unpacked(Shot(c, n, t)).sequence = n /\ Unpacked(Shot(c, n, t)).camera_id = c
         /\ Unpacked(Shot(c, n, t)).t_ns = t /\ Unpacked(Shot(c, n, t)).count = 1
         /\ Unpacked(Shot(c, n, t)).support = <<0>> /\ Unpacked(Shot(c, n, t)).signal = <<0>>
         /\ Unpacked(Shot(c, n, t)) \in Frame(CameraId)
<1> DEFINE one == <<0>>
           f == [camera_id |-> c, sequence |-> n, t_ns |-> t, count |-> 1,
                 support |-> one, signal |-> one]
<1>1. one \in Seq(Int) /\ Len(one) = 1 /\ one[1] = 0
  OBVIOUS
<1>2. SubSeq(one, 1, 1) = one
  BY <1>1, SubSeqFull
<1> HIDE DEF one
<1>3. f \in Frame(CameraId)
  BY <1>1 DEF Frame
<1>4. Whole(f) /\ f.count = 1
  BY <1>1 DEF Whole
<1>5. Shot(c, n, t) = Pack(f)
  BY DEF Shot, one
<1>6. /\ f.camera_id = c /\ f.sequence = n /\ f.t_ns = t
      /\ f.support = one /\ f.signal = one
  OBVIOUS
<1>7. Pack(f).sequence = n /\ Pack(f).camera_id = c
  BY <1>6 DEF Pack
<1> HIDE DEF f
<1>8. \A capacity \in Nat \ {0} : UnpackStatus(Pack(f), capacity) = "ok"
  BY <1>3, <1>4, PackRoundTrip
<1>9. 1 \in Nat /\ f.count <= 1
  BY <1>4
<1>10. /\ Pack(f) \in Message(CameraId)
      /\ Unpacked(Pack(f)) =
           [camera_id |-> f.camera_id, sequence |-> f.sequence, t_ns |-> f.t_ns,
            count |-> f.count, support |-> SubSeq(f.support, 1, f.count),
            signal |-> SubSeq(f.signal, 1, f.count)]
  BY <1>3, <1>4, <1>9, PackRoundTrip
<1>11. /\ Unpacked(Pack(f)).sequence = n /\ Unpacked(Pack(f)).camera_id = c
       /\ Unpacked(Pack(f)).t_ns = t /\ Unpacked(Pack(f)).count = 1
       /\ Unpacked(Pack(f)).support = one /\ Unpacked(Pack(f)).signal = one
  BY <1>2, <1>4, <1>6, <1>10
<1>12. Unpacked(Pack(f)) \in Frame(CameraId)
  BY <1>1, <1>2, <1>4, <1>6, <1>10 DEF Frame
<1> QED BY <1>5, <1>7, <1>8, <1>10, <1>11, <1>12 DEF one

\* Whatever the capacity of its decode frame, the sink accepts it.
LEMMA ShotAccepted ==
  ASSUME NEW c \in CameraId, NEW n \in Nat, NEW t \in Int
  PROVE  \A capacity \in Nat \ {0} : UnpackStatus(Shot(c, n, t), capacity) = "ok"
<1> TAKE capacity \in Nat \ {0}
<1> QED BY ShotFacts

LEMMA ShotsType ==
  ASSUME NEW c \in CameraId
  PROVE  /\ \A n \in Nat, t \in Int : Stamped(c, n, t) => Shot(c, n, t) \in Shots(c)
         /\ Seq(Shots(c)) \subseteq Seq(Message(CameraId))
<1>1. \A n \in Nat, t \in Int : Shot(c, n, t) \in Message(CameraId)
  BY ShotFacts
<1>2. Shots(c) \subseteq Message(CameraId)
  BY DEF Shots
<1>3. Seq(Shots(c)) \subseteq Seq(Message(CameraId))
  BY <1>2, SeqMonotonic
<1> QED BY <1>1, <1>3 DEF Shots

LEMMA QueuesStay ==
  ASSUME Queues, UNCHANGED zmqVars, UNCHANGED sinkVars
  PROVE  Queues'
<1>1. SP!TableInv'
  BY SinkParameters, SP!TableInvNext DEF Queues, sinkVars, SP!sinkVars
<1> QED BY <1>1 DEF Queues, zmqVars, sinkVars

LEMMA EnqueueQueues ==
  ASSUME Threads, Queues, NEW c \in Cams, Send(c), Enqueue(c)
  PROVE  Queues'
<1>1. Shot(c, thread[c].held, thread[c].stamp) \in Shots(c)
  <2>1. thread[c].held \in Nat /\ thread[c].stamp \in Int /\ c \in CameraId
    <3>1. c \in CameraId
      BY SmokeAssumption DEF Cams, CameraId
    <3> QED BY <3>1 DEF Threads, Thread
  <2>2. Stamped(c, thread[c].held, thread[c].stamp)
    BY DEF Threads, ThreadOK, Send
  <2> QED BY <2>1, <2>2, ShotsType
<1>2. /\ sndq' = [sndq EXCEPT ![c] = Append(@, Shot(c, thread[c].held, thread[c].stamp))]
      /\ UNCHANGED <<rcvq, foreign, sinkVars>>
  BY DEF Send, Enqueue
<1>3. SP!TableInv'
  BY <1>2, SinkParameters, SP!TableInvNext DEF Queues, sinkVars, SP!sinkVars
<1>4. Append(sndq[c], Shot(c, thread[c].held, thread[c].stamp)) \in Seq(Shots(c))
  BY <1>1, AppendProperties DEF Queues
<1>5. DOMAIN sndq' = Cams /\ \A d \in Cams : sndq'[d] \in Seq(Shots(d))
  BY <1>2, <1>4 DEF Queues
<1> QED BY <1>2, <1>3, <1>5 DEF Queues, sinkVars

LEMMA TransferQueues ==
  ASSUME Queues, NEW c \in Cams, Transfer(c)
  PROVE  Queues'
<1>1. /\ rcvq' = [rcvq EXCEPT ![c] = Append(@, Head(sndq[c]))]
      /\ sndq' = [sndq EXCEPT ![c] = Tail(@)]
      /\ sndq[c] # <<>> /\ UNCHANGED <<foreign, sinkVars>>
  BY DEF Transfer
<1>2. SP!TableInv'
  BY <1>1, SinkParameters, SP!TableInvNext DEF Queues, sinkVars, SP!sinkVars
<1>3. Head(sndq[c]) \in Shots(c) /\ Tail(sndq[c]) \in Seq(Shots(c))
  BY <1>1, TailAt DEF Queues
<1>4. Append(rcvq[c], Head(sndq[c])) \in Seq(Shots(c))
  BY <1>3, AppendProperties DEF Queues
<1>5. c \in Connections /\ 0 \in Connections /\ c # 0 /\ Cams \subseteq Connections
  BY SmokeAssumption DEF Cams, Connections
<1>6. DOMAIN sndq' = Cams /\ DOMAIN rcvq' = Connections /\ rcvq'[0] = rcvq[0]
      /\ \A d \in Cams : sndq'[d] \in Seq(Shots(d)) /\ rcvq'[d] \in Seq(Shots(d))
  BY <1>1, <1>3, <1>4, <1>5 DEF Queues
<1> QED BY <1>1, <1>2, <1>6 DEF Queues, sinkVars

LEMMA ForeignQueues ==
  ASSUME Queues, ForeignArrive
  PROVE  Queues'
<1>1. PICK m \in Foreign : rcvq' = [rcvq EXCEPT ![0] = Append(@, m)]
  BY DEF ForeignArrive
<1>2. foreign < MaxForeign /\ foreign' = foreign + 1 /\ UNCHANGED <<sndq, sinkVars>>
  BY DEF ForeignArrive
<1>3. SP!TableInv'
  BY <1>2, SinkParameters, SP!TableInvNext DEF Queues, sinkVars, SP!sinkVars
<1>4. Append(rcvq[0], m) \in Seq(Foreign)
  BY AppendProperties DEF Queues
<1>5. 0 \in Connections /\ 0 \notin Cams /\ Cams \subseteq Connections
  BY SmokeAssumption DEF Cams, Connections
<1>6. DOMAIN rcvq' = Connections /\ rcvq'[0] \in Seq(Foreign)
      /\ \A d \in Cams : rcvq'[d] = rcvq[d]
  BY <1>1, <1>4, <1>5 DEF Queues
<1>7. foreign' \in 0 .. MaxForeign /\ foreign' # 0
  BY <1>2, SmokeAssumption DEF Queues
<1> QED BY <1>2, <1>3, <1>6, <1>7 DEF Queues, sinkVars

\* The message that RecvOne hands to the sink.
LEMMA HeadArrives ==
  ASSUME Queues, NEW k \in Connections, rcvq[k] # <<>>
  PROVE  /\ Head(rcvq[k]) \in Message(CameraId)
         /\ k = 0 => Head(rcvq[k]) \in Foreign /\ foreign # 0
                     /\ Tail(rcvq[k]) \in Seq(Foreign)
         /\ k # 0 => k \in Cams /\ Head(rcvq[k]) \in Shots(k)
                     /\ Tail(rcvq[k]) \in Seq(Shots(k))
<1>1. CASE k = 0
  BY <1>1, TailAt, SmokeAssumption DEF Queues
<1>2. CASE k # 0
  <2>1. k \in Cams /\ k \in CameraId
    BY <1>2, SmokeAssumption DEF Connections, Cams, CameraId
  <2> QED BY <1>2, <2>1, TailAt, ShotsType DEF Queues
<1> QED BY <1>1, <1>2

LEMMA RecvQueues ==
  ASSUME Queues, NEW k \in Connections, RecvOne(k)
  PROVE  Queues'
<1>1. /\ rcvq[k] # <<>> /\ rcvq' = [rcvq EXCEPT ![k] = Tail(@)]
      /\ Sink!RecvMessage(Head(rcvq[k])) /\ UNCHANGED <<sndq, foreign>>
  BY DEF RecvOne
<1>2. /\ Head(rcvq[k]) \in Message(CameraId)
      /\ k = 0 => foreign # 0 /\ Tail(rcvq[k]) \in Seq(Foreign)
      /\ k # 0 => Tail(rcvq[k]) \in Seq(Shots(k))
  BY <1>1, HeadArrives
<1>3. SP!TableInv' /\ UNCHANGED specs /\ decoded'.capacity > 0
  BY <1>1, <1>2, SinkStep DEF Queues
<1>4. 0 \in Connections /\ 0 \notin Cams /\ Cams \subseteq Connections
  BY SmokeAssumption DEF Cams, Connections
<1>5. DOMAIN rcvq' = Connections /\ rcvq'[0] \in Seq(Foreign)
      /\ \A d \in Cams : rcvq'[d] \in Seq(Shots(d))
  BY <1>1, <1>2, <1>4 DEF Queues
<1>6. foreign = 0 => rcvq'[0] = <<>>
  BY <1>1, <1>2, <1>4 DEF Queues
<1> QED BY <1>1, <1>3, <1>5, <1>6 DEF Queues

LEMMA ReleaseQueues ==
  ASSUME Phases, Queues, Release
  PROVE  /\ Queues'
         /\ \E c \in live : /\ live' = live \ {c}
                            /\ \A d \in Cams : d # c => sndq'[d] = sndq[d]
<1>1. Min(live) \in live
  BY MinIsLeast DEF Release, Phases, Cams
<1>2. PICK c \in live : c = Min(live)
  BY <1>1
<1>3. /\ sndq' = [sndq EXCEPT ![c] = <<>>] /\ live' = live \ {c}
      /\ UNCHANGED <<rcvq, foreign, sinkVars>>
  BY <1>2 DEF Release
<1>4. SP!TableInv'
  BY <1>3, SinkParameters, SP!TableInvNext DEF Queues, sinkVars, SP!sinkVars
<1>5. <<>> \in Seq(Shots(c)) /\ c \in Cams
  BY EmptySeq DEF Phases
<1>6. DOMAIN sndq' = Cams /\ \A d \in Cams : sndq'[d] \in Seq(Shots(d))
  BY <1>3, <1>5 DEF Queues
<1>7. \A d \in Cams : d # c => sndq'[d] = sndq[d]
  BY <1>3 DEF Queues
<1> QED BY <1>3, <1>4, <1>6, <1>7 DEF Queues, sinkVars

\* Every step keeps the queues and the sink.
LEMMA QueuesNext == Phases /\ Threads /\ Queues /\ [Next]_vars => Queues'
<1> SUFFICES ASSUME Phases, Threads, Queues, [Next]_vars PROVE Queues'
  OBVIOUS
<1>1. ASSUME NEW k \in Connections, RecvOne(k) PROVE Queues'
  BY <1>1, RecvQueues
<1>2. CASE SpawnOne \/ SpawnFail \/ LoopHead \/ RecvNothing \/ RecvError \/ ScanCamera \/ Decide \/ Stop
           \/ Join \/ Report \/ Destroy \/ Interrupt \/ Expire \/ UNCHANGED vars
  BY <1>2, QueuesStay DEF SpawnOne, SpawnFail, LoopHead, RecvNothing, RecvError, ScanCamera, Decide,
                          Stop, Join, Report, Destroy, Interrupt, Expire, vars
<1>3. CASE Release
  BY <1>3, ReleaseQueues
<1>4. ASSUME NEW c \in Cams, CamStep(c) \/ DriverSkip(c) PROVE Queues'
  <2>1. CASE Send(c) /\ Enqueue(c)
    BY <2>1, EnqueueQueues
  <2>2. CASE ~(Send(c) /\ Enqueue(c))
    <3>1. UNCHANGED zmqVars /\ UNCHANGED sinkVars
      BY <1>4, <2>2 DEF CamStep, CamHead, AcquireFrame, AcquireNothing, Send, Drop,
                        SendError, Count, Fault, DriverSkip, zmqVars
    <3> QED BY <3>1, QueuesStay
  <2> QED BY <2>1, <2>2
<1>5. ASSUME NEW c \in Cams, Transfer(c) PROVE Queues'
  BY <1>5, TransferQueues
<1>6. CASE ForeignArrive
  BY <1>6, ForeignQueues
<1> QED BY <1>1, <1>2, <1>3, <1>4, <1>5, <1>6 DEF Next, MainStep, Terminated

LEMMA QueuesInit == Init => Queues
<1> SUFFICES ASSUME Init PROVE Queues
  OBVIOUS
<1>1. /\ \A c \in Cams : <<>> \in Seq(Shots(c))
      /\ <<>> \in Seq(Foreign)
  BY EmptySeq
<1>2. 0 \in Connections /\ Cams \subseteq Connections /\ MaxForeign \in Nat
  BY SmokeAssumption DEF Cams, Connections
<1>3. SP!SinkTypeOK
  <2>1. \A id \in CameraId : <<>> \in Seq(SP!Frame(CameraId))
    BY EmptySeq
  <2>2. <<>> \in Seq(SP!Refusal)
    BY EmptySeq
  <2>3. cams \in [SP!Slot -> SP!CamState]
    BY DEF Init, SP!Slot, SP!CamState, Sink!NoCam
  <2>4. stats \in SP!Stats
    BY DEF Init, SP!Stats
  <2>5. decoded \in [capacity : Nat, count : Nat, room : Nat]
    BY DEF Init
  <2> QED BY <2>1, <2>2, <2>3, <2>4, <2>5 DEF Init, SP!SinkTypeOK
<1>4. SP!TableTracksStreams /\ SP!CountersTellTruth
  <2>1. \A i \in SP!Slot : ~cams[i].seen
    BY DEF Init, SP!Slot, Sink!NoCam
  <2>2. SP!Speakers = {} /\ refused = <<>>
    BY DEF Init, SP!Speakers
  <2> QED BY <2>1, <2>2 DEF SP!TableTracksStreams, SP!CountersTellTruth
<1>5. decoded.capacity > 0
  BY DEF Init
<1> QED BY <1>1, <1>2, <1>3, <1>4, <1>5 DEF Init, Queues, SP!TableInv

LEMMA QueuesInvariant == Spec => [](Phases /\ Threads /\ Queues)
BY OrderInit, QueuesInit, PhasesNext, ThreadsNext, QueuesNext, PTL DEF Spec

-----------------------------------------------------------------------------
(***************************************************************************)
(* What travels.                                                           *)
(***************************************************************************)
LEMMA NumbersType ==
  ASSUME NEW T, \A x \in T : x.sequence \in Nat, NEW s \in Seq(T)
  PROVE  /\ Numbers(s) \in Seq(Nat) /\ Len(Numbers(s)) = Len(s) /\ Len(s) \in Nat
         /\ \A i \in 1 .. Len(s) : Numbers(s)[i] = s[i].sequence
         /\ s # <<>> => Numbers(s) # <<>>
<1>1. Len(s) \in Nat /\ DOMAIN s = 1 .. Len(s) /\ \A i \in 1 .. Len(s) : s[i] \in T
  BY LenProperties, ElementOfSeq
<1>2. Numbers(s) = [i \in 1 .. Len(s) |-> s[i].sequence]
  BY <1>1 DEF Numbers
<1>3. Numbers(s) \in [1 .. Len(s) -> Nat]
  BY <1>1, <1>2
<1>4. Numbers(s) \in Seq(Nat) /\ Len(Numbers(s)) = Len(s)
  BY <1>1, <1>3, SeqDef
<1>5. s # <<>> => Numbers(s) # <<>>
  BY <1>1, <1>4, EmptySeq
<1> QED BY <1>1, <1>2, <1>4, <1>5

LEMMA NumbersAppend ==
  ASSUME NEW T, \A x \in T : x.sequence \in Nat, NEW s \in Seq(T), NEW x \in T
  PROVE  Numbers(Append(s, x)) = Append(Numbers(s), x.sequence)
<1> DEFINE p == Append(s, x)
           l == Numbers(p)
           r == Append(Numbers(s), x.sequence)
<1>1. /\ Numbers(s) \in Seq(Nat) /\ Len(Numbers(s)) = Len(s) /\ Len(s) \in Nat
      /\ \A i \in 1 .. Len(s) : Numbers(s)[i] = s[i].sequence
  BY NumbersType
<1>2. /\ p \in Seq(T) /\ Len(p) = Len(s) + 1 /\ p[Len(s) + 1] = x
      /\ \A i \in 1 .. Len(s) : p[i] = s[i]
  BY AppendAt
<1> HIDE DEF p
<1>3. /\ l \in Seq(Nat) /\ Len(l) = Len(s) + 1
      /\ \A i \in 1 .. Len(s) + 1 : l[i] = p[i].sequence
  BY <1>2, NumbersType
<1>4. /\ r \in Seq(Nat) /\ Len(r) = Len(s) + 1 /\ r[Len(s) + 1] = x.sequence
      /\ \A i \in 1 .. Len(s) : r[i] = s[i].sequence
  BY <1>1, AppendAt
<1> HIDE DEF l, r
<1>5. ASSUME NEW i \in 1 .. Len(l) PROVE l[i] = r[i]
  <2>1. CASE i = Len(s) + 1
    BY <1>2, <1>3, <1>4, <2>1
  <2>2. CASE i # Len(s) + 1
    <3>1. i \in 1 .. Len(s) /\ i \in 1 .. Len(s) + 1
      BY <1>1, <1>3, <2>2
    <3> QED BY <1>2, <1>3, <1>4, <3>1
  <2> QED BY <2>1, <2>2
<1>6. l = r
  BY <1>3, <1>4, <1>5, SeqEqual
<1> QED BY <1>6 DEF l, r, p

LEMMA NumbersTail ==
  ASSUME NEW T, \A x \in T : x.sequence \in Nat, NEW s \in Seq(T), s # <<>>
  PROVE  /\ Numbers(Tail(s)) = Tail(Numbers(s))
         /\ Head(s).sequence = Head(Numbers(s))
<1> DEFINE p == Tail(s)
           l == Numbers(p)
           n == Numbers(s)
           r == Tail(n)
<1>1. /\ n \in Seq(Nat) /\ Len(n) = Len(s) /\ Len(s) \in Nat /\ n # <<>>
      /\ \A i \in 1 .. Len(s) : n[i] = s[i].sequence
  BY NumbersType
<1>2. /\ p \in Seq(T) /\ Len(p) = Len(s) - 1 /\ Len(s) \in Nat \ {0} /\ Head(s) = s[1]
      /\ \A i \in 1 .. Len(s) - 1 : p[i] = s[i + 1]
  BY TailAt
<1> HIDE DEF p
<1>3. /\ l \in Seq(Nat) /\ Len(l) = Len(s) - 1
      /\ \A i \in 1 .. Len(s) - 1 : l[i] = p[i].sequence
  BY <1>2, NumbersType
<1> HIDE DEF n
<1>4. /\ r \in Seq(Nat) /\ Len(r) = Len(s) - 1 /\ Head(n) = n[1]
      /\ \A i \in 1 .. Len(s) - 1 : r[i] = n[i + 1]
  BY <1>1, TailAt
<1> HIDE DEF l, r
<1>5. ASSUME NEW i \in 1 .. Len(l) PROVE l[i] = r[i]
  <2>1. i \in 1 .. Len(s) - 1 /\ i + 1 \in 1 .. Len(s)
    BY <1>2, <1>3
  <2> QED BY <1>1, <1>2, <1>3, <1>4, <2>1
<1>6. l = r
  BY <1>3, <1>4, <1>5, SeqEqual
<1>7. 1 \in 1 .. Len(s)
  BY <1>2
<1> QED BY <1>1, <1>2, <1>4, <1>6, <1>7 DEF l, r, p, n

\* The frames that the sink has heard of a camera and those on the way to it.
LEMMA WayType ==
  ASSUME Queues, NEW c \in Cams
  PROVE  /\ heard[c] \in Seq(Frame(CameraId))
         /\ sndq[c] \in Seq(Message(CameraId)) /\ rcvq[c] \in Seq(Message(CameraId))
         /\ \A m \in Message(CameraId) : m.sequence \in Nat
         /\ \A f \in Frame(CameraId) : f.sequence \in Nat
         /\ Numbers(heard[c]) \in Seq(Nat) /\ Numbers(rcvq[c]) \in Seq(Nat)
         /\ Numbers(sndq[c]) \in Seq(Nat)
         /\ Numbers(heard[c]) \o Numbers(rcvq[c]) \in Seq(Nat)
         /\ Travelling(c) \in Seq(Nat)
<1>1. c \in CameraId
  BY SmokeAssumption DEF Cams, CameraId
<1>2. heard \in [CameraId -> Seq(Frame(CameraId))]
  BY DEF Queues, SP!TableInv, SP!SinkTypeOK, SP!Frame, Frame
<1>3. sndq[c] \in Seq(Message(CameraId)) /\ rcvq[c] \in Seq(Message(CameraId))
  BY <1>1, ShotsType DEF Queues
<1>4. /\ \A m \in Message(CameraId) : m.sequence \in Nat
      /\ \A f \in Frame(CameraId) : f.sequence \in Nat
  BY DEF Message, Frame
<1>5. /\ Numbers(heard[c]) \in Seq(Nat) /\ Numbers(rcvq[c]) \in Seq(Nat)
      /\ Numbers(sndq[c]) \in Seq(Nat)
  BY <1>1, <1>2, <1>3, <1>4, NumbersType
<1>6. Numbers(heard[c]) \o Numbers(rcvq[c]) \in Seq(Nat)
  BY <1>5, ConcatProperties
<1>7. Travelling(c) \in Seq(Nat)
  BY <1>5, <1>6, ConcatProperties DEF Travelling
<1> QED BY <1>1, <1>2, <1>3, <1>4, <1>5, <1>6, <1>7

\* A send puts the number of the frame last.
LEMMA EnqueueWay ==
  ASSUME Threads, Queues, NEW c \in Cams, Send(c), Enqueue(c)
  PROVE  /\ Travelling(c)' = Append(Travelling(c), thread[c].held)
         /\ \A d \in Cams : d # c => Travelling(d)' = Travelling(d)
<1>1. /\ sndq' = [sndq EXCEPT ![c] = Append(@, Shot(c, thread[c].held, thread[c].stamp))]
      /\ UNCHANGED <<rcvq, heard>>
  BY DEF Send, Enqueue, sinkVars
<1>2. /\ sndq'[c] = Append(sndq[c], Shot(c, thread[c].held, thread[c].stamp))
      /\ \A d \in Cams : d # c => sndq'[d] = sndq[d]
  BY <1>1 DEF Queues
<1>3. /\ Shot(c, thread[c].held, thread[c].stamp) \in Message(CameraId)
      /\ Shot(c, thread[c].held, thread[c].stamp).sequence = thread[c].held
      /\ thread[c].held \in Nat
  <2>1. thread[c].held \in Nat /\ thread[c].stamp \in Int /\ c \in CameraId
    <3>1. c \in CameraId
      BY SmokeAssumption DEF Cams, CameraId
    <3> QED BY <3>1 DEF Threads, Thread
  <2> QED BY <2>1, ShotFacts
<1>4. Numbers(sndq'[c]) = Append(Numbers(sndq[c]), thread[c].held)
  BY <1>2, <1>3, WayType, NumbersAppend
<1>5. Travelling(c)' = Append(Travelling(c), thread[c].held)
  <2> DEFINE a == Numbers(heard[c]) \o Numbers(rcvq[c])
             b == Numbers(sndq[c])
             x == thread[c].held
  <2>1. a \in Seq(Nat) /\ b \in Seq(Nat) /\ x \in Nat
    BY <1>3, WayType
  <2>2. Travelling(c)' = a \o Append(b, x) /\ Travelling(c) = a \o b
    BY <1>1, <1>4 DEF Travelling
  <2> HIDE DEF a, b, x
  <2>3. a \o Append(b, x) = Append(a \o b, x)
    BY <2>1, ConcatAppend
  <2> QED BY <2>2, <2>3 DEF x
<1> QED BY <1>1, <1>2, <1>5 DEF Travelling

\* Neither the network nor the sink changes the order of what travels.
LEMMA TransferWay ==
  ASSUME Queues, NEW c \in Cams, Transfer(c)
  PROVE  \A d \in Cams : Travelling(d)' = Travelling(d)
<1>1. /\ rcvq' = [rcvq EXCEPT ![c] = Append(@, Head(sndq[c]))]
      /\ sndq' = [sndq EXCEPT ![c] = Tail(@)]
      /\ sndq[c] # <<>> /\ UNCHANGED heard
  BY DEF Transfer, sinkVars
<1>2. Cams \subseteq Connections
  BY DEF Cams, Connections
<1>3. /\ rcvq'[c] = Append(rcvq[c], Head(sndq[c])) /\ sndq'[c] = Tail(sndq[c])
      /\ \A d \in Cams : d # c => rcvq'[d] = rcvq[d] /\ sndq'[d] = sndq[d]
  BY <1>1, <1>2 DEF Queues
<1> DEFINE h == Numbers(heard[c])
           r == Numbers(rcvq[c])
           s == Numbers(sndq[c])
<1>4. h \in Seq(Nat) /\ r \in Seq(Nat) /\ s \in Seq(Nat) /\ h \o r \in Seq(Nat)
  BY WayType
<1>5. Head(sndq[c]) \in Message(CameraId)
  BY <1>1, WayType, TailAt
<1>6. /\ Numbers(sndq'[c]) = Tail(s)
      /\ Head(sndq[c]).sequence = Head(s)
      /\ s # <<>>
  BY <1>1, <1>3, WayType, NumbersTail, NumbersType
<1>7. Numbers(rcvq'[c]) = Append(r, Head(s))
  BY <1>3, <1>5, <1>6, WayType, NumbersAppend
<1>8. Travelling(c)' = (h \o Append(r, Head(s))) \o Tail(s)
  BY <1>1, <1>6, <1>7 DEF Travelling
<1>9. Travelling(c) = (h \o r) \o s
  BY DEF Travelling
<1> HIDE DEF h, r, s
<1>10. PICK x \in Nat : x = Head(s)
  BY <1>4, <1>6, TailAt
<1>11. h \o Append(r, x) = Append(h \o r, x)
  BY <1>4, ConcatAppend
<1>12. Append(h \o r, Head(s)) \o Tail(s) = (h \o r) \o s
  BY <1>4, <1>6, HandedOver
<1>13. Travelling(c)' = Travelling(c)
  BY <1>8, <1>9, <1>10, <1>11, <1>12
<1> QED BY <1>1, <1>3, <1>13 DEF Travelling

\* The sink hears the frame at the head of the connection it serves.
LEMMA RecvShot ==
  ASSUME Queues, NEW c \in Cams, RecvOne(c)
  PROVE  \E n \in Nat, t \in Int :
           /\ Stamped(c, n, t)
           /\ n = Head(Numbers(rcvq[c]))
           /\ SP!Validate(Unpacked(Shot(c, n, t)))
           /\ heard' = [heard EXCEPT ![c] = Append(@, Unpacked(Shot(c, n, t)))]
           /\ UNCHANGED refused
<1>1. /\ rcvq[c] # <<>> /\ c \in Connections /\ c # 0 /\ c \in CameraId
      /\ Sink!RecvMessage(Head(rcvq[c]))
  BY SmokeAssumption DEF RecvOne, Cams, Connections, CameraId
<1>2. PICK n \in Nat, t \in Int : Head(rcvq[c]) = Shot(c, n, t) /\ Stamped(c, n, t)
  BY <1>1, HeadArrives DEF Shots
<1>3. Shot(c, n, t).sequence = n /\ Shot(c, n, t).camera_id = c
  BY <1>1, ShotFacts
<1>4. n = Head(Numbers(rcvq[c]))
  BY <1>1, <1>2, <1>3, WayType, NumbersTail
<1>5. decoded.capacity \in Nat \ {0}
  BY DEF Queues, SP!TableInv, SP!SinkTypeOK
<1>6. SP!UnpackStatus(Shot(c, n, t), decoded.capacity) = "ok"
  <2>1. \A capacity \in Nat \ {0} : UnpackStatus(Shot(c, n, t), capacity) = "ok"
    BY <1>1, ShotAccepted, Zenon
  <2> HIDE <1>2
  <2>2. UnpackStatus(Shot(c, n, t), decoded.capacity) = "ok"
    BY <1>5, <2>1
  <2> QED BY <2>2, SameDecoding
<1>7. SP!RecvMessage(Shot(c, n, t))
  BY <1>1, <1>2, SameSink
<1>8. /\ SP!Validate(SP!Unpacked(Shot(c, n, t)))
      /\ heard' = [heard EXCEPT ![Shot(c, n, t).camera_id] = Append(@, SP!Unpacked(Shot(c, n, t)))]
      /\ UNCHANGED refused
  BY <1>6, <1>7, SinkParameters, SP!RecvAccepts
<1>9. SP!Unpacked(Shot(c, n, t)) = Unpacked(Shot(c, n, t))
  BY SameDecoding
<1> QED BY <1>2, <1>3, <1>4, <1>8, <1>9

\* A thread that sends nothing only adds to its counters.
Idles(c) ==
  /\ thread'[c].sent = thread[c].sent
  /\ thread'[c].dropped + thread'[c].skipped >= thread[c].dropped + thread[c].skipped
  /\ thread'[c].next >= thread[c].next
  /\ thread'[c].at = "send" =>
       \/ thread[c].at = "send" /\ thread'[c].held = thread[c].held
       \/ thread'[c].held = thread[c].next

LEMMA StepNumbers ==
  ASSUME Threads, NEW c \in Cams, Numbered(c), CamStep(c) \/ DriverSkip(c)
  PROVE  /\ Numbered(c)'
         /\ Idles(c) \/ (Send(c) /\ Enqueue(c))
         /\ \A d \in Cams : d # c => thread'[d] = thread[d]
<1>1. thread \in [Cams -> Thread] /\ ThreadOK(c)
  BY DEF Threads
<1>2. CASE CamHead(c)
  BY <1>1, <1>2 DEF CamHead, Thread, Numbered, Unsent, Idles
<1>3. CASE AcquireFrame(c)
  BY <1>1, <1>3 DEF AcquireFrame, Stamps, Stamped, Thread, ThreadOK, Numbered, Unsent, Idles
<1>4. CASE AcquireNothing(c)
  BY <1>1, <1>4 DEF AcquireNothing, Thread, Numbered, Unsent, Idles
<1>5. CASE Send(c)
  <2>1. /\ thread[c].sent \in Nat /\ thread[c].dropped \in Nat
        /\ thread[c].skipped \in Nat /\ thread[c].next \in Nat
    BY <1>1 DEF Thread
  <2>2. thread[c].at = "send" /\ Unsent(c) = 1
    BY <1>5 DEF Send, Numbered
  <2>3. /\ \A d \in Cams : d # c => thread'[d] = thread[d]
        /\ thread'[c].next = thread[c].next /\ thread'[c].skipped = thread[c].skipped
        /\ \/ /\ thread'[c].at = "fault"
              /\ thread'[c].sent = thread[c].sent
              /\ thread'[c].dropped = thread[c].dropped
           \/ /\ thread'[c].at = "count" /\ Enqueue(c)
              /\ thread'[c].sent = thread[c].sent + 1
              /\ thread'[c].dropped = thread[c].dropped
           \/ /\ thread'[c].at = "count"
              /\ thread'[c].sent = thread[c].sent
              /\ thread'[c].dropped = thread[c].dropped + 1
    BY <1>1, <1>5, SendEffect
  <2> QED BY <1>5, <2>1, <2>2, <2>3 DEF Numbered, Unsent, Idles
<1>6. CASE Count(c)
  <2> DEFINE t == IF Want = 0 THEN 0 ELSE thread[c].ticks + 1
  <2>1. thread' = [thread EXCEPT ![c].at = "head", ![c].ticks = t] /\ thread[c].at = "count"
    BY <1>6 DEF Count
  <2> HIDE DEF t
  <2> QED BY <1>1, <2>1 DEF Thread, Numbered, Unsent, Idles
<1>7. CASE Fault(c)
  BY <1>1, <1>7 DEF Fault, Thread, Numbered, Unsent, Idles
<1>8. CASE DriverSkip(c)
  BY <1>1, <1>8 DEF DriverSkip, Thread, ThreadOK, Numbered, Unsent, Idles
<1> QED BY <1>2, <1>3, <1>4, <1>5, <1>6, <1>7, <1>8 DEF CamStep

\* While a thread sends nothing, what travels stays in order.
LEMMA MovingStays ==
  ASSUME NEW c \in Cams, thread[c] \in Thread, thread'[c] \in Thread,
         Travelling(c) \in Seq(Nat),
         Moving(c), Idles(c), Travelling(c)' = Travelling(c)
  PROVE  Moving(c)'
<1> DEFINE way == Travelling(c)
<1>1. /\ Len(way) = thread[c].sent
      /\ \A i \in 1 .. Len(way) - 1 : way[i] < way[i + 1]
      /\ \A i \in 1 .. Len(way) :
           /\ i - 1 <= way[i] /\ way[i] < i + thread[c].dropped + thread[c].skipped
           /\ way[i] < thread[c].next
           /\ thread[c].at = "send" => way[i] < thread[c].held
  BY DEF Moving
<1>2. Len(way) \in Nat /\ \A i \in 1 .. Len(way) : way[i] \in Nat
  BY LenProperties, ElementOfSeq
<1>3. /\ Len(Travelling(c)') = thread'[c].sent
      /\ \A i \in 1 .. Len(Travelling(c)') - 1 : Travelling(c)'[i] < Travelling(c)'[i + 1]
  BY <1>1 DEF Idles
<1> HIDE DEF way
<1>4. ASSUME NEW i \in 1 .. Len(way)
      PROVE  /\ way[i] < i + thread'[c].dropped + thread'[c].skipped
             /\ way[i] < thread'[c].next
             /\ thread'[c].at = "send" => way[i] < thread'[c].held
  <2>0. way[i] \in Nat /\ i \in Nat
    BY <1>2
  <2>1. /\ thread[c].dropped \in Nat /\ thread[c].skipped \in Nat /\ thread[c].next \in Nat
        /\ thread'[c].dropped \in Nat /\ thread'[c].skipped \in Nat
        /\ thread'[c].next \in Nat
    BY DEF Thread
  <2>2. /\ way[i] < i + thread[c].dropped + thread[c].skipped
        /\ way[i] < thread[c].next
        /\ thread[c].at = "send" => way[i] < thread[c].held
    BY <1>1
  <2>3. way[i] < i + thread'[c].dropped + thread'[c].skipped
    <3>1. PICK a \in Nat, b \in Nat, p \in Nat, q \in Nat :
            /\ a = thread[c].dropped  /\ b = thread[c].skipped
            /\ p = thread'[c].dropped /\ q = thread'[c].skipped
      BY <2>1
    <3>2. p + q >= a + b
      BY <3>1 DEF Idles
    <3>3. way[i] < i + a + b
      BY <2>2, <3>1
    <3>4. way[i] < i + p + q
      BY <2>0, <3>2, <3>3
    <3> QED BY <3>1, <3>4
  <2>4. way[i] < thread'[c].next
    BY <2>0, <2>1, <2>2 DEF Idles
  <2>5. thread'[c].at = "send" => way[i] < thread'[c].held
    BY <2>2 DEF Idles
  <2> QED BY <2>3, <2>4, <2>5
<1> QED BY <1>3, <1>4 DEF Moving, way

LEMMA ReachedStays ==
  ASSUME NEW c \in Cams, thread[c] \in Thread, thread'[c] \in Thread,
         heard[c] \in Seq(Frame(CameraId)), Reached(c), heard'[c] = heard[c],
         thread'[c].sent >= thread[c].sent,
         thread'[c].dropped + thread'[c].skipped >= thread[c].dropped + thread[c].skipped
  PROVE  Reached(c)'
<1>1. Missing(c)' = Missing(c)
  BY DEF Missing
<1>2. Len(heard[c]) \in Nat /\ Missing(c) \in Int
  <2>1. Len(heard[c]) \in Nat /\ \A i \in 1 .. Len(heard[c]) : heard[c][i] \in Frame(CameraId)
    BY LenProperties, ElementOfSeq
  <2>2. heard[c] # <<>> => heard[c][Len(heard[c])].sequence \in Nat
    <3>1. heard[c] # <<>> => Len(heard[c]) \in 1 .. Len(heard[c])
      BY <2>1, EmptySeq
    <3> QED BY <2>1, <3>1 DEF Frame
  <2> QED BY <2>1, <2>2 DEF Missing
<1>3. /\ thread[c].dropped \in Nat /\ thread[c].skipped \in Nat /\ thread[c].sent \in Nat
      /\ thread'[c].dropped \in Nat /\ thread'[c].skipped \in Nat /\ thread'[c].sent \in Nat
  BY DEF Thread
<1>4. \A i \in 1 .. Len(heard'[c]) :
        Stamped(c, heard'[c][i].sequence, heard'[c][i].t_ns)
  BY DEF Reached
<1>5. Len(heard'[c]) <= thread'[c].sent
  BY <1>2, <1>3 DEF Reached
<1>6. 0 <= Missing(c)' /\ Missing(c)' <= thread'[c].dropped + thread'[c].skipped
  <2>1. PICK a \in Nat, b \in Nat, p \in Nat, q \in Nat :
          /\ a = thread[c].dropped  /\ b = thread[c].skipped
          /\ p = thread'[c].dropped /\ q = thread'[c].skipped
    BY <1>3
  <2>2. PICK m \in Int : m = Missing(c)
    BY <1>2
  <2>3. 0 <= m /\ m <= a + b
    BY <2>1, <2>2 DEF Reached
  <2>4. p + q >= a + b
    BY <2>1
  <2>5. 0 <= m /\ m <= p + q
    BY <2>3, <2>4
  <2> QED BY <1>1, <2>1, <2>2, <2>5
<1> QED BY <1>4, <1>5, <1>6 DEF Reached

\* A send keeps what travels in order.
LEMMA MovingSends ==
  ASSUME Threads, Queues, NEW c \in Cams, Numbered(c), Moving(c), Send(c), Enqueue(c)
  PROVE  /\ Moving(c)'
         /\ thread'[c].sent >= thread[c].sent
         /\ thread'[c].dropped + thread'[c].skipped >= thread[c].dropped + thread[c].skipped
<1>1. PICK sent \in Nat, dropped \in Nat, skipped \in Nat, next \in Nat, held \in Nat :
        /\ thread[c].sent = sent /\ thread[c].dropped = dropped
        /\ thread[c].skipped = skipped /\ thread[c].next = next /\ thread[c].held = held
  BY DEF Threads, Thread
<1>2. /\ thread'[c].sent = sent + 1 /\ thread'[c].dropped = dropped
      /\ thread'[c].skipped = skipped /\ thread'[c].next = next /\ thread'[c].at = "count"
  <2>1. thread[c].at = "send"
    BY DEF Send
  <2>2. thread' = [thread EXCEPT ![c].at = "count", ![c].held = 0, ![c].stamp = 0,
                                   ![c].sent = @ + 1]
    BY DEF Enqueue
  <2> QED BY <1>1, <2>1, <2>2 DEF Threads, Thread
<1>3. held < next /\ next - sent - dropped - skipped = 1
  BY <1>1 DEF Numbered, Unsent, Send
<1> DEFINE way == Travelling(c)
           new == Append(way, held)
<1>4. way \in Seq(Nat)
  BY WayType
<1>5. Travelling(c)' = new
  BY <1>1, EnqueueWay
<1>6. /\ Len(way) = sent
      /\ \A i \in 1 .. Len(way) - 1 : way[i] < way[i + 1]
      /\ \A i \in 1 .. Len(way) :
           /\ i - 1 <= way[i] /\ way[i] < i + dropped + skipped
           /\ way[i] < next /\ way[i] < held
  BY <1>1 DEF Moving, Send
<1> HIDE DEF way
<1>7. /\ new \in Seq(Nat) /\ Len(new) = sent + 1 /\ new[sent + 1] = held
      /\ \A i \in 1 .. sent : new[i] = way[i]
  BY <1>4, <1>6, AppendAt
<1> HIDE DEF new
<1>8. ASSUME NEW i \in 1 .. sent PROVE new[i] < new[i + 1]
  <2>1. CASE i = sent
    BY <1>6, <1>7, <2>1
  <2>2. CASE i # sent
    <3>1. i \in 1 .. sent - 1 /\ i + 1 \in 1 .. sent
      BY <2>2
    <3> QED BY <1>6, <1>7, <3>1
  <2> QED BY <2>1, <2>2
<1>9. ASSUME NEW i \in 1 .. sent + 1
      PROVE  i - 1 <= new[i] /\ new[i] < i + dropped + skipped /\ new[i] < next
  <2>1. CASE i = sent + 1
    <3>1. sent <= held
      <4>1. CASE sent = 0
        BY <4>1
      <4>2. CASE sent # 0
        <5>1. sent \in 1 .. sent /\ way[sent] \in Nat
          BY <1>4, <1>6, <4>2, ElementOfSeq
        <5> QED BY <1>6, <5>1
      <4> QED BY <4>1, <4>2
    <3> QED BY <1>3, <1>7, <2>1, <3>1
  <2>2. CASE i # sent + 1
    <3>1. i \in 1 .. sent
      BY <2>2
    <3> QED BY <1>6, <1>7, <3>1
  <2> QED BY <2>1, <2>2
<1>10. /\ Len(new) = thread'[c].sent
       /\ \A i \in 1 .. Len(new) - 1 : new[i] < new[i + 1]
       /\ \A i \in 1 .. Len(new) :
            /\ i - 1 <= new[i] /\ new[i] < i + thread'[c].dropped + thread'[c].skipped
            /\ new[i] < thread'[c].next
            /\ thread'[c].at = "send" => new[i] < thread'[c].held
  BY <1>2, <1>7, <1>8, <1>9
<1>11. Moving(c)'
  BY <1>5, <1>10 DEF Moving
<1> QED BY <1>1, <1>2, <1>11

\* What the sink has heard is the beginning of what travels.
LEMMA HeardFirst ==
  ASSUME NEW h \in Seq(Nat), NEW r \in Seq(Nat), NEW s \in Seq(Nat)
  PROVE  /\ Len(h) \in Nat /\ Len((h \o r) \o s) \in Nat
         /\ Len(h) <= Len((h \o r) \o s)
         /\ \A k \in 1 .. Len(h) : ((h \o r) \o s)[k] = h[k]
<1>1. Len(h) \in Nat /\ Len(r) \in Nat /\ Len(s) \in Nat
  BY LenProperties
<1>2. /\ h \o r \in Seq(Nat) /\ Len(h \o r) = Len(h) + Len(r)
      /\ \A i \in 1 .. Len(h) + Len(r) : (h \o r)[i] = IF i <= Len(h) THEN h[i]
                                                       ELSE r[i - Len(h)]
  BY ConcatProperties
<1> DEFINE p == h \o r
<1> HIDE DEF p
<1>3. /\ p \o s \in Seq(Nat) /\ Len(p \o s) = Len(p) + Len(s)
      /\ \A i \in 1 .. Len(p) + Len(s) : (p \o s)[i] = IF i <= Len(p) THEN p[i]
                                                       ELSE s[i - Len(p)]
  BY <1>2, ConcatProperties DEF p
<1>4. ASSUME NEW k \in 1 .. Len(h) PROVE (p \o s)[k] = h[k]
  <2>1. k \in 1 .. Len(p) + Len(s) /\ k <= Len(p) /\ k \in 1 .. Len(h) + Len(r) /\ k <= Len(h)
    BY <1>1, <1>2 DEF p
  <2>2. (p \o s)[k] = p[k]
    BY <1>3, <2>1
  <2>3. p[k] = h[k]
    BY <1>2, <2>1 DEF p
  <2> QED BY <2>2, <2>3
<1>5. Len(p \o s) \in Nat /\ Len(h) <= Len(p \o s)
  BY <1>1, <1>2, <1>3 DEF p
<1> QED BY <1>1, <1>4, <1>5 DEF p

\* The sink takes the next one of what travels.
LEMMA RecvWay ==
  ASSUME Queues, NEW c \in Cams, RecvOne(c)
  PROVE  /\ \A d \in Cams : Travelling(d)' = Travelling(d)
         /\ \A d \in Cams : d # c => heard'[d] = heard[d]
         /\ \E n \in Nat, t \in Int :
              /\ Stamped(c, n, t)
              /\ heard'[c] = Append(heard[c], Unpacked(Shot(c, n, t)))
              /\ Unpacked(Shot(c, n, t)) \in Frame(CameraId)
              /\ Unpacked(Shot(c, n, t)).sequence = n
              /\ Unpacked(Shot(c, n, t)).t_ns = t
              /\ SP!Validate(Unpacked(Shot(c, n, t)))
              /\ Len(heard[c]) + 1 <= Len(Travelling(c))
              /\ Travelling(c)[Len(heard[c]) + 1] = n
<1>1. PICK n \in Nat, t \in Int :
        /\ Stamped(c, n, t)
        /\ n = Head(Numbers(rcvq[c]))
        /\ SP!Validate(Unpacked(Shot(c, n, t)))
        /\ heard' = [heard EXCEPT ![c] = Append(@, Unpacked(Shot(c, n, t)))]
  BY RecvShot
<1>2. c \in CameraId /\ Cams \subseteq CameraId /\ Cams \subseteq Connections
  BY SmokeAssumption DEF Cams, CameraId, Connections
<1>3. /\ Unpacked(Shot(c, n, t)) \in Frame(CameraId)
      /\ Unpacked(Shot(c, n, t)).sequence = n
      /\ Unpacked(Shot(c, n, t)).t_ns = t
  BY <1>2, ShotFacts
<1>4. DOMAIN heard = CameraId
  BY DEF Queues, SP!TableInv, SP!SinkTypeOK
<1>5. /\ heard'[c] = Append(heard[c], Unpacked(Shot(c, n, t)))
      /\ \A d \in Cams : d # c => heard'[d] = heard[d]
  BY <1>1, <1>2, <1>4
<1>6. /\ rcvq[c] # <<>> /\ UNCHANGED sndq
      /\ rcvq'[c] = Tail(rcvq[c])
      /\ \A d \in Cams : d # c => rcvq'[d] = rcvq[d]
  BY <1>2 DEF RecvOne, Queues
<1> DEFINE h == Numbers(heard[c])
           r == Numbers(rcvq[c])
           s == Numbers(sndq[c])
<1>7. /\ h \in Seq(Nat) /\ r \in Seq(Nat) /\ s \in Seq(Nat)
      /\ r # <<>> /\ Len(h) = Len(heard[c])
  BY <1>6, WayType, NumbersType
<1>8. Numbers(rcvq'[c]) = Tail(r)
  BY <1>6, WayType, NumbersTail
<1>9. Numbers(heard'[c]) = Append(h, n)
  BY <1>3, <1>5, WayType, NumbersAppend
<1>10. /\ Travelling(c)' = (Append(h, n) \o Tail(r)) \o s
       /\ Travelling(c) = (h \o r) \o s
  BY <1>6, <1>8, <1>9 DEF Travelling
<1>11. Head(r) = n
  BY <1>1
<1> HIDE DEF h, r, s
<1>12. Append(h, n) \o Tail(r) = h \o r
  BY <1>7, <1>11, HandedOver
<1>13. Travelling(c)' = Travelling(c)
  BY <1>10, <1>12
<1>14. /\ Append(h, n) \in Seq(Nat) /\ Len(Append(h, n)) = Len(h) + 1
       /\ Append(h, n)[Len(h) + 1] = n /\ Tail(r) \in Seq(Nat) /\ Len(h) \in Nat
  BY <1>7, AppendAt, TailAt
<1>15. /\ Len(h) + 1 <= Len(Travelling(c))
       /\ Travelling(c)[Len(h) + 1] = n
  <2>1. Len(h) + 1 \in 1 .. Len(h) + 1
    BY <1>14
  <2> DEFINE a == Append(h, n)
             b == Tail(r)
  <2>2. /\ Len(a) <= Len((a \o b) \o s)
        /\ \A k \in 1 .. Len(a) : ((a \o b) \o s)[k] = a[k]
    <3> HIDE DEF a, b
    <3>1. a \in Seq(Nat) /\ b \in Seq(Nat)
      BY <1>14 DEF a, b
    <3> QED BY <1>7, <3>1, HeardFirst
  <2> QED BY <1>10, <1>13, <1>14, <2>1, <2>2
<1>16. \A d \in Cams : d # c => Travelling(d)' = Travelling(d)
  BY <1>5, <1>6 DEF Travelling
<1> QED BY <1>1, <1>3, <1>5, <1>7, <1>13, <1>15, <1>16

\* What the sink hears of a camera is what the camera sent, and what it misses
\* was lost on the camera's side.
LEMMA RecvReached ==
  ASSUME Phases, Threads, Queues, NEW c \in Cams, Moving(c), Reached(c), RecvOne(c)
  PROVE  Reached(c)'
<1>1. PICK n \in Nat, t \in Int :
        /\ Stamped(c, n, t)
        /\ heard'[c] = Append(heard[c], Unpacked(Shot(c, n, t)))
        /\ Unpacked(Shot(c, n, t)) \in Frame(CameraId)
        /\ Unpacked(Shot(c, n, t)).sequence = n
        /\ Unpacked(Shot(c, n, t)).t_ns = t
        /\ Len(heard[c]) + 1 <= Len(Travelling(c))
        /\ Travelling(c)[Len(heard[c]) + 1] = n
  BY RecvWay
<1> DEFINE h == heard[c]
           f == Unpacked(Shot(c, n, t))
<1>2. h \in Seq(Frame(CameraId)) /\ Travelling(c) \in Seq(Nat)
  BY WayType
<1>3. PICK sent \in Nat, dropped \in Nat, skipped \in Nat :
        /\ thread[c].sent = sent /\ thread[c].dropped = dropped
        /\ thread[c].skipped = skipped
  BY DEF Threads, Thread
<1>4. thread' = thread
  BY DEF RecvOne
<1>5. f \in Frame(CameraId) /\ f.sequence = n /\ heard'[c] = Append(h, f)
  BY <1>1
<1>6. \A i \in 1 .. Len(h) : Stamped(c, h[i].sequence, h[i].t_ns)
  BY DEF Reached
<1>7. Stamped(c, f.sequence, f.t_ns)
  BY <1>1
<1>8. Len(Travelling(c)) = sent
  BY <1>3 DEF Moving
<1>9. Len(h) \in Nat /\ Len(h) + 1 <= sent
  BY <1>1, <1>2, <1>8, LenProperties
<1>10. Len(h) <= n /\ n < Len(h) + 1 + dropped + skipped
  <2>1. Len(h) + 1 \in 1 .. Len(Travelling(c))
    BY <1>8, <1>9
  <2>2. /\ (Len(h) + 1) - 1 <= Travelling(c)[Len(h) + 1]
        /\ Travelling(c)[Len(h) + 1] < (Len(h) + 1) + thread[c].dropped + thread[c].skipped
    BY <2>1 DEF Moving
  <2> QED BY <1>1, <1>3, <1>9, <2>2
<1> HIDE DEF h, f
<1>11. /\ Append(h, f) \in Seq(Frame(CameraId)) /\ Len(Append(h, f)) = Len(h) + 1
       /\ Append(h, f)[Len(h) + 1] = f
       /\ \A i \in 1 .. Len(h) : Append(h, f)[i] = h[i]
  BY <1>2, <1>5, AppendAt
<1>12. ASSUME NEW i \in 1 .. Len(h) + 1
       PROVE  Stamped(c, Append(h, f)[i].sequence, Append(h, f)[i].t_ns)
  <2>1. CASE i = Len(h) + 1
    BY <1>7, <1>11, <2>1
  <2>2. CASE i # Len(h) + 1
    <3>1. i \in 1 .. Len(h)
      BY <1>9, <2>2
    <3> QED BY <1>6, <1>11, <3>1
  <2> QED BY <2>1, <2>2
<1>13. Append(h, f) # <<>>
  BY <1>9, <1>11, EmptySeq
<1>14. Missing(c)' = n + 1 - (Len(h) + 1)
  BY <1>5, <1>11, <1>13 DEF Missing
<1>15. 0 <= Missing(c)' /\ Missing(c)' <= dropped + skipped
  BY <1>9, <1>10, <1>14
<1> QED BY <1>3, <1>4, <1>5, <1>9, <1>11, <1>12, <1>15 DEF Reached

\* While nobody sends and nobody hears, and threads only add to their counters,
\* the way stays what it is.
LEMMA WayIdles ==
  ASSUME Threads, thread' \in [Cams -> Thread], Queues, Way,
         live \subseteq Cams, live' \subseteq live, Unmixed' => Unmixed,
         \A c \in Cams : Numbered(c)' /\ Idles(c) /\ heard'[c] = heard[c],
         \A c \in live' : Travelling(c)' = Travelling(c)
  PROVE  Way'
<1>1. ASSUME Unmixed', NEW c \in Cams, c \in live' PROVE Moving(c)'
  <2>1. Moving(c)
    BY <1>1 DEF Way
  <2>2. Travelling(c) \in Seq(Nat) /\ Travelling(c)' = Travelling(c) /\ Idles(c)
    BY <1>1, WayType
  <2>3. thread[c] \in Thread /\ thread'[c] \in Thread
    BY DEF Threads
  <2> QED BY <2>1, <2>2, <2>3, MovingStays
<1>2. ASSUME Unmixed', NEW c \in Cams PROVE Reached(c)'
  <2>1. Reached(c)
    BY <1>2 DEF Way
  <2>2. heard[c] \in Seq(Frame(CameraId)) /\ heard'[c] = heard[c]
    BY WayType
  <2>3. thread[c] \in Thread /\ thread'[c] \in Thread
    BY DEF Threads
  <2>4. thread'[c].sent >= thread[c].sent
    BY <2>3 DEF Idles, Thread
  <2>5. thread'[c].dropped + thread'[c].skipped >= thread[c].dropped + thread[c].skipped
    BY DEF Idles
  <2> QED BY <2>1, <2>2, <2>3, <2>4, <2>5, ReachedStays
<1> QED BY <1>1, <1>2 DEF Way

\* A thread that does nothing only adds nothing to its counters.
LEMMA Rests ==
  ASSUME NEW c \in Cams, thread[c] \in Thread, thread'[c] = thread[c], Numbered(c)
  PROVE  Idles(c) /\ Numbered(c)'
<1>1. thread'[c].dropped + thread'[c].skipped >= thread[c].dropped + thread[c].skipped
  BY DEF Thread
<1>2. thread'[c].next >= thread[c].next
  BY DEF Thread
<1>3. Unsent(c)' = Unsent(c)
  BY DEF Unsent
<1> QED BY <1>1, <1>2, <1>3 DEF Idles, Numbered

\* A message of another program does not touch what the cameras sent.
LEMMA StrangerWay ==
  ASSUME Phases, Threads, Queues, Way, RecvOne(0)
  PROVE  Way'
<1>1. /\ 0 \in Connections /\ rcvq[0] # <<>> /\ Sink!RecvMessage(Head(rcvq[0]))
      /\ rcvq' = [rcvq EXCEPT ![0] = Tail(@)]
      /\ UNCHANGED <<sndq, foreign, thread, live>>
  BY SmokeAssumption DEF RecvOne, Connections
<1>2. Head(rcvq[0]) \in Foreign /\ foreign # 0 /\ Head(rcvq[0]) \in Message(CameraId)
  BY <1>1, HeadArrives
<1>3. \A c \in Cams : c \in CameraId /\ c \in Connections /\ c # 0
  BY SmokeAssumption DEF Cams, CameraId, Connections
<1>4. \A c \in Cams : Idles(c) /\ Numbered(c)'
  <2>1. \A c \in Cams : thread[c] \in Thread /\ Numbered(c)
    BY DEF Threads, Way
  <2> QED BY <1>1, <2>1, Rests
<1>5. CASE ~Unmixed'
  BY <1>4, <1>5 DEF Way
<1>6. CASE Unmixed'
  <2>1. Strangers
    BY <1>1, <1>2, <1>6 DEF Unmixed
  <2>2. \A c \in Cams : c # Head(rcvq[0]).camera_id
    BY <1>2, <2>1 DEF Strangers
  <2>3. \A c \in Cams : heard'[c] = heard[c]
    BY <1>1, <1>2, <1>3, <2>2, SinkStep DEF Queues
  <2>4. \A c \in Cams : rcvq'[c] = rcvq[c]
    BY <1>1, <1>3 DEF Queues
  <2>5. \A c \in Cams : Travelling(c)' = Travelling(c)
    BY <1>1, <2>3, <2>4 DEF Travelling
  <2>6. thread' \in [Cams -> Thread] /\ Unmixed /\ live \subseteq Cams /\ live' = live
    BY <1>1, <2>1 DEF Threads, Unmixed, Phases
  <2> QED BY <1>4, <2>3, <2>5, <2>6, WayIdles
<1> QED BY <1>5, <1>6

\* The sink hears the next frame of a camera.
LEMMA HearWay ==
  ASSUME Phases, Threads, Queues, Way, NEW c \in Cams, RecvOne(c)
  PROVE  Way'
<1>1. thread' = thread /\ foreign' = foreign /\ live' = live /\ pc = "recv"
  BY DEF RecvOne
<1>2. live = Cams
  BY <1>1 DEF Phases
<1>3. \A d \in Cams : thread[d] \in Thread /\ Numbered(d)
  BY DEF Threads, Way
<1>4. \A d \in Cams : Idles(d) /\ Numbered(d)'
  BY <1>1, <1>3, Rests
<1>5. /\ \A d \in Cams : Travelling(d)' = Travelling(d)
      /\ \A d \in Cams : d # c => heard'[d] = heard[d]
  BY RecvWay
<1>6. ASSUME Unmixed', NEW d \in Cams PROVE Moving(d)' /\ Reached(d)'
  <2>1. Unmixed
    BY <1>1, <1>6 DEF Unmixed
  <2>2. Moving(d) /\ Reached(d) /\ Moving(c) /\ Reached(c)
    BY <1>2, <2>1 DEF Way
  <2>3. Moving(d)'
    <3>1. thread'[d] = thread[d] /\ Travelling(d)' = Travelling(d)
      BY <1>1, <1>5
    <3> QED BY <2>2, <3>1 DEF Moving
  <2>4. CASE d = c
    BY <2>2, <2>3, <2>4, RecvReached
  <2>5. CASE d # c
    <3>1. thread'[d] = thread[d] /\ heard'[d] = heard[d]
      BY <1>1, <1>5, <2>5
    <3> QED BY <2>2, <2>3, <3>1 DEF Reached, Missing
  <2> QED BY <2>4, <2>5
<1> QED BY <1>4, <1>6 DEF Way

\* The thread of a camera takes a step.
LEMMA ThreadWay ==
  ASSUME Phases, Threads, thread' \in [Cams -> Thread], Queues, Way, NEW c \in Cams,
         CamStep(c) \/ DriverSkip(c)
  PROVE  Way'
<1>1. /\ \A d \in Cams : thread[d] \in Thread /\ thread'[d] \in Thread /\ Numbered(d)
      /\ live \subseteq Cams
  BY DEF Threads, Way, Phases
<1>2. /\ Numbered(c)'
      /\ Idles(c) \/ (Send(c) /\ Enqueue(c))
      /\ \A d \in Cams : d # c => thread'[d] = thread[d]
  BY <1>1, StepNumbers
<1>3. \A d \in Cams : d # c => Idles(d) /\ Numbered(d)'
  BY <1>1, <1>2, Rests
<1>4. UNCHANGED heard /\ live' = live /\ foreign' = foreign
  BY DEF CamStep, CamHead, AcquireFrame, AcquireNothing, Send, Count, Fault, DriverSkip,
         mainVars, loopVars, zmqVars, sinkVars
<1>5. \A d \in Cams : heard'[d] = heard[d]
  BY <1>4
<1>6. Unmixed' => Unmixed
  BY <1>4 DEF Unmixed
<1>7. CASE Send(c) /\ Enqueue(c)
  <2>1. \A d \in Cams : d # c => Travelling(d)' = Travelling(d)
    BY <1>7, EnqueueWay
  <2>2. ASSUME Unmixed', NEW d \in Cams PROVE (d \in live' => Moving(d)') /\ Reached(d)'
    <3>1. CASE d = c
      <4>1. c \in live /\ Moving(c)
        <5>1. pc \notin Joined
          BY <1>7, <3>1 DEF Threads, ThreadOK, Send
        <5>2. live = Cams
          BY <5>1 DEF Phases, Joined, Places
        <5> QED BY <1>6, <2>2, <5>2 DEF Way
      <4>2. /\ Moving(c)' /\ thread'[c].sent >= thread[c].sent
            /\ thread'[c].dropped + thread'[c].skipped
                 >= thread[c].dropped + thread[c].skipped
        BY <1>1, <1>7, <4>1, MovingSends
      <4>3. heard[c] \in Seq(Frame(CameraId)) /\ Reached(c)
        BY <1>6, <2>2, WayType DEF Way
      <4>4. Reached(c)'
        BY <1>1, <1>5, <4>2, <4>3, ReachedStays
      <4> QED BY <3>1, <4>2, <4>4
    <3>2. CASE d # c
      <4>1. thread'[d] = thread[d] /\ Travelling(d)' = Travelling(d) /\ heard'[d] = heard[d]
        BY <1>2, <1>5, <2>1, <3>2
      <4>2. (d \in live => Moving(d)) /\ Reached(d)
        BY <1>6, <2>2 DEF Way
      <4>3. d \in live' => Moving(d)'
        BY <1>4, <4>1, <4>2 DEF Moving
      <4>4. Reached(d)'
        BY <4>1, <4>2 DEF Reached, Missing
      <4> QED BY <4>3, <4>4
    <3> QED BY <3>1, <3>2
  <2> QED BY <1>2, <1>3, <2>2 DEF Way
<1>8. CASE ~(Send(c) /\ Enqueue(c))
  <2>1. UNCHANGED <<sndq, rcvq>>
    BY <1>8 DEF CamStep, CamHead, AcquireFrame, AcquireNothing, Send, Drop, SendError,
                Count, Fault, DriverSkip, zmqVars
  <2>2. \A d \in Cams : Travelling(d)' = Travelling(d)
    BY <1>4, <2>1 DEF Travelling
  <2>3. \A d \in Cams : Idles(d) /\ Numbered(d)'
    BY <1>2, <1>3, <1>8
  <2> QED BY <1>1, <1>4, <1>5, <1>6, <2>2, <2>3, WayIdles
<1> QED BY <1>7, <1>8

\* A thread begins: it has given out no number and sent nothing yet.
LEMMA SpawnWay ==
  ASSUME Phases, Threads, thread' \in [Cams -> Thread], Queues, Way, SpawnOne
  PROVE  Way'
<1>1. PICK c \in Cams : c = Cardinality(started) + 1 /\ c \notin started
  BY FirstCams, SmokeAssumption DEF SpawnOne, Cams
<1>2. /\ thread' = [thread EXCEPT ![c].at = "head"]
      /\ UNCHANGED <<live, sndq, rcvq, foreign, heard>>
  BY <1>1 DEF SpawnOne, zmqVars, sinkVars
<1>3. /\ \A d \in Cams : thread[d] \in Thread /\ Numbered(d)
      /\ thread[c].at = "idle"
  BY <1>1 DEF Threads, ThreadOK, Way
<1>4. /\ \A d \in Cams : d # c => thread'[d] = thread[d]
      /\ thread'[c] = [thread[c] EXCEPT !.at = "head"]
  BY <1>1, <1>2 DEF Threads
<1>5. Idles(c) /\ Numbered(c)'
  <2>1. thread[c] \in Thread /\ Numbered(c)
    BY <1>3
  <2>2. /\ thread'[c].at = "head" /\ thread'[c].sent = thread[c].sent
        /\ thread'[c].dropped = thread[c].dropped /\ thread'[c].next = thread[c].next
        /\ thread'[c].skipped = thread[c].skipped
        /\ thread'[c].failed = thread[c].failed
    BY <1>4, <2>1 DEF Thread
  <2>3. Idles(c)
    BY <2>1, <2>2 DEF Idles, Thread
  <2>4. Unsent(c)' = Unsent(c)
    BY <2>2 DEF Unsent
  <2> QED BY <1>3, <2>1, <2>2, <2>3, <2>4 DEF Numbered
<1>6. \A d \in Cams : Idles(d) /\ Numbered(d)'
  BY <1>3, <1>4, <1>5, Rests
<1>7. /\ \A d \in Cams : Travelling(d)' = Travelling(d)
      /\ \A d \in Cams : heard'[d] = heard[d]
      /\ Unmixed' => Unmixed
  BY <1>2 DEF Travelling, Unmixed
<1> QED BY <1>2, <1>6, <1>7, WayIdles DEF Phases

\* Every step keeps what travels.
LEMMA WayNext ==
  Phases /\ Threads /\ Queues /\ Way /\ [Next]_vars => Way'
<1> SUFFICES ASSUME Phases, Threads, Queues, Way, [Next]_vars PROVE Way'
  OBVIOUS
<1>1. Threads'
  BY ThreadsNext
<1>2. /\ thread' \in [Cams -> Thread] /\ live \subseteq Cams
      /\ \A c \in Cams : thread[c] \in Thread /\ Numbered(c)
  BY <1>1 DEF Threads, Phases, Way
<1>3. ASSUME UNCHANGED <<thread, heard>>, live' \subseteq live, Unmixed' => Unmixed,
             \A c \in live' : Travelling(c)' = Travelling(c)
      PROVE  Way'
  <2>1. \A c \in Cams : Numbered(c)' /\ Idles(c) /\ heard'[c] = heard[c]
    BY <1>2, <1>3, Rests
  <2> QED BY <1>2, <1>3, <2>1, WayIdles
<1>4. CASE SpawnOne
  BY <1>2, <1>4, SpawnWay
<1>5. ASSUME NEW k \in Connections, RecvOne(k) PROVE Way'
  <2>1. CASE k = 0
    BY <1>5, <2>1, StrangerWay
  <2>2. CASE k # 0
    BY <1>5, <2>2, HearWay, SmokeAssumption DEF Connections, Cams
  <2> QED BY <2>1, <2>2
<1>6. CASE Release
  <2>1. PICK c \in live : /\ live' = live \ {c}
                          /\ \A d \in Cams : d # c => sndq'[d] = sndq[d]
    BY <1>6, ReleaseQueues
  <2>2. UNCHANGED <<thread, heard, rcvq, foreign>>
    BY <1>6 DEF Release, sinkVars
  <2>3. \A d \in live' : Travelling(d)' = Travelling(d)
    BY <1>2, <2>1, <2>2 DEF Travelling
  <2> QED BY <1>3, <2>1, <2>2, <2>3 DEF Unmixed
<1>7. CASE SpawnFail \/ LoopHead \/ RecvNothing \/ RecvError \/ ScanCamera \/ Decide \/ Stop \/ Join
           \/ Report \/ Destroy \/ Interrupt \/ Expire \/ UNCHANGED vars
  <2>1. UNCHANGED <<thread, heard, rcvq, sndq, foreign, live>>
    BY <1>7 DEF SpawnFail, LoopHead, RecvNothing, RecvError, ScanCamera, Decide, Stop, Join, Report,
                Destroy, Interrupt, Expire, vars, mainVars, loopVars, zmqVars, sinkVars
  <2> QED BY <1>3, <2>1 DEF Unmixed, Travelling
<1>8. ASSUME NEW c \in Cams, CamStep(c) \/ DriverSkip(c) PROVE Way'
  BY <1>2, <1>8, ThreadWay
<1>9. ASSUME NEW c \in Cams, Transfer(c) PROVE Way'
  <2>1. UNCHANGED <<thread, heard, foreign, live>>
    BY <1>9 DEF Transfer, mainVars, loopVars, sinkVars
  <2>2. \A d \in Cams : Travelling(d)' = Travelling(d)
    BY <1>9, TransferWay
  <2> QED BY <1>2, <1>3, <2>1, <2>2 DEF Unmixed
<1>10. CASE ForeignArrive
  <2>1. PICK m \in Foreign : rcvq' = [rcvq EXCEPT ![0] = Append(@, m)]
    BY <1>10 DEF ForeignArrive
  <2>2. UNCHANGED <<thread, heard, sndq, live>> /\ foreign' = foreign + 1
    BY <1>10 DEF ForeignArrive, mainVars, loopVars, sinkVars
  <2>3. \A d \in Cams : rcvq'[d] = rcvq[d]
    BY <2>1, SmokeAssumption DEF Cams, Connections, Queues
  <2>4. foreign \in Nat
    BY SmokeAssumption DEF Queues
  <2>5. foreign' # 0
    BY <2>2, <2>4
  <2>6. \A d \in Cams : Travelling(d)' = Travelling(d)
    BY <2>2, <2>3 DEF Travelling
  <2> QED BY <1>2, <1>3, <2>2, <2>5, <2>6 DEF Unmixed
<1> QED BY <1>4, <1>5, <1>6, <1>7, <1>8, <1>9, <1>10 DEF Next, MainStep, Terminated

LEMMA WayInit == Init => Way
<1> SUFFICES ASSUME Init PROVE Way
  OBVIOUS
<1>1. ASSUME NEW c \in Cams PROVE Numbered(c) /\ Moving(c) /\ Reached(c)
  <2>1. thread[c] = IdleThread
    BY <1>1 DEF Init
  <2>2. c \in CameraId /\ c \in Connections
    BY <1>1, SmokeAssumption DEF Cams, CameraId, Connections
  <2>3. heard[c] = <<>> /\ rcvq[c] = <<>> /\ sndq[c] = <<>>
    BY <1>1, <2>2 DEF Init
  <2>4. Numbered(c)
    BY <2>1 DEF Numbered, Unsent, IdleThread
  <2>5. Numbers(<<>>) = <<>>
    BY DEF Numbers
  <2>6. Travelling(c) = <<>>
    <3>1. <<>> \o <<>> = <<>>
      OBVIOUS
    <3> QED BY <2>3, <2>5, <3>1 DEF Travelling
  <2>7. Len(Travelling(c)) = 0
    BY <2>6
  <2>8. Moving(c)
    BY <2>1, <2>7 DEF Moving, IdleThread
  <2>9. Len(heard[c]) = 0
    BY <2>3
  <2>10. Reached(c)
    BY <2>1, <2>3, <2>9 DEF Reached, Missing, IdleThread
  <2> QED BY <2>4, <2>8, <2>10
<1> QED BY <1>1 DEF Way

LEMMA WayInvariant == Spec => [](Phases /\ Threads /\ Queues /\ Way)
BY OrderInit, QueuesInit, WayInit, PhasesNext, ThreadsNext, QueuesNext, WayNext, PTL
   DEF Spec

(***************************************************************************)
(* Nothing is lost, doubled or overtaken between a driver and the sink,    *)
(* for any number of cameras, any room in the queues and any latency, as   *)
(* long as the messages of other programs bear other ids.                  *)
(***************************************************************************)
THEOREM FramesAlwaysConserved ==
  ASSUME Strangers
  PROVE  Spec => []FramesConserved
<1>1. Phases /\ Queues /\ Way => FramesConserved
  <2> SUFFICES ASSUME Phases, Queues, Way, NEW c \in live PROVE
          LET way    == Travelling(c)
              unsent == thread[c].next - thread[c].sent - thread[c].dropped
                          - thread[c].skipped
          IN  /\ Len(way) = thread[c].sent
              /\ \A i \in 1 .. Len(way) - 1 : way[i] < way[i + 1]
              /\ thread[c].at = "send" => \A i \in DOMAIN way : way[i] < thread[c].held
              /\ \/ thread[c].at # "send" /\ unsent = 0
                 \/ (thread[c].at \in {"send", "fault"} \/ thread[c].failed) /\ unsent = 1
    BY DEF FramesConserved
  <2>1. c \in Cams /\ Moving(c) /\ Numbered(c)
    BY DEF Phases, Way, Unmixed
  <2>2. Travelling(c) \in Seq(Nat)
    BY <2>1, WayType
  <2>3. DOMAIN Travelling(c) = 1 .. Len(Travelling(c))
    BY <2>2, LenProperties
  <2> QED BY <2>1, <2>3 DEF Moving, Numbered, Unsent
<1>2. QED BY <1>1, WayInvariant, PTL

-----------------------------------------------------------------------------
(***************************************************************************)
(* The verdict.                                                            *)
(***************************************************************************)

\* The sink meets every camera of the run with the bounds of its own spec.
LEMMA KnownCamera ==
  ASSUME specs = SmokeSpecs, NEW c \in Cams
  PROVE  SP!FirstSight(c).spec_known /\ SP!FirstSight(c).max_sites = 1
<1>1. SmokeSpecs[c] = [camera_id |-> c, max_sites |-> 1, expect_period |-> 0]
      /\ DOMAIN SmokeSpecs = Cams
      /\ \A d \in Cams : SmokeSpecs[d].camera_id = d
  BY DEF SmokeSpecs
<1>2. SP!SpecsOf(specs, c) = {c}
  BY <1>1 DEF SP!SpecsOf
<1>3. {c} \in SUBSET Nat /\ {c} # {}
  BY SmokeAssumption DEF Cams
<1>4. SP!Min({c}) = Min({c})
  BY DEF SP!Min, Min
<1>5. Min({c}) \in {c}
  BY <1>3, MinIsLeast
<1>6. specs[SP!Min({c})] = SmokeSpecs[c]
  BY <1>4, <1>5
<1> HIDE DEF SmokeSpecs
<1>7. SP!FirstSight(c).spec_known = (SP!SpecsOf(specs, c) # {})
  BY Zenon DEF SP!FirstSight
<1>8. SP!FirstSight(c).max_sites =
        IF SP!SpecsOf(specs, c) # {} THEN specs[SP!Min(SP!SpecsOf(specs, c))].max_sites
        ELSE 0
  BY Zenon DEF SP!FirstSight
<1>9. SP!SpecsOf(specs, c) # {}
  BY <1>2
<1>10. SP!FirstSight(c).spec_known
  BY <1>7, <1>9, Zenon
<1>11. SP!FirstSight(c).max_sites = specs[SP!Min({c})].max_sites
  BY <1>2, <1>8, <1>9
<1> QED BY <1>1, <1>6, <1>10, <1>11

\* The next frame of a camera adds to what is missing of it what it leaves out.
LEMMA HearMissing ==
  ASSUME Queues, NEW c \in Cams, Moving(c), Reached(c), RecvOne(c)
  PROVE  \E n \in Nat, t \in Int :
           LET h == heard[c]
           IN  /\ Stamped(c, n, t)
               /\ heard'[c] = Append(h, Unpacked(Shot(c, n, t)))
               /\ SP!Validate(Unpacked(Shot(c, n, t)))
               /\ Missing(c)' = n - Len(h)
               /\ h = <<>> => Missing(c) = 0
               /\ h # <<>> =>
                    /\ Len(h) > 0
                    /\ h[Len(h)].sequence \in Nat /\ h[Len(h)].sequence < n
                    /\ h[Len(h)].t_ns \in Int
                    /\ Stamped(c, h[Len(h)].sequence, h[Len(h)].t_ns)
                    /\ Missing(c) = h[Len(h)].sequence + 1 - Len(h)
<1>1. PICK n \in Nat, t \in Int :
        /\ Stamped(c, n, t)
        /\ heard'[c] = Append(heard[c], Unpacked(Shot(c, n, t)))
        /\ Unpacked(Shot(c, n, t)) \in Frame(CameraId)
        /\ Unpacked(Shot(c, n, t)).sequence = n
        /\ SP!Validate(Unpacked(Shot(c, n, t)))
        /\ Len(heard[c]) + 1 <= Len(Travelling(c))
        /\ Travelling(c)[Len(heard[c]) + 1] = n
  BY RecvWay
<1> DEFINE h == heard[c]
           f == Unpacked(Shot(c, n, t))
           way == Travelling(c)
<1>2. /\ h \in Seq(Frame(CameraId)) /\ way \in Seq(Nat)
      /\ \A g \in Frame(CameraId) : g.sequence \in Nat
      /\ Numbers(h) \in Seq(Nat) /\ Numbers(rcvq[c]) \in Seq(Nat)
      /\ Numbers(sndq[c]) \in Seq(Nat)
  BY WayType
<1>3. /\ f \in Frame(CameraId) /\ f.sequence = n /\ heard'[c] = Append(h, f)
      /\ Len(h) + 1 <= Len(way) /\ way[Len(h) + 1] = n
  BY <1>1
<1>4. /\ Len(Numbers(h)) = Len(h) /\ Len(h) \in Nat
      /\ \A i \in 1 .. Len(h) : Numbers(h)[i] = h[i].sequence
  BY <1>2, NumbersType
<1>5. \A i \in 1 .. Len(h) : way[i] = h[i].sequence
  <2>1. \A k \in 1 .. Len(Numbers(h)) : way[k] = Numbers(h)[k]
    BY <1>2, HeardFirst DEF Travelling
  <2> QED BY <1>4, <2>1
<1>6. \A i \in 1 .. Len(way) - 1 : way[i] < way[i + 1]
  BY DEF Moving
<1>7. \A i \in 1 .. Len(h) : Stamped(c, h[i].sequence, h[i].t_ns)
  BY DEF Reached
<1>8. Len(way) \in Nat
  BY <1>2, LenProperties
<1> HIDE DEF f, way
<1>9. Missing(c)' = n - Len(h)
  <2>0. /\ Append(h, f) \in Seq(Frame(CameraId)) /\ Len(Append(h, f)) = Len(h) + 1
        /\ Append(h, f)[Len(h) + 1] = f
    BY <1>2, <1>3, AppendAt
  <2>1. Append(h, f) # <<>>
    <3> DEFINE k == Len(h)
               a == Append(h, f)
    <3>1. k \in Nat /\ a \in Seq(Frame(CameraId)) /\ Len(a) = k + 1
      BY <1>4, <2>0
    <3> HIDE DEF k, a
    <3>2. a # <<>>
      BY <3>1, EmptySeq
    <3> QED BY <3>2 DEF a
  <2>2. Missing(c)' = n + 1 - (Len(h) + 1)
    BY <1>3, <2>0, <2>1 DEF Missing
  <2> QED BY <1>4, <2>2
<1>10. h = <<>> => Missing(c) = 0
  BY DEF Missing
<1>11. ASSUME h # <<>>
       PROVE  /\ Len(h) > 0
              /\ h[Len(h)].sequence \in Nat /\ h[Len(h)].sequence < n
              /\ h[Len(h)].t_ns \in Int
              /\ Stamped(c, h[Len(h)].sequence, h[Len(h)].t_ns)
              /\ Missing(c) = h[Len(h)].sequence + 1 - Len(h)
  <2>1. Len(h) \in 1 .. Len(h) /\ Len(h) \in 1 .. Len(way) - 1
    BY <1>2, <1>3, <1>4, <1>8, <1>11, EmptySeq
  <2>2. way[Len(h)] = h[Len(h)].sequence /\ way[Len(h)] < n
    BY <1>3, <1>5, <1>6, <2>1
  <2>3. h[Len(h)] \in Frame(CameraId)
    BY <1>2, <2>1, ElementOfSeq
  <2>4. PICK last \in Nat : last = h[Len(h)].sequence
    BY <1>2, <2>3
  <2>5. Stamped(c, h[Len(h)].sequence, h[Len(h)].t_ns)
    BY <1>7, <2>1
  <2>6. h[Len(h)].t_ns \in Int
    BY <2>3 DEF Frame
  <2>8. Missing(c) = h[Len(h)].sequence + 1 - Len(h)
    BY <1>11 DEF Missing
  <2> QED BY <1>4, <2>1, <2>2, <2>4, <2>5, <2>6, <2>8
<1> QED BY <1>1, <1>9, <1>10, <1>11

\* What the counters of the sink make of a frame of a camera that is whole, in
\* order and known.
LEMMA HearCounts ==
  ASSUME Queues, Verdict, foreign = 0, NEW c \in Cams, Moving(c), Reached(c), RecvOne(c)
  PROVE  /\ stats.received' = stats.received + 1
         /\ Missing(c)' \in Nat /\ Missing(c) \in Nat /\ Missing(c) <= Missing(c)'
         /\ stats'.seq_lost <= stats.seq_lost + (Missing(c)' - Missing(c))
         /\ stats'.bad_parse = 0 /\ stats'.bad_index = 0
         /\ stats'.bad_value = 0 /\ stats'.unexpected_cams = 0
         /\ stats'.backwards > 0 => \/ stats.backwards > 0
                                    \/ c \in Webcams /\ ~Sink!Ascending(heard'[c])
         /\ stats'.seq_gaps > 0 => stats.seq_gaps > 0 \/ Missing(c)' > 0
         /\ \A i \in SP!Slot : cams'[i].seen =>
              cams'[i].spec_known /\ cams'[i].max_sites = 1
<1> DEFINE h == heard[c]
<1>1. PICK n \in Nat, t \in Int :
        /\ Stamped(c, n, t)
        /\ heard'[c] = Append(h, Unpacked(Shot(c, n, t)))
        /\ SP!Validate(Unpacked(Shot(c, n, t)))
        /\ Missing(c)' = n - Len(h)
        /\ h = <<>> => Missing(c) = 0
        /\ h # <<>> =>
             /\ Len(h) > 0
             /\ h[Len(h)].sequence \in Nat /\ h[Len(h)].sequence < n
             /\ h[Len(h)].t_ns \in Int
             /\ Stamped(c, h[Len(h)].sequence, h[Len(h)].t_ns)
             /\ Missing(c) = h[Len(h)].sequence + 1 - Len(h)
  BY HearMissing
<1> DEFINE f == Unpacked(Shot(c, n, t))
<1>2. c \in CameraId
  BY SmokeAssumption DEF Cams, CameraId
<1>3. /\ f.camera_id = c /\ f.sequence = n /\ f.t_ns = t /\ f.count = 1
      /\ f.support = <<0>> /\ f.signal = <<0>> /\ f \in Frame(CameraId)
  BY <1>2, ShotFacts
<1>4. f.support[1] = 0 /\ f.signal[1] = 0
  BY <1>3
<1>5. SP!Validate(f)
  BY <1>1
<1>6. /\ SP!SinkTypeOK /\ SP!TableTracksStreams /\ specs = SmokeSpecs
      /\ stats \in SP!Stats
  BY DEF Queues, SP!TableInv, SP!SinkTypeOK
<1>7. h \in Seq(Frame(CameraId)) /\ Len(h) \in Nat
  BY WayType, LenProperties
<1>8. /\ stats.bad_parse = 0 /\ stats.bad_index = 0
      /\ stats.bad_value = 0 /\ stats.unexpected_cams = 0
      /\ \A i \in SP!Slot : cams[i].seen => cams[i].spec_known /\ cams[i].max_sites = 1
  BY DEF Verdict
<1> HIDE DEF f
<1>10. Missing(c)' \in Nat /\ Missing(c) \in Nat /\ Missing(c) <= Missing(c)'
  <2>1. 0 <= Missing(c)
    BY DEF Reached
  <2>2. CASE h = <<>>
    <3>1. Len(h) = 0
      BY <2>2
    <3> QED BY <1>1, <2>2, <3>1
  <2>3. CASE h # <<>>
    BY <1>1, <1>7, <2>1, <2>3
  <2> QED BY <2>2, <2>3
<1>11. CASE SP!CamFind(c) = {}
  <2>1. UNCHANGED cams /\ stats' = [stats EXCEPT !.received = @ + 1]
    BY <1>3, <1>5, <1>11 DEF SP!Validate
  <2>2. /\ stats'.received = stats.received + 1 /\ stats'.seq_lost = stats.seq_lost
        /\ stats'.seq_gaps = stats.seq_gaps
        /\ stats'.bad_parse = 0 /\ stats'.backwards = stats.backwards
        /\ stats'.bad_index = 0 /\ stats'.bad_value = 0 /\ stats'.unexpected_cams = 0
        /\ stats.seq_lost \in Nat
    BY <1>6, <1>8, <2>1 DEF SP!Stats
  <2> QED BY <1>8, <1>10, <2>1, <2>2
<1>12. CASE SP!CamFind(c) # {}
  <2>1. PICK i \in SP!CamFind(c) :
          LET cam == IF cams[i].seen THEN cams[i] ELSE SP!FirstSight(c)
          IN  /\ cams'  = [cams EXCEPT ![i] = SP!Remember(cam, f)]
              /\ stats' = SP!Checked(cam, f, ~cams[i].seen)
    BY <1>3, <1>5, <1>12 DEF SP!Validate
  <2> DEFINE cam == SP!Given(i, c)
             new == ~cams[i].seen
  <2>2. /\ cams'  = [cams EXCEPT ![i] = SP!Remember(cam, f)]
        /\ stats' = SP!Checked(cam, f, new)
    BY <2>1 DEF SP!Given
  <2>3. /\ cam \in SP!CamState /\ cam.frames = Len(h)
        /\ h # <<>> => cam.last_seq  = h[Len(h)].sequence
                       /\ cam.last_t_ns = h[Len(h)].t_ns
    BY <1>2, <1>6, SinkParameters, SP!SlotOfCamera
  <2>4. i \in SP!Slot /\ cams \in [SP!Slot -> SP!CamState]
    BY <1>6, SinkParameters, SP!CamFindSlot DEF SP!SinkTypeOK
  <2>5. cam.spec_known /\ cam.max_sites = 1
    <3>1. CASE cams[i].seen
      BY <1>8, <2>4, <3>1 DEF SP!Given
    <3>2. CASE ~cams[i].seen
      BY <1>6, <3>2, KnownCamera DEF SP!Given
    <3> QED BY <3>1, <3>2
  <2> HIDE DEF cam, new
  <2>6. SP!StampBack(cam, f) => c \in Webcams /\ ~Sink!Ascending(heard'[c])
    <3> SUFFICES ASSUME SP!StampBack(cam, f)
                 PROVE  c \in Webcams /\ ~Sink!Ascending(heard'[c])
      OBVIOUS
    <3>1. Len(h) > 0 /\ h # <<>>
      BY <1>7, <2>3 DEF SP!StampBack
    <3>2. t <= h[Len(h)].t_ns
      BY <1>3, <2>3, <3>1 DEF SP!StampBack
    <3>3. c \in Webcams
      BY <1>1, <3>1, <3>2 DEF Stamped
    <3>4. heard'[c] = Append(h, f)
      BY <1>1 DEF f
    <3> DEFINE g == Append(h, f)
               k == Len(h)
    <3>5. /\ g \in Seq(Frame(CameraId)) /\ Len(g) = k + 1 /\ g[k + 1] = f
          /\ \A p \in 1 .. k : g[p] = h[p]
      BY <1>3, <1>7, AppendAt
    <3>6. k \in Nat /\ k > 0 /\ h[k].t_ns \in Int /\ t <= h[k].t_ns
      BY <1>1, <1>7, <3>1, <3>2
    <3> HIDE DEF g, k
    <3>7. k \in DOMAIN g /\ k + 1 \in DOMAIN g /\ g[k] = h[k]
      BY <3>5, <3>6, LenProperties
    <3>8. g[k + 1].t_ns = t
      BY <1>3, <3>5
    <3>9. ~Sink!Ascending(g)
      BY <3>6, <3>7, <3>8 DEF Sink!Ascending
    <3> QED BY <3>3, <3>4, <3>9 DEF g
  <2>7. ~SP!IndexBad(cam, f) /\ ~SP!ValueBad(f)
    BY <1>3, <1>4, <2>5 DEF SP!IndexBad, SP!ValueBad
  <2>8. /\ SP!Lost(cam, f) \in Nat /\ SP!Lost(cam, f) <= Missing(c)' - Missing(c)
        /\ SP!SequenceGap(cam, f) => Missing(c)' > 0
    <3>1. CASE h = <<>>
      <4>1. Len(h) = 0
        BY <3>1
      <4>2. ~SP!SequenceGap(cam, f) /\ SP!Lost(cam, f) = 0
        BY <2>3, <4>1 DEF SP!SequenceGap, SP!Lost
      <4> QED BY <1>1, <1>10, <3>1, <4>2
    <3>2. CASE h # <<>>
      <4>1. PICK last \in Nat : last = h[Len(h)].sequence
        BY <1>1, <3>2
      <4>2. /\ cam.frames > 0 /\ cam.last_seq = last /\ last < n
            /\ Missing(c)' = n - Len(h) /\ Missing(c) = last + 1 - Len(h)
        BY <1>1, <2>3, <3>2, <4>1
      <4>3. SP!Lost(cam, f) = n - last - 1 /\ (SP!SequenceGap(cam, f) => n # last + 1)
        BY <1>3, <4>2 DEF SP!SequenceGap, SP!Lost
      <4>4. PICK k \in Nat, a \in Nat, b \in Nat :
              k = Len(h) /\ a = Missing(c) /\ b = Missing(c)'
        BY <1>7, <1>10
      <4>5. b = n - k /\ a = last + 1 - k
        BY <4>2, <4>4
      <4>6. n - last - 1 = b - a /\ n - last - 1 \in Nat /\ (n # last + 1 => b > 0)
        BY <4>2, <4>5
      <4> QED BY <4>3, <4>4, <4>6
    <3> QED BY <3>1, <3>2
  <2>10. /\ stats'.received = stats.received + 1
         /\ stats'.seq_lost = stats.seq_lost + SP!Lost(cam, f)
         /\ stats'.seq_gaps = stats.seq_gaps + SP!One(SP!SequenceGap(cam, f))
         /\ stats'.bad_parse = stats.bad_parse
         /\ stats'.backwards = stats.backwards + SP!One(SP!StampBack(cam, f))
         /\ stats'.bad_index = stats.bad_index + SP!One(SP!IndexBad(cam, f))
         /\ stats'.bad_value = stats.bad_value + SP!One(SP!ValueBad(f))
         /\ stats'.unexpected_cams = stats.unexpected_cams
                + SP!One(new /\ specs # <<>> /\ ~cam.spec_known)
    BY <2>2, Zenon DEF SP!Checked
  <2>11. \A test : ~test => SP!One(test) = 0
    BY DEF SP!One
  <2>12. /\ stats.seq_lost \in Nat /\ stats.seq_gaps \in Nat
         /\ stats.backwards \in Nat
    BY <1>6 DEF SP!Stats
  <2>13. /\ stats'.bad_index = 0 /\ stats'.bad_value = 0
         /\ stats'.unexpected_cams = 0 /\ stats'.bad_parse = 0
         /\ stats'.backwards > 0 => \/ stats.backwards > 0
                                    \/ c \in Webcams /\ ~Sink!Ascending(heard'[c])
    <3>1. /\ SP!One(SP!IndexBad(cam, f)) = 0 /\ SP!One(SP!ValueBad(f)) = 0
          /\ SP!One(new /\ specs # <<>> /\ ~cam.spec_known) = 0
      BY <2>5, <2>7, <2>11, Zenon
    <3>2. stats'.backwards > 0 => \/ stats.backwards > 0
                                  \/ c \in Webcams /\ ~Sink!Ascending(heard'[c])
      <4>1. CASE SP!StampBack(cam, f)
        BY <2>6, <4>1
      <4>2. CASE ~SP!StampBack(cam, f)
        <5>1. SP!One(SP!StampBack(cam, f)) = 0
          BY <2>11, <4>2, Zenon
        <5> QED BY <2>10, <2>12, <5>1
      <4> QED BY <4>1, <4>2
    <3> QED BY <1>8, <2>10, <3>1, <3>2
  <2>14. stats'.seq_gaps > 0 => stats.seq_gaps > 0 \/ Missing(c)' > 0
    <3>1. CASE SP!SequenceGap(cam, f)
      BY <2>8, <3>1
    <3>2. CASE ~SP!SequenceGap(cam, f)
      <4>1. SP!One(SP!SequenceGap(cam, f)) = 0
        BY <2>11, <3>2, Zenon
      <4> QED BY <2>10, <2>12, <4>1
    <3> QED BY <3>1, <3>2
  <2>15. ASSUME NEW j \in SP!Slot, cams'[j].seen
         PROVE  cams'[j].spec_known /\ cams'[j].max_sites = 1
    <3>1. CASE j = i
      <4>1. cams'[i] = SP!Remember(cam, f)
        BY <2>2, <2>4
      <4>2. /\ SP!Remember(cam, f).spec_known = cam.spec_known
            /\ SP!Remember(cam, f).max_sites = cam.max_sites
        BY <2>3 DEF SP!Remember, SP!CamState
      <4> QED BY <2>5, <3>1, <4>1, <4>2, Zenon
    <3>2. CASE j # i
      <4>1. cams'[j] = cams[j]
        BY <2>2, <2>4, <3>2
      <4> QED BY <1>8, <2>15, <4>1
    <3> QED BY <3>1, <3>2
  <2>16. stats'.seq_lost <= stats.seq_lost + (Missing(c)' - Missing(c))
    <3>1. PICK lost \in Nat, a \in Nat, b \in Nat, was \in Nat :
            /\ lost = SP!Lost(cam, f) /\ a = Missing(c) /\ b = Missing(c)'
            /\ was = stats.seq_lost
      BY <1>10, <2>8, <2>12
    <3>2. lost <= b - a
      BY <2>8, <3>1
    <3>3. was + lost <= was + (b - a)
      BY <3>2
    <3> QED BY <2>10, <3>1, <3>3
  <2> QED BY <1>10, <2>10, <2>13, <2>14, <2>15, <2>16
<1> QED BY <1>11, <1>12

\* The sizes of what was heard, missed and lost.
LEMMA Sizes ==
  ASSUME Threads, Queues, Way, foreign = 0
  PROVE  /\ IsFiniteSet(Cams)
         /\ \A c \in Cams : /\ Reached(c) /\ Heard[c] = Len(heard[c]) /\ Heard[c] \in Nat
                            /\ Missed[c] = Missing(c) /\ Missed[c] \in Nat
                            /\ Losses[c] \in Nat /\ Missed[c] <= Losses[c]
<1>1. IsFiniteSet(Cams)
  BY SmokeAssumption, FS_Interval DEF Cams
<1>2. ASSUME NEW c \in Cams
      PROVE  /\ Reached(c) /\ Heard[c] = Len(heard[c]) /\ Heard[c] \in Nat
             /\ Missed[c] = Missing(c) /\ Missed[c] \in Nat
             /\ Losses[c] \in Nat /\ Missed[c] <= Losses[c]
  <2>1. Reached(c)
    BY DEF Way, Unmixed
  <2>2. heard[c] \in Seq(Frame(CameraId)) /\ Len(heard[c]) \in Nat
    BY WayType, LenProperties
  <2>3. Missing(c) \in Int
    <3>1. CASE heard[c] = <<>>
      BY <3>1 DEF Missing
    <3>2. CASE heard[c] # <<>>
      <4>1. Len(heard[c]) \in 1 .. Len(heard[c])
        BY <2>2, <3>2, EmptySeq
      <4>2. heard[c][Len(heard[c])] \in Frame(CameraId)
        BY <2>2, <4>1, ElementOfSeq
      <4>3. heard[c][Len(heard[c])].sequence \in Nat
        BY <4>2 DEF Frame
      <4> QED BY <2>2, <3>2, <4>3 DEF Missing
    <3> QED BY <3>1, <3>2
  <2>4. thread[c].dropped \in Nat /\ thread[c].skipped \in Nat
    BY DEF Threads, Thread
  <2>5. Losses[c] = thread[c].dropped + thread[c].skipped
    BY DEF Losses
  <2>6. 0 <= Missing(c) /\ Missing(c) <= Losses[c]
    BY <2>1, <2>5 DEF Reached
  <2>7. Heard[c] = Len(heard[c]) /\ Missed[c] = Missing(c)
    BY DEF Heard, Missed
  <2> QED BY <2>1, <2>2, <2>3, <2>4, <2>5, <2>6, <2>7
<1> QED BY <1>1, <1>2

\* Stamps that do not ascend never do again.
LEMMA DescentStays ==
  ASSUME NEW T, NEW s \in Seq(T), NEW x \in T, ~Sink!Ascending(s)
  PROVE  ~Sink!Ascending(Append(s, x))
<1> DEFINE g == Append(s, x)
<1>1. PICK k \in DOMAIN s, l \in DOMAIN s : k < l /\ ~(s[k].t_ns < s[l].t_ns)
  BY DEF Sink!Ascending
<1>2. /\ Len(s) \in Nat /\ DOMAIN s = 1 .. Len(s)
      /\ g \in Seq(T) /\ Len(g) = Len(s) + 1 /\ \A i \in 1 .. Len(s) : g[i] = s[i]
  BY AppendAt, LenProperties
<1> HIDE DEF g
<1>3. DOMAIN g = 1 .. Len(s) + 1
  BY <1>2, LenProperties
<1>4. k \in DOMAIN g /\ l \in DOMAIN g /\ g[k] = s[k] /\ g[l] = s[l]
  BY <1>1, <1>2, <1>3
<1>5. ~Sink!Ascending(g)
  BY <1>1, <1>4 DEF Sink!Ascending
<1> QED BY <1>5 DEF g

\* A frame of a camera keeps what the counters say.
LEMMA HearVerdict ==
  ASSUME Phases, Threads, Queues, Way, Verdict, Threads', Queues', Way', foreign = 0,
         NEW c \in Cams, RecvOne(c)
  PROVE  Verdict'
<1>1. pc = "recv" /\ thread' = thread /\ foreign' = foreign
  BY DEF RecvOne
<1>2. live = Cams /\ why = "none"
  BY <1>1 DEF Phases, Left
<1>3. Moving(c) /\ Reached(c)
  BY <1>2 DEF Way, Unmixed
<1>4. /\ stats.received' = stats.received + 1
      /\ Missing(c)' \in Nat /\ Missing(c) \in Nat /\ Missing(c) <= Missing(c)'
      /\ stats'.seq_lost <= stats.seq_lost + (Missing(c)' - Missing(c))
      /\ stats'.bad_parse = 0 /\ stats'.bad_index = 0
      /\ stats'.bad_value = 0 /\ stats'.unexpected_cams = 0
      /\ stats'.backwards > 0 => \/ stats.backwards > 0
                                 \/ c \in Webcams /\ ~Sink!Ascending(heard'[c])
      /\ stats'.seq_gaps > 0 => stats.seq_gaps > 0 \/ Missing(c)' > 0
      /\ \A i \in SP!Slot : cams'[i].seen =>
           cams'[i].spec_known /\ cams'[i].max_sites = 1
  BY <1>3, HearCounts
<1>5. PICK n \in Nat, t \in Int :
                       /\ heard'[c] = Append(heard[c], Unpacked(Shot(c, n, t)))
                       /\ Unpacked(Shot(c, n, t)) \in Frame(CameraId)
  BY RecvWay
<1>6. \A d \in Cams : d # c => heard'[d] = heard[d]
  BY RecvWay
<1>7. /\ IsFiniteSet(Cams)
      /\ \A d \in Cams : /\ Heard[d] = Len(heard[d]) /\ Heard[d] \in Nat
                         /\ Missed[d] = Missing(d) /\ Missed[d] \in Nat
  BY Sizes
<1>8. \A d \in Cams : /\ Heard'[d] = Len(heard'[d])
                      /\ Missed'[d] = Missing(d)'
  BY DEF Heard, Missed
<1>9. Heard'[c] = Heard[c] + 1
  <2>1. heard[c] \in Seq(Frame(CameraId))
    BY WayType
  <2>2. Len(heard'[c]) = Len(heard[c]) + 1
    BY <1>5, <2>1, AppendAt
  <2> QED BY <1>7, <1>8, <2>2
<1>10. \A d \in Cams : d # c => Heard'[d] = Heard[d] /\ Missed'[d] = Missed[d]
  <2>1. \A d \in Cams : d # c => Missing(d)' = Missing(d)
    BY <1>6 DEF Missing
  <2> QED BY <1>6, <1>7, <1>8, <2>1
<1>11. \A d \in Cams : Heard'[d] \in Nat /\ Missed'[d] \in Nat
  BY <1>4, <1>7, <1>8, <1>9, <1>10
<1>12. /\ Cardinality(Pile(Cams, Heard)) \in Nat
       /\ Cardinality(Pile(Cams, Heard')) + Heard[c]
            = Cardinality(Pile(Cams, Heard)) + Heard'[c]
       /\ Cardinality(Pile(Cams, Heard')) \in Nat
  BY <1>7, <1>10, <1>11, PileChanges
<1>13. /\ Cardinality(Pile(Cams, Missed)) \in Nat
       /\ Cardinality(Pile(Cams, Missed')) + Missed[c]
            = Cardinality(Pile(Cams, Missed)) + Missed'[c]
       /\ Cardinality(Pile(Cams, Missed')) \in Nat
  BY <1>7, <1>10, <1>11, PileChanges
<1>14. stats.received' = Cardinality(Pile(Cams, Heard'))
  <2>1. stats.received = Cardinality(Pile(Cams, Heard))
    BY DEF Verdict
  <2> QED BY <1>4, <1>7, <1>9, <1>12, <2>1
<1>15. stats'.seq_lost <= Cardinality(Pile(Cams, Missed'))
  <2>1. stats.seq_lost <= Cardinality(Pile(Cams, Missed))
    BY DEF Verdict
  <2>2. stats.seq_lost \in Nat /\ stats'.seq_lost \in Nat
    BY DEF Queues, SP!TableInv, SP!SinkTypeOK, SP!Stats
  <2>3. PICK a \in Nat, b \in Nat, p \in Nat, q \in Nat, was \in Nat, lost \in Nat :
          /\ a = Missed[c] /\ b = Missed'[c] /\ was = stats.seq_lost
          /\ p = Cardinality(Pile(Cams, Missed)) /\ q = Cardinality(Pile(Cams, Missed'))
          /\ lost = stats'.seq_lost
    BY <1>7, <1>11, <1>13, <2>2
  <2>4. q + a = p + b /\ was <= p /\ lost <= was + (b - a)
    BY <1>4, <1>7, <1>8, <1>13, <2>1, <2>3
  <2>5. lost <= q
    BY <2>4
  <2> QED BY <2>3, <2>5
<1>16. stats'.seq_gaps > 0 => \E d \in Cams : Missing(d)' > 0
  <2>1. stats.seq_gaps > 0 => \E d \in Cams : Missing(d) > 0
    BY DEF Verdict
  <2>2. ASSUME NEW d \in Cams, Missing(d) > 0 PROVE Missing(d)' > 0
    <3>1. CASE d = c
      BY <1>4, <2>2, <3>1
    <3>2. CASE d # c
      <4>1. Missing(d)' = Missing(d)
        BY <1>6, <3>2 DEF Missing
      <4> QED BY <2>2, <4>1
    <3> QED BY <3>1, <3>2
  <2> QED BY <1>4, <2>1, <2>2
<1>17. why' = "total" => Complete(stats.received)'
  BY <1>2 DEF RecvOne, Leave, Complete
<1>18. stats'.backwards > 0 => \E d \in Webcams : ~Sink!Ascending(heard'[d])
  <2>1. CASE stats.backwards > 0
    <3>1. PICK d \in Webcams : ~Sink!Ascending(heard[d])
      BY <2>1 DEF Verdict
    <3>2. d \in Cams
      BY SmokeAssumption
    <3>3. ~Sink!Ascending(heard'[d])
      <4>1. CASE d = c
        <5>1. heard[c] \in Seq(Frame(CameraId))
          BY WayType
        <5> QED BY <1>5, <3>1, <4>1, <5>1, DescentStays
      <4>2. CASE d # c
        BY <1>6, <3>1, <3>2, <4>2
      <4> QED BY <4>1, <4>2
    <3> QED BY <3>3
  <2>2. CASE ~(stats.backwards > 0)
    BY <1>4, <2>2
  <2> QED BY <2>1, <2>2
<1> QED BY <1>4, <1>14, <1>15, <1>16, <1>17, <1>18 DEF Verdict

\* Every step keeps what the counters say.
LEMMA VerdictNext ==
  Phases /\ Threads /\ Queues /\ Way /\ Verdict /\ [Next]_vars => Verdict'
<1> SUFFICES ASSUME Phases, Threads, Queues, Way, Verdict, [Next]_vars PROVE Verdict'
  OBVIOUS
<1>1. ASSUME UNCHANGED sinkVars, foreign' = 0 => foreign = 0, why' = "total" => why = "total"
      PROVE  Verdict'
  <2>0. heard' = heard
    BY <1>1 DEF sinkVars
  <2>4. foreign' = 0 =>
          (stats'.backwards > 0 => \E c \in Webcams : ~Sink!Ascending(heard'[c]))
    BY <1>1, <2>0 DEF Verdict, sinkVars
  <2>1. Heard' = Heard /\ Missed' = Missed /\ \A c \in Cams : Missing(c)' = Missing(c)
    BY <1>1 DEF Heard, Missed, Missing, sinkVars
  <2>2. stats' = stats /\ cams' = cams
    BY <1>1 DEF sinkVars
  <2>3. why' = "total" => Complete(stats.received)'
    BY <1>1, <2>2 DEF Verdict, Complete
  <2> QED BY <1>1, <2>1, <2>2, <2>3, <2>4 DEF Verdict
<1>2. foreign \in Nat
  BY SmokeAssumption DEF Queues
<1>3. ASSUME NEW k \in Connections, RecvOne(k) PROVE Verdict'
  <2>1. foreign' = foreign /\ pc = "recv"
    BY <1>3 DEF RecvOne
  <2>2. why = "none"
    BY <2>1 DEF Phases, Left
  <2>3. why' = "total" => Complete(stats.received)'
    BY <1>3, <2>2 DEF RecvOne, Leave, Complete
  <2>4. CASE foreign # 0
    BY <2>1, <2>3, <2>4 DEF Verdict
  <2>5. CASE foreign = 0
    <3>1. k # 0
      BY <1>3, <2>5 DEF RecvOne, Queues
    <3>2. k \in Cams
      BY <3>1, SmokeAssumption DEF Cams, Connections
    <3>3. Threads' /\ Queues' /\ Way'
      BY ThreadsNext, QueuesNext, WayNext
    <3> QED BY <1>3, <2>5, <3>2, <3>3, HearVerdict
  <2> QED BY <2>4, <2>5
<1>4. CASE \/ SpawnOne \/ SpawnFail \/ LoopHead \/ RecvNothing \/ RecvError \/ ScanCamera \/ Decide
           \/ Stop \/ Join \/ Report \/ Release \/ Destroy \/ Interrupt \/ Expire
           \/ UNCHANGED vars
  <2>1. UNCHANGED sinkVars /\ foreign' = foreign /\ (why' = "total" => why = "total")
    BY <1>4 DEF SpawnOne, SpawnFail, LoopHead, RecvNothing, RecvError, ScanCamera, Decide, Stop, Join,
                Report, Release, Destroy, Interrupt, Expire, vars, mainVars, loopVars, zmqVars, Leave
  <2> QED BY <1>1, <2>1
<1>5. ASSUME NEW c \in Cams, CamStep(c) \/ DriverSkip(c) \/ Transfer(c) PROVE Verdict'
  <2>1. UNCHANGED sinkVars /\ foreign' = foreign /\ why' = why
    BY <1>5 DEF CamStep, CamHead, AcquireFrame, AcquireNothing, Send, Count, Fault,
                DriverSkip, Transfer, mainVars, loopVars, zmqVars
  <2> QED BY <1>1, <2>1
<1>6. CASE ForeignArrive
  <2>1. UNCHANGED sinkVars /\ foreign' = foreign + 1 /\ why' = why
    BY <1>6 DEF ForeignArrive, mainVars, loopVars
  <2> QED BY <1>1, <1>2, <2>1
<1> QED BY <1>3, <1>4, <1>5, <1>6 DEF Next, MainStep, Terminated

LEMMA VerdictInit == Init => Verdict
<1> SUFFICES ASSUME Init PROVE Verdict
  OBVIOUS
<1>1. \A c \in Cams : heard[c] = <<>>
  BY SmokeAssumption DEF Init, Cams, CameraId
<1>2. \A c \in Cams : Len(heard[c]) = 0 /\ Missing(c) = 0
  BY <1>1 DEF Missing
<1>3. /\ \A c \in Cams : Heard[c] = 0 /\ Missed[c] = 0
  BY <1>2 DEF Heard, Missed
<1>4. Pile(Cams, Heard) = {} /\ Pile(Cams, Missed) = {}
  BY <1>3 DEF Pile
<1>5. Cardinality(Pile(Cams, Heard)) = 0 /\ Cardinality(Pile(Cams, Missed)) = 0
  BY <1>4, FS_EmptySet
<1>6. \A i \in SP!Slot : ~cams[i].seen
  BY DEF Init, SP!Slot, Sink!NoCam
<1>7. /\ stats.received = 0 /\ stats.seq_lost = 0 /\ stats.bad_parse = 0
      /\ stats.backwards = 0 /\ stats.bad_index = 0 /\ stats.bad_value = 0
      /\ stats.unexpected_cams = 0 /\ stats.seq_gaps = 0 /\ why = "none"
  BY DEF Init
<1> QED BY <1>5, <1>6, <1>7 DEF Verdict

LEMMA SmokeInvariant == Spec => []SmokeInv
<1>1. Init => SmokeInv
  BY OrderInit, QueuesInit, WayInit, VerdictInit DEF SmokeInv
<1>2. SmokeInv /\ [Next]_vars => SmokeInv'
  BY PhasesNext, ThreadsNext, QueuesNext, WayNext, VerdictNext DEF SmokeInv
<1> QED BY <1>1, <1>2, PTL DEF Spec

\* The total of the losses, as the sum of the cameras'.
LEMMA TotalIsPile ==
  ASSUME Threads
  PROVE  LET Lost(c) == thread[c].dropped + thread[c].skipped
         IN  MapThenSumSet(Lost, Cams) = Cardinality(Pile(Cams, Losses))
<1> DEFINE Lost(c) == thread[c].dropped + thread[c].skipped
           Sums(g) == g = [s \in SUBSET Cams |->
                             IF s = {} THEN 0
                             ELSE Lost(CHOOSE x \in s : TRUE)
                                    + g[s \ {CHOOSE x \in s : TRUE}]]
           g0 == CHOOSE g : Sums(g)
<1>1. MapThenSumSet(Lost, Cams) = g0[Cams]
  BY DEF MapThenSumSet, MapThenFoldSet
<1>2. \A g : Sums(g) <=> SumsUp(g, Cams, Losses)
  BY DEF SumsUp, Losses
<1>3. IsFiniteSet(Cams)
  BY SmokeAssumption, FS_Interval DEF Cams
<1>4. \A c \in Cams : Losses[c] \in Nat
  <2>1. \A c \in Cams : thread[c].dropped \in Nat /\ thread[c].skipped \in Nat
    BY DEF Threads, Thread
  <2> QED BY <2>1 DEF Losses
<1>5. \E g : Sums(g)
  BY <1>2, <1>3, <1>4, SumExists
<1>6. Sums(g0)
  BY <1>5
<1>7. SumsUp(g0, Cams, Losses)
  BY <1>2, <1>6
<1> HIDE DEF g0
<1>8. g0[Cams] = Cardinality(Pile(Cams, Losses))
  BY <1>3, <1>4, <1>7, SumIsPile
<1> QED BY <1>1, <1>8

(***************************************************************************)
(* The sink never cries wolf, in a run of any number of cameras that no    *)
(* other program sends to: what it counts as lost is at most what the      *)
(* cameras lost, and a run that received something and fails without a     *)
(* timeout has lost a frame, or the stamps that the driver of a webcam     *)
(* gave do not ascend.                                                     *)
(***************************************************************************)
THEOREM LossesAlwaysReal == Spec => []LossesAreReal
<1>1. SmokeInv => LossesAreReal
  <2> SUFFICES ASSUME SmokeInv, foreign = 0
      PROVE  LET Lost(c) == thread[c].dropped + thread[c].skipped
             IN  /\ stats.seq_lost <= MapThenSumSet(Lost, Cams)
                 /\ (pc = "exit" /\ code = 1 /\ ~timed_out /\ stats.received > 0)
                      => \/ MapThenSumSet(Lost, Cams) > 0
                         \/ \E c \in Webcams : ~Sink!Ascending(heard[c])
    BY DEF LossesAreReal
  <2> DEFINE Lost(c) == thread[c].dropped + thread[c].skipped
             total   == MapThenSumSet(Lost, Cams)
  <2>1. Phases /\ Threads /\ Queues /\ Way /\ Verdict
    BY DEF SmokeInv
  <2>2. total = Cardinality(Pile(Cams, Losses))
    BY <2>1, TotalIsPile
  <2> HIDE DEF total
  <2>3. /\ IsFiniteSet(Cams)
        /\ \A c \in Cams : /\ Missed[c] = Missing(c) /\ Missed[c] \in Nat
                           /\ Losses[c] \in Nat /\ Missed[c] <= Losses[c]
    BY <2>1, Sizes
  <2>4. /\ Cardinality(Pile(Cams, Missed)) \in Nat
        /\ Cardinality(Pile(Cams, Losses)) \in Nat
        /\ Cardinality(Pile(Cams, Missed)) <= Cardinality(Pile(Cams, Losses))
    BY <2>3, PileCovers
  <2>5. stats.seq_lost \in Nat
    BY <2>1 DEF Queues, SP!TableInv, SP!SinkTypeOK, SP!Stats
  <2>6. stats.seq_lost <= total
    BY <2>1, <2>2, <2>4, <2>5 DEF Verdict
  <2>7. ASSUME pc = "exit", code = 1, ~timed_out, stats.received > 0,
               ~\E c \in Webcams : ~Sink!Ascending(heard[c])
        PROVE  total > 0
    <3>1. Sink!Failed
      BY <2>1, <2>7 DEF Phases
    <3>2. stats.seq_gaps > 0
      <4>1. ~(stats.backwards > 0)
        BY <2>1, <2>7 DEF Verdict
      <4> QED BY <2>1, <2>7, <3>1, <4>1 DEF Sink!Failed, Verdict
    <3>3. PICK c \in Cams : Missing(c) > 0
      BY <2>1, <3>2 DEF Verdict
    <3>4. Losses[c] > 0
      BY <2>3, <3>3
    <3>5. <<c, 1>> \in Pile(Cams, Losses)
      BY <2>3, <3>4 DEF Pile
    <3>6. IsFiniteSet(Pile(Cams, Losses))
      BY <2>3, PileFinite
    <3>7. Cardinality(Pile(Cams, Losses)) # 0
      BY <3>5, <3>6, FS_EmptySet
    <3> QED BY <2>2, <2>4, <3>7
  <2> QED BY <2>6, <2>7 DEF total
<1>2. QED BY <1>1, SmokeInvariant, PTL

(***************************************************************************)
(* The total is reached by every frame of every camera: as many frames as  *)
(* there are ticks cannot be made up for by another camera's, since none   *)
(* sends more than Want.                                                   *)
(***************************************************************************)
THEOREM TotalAlwaysMeansEveryFrame == Spec => []TotalMeansEveryFrame
<1>1. SmokeInv => TotalMeansEveryFrame
  <2> SUFFICES ASSUME SmokeInv, why = "total", foreign = 0, NEW c \in Cams
      PROVE  /\ Len(heard[c]) = Want
             /\ thread[c].sent = Want /\ thread[c].dropped = 0
             /\ thread[c].at \in {"head", "count", "done"}
    BY DEF TotalMeansEveryFrame
  <2>1. Phases /\ Threads /\ Queues /\ Way /\ Verdict
    BY DEF SmokeInv
  <2>2. N \in Nat \ {0} /\ Want \in Nat
    BY SmokeAssumption
  <2>3. Want * N # 0 /\ stats.received >= Want * N
    BY <2>1 DEF Verdict, Complete, WantTotal
  <2>4. Want # 0 /\ Want * N \in Nat /\ Want * N = N * Want
    BY <2>2, <2>3
  <2>5. started = Cams
    <3>1. pc \in Left
      BY <2>1 DEF Phases
    <3>2. stats.received # 0
      <4> DEFINE total == Want * N
      <4>1. total \in Nat /\ total # 0 /\ stats.received >= total
        BY <2>3, <2>4
      <4> HIDE DEF total
      <4> QED BY <4>1
    <3> QED BY <2>1, <3>1, <3>2 DEF Phases, Left
  <2> DEFINE Ticks == [d \in Cams |-> Want]
  <2>6. /\ IsFiniteSet(Cams)
        /\ \A d \in Cams : Reached(d) /\ Heard[d] = Len(heard[d]) /\ Heard[d] \in Nat
    BY <2>1, Sizes
  <2>7. ASSUME NEW d \in Cams
        PROVE  /\ Heard[d] <= thread[d].sent /\ thread[d].sent + thread[d].dropped <= Want
               /\ thread[d].sent \in Nat /\ thread[d].dropped \in Nat
               /\ thread[d].sent = Want => thread[d].at \in {"head", "count", "done"}
    <3>1. ThreadOK(d) /\ thread[d] \in Thread /\ d \in started
      BY <2>1, <2>5 DEF Threads
    <3>2. PICK ticks \in Nat, sent \in Nat, dropped \in Nat :
            /\ ticks = thread[d].ticks /\ sent = thread[d].sent
            /\ dropped = thread[d].dropped
      BY <3>1 DEF Thread
    <3>3. CASE thread[d].at = "count"
      <4>1. ticks < Want /\ sent + dropped <= ticks + 1
        BY <2>4, <3>1, <3>2, <3>3 DEF ThreadOK
      <4>2. sent + dropped <= Want
        BY <2>2, <4>1
      <4> QED BY <2>6, <3>2, <3>3, <4>2 DEF Reached
    <3>4. CASE thread[d].at # "count"
      <4>1. /\ ticks <= Want /\ sent + dropped <= ticks + 0
            /\ thread[d].at \in {"acquire", "send", "fault"} => ticks < Want
            /\ thread[d].at # "idle"
        BY <2>4, <3>1, <3>2, <3>4 DEF ThreadOK
      <4>2. sent + dropped <= Want /\ (sent = Want => ticks >= Want)
        BY <2>2, <4>1
      <4>3. sent = Want => thread[d].at \in {"head", "count", "done"}
        <5>1. thread[d].at \in {"idle", "head", "acquire", "send", "count", "fault", "done"}
          BY <3>1 DEF Thread
        <5> QED BY <2>2, <4>1, <4>2, <5>1
      <4> QED BY <2>6, <3>2, <4>2, <4>3 DEF Reached
    <3> QED BY <3>3, <3>4
  <2>8. \A d \in Cams : Heard[d] \in Nat /\ Ticks[d] \in Nat /\ Heard[d] <= Ticks[d]
    BY <2>2, <2>6, <2>7
  <2>9. Cardinality(Pile(Cams, Ticks)) = Want * N
    <3>1. Pile(Cams, Ticks) = Cams \X (1 .. Want)
      BY <2>2 DEF Pile
    <3>2. IsFiniteSet(1 .. Want) /\ Cardinality(1 .. Want) = Want
      BY <2>2, FS_Interval
    <3>3. Cardinality(Cams) = N
      BY <2>2, FS_Interval DEF Cams
    <3>4. Cardinality(Cams \X (1 .. Want)) = N * Want
      BY <2>6, <3>2, <3>3, FS_Product
    <3> QED BY <2>4, <3>1, <3>4
  <2> HIDE DEF Ticks
  <2>10. /\ Cardinality(Pile(Cams, Heard)) \in Nat /\ Cardinality(Pile(Cams, Ticks)) \in Nat
         /\ Cardinality(Pile(Cams, Heard)) <= Cardinality(Pile(Cams, Ticks))
         /\ Cardinality(Pile(Cams, Heard)) = Cardinality(Pile(Cams, Ticks))
              => \A d \in Cams : Heard[d] = Ticks[d]
    BY <2>6, <2>8, PileCovers
  <2>11. Cardinality(Pile(Cams, Heard)) >= Cardinality(Pile(Cams, Ticks))
    BY <2>1, <2>3, <2>9 DEF Verdict
  <2>12. Heard[c] = Want
    BY <2>10, <2>11 DEF Ticks
  <2> QED BY <2>2, <2>6, <2>7, <2>12
<1>2. QED BY <1>1, SmokeInvariant, PTL

-----------------------------------------------------------------------------
(***************************************************************************)
(* The types of the state.                                                 *)
(***************************************************************************)
Reasons == {"none", "stop", "total", "quiet", "watchdog", "error"}

Flags ==
  /\ g_stop \in BOOLEAN /\ expired \in BOOLEAN
  /\ quiet \in 0 .. 2
  /\ why \in Reasons
  /\ code \in {0, 1}

LEMMA FlagsNext == Flags /\ [Next]_vars => Flags'
<1> SUFFICES ASSUME Flags, [Next]_vars PROVE Flags'
  OBVIOUS
<1>1. CASE UNCHANGED vars
  BY <1>1 DEF Flags, vars, mainVars, loopVars
<1>2. CASE RecvNothing
  <2>1. /\ quiet' = Min({2, quiet + 1})
        /\ UNCHANGED <<g_stop, why, code, expired>>
    BY <1>2 DEF RecvNothing
  <2>2. quiet \in 0 .. 2
    BY DEF Flags
  <2>3. Min({2, quiet + 1}) = IF 2 <= quiet + 1 THEN 2 ELSE quiet + 1
    <3>1. PICK q \in Nat : q = quiet + 1
      BY <2>2
    <3>2. Min({2, q}) = IF 2 <= q THEN 2 ELSE q
      BY MinOfTwo
    <3> QED BY <3>1, <3>2
  <2>4. quiet' \in 0 .. 2
    BY <2>1, <2>2, <2>3
  <2> QED BY <2>1, <2>4 DEF Flags
<1>3. ASSUME NEW k \in Connections, RecvOne(k) PROVE Flags'
  BY <1>3 DEF RecvOne, Leave, Flags, Reasons
<1>4. CASE SpawnOne \/ SpawnFail \/ LoopHead \/ RecvError \/ ScanCamera \/ Decide \/ Stop \/ Join
           \/ Release \/ Destroy
  <2>1. g_stop' \in {g_stop, TRUE} /\ why' \in Reasons /\ UNCHANGED <<quiet, code, expired>>
    BY <1>4 DEF SpawnOne, SpawnFail, LoopHead, RecvError, ScanCamera, Decide, Stop,
                Join, Release, Destroy, Leave, loopVars, Flags, Reasons
  <2>2. g_stop' \in BOOLEAN
    BY <2>1, Zenon DEF Flags
  <2> QED BY <2>1, <2>2 DEF Flags
<1>5. CASE Report
  BY <1>5 DEF Report, loopVars, Flags
<1>6. ASSUME NEW c \in Cams, CamStep(c) \/ DriverSkip(c) \/ Transfer(c) PROVE Flags'
  BY <1>6 DEF CamStep, CamHead, AcquireFrame, AcquireNothing, Send, Count, Fault,
              DriverSkip, Transfer, mainVars, loopVars, Flags
<1>7. CASE ForeignArrive
  BY <1>7 DEF ForeignArrive, mainVars, loopVars, Flags
<1>8. CASE Interrupt
  <2>1. g_stop' = TRUE /\ UNCHANGED <<quiet, why, code, expired>>
    BY <1>8 DEF Interrupt, loopVars
  <2>2. g_stop' \in BOOLEAN
    BY <2>1, Zenon
  <2> QED BY <2>1, <2>2 DEF Flags
<1>9. CASE Expire
  <2>1. expired' = TRUE /\ UNCHANGED <<quiet, why, code, g_stop>>
    BY <1>9 DEF Expire, mainVars, loopVars
  <2>2. expired' \in BOOLEAN
    BY <2>1, Zenon
  <2> QED BY <2>1, <2>2 DEF Flags
<1> QED BY <1>1, <1>2, <1>3, <1>4, <1>5, <1>6, <1>7, <1>8, <1>9
        DEF Next, MainStep, Terminated

\* The queues are functions on the cameras and on the connections.
Mail ==
  /\ sndq = [c \in Cams |-> sndq[c]]
  /\ rcvq = [k \in Connections |-> rcvq[k]]

LEMMA MailNext == Mail /\ [Next]_vars => Mail'
<1> SUFFICES ASSUME Mail, [Next]_vars PROVE Mail'
  OBVIOUS
<1>1. \/ sndq' = sndq
      \/ \E c, q : sndq' = [sndq EXCEPT ![c] = q]
  BY DEF Next, MainStep, SpawnOne, SpawnFail, LoopHead, RecvOne, RecvNothing, RecvError,
         ScanCamera, Decide, Stop, Join, Report, Release, Destroy, CamStep, CamHead, AcquireFrame,
         AcquireNothing, Send, Enqueue, Drop, SendError, Count, Fault, DriverSkip,
         Transfer, ForeignArrive, Interrupt, Expire, Terminated, vars, zmqVars
<1>2. \/ rcvq' = rcvq
      \/ \E k, q : rcvq' = [rcvq EXCEPT ![k] = q]
  BY DEF Next, MainStep, SpawnOne, SpawnFail, LoopHead, RecvOne, RecvNothing, RecvError,
         ScanCamera, Decide, Stop, Join, Report, Release, Destroy, CamStep, CamHead, AcquireFrame,
         AcquireNothing, Send, Count, Fault, DriverSkip, Transfer, ForeignArrive,
         Interrupt, Expire, Terminated, vars, zmqVars
<1>3. DOMAIN sndq = Cams /\ DOMAIN rcvq = Connections
  BY DEF Mail
<1>4. sndq' = [c \in Cams |-> sndq'[c]]
  BY <1>1, <1>3 DEF Mail
<1>5. rcvq' = [k \in Connections |-> rcvq'[k]]
  BY <1>2, <1>3 DEF Mail
<1> QED BY <1>4, <1>5 DEF Mail

\* The types of the run's state, those of the queues among them: only whole
\* messages are ever in them, and no more of other programs than may arrive.
THEOREM SmokeTypeCorrect == Spec => []TypeOK
<1>1. Init => Flags /\ Mail
  <2> SUFFICES ASSUME Init PROVE Flags /\ Mail
    OBVIOUS
  <2>1. g_stop \in BOOLEAN /\ expired \in BOOLEAN
    BY Zenon DEF Init
  <2> QED BY <2>1 DEF Init, Flags, Reasons, Mail
<1>2. Phases /\ Threads /\ Queues /\ Flags /\ Mail /\ Deadline => TypeOK
  <2> SUFFICES ASSUME Phases, Threads, Queues, Flags, Mail, Deadline PROVE TypeOK
    OBVIOUS
  <2>1. /\ pc \in Places /\ live \subseteq Cams /\ started \subseteq Cams
        /\ scanned \in 0 .. N
    BY FirstCams DEF Phases
  <2>0. late \in 0 .. 2
    BY DEF Deadline
  <2>2. timed_out \in BOOLEAN
    BY Zenon DEF Phases
  <2>3. \A c \in Cams : /\ sndq[c] \in Seq(Message(CameraId))
                        /\ rcvq[c] \in Seq(Message(CameraId))
    BY WayType
  <2>4. \A k \in Connections : rcvq[k] \in Seq(Message(CameraId))
    <3>1. \A k \in Connections : k = 0 \/ k \in Cams
      BY SmokeAssumption DEF Connections, Cams
    <3>2. Seq(Foreign) \subseteq Seq(Message(CameraId))
      BY SmokeAssumption, SeqMonotonic
    <3> QED BY <2>3, <3>1, <3>2 DEF Queues
  <2>5. sndq \in [Cams -> Seq(Message(CameraId))]
    BY <2>3 DEF Mail
  <2>6. rcvq \in [Connections -> Seq(Message(CameraId))]
    BY <2>4 DEF Mail
  <2> QED BY <2>0, <2>1, <2>2, <2>5, <2>6 DEF TypeOK, Flags, Reasons, Places, Threads, Queues
<1>3. QED BY <1>1, <1>2, FlagsNext, MailNext, QueuesInvariant, DeadlineInvariant, PTL
         DEF Spec

=============================================================================
