---------------------------- MODULE StartupProofs ----------------------------
(***************************************************************************)
(* What is proved of the start and the end of the program for every config *)
(* file, every limit of the reader, every number of camera slots and every *)
(* call that may fail.                                                     *)
(*                                                                         *)
(* The inductive invariant (KnownInv) has four parts.  StartupInv says for *)
(* each place of main what main and the sink hold (MainHeld), what each    *)
(* camera slot holds (SlotsHeld), and where the table and the release are  *)
(* (Counters).  ReaderInv says that the lines read so far fit and that the *)
(* sections are their headers, in order, with their settings.  Types gives *)
(* the other variables their types.  TableInv says that at section i of    *)
(* build_cameras the table holds the cameras of the sections before i that *)
(* are switched on, each made of its own section.  That a lookup in such a *)
(* section gives what the file says under its header is proved apart.      *)
(***************************************************************************)
EXTENDS Startup, DataLemmas

\* The kinds of the resources that slot c holds.
Of(c) == {kind \in Kind : Res(kind, c) \in held}

SinkKinds   == {"sink", "sink_frame", "sink_ctx", "sink_socket"}
CameraKinds == {"camera", "frame", "scratch", "socket", "device"}

\* The places of main: before build_cameras, in camera_new, in and after
\* build_cameras, in camera_del, in cams_release, before zmq_ctx_destroy, and in
\* sink_del.
Loading   == {"open", "alloc", "read", "fail", "conf", "sink", "sink_frame",
              "sink_ctx", "sink_socket", "sink_bind", "ctx"}
Filling   == {"camera", "frame", "scratch", "socket", "connect", "init"}
Building  == {"build", "expect", "run"} \cup Filling
Deleting  == {"deinit", "close", "del_frames", "free_scratch", "free_camera"}
Releasing == {"cams_release", "impl_destroy"} \cup Deleting
Unwinding == Releasing \cup {"ctx_destroy"}
Closing   == {"sink_close", "sink_ctx_destroy", "sink_del_frames", "sink_free"}

MainHeld ==
  /\ pc \in {"open", "exit"} => Of(0) = {}
  /\ pc = "alloc" => Of(0) = {"file"}
  /\ pc \in {"read", "fail"} => Of(0) = {"file", "ini"}
  /\ pc \in {"conf", "sink", "ini_free"} => Of(0) = {"ini"}
  /\ pc = "sink_frame" => Of(0) = {"ini", "sink"}
  /\ pc = "sink_ctx" => Of(0) = {"ini", "sink", "sink_frame"}
  /\ pc = "sink_socket" => Of(0) = {"ini", "sink", "sink_frame", "sink_ctx"}
  /\ pc \in {"sink_bind", "ctx"} => Of(0) = {"ini"} \cup SinkKinds
  /\ pc \in Building \cup Unwinding => Of(0) = {"ini", "ctx"} \cup SinkKinds
  /\ pc \in Closing =>
       /\ {"ini", "sink"} \subseteq Of(0) /\ Of(0) \subseteq {"ini"} \cup SinkKinds
       /\ "sink_socket" \in Of(0) => "sink_ctx" \in Of(0)
       /\ pc # "sink_close" => "sink_socket" \notin Of(0)
       /\ pc \in {"sink_del_frames", "sink_free"} => "sink_ctx" \notin Of(0)
       /\ pc = "sink_free" => "sink_frame" \notin Of(0)

\* What the slot that is being filled holds at each place of camera_new.
Got ==
  CASE pc = "camera"  -> {"impl"}
    [] pc = "frame"   -> {"impl", "camera"}
    [] pc = "scratch" -> {"impl", "camera", "frame"}
    [] pc = "socket"  -> {"impl", "camera", "frame", "scratch"}
    [] pc \in {"connect", "init"} -> {"impl", "camera", "frame", "scratch", "socket"}
    [] OTHER -> {}

\* A camera of the table is complete.
Whole(c) ==
  /\ {"impl", "camera", "frame", "scratch", "socket"} \subseteq Of(c)
  /\ Of(c) \subseteq {"impl"} \cup CameraKinds
  /\ backends[c].backend = "v4l2" => "device" \in Of(c)

\* What is left of one that was given up holds nothing without what it uses.
Sound(c) ==
  /\ Of(c) \subseteq {"impl"} \cup CameraKinds
  /\ Of(c) # {} => "impl" \in Of(c)
  /\ Of(c) \cap CameraKinds # {} => "camera" \in Of(c)

\* What camera_del has not released yet.
Left ==
  CASE pc = "deinit"       -> CameraKinds
    [] pc = "close"        -> {"camera", "scratch", "frame", "socket"}
    [] pc = "del_frames"   -> {"camera", "scratch", "frame"}
    [] pc = "free_scratch" -> {"camera", "scratch"}
    [] pc = "free_camera"  -> {"camera"}
    [] OTHER -> {}

SlotsHeld ==
  /\ pc \notin Building \cup Releasing => \A c \in Slots : Of(c) = {}
  /\ pc \in Building =>
       \A c \in Slots : /\ c <= n => Whole(c)
                        /\ c = n + 1 => Of(c) = Got
                        /\ c > n + 1 => Of(c) = {}
  /\ pc \in Releasing =>
       /\ \A c \in Slots : Sound(c)
       /\ \A c \in Slots : c < slot \/ c > scope => Of(c) = {}
       /\ pc # "cams_release" => Of(Victim) \subseteq {"impl"} \cup Left

Counters ==
  /\ pc \in Loading \cup Building \cup Unwinding \cup Closing \cup {"ini_free", "exit"}
  /\ n \in 0 .. MaxCameras
  /\ pc \in Loading => n = 0
  /\ pc \in Filling => n < MaxCameras
  /\ pc \in {"expect", "run"} => n > 0
  /\ pc \in Releasing => slot \in 0 .. scope + 1 /\ scope \in 0 .. MaxCameras
  /\ pc \in {"cams_release", "impl_destroy"} => slot # 0
  /\ pc \in Deleting \cup {"impl_destroy"} => slot <= scope
  /\ pc \in Deleting /\ slot = 0 => n < MaxCameras
  /\ held \subseteq [kind : Kind, cam : 0 .. MaxCameras]
  /\ DOMAIN backends = Slots

StartupInv == MainHeld /\ SlotsHeld /\ Counters

-----------------------------------------------------------------------------
(***************************************************************************)
(* What a slot holds after something is acquired or released.              *)
(***************************************************************************)
LEMMA ResourceFields ==
  ASSUME NEW k, NEW c
  PROVE  Res(k, c).kind = k /\ Res(k, c).cam = c
BY DEF Res

LEMMA AfterAcquire ==
  ASSUME NEW k \in Kind, NEW c \in 0 .. MaxCameras, held' = held \cup {Res(k, c)}
  PROVE  /\ Of(c)' = Of(c) \cup {k}
         /\ \A d : d # c => Of(d)' = Of(d)
         /\ held \subseteq [kind : Kind, cam : 0 .. MaxCameras]
              => held' \subseteq [kind : Kind, cam : 0 .. MaxCameras]
<1>1. Of(c)' = Of(c) \cup {k}
  BY ResourceFields DEF Of
<1>2. ASSUME NEW d, d # c PROVE Of(d)' = Of(d)
  BY <1>2, ResourceFields DEF Of
<1>3. Res(k, c) \in [kind : Kind, cam : 0 .. MaxCameras]
  BY DEF Res
<1> QED BY <1>1, <1>2, <1>3

LEMMA AfterFree ==
  ASSUME NEW K, NEW c, held' = held \ {Res(k, c) : k \in K}
  PROVE  /\ Of(c)' = Of(c) \ K
         /\ \A d : d # c => Of(d)' = Of(d)
         /\ held' \subseteq held
<1>1. Of(c)' = Of(c) \ K
  BY ResourceFields DEF Of
<1>2. ASSUME NEW d, d # c PROVE Of(d)' = Of(d)
  BY <1>2, ResourceFields DEF Of
<1> QED BY <1>1, <1>2

LEMMA AfterNothing ==
  ASSUME held' = held
  PROVE  \A d : Of(d)' = Of(d)
BY DEF Of

\* Everything that is held is held by main or by a slot.
LEMMA HeldBySomeone ==
  ASSUME NEW r \in held, held \subseteq [kind : Kind, cam : 0 .. MaxCameras]
  PROVE  r = Res(r.kind, r.cam) /\ r.kind \in Of(r.cam) /\ r.cam \in {0} \cup Slots
<1>1. r \in [kind : Kind, cam : 0 .. MaxCameras]
  OBVIOUS
<1>2. r = Res(r.kind, r.cam)
  BY <1>1 DEF Res
<1>3. r.kind \in Kind /\ r.cam \in {0} \cup Slots
  BY <1>1, StartupAssumption DEF Slots
<1> QED BY <1>2, <1>3 DEF Of

-----------------------------------------------------------------------------
LEMMA InitHeld == Init => StartupInv
<1> SUFFICES ASSUME Init PROVE StartupInv
  OBVIOUS
<1>1. \A c : Of(c) = {}
  BY DEF Of, Init
<1>2. DOMAIN backends = Slots
  BY DEF Init
<1> QED BY <1>1, <1>2, StartupAssumption
    DEF Init, StartupInv, MainHeld, SlotsHeld, Counters, Loading, Building, Filling,
        Deleting, Releasing, Unwinding, Closing

-----------------------------------------------------------------------------
(***************************************************************************)
(* The steps of main before build_cameras and after the release of the     *)
(* cameras: no slot holds anything, and none gets anything.                *)
(***************************************************************************)
LEMMA NoSlotTouched ==
  ASSUME StartupInv, pc \notin Building \cup Releasing, pc' \notin Building \cup Releasing,
         pc' \in Loading \cup Unwinding \cup Closing \cup {"ini_free", "exit"},
         UNCHANGED <<n, backends>>, pc' \in Loading => n = 0,
         \A d : d # 0 => Of(d)' = Of(d), MainHeld',
         held' \subseteq [kind : Kind, cam : 0 .. MaxCameras]
  PROVE  StartupInv'
<1>1. SlotsHeld'
  <2>1. \A c \in Slots : c # 0 /\ Of(c) = {}
    BY DEF StartupInv, SlotsHeld, Slots
  <2> QED BY <2>1 DEF SlotsHeld
<1>2. Counters'
  BY DEF StartupInv, Counters, Building, Filling, Releasing
<1> QED BY <1>1, <1>2 DEF StartupInv

LEMMA StepHeld ==
  ASSUME StartupInv, NEW from, NEW k \in Kind, NEW next, NEW exit,
         Step(from, Res(k, 0), next, exit)
  PROVE  /\ pc = from /\ UNCHANGED <<n, backends>>
         /\ \/ pc' = next /\ Of(0)' = Of(0) \cup {k}
            \/ pc' = exit /\ Of(0)' = Of(0)
         /\ \A d : d # 0 => Of(d)' = Of(d)
         /\ held' \subseteq [kind : Kind, cam : 0 .. MaxCameras]
<1>1. pc = from /\ UNCHANGED <<n, backends>>
  BY DEF Step, tableVars
<1>2. held \subseteq [kind : Kind, cam : 0 .. MaxCameras] /\ 0 \in 0 .. MaxCameras
  BY StartupAssumption DEF StartupInv, Counters
<1>3. CASE held' = held \cup {Res(k, 0)} /\ pc' = next
  BY <1>1, <1>2, <1>3, AfterAcquire
<1>4. CASE held' = held /\ pc' = exit
  BY <1>1, <1>2, <1>4, AfterNothing
<1> QED BY <1>3, <1>4 DEF Step, Acquire, GoTo

LEMMA LoadStepsHeld ==
  ASSUME StartupInv, IniOpen \/ SinkNew \/ SinkFrame \/ SinkCtx \/ SinkSocket
  PROVE  StartupInv'
<1> DEFINE Took(from, k, next, exit) ==
             /\ pc = from
             /\ UNCHANGED <<n, backends>>
             /\ \/ pc' = next /\ Of(0)' = Of(0) \cup {k}
                \/ pc' = exit /\ Of(0)' = Of(0)
             /\ \A d : d # 0 => Of(d)' = Of(d)
             /\ held' \subseteq [kind : Kind, cam : 0 .. MaxCameras]
<1> USE DEF Loading, Building, Filling, Deleting, Releasing, Unwinding, Closing, SinkKinds
<1>1. CASE IniOpen
  <2>1. Took("open", "file", "alloc", "exit")
    BY <1>1, StepHeld DEF IniOpen, Kind
  <2>2. MainHeld'
    BY <2>1 DEF StartupInv, MainHeld
  <2> QED BY <2>1, <2>2, NoSlotTouched DEF StartupInv, Counters
<1>2. CASE SinkNew
  <2>1. Took("sink", "sink", "sink_frame", "ini_free")
    BY <1>2, StepHeld DEF SinkNew, Kind
  <2>2. MainHeld'
    BY <2>1 DEF StartupInv, MainHeld
  <2> QED BY <2>1, <2>2, NoSlotTouched DEF StartupInv, Counters
<1>3. CASE SinkFrame
  <2>1. Took("sink_frame", "sink_frame", "sink_ctx", "sink_close")
    BY <1>3, StepHeld DEF SinkFrame, Kind
  <2>2. MainHeld'
    BY <2>1 DEF StartupInv, MainHeld
  <2> QED BY <2>1, <2>2, NoSlotTouched DEF StartupInv, Counters
<1>4. CASE SinkCtx
  <2>1. Took("sink_ctx", "sink_ctx", "sink_socket", "sink_close")
    BY <1>4, StepHeld DEF SinkCtx, Kind
  <2>2. MainHeld'
    BY <2>1 DEF StartupInv, MainHeld
  <2> QED BY <2>1, <2>2, NoSlotTouched DEF StartupInv, Counters
<1>5. CASE SinkSocket
  <2>1. Took("sink_socket", "sink_socket", "sink_bind", "sink_close")
    BY <1>5, StepHeld DEF SinkSocket, Kind
  <2>2. MainHeld'
    BY <2>1 DEF StartupInv, MainHeld
  <2> QED BY <2>1, <2>2, NoSlotTouched DEF StartupInv, Counters
<1> QED BY <1>1, <1>2, <1>3, <1>4, <1>5

\* What main releases.
LEMMA MainFreed ==
  ASSUME StartupInv, NEW K, Free(Main(K))
  PROVE  /\ Of(0)' = Of(0) \ K
         /\ \A d : d # 0 => Of(d)' = Of(d)
         /\ held' \subseteq [kind : Kind, cam : 0 .. MaxCameras]
<1>1. held' = held \ {Res(k, 0) : k \in K}
  BY DEF Free, Main
<1>2. held \subseteq [kind : Kind, cam : 0 .. MaxCameras]
  BY DEF StartupInv, Counters
<1> QED BY <1>1, <1>2, AfterFree

LEMMA NothingTouched ==
  ASSUME StartupInv, held' = held
  PROVE  (\A d : Of(d)' = Of(d)) /\ held' \subseteq [kind : Kind, cam : 0 .. MaxCameras]
BY AfterNothing DEF StartupInv, Counters

LEMMA MainStepsHeld ==
  ASSUME StartupInv,
         \/ IniAlloc \/ ReadLine \/ ReadNoMore \/ ReadFails \/ LoadSinkConf \/ SinkBind
         \/ CtxDestroy \/ SinkClose \/ SinkCtxDestroy \/ SinkDelFrames \/ SinkFree \/ IniFree
  PROVE  StartupInv'
<1> USE DEF Loading, Building, Filling, Deleting, Releasing, Unwinding, Closing, SinkKinds
<1> DEFINE Others == /\ \A d : d # 0 => Of(d)' = Of(d)
                     /\ held' \subseteq [kind : Kind, cam : 0 .. MaxCameras]
                     /\ UNCHANGED <<n, backends>>
           Freed(K) == Of(0)' = Of(0) \ K
<1>1. CASE IniAlloc
  <2>1. pc = "alloc" /\ UNCHANGED <<n, backends>>
    BY <1>1 DEF IniAlloc, tableVars
  <2>2. Others /\ \/ pc' = "read" /\ Of(0)' = Of(0) \cup {"ini"}
                  \/ pc' = "exit" /\ Freed({"file"})
    <3>1. CASE Acquire(Res("ini", 0)) /\ pc' = "read"
      <4>1. /\ "ini" \in Kind /\ held' = held \cup {Res("ini", 0)}
            /\ 0 \in 0 .. MaxCameras
            /\ held \subseteq [kind : Kind, cam : 0 .. MaxCameras]
        BY <3>1, StartupAssumption DEF Acquire, Kind, StartupInv, Counters
      <4> QED BY <2>1, <3>1, <4>1, AfterAcquire
    <3>2. CASE Free(Main({"file"})) /\ pc' = "exit"
      BY <2>1, <3>2, MainFreed
    <3> QED BY <1>1, <3>1, <3>2 DEF IniAlloc, GoTo
  <2>3. MainHeld'
    BY <2>1, <2>2 DEF StartupInv, MainHeld
  <2> QED BY <2>1, <2>2, <2>3, NoSlotTouched DEF StartupInv, Counters
<1>2. CASE ReadLine
  <2>1. pc = "read" /\ pc' \in {"read", "fail"}
    BY <1>2 DEF ReadLine, GoTo
  <2>2. Others /\ Of(0)' = Of(0)
    BY <1>2, NothingTouched DEF ReadLine, tableVars
  <2>3. MainHeld'
    BY <2>1, <2>2 DEF StartupInv, MainHeld
  <2> QED BY <2>1, <2>2, <2>3, NoSlotTouched DEF StartupInv, Counters
<1>3. CASE ReadNoMore
  <2>1. pc = "read" /\ pc' = "conf"
    BY <1>3 DEF ReadNoMore, GoTo
  <2>2. Others /\ Freed({"file"})
    BY <1>3, MainFreed DEF ReadNoMore, unwinding, tableVars
  <2>3. MainHeld'
    BY <2>1, <2>2 DEF StartupInv, MainHeld
  <2> QED BY <2>1, <2>2, <2>3, NoSlotTouched DEF StartupInv, Counters
<1>4. CASE ReadFails
  <2>1. pc = "fail" /\ pc' = "exit"
    BY <1>4 DEF ReadFails, GoTo
  <2>2. Others /\ Freed({"file", "ini"})
    BY <1>4, MainFreed DEF ReadFails, unwinding, tableVars
  <2>3. MainHeld'
    BY <2>1, <2>2 DEF StartupInv, MainHeld
  <2> QED BY <2>1, <2>2, <2>3, NoSlotTouched DEF StartupInv, Counters
<1>5. CASE LoadSinkConf
  <2>1. pc = "conf" /\ pc' \in {"sink", "ini_free"}
    BY <1>5 DEF LoadSinkConf, GoTo
  <2>2. Others /\ Of(0)' = Of(0)
    BY <1>5, NothingTouched DEF LoadSinkConf, tableVars
  <2>3. MainHeld'
    BY <2>1, <2>2 DEF StartupInv, MainHeld
  <2> QED BY <2>1, <2>2, <2>3, NoSlotTouched DEF StartupInv, Counters
<1>6. CASE SinkBind
  <2>1. pc = "sink_bind" /\ pc' \in {"ctx", "sink_close"}
    BY <1>6 DEF SinkBind, GoTo
  <2>2. Others /\ Of(0)' = Of(0)
    BY <1>6, NothingTouched DEF SinkBind, tableVars
  <2>3. MainHeld'
    BY <2>1, <2>2 DEF StartupInv, MainHeld
  <2> QED BY <2>1, <2>2, <2>3, NoSlotTouched DEF StartupInv, Counters
<1>7. CASE CtxDestroy
  <2>1. pc = "ctx_destroy" /\ pc' = "sink_close"
    BY <1>7 DEF CtxDestroy, MainDel, GoTo
  <2>2. Others /\ Freed({"ctx"})
    BY <1>7, MainFreed DEF CtxDestroy, MainDel, unwinding, tableVars
  <2>3. MainHeld'
    BY <2>1, <2>2 DEF StartupInv, MainHeld
  <2> QED BY <2>1, <2>2, <2>3, NoSlotTouched DEF StartupInv, Counters
<1>8. CASE SinkClose
  <2>1. pc = "sink_close" /\ pc' = "sink_ctx_destroy"
    BY <1>8 DEF SinkClose, MainDel, GoTo
  <2>2. Others /\ Freed({"sink_socket"})
    BY <1>8, MainFreed DEF SinkClose, MainDel, unwinding, tableVars
  <2>3. MainHeld'
    BY <2>1, <2>2 DEF StartupInv, MainHeld
  <2> QED BY <2>1, <2>2, <2>3, NoSlotTouched DEF StartupInv, Counters
<1>9. CASE SinkCtxDestroy
  <2>1. pc = "sink_ctx_destroy" /\ pc' = "sink_del_frames"
    BY <1>9 DEF SinkCtxDestroy, MainDel, GoTo
  <2>2. Others /\ Freed({"sink_ctx"})
    BY <1>9, MainFreed DEF SinkCtxDestroy, MainDel, unwinding, tableVars
  <2>3. MainHeld'
    BY <2>1, <2>2 DEF StartupInv, MainHeld
  <2> QED BY <2>1, <2>2, <2>3, NoSlotTouched DEF StartupInv, Counters
<1>10. CASE SinkDelFrames
  <2>1. pc = "sink_del_frames" /\ pc' = "sink_free"
    BY <1>10 DEF SinkDelFrames, MainDel, GoTo
  <2>2. Others /\ Freed({"sink_frame"})
    BY <1>10, MainFreed DEF SinkDelFrames, MainDel, unwinding, tableVars
  <2>3. MainHeld'
    BY <2>1, <2>2 DEF StartupInv, MainHeld
  <2> QED BY <2>1, <2>2, <2>3, NoSlotTouched DEF StartupInv, Counters
<1>11. CASE SinkFree
  <2>1. pc = "sink_free" /\ pc' = "ini_free"
    BY <1>11 DEF SinkFree, MainDel, GoTo
  <2>2. Others /\ Freed({"sink"})
    BY <1>11, MainFreed DEF SinkFree, MainDel, unwinding, tableVars
  <2>3. MainHeld'
    BY <2>1, <2>2 DEF StartupInv, MainHeld
  <2> QED BY <2>1, <2>2, <2>3, NoSlotTouched DEF StartupInv, Counters
<1>12. CASE IniFree
  <2>1. pc = "ini_free" /\ pc' = "exit"
    BY <1>12 DEF IniFree, GoTo
  <2>2. Others /\ Freed({"ini"})
    BY <1>12, MainFreed DEF IniFree, unwinding, tableVars
  <2>3. MainHeld'
    BY <2>1, <2>2 DEF StartupInv, MainHeld
  <2> QED BY <2>1, <2>2, <2>3, NoSlotTouched DEF StartupInv, Counters
<1> QED BY <1>1, <1>2, <1>3, <1>4, <1>5, <1>6, <1>7, <1>8, <1>9, <1>10, <1>11, <1>12

-----------------------------------------------------------------------------
(***************************************************************************)
(* build_cameras.  The cameras of the table are complete, the slot that is *)
(* being filled holds what camera_new got so far, and the others nothing.  *)
(***************************************************************************)
Typed == held \subseteq [kind : Kind, cam : 0 .. MaxCameras]

\* Where a camera is given up each slot is sound.
LEMMA SoundWhenGivenUp ==
  ASSUME StartupInv, pc \in {"build"} \cup Filling, NEW new, new = New,
         \A d : d # new => Of(d)' = Of(d),
         new \in Slots => Sound(new)'
  PROVE  \A c \in Slots : Sound(c)'
<1> SUFFICES ASSUME NEW c \in Slots, c # new PROVE Sound(c)'
  OBVIOUS
<1>1. n \in Nat /\ c \in Nat
  BY StartupAssumption DEF StartupInv, Counters, Slots
<1>2. Of(c)' = Of(c)
  OBVIOUS
<1>3. (c <= n => Whole(c)) /\ (c > n + 1 => Of(c) = {})
  BY DEF StartupInv, SlotsHeld, Building
<1>4. c <= n \/ c > n + 1
  BY <1>1 DEF New
<1> QED BY <1>2, <1>3, <1>4 DEF Sound, Whole, CameraKinds

\* build_cameras fails without a camera in the slot that was being filled: the
\* release has the whole table to go through.
LEMMA GivenUp ==
  ASSUME StartupInv, pc \in {"build"} \cup Filling, BuildFails,
         UNCHANGED n, DOMAIN backends' = Slots, Typed',
         NEW new, new = New,
         \A d : d # new => Of(d)' = Of(d),
         new \in Slots => Of(new)' \subseteq {"impl"}
  PROVE  StartupInv'
<1> USE DEF Loading, Building, Filling, Releasing, Deleting, Unwinding, Closing
<1>1. /\ pc' = "cams_release" /\ slot' = 1 /\ scope' = MaxCameras
      /\ n \in Nat /\ New # 0 /\ MaxCameras \in Nat \ {0}
      /\ Slots = 1 .. MaxCameras
  BY StartupAssumption DEF BuildFails, GoTo, FailureScope, StartupInv, Counters, New, Slots
<1>2. MainHeld'
  BY <1>1 DEF StartupInv, MainHeld
<1>3. \A c \in Slots : Sound(c)'
  <2>1. new \in Slots => Sound(new)'
    BY DEF Sound, CameraKinds
  <2> QED BY <2>1, SoundWhenGivenUp
<1>4. SlotsHeld'
  BY <1>1, <1>3 DEF SlotsHeld
<1>5. Counters'
  BY <1>1 DEF StartupInv, Counters, Typed
<1> QED BY <1>2, <1>4, <1>5 DEF StartupInv

\* The slot that is being filled got one kind more.
LEMMA SlotAcquires ==
  ASSUME StartupInv, pc \in {"build"} \cup Filling, n < MaxCameras,
         pc' \in Filling, UNCHANGED n, DOMAIN backends' = Slots, Typed',
         \A d \in Slots : d # New => backends'[d] = backends[d],
         NEW new, new = New,
         \A d : d # new => Of(d)' = Of(d),
         Of(new)' = Got'
  PROVE  StartupInv'
<1> USE DEF Building, Releasing, Deleting, Unwinding, Closing
<1>1. n \in Nat /\ New # 0 /\ Slots = 1 .. MaxCameras /\ MaxCameras \in Nat \ {0}
  BY StartupAssumption DEF StartupInv, Counters, New, Slots
<1>2. pc' \notin Loading \cup Unwinding \cup {"sink_close", "ini_free", "exit", "build",
                                             "expect", "run"}
  BY DEF Filling, Loading
<1>3. MainHeld'
  BY <1>1, <1>2 DEF StartupInv, MainHeld, Loading, Filling
<1>4. ASSUME NEW c \in Slots
      PROVE  /\ c <= n => Whole(c)'
             /\ c = n + 1 => Of(c)' = Got'
             /\ c > n + 1 => Of(c)' = {}
  <2>1. /\ c <= n => Whole(c)
        /\ c > n + 1 => Of(c) = {}
    BY DEF StartupInv, SlotsHeld
  <2>2. CASE c = n + 1
    BY <1>1, <2>2 DEF New
  <2>3. CASE c # n + 1
    <3>1. Of(c)' = Of(c) /\ backends'[c] = backends[c]
      BY <2>3 DEF New
    <3> QED BY <1>1, <2>1, <2>3, <3>1 DEF Whole
  <2> QED BY <2>2, <2>3
<1>5. SlotsHeld'
  BY <1>2, <1>4 DEF SlotsHeld
<1>6. Counters'
  BY <1>2 DEF StartupInv, Counters, Typed
<1> QED BY <1>3, <1>5, <1>6 DEF StartupInv

\* What the slot that is being filled holds, where it is one of the table.
LEMMA SlotBeingFilled ==
  ASSUME StartupInv, pc \in Building, n < MaxCameras
  PROVE  New \in Slots /\ New \in 0 .. MaxCameras /\ New # 0 /\ Of(New) = Got
<1>1. n \in 0 .. MaxCameras /\ MaxCameras \in Nat
  BY StartupAssumption DEF StartupInv, Counters
<1>2. New \in Slots /\ New \in 0 .. MaxCameras /\ New # 0 /\ New = n + 1
  BY <1>1 DEF New, Slots
<1> QED BY <1>2 DEF StartupInv, SlotsHeld

LEMMA ContextHeld ==
  ASSUME StartupInv, ZmqCtxNew
  PROVE  StartupInv'
<1> USE DEF Loading, Building, Filling, Releasing, Deleting, Unwinding, Closing, SinkKinds
<1>1. /\ pc = "ctx" /\ UNCHANGED <<n, backends>>
      /\ \/ pc' = "build" /\ Of(0)' = Of(0) \cup {"ctx"}
         \/ pc' = "sink_close" /\ Of(0)' = Of(0)
      /\ \A d : d # 0 => Of(d)' = Of(d)
      /\ held' \subseteq [kind : Kind, cam : 0 .. MaxCameras]
  BY StepHeld DEF ZmqCtxNew, Kind
<1>2. MainHeld'
  BY <1>1 DEF StartupInv, MainHeld
<1>3. CASE pc' = "sink_close"
  BY <1>1, <1>2, <1>3, NoSlotTouched DEF StartupInv, Counters
<1>4. CASE pc' = "build"
  <2>1. n = 0 /\ \A c \in Slots : Of(c) = {} /\ c # 0 /\ c \in Nat \ {0}
    BY <1>1 DEF StartupInv, SlotsHeld, Counters, Slots
  <2>2. \A c \in Slots : Of(c)' = {} /\ ~(c <= n)
    BY <1>1, <2>1
  <2>3. Got' = {}
    BY <1>4 DEF Got
  <2>4. SlotsHeld'
    BY <1>1, <1>4, <2>2, <2>3 DEF SlotsHeld
  <2>5. Counters'
    BY <1>1, <1>4 DEF StartupInv, Counters
  <2> QED BY <1>2, <2>4, <2>5 DEF StartupInv
<1> QED BY <1>1, <1>3, <1>4

LEMMA BuildStepsHeld ==
  ASSUME StartupInv, BuildSkip \/ BuildRefuse \/ BackendCreate
  PROVE  StartupInv'
<1>1. CASE BuildSkip
  <2>1. pc = "build" /\ UNCHANGED <<pc, n, backends, held, loopVars>>
    BY <1>1 DEF BuildSkip, More
  <2>2. \A d : Of(d)' = Of(d)
    BY <2>1, AfterNothing
  <2> QED BY <2>1, <2>2 DEF StartupInv, MainHeld, SlotsHeld, Counters, Whole, Got, Building,
          Filling, Releasing, Deleting, Unwinding, Closing, Loading
<1>2. CASE BuildRefuse
  <2>1. /\ pc = "build" /\ BuildFails /\ UNCHANGED <<n, backends, held>>
    BY <1>2 DEF BuildRefuse, More, tableVars
  <2>2. (\A d : Of(d)' = Of(d)) /\ Typed' /\ DOMAIN backends' = Slots
    BY <2>1, AfterNothing DEF StartupInv, Counters, Typed
  <2>3. PICK new : new = New
    OBVIOUS
  <2>4. ASSUME new \in Slots PROVE Of(new)' = {}
    <3>1. n < MaxCameras /\ pc \in Building
      BY <2>1, <2>3, <2>4, StartupAssumption DEF New, Slots, StartupInv, Counters, Building
    <3>2. Of(new) = {}
      BY <2>1, <2>3, <3>1, SlotBeingFilled DEF Got
    <3> QED BY <2>2, <3>2
  <2> QED BY <2>1, <2>2, <2>3, <2>4, GivenUp
<1>3. CASE BackendCreate
  <2>1. pc = "build" /\ UNCHANGED n /\ n < MaxCameras
    <3>1. pc = "build" /\ UNCHANGED n /\ ~Full
      BY <1>3 DEF BackendCreate, More, Refused
    <3> QED BY <3>1, StartupAssumption DEF Full, StartupInv, Counters
  <2>2. New \in Slots /\ New \in 0 .. MaxCameras /\ New # 0 /\ Of(New) = {}
    BY <2>1, SlotBeingFilled DEF Building, Got
  <2>3. CASE \E conf : /\ backends' = [backends EXCEPT ![New] = conf]
                       /\ Acquire(Res("impl", New))
                       /\ \/ pc' = "camera"
                          \/ BuildFails
    <3>1. PICK conf : backends' = [backends EXCEPT ![New] = conf]
      BY <2>3
    <3>2. /\ "impl" \in Kind /\ held' = held \cup {Res("impl", New)} /\ Typed
      BY <2>3 DEF Acquire, Kind, StartupInv, Counters, Typed
    <3>0. PICK new : new = New
      OBVIOUS
    <3>3. /\ \A d : d # new => Of(d)' = Of(d)
          /\ Typed' /\ Of(new)' = {"impl"}
      <4>1. new \in 0 .. MaxCameras /\ held' = held \cup {Res("impl", new)}
        BY <2>2, <3>0, <3>2
      <4>2. /\ \A d : d # new => Of(d)' = Of(d)
            /\ Typed'
            /\ Of(new)' = Of(new) \cup {"impl"}
        BY <3>2, <4>1, AfterAcquire DEF Typed
      <4> QED BY <2>2, <3>0, <4>2
    <3>4. DOMAIN backends' = Slots /\ \A d \in Slots : d # New => backends'[d] = backends[d]
      BY <3>1 DEF StartupInv, Counters
    <3>5. CASE pc' = "camera"
      <4>1. Got' = {"impl"}
        BY <3>5 DEF Got
      <4> QED BY <2>1, <3>0, <3>3, <3>4, <3>5, <4>1, SlotAcquires DEF Filling
    <3>6. CASE BuildFails
      BY <2>1, <3>0, <3>3, <3>4, <3>6, GivenUp
    <3> QED BY <2>3, <3>5, <3>6
  <2>4. CASE BuildFails /\ UNCHANGED <<held, backends>>
    <3>1. (\A d : Of(d)' = Of(d)) /\ Typed' /\ DOMAIN backends' = Slots
      BY <2>4, AfterNothing DEF StartupInv, Counters, Typed
    <3>2. PICK new : new = New
      OBVIOUS
    <3>3. Of(new)' = {}
      BY <2>2, <3>1, <3>2
    <3> QED BY <2>1, <2>4, <3>1, <3>2, <3>3, GivenUp
  <2> QED BY <1>3, <2>3, <2>4 DEF BackendCreate, GoTo
<1> QED BY <1>1, <1>2, <1>3

\* camera_new fails with a camera: camera_del has all of its parts to go through.
LEMMA CameraGivenUp ==
  ASSUME StartupInv, pc \in Filling \ {"camera"}, UNCHANGED <<n, backends>>, CameraNewFails,
         Typed', NEW new, new = New,
         \A d : d # new => Of(d)' = Of(d),
         NEW D \in SUBSET {"device"}, Of(new)' = Of(new) \cup D
  PROVE  StartupInv'
<1> USE DEF Loading, Building, Filling, Releasing, Deleting, Unwinding, Closing
<1>1. /\ pc' = "deinit" /\ slot' = 0 /\ scope' = MaxCameras
      /\ n \in Nat /\ n < MaxCameras /\ New = n + 1 /\ New # 0 /\ MaxCameras \in Nat \ {0}
      /\ Slots = 1 .. MaxCameras /\ pc \in Building
  BY StartupAssumption
     DEF CameraNewFails, GoTo, FailureScope, StartupInv, Counters, New, Slots
<1>2. new \in Slots /\ Of(new) = Got
  BY <1>1, SlotBeingFilled
<1>3. MainHeld'
  BY <1>1 DEF StartupInv, MainHeld
<1>4. Of(new)' \subseteq {"impl"} \cup CameraKinds /\ Sound(new)'
  <2>1. {"impl", "camera"} \subseteq Got /\ Got \subseteq {"impl"} \cup CameraKinds
    BY DEF Got, CameraKinds
  <2>2. Of(new)' = Got \cup D
    BY <1>2
  <2> QED BY <2>1, <2>2 DEF Sound, CameraKinds
<1>5. \A c \in Slots : Sound(c)'
  BY <1>4, SoundWhenGivenUp
<1>6. Of(Victim)' \subseteq {"impl"} \cup Left'
  <2>1. Victim' = new /\ Left' = CameraKinds
    BY <1>1 DEF Victim, New, Left
  <2>2. Of(Victim)' = Of(new)'
    BY <2>1 DEF Of
  <2> QED BY <1>4, <2>1, <2>2
<1>7. SlotsHeld'
  BY <1>1, <1>5, <1>6 DEF SlotsHeld
<1>8. Counters'
  BY <1>1 DEF StartupInv, Counters, Typed
<1> QED BY <1>3, <1>7, <1>8 DEF StartupInv

\* One kind more, or the camera is given up.
LEMMA CameraStepHeld ==
  ASSUME StartupInv, NEW from, from \in Filling, pc = from, UNCHANGED <<n, backends>>,
         NEW k \in Kind, NEW next \in Filling,
         \/ Acquire(Res(k, New)) /\ pc' = next /\ Got' = Got \cup {k}
         \/ from # "camera" /\ CameraNewFails /\ held' = held
         \/ from = "camera" /\ BuildFails /\ held' = held
  PROVE  StartupInv'
<1>1. n < MaxCameras /\ pc \in Building /\ DOMAIN backends' = Slots
  BY DEF StartupInv, Counters, Building
<1>2. New \in Slots /\ New \in 0 .. MaxCameras /\ Of(New) = Got
  BY <1>1, SlotBeingFilled
<1>3. CASE Acquire(Res(k, New)) /\ pc' = next /\ Got' = Got \cup {k}
  <2>0. PICK new : new = New
    OBVIOUS
  <2>1. new \in 0 .. MaxCameras /\ held' = held \cup {Res(k, new)} /\ Typed
    BY <1>2, <1>3, <2>0 DEF Acquire, StartupInv, Counters, Typed
  <2>2. /\ \A d : d # new => Of(d)' = Of(d)
        /\ Typed' /\ Of(new)' = Of(new) \cup {k}
    BY <2>1, AfterAcquire DEF Typed
  <2>3. Of(new)' = Got'
    BY <1>2, <1>3, <2>0, <2>2
  <2> QED BY <1>1, <1>3, <2>0, <2>2, <2>3, SlotAcquires
<1>4. ASSUME held' = held, NEW new, new = New
      PROVE  (\A d : Of(d)' = Of(d)) /\ Typed' /\ Of(new) = Got
  BY <1>2, <1>4, AfterNothing DEF StartupInv, Counters, Typed
<1>5. CASE from # "camera" /\ CameraNewFails /\ held' = held
  <2> DEFINE none == {}
  <2>1. none \in SUBSET {"device"} /\ \A S : S \cup none = S
    OBVIOUS
  <2> HIDE DEF none
  <2>2. PICK new : new = New
    OBVIOUS
  <2>3. Of(new)' = Of(new) \cup none
    BY <1>4, <1>5, <2>1, <2>2
  <2> QED BY <1>4, <1>5, <2>1, <2>2, <2>3, CameraGivenUp
<1>6. CASE from = "camera" /\ BuildFails /\ held' = held
  <2>1. PICK new : new = New
    OBVIOUS
  <2>2. Of(new)' \subseteq {"impl"}
    BY <1>4, <1>6, <2>1 DEF Got
  <2> QED BY <1>1, <1>4, <1>6, <2>1, <2>2, GivenUp
<1> QED BY <1>3, <1>5, <1>6

LEMMA CameraStepsHeld ==
  ASSUME StartupInv,
         \/ CameraAlloc \/ CameraFrame \/ CameraScratch \/ CameraSocket \/ CameraConnect
  PROVE  StartupInv'
<1> DEFINE Took(from, k, next) ==
             /\ from \in Filling /\ pc = from /\ UNCHANGED <<n, backends>>
             /\ k \in Kind /\ next \in Filling
             /\ \/ Acquire(Res(k, New)) /\ pc' = next /\ Got' = Got \cup {k}
                \/ from # "camera" /\ CameraNewFails /\ held' = held
                \/ from = "camera" /\ BuildFails /\ held' = held
<1>1. CASE CameraAlloc
  <2>1. Took("camera", "camera", "frame")
    BY <1>1 DEF CameraAlloc, GoTo, tableVars, Filling, Kind, Got
  <2> QED BY <2>1, CameraStepHeld
<1>2. CASE CameraFrame
  <2>1. Took("frame", "frame", "scratch")
    BY <1>2 DEF CameraFrame, GoTo, Filling, Kind, Got
  <2> QED BY <2>1, CameraStepHeld
<1>3. CASE CameraScratch
  <2>1. Took("scratch", "scratch", "socket")
    BY <1>3 DEF CameraScratch, CameraStep, GoTo, tableVars, Filling, Kind, Got
  <2> QED BY <2>1, CameraStepHeld
<1>4. CASE CameraSocket
  <2>1. Took("socket", "socket", "connect")
    BY <1>4 DEF CameraSocket, CameraStep, GoTo, tableVars, Filling, Kind, Got
  <2> QED BY <2>1, CameraStepHeld
<1>5. CASE CameraConnect
  <2>1. pc = "connect" /\ pc \in Filling /\ UNCHANGED <<n, backends, held>>
    BY <1>5 DEF CameraConnect, tableVars, Filling
  <2>2. CASE pc' = "init"
    <3>1. (\A d : Of(d)' = Of(d)) /\ Typed' /\ DOMAIN backends' = Slots
      BY <2>1, <2>2, AfterNothing DEF StartupInv, Counters, Typed
    <3>2. n < MaxCameras /\ pc \in Building /\ pc' \in Filling /\ Got' = Got
      BY <2>1, <2>2 DEF StartupInv, Counters, Filling, Building, Got
    <3>3. PICK new : new = New
      OBVIOUS
    <3>4. Of(new)' = Got'
      BY <3>1, <3>2, <3>3, SlotBeingFilled
    <3> QED BY <2>1, <3>1, <3>2, <3>3, <3>4, SlotAcquires
  <2>3. CASE CameraNewFails
    <3>1. "camera" \in Kind /\ "init" \in Filling /\ "connect" \in Filling
      BY DEF Kind, Filling
    <3> QED BY <2>1, <2>3, <3>1, CameraStepHeld
  <2> QED BY <1>5, <2>2, <2>3 DEF CameraConnect, GoTo
<1> QED BY <1>1, <1>2, <1>3, <1>4, <1>5

\* The camera is complete and enters the table, or is given up with its device.
LEMMA CameraInitHeld ==
  ASSUME StartupInv, CameraInit
  PROVE  StartupInv'
<1> DEFINE D == IF backends[New].backend = "v4l2" THEN {"device"} ELSE {}
           device == IF backends[New].backend = "v4l2" THEN {Res("device", New)} ELSE {}
<1>1. /\ pc = "init" /\ pc \in Filling /\ pc \in Building /\ UNCHANGED backends
      /\ n < MaxCameras /\ n \in 0 .. MaxCameras /\ MaxCameras \in Nat \ {0}
  BY StartupAssumption DEF CameraInit, StartupInv, Counters, Filling, Building
<1>2. PICK new : new = New
  OBVIOUS
<1>3. new \in Slots /\ new \in 0 .. MaxCameras /\ new # 0 /\ Of(new) = Got
  BY <1>1, <1>2, SlotBeingFilled
<1>4. device = {Res(k, new) : k \in D} /\ D \in SUBSET {"device"}
  BY <1>2
<1>5. ASSUME held' = held \cup device
      PROVE  /\ Of(new)' = Of(new) \cup D
             /\ \A d : d # new => Of(d)' = Of(d)
             /\ Typed'
  <2>1. CASE D = {}
    <3>1. held' = held
      BY <1>4, <1>5, <2>1
    <3> QED BY <2>1, <3>1, AfterNothing DEF StartupInv, Counters, Typed
  <2>2. CASE D = {"device"}
    <3>1. held' = held \cup {Res("device", new)} /\ "device" \in Kind /\ Typed
      BY <1>4, <1>5, <2>2 DEF Kind, StartupInv, Counters, Typed
    <3> QED BY <1>3, <2>2, <3>1, AfterAcquire DEF Typed
  <2> QED BY <2>1, <2>2
<1>6. CASE /\ held' = held \cup device /\ n' = n + 1 /\ pc' = "build"
  <2>1. /\ Of(new)' = Of(new) \cup D
        /\ \A d : d # new => Of(d)' = Of(d)
        /\ Typed'
    BY <1>5, <1>6
  <2>2. backends[new].backend = "v4l2" => "device" \in D
    BY <1>2
  <2> HIDE DEF D, device
  <2>3. Whole(new)'
    <3>1. /\ Of(new)' = {"impl", "camera", "frame", "scratch", "socket"} \cup D
          /\ UNCHANGED backends
      BY <1>1, <1>3, <2>1 DEF Got
    <3> QED BY <1>4, <2>2, <3>1 DEF Whole, CameraKinds
  <2>4. new = n + 1
    BY <1>2 DEF New
  <2>5. Got' = {}
    BY <1>6 DEF Got
  <2>6. ASSUME NEW c \in Slots
        PROVE  /\ c <= n' => Whole(c)'
               /\ c = n' + 1 => Of(c)' = Got'
               /\ c > n' + 1 => Of(c)' = {}
    <3>1. CASE c = new
      BY <1>1, <1>6, <2>3, <2>4, <3>1
    <3>2. CASE c # new
      <4>1. Of(c)' = Of(c) /\ UNCHANGED backends
        BY <1>1, <2>1, <3>2
      <4>2. /\ c <= n => Whole(c)
            /\ c > n + 1 => Of(c) = {}
        BY <1>1 DEF StartupInv, SlotsHeld
      <4>3. c <= n => Whole(c)'
        BY <4>1, <4>2 DEF Whole
      <4>4. c \in Nat
        BY DEF Slots
      <4> QED BY <1>1, <1>6, <2>4, <2>5, <3>2, <4>1, <4>2, <4>3, <4>4
    <3> QED BY <3>1, <3>2
  <2>7. SlotsHeld'
    BY <1>6, <2>6 DEF SlotsHeld, Building, Releasing, Deleting, Filling
  <2>8. Of(0)' = Of(0)
    BY <1>3, <2>1
  <2>9. MainHeld'
    BY <1>1, <1>6, <2>8 DEF StartupInv, MainHeld, Building, Unwinding, Releasing, Deleting,
       Closing, Filling
  <2>10. Counters'
    BY <1>1, <1>6, <2>1 DEF StartupInv, Counters, Typed, Building, Unwinding, Releasing,
        Deleting, Closing, Filling, Loading
  <2> QED BY <2>7, <2>9, <2>10 DEF StartupInv
<1>7. CASE held' = held \cup device /\ CameraNewFails /\ UNCHANGED n
  <2>1. /\ Of(new)' = Of(new) \cup D
        /\ \A d : d # new => Of(d)' = Of(d)
        /\ Typed'
    BY <1>5, <1>7
  <2> HIDE DEF D
  <2> QED BY <1>1, <1>2, <1>4, <1>7, <2>1, CameraGivenUp
<1> QED BY <1>6, <1>7 DEF CameraInit, GoTo

\* The table is complete, and what follows it.
LEMMA TableStepsHeld ==
  ASSUME StartupInv, BuildDone \/ SinkExpect \/ Run
  PROVE  StartupInv'
<1> USE DEF Loading, Building, Filling, Releasing, Deleting, Unwinding, Closing
<1>1. /\ UNCHANGED <<n, backends, held>> /\ \A d : Of(d)' = Of(d)
      /\ n \in 0 .. MaxCameras /\ MaxCameras \in Nat \ {0} /\ Slots = 1 .. MaxCameras
      /\ pc \in {"build", "expect", "run"} /\ Got = {}
      /\ n \in Nat /\ \A c \in Slots : c \in Nat \ {0}
  BY StartupAssumption, AfterNothing
     DEF BuildDone, SinkExpect, Run, tableVars, StartupInv, Counters, Slots, Got
<1>2. \A c \in Slots : (c <= n => Whole(c)) /\ (c > n => Of(c) = {})
  BY <1>1 DEF StartupInv, SlotsHeld
<1>3. CASE pc' = "ctx_destroy" /\ n = 0
  <2>1. \A c \in Slots : Of(c)' = {}
    <3>1. \A c \in Slots : c > n
      BY <1>1, <1>3
    <3>2. \A c \in Slots : Of(c) = {}
      BY <1>2, <3>1
    <3>3. \A d : Of(d)' = Of(d)
      BY <1>1
    <3> QED BY <3>2, <3>3
  <2> QED BY <1>1, <1>3, <2>1 DEF StartupInv, MainHeld, SlotsHeld, Counters
<1>4. CASE pc' \in {"expect", "run"} /\ n > 0
  <2>1. Got' = {}
    BY <1>4 DEF Got
  <2>2. ASSUME NEW c \in Slots
        PROVE  /\ c <= n' => Whole(c)'
               /\ c = n' + 1 => Of(c)' = Got'
               /\ c > n' + 1 => Of(c)' = {}
    <3>1. Whole(c) => Whole(c)'
      BY <1>1 DEF Whole
    <3>2. c \in Nat /\ (c = n + 1 => c > n) /\ (c > n + 1 => c > n)
      BY <1>1
    <3>3. n' = n /\ Of(c)' = Of(c) /\ Got' = {}
      BY <1>1, <2>1
    <3>4. (c <= n => Whole(c)) /\ (c > n => Of(c) = {})
      BY <1>2
    <3> QED BY <3>1, <3>2, <3>3, <3>4
  <2>3. SlotsHeld'
    BY <1>4, <2>2 DEF SlotsHeld
  <2> QED BY <1>1, <1>4, <2>3 DEF StartupInv, MainHeld, Counters
<1>5. CASE pc' = "cams_release" /\ slot' = 1 /\ scope' = n
  <2>1. \A c \in Slots : Sound(c)' /\ (c < 1 \/ c > n => Of(c)' = {})
    <3>1. ASSUME NEW c \in Slots, Whole(c) \/ Of(c) = {} PROVE Sound(c)'
      BY <1>1, <3>1 DEF Sound, Whole, CameraKinds
    <3>2. \A c \in Slots : ~(c < 1) /\ (c <= n \/ c > n)
      BY <1>1
    <3>3. ASSUME NEW c \in Slots PROVE Sound(c)' /\ (c < 1 \/ c > n => Of(c)' = {})
      <4>1. (c <= n => Whole(c)) /\ (c > n => Of(c) = {})
        BY <1>2
      <4>2. Of(c)' = Of(c)
        BY <1>1
      <4> QED BY <3>1, <3>2, <4>1, <4>2
    <3> QED BY <3>3
  <2>2. SlotsHeld'
    BY <1>1, <1>5, <2>1 DEF SlotsHeld
  <2> QED BY <1>1, <1>5, <2>2 DEF StartupInv, MainHeld, Counters
<1> QED
  BY <1>1, <1>3, <1>4, <1>5 DEF BuildDone, SinkExpect, Run, GoTo, StartupInv, Counters

-----------------------------------------------------------------------------
(***************************************************************************)
(* cams_release and camera_del.  The slots before slot are empty; behind   *)
(* it each is sound.                                                       *)
(***************************************************************************)
\* One kind is released of the slot whose camera or backend goes.
LEMMA VictimLoses ==
  ASSUME StartupInv, pc \in Deleting \cup {"impl_destroy"},
         NEW v, v = Victim, NEW k \in {"impl"} \cup CameraKinds, Free({Res(k, v)}),
         k \in {"impl", "camera"} => Left \subseteq {k} /\ Left \ {k} = {},
         k = "impl" => Left = {}
  PROVE  /\ v \in Slots /\ Typed' /\ Of(0)' = Of(0)
         /\ Of(v)' = Of(v) \ {k} /\ Of(v) \subseteq {"impl"} \cup Left
         /\ \A d \in Slots : Sound(d)' /\ (d < slot \/ d > scope => Of(d)' = {})
<1> USE DEF Releasing, Deleting
<1>1. /\ slot \in 0 .. scope /\ scope \in 0 .. MaxCameras /\ MaxCameras \in Nat \ {0}
      /\ n \in 0 .. MaxCameras /\ pc \in Releasing
      /\ slot = 0 => n < MaxCameras
  BY StartupAssumption DEF StartupInv, Counters
<1>2. v \in Slots /\ v # 0
  BY <1>1 DEF Victim, New, Slots
<1>3. /\ \A d \in Slots : Sound(d) /\ (d < slot \/ d > scope => Of(d) = {})
      /\ Of(v) \subseteq {"impl"} \cup Left
  BY <1>1 DEF StartupInv, SlotsHeld, Of
<1>4. /\ Of(v)' = Of(v) \ {k} /\ (\A d : d # v => Of(d)' = Of(d)) /\ held' \subseteq held
  <2> DEFINE K == {k}
  <2>1. held' = held \ {Res(j, v) : j \in K}
    BY DEF Free
  <2> HIDE DEF K
  <2>2. /\ Of(v)' = Of(v) \ K /\ (\A d : d # v => Of(d)' = Of(d)) /\ held' \subseteq held
    BY <2>1, AfterFree
  <2> USE DEF K
  <2> QED BY <2>2
<1>5. Typed' /\ Of(0)' = Of(0)
  BY <1>2, <1>4 DEF StartupInv, Counters, Typed
<1>6. Sound(v)'
  <2>1. Sound(v)
    BY <1>2, <1>3
  <2>2. CASE k \in CameraKinds \ {"camera"}
    BY <1>4, <2>1, <2>2 DEF Sound, CameraKinds
  <2>3. CASE k = "camera"
    <3>1. Of(v)' \subseteq {"impl"}
      BY <1>3, <1>4, <2>3
    <3> QED BY <3>1 DEF Sound, CameraKinds
  <2>4. CASE k = "impl"
    <3>1. Of(v)' = {}
      BY <1>3, <1>4, <2>4
    <3> QED BY <3>1 DEF Sound
  <2> QED BY <2>2, <2>3, <2>4
<1>7. ASSUME NEW d \in Slots PROVE Sound(d)' /\ (d < slot \/ d > scope => Of(d)' = {})
  <2>1. CASE d = v
    <3>1. Of(d) = {} => Of(d)' = {}
      BY <1>4, <2>1
    <3> QED BY <1>3, <1>6, <2>1, <3>1
  <2>2. CASE d # v
    <3>1. Of(d)' = Of(d)
      BY <1>4, <2>2
    <3> QED BY <1>3, <3>1 DEF Sound
  <2> QED BY <2>1, <2>2
<1> QED BY <1>2, <1>3, <1>4, <1>5, <1>7

LEMMA DeleteStepsHeld ==
  ASSUME StartupInv,
         \/ CameraDeinit \/ CameraClose \/ CameraDelFrames \/ CameraFreeScratch \/ CameraFree
  PROVE  StartupInv'
<1> USE DEF Loading, Building, Filling, Deleting, Releasing, Unwinding, Closing
<1> PICK v : v = Victim
  OBVIOUS
<1> DEFINE Gone(k) ==
             /\ v \in Slots /\ Typed' /\ Of(0)' = Of(0)
             /\ Of(v)' = Of(v) \ {k} /\ Of(v) \subseteq {"impl"} \cup Left
             /\ \A d \in Slots : Sound(d)' /\ (d < slot \/ d > scope => Of(d)' = {})
<1>1. /\ slot \in 0 .. scope /\ scope \in 0 .. MaxCameras /\ n \in 0 .. MaxCameras
      /\ DOMAIN backends = Slots /\ pc \in Deleting /\ MaxCameras \in Nat
      /\ UNCHANGED <<n, backends, scope>>
      /\ slot = 0 => n < MaxCameras
  BY StartupAssumption
     DEF CameraDeinit, CameraClose, CameraDelFrames, CameraFreeScratch, CameraFree, CameraDel,
         unwinding, tableVars, loopVars, StartupInv, Counters
\* camera_del goes on.
<1>2. ASSUME NEW k, Gone(k), UNCHANGED slot, pc' \in Deleting,
             ({"impl"} \cup Left) \ {k} \subseteq {"impl"} \cup Left'
      PROVE  StartupInv'
  <2>1. MainHeld'
    BY <1>1, <1>2 DEF StartupInv, MainHeld
  <2>2. Of(Victim)' \subseteq {"impl"} \cup Left'
    <3>1. Victim' = v
      BY <1>1, <1>2 DEF Victim, New
    <3>2. Of(Victim)' = Of(v)'
      BY <3>1 DEF Of
    <3> QED BY <1>2, <3>2
  <2>3. SlotsHeld'
    BY <1>1, <1>2, <2>2 DEF SlotsHeld
  <2>4. Counters'
    BY <1>1, <1>2 DEF StartupInv, Counters, Typed
  <2> QED BY <2>1, <2>3, <2>4 DEF StartupInv
<1> HIDE DEF Gone
<1>3. CASE CameraDeinit
  <2>1. /\ pc = "deinit" /\ pc' = "close" /\ UNCHANGED slot /\ Free({Res("device", v)})
        /\ "device" \in {"impl"} \cup CameraKinds
    BY <1>3 DEF CameraDeinit, CameraDel, GoTo, unwinding, loopVars, CameraKinds
  <2>2. Gone("device")
    BY <2>1, VictimLoses DEF Gone
  <2>3. ({"impl"} \cup Left) \ {"device"} \subseteq {"impl"} \cup Left'
    BY <2>1 DEF Left, CameraKinds
  <2> QED BY <1>2, <2>1, <2>2, <2>3
<1>4. CASE CameraClose
  <2>1. /\ pc = "close" /\ pc' = "del_frames" /\ UNCHANGED slot /\ Free({Res("socket", v)})
        /\ "socket" \in {"impl"} \cup CameraKinds
    BY <1>4 DEF CameraClose, CameraDel, GoTo, unwinding, loopVars, CameraKinds
  <2>2. Gone("socket")
    BY <2>1, VictimLoses DEF Gone
  <2>3. ({"impl"} \cup Left) \ {"socket"} \subseteq {"impl"} \cup Left'
    BY <2>1 DEF Left
  <2> QED BY <1>2, <2>1, <2>2, <2>3
<1>5. CASE CameraDelFrames
  <2>1. /\ pc = "del_frames" /\ pc' = "free_scratch" /\ UNCHANGED slot
        /\ Free({Res("frame", v)}) /\ "frame" \in {"impl"} \cup CameraKinds
    BY <1>5 DEF CameraDelFrames, CameraDel, GoTo, unwinding, loopVars, CameraKinds
  <2>2. Gone("frame")
    BY <2>1, VictimLoses DEF Gone
  <2>3. ({"impl"} \cup Left) \ {"frame"} \subseteq {"impl"} \cup Left'
    BY <2>1 DEF Left
  <2> QED BY <1>2, <2>1, <2>2, <2>3
<1>6. CASE CameraFreeScratch
  <2>1. /\ pc = "free_scratch" /\ pc' = "free_camera" /\ UNCHANGED slot
        /\ Free({Res("scratch", v)}) /\ "scratch" \in {"impl"} \cup CameraKinds
    BY <1>6 DEF CameraFreeScratch, CameraDel, GoTo, unwinding, loopVars, CameraKinds
  <2>2. Gone("scratch")
    BY <2>1, VictimLoses DEF Gone
  <2>3. ({"impl"} \cup Left) \ {"scratch"} \subseteq {"impl"} \cup Left'
    BY <2>1 DEF Left
  <2> QED BY <1>2, <2>1, <2>2, <2>3
<1>7. CASE CameraFree
  <2>1. /\ pc = "free_camera" /\ Free({Res("camera", v)})
        /\ \/ slot = 0 /\ slot' = 1 /\ pc' = "cams_release"
           \/ slot # 0 /\ slot' = slot /\ pc' = "impl_destroy"
        /\ Left = {"camera"} /\ "camera" \in {"impl"} \cup CameraKinds
    BY <1>7 DEF CameraFree, GoTo, Left, CameraKinds
  <2>2. Gone("camera")
    BY <2>1, VictimLoses DEF Gone
  <2> USE DEF Gone
  <2>3. MainHeld'
    BY <1>1, <2>1, <2>2 DEF StartupInv, MainHeld
  <2>4. \A d \in Slots : Sound(d)' /\ (d < slot' \/ d > scope => Of(d)' = {})
    BY <1>1, <2>1, <2>2 DEF Slots
  <2>5. pc' = "impl_destroy" => Of(Victim)' \subseteq {"impl"}
    <3> SUFFICES ASSUME pc' = "impl_destroy" PROVE Of(Victim)' \subseteq {"impl"}
      OBVIOUS
    <3>1. Victim' = v
      BY <1>1, <2>1 DEF Victim
    <3>2. Of(Victim)' = Of(v)'
      BY <3>1 DEF Of
    <3> QED BY <2>1, <2>2, <3>2
  <2>6. SlotsHeld'
    BY <1>1, <2>1, <2>4, <2>5 DEF SlotsHeld
  <2>7. Counters'
    <3>1. slot = 0 => scope \in Nat /\ slot' <= scope + 1
      BY <1>1, <2>1
    <3> QED BY <1>1, <2>1, <2>2, <3>1 DEF StartupInv, Counters, Typed
  <2> QED BY <2>3, <2>6, <2>7 DEF StartupInv
<1> QED BY <1>3, <1>4, <1>5, <1>6, <1>7

LEMMA ReleaseStepsHeld ==
  ASSUME StartupInv, ReleaseCamera \/ ReleaseImpl
  PROVE  StartupInv'
<1> USE DEF Loading, Building, Filling, Deleting, Releasing, Unwinding, Closing
<1>1. /\ UNCHANGED n /\ n \in 0 .. MaxCameras /\ MaxCameras \in Nat \ {0}
      /\ Slots = 1 .. MaxCameras /\ pc \in {"cams_release", "impl_destroy"}
      /\ slot \in 1 .. scope + 1 /\ scope \in 0 .. MaxCameras /\ UNCHANGED scope
      /\ DOMAIN backends' = Slots /\ Typed
      /\ \A c \in Slots : Sound(c) /\ (c < slot \/ c > scope => Of(c) = {})
  BY StartupAssumption
     DEF ReleaseCamera, ReleaseImpl, unwinding, tableVars, loopVars, StartupInv,
         Counters, SlotsHeld, Slots, Typed
<1>2. pc' \in Unwinding => (MainHeld' <=> Of(0)' = Of(0))
  BY <1>1 DEF StartupInv, MainHeld
<1>3. CASE ReleaseCamera
  <2>1. /\ \/ slot <= scope /\ Res("camera", slot) \in held /\ pc' = "deinit"
           \/ slot <= scope /\ Res("camera", slot) \notin held /\ pc' = "impl_destroy"
           \/ slot > scope /\ pc' = "ctx_destroy"
        /\ UNCHANGED <<held, slot>> /\ \A d : Of(d)' = Of(d)
    BY <1>3, AfterNothing DEF ReleaseCamera, GoTo, unwinding, loopVars
  <2>2. CASE slot > scope
    <3>1. pc' = "ctx_destroy"
      BY <1>1, <2>1, <2>2
    <3>2. \A d \in Slots : d < slot \/ d > scope
      BY <1>1, <2>2
    <3>3. \A d \in Slots : Of(d)' = {}
      BY <1>1, <2>1, <3>2
    <3>4. SlotsHeld'
      BY <3>1, <3>3 DEF SlotsHeld
    <3>5. Counters'
      BY <1>1, <2>1, <3>1 DEF StartupInv, Counters, Typed
    <3> QED BY <1>2, <2>1, <3>1, <3>4, <3>5 DEF StartupInv
  <2>3. CASE slot <= scope
    <3>1. /\ slot \in Slots /\ slot # 0
          /\ pc' = IF Res("camera", slot) \in held THEN "deinit" ELSE "impl_destroy"
      BY <1>1, <2>1, <2>3
    <3>2. PICK v : v = slot
      OBVIOUS
    <3>3. Of(v)' \subseteq {"impl"} \cup Left'
      <4>1. Sound(v) /\ Of(v)' = Of(v)
        BY <1>1, <2>1, <3>1, <3>2
      <4>2. CASE pc' = "deinit"
        BY <4>1, <4>2 DEF Sound, Left
      <4>3. CASE pc' = "impl_destroy"
        <5>1. "camera" \notin Of(v)
          BY <3>1, <3>2, <4>3 DEF Of
        <5> QED BY <4>1, <5>1 DEF Sound
      <4> QED BY <3>1, <4>2, <4>3
    <3>4. Of(Victim)' \subseteq {"impl"} \cup Left'
      <4>1. Victim' = v
        BY <2>1, <3>1, <3>2 DEF Victim
      <4>2. Of(Victim)' = Of(v)'
        BY <4>1 DEF Of
      <4> QED BY <3>3, <4>2
    <3>5. \A c \in Slots : Sound(c)' /\ (c < slot \/ c > scope => Of(c)' = {})
      BY <1>1, <2>1 DEF Sound
    <3>6. SlotsHeld'
      BY <1>1, <2>1, <3>1, <3>4, <3>5 DEF SlotsHeld
    <3>7. Counters'
      BY <1>1, <2>1, <2>3, <3>1 DEF StartupInv, Counters, Typed
    <3>8. pc' \in Unwinding
      BY <3>1
    <3> QED BY <1>2, <2>1, <3>6, <3>7, <3>8 DEF StartupInv
  <2> QED BY <1>1, <2>2, <2>3
<1>4. CASE ReleaseImpl
  <2>1. /\ pc = "impl_destroy" /\ pc' = "cams_release" /\ slot' = slot + 1 /\ slot <= scope
        /\ Free({Res("impl", slot)}) /\ Left = {}
    BY <1>4 DEF ReleaseImpl, GoTo, StartupInv, Counters, Left
  <2>2. PICK v : v = Victim /\ v = slot
    BY <1>1 DEF Victim
  <2>3. /\ v \in Slots /\ Typed' /\ Of(0)' = Of(0)
        /\ Of(v)' = Of(v) \ {"impl"} /\ Of(v) \subseteq {"impl"} \cup Left
        /\ \A d \in Slots : Sound(d)' /\ (d < slot \/ d > scope => Of(d)' = {})
    <3>1. Free({Res("impl", v)}) /\ "impl" \in {"impl"} \cup CameraKinds
      BY <2>1, <2>2
    <3> QED BY <2>1, <2>2, <3>1, VictimLoses
  <2>4. Of(v)' = {}
    BY <2>1, <2>3
  <2>5. \A d \in Slots : d < slot + 1 \/ d > scope => Of(d)' = {}
    <3>1. ASSUME NEW d \in Slots, d < slot + 1 \/ d > scope PROVE Of(d)' = {}
      <4>1. d < slot \/ d > scope \/ d = v
        BY <1>1, <2>2, <3>1
      <4> QED BY <2>3, <2>4, <4>1
    <3> QED BY <3>1
  <2>6. SlotsHeld'
    BY <1>1, <2>1, <2>3, <2>5 DEF SlotsHeld
  <2>7. Counters'
    BY <1>1, <2>1, <2>3 DEF StartupInv, Counters, Typed
  <2> QED BY <1>2, <2>1, <2>3, <2>6, <2>7 DEF StartupInv
<1> QED BY <1>3, <1>4

-----------------------------------------------------------------------------
LEMMA NextHeld == StartupInv /\ [Next]_vars => StartupInv'
<1> SUFFICES ASSUME StartupInv, [Next]_vars PROVE StartupInv'
  OBVIOUS
<1>1. CASE UNCHANGED vars
  <2>1. UNCHANGED <<pc, n, slot, scope, held, backends>>
    BY <1>1 DEF vars, tableVars, loopVars
  <2>2. \A d : Of(d)' = Of(d)
    BY <2>1, AfterNothing
  <2>3. MainHeld'
    BY <2>1, <2>2 DEF StartupInv, MainHeld
  <2>4. SlotsHeld'
    <3>1. Of(Victim)' = Of(Victim) /\ Got' = Got /\ Left' = Left
      BY <2>1 DEF Of, Got, Left, Victim, New
    <3>2. \A d : (Whole(d) => Whole(d)') /\ (Sound(d) => Sound(d)')
      BY <2>1, <2>2 DEF Whole, Sound
    <3>3. SlotsHeld
      BY DEF StartupInv
    <3> QED BY <2>1, <2>2, <3>1, <3>2, <3>3 DEF SlotsHeld
  <2>5. Counters'
    BY <2>1 DEF StartupInv, Counters
  <2> QED BY <2>3, <2>4, <2>5 DEF StartupInv
<1>2. CASE Next /\ ~UNCHANGED vars
  <2>1. \/ Load \/ Build \/ Camera \/ SinkExpect \/ Run \/ Unwind
    BY <1>2 DEF Next, Forward, Terminated
  <2>2. CASE Load
    BY <2>2, LoadStepsHeld, MainStepsHeld, ContextHeld DEF Load
  <2>3. CASE Build \/ SinkExpect \/ Run
    BY <2>3, BuildStepsHeld, TableStepsHeld DEF Build
  <2>4. CASE Camera
    BY <2>4, CameraStepsHeld, CameraInitHeld DEF Camera
  <2>5. CASE Unwind
    BY <2>5, ReleaseStepsHeld, DeleteStepsHeld, MainStepsHeld DEF Unwind
  <2> QED BY <2>1, <2>2, <2>3, <2>4, <2>5
<1> QED BY <1>1, <1>2

LEMMA StartupInvariant == Spec => []StartupInv
BY InitHeld, NextHeld, PTL DEF Spec

(***************************************************************************)
(* For every config file, every number of cameras and whichever allocation *)
(* or call fails: when main returns, nothing is held.                      *)
(***************************************************************************)
THEOREM NothingEverLeaks == Spec => []NothingLeaks
<1>1. ASSUME StartupInv, pc = "exit" PROVE held = {}
  <2>1. Of(0) = {} /\ \A c \in Slots : Of(c) = {}
    BY <1>1 DEF StartupInv, MainHeld, SlotsHeld, Building, Releasing, Deleting, Filling
  <2>2. ASSUME NEW r \in held PROVE FALSE
    BY <1>1, <2>1, HeldBySomeone DEF StartupInv, Counters
  <2> QED BY <2>2
<1>2. StartupInv => NothingLeaks
  BY <1>1 DEF NothingLeaks
<1> QED BY <1>2, StartupInvariant, PTL

(***************************************************************************)
(* Nothing is released before what still uses it, at every place of main   *)
(* and whatever camera_new or sink_new failed at: the context of ZeroMQ is *)
(* there as long as any socket is, the backend's as long as its camera,    *)
(* the camera as long as any of its parts, the sink as long as any of its  *)
(* own, and its context as long as its socket.                             *)
(***************************************************************************)
THEOREM UsersAlwaysGoFirst == Spec => []UsersGoFirst
<1> USE DEF Kind
<1>1. ASSUME StartupInv, NEW c \in Slots, Of(c) # {} PROVE "ctx" \in Of(0)
  <2>1. pc \in Building \cup Releasing
    BY <1>1 DEF StartupInv, SlotsHeld
  <2> QED BY <1>1, <2>1 DEF StartupInv, MainHeld, Unwinding
<1>2. ASSUME StartupInv, NEW c \in Slots PROVE Sound(c)
  <2>1. CASE pc \notin Building \cup Releasing
    BY <1>2, <2>1 DEF StartupInv, SlotsHeld, Sound
  <2>2. CASE pc \in Releasing
    BY <1>2, <2>2 DEF StartupInv, SlotsHeld
  <2>3. CASE pc \in Building
    <3>1. n \in Nat /\ c \in Nat
      BY <1>2, StartupAssumption DEF StartupInv, Counters, Slots
    <3>2. Whole(c) \/ Of(c) = Got \/ Of(c) = {}
      BY <1>2, <2>3, <3>1 DEF StartupInv, SlotsHeld
    <3>3. Whole(c) => Sound(c)
      BY DEF Whole, Sound, CameraKinds
    <3>4. Of(c) = Got => Sound(c)
      BY DEF Got, Sound, CameraKinds
    <3> QED BY <3>2, <3>3, <3>4 DEF Sound
  <2> QED BY <2>1, <2>2, <2>3
<1>3. ASSUME StartupInv
      PROVE  /\ "sink_socket" \in Of(0) => "sink_ctx" \in Of(0)
             /\ \A k \in {"sink_socket", "sink_ctx", "sink_frame"} :
                  k \in Of(0) => "sink" \in Of(0)
  BY <1>3 DEF StartupInv, MainHeld, Counters, SinkKinds, Loading, Building, Filling,
     Deleting, Releasing, Unwinding, Closing
<1>4. ASSUME StartupInv, NEW use \in Uses, use[1] \in held PROVE use[2] \in held
  <2>1. \A k \in Kind : \A d : k \in Of(d) <=> Res(k, d) \in held
    BY DEF Of
  <2> DEFINE Context(c) == {<<Res("socket", c), Res("ctx", 0)>>,
                            <<Res("camera", c), Res("impl", c)>>}
             Parts == {<<Res(k, c), Res("camera", c)>> :
                        k \in {"device", "socket", "frame", "scratch"}, c \in Slots}
             SinkParts == {<<Res(k, 0), Res("sink", 0)>> :
                            k \in {"sink_socket", "sink_ctx", "sink_frame"}}
             SinkUse == <<Res("sink_socket", 0), Res("sink_ctx", 0)>>
  <2>2. Uses = (UNION {Context(c) : c \in Slots}) \cup Parts \cup {SinkUse} \cup SinkParts
    BY DEF Uses
  <2> HIDE DEF Context, Parts, SinkParts, SinkUse
  <2>3. \/ \E c \in Slots : use \in Context(c)
        \/ use \in Parts \/ use = SinkUse \/ use \in SinkParts
    BY <2>2
  <2> USE DEF Context, Parts, SinkParts, SinkUse
  <2>4. CASE \E c \in Slots : use \in Context(c)
    <3>1. PICK c \in Slots : \/ use = <<Res("socket", c), Res("ctx", 0)>>
                             \/ use = <<Res("camera", c), Res("impl", c)>>
      BY <2>4
    <3>2. CASE use = <<Res("socket", c), Res("ctx", 0)>>
      BY <1>1, <1>4, <2>1, <3>2
    <3>3. CASE use = <<Res("camera", c), Res("impl", c)>>
      BY <1>2, <1>4, <2>1, <3>3 DEF Sound
    <3> QED BY <3>1, <3>2, <3>3
  <2>5. CASE use \in Parts
    <3>1. PICK k \in {"device", "socket", "frame", "scratch"}, c \in Slots :
            use = <<Res(k, c), Res("camera", c)>>
      BY <2>5
    <3>2. k \in Of(c) /\ k \in CameraKinds
      BY <1>4, <2>1, <3>1 DEF CameraKinds
    <3>3. "camera" \in Of(c)
      BY <1>2, <1>4, <3>2 DEF Sound
    <3> QED BY <2>1, <3>1, <3>3
  <2>6. CASE use = SinkUse
    BY <1>3, <1>4, <2>1, <2>6
  <2>7. CASE use \in SinkParts
    <3>1. PICK k \in {"sink_socket", "sink_ctx", "sink_frame"} :
            use = <<Res(k, 0), Res("sink", 0)>>
      BY <2>7
    <3> QED BY <1>3, <1>4, <2>1, <3>1
  <2> QED BY <2>3, <2>4, <2>5, <2>6, <2>7
<1>5. StartupInv => UsersGoFirst
  BY <1>4 DEF UsersGoFirst
<1> QED BY <1>5, StartupInvariant, PTL

-----------------------------------------------------------------------------
(***************************************************************************)
(* Places: counting up to an element numbers a finite set of lines from 1  *)
(* to its size, in order.                                                  *)
(***************************************************************************)
LEMMA PlaceInRange ==
  ASSUME NEW S \in SUBSET Nat, IsFiniteSet(S), NEW x \in S
  PROVE  Place(x, S) \in 1 .. Cardinality(S)
<1> DEFINE upto == {j \in S : j <= x}
<1>1. upto \in SUBSET S /\ x \in upto
  OBVIOUS
<1>2. IsFiniteSet(upto) /\ Cardinality(upto) <= Cardinality(S)
  BY <1>1, FS_Subset
<1>3. Cardinality(upto) \in Nat /\ Cardinality(upto) # 0 /\ Cardinality(S) \in Nat
  BY <1>1, <1>2, FS_CardinalityType, FS_EmptySet
<1> QED BY <1>2, <1>3 DEF Place

LEMMA PlaceAscends ==
  ASSUME NEW S \in SUBSET Nat, IsFiniteSet(S), NEW x \in S, NEW y \in S, x < y
  PROVE  Place(x, S) < Place(y, S)
<1> DEFINE low == {j \in S : j <= x}
           high == {j \in S : j <= y}
<1>1. low \in SUBSET high /\ y \in high /\ y \notin low /\ high \in SUBSET S
  <2>1. x \in Nat /\ y \in Nat /\ \A j \in S : j \in Nat
    OBVIOUS
  <2>2. y \in high /\ y \notin low /\ high \in SUBSET S
    BY <2>1
  <2>3. ASSUME NEW j \in low PROVE j \in high
    BY <2>1, <2>3
  <2> QED BY <2>2, <2>3
<1>2. IsFiniteSet(high) /\ IsFiniteSet(high \ {y})
  BY <1>1, FS_Subset, FS_RemoveElement
<1>3. low \in SUBSET (high \ {y})
  BY <1>1
<1>4. Cardinality(low) <= Cardinality(high \ {y})
  BY <1>2, <1>3, FS_Subset
<1>5. Cardinality(high \ {y}) = Cardinality(high) - 1
  BY <1>1, <1>2, FS_RemoveElement
<1>6. Cardinality(low) \in Nat /\ Cardinality(high) \in Nat
  BY <1>2, <1>3, FS_Subset, FS_CardinalityType
<1> HIDE DEF low, high
<1>7. Cardinality(low) < Cardinality(high)
  BY <1>4, <1>5, <1>6
<1> QED BY <1>7 DEF Place, low, high

LEMMA PlaceIsOnto ==
  ASSUME NEW S \in SUBSET Nat, IsFiniteSet(S), NEW i \in 1 .. Cardinality(S)
  PROVE  \E x \in S : Place(x, S) = i
<1> DEFINE N == Cardinality(S)
           at == [x \in S |-> Place(x, S)]
<1>1. N \in Nat /\ IsFiniteSet(1 .. N) /\ Cardinality(1 .. N) = N
  BY FS_CardinalityType, FS_Interval
<1>2. at \in [S -> 1 .. N]
  BY PlaceInRange
<1>3. ASSUME NEW x \in S, NEW y \in S, at[x] = at[y] PROVE x = y
  <2>1. x < y \/ y < x \/ x = y
    OBVIOUS
  <2>2. Place(x, S) \in Nat /\ Place(y, S) \in Nat
    BY <1>1, PlaceInRange
  <2>3. ~(Place(x, S) < Place(y, S)) /\ ~(Place(y, S) < Place(x, S))
    BY <1>3, <2>2
  <2> QED BY <2>1, <2>3, PlaceAscends
<1>4. at \in Injection(S, 1 .. N)
  <2> HIDE DEF at, N
  <2> QED BY <1>2, <1>3 DEF Injection, IsInjective
<1>5. at \in Surjection(S, 1 .. N)
  <2> HIDE DEF at
  <2> QED BY <1>1, <1>4, FS_Injection
<1>6. \E x \in S : at[x] = i
  <2> HIDE DEF at
  <2> QED BY <1>5 DEF Surjection
<1> QED BY <1>6

LEMMA PlaceIsOneToOne ==
  ASSUME NEW S \in SUBSET Nat, IsFiniteSet(S), NEW x \in S, NEW y \in S,
         Place(x, S) = Place(y, S)
  PROVE  x = y
<1>1. x < y \/ y < x \/ x = y
  OBVIOUS
<1>2. Place(x, S) \in Nat /\ Place(y, S) \in Nat
  BY PlaceInRange, FS_CardinalityType
<1>3. ~(Place(x, S) < Place(y, S)) /\ ~(Place(y, S) < Place(x, S))
  BY <1>2
<1> QED BY <1>1, <1>3, PlaceAscends

\* A line after all others of a set gets the next place and moves none.
LEMMA PlaceOfNext ==
  ASSUME NEW S \in SUBSET Nat, IsFiniteSet(S), NEW k \in Nat, \A x \in S : x < k
  PROVE  /\ IsFiniteSet(S \cup {k})
         /\ Cardinality(S \cup {k}) = Cardinality(S) + 1
         /\ Place(k, S \cup {k}) = Cardinality(S) + 1
         /\ \A x \in S : Place(x, S \cup {k}) = Place(x, S)
<1>1. IsFiniteSet(S \cup {k}) /\ Cardinality(S \cup {k}) = Cardinality(S) + 1
  BY FS_AddElement
<1>2. {j \in S \cup {k} : j <= k} = S \cup {k}
  <2>1. \A j \in S \cup {k} : j <= k
    OBVIOUS
  <2> QED BY <2>1, Zenon
<1>3. ASSUME NEW x \in S PROVE {j \in S \cup {k} : j <= x} = {j \in S : j <= x}
  <2>1. ~(k <= x)
    OBVIOUS
  <2> QED BY <2>1
<1> QED BY <1>1, <1>2, <1>3 DEF Place

-----------------------------------------------------------------------------
(***************************************************************************)
(* Lines and lookups.                                                      *)
(***************************************************************************)
LEMMA LineFields ==
  ASSUME NEW line \in Line
  PROVE  /\ line.kind \in {"blank", "words", "header", "pair"}
         /\ line.kind = "header" => line.name \in STRING /\ line.closed \in BOOLEAN
         /\ line.kind = "pair" => line.key \in STRING /\ line.value \in Value
<1>1. CASE line \in [kind : {"blank", "words"}]
  BY <1>1
<1>2. CASE line \in [kind : {"header"}, name : STRING, closed : BOOLEAN]
  BY <1>2
<1>3. CASE line \in [kind : {"pair"}, key : STRING, value : Value]
  BY <1>3
<1> QED BY <1>1, <1>2, <1>3 DEF Line

\* A section and a key are found where they are, if they are there once.
LEMMA FindSectionIs ==
  ASSUME NEW secs \in Sections, NEW name
  PROVE  /\ HasSection(secs, name) <=> \E i \in 1 .. Len(secs) : secs[i].name = name
         /\ HasSection(secs, name) => /\ FindSection(secs, name) \in 1 .. Len(secs)
                                      /\ secs[FindSection(secs, name)].name = name
<1> DEFINE I == {i \in 1 .. Len(secs) : secs[i].name = name}
<1>1. Len(secs) \in Nat /\ I \in SUBSET Nat
  BY DEF Sections
<1>2. FindSection(secs, name) = IF I # {} THEN Min(I) ELSE 0
  BY Zenon DEF FindSection, SelectInSeq
<1>3. I # {} => Min(I) \in I
  <2> HIDE DEF I
  <2> QED BY <1>1, MinIsLeast
<1>4. CASE I = {}
  <2>1. FindSection(secs, name) = 0
    <3> HIDE DEF I
    <3> QED BY <1>2, <1>4
  <2> QED BY <2>1, <1>4 DEF HasSection
<1>5. CASE I # {}
  <2>1. FindSection(secs, name) \in I
    <3> HIDE DEF I
    <3> QED BY <1>2, <1>3, <1>5
  <2> QED BY <2>1 DEF HasSection
<1> QED BY <1>4, <1>5

LEMMA FindKeyIs ==
  ASSUME NEW S, NEW pairs \in Seq(S), NEW key
  PROVE  /\ FindKey(pairs, key) # 0 <=> \E i \in 1 .. Len(pairs) : pairs[i].key = key
         /\ FindKey(pairs, key) # 0 => /\ FindKey(pairs, key) \in 1 .. Len(pairs)
                                       /\ pairs[FindKey(pairs, key)].key = key
<1> DEFINE I == {i \in 1 .. Len(pairs) : pairs[i].key = key}
<1>1. Len(pairs) \in Nat /\ I \in SUBSET Nat
  OBVIOUS
<1>2. FindKey(pairs, key) = IF I # {} THEN Min(I) ELSE 0
  BY Zenon DEF FindKey, SelectInSeq
<1>3. I # {} => Min(I) \in I
  <2> HIDE DEF I
  <2> QED BY <1>1, MinIsLeast
<1>4. CASE I = {}
  <2>1. FindKey(pairs, key) = 0
    <3> HIDE DEF I
    <3> QED BY <1>2, <1>4
  <2> QED BY <2>1, <1>4
<1>5. CASE I # {}
  <2>1. FindKey(pairs, key) \in I
    <3> HIDE DEF I
    <3> QED BY <1>2, <1>3, <1>5
  <2> QED BY <2>1
<1> QED BY <1>4, <1>5

-----------------------------------------------------------------------------
(***************************************************************************)
(* The places of a file's lines: what ReaderIsExact is stated with.        *)
(***************************************************************************)
LinesRead == file \in Seq(Line) /\ lineno \in 0 .. Len(file)

LEMMA SetsOfLines ==
  ASSUME LinesRead
  PROVE  /\ lineno \in Nat /\ lineno <= Len(file) /\ Len(file) \in Nat
         /\ \A k \in 1 .. lineno : file[k] \in Line
         /\ Headers \in SUBSET (1 .. lineno) /\ Headers \in SUBSET Nat /\ IsFiniteSet(Headers)
         /\ Pairs \in SUBSET (1 .. lineno) /\ Headers \cap Pairs = {}
         /\ \A h : /\ Settings(h) \in SUBSET Pairs /\ Settings(h) \in SUBSET Nat
                   /\ IsFiniteSet(Settings(h))
<1>1. lineno \in Nat /\ lineno <= Len(file) /\ Len(file) \in Nat
  BY DEF LinesRead
<1>2. \A k \in 1 .. lineno : file[k] \in Line
  BY <1>1 DEF LinesRead
<1>3. IsFiniteSet(1 .. lineno)
  BY <1>1, FS_Interval
<1>4. Headers \in SUBSET (1 .. lineno) /\ Pairs \in SUBSET (1 .. lineno)
  BY DEF Headers, Pairs
<1>5. Headers \cap Pairs = {}
  BY DEF Headers, Pairs
<1>6. \A h : Settings(h) \in SUBSET Pairs
  BY DEF Settings
<1>7. 1 .. lineno \subseteq Nat
  BY <1>1
<1>8. IsFiniteSet(Headers)
  BY <1>3, <1>4, FS_Subset
<1>9. ASSUME NEW h PROVE IsFiniteSet(Settings(h)) /\ Settings(h) \in SUBSET Nat
  <2>1. Settings(h) \in SUBSET (1 .. lineno)
    BY <1>4, <1>6
  <2> QED BY <2>1, <1>3, <1>7, FS_Subset
<1> QED BY <1>1, <1>2, <1>4, <1>5, <1>6, <1>7, <1>8, <1>9

LEMMA LastOrZero ==
  ASSUME NEW S \in SUBSET Nat, 0 \notin S, NEW b \in Nat, \A x \in S : x <= b
  PROVE  /\ Max({0} \cup S) \in {0} \cup S /\ Max({0} \cup S) \in Nat
         /\ \A h \in S : h <= Max({0} \cup S)
         /\ Max({0} \cup S) = 0 <=> S = {}
<1> DEFINE H == {0} \cup S
<1>1. H \in SUBSET Nat /\ H # {} /\ \A x \in H : x <= b
  OBVIOUS
<1>2. Max(H) \in H /\ \A y \in H : y <= Max(H)
  <2> HIDE DEF H
  <2> QED BY <1>1, MaxIsGreatest
<1>3. ASSUME Max(H) = 0, NEW h \in S PROVE FALSE
  <2>1. h \in Nat /\ h # 0 /\ h <= 0
    BY <1>2, <1>3
  <2> QED BY <2>1
<1> QED BY <1>1, <1>2, <1>3

LEMMA HeaderOfIs ==
  ASSUME LinesRead, NEW k
  PROVE  /\ HeaderOf(k) \in {0} \cup HeadersBefore(k) /\ HeaderOf(k) \in Nat
         /\ \A h \in HeadersBefore(k) : h <= HeaderOf(k)
         /\ HeaderOf(k) = 0 <=> HeadersBefore(k) = {}
<1>1. lineno \in Nat /\ HeadersBefore(k) \in SUBSET (1 .. lineno)
  BY SetsOfLines DEF HeadersBefore
<1>2. HeadersBefore(k) \in SUBSET Nat /\ 0 \notin HeadersBefore(k)
      /\ \A x \in HeadersBefore(k) : x <= lineno
  BY <1>1
<1> QED BY <1>1, <1>2, LastOrZero DEF HeaderOf

\* A setting comes after its header.
LEMMA SettingAfterHeader ==
  ASSUME LinesRead, NEW h \in Headers, NEW k \in Settings(h)
  PROVE  k \in 1 .. lineno /\ h < k /\ HeaderOf(k) = h
         /\ file[k].kind = "pair" /\ file[k].key \in STRING /\ file[k].value \in Value
<1>1. k \in 1 .. lineno /\ k \in Pairs /\ HeaderOf(k) = h /\ h # 0 /\ h \in 1 .. lineno
  BY SetsOfLines DEF Settings
<1>2. h \in HeadersBefore(k)
  BY <1>1, HeaderOfIs
<1>3. h < k
  BY <1>2 DEF HeadersBefore
<1>4. file[k].kind = "pair" /\ file[k] \in Line
  BY <1>1, SetsOfLines DEF Pairs
<1> QED BY <1>1, <1>3, <1>4, LineFields

-----------------------------------------------------------------------------
\* What one more line changes, and what it leaves.
LEMMA NextLine ==
  ASSUME LinesRead, lineno < Len(file), NEW k, k = lineno + 1, lineno' = k, file' = file
  PROVE  /\ LinesRead' /\ file[k] \in Line
         /\ HeadersBefore(k)' = Headers
         /\ \A j \in 1 .. lineno : /\ HeadersBefore(j)' = HeadersBefore(j)
                                   /\ HeaderOf(j)' = HeaderOf(j)
         /\ file[k].kind = "header" => Headers' = Headers \cup {k}
         /\ file[k].kind # "header" => Headers' = Headers
         /\ file[k].kind = "pair" => Pairs' = Pairs \cup {k}
         /\ file[k].kind # "pair" => Pairs' = Pairs
<1>1. lineno \in Nat /\ Len(file) \in Nat /\ k \in 1 .. Len(file)
  BY SetsOfLines
<1>2. LinesRead'
  BY <1>1 DEF LinesRead
<1>3. file[k] \in Line
  BY <1>1 DEF LinesRead
<1>4. 1 .. k = (1 .. lineno) \cup {k}
  BY <1>1
<1>5. /\ file[k].kind = "header" => Headers' = Headers \cup {k}
      /\ file[k].kind # "header" => Headers' = Headers
  BY <1>4 DEF Headers
<1>6. /\ file[k].kind = "pair" => Pairs' = Pairs \cup {k}
      /\ file[k].kind # "pair" => Pairs' = Pairs
  BY <1>4 DEF Pairs
<1>7. Headers \in SUBSET (1 .. lineno) /\ Headers' \in SUBSET (Headers \cup {k})
      /\ Headers \in SUBSET Headers'
  BY <1>5, SetsOfLines
<1>8. HeadersBefore(k)' = Headers
  <2>1. \A h \in Headers : h < k
    BY <1>1, <1>7
  <2>2. HeadersBefore(k)' = {h \in Headers' : h < k}
    BY DEF HeadersBefore
  <2>3. ~ (k < k)
    BY <1>1
  <2> QED BY <2>1, <2>2, <2>3, <1>7
<1>9. ASSUME NEW j \in 1 .. lineno
      PROVE  HeadersBefore(j)' = HeadersBefore(j) /\ HeaderOf(j)' = HeaderOf(j)
  <2>1. ~ (k < j)
    BY <1>1
  <2>2. {h \in Headers' : h < j} = {h \in Headers : h < j}
    BY <2>1, <1>7
  <2>3. HeadersBefore(j)' = HeadersBefore(j)
    BY <2>2 DEF HeadersBefore
  <2> QED BY <2>3 DEF HeaderOf
<1> QED BY <1>2, <1>3, <1>5, <1>6, <1>8, <1>9

LEMMA SettingsOfNext ==
  ASSUME LinesRead, lineno < Len(file), NEW k, k = lineno + 1, lineno' = k, file' = file
  PROVE  /\ \A h : Settings(h)' = IF file[k].kind = "pair" /\ HeaderOf(k)' = h
                                  THEN Settings(h) \cup {k} ELSE Settings(h)
         /\ \A j \in 1 .. lineno : SettingsBefore(j)' = SettingsBefore(j)
         /\ SettingsBefore(k)' = Settings(HeaderOf(k)')
<1>1. lineno \in Nat /\ k \in Nat /\ k \notin 1 .. lineno
  BY SetsOfLines
<1>2. Pairs \in SUBSET (1 .. lineno) /\ Pairs \in SUBSET Pairs'
      /\ Pairs' \in SUBSET (Pairs \cup {k})
      /\ (k \in Pairs' <=> file[k].kind = "pair")
  <2>1. Pairs \in SUBSET (1 .. lineno)
    BY SetsOfLines
  <2> QED BY <1>1, <2>1, NextLine
<1>3. ASSUME NEW h
      PROVE  Settings(h)' = IF file[k].kind = "pair" /\ HeaderOf(k)' = h
                            THEN Settings(h) \cup {k} ELSE Settings(h)
  <2>1. Settings(h)' = {j \in Pairs' : HeaderOf(j)' = h}
    BY DEF Settings
  <2>2. Settings(h) = {j \in Pairs : HeaderOf(j) = h}
    BY DEF Settings
  <2>3. \A j \in Pairs : HeaderOf(j)' = HeaderOf(j)
    <3>1. \A j \in 1 .. lineno : HeaderOf(j)' = HeaderOf(j)
      BY NextLine
    <3> QED BY <3>1, <1>2
  <2>4. k \notin Pairs
    BY <1>1, <1>2
  <2>5. CASE file[k].kind = "pair"
    <3>1. Pairs' = Pairs \cup {k}
      BY <2>5, <1>2
    <3> QED BY <2>1, <2>2, <2>3, <2>5, <3>1
  <2>6. CASE file[k].kind # "pair"
    <3>1. Pairs' = Pairs
      BY <2>6, <1>2
    <3> QED BY <2>1, <2>2, <2>3, <2>6, <3>1
  <2> QED BY <2>5, <2>6
<1>4. \A h : \A j \in 1 .. k :
         {i \in Settings(h)' : i < j} = {i \in Settings(h) : i < j}
  <2> SUFFICES ASSUME NEW h, NEW j \in 1 .. k
               PROVE  {i \in Settings(h)' : i < j} = {i \in Settings(h) : i < j}
    OBVIOUS
  <2>1. ~ (k < j)
    BY <1>1
  <2>2. Settings(h)' = Settings(h) \cup {k} \/ Settings(h)' = Settings(h)
    BY <1>3
  <2> QED BY <2>1, <2>2
<1>5. ASSUME NEW j \in 1 .. lineno PROVE SettingsBefore(j)' = SettingsBefore(j)
  <2>1. SettingsBefore(j)' = {i \in Settings(HeaderOf(j))' : i < j}
    BY DEF SettingsBefore
  <2>2. HeaderOf(j)' = HeaderOf(j) /\ j \in 1 .. k
    BY <1>1, NextLine
  <2>3. SettingsBefore(j) = {i \in Settings(HeaderOf(j)) : i < j}
    BY DEF SettingsBefore
  <2> QED BY <2>1, <2>2, <2>3, <1>4
<1>6. SettingsBefore(k)' = Settings(HeaderOf(k)')
  <2> PICK H : H = HeaderOf(k)'
    OBVIOUS
  <2>1. SettingsBefore(k)' = {i \in Settings(H)' : i < k}
    BY DEF SettingsBefore
  <2>2. {i \in Settings(H)' : i < k} = {i \in Settings(H) : i < k}
    BY <1>1, <1>4
  <2>3. Settings(H) \in SUBSET (1 .. lineno)
    BY <1>2, SetsOfLines
  <2>4. \A i \in Settings(H) : i < k
    BY <1>1, <2>3
  <2> QED BY <2>1, <2>2, <2>4
<1> QED BY <1>3, <1>5, <1>6

-----------------------------------------------------------------------------
(***************************************************************************)
(* The reader.  Faithful is what is kept from line to line: the sections   *)
(* are the headers, in order, and the pairs of each are its settings, in   *)
(* order.  That each name and each key is there only once need not be said *)
(* here: it follows from the lines, which all fit.                         *)
(***************************************************************************)
Entry(k) == [key |-> file[k].key, value |-> file[k].value]

SaysSo(h) ==
  LET sec == ini[Place(h, Headers)]
  IN  /\ sec.name = file[h].name
      /\ Len(sec.pairs) = Cardinality(Settings(h))
      /\ \A k \in Settings(h) : sec.pairs[Place(k, Settings(h))] = Entry(k)

Faithful == Len(ini) = Cardinality(Headers) /\ \A h \in Headers : SaysSo(h)

ReaderInv ==
  /\ LinesRead /\ ini \in Sections /\ Len(ini) <= MaxSections
  /\ pc # "exit" => \A k \in 1 .. lineno : Fits(k) <=> ~(pc = "fail" /\ k = lineno)
  /\ pc \notin {"fail", "exit"} => Faithful

PairType == [key : STRING, value : Value]

LEMMA SectionFields ==
  ASSUME NEW secs \in Sections, NEW i \in 1 .. Len(secs)
  PROVE  /\ secs[i] \in [name : STRING, pairs : Seq(PairType)]
         /\ secs[i].name \in STRING /\ secs[i].pairs \in Seq(PairType)
         /\ Len(secs[i].pairs) \in Nat
<1>1. secs[i] \in [name : STRING, pairs : Seq(PairType)]
  <2>1. Sections = Seq([name : STRING, pairs : Seq(PairType)])
    BY Zenon DEF Sections, PairType
  <2> QED BY <2>1, ElementOfSeq
<1> QED BY <1>1, LenProperties

\* Each header has a section, each section a header.
LEMMA SectionsAreHeaders ==
  ASSUME LinesRead, ini \in Sections, Faithful
  PROVE  /\ \A h \in Headers : /\ Place(h, Headers) \in 1 .. Len(ini)
                               /\ ini[Place(h, Headers)].name = file[h].name
         /\ \A i \in 1 .. Len(ini) : \E h \in Headers : Place(h, Headers) = i
         /\ \A name : HasSection(ini, name) <=> \E h \in Headers : file[h].name = name
<1>1. Headers \in SUBSET Nat /\ IsFiniteSet(Headers) /\ Len(ini) = Cardinality(Headers)
  BY SetsOfLines DEF Faithful
<1>2. \A h \in Headers : /\ Place(h, Headers) \in 1 .. Len(ini)
                         /\ ini[Place(h, Headers)].name = file[h].name
  BY <1>1, PlaceInRange DEF Faithful, SaysSo
<1>3. \A i \in 1 .. Len(ini) : \E h \in Headers : Place(h, Headers) = i
  BY <1>1, PlaceIsOnto
<1>4. ASSUME NEW name
      PROVE  HasSection(ini, name) <=> \E h \in Headers : file[h].name = name
  BY <1>2, <1>3, FindSectionIs
<1> QED BY <1>2, <1>3, <1>4

\* Each setting has a pair, each pair a setting.
LEMMA PairsAreSettings ==
  ASSUME LinesRead, ini \in Sections, Faithful, NEW h \in Headers
  PROVE  LET pairs == ini[Place(h, Headers)].pairs
         IN  /\ pairs \in Seq(PairType) /\ Len(pairs) = Cardinality(Settings(h))
             /\ Len(pairs) \in Nat
             /\ \A k \in Settings(h) : /\ Place(k, Settings(h)) \in 1 .. Len(pairs)
                                       /\ pairs[Place(k, Settings(h))] = Entry(k)
             /\ \A i \in 1 .. Len(pairs) :
                  \E k \in Settings(h) : Place(k, Settings(h)) = i /\ pairs[i] = Entry(k)
             /\ \A key : FindKey(pairs, key) # 0 <=> \E k \in Settings(h) : file[k].key = key
<1> DEFINE pairs == ini[Place(h, Headers)].pairs
<1>1. Settings(h) \in SUBSET Nat /\ IsFiniteSet(Settings(h))
  BY SetsOfLines
<1>2. pairs \in Seq(PairType) /\ Len(pairs) \in Nat
  BY SectionsAreHeaders, SectionFields
<1>3. /\ Len(pairs) = Cardinality(Settings(h))
      /\ \A k \in Settings(h) : pairs[Place(k, Settings(h))] = Entry(k)
  BY DEF Faithful, SaysSo
<1> HIDE DEF pairs
<1>4. \A k \in Settings(h) : Place(k, Settings(h)) \in 1 .. Len(pairs)
  BY <1>1, <1>3, PlaceInRange
<1>5. ASSUME NEW i \in 1 .. Len(pairs)
      PROVE  \E k \in Settings(h) : Place(k, Settings(h)) = i /\ pairs[i] = Entry(k)
  BY <1>1, <1>3, PlaceIsOnto
<1>6. \A k : Entry(k).key = file[k].key
  BY DEF Entry
<1>7. ASSUME NEW key
      PROVE  FindKey(pairs, key) # 0 <=> \E k \in Settings(h) : file[k].key = key
  <2>1. FindKey(pairs, key) # 0 <=> \E i \in 1 .. Len(pairs) : pairs[i].key = key
    BY <1>2, FindKeyIs
  <2>2. ASSUME NEW i \in 1 .. Len(pairs), pairs[i].key = key
        PROVE  \E k \in Settings(h) : file[k].key = key
    BY <2>2, <1>5, <1>6
  <2>3. ASSUME NEW k \in Settings(h), file[k].key = key
        PROVE  \E i \in 1 .. Len(pairs) : pairs[i].key = key
    BY <2>3, <1>3, <1>4, <1>6
  <2> QED BY <2>1, <2>2, <2>3
<1> QED BY <1>2, <1>3, <1>4, <1>5, <1>7 DEF pairs

\* The current section is that of the last header.
LEMMA CurrentSection ==
  ASSUME LinesRead, ini \in Sections, Faithful,
         NEW H \in Headers, \A h \in Headers : h <= H
  PROVE  Place(H, Headers) = Len(ini) /\ Last(ini) = ini[Place(H, Headers)]
<1>1. {h \in Headers : h <= H} = Headers
  OBVIOUS
<1>2. Place(H, Headers) = Cardinality(Headers)
  BY <1>1 DEF Place
<1> QED BY <1>2 DEF Faithful, Last

\* ini_load refuses exactly the line that does not fit the lines before it.
LEMMA RefusedIffUnfit ==
  ASSUME LinesRead, ini \in Sections, Faithful, lineno < Len(file),
         NEW k, k = lineno + 1, lineno' = k, file' = file
  PROVE  LineRefused(ini, file[k]) <=> ~Fits(k)'
<1> DEFINE line == file[k]
<1>1. /\ HeadersBefore(k)' = Headers /\ SettingsBefore(k)' = Settings(HeaderOf(k)')
      /\ line \in Line /\ Len(ini) = Cardinality(Headers) /\ Len(ini) \in Nat
  BY NextLine, SettingsOfNext DEF Faithful, Sections
<1>2. line.kind \in {"blank", "words", "header", "pair"}
  BY <1>1, LineFields
<1>3. Fits(k)' <=>
        /\ line.kind # "words"
        /\ line.kind = "header" =>
             /\ line.closed /\ line.name # "" /\ line.name \notin TooLong
             /\ \A h \in Headers : file[h].name # line.name
             /\ Cardinality(Headers) < MaxSections
        /\ line.kind = "pair" =>
             /\ HeaderOf(k)' # 0
             /\ line.key # "" /\ line.key \notin TooLong /\ ~TooLongValue(line.value)
             /\ \A j \in Settings(HeaderOf(k)') : file[j].key # line.key
             /\ Cardinality(Settings(HeaderOf(k)')) < MaxKeys
  BY <1>1 DEF Fits
<1> HIDE DEF line
<1>4. MaxSections \in Nat /\ MaxKeys \in Nat
  BY IniAssumption
<1>5. CASE line.kind \in {"blank", "words"}
  BY <1>3, <1>5 DEF LineRefused, line
<1>6. CASE line.kind = "header"
  <2>1. LineRefused(ini, line) <=> HeaderRefused(ini, line)
    BY <1>6 DEF LineRefused
  <2>2. HasSection(ini, line.name) <=> \E h \in Headers : file[h].name = line.name
    BY SectionsAreHeaders
  <2>3. Len(ini) >= MaxSections <=> ~ (Cardinality(Headers) < MaxSections)
    BY <1>1, <1>4
  <2>4. line.closed \in BOOLEAN
    BY <1>1, <1>6, LineFields
  <2>5. HeaderRefused(ini, line) <=>
           ~ (/\ line.closed /\ line.name # "" /\ line.name \notin TooLong
              /\ \A h \in Headers : file[h].name # line.name
              /\ Cardinality(Headers) < MaxSections)
    BY <2>2, <2>3, <2>4, Zenon DEF HeaderRefused
  <2> QED BY <1>3, <1>6, <2>1, <2>5 DEF line
<1>7. CASE line.kind = "pair"
  <2>1. LineRefused(ini, line) <=> PairRefused(ini, line)
    BY <1>7 DEF LineRefused
  <2> PICK H : H = HeaderOf(k)'
    OBVIOUS
  <2>3. H \in {0} \cup Headers /\ (\A h \in Headers : h <= H) /\ (H = 0 <=> Headers = {})
    <3>1. HeaderOf(k)' = Max({0} \cup Headers)
      BY <1>1 DEF HeaderOf
    <3>2. /\ Headers \in SUBSET Nat /\ 0 \notin Headers
          /\ lineno \in Nat /\ \A h \in Headers : h <= lineno
      BY SetsOfLines
    <3>3. /\ Max({0} \cup Headers) \in {0} \cup Headers
          /\ \A h \in Headers : h <= Max({0} \cup Headers)
          /\ Max({0} \cup Headers) = 0 <=> Headers = {}
      BY <3>2, LastOrZero
    <3>4. H = Max({0} \cup Headers)
      BY <3>1
    <3> QED BY <3>3, <3>4, Zenon
  <2>4. CASE H = 0
    <3>1. Headers = {} /\ Cardinality(Headers) = 0
      BY <2>3, <2>4, FS_EmptySet
    <3>2. ini = <<>>
      BY <3>1, <1>1, EmptySeq DEF Sections
    <3>3. PairRefused(ini, line)
      BY <3>2 DEF PairRefused
    <3> QED BY <3>3, <2>1, <2>4, <1>3, <1>7 DEF line
  <2>5. CASE H # 0
    <3>1. H \in Headers /\ Last(ini) = ini[Place(H, Headers)]
      BY <2>3, <2>5, CurrentSection
    <3> DEFINE pairs == Last(ini).pairs
    <3>2. /\ Len(pairs) = Cardinality(Settings(H)) /\ Len(pairs) \in Nat
          /\ FindKey(pairs, line.key) # 0 <=> \E j \in Settings(H) : file[j].key = line.key
      <4> DEFINE same == ini[Place(H, Headers)].pairs
      <4>1. /\ Len(same) = Cardinality(Settings(H)) /\ Len(same) \in Nat
            /\ \A key : FindKey(same, key) # 0 <=> \E j \in Settings(H) : file[j].key = key
        BY <3>1, PairsAreSettings
      <4>2. pairs = same
        BY <3>1
      <4> QED BY <4>1, <4>2
    <3>3. ini # <<>>
      <4>1. Headers # {}
        BY <3>1
      <4>2. Cardinality(Headers) # 0
        BY <4>1, SetsOfLines, FS_EmptySet
      <4> QED BY <4>2, <1>1, EmptySeq
    <3>4. Len(pairs) >= MaxKeys <=> ~ (Cardinality(Settings(H)) < MaxKeys)
      BY <1>4, <3>2
    <3>5. PairRefused(ini, line) <=>
            \/ line.key \in {""} \cup TooLong
            \/ TooLongValue(line.value)
            \/ FindKey(pairs, line.key) # 0
            \/ Len(pairs) >= MaxKeys
      BY <3>3, Zenon DEF PairRefused
    <3>6. PairRefused(ini, line) <=>
            ~ (/\ line.key # "" /\ line.key \notin TooLong /\ ~TooLongValue(line.value)
               /\ \A j \in Settings(H) : file[j].key # line.key
               /\ Cardinality(Settings(H)) < MaxKeys)
      <4> HIDE DEF pairs
      <4> QED BY <3>2, <3>4, <3>5, Zenon
    <3> QED BY <3>6, <2>1, <2>5, <1>3, <1>7 DEF line
  <2> QED BY <2>4, <2>5
<1> QED BY <1>2, <1>5, <1>6, <1>7

-----------------------------------------------------------------------------
(***************************************************************************)
(* A line that is taken leaves the sections faithful: a blank one changes  *)
(* nothing, a header opens the last section, a pair is the last of it.     *)
(***************************************************************************)
TakesLine(k) ==
  /\ LinesRead /\ ini \in Sections /\ Faithful
  /\ lineno < Len(file) /\ k = lineno + 1 /\ lineno' = k /\ file' = file
  /\ ini' = Taken(ini, file[k])

LEMMA SaysSoAgain ==
  ASSUME NEW k, TakesLine(k), NEW h \in Headers,
         Place(h, Headers') = Place(h, Headers), Settings(h)' = Settings(h),
         ini'[Place(h, Headers)] = ini[Place(h, Headers)]
  PROVE  SaysSo(h)'
<1>1. SaysSo(h) /\ file' = file
  BY DEF TakesLine, Faithful
<1>2. Place(h, Headers)' = Place(h, Headers)
  OBVIOUS
<1>3. \A j : Entry(j)' = Entry(j)
  BY <1>1 DEF Entry
<1> DEFINE sec == ini[Place(h, Headers)]
<1>4. ini'[Place(h, Headers)'] = sec
  BY <1>2
<1>5. SaysSo(h)' <=>
        /\ sec.name = file[h].name
        /\ Len(sec.pairs) = Cardinality(Settings(h))
        /\ \A j \in Settings(h) : sec.pairs[Place(j, Settings(h))] = Entry(j)
  BY <1>1, <1>3, <1>4 DEF SaysSo
<1> QED BY <1>1, <1>5 DEF SaysSo

LEMMA BlankTaken ==
  ASSUME NEW k, TakesLine(k), file[k].kind = "blank"
  PROVE  ini' = ini /\ Faithful'
<1> USE DEF TakesLine
<1>1. ini' = ini
  BY DEF Taken
<1>2. Headers' = Headers /\ \A h : Settings(h)' = Settings(h)
  BY NextLine, SettingsOfNext
<1>3. ASSUME NEW h \in Headers PROVE SaysSo(h)'
  BY <1>1, <1>2, <1>3, SaysSoAgain
<1> QED BY <1>1, <1>2, <1>3 DEF Faithful

LEMMA HeaderTaken ==
  ASSUME NEW k, TakesLine(k), file[k].kind = "header"
  PROVE  ini' \in Sections /\ Len(ini') = Len(ini) + 1 /\ Faithful'
<1> USE DEF TakesLine
<1> DEFINE sec == [name |-> file[k].name, pairs |-> <<>>]
           R   == [name : STRING, pairs : Seq(PairType)]
<1>1. ini' = Append(ini, sec)
  BY DEF Taken
<1>2. file[k] \in Line /\ file[k].name \in STRING
  BY NextLine, LineFields
<1>3. sec \in R /\ sec.name = file[k].name /\ sec.pairs = <<>> /\ Sections = Seq(R)
  <2>1. <<>> \in Seq(PairType)
    BY EmptySeq
  <2>2. Sections = Seq(R)
    BY Zenon DEF Sections, PairType
  <2> QED BY <1>2, <2>1, <2>2
<1> HIDE DEF sec, R
<1>4. /\ ini' \in Sections /\ Len(ini') = Len(ini) + 1 /\ ini'[Len(ini) + 1] = sec
      /\ \A i \in 1 .. Len(ini) : ini'[i] = ini[i]
      /\ Len(ini) \in Nat
  BY <1>1, <1>3, AppendAt
<1>5. Headers' = Headers \cup {k} /\ \A h : Settings(h)' = Settings(h)
  BY NextLine, SettingsOfNext
<1>6. /\ Headers \in SUBSET Nat /\ IsFiniteSet(Headers) /\ k \in Nat
      /\ \A h \in Headers : h < k
      /\ Len(ini) = Cardinality(Headers)
  <2>1. lineno \in Nat /\ Headers \in SUBSET (1 .. lineno) /\ Headers \in SUBSET Nat
        /\ IsFiniteSet(Headers)
    BY SetsOfLines
  <2> QED BY <2>1 DEF Faithful
<1>7. /\ Cardinality(Headers') = Len(ini) + 1
      /\ Place(k, Headers') = Len(ini) + 1
      /\ \A h \in Headers : Place(h, Headers') = Place(h, Headers)
  BY <1>5, <1>6, PlaceOfNext
<1>8. ASSUME NEW h \in Headers PROVE SaysSo(h)'
  <2>1. Place(h, Headers) \in 1 .. Len(ini)
    BY SectionsAreHeaders
  <2> QED BY <2>1, <1>4, <1>5, <1>7, SaysSoAgain
<1>9. SaysSo(k)'
  <2>1. Settings(k) = {}
    <3> SUFFICES ASSUME NEW j \in Settings(k) PROVE FALSE
      OBVIOUS
    <3>1. HeaderOf(j) = k /\ HeaderOf(j) \in {0} \cup HeadersBefore(j)
      BY HeaderOfIs DEF Settings
    <3>2. HeadersBefore(j) \in SUBSET Headers /\ k # 0 /\ k \notin Headers
      BY <1>6, SetsOfLines DEF HeadersBefore
    <3> QED BY <3>1, <3>2
  <2>2. Settings(k)' = {} /\ Cardinality({}) = 0
    BY <2>1, <1>5, FS_EmptySet
  <2>3. Place(k, Headers)' = Len(ini) + 1
    BY <1>7
  <2>4. ini'[Place(k, Headers)'] = sec
    BY <2>3, <1>4
  <2>5. Len(sec.pairs) = 0
    BY <1>3
  <2> QED BY <2>2, <2>4, <2>5, <1>3 DEF SaysSo
<1>10. \A h \in Headers' : SaysSo(h)'
  BY <1>5, <1>8, <1>9
<1> QED BY <1>4, <1>7, <1>10 DEF Faithful

LEMMA PairTaken ==
  ASSUME NEW k, TakesLine(k), file[k].kind = "pair", ~LineRefused(ini, file[k])
  PROVE  ini' \in Sections /\ Len(ini') = Len(ini) /\ Faithful'
<1> USE DEF TakesLine
<1> DEFINE last  == Len(ini)
           entry == Entry(k)
           R     == [name : STRING, pairs : Seq(PairType)]
<1>1. ini' = [ini EXCEPT ![last].pairs = Append(@, entry)]
  BY DEF Taken, Entry
<1>2. file[k] \in Line /\ file[k].key \in STRING /\ file[k].value \in Value
  BY NextLine, LineFields
<1>3. entry \in PairType /\ Sections = Seq(R)
  <2>1. Sections = Seq(R)
    BY Zenon DEF Sections, PairType
  <2> QED BY <1>2, <2>1 DEF Entry, PairType
<1>4. ini # <<>> /\ last \in Nat \ {0} /\ last = Cardinality(Headers)
  <2>1. ini # <<>>
    BY DEF LineRefused, PairRefused
  <2> QED BY <2>1, EmptySeq DEF Faithful, Sections
<1>5. PICK H \in Headers : Place(H, Headers) = last
  BY <1>4, SectionsAreHeaders
<1>6. /\ Headers \in SUBSET Nat /\ IsFiniteSet(Headers) /\ Headers \in SUBSET (1 .. lineno)
      /\ lineno \in Nat /\ k \in Nat
  BY SetsOfLines
<1>7. \A h \in Headers : h <= H
  <2> SUFFICES ASSUME NEW h \in Headers, ~ (h <= H) PROVE FALSE
    OBVIOUS
  <2>1. H < h
    BY <1>6
  <2>2. Place(H, Headers) < Place(h, Headers)
    BY <1>6, <2>1, PlaceAscends
  <2>3. Place(h, Headers) \in 1 .. last
    BY SectionsAreHeaders
  <2> QED BY <1>4, <1>5, <2>2, <2>3
<1>8. HeaderOf(k)' = H
  <2>1. HeaderOf(k)' = Max({0} \cup Headers)
    BY NextLine DEF HeaderOf
  <2>2. /\ Max({0} \cup Headers) \in {0} \cup Headers
        /\ \A h \in Headers : h <= Max({0} \cup Headers)
        /\ Max({0} \cup Headers) = 0 <=> Headers = {}
    <3>1. 0 \notin Headers /\ \A h \in Headers : h <= lineno
      BY <1>6
    <3> QED BY <3>1, <1>6, LastOrZero
  <2>3. Max({0} \cup Headers) = H
    <3> PICK m : m = Max({0} \cup Headers)
      OBVIOUS
    <3>1. m \in Headers /\ H <= m /\ m <= H
      BY <2>2, <1>7
    <3> QED BY <3>1, <1>6
  <2> QED BY <2>1, <2>3
<1>9. Headers' = Headers
  BY NextLine
<1>10. /\ Settings(H)' = Settings(H) \cup {k}
       /\ \A h : h # H => Settings(h)' = Settings(h)
  BY <1>8, SettingsOfNext
<1> DEFINE old == ini[last]
           new == [old EXCEPT !.pairs = Append(old.pairs, entry)]
<1>11. old \in R /\ old.pairs \in Seq(PairType) /\ old.name = file[H].name
  BY <1>4, <1>5, SectionFields, SectionsAreHeaders
<1>12. /\ new \in R /\ new.name = old.name /\ new.pairs = Append(old.pairs, entry)
  <2>1. Append(old.pairs, entry) \in Seq(PairType)
    BY <1>3, <1>11, AppendAt
  <2> HIDE DEF entry, old
  <2> QED BY <2>1, <1>11
<1>13. /\ ini' \in Sections /\ Len(ini') = Len(ini) /\ ini'[last] = new
       /\ \A i \in 1 .. last : i # last => ini'[i] = ini[i]
  <2>1. ini \in Seq(R) /\ last \in 1 .. Len(ini)
    BY <1>3, <1>4
  <2>2. ini' = [ini EXCEPT ![last] = new]
    BY <1>1, Zenon
  <2> HIDE DEF new, old, entry, R, last
  <2>3. DOMAIN ini = 1 .. Len(ini) /\ Len(ini) \in Nat
    BY <2>1
  <2>4. /\ ini' \in Seq(R) /\ Len(ini') = Len(ini)
    BY <2>1, <2>2, <1>12, ExceptSeq
  <2>5. /\ ini'[last] = new
        /\ \A i \in 1 .. Len(ini) : i # last => ini'[i] = ini[i]
    BY <2>1, <2>2, <2>3
  <2> QED BY <2>4, <2>5, <1>3 DEF last
<1>14. ASSUME NEW h \in Headers, h # H PROVE SaysSo(h)'
  <2>1. Place(h, Headers) \in 1 .. last /\ Place(h, Headers) # last
    <3>1. Place(h, Headers) \in 1 .. last
      BY SectionsAreHeaders
    <3>2. Place(h, Headers) # Place(H, Headers)
      BY <1>6, <1>14, PlaceIsOneToOne
    <3> HIDE DEF last
    <3> QED BY <3>1, <3>2, <1>5
  <2> HIDE DEF last
  <2>2. Place(h, Headers') = Place(h, Headers)
    BY <1>9
  <2>3. ini'[Place(h, Headers)] = ini[Place(h, Headers)]
    BY <2>1, <1>13
  <2>4. Settings(h)' = Settings(h)
    BY <1>10, <1>14
  <2> QED BY <2>2, <2>3, <2>4, SaysSoAgain
<1>15. SaysSo(H)'
  <2> DEFINE olds == old.pairs
             news == new.pairs
             S    == Settings(H)
  <2>1. /\ olds \in Seq(PairType) /\ Len(olds) = Cardinality(S) /\ Len(olds) \in Nat
        /\ \A j \in S : /\ Place(j, S) \in 1 .. Len(olds)
                        /\ olds[Place(j, S)] = Entry(j)
    BY <1>5, <1>11, PairsAreSettings
  <2>2. /\ Len(news) = Len(olds) + 1 /\ news[Len(olds) + 1] = entry
        /\ \A i \in 1 .. Len(olds) : news[i] = olds[i]
    BY <1>3, <1>11, <1>12, AppendAt
  <2>3. S \in SUBSET Nat /\ IsFiniteSet(S) /\ \A j \in S : j < k
    <3>1. S \in SUBSET (1 .. lineno)
      BY SetsOfLines
    <3> QED BY <3>1, <1>6, SetsOfLines
  <2>4. /\ Cardinality(S \cup {k}) = Len(news)
        /\ Place(k, S \cup {k}) = Len(news)
        /\ \A j \in S : Place(j, S \cup {k}) = Place(j, S)
    BY <2>1, <2>2, <2>3, <1>6, PlaceOfNext
  <2>5. \A j \in S \cup {k} : news[Place(j, S \cup {k})] = Entry(j)
    <3> HIDE DEF news, olds, S
    <3>1. \A j \in S : news[Place(j, S \cup {k})] = Entry(j)
      BY <2>1, <2>2, <2>4
    <3>2. news[Place(k, S \cup {k})] = Entry(k)
      BY <2>2, <2>4
    <3> QED BY <3>1, <3>2
  <2>6. Settings(H)' = S \cup {k}
    BY <1>10
  <2>7. ini'[Place(H, Headers)'] = new /\ new.name = file'[H].name
    BY <1>5, <1>9, <1>11, <1>12, <1>13
  <2>8. \A j : Entry(j)' = Entry(j)
    BY DEF Entry
  <2> HIDE DEF new, S, old
  <2>9. SaysSo(H)' <=>
          /\ new.name = file'[H].name
          /\ Len(news) = Cardinality(Settings(H)')
          /\ \A j \in Settings(H)' : news[Place(j, Settings(H)')] = Entry(j)
    BY <2>7, <2>8 DEF SaysSo
  <2> QED BY <2>4, <2>5, <2>6, <2>7, <2>9
<1> QED BY <1>4, <1>9, <1>13, <1>14, <1>15 DEF Faithful

-----------------------------------------------------------------------------
LEMMA InitRead == Init => ReaderInv
<1> SUFFICES ASSUME Init PROVE ReaderInv
  OBVIOUS
<1>1. file \in Seq(Line) /\ lineno = 0 /\ ini = <<>> /\ pc = "open"
  BY StartupAssumption DEF Init
<1>2. LinesRead /\ Headers = {} /\ 1 .. lineno = {}
  <2>1. Len(file) \in Nat
    BY <1>1
  <2> QED BY <1>1, <2>1 DEF LinesRead, Headers
<1>3. ini \in Sections /\ Len(ini) = 0
  BY <1>1, EmptySeq DEF Sections
<1>4. Faithful
  BY <1>2, <1>3, FS_EmptySet DEF Faithful
<1> QED BY <1>1, <1>2, <1>3, <1>4, IniAssumption DEF ReaderInv

\* Outside of the reading the sections only change to be freed.
LEMMA ReadBefore ==
  ASSUME ReaderInv, file' = file, lineno' = lineno, pc' # "fail",
         \/ ini' = ini /\ pc \notin {"fail", "exit"}
         \/ ini' = <<>> /\ pc' = "exit"
  PROVE  ReaderInv'
<1>1. LinesRead'
  BY DEF ReaderInv, LinesRead
<1>2. Headers' = Headers /\ \A h : Settings(h)' = Settings(h)
  BY DEF Headers, Settings, Pairs, HeaderOf, HeadersBefore
<1>3. \A k : Fits(k)' <=> Fits(k)
  BY DEF Fits, HeadersBefore, HeaderOf, SettingsBefore, Settings, Pairs, Headers
<1>4. CASE ini' = ini /\ pc \notin {"fail", "exit"}
  <2>1. \A h \in Headers : SaysSo(h)'
    BY <1>2, <1>4 DEF ReaderInv, Faithful, SaysSo, Entry
  <2>2. Faithful'
    BY <2>1, <1>2, <1>4 DEF ReaderInv, Faithful
  <2> QED BY <1>1, <1>3, <1>4, <2>2 DEF ReaderInv
<1>5. CASE ini' = <<>> /\ pc' = "exit"
  <2>1. ini' \in Sections /\ Len(ini') = 0
    BY <1>5, EmptySeq DEF Sections
  <2> QED BY <1>1, <1>5, <2>1, IniAssumption DEF ReaderInv
<1> QED BY <1>4, <1>5

LEMMA ReadLineRead ==
  ASSUME ReaderInv, ReadLine
  PROVE  ReaderInv'
<1> PICK k : k = lineno + 1
  OBVIOUS
<1>1. /\ LinesRead /\ ini \in Sections /\ Faithful /\ Len(ini) <= MaxSections
      /\ lineno < Len(file) /\ lineno' = k /\ file' = file /\ pc = "read"
      /\ \A j \in 1 .. lineno : Fits(j)
  BY DEF ReaderInv, ReadLine
<1>2. LinesRead' /\ lineno \in Nat /\ 1 .. k = (1 .. lineno) \cup {k} /\ k \notin 1 .. lineno
  <2>1. lineno \in Nat
    BY <1>1, SetsOfLines
  <2> QED BY <1>1, <2>1, NextLine
<1>3. LineRefused(ini, file[k]) <=> ~Fits(k)'
  BY <1>1, RefusedIffUnfit
<1>4. ASSUME NEW j \in 1 .. lineno PROVE Fits(j)'
  <2>1. Fits(j)
    BY <1>1
  <2>2. /\ HeadersBefore(j)' = HeadersBefore(j) /\ HeaderOf(j)' = HeaderOf(j)
        /\ SettingsBefore(j)' = SettingsBefore(j)
    BY <1>1, NextLine, SettingsOfNext
  <2> QED BY <1>1, <2>1, <2>2 DEF Fits
<1>5. CASE LineRefused(ini, file[k])
  <2>1. pc' = "fail" /\ ini' = ini
    BY <1>1, <1>5 DEF ReadLine, GoTo
  <2> QED BY <1>1, <1>2, <1>3, <1>4, <1>5, <2>1 DEF ReaderInv
<1>6. CASE ~LineRefused(ini, file[k])
  <2>1. ini' = Taken(ini, file[k]) /\ pc' = "read"
    BY <1>1, <1>6 DEF ReadLine, GoTo
  <2>2. TakesLine(k)
    BY <1>1, <2>1 DEF TakesLine
  <2>3. file[k].kind \in {"blank", "header", "pair"}
    <3>1. file[k] \in Line
      BY <1>1, NextLine
    <3>2. file[k].kind # "words"
      BY <1>6 DEF LineRefused
    <3> QED BY <3>1, <3>2, LineFields
  <2>4. ini' \in Sections /\ Len(ini') <= MaxSections /\ Faithful'
    <3>1. CASE file[k].kind = "blank"
      BY <1>1, <2>2, <3>1, BlankTaken
    <3>2. CASE file[k].kind = "header"
      <4>1. ~ (Len(ini) >= MaxSections)
        BY <1>6, <3>2 DEF LineRefused, HeaderRefused
      <4>2. Len(ini) \in Nat /\ MaxSections \in Nat
        BY <1>1, IniAssumption DEF Sections
      <4> QED BY <4>1, <4>2, <2>2, <3>2, HeaderTaken
    <3>3. CASE file[k].kind = "pair"
      BY <1>1, <1>6, <2>2, <3>3, PairTaken
    <3> QED BY <2>3, <3>1, <3>2, <3>3
  <2> QED BY <1>1, <1>2, <1>3, <1>4, <1>6, <2>1, <2>4 DEF ReaderInv
<1> QED BY <1>5, <1>6

LEMMA NextRead == ReaderInv /\ [Next]_vars => ReaderInv'
<1> SUFFICES ASSUME ReaderInv, [Next]_vars PROVE ReaderInv'
  OBVIOUS
<1> USE DEF fileVars, GoTo
<1>1. CASE IniOpen \/ SinkNew \/ SinkFrame \/ SinkCtx \/ SinkSocket \/ ZmqCtxNew
  BY <1>1, ReadBefore DEF IniOpen, SinkNew, SinkFrame, SinkCtx, SinkSocket, ZmqCtxNew, Step
<1>2. CASE ReadLine
  BY <1>2, ReadLineRead
<1>3. CASE IniAlloc \/ ReadNoMore \/ LoadSinkConf \/ SinkBind
  BY <1>3, ReadBefore DEF IniAlloc, ReadNoMore, LoadSinkConf, SinkBind
<1>4. CASE ReadFails \/ IniFree
  BY <1>4, ReadBefore DEF ReadFails, IniFree
<1>5. CASE Build
  BY <1>5, ReadBefore DEF Build, BuildSkip, BuildRefuse, BackendCreate, BuildDone, BuildFails,
     More
<1>6. CASE Camera
  BY <1>6, ReadBefore DEF Camera, CameraAlloc, CameraFrame, CameraScratch, CameraSocket,
     CameraConnect, CameraInit, CameraStep, CameraNewFails, BuildFails
<1>7. CASE SinkExpect \/ Run
  BY <1>7, ReadBefore DEF SinkExpect, Run
<1>8. CASE \/ ReleaseCamera \/ ReleaseImpl \/ CameraFree \/ CameraDeinit \/ CameraClose
           \/ CameraDelFrames \/ CameraFreeScratch \/ CtxDestroy \/ SinkClose
           \/ SinkCtxDestroy \/ SinkDelFrames \/ SinkFree
  <2>1. UNCHANGED fileVars /\ pc' \notin {"read", "fail"}
    BY <1>8
    DEF ReleaseCamera, ReleaseImpl, CameraFree, CameraDeinit, CameraClose, CameraDelFrames,
        CameraFreeScratch, CtxDestroy, SinkClose, SinkCtxDestroy, SinkDelFrames, SinkFree,
        CameraDel, MainDel, unwinding
  <2>2. pc \notin {"fail", "exit"}
    BY <1>8
    DEF ReleaseCamera, ReleaseImpl, CameraFree, CameraDeinit, CameraClose, CameraDelFrames,
        CameraFreeScratch, CtxDestroy, SinkClose, SinkCtxDestroy, SinkDelFrames, SinkFree,
        CameraDel, MainDel
  <2> QED BY <2>1, <2>2, ReadBefore
<1>9. CASE UNCHANGED vars
  <2>1. LinesRead' /\ (Headers' = Headers /\ \A h : Settings(h)' = Settings(h))
    BY <1>9 DEF vars, ReaderInv, LinesRead, Headers, Settings, Pairs, HeaderOf, HeadersBefore
  <2>2. \A k : Fits(k)' <=> Fits(k)
    BY <1>9 DEF vars, Fits, HeadersBefore, HeaderOf, SettingsBefore, Settings, Pairs, Headers
  <2>3. ini' = ini /\ pc' = pc /\ file' = file /\ lineno' = lineno
    BY <1>9 DEF vars
  <2>4. Faithful => Faithful'
    BY <2>1, <2>3 DEF Faithful, SaysSo, Entry
  <2> QED BY <2>1, <2>2, <2>3, <2>4 DEF ReaderInv
<1> QED BY <1>1, <1>2, <1>3, <1>4, <1>5, <1>6, <1>7, <1>8, <1>9
        DEF Next, Forward, Load, Unwind, Terminated

LEMMA ReaderInvariant == Spec => []ReaderInv
BY InitRead, NextRead, PTL DEF Spec

(***************************************************************************)
(* The lookups on faithful sections: a key of a header is found with its   *)
(* value, and a key that is not there is not.                              *)
(***************************************************************************)
AllFit == \A k \in 1 .. lineno : Fits(k)

LEMMA NamesDiffer ==
  ASSUME LinesRead, AllFit, NEW g \in Headers, NEW h \in Headers, file[g].name = file[h].name
  PROVE  g = h
<1>1. ASSUME NEW x \in Headers, NEW y \in Headers, x < y PROVE file[x].name # file[y].name
  <2>1. y \in 1 .. lineno /\ file[y].kind = "header" /\ x \in HeadersBefore(y)
    BY <1>1 DEF Headers, HeadersBefore
  <2> QED BY <2>1 DEF AllFit, Fits
<1>2. g \in Nat /\ h \in Nat
  BY SetsOfLines
<1>3. g < h \/ h < g \/ g = h
  BY <1>2
<1> QED BY <1>1, <1>3

LEMMA KeysDiffer ==
  ASSUME LinesRead, AllFit, NEW h, NEW i \in Settings(h), NEW j \in Settings(h),
         file[i].key = file[j].key
  PROVE  i = j
<1>1. ASSUME NEW x \in Settings(h), NEW y \in Settings(h), x < y
      PROVE  file[x].key # file[y].key
  <2>1. y \in 1 .. lineno /\ file[y].kind = "pair" /\ HeaderOf(y) = h
    BY <1>1 DEF Settings, Pairs
  <2>2. x \in SettingsBefore(y)
    BY <1>1, <2>1 DEF SettingsBefore
  <2> QED BY <2>1, <2>2 DEF AllFit, Fits
<1>2. i \in Nat /\ j \in Nat
  BY SetsOfLines
<1>3. i < j \/ j < i \/ i = j
  BY <1>2
<1> QED BY <1>1, <1>3

LEMMA SectionFound ==
  ASSUME LinesRead, ini \in Sections, Faithful, AllFit, NEW h \in Headers
  PROVE  HasSection(ini, file[h].name) /\ FindSection(ini, file[h].name) = Place(h, Headers)
<1>1. HasSection(ini, file[h].name)
  BY SectionsAreHeaders
<1> PICK i : i = FindSection(ini, file[h].name)
  OBVIOUS
<1>2. i \in 1 .. Len(ini) /\ ini[i].name = file[h].name
  BY <1>1, FindSectionIs
<1>3. PICK g \in Headers : Place(g, Headers) = i /\ file[g].name = ini[i].name
  BY <1>2, SectionsAreHeaders
<1>4. g = h
  BY <1>2, <1>3, NamesDiffer
<1> QED BY <1>1, <1>3, <1>4

LEMMA Lookup ==
  ASSUME LinesRead, ini \in Sections, Faithful, AllFit, NEW h \in Headers, NEW key
  PROVE  /\ \A k \in Settings(h) : file[k].key = key =>
              Get(ini, file[h].name, key) = {file[k].value}
         /\ (\A k \in Settings(h) : file[k].key # key) => Get(ini, file[h].name, key) = {}
<1> DEFINE pairs == ini[Place(h, Headers)].pairs
<1>1. /\ pairs \in Seq(PairType)
      /\ \A i \in 1 .. Len(pairs) : \E k \in Settings(h) : pairs[i] = Entry(k)
      /\ FindKey(pairs, key) # 0 <=> \E k \in Settings(h) : file[k].key = key
  BY PairsAreSettings
<1>2. Get(ini, file[h].name, key) =
        IF FindKey(pairs, key) = 0 THEN {} ELSE {pairs[FindKey(pairs, key)].value}
  BY SectionFound DEF Get
<1> HIDE DEF pairs
<1>3. ASSUME NEW k \in Settings(h), file[k].key = key
      PROVE  Get(ini, file[h].name, key) = {file[k].value}
  <2>1. FindKey(pairs, key) # 0
    BY <1>1, <1>3
  <2> PICK i : i = FindKey(pairs, key)
    OBVIOUS
  <2>2. i \in 1 .. Len(pairs) /\ pairs[i].key = key
    BY <1>1, <2>1, FindKeyIs
  <2>3. PICK j \in Settings(h) : pairs[i] = Entry(j)
    BY <1>1, <2>2
  <2>4. pairs[i].key = file[j].key /\ pairs[i].value = file[j].value
    BY <2>3 DEF Entry
  <2>5. j = k
    BY <1>3, <2>2, <2>4, KeysDiffer
  <2> QED BY <1>2, <2>1, <2>4, <2>5
<1>4. ASSUME \A k \in Settings(h) : file[k].key # key
      PROVE  Get(ini, file[h].name, key) = {}
  BY <1>1, <1>2, <1>4
<1> QED BY <1>3, <1>4

LEMMA KeysChecked ==
  ASSUME LinesRead, ini \in Sections, Faithful, AllFit, NEW h \in Headers, NEW allowed
  PROVE  CheckKeys(ini, file[h].name, allowed) <=>
           {file[k].key : k \in Settings(h)} \subseteq allowed
<1> DEFINE pairs == ini[Place(h, Headers)].pairs
<1>1. /\ pairs \in Seq(PairType)
      /\ \A k \in Settings(h) : /\ Place(k, Settings(h)) \in 1 .. Len(pairs)
                                /\ pairs[Place(k, Settings(h))] = Entry(k)
      /\ \A i \in 1 .. Len(pairs) : \E k \in Settings(h) : pairs[i] = Entry(k)
  BY PairsAreSettings
<1>2. CheckKeys(ini, file[h].name, allowed) <=> \A i \in DOMAIN pairs : pairs[i].key \in allowed
  BY SectionFound DEF CheckKeys
<1> HIDE DEF pairs
<1>3. DOMAIN pairs = 1 .. Len(pairs) /\ \A k : Entry(k).key = file[k].key
  BY <1>1 DEF Entry
<1> QED BY <1>1, <1>2, <1>3

(***************************************************************************)
(* The reader of ini.c is exact, for every file, whatever its length, and  *)
(* every limit: its sections say what the lines read so far say, and it    *)
(* fails at the first line that does not fit, and at no other.             *)
(***************************************************************************)
THEOREM ReaderAlwaysExact == Spec => []ReaderIsExact
<1>1. ReaderInv => ReaderIsExact
  <2> SUFFICES ASSUME ReaderInv, pc \notin {"fail", "exit"}, NEW h \in Headers
      PROVE  /\ ini[Place(h, Headers)].name = file[h].name
             /\ \A k \in Settings(h) :
                  Get(ini, file[h].name, file[k].key) = {file[k].value}
             /\ CheckKeys(ini, file[h].name, {file[k].key : k \in Settings(h)})
    BY DEF ReaderInv, ReaderIsExact, Faithful
  <2>1. LinesRead /\ ini \in Sections /\ Faithful /\ AllFit
    BY DEF ReaderInv, AllFit
  <2>2. ini[Place(h, Headers)].name = file[h].name
    BY <2>1, SectionsAreHeaders
  <2>3. \A k \in Settings(h) : Get(ini, file[h].name, file[k].key) = {file[k].value}
    BY <2>1, Lookup
  <2>4. CheckKeys(ini, file[h].name, {file[k].key : k \in Settings(h)})
    BY <2>1, KeysChecked
  <2> QED BY <2>2, <2>3, <2>4
<1> QED BY <1>1, ReaderInvariant, PTL

-----------------------------------------------------------------------------
(***************************************************************************)
(* The types of what is made of the sections.                              *)
(***************************************************************************)
NumberType == [kind : {"number"}, n : Int, d : Nat]
GridType   == [rows : Nat \ {0}, cols : Nat \ {0}]

LEMMA ValueFields ==
  ASSUME NEW v \in Value
  PROVE  /\ v.kind \in {"number", "grid", "word"}
         /\ v.kind = "number" => v \in NumberType /\ v.n \in Int /\ v.d \in Nat
         /\ v.kind = "grid" => v.r \in Int /\ v.c \in Int
         /\ v.kind = "word" => v = Name(v.word)
<1>1. CASE v \in [kind : {"number"}, n : Int, d : Nat]
  BY <1>1 DEF NumberType
<1>2. CASE v \in [kind : {"grid"}, r : Int, c : Int]
  BY <1>2
<1>3. CASE v \in [kind : {"word"}, word : STRING]
  BY <1>3 DEF Name
<1> QED BY <1>1, <1>2, <1>3 DEF Value

LEMMA ConstructedValues ==
  /\ \A a \in Int : \A b \in Nat : /\ Number(a, b) \in Value /\ Number(a, b) \in NumberType
                                   /\ Number(a, b).kind = "number"
                                   /\ Number(a, b).n = a /\ Number(a, b).d = b
  /\ \A a, b \in Int : /\ Grid(a, b) \in Value /\ Grid(a, b).kind = "grid"
                       /\ Grid(a, b).r = a /\ Grid(a, b).c = b
  /\ \A w \in STRING : Name(w) \in Value /\ Name(w).kind = "word" /\ Name(w).word = w
BY DEF Number, Grid, Name, Value, NumberType

LEMMA GetType ==
  ASSUME NEW secs \in Sections, NEW name, NEW key
  PROVE  Get(secs, name, key) \subseteq Value
<1>1. CASE ~HasSection(secs, name)
  BY <1>1 DEF Get
<1>2. CASE HasSection(secs, name)
  <2> PICK i : i = FindSection(secs, name)
    OBVIOUS
  <2>1. i \in 1 .. Len(secs)
    BY <1>2, FindSectionIs
  <2> DEFINE pairs == secs[i].pairs
  <2>2. pairs \in Seq(PairType)
    BY <2>1, SectionFields
  <2>3. Get(secs, name, key) =
          IF FindKey(pairs, key) = 0 THEN {} ELSE {pairs[FindKey(pairs, key)].value}
    BY <1>2 DEF Get
  <2> HIDE DEF pairs
  <2>4. ASSUME FindKey(pairs, key) # 0 PROVE pairs[FindKey(pairs, key)].value \in Value
    <3>1. FindKey(pairs, key) \in 1 .. Len(pairs)
      BY <2>2, <2>4, FindKeyIs
    <3>2. pairs[FindKey(pairs, key)] \in PairType
      BY <2>2, <3>1, ElementOfSeq
    <3> QED BY <3>2 DEF PairType
  <2> QED BY <2>3, <2>4
<1> QED BY <1>1, <1>2

LEMMA LookupTypes ==
  ASSUME NEW secs \in Sections, NEW name, NEW key
  PROVE  /\ \A def \in Value : Str(secs, name, key, def) \subseteq Value
         /\ \A def \in Nat : U32(secs, name, key, def) \subseteq Nat
         /\ \A def \in NumberType : F64(secs, name, key, def) \subseteq NumberType
         /\ \A def \in BOOLEAN : Bool(secs, name, key, def) \subseteq BOOLEAN
<1> DEFINE raw == Get(secs, name, key)
<1>1. raw \subseteq Value
  BY GetType
<1>2. Long \in Nat /\ Long > 0
  BY IniAssumption
<1>3. ASSUME NEW def \in Value PROVE Str(secs, name, key, def) \subseteq Value
  BY <1>1, <1>3 DEF Str, OrDefault
<1>4. ASSUME NEW def \in Nat PROVE U32(secs, name, key, def) \subseteq Nat
  <2> DEFINE fit == {value \in raw : /\ value.kind = "number" /\ value.d = 1
                                     /\ value.n \in 1 - Long .. Long - 1
                                     /\ Unsigned(value.n) < Word}
  <2>1. \A v \in fit : v.n \in Int /\ Unsigned(v.n) \in Nat
    BY <1>1, <1>2, ValueFields DEF Unsigned
  <2>2. U32(secs, name, key, def) = OrDefault(raw, def, {Unsigned(value.n) : value \in fit})
    BY DEF U32
  <2> HIDE DEF fit, raw
  <2> QED BY <2>1, <2>2, <1>4 DEF OrDefault
<1>5. ASSUME NEW def \in NumberType PROVE F64(secs, name, key, def) \subseteq NumberType
  <2>1. \A v \in raw : v.kind = "number" => v \in NumberType
    BY <1>1, ValueFields
  <2> HIDE DEF raw
  <2>2. F64(secs, name, key, def) = OrDefault(raw, def, {value \in raw : value.kind = "number"})
    BY DEF F64, raw
  <2> QED BY <2>1, <2>2, <1>5 DEF OrDefault
<1>6. ASSUME NEW def \in BOOLEAN PROVE Bool(secs, name, key, def) \subseteq BOOLEAN
  <2> DEFINE given == {(value \in Yes) : value \in raw \cap (Yes \cup No)}
  <2>1. Bool(secs, name, key, def) = IF raw = {} THEN {def} ELSE given
    BY Zenon DEF Bool, OrDefault
  <2>2. ASSUME NEW b \in given PROVE b \in BOOLEAN
    <3>1. PICK v \in raw \cap (Yes \cup No) : b = (v \in Yes)
      OBVIOUS
    <3>2. CASE v \in Yes
      BY <3>1, <3>2
    <3>3. CASE v \notin Yes
      BY <3>1, <3>3
    <3> QED BY <3>2, <3>3
  <2> HIDE DEF given, raw
  <2>3. given \subseteq BOOLEAN /\ {def} \subseteq BOOLEAN
    BY <2>2, <1>6, Zenon
  <2> QED BY <2>1, <2>3, Zenon
<1> QED BY <1>3, <1>4, <1>5, <1>6

LEMMA StrType ==
  ASSUME NEW secs \in Sections, NEW name, NEW key, NEW def
  PROVE  Str(secs, name, key, def) \subseteq Value \cup {def}
BY GetType DEF Str, OrDefault

LEMMA GridTypes ==
  ASSUME NEW secs \in Sections, NEW name, NEW key, NEW def \in Value
  PROVE  GridOf(secs, name, key, def) \subseteq GridType
<1>1. \A x \in Int : Side(x) \in Nat
  BY IniAssumption DEF Side, Unsigned
<1>2. ASSUME NEW v \in Value PROVE ParseGrid(v) \subseteq GridType
  <2>1. CASE v.kind = "grid" /\ Side(v.r) # 0 /\ Side(v.c) # 0
    <3>1. Side(v.r) \in Nat \ {0} /\ Side(v.c) \in Nat \ {0}
      BY <1>1, <2>1, ValueFields
    <3>2. ParseGrid(v) = {[rows |-> Side(v.r), cols |-> Side(v.c)]}
      BY <2>1 DEF ParseGrid
    <3> QED BY <3>1, <3>2 DEF GridType
  <2>2. CASE ~ (v.kind = "grid" /\ Side(v.r) # 0 /\ Side(v.c) # 0)
    BY <2>2 DEF ParseGrid
  <2> QED BY <2>1, <2>2
<1>3. Str(secs, name, key, def) \subseteq Value
  BY LookupTypes
<1> QED BY <1>2, <1>3 DEF GridOf

LEMMA PeriodTypes ==
  ASSUME NEW fps \in NumberType
  PROVE  /\ MockPeriod(fps) \in Nat
         /\ ExpectedPeriod(fps) \in [n : Nat, d : Nat]
<1>1. fps.n \in Int /\ fps.d \in Nat /\ Second \in Nat
  BY ConfigAssumption DEF NumberType
<1> PICK a \in Int, b \in Nat, s \in Nat : a = fps.n /\ b = fps.d /\ s = Second
  BY <1>1
<1>2. s * b \in Nat
  OBVIOUS
<1>3. MockPeriod(fps) \in Nat
  <2> DEFINE p == s * b
  <2>1. p \in Nat
    BY <1>2
  <2> HIDE DEF p
  <2>2. a > 0 => p \div a \in Nat
    BY <2>1, Z3
  <2>3. MockPeriod(fps) = IF a > 0 /\ b > 0 THEN p \div a ELSE 0
    BY DEF MockPeriod, p
  <2> QED BY <2>2, <2>3
<1>4. ExpectedPeriod(fps) \in [n : Nat, d : Nat]
  BY <1>2 DEF ExpectedPeriod, NoPeriod
<1> QED BY <1>3, <1>4

-----------------------------------------------------------------------------
(***************************************************************************)
(* build_cameras.  At section i of its loop the table holds the cameras of *)
(* the sections before i that the file switches on, each made of its own   *)
(* section; inside of camera_new the slot after them is made of section i. *)
(***************************************************************************)
Cams == {h \in Headers : On(h)}
Done == {h \in Cams : Place(h, Headers) < section}

\* These are settings of a backend made of the section of header h.
BuiltFrom(conf, h) ==
  /\ conf.backend \in Backends \cap BackendName(ini, file[h].name)
  /\ conf \in FromIni(conf.backend, ini, file[h].name)
  /\ SitesOf(conf) <= MaxSites

CameraMade(c, h) ==
  /\ BuiltFrom(backends[c], h)
  /\ capacity[c] = SitesOf(backends[c]) % Word
  /\ specs[c] \in SpecsOf(file[h].name, backends[c])

CameraInWork(h) ==
  /\ Place(h, Headers) = section
  /\ BuiltFrom(backends[New], h)
  /\ \A id \in IdOf(ini, file[h].name) : ~Duplicate(id)
  /\ pc \in {"scratch", "socket", "connect", "init"} =>
       capacity[New] = SitesOf(backends[New]) % Word

IdsDiffer == \A c \in 1 .. n : \A d \in 1 .. c - 1 : specs[d].camera_id # specs[c].camera_id

Configured == (Loading \ {"open", "alloc", "read", "fail", "conf"}) \cup Building

EntryType == [camera_id : Nat, max_sites : Nat, expect_period : [n : Nat, d : Nat]]

Types ==
  /\ file \in Files /\ sc \in Conf
  /\ section \in 1 .. MaxSections + 1
  /\ specs \in Seq(EntryType) /\ Len(specs) = n
  /\ backends \in [Slots -> Backend] /\ capacity \in [Slots -> Nat]
  /\ slot \in 0 .. MaxCameras + 1 /\ scope \in 0 .. MaxCameras
  /\ code \in 0 .. 2 /\ ran \in BOOLEAN

TableInv ==
  /\ pc \in Configured => sc \in SinkConf(ini)
  /\ pc \in Loading => section = 1
  /\ pc \in Building =>
       /\ n = Cardinality(Done)
       /\ \A h \in Done : CameraMade(Place(h, Cams), h)
       /\ IdsDiffer
  /\ pc \in Filling => \E h \in Cams : CameraInWork(h)
  /\ pc \in {"expect", "run"} => section > Len(ini)

-----------------------------------------------------------------------------
(***************************************************************************)
(* What a lookup in the section of header h gives is what the file says    *)
(* under h.                                                                *)
(***************************************************************************)
WellRead == LinesRead /\ ini \in Sections /\ Faithful /\ AllFit

LEMMA SaysLookup ==
  ASSUME WellRead, NEW h \in Headers, NEW key
  PROVE  \/ Get(ini, file[h].name, key) = {} /\ \A def : Says(h, key, def) = def
         \/ \E v \in Value : /\ Get(ini, file[h].name, key) = {v}
                             /\ \A def : Says(h, key, def) = v
<1> DEFINE at == {k \in Settings(h) : file[k].key = key}
<1>1. \A def : Says(h, key, def) = IF at = {} THEN def ELSE file[CHOOSE k \in at : TRUE].value
  BY DEF Says
<1>2. CASE at = {}
  <2>1. Get(ini, file[h].name, key) = {}
    BY <1>2, Lookup DEF WellRead
  <2> HIDE DEF at
  <2> QED BY <1>1, <1>2, <2>1
<1>3. CASE at # {}
  <2> PICK k : k = CHOOSE j \in at : TRUE
    OBVIOUS
  <2>1. k \in at
    BY <1>3
  <2>2. Get(ini, file[h].name, key) = {file[k].value} /\ file[k].value \in Value
    BY <2>1, Lookup, SettingAfterHeader DEF WellRead
  <2>3. \A def : Says(h, key, def) = file[k].value
    <3> HIDE DEF at
    <3> QED BY <1>1, <1>3
  <2> QED BY <2>2, <2>3
<1> QED BY <1>2, <1>3

LEMMA StrSays ==
  ASSUME WellRead, NEW h \in Headers, NEW key, NEW def, NEW v \in Str(ini, file[h].name, key, def)
  PROVE  v = Says(h, key, def)
<1> PICK raw : raw = Get(ini, file[h].name, key)
  OBVIOUS
<1>1. \/ raw = {} /\ Says(h, key, def) = def
      \/ \E x : raw = {x} /\ Says(h, key, def) = x
  BY SaysLookup
<1>2. v \in IF raw = {} THEN {def} ELSE raw \ {Empty}
  BY DEF Str, OrDefault
<1> QED BY <1>1, <1>2

LEMMA F64Says ==
  ASSUME WellRead, NEW h \in Headers, NEW key, NEW def, NEW v \in F64(ini, file[h].name, key, def)
  PROVE  v = Says(h, key, def)
<1> PICK raw : raw = Get(ini, file[h].name, key)
  OBVIOUS
<1>1. \/ raw = {} /\ Says(h, key, def) = def
      \/ \E x : raw = {x} /\ Says(h, key, def) = x
  BY SaysLookup
<1>2. v \in IF raw = {} THEN {def} ELSE {value \in raw : value.kind = "number"}
  BY DEF F64, OrDefault
<1> QED BY <1>1, <1>2

LEMMA U32Says ==
  ASSUME WellRead, NEW h \in Headers, NEW key, NEW def \in Nat,
         NEW x \in U32(ini, file[h].name, key, def)
  PROVE  Means(Says(h, key, Number(def, 1)), x)
<1> PICK raw : raw = Get(ini, file[h].name, key)
  OBVIOUS
<1> DEFINE fit == {value \in raw : /\ value.kind = "number" /\ value.d = 1
                                   /\ value.n \in 1 - Long .. Long - 1
                                   /\ Unsigned(value.n) < Word}
<1>1. x \in IF raw = {} THEN {def} ELSE {Unsigned(value.n) : value \in fit}
  BY DEF U32, OrDefault
<1>2. CASE raw = {}
  <2>1. Says(h, key, Number(def, 1)) = Number(def, 1) /\ x = def
    BY <1>1, <1>2, SaysLookup
  <2>2. Number(def, 1).n = def
    BY ConstructedValues
  <2> QED BY <2>1, <2>2 DEF Means
<1>3. CASE raw # {}
  <2>1. PICK v \in Value : raw = {v} /\ Says(h, key, Number(def, 1)) = v
    BY <1>3, SaysLookup
  <2>2. v.kind = "number" /\ x = Unsigned(v.n)
    BY <1>1, <1>3, <2>1
  <2>3. v.n \in Int /\ Long \in Nat /\ Word \in Nat /\ Word < Long
    BY <2>2, ValueFields, IniAssumption
  <2>4. ASSUME v.n \in 0 .. Word - 1 PROVE x = v.n
    <3> PICK m \in Int, l \in Nat : m = v.n /\ l = Long
      BY <2>3
    <3>1. 0 <= m /\ m < l
      BY <2>3, <2>4
    <3>2. m % l = m
      BY <3>1, Z3
    <3> QED BY <3>2, <2>2 DEF Unsigned
  <2> QED BY <2>1, <2>4 DEF Means
<1> QED BY <1>2, <1>3

LEMMA BoolSays ==
  ASSUME WellRead, NEW h \in Headers, NEW key, NEW b \in Bool(ini, file[h].name, key, TRUE)
  PROVE  b <=> (Says(h, key, Name("true")) \in Yes)
<1> PICK raw : raw = Get(ini, file[h].name, key)
  OBVIOUS
<1> DEFINE given == {(value \in Yes) : value \in raw \cap (Yes \cup No)}
           said  == Says(h, key, Name("true"))
<1>1. Bool(ini, file[h].name, key, TRUE) = IF raw = {} THEN {TRUE} ELSE given
  BY Zenon DEF Bool, OrDefault
<1>2. CASE raw = {}
  <2>1. said = Name("true") /\ Name("true") \in Yes
    BY <1>2, SaysLookup DEF Yes
  <2>2. b = TRUE
    <3> HIDE DEF given
    <3> QED BY <1>1, <1>2, Zenon
  <2> QED BY <2>1, <2>2, Zenon
<1>3. CASE raw # {}
  <2>1. PICK v \in Value : raw = {v} /\ said = v
    BY <1>3, SaysLookup
  <2>2. b \in given
    <3> HIDE DEF given
    <3> QED BY <1>1, <1>3, Zenon
  <2>3. PICK w \in raw \cap (Yes \cup No) : b = (w \in Yes)
    BY <2>2, Zenon
  <2>4. w = v
    BY <2>1
  <2> QED BY <2>1, <2>3, <2>4, Zenon
<1> QED BY <1>2, <1>3

\* The three answers of ini_get_bool to enabled.
LEMMA EnabledSays ==
  ASSUME WellRead, NEW h \in Headers
  PROVE  /\ On(h) => EnabledOf(ini, file[h].name) # {FALSE} /\ file[h].name \in CamNames
         /\ ~On(h) => \/ file[h].name \notin CamNames
                      \/ EnabledOf(ini, file[h].name) = {FALSE}
<1> PICK raw : raw = Get(ini, file[h].name, "enabled")
  OBVIOUS
<1> DEFINE given == {(value \in Yes) : value \in raw \cap (Yes \cup No)}
           said  == Says(h, "enabled", Name("true"))
<1>1. EnabledOf(ini, file[h].name) = IF raw = {} THEN {TRUE} ELSE given
  BY Zenon DEF EnabledOf, Bool, OrDefault
<1>2. On(h) <=> file[h].name \in CamNames /\ said \notin No
  BY DEF On
<1>3. Yes \cap No = {} /\ Name("true") \in Yes
  BY DEF Yes, No, Name, Number
<1>4. CASE raw = {}
  <2>1. said = Name("true")
    BY <1>4, SaysLookup
  <2> QED BY <1>1, <1>2, <1>3, <1>4, <2>1
<1>5. CASE raw # {}
  <2>1. PICK v \in Value : raw = {v} /\ said = v
    BY <1>5, SaysLookup
  <2>2. EnabledOf(ini, file[h].name) = given
    BY <1>1, <1>5, Zenon
  <2> HIDE DEF said
  <2>3. CASE v \in No
    <3>1. v \notin Yes
      BY <1>3, <2>3
    <3>2. given = {FALSE}
      <4>1. raw \cap (Yes \cup No) = {v}
        BY <2>1, <2>3
      <4>2. FALSE = (v \in Yes)
        BY <3>1
      <4>3. FALSE \in given
        BY <4>1, <4>2, Zenon
      <4>4. ASSUME NEW b \in given PROVE b = FALSE
        <5>1. PICK w \in raw \cap (Yes \cup No) : b = (w \in Yes)
          OBVIOUS
        <5>2. w = v
          BY <4>1
        <5> QED BY <5>1, <5>2, <4>2
      <4> HIDE DEF given
      <4> QED BY <4>3, <4>4
    <3> QED BY <1>2, <2>1, <2>2, <2>3, <3>2
  <2>4. CASE v \notin No
    <3>1. FALSE \notin given
      <4> SUFFICES ASSUME FALSE \in given PROVE FALSE
        OBVIOUS
      <4>1. PICK w \in raw \cap (Yes \cup No) : FALSE = (w \in Yes)
        OBVIOUS
      <4>2. w = v /\ w \in Yes
        BY <2>1, <2>4
      <4> QED BY <4>1, <4>2
    <3> HIDE DEF given
    <3> QED BY <1>2, <2>1, <2>2, <2>4, <3>1
  <2> QED BY <2>3, <2>4
<1> QED BY <1>4, <1>5

-----------------------------------------------------------------------------
(***************************************************************************)
(* What a backend is created with, and what its types are.                 *)
(***************************************************************************)
LEMMA MockMade ==
  ASSUME NEW secs, NEW s, NEW conf \in MockFromIni(secs, s)
  PROVE  /\ CheckKeys(secs, s, MockKeys)
         /\ \E grid \in GridOf(secs, s, "grid", DefaultGrid),
               sites \in U32(secs, s, "sites", 256),
               fps \in F64(secs, s, "fps", DefaultFps) :
              /\ conf = [backend |-> "mock", rows |-> grid.rows, cols |-> grid.cols,
                         sites |-> sites, period |-> MockPeriod(fps)]
              /\ MockPeriod(fps) > 0
<1> DEFINE all == {[backend |-> "mock", rows |-> grid.rows, cols |-> grid.cols,
                    sites |-> sites, period |-> MockPeriod(fps)] :
                     grid \in GridOf(secs, s, "grid", DefaultGrid),
                     sites \in U32(secs, s, "sites", 256),
                     fps \in F64(secs, s, "fps", DefaultFps)}
<1>a. MockFromIni(secs, s) =
        IF CheckKeys(secs, s, MockKeys) THEN {c \in all : c.sites # 0 /\ c.period > 0} ELSE {}
  BY DEF MockFromIni
<1>1. CheckKeys(secs, s, MockKeys) /\ conf \in all /\ conf.sites # 0 /\ conf.period > 0
  <2> HIDE DEF all
  <2> QED BY <1>a
<1>2. PICK grid \in GridOf(secs, s, "grid", DefaultGrid),
           sites \in U32(secs, s, "sites", 256),
           fps \in F64(secs, s, "fps", DefaultFps) :
             /\ conf = [backend |-> "mock", rows |-> grid.rows, cols |-> grid.cols,
                        sites |-> sites, period |-> MockPeriod(fps)]
             /\ conf.sites # 0 /\ conf.period > 0
  BY <1>1
<1>3. MockPeriod(fps) > 0
  BY <1>2
<1> QED BY <1>1, <1>2, <1>3

LEMMA WebcamMade ==
  ASSUME NEW secs, NEW s, NEW conf \in V4l2FromIni(secs, s)
  PROVE  /\ CheckKeys(secs, s, WebcamKeys)
         /\ \E device \in Str(secs, s, "device", DefaultDevice),
               res \in GridOf(secs, s, "resolution", Grid(480, 640)),
               grid \in GridOf(secs, s, "grid", DefaultGrid),
               threshold \in U32(secs, s, "threshold", 32),
               buffers \in U32(secs, s, "buffers", 4),
               timeout \in U32(secs, s, "timeout_ms", 2000) :
              /\ conf = [backend |-> "v4l2", rows |-> grid.rows, cols |-> grid.cols,
                         height |-> res.rows, width |-> res.cols, threshold |-> threshold,
                         buffers |-> buffers, timeout_ms |-> timeout, device |-> device]
              /\ threshold <= 255
<1> DEFINE all == {[backend |-> "v4l2", rows |-> grid.rows, cols |-> grid.cols,
                    height |-> res.rows, width |-> res.cols, threshold |-> threshold,
                    buffers |-> buffers, timeout_ms |-> timeout, device |-> device] :
                     device \in Str(secs, s, "device", DefaultDevice),
                     res \in GridOf(secs, s, "resolution", Grid(480, 640)),
                     grid \in GridOf(secs, s, "grid", DefaultGrid),
                     threshold \in U32(secs, s, "threshold", 32),
                     buffers \in U32(secs, s, "buffers", 4),
                     timeout \in U32(secs, s, "timeout_ms", 2000)}
<1>a. V4l2FromIni(secs, s) =
        IF CheckKeys(secs, s, WebcamKeys)
        THEN {c \in all : c.threshold <= 255 /\ c.buffers >= 2} ELSE {}
  BY DEF V4l2FromIni
<1>1. /\ CheckKeys(secs, s, WebcamKeys) /\ conf \in all
      /\ conf.threshold <= 255 /\ conf.buffers >= 2
  <2> HIDE DEF all
  <2> QED BY <1>a
<1>2. PICK device \in Str(secs, s, "device", DefaultDevice),
           res \in GridOf(secs, s, "resolution", Grid(480, 640)),
           grid \in GridOf(secs, s, "grid", DefaultGrid),
           threshold \in U32(secs, s, "threshold", 32),
           buffers \in U32(secs, s, "buffers", 4),
           timeout \in U32(secs, s, "timeout_ms", 2000) :
             /\ conf = [backend |-> "v4l2", rows |-> grid.rows, cols |-> grid.cols,
                        height |-> res.rows, width |-> res.cols, threshold |-> threshold,
                        buffers |-> buffers, timeout_ms |-> timeout, device |-> device]
             /\ conf.threshold <= 255 /\ conf.buffers >= 2
  BY <1>1
<1>3. threshold <= 255
  BY <1>2
<1> QED BY <1>1, <1>2, <1>3

LEMMA DefaultTypes ==
  /\ DefaultFps \in NumberType /\ DefaultFps \in Value /\ DefaultFps.n = 30 /\ DefaultFps.d = 1
  /\ DefaultGrid \in Value /\ Grid(480, 640) \in Value
BY ConstructedValues DEF DefaultFps, DefaultGrid

LEMMA MockType ==
  ASSUME NEW secs \in Sections, NEW s, NEW conf \in MockFromIni(secs, s)
  PROVE  /\ conf \in Backend /\ conf.backend = "mock"
         /\ conf.rows \in Nat \ {0} /\ conf.cols \in Nat \ {0}
<1>1. PICK grid \in GridOf(secs, s, "grid", DefaultGrid),
           sites \in U32(secs, s, "sites", 256),
           fps \in F64(secs, s, "fps", DefaultFps) :
             conf = [backend |-> "mock", rows |-> grid.rows, cols |-> grid.cols,
                     sites |-> sites, period |-> MockPeriod(fps)]
  BY MockMade
<1>2. grid \in GridType /\ sites \in Nat /\ MockPeriod(fps) \in Nat
  BY DefaultTypes, GridTypes, LookupTypes, PeriodTypes
<1>3. grid.rows \in Nat \ {0} /\ grid.cols \in Nat \ {0}
  BY <1>2 DEF GridType
<1> QED BY <1>1, <1>2, <1>3 DEF Backend

LEMMA WebcamType ==
  ASSUME NEW secs \in Sections, NEW s, NEW conf \in V4l2FromIni(secs, s)
  PROVE  /\ conf \in Backend /\ conf.backend = "v4l2"
         /\ conf.rows \in Nat \ {0} /\ conf.cols \in Nat \ {0}
<1>1. PICK device \in Str(secs, s, "device", DefaultDevice),
           res \in GridOf(secs, s, "resolution", Grid(480, 640)),
           grid \in GridOf(secs, s, "grid", DefaultGrid),
           threshold \in U32(secs, s, "threshold", 32),
           buffers \in U32(secs, s, "buffers", 4),
           timeout \in U32(secs, s, "timeout_ms", 2000) :
             /\ conf = [backend |-> "v4l2", rows |-> grid.rows, cols |-> grid.cols,
                        height |-> res.rows, width |-> res.cols, threshold |-> threshold,
                        buffers |-> buffers, timeout_ms |-> timeout, device |-> device]
             /\ threshold <= 255
  BY WebcamMade
<1>2. /\ grid \in GridType /\ res \in GridType
      /\ threshold \in Nat /\ buffers \in Nat /\ timeout \in Nat
  <2>1. grid \in GridType /\ res \in GridType
    BY DefaultTypes, GridTypes
  <2>2. threshold \in Nat /\ buffers \in Nat /\ timeout \in Nat
    <3>1. /\ U32(secs, s, "threshold", 32) \subseteq Nat
          /\ U32(secs, s, "buffers", 4) \subseteq Nat
          /\ U32(secs, s, "timeout_ms", 2000) \subseteq Nat
      BY LookupTypes
    <3> QED BY <3>1
  <2> QED BY <2>1, <2>2
<1>3. /\ grid.rows \in Nat \ {0} /\ grid.cols \in Nat \ {0}
      /\ res.rows \in Nat /\ res.cols \in Nat /\ threshold \in 0 .. 255
  BY <1>1, <1>2 DEF GridType
<1>4. device \in Value \cup {DefaultDevice}
  BY StrType
<1> QED BY <1>1, <1>2, <1>3, <1>4 DEF Backend

LEMMA BuiltType ==
  ASSUME ini \in Sections, NEW conf, NEW h, BuiltFrom(conf, h)
  PROVE  /\ conf \in Backend /\ conf.backend \in {"mock", "v4l2"}
         /\ conf.backend = "mock" => conf \in MockFromIni(ini, file[h].name)
         /\ conf.backend = "v4l2" => conf \in V4l2FromIni(ini, file[h].name)
         /\ SitesOf(conf) \in Nat /\ SitesOf(conf) % Word = SitesOf(conf)
<1>1. conf.backend \in {"mock", "v4l2"} /\ conf \in FromIni(conf.backend, ini, file[h].name)
  BY DEF BuiltFrom, Backends
<1>2. /\ conf.backend = "mock" => conf \in MockFromIni(ini, file[h].name)
      /\ conf.backend = "v4l2" => conf \in V4l2FromIni(ini, file[h].name)
  BY <1>1 DEF FromIni
<1>3. conf \in Backend /\ conf.rows \in Nat \ {0} /\ conf.cols \in Nat \ {0}
  BY <1>1, <1>2, MockType, WebcamType
<1>4. SitesOf(conf) \in Nat
  <2> PICK r \in Nat, c \in Nat : r = conf.rows /\ c = conf.cols
    BY <1>3
  <2>1. r * c \in Nat
    OBVIOUS
  <2> QED BY <2>1 DEF SitesOf
<1>5. SitesOf(conf) % Word = SitesOf(conf)
  <2> PICK m \in Nat, w \in Nat \ {0} : m = SitesOf(conf) /\ w = Word
    BY <1>4, IniAssumption
  <2>1. m <= w - 1
    BY DEF BuiltFrom, MaxSites
  <2>2. m % w = m
    BY <2>1, Z3
  <2> QED BY <2>2
<1> QED BY <1>1, <1>2, <1>3, <1>4, <1>5

LEMMA SpecType ==
  ASSUME ini \in Sections, NEW conf, NEW h, BuiltFrom(conf, h),
         NEW spec \in SpecsOf(file[h].name, conf)
  PROVE  /\ spec \in EntryType
         /\ \E id \in IdOf(ini, file[h].name), fps \in FpsOf(ini, file[h].name) :
              spec = [camera_id |-> id, max_sites |-> SitesOf(conf),
                      expect_period |-> ExpectedPeriod(fps)]
<1>1. PICK id \in IdOf(ini, file[h].name), fps \in FpsOf(ini, file[h].name) :
        spec = [camera_id |-> id, max_sites |-> SitesOf(conf) % Word,
                expect_period |-> ExpectedPeriod(fps)]
  BY DEF SpecsOf
<1>2. SitesOf(conf) \in Nat /\ SitesOf(conf) % Word = SitesOf(conf)
  BY BuiltType
<1>3. id \in Nat /\ ExpectedPeriod(fps) \in [n : Nat, d : Nat]
  BY DefaultTypes, LookupTypes, PeriodTypes DEF IdOf, FpsOf
<1> QED BY <1>1, <1>2, <1>3 DEF EntryType

LEMMA SinkConfIs ==
  ASSUME NEW secs \in Sections, NEW conf \in SinkConf(secs)
  PROVE  /\ HasSection(secs, "sink") /\ CheckKeys(secs, "sink", SinkKeys)
         /\ conf.endpoint \in Str(secs, "sink", "endpoint", DefaultEndpoint)
         /\ conf.frames \in U32(secs, "sink", "frames", 100)
         /\ conf.tol \in F64(secs, "sink", "tol", Number(1, 2))
         /\ conf.timeout_s \in U32(secs, "sink", "timeout_s", 60)
         /\ conf.verbose \in Bool(secs, "sink", "verbose", TRUE)
         /\ conf \in Conf
<1> DEFINE E == Str(secs, "sink", "endpoint", DefaultEndpoint)
           F == U32(secs, "sink", "frames", 100)
           T == F64(secs, "sink", "tol", Number(1, 2))
           U == U32(secs, "sink", "timeout_s", 60)
           V == Bool(secs, "sink", "verbose", TRUE)
           made(e, f, t, u, v) ==
             [endpoint |-> e, frames |-> f, tol |-> t, timeout_s |-> u, verbose |-> v]
           all == {made(endpoint, frames, tol, timeout, verbose) :
                     endpoint \in E, frames \in F, tol \in T, timeout \in U, verbose \in V}
<1>a. SinkConf(secs) = IF HasSection(secs, "sink") /\ CheckKeys(secs, "sink", SinkKeys)
                       THEN {c \in all : ~AtMostZero(c.tol)} ELSE {}
  BY DEF SinkConf
<1>1. HasSection(secs, "sink") /\ CheckKeys(secs, "sink", SinkKeys) /\ conf \in all
  <2> HIDE DEF all
  <2> QED BY <1>a
<1>2. PICK e \in E, f \in F, t \in T, u \in U, v \in V : conf = made(e, f, t, u, v)
  <2> HIDE DEF made, E, F, T, U, V
  <2> QED BY <1>1
<1>b. /\ conf.endpoint = e /\ conf.frames = f /\ conf.tol = t /\ conf.timeout_s = u
      /\ conf.verbose = v
  <2> HIDE DEF E, F, T, U, V
  <2> QED BY <1>2
<1>3. e \in Value \cup {DefaultEndpoint} /\ f \in Nat /\ u \in Nat
  <2>2. e \in Value \cup {DefaultEndpoint}
    BY StrType
  <2>3. f \in Nat /\ u \in Nat
    BY LookupTypes
  <2> QED BY <2>2, <2>3
<1>4. v \in BOOLEAN
  BY LookupTypes, Zenon
<1>5. t \in NumberType
  <2>1. Number(1, 2) \in NumberType
    BY ConstructedValues
  <2> QED BY <2>1, LookupTypes
<1>6. conf \in Conf
  <2> HIDE DEF E, F, T, U, V
  <2> QED BY <1>2, <1>3, <1>4, <1>5, Zenon DEF Conf, NumberType
<1>7. conf.endpoint \in E /\ conf.frames \in F /\ conf.tol \in T /\ conf.timeout_s \in U
  <2> HIDE DEF E, F, T, U, V
  <2> QED BY <1>b
<1>8. conf.verbose \in V
  <2> HIDE DEF E, F, T, U, V
  <2> QED BY <1>b, Zenon
<1> HIDE DEF all, made
<1> QED BY <1>1, <1>6, <1>7, <1>8, Zenon

-----------------------------------------------------------------------------
(***************************************************************************)
(* What is made of a section is what the file says under its header.       *)
(***************************************************************************)
LEMMA BackendSays ==
  ASSUME WellRead, NEW h \in Headers, NEW name \in BackendName(ini, file[h].name),
         name \in Backends
  PROVE  Says(h, "backend", Empty) = Name(name)
<1>1. PICK v \in Str(ini, file[h].name, "backend", Name("missing")) :
        name = IF v.kind = "word" /\ v.word \in Backends THEN v.word ELSE "unknown"
  BY DEF BackendName
<1>2. v = Says(h, "backend", Name("missing"))
  BY StrSays
<1>3. v.kind = "word" /\ name = v.word
  BY <1>1 DEF Backends
<1>4. v # Name("missing")
  <2>1. Name("missing").word = "missing"
    BY DEF Name
  <2> QED BY <1>3, <2>1 DEF Backends
<1>5. v \in Value /\ \A def : Says(h, "backend", def) = v
  BY <1>2, <1>4, SaysLookup
<1> QED BY <1>3, <1>5, ValueFields

LEMMA GridSays ==
  ASSUME WellRead, NEW h \in Headers, NEW key, NEW def,
         NEW g \in GridOf(ini, file[h].name, key, def)
  PROVE  MeansGrid(Says(h, key, def), g.rows, g.cols)
<1> PICK v : v = Says(h, key, def)
  OBVIOUS
<1>1. PICK w \in Str(ini, file[h].name, key, def) : g \in ParseGrid(w)
  BY DEF GridOf
<1>2. w = v
  BY <1>1, StrSays
<1>3. g = [rows |-> Side(v.r), cols |-> Side(v.c)]
  BY <1>1, <1>2 DEF ParseGrid
<1>4. ASSUME NEW x \in 0 .. Word - 1 PROVE Side(x) = x
  <2> PICK l \in Nat, w2 \in Nat : l = Long /\ w2 = Word /\ w2 < l
    BY IniAssumption
  <2>1. x \in Nat /\ x < w2 /\ x < l
    BY IniAssumption
  <2>2. x % l = x /\ x % w2 = x
    BY <2>1, Z3
  <2>3. x \in 1 - l .. l - 1
    BY <2>1
  <2> QED BY <2>2, <2>3 DEF Side, Unsigned
<1> QED BY <1>3, <1>4 DEF MeansGrid

\* The rounding of mock_ctx_create.
LEMMA PeriodRounded ==
  ASSUME NEW fps \in NumberType, MockPeriod(fps) > 0
  PROVE  LET period == ExpectedPeriod(fps)
         IN  /\ period.n * fps.n = Second * fps.d * period.d
             /\ MockPeriod(fps) * period.d <= period.n
             /\ period.n < (MockPeriod(fps) + 1) * period.d
<1> PICK a \in Int, b \in Nat, s \in Nat : a = fps.n /\ b = fps.d /\ s = Second
  BY ConfigAssumption DEF NumberType
<1>1. a > 0 /\ b > 0
  BY DEF MockPeriod
<1> DEFINE p == s * b
           q == p \div a
<1>2. p \in Nat
  OBVIOUS
<1>3. ExpectedPeriod(fps).n = p /\ ExpectedPeriod(fps).d = a /\ MockPeriod(fps) = q
  BY <1>1 DEF ExpectedPeriod, MockPeriod
<1>4. q * a <= p /\ p < (q + 1) * a
  <2> HIDE DEF p
  <2> QED BY <1>1, <1>2, Z3
<1>5. p * a = s * b * a
  OBVIOUS
<1> HIDE DEF p, q
<1> QED BY <1>3, <1>4, <1>5

\* The settings a mock and a webcam are created with.
LEMMA MockIsSaid ==
  ASSUME WellRead, NEW h \in Headers, NEW conf \in MockFromIni(ini, file[h].name)
  PROVE  /\ {file[k].key : k \in Settings(h)} \subseteq MockKeys
         /\ MeansGrid(Says(h, "grid", DefaultGrid), conf.rows, conf.cols)
         /\ Means(Says(h, "sites", Number(256, 1)), conf.sites)
         /\ \E fps \in NumberType :
              /\ fps = Says(h, "fps", DefaultFps)
              /\ conf.period = MockPeriod(fps) /\ MockPeriod(fps) > 0
<1> PICK s : s = file[h].name
  OBVIOUS
<1>1. CheckKeys(ini, s, MockKeys)
  BY MockMade
<1>2. PICK grid \in GridOf(ini, s, "grid", DefaultGrid),
           sites \in U32(ini, s, "sites", 256),
           fps \in F64(ini, s, "fps", DefaultFps) :
             /\ conf = [backend |-> "mock", rows |-> grid.rows, cols |-> grid.cols,
                        sites |-> sites, period |-> MockPeriod(fps)]
             /\ MockPeriod(fps) > 0
  BY MockMade
<1>3. /\ conf.rows = grid.rows /\ conf.cols = grid.cols /\ conf.sites = sites
      /\ conf.period = MockPeriod(fps)
  BY <1>2
<1>4. {file[k].key : k \in Settings(h)} \subseteq MockKeys
  BY <1>1, KeysChecked DEF WellRead
<1>5. MeansGrid(Says(h, "grid", DefaultGrid), grid.rows, grid.cols)
  BY GridSays
<1>6. Means(Says(h, "sites", Number(256, 1)), sites)
  BY U32Says
<1>7. fps = Says(h, "fps", DefaultFps)
  BY F64Says
<1>8. fps \in NumberType
  BY DefaultTypes, LookupTypes DEF WellRead
<1> QED BY <1>2, <1>3, <1>4, <1>5, <1>6, <1>7, <1>8

LEMMA WebcamIsSaid ==
  ASSUME WellRead, NEW h \in Headers, NEW conf \in V4l2FromIni(ini, file[h].name)
  PROVE  /\ {file[k].key : k \in Settings(h)} \subseteq WebcamKeys
         /\ MeansGrid(Says(h, "grid", DefaultGrid), conf.rows, conf.cols)
         /\ MeansGrid(Says(h, "resolution", Grid(480, 640)), conf.height, conf.width)
         /\ Means(Says(h, "threshold", Number(32, 1)), conf.threshold)
         /\ Means(Says(h, "buffers", Number(4, 1)), conf.buffers)
         /\ Means(Says(h, "timeout_ms", Number(2000, 1)), conf.timeout_ms)
         /\ conf.device = Says(h, "device", DefaultDevice)
<1> PICK s : s = file[h].name
  OBVIOUS
<1>1. CheckKeys(ini, s, WebcamKeys)
  BY WebcamMade
<1>2. PICK device \in Str(ini, s, "device", DefaultDevice),
           res \in GridOf(ini, s, "resolution", Grid(480, 640)),
           grid \in GridOf(ini, s, "grid", DefaultGrid),
           threshold \in U32(ini, s, "threshold", 32),
           buffers \in U32(ini, s, "buffers", 4),
           timeout \in U32(ini, s, "timeout_ms", 2000) :
             conf = [backend |-> "v4l2", rows |-> grid.rows, cols |-> grid.cols,
                     height |-> res.rows, width |-> res.cols, threshold |-> threshold,
                     buffers |-> buffers, timeout_ms |-> timeout, device |-> device]
  BY WebcamMade
<1>3. /\ conf.rows = grid.rows /\ conf.cols = grid.cols
      /\ conf.height = res.rows /\ conf.width = res.cols
      /\ conf.threshold = threshold /\ conf.buffers = buffers
      /\ conf.timeout_ms = timeout /\ conf.device = device
  BY <1>2
<1>4. {file[k].key : k \in Settings(h)} \subseteq WebcamKeys
  BY <1>1, KeysChecked DEF WellRead
<1>5. /\ MeansGrid(Says(h, "grid", DefaultGrid), grid.rows, grid.cols)
      /\ MeansGrid(Says(h, "resolution", Grid(480, 640)), res.rows, res.cols)
  BY GridSays
<1>6. /\ Means(Says(h, "threshold", Number(32, 1)), threshold)
      /\ Means(Says(h, "buffers", Number(4, 1)), buffers)
      /\ Means(Says(h, "timeout_ms", Number(2000, 1)), timeout)
  BY U32Says
<1>7. device = Says(h, "device", DefaultDevice)
  BY StrSays
<1> QED BY <1>3, <1>4, <1>5, <1>6, <1>7

LEMMA MadeIsSaid ==
  ASSUME WellRead, NEW h \in Headers, NEW c, CameraMade(c, h)
  PROVE  CameraSaid(c, h)
<1> DEFINE conf == backends[c]
           fps  == Says(h, "fps", DefaultFps)
<1>1. ini \in Sections /\ BuiltFrom(conf, h) /\ conf.backend \in {"mock", "v4l2"}
      /\ SitesOf(conf) % Word = SitesOf(conf)
  BY BuiltType DEF WellRead, CameraMade
<1>2. capacity[c] = SitesOf(conf) /\ specs[c] \in SpecsOf(file[h].name, conf)
  BY <1>1 DEF CameraMade
<1>3. PICK id \in IdOf(ini, file[h].name), f \in FpsOf(ini, file[h].name) :
        specs[c] = [camera_id |-> id, max_sites |-> SitesOf(conf),
                    expect_period |-> ExpectedPeriod(f)]
  BY <1>1, <1>2, SpecType
<1>4. f = fps /\ f \in NumberType
  BY <1>1, F64Says, LookupTypes, DefaultTypes DEF FpsOf
<1>5. Name(conf.backend) = Says(h, "backend", Empty)
  BY <1>1, BackendSays DEF BuiltFrom
<1>6. /\ conf.backend = "mock" => conf \in MockFromIni(ini, file[h].name)
      /\ conf.backend = "v4l2" => conf \in V4l2FromIni(ini, file[h].name)
  BY <1>1, BuiltType
<1>7. /\ {file[k].key : k \in Settings(h)} \subseteq KeysOf(conf.backend)
      /\ MeansGrid(Says(h, "grid", DefaultGrid), conf.rows, conf.cols)
  <2>1. CASE conf.backend = "mock"
    <3> HIDE DEF conf
    <3> QED BY <1>6, <2>1, MockIsSaid DEF KeysOf
  <2>2. CASE conf.backend = "v4l2"
    <3> HIDE DEF conf
    <3> QED BY <1>6, <2>2, WebcamIsSaid DEF KeysOf
  <2> QED BY <1>1, <2>1, <2>2
<1>8. Means(Says(h, "id", Number(0, 1)), specs[c].camera_id)
  BY <1>3, U32Says DEF IdOf
<1>9. specs[c].max_sites = capacity[c] /\ specs[c].expect_period = ExpectedPeriod(f)
  BY <1>2, <1>3
<1>10. ASSUME fps.n > 0
       PROVE  specs[c].expect_period.n * fps.n
                = Second * fps.d * specs[c].expect_period.d
  <2> HIDE DEF fps
  <2>1. PICK a \in Int, b \in Nat, k \in Nat : a = f.n /\ b = f.d /\ k = Second
    BY <1>4, ConfigAssumption DEF NumberType
  <2>2. ExpectedPeriod(f) = [n |-> k * b, d |-> a]
    BY <1>4, <1>10, <2>1 DEF ExpectedPeriod
  <2>3. specs[c].expect_period.n = k * b /\ specs[c].expect_period.d = a
    BY <1>9, <2>2
  <2> QED BY <1>4, <2>1, <2>3
<1>11. ASSUME fps.n <= 0 PROVE specs[c].expect_period = NoPeriod
  <2> HIDE DEF fps
  <2>1. f.n \in Int /\ ~(f.n > 0)
    BY <1>4, <1>11 DEF NumberType
  <2> QED BY <1>9, <2>1 DEF ExpectedPeriod
<1>12. ASSUME conf.backend = "mock" PROVE MockSaid(c, h)
  <2>1. PICK x \in NumberType :
               x = fps /\ conf.period = MockPeriod(x) /\ MockPeriod(x) > 0
    BY <1>6, <1>12, MockIsSaid
  <2>2. Means(Says(h, "sites", Number(256, 1)), conf.sites)
    BY <1>6, <1>12, MockIsSaid
  <2>3. /\ conf.period * specs[c].expect_period.d <= specs[c].expect_period.n
        /\ specs[c].expect_period.n < (conf.period + 1) * specs[c].expect_period.d
    <3> HIDE DEF conf, fps
    <3> QED BY <1>4, <1>9, <2>1, PeriodRounded
  <2> QED BY <2>2, <2>3 DEF MockSaid
<1>13. ASSUME conf.backend = "v4l2" PROVE WebcamSaid(c, h)
  <2> QED BY <1>6, <1>13, WebcamIsSaid DEF WebcamSaid
<1> QED BY <1>2, <1>5, <1>7, <1>8, <1>9, <1>10, <1>11, <1>12, <1>13 DEF CameraSaid

LEMMA SinkIsSaid ==
  ASSUME WellRead, sc \in SinkConf(ini)
  PROVE  \E h \in Headers : file[h].name = "sink" /\ SinkSaid(h)
<1>1. ini \in Sections
  BY DEF WellRead
<1>2. /\ HasSection(ini, "sink") /\ CheckKeys(ini, "sink", SinkKeys)
      /\ sc.endpoint \in Str(ini, "sink", "endpoint", DefaultEndpoint)
      /\ sc.frames \in U32(ini, "sink", "frames", 100)
      /\ sc.tol \in F64(ini, "sink", "tol", Number(1, 2))
      /\ sc.timeout_s \in U32(ini, "sink", "timeout_s", 60)
  BY <1>1, SinkConfIs
<1>3. PICK h \in Headers : file[h].name = "sink"
  BY <1>2, SectionsAreHeaders DEF WellRead
<1>4. {file[k].key : k \in Settings(h)} \subseteq SinkKeys
  BY <1>2, <1>3, KeysChecked DEF WellRead
<1>5. sc.tol = Says(h, "tol", Number(1, 2))
  BY <1>2, <1>3, F64Says
<1>6. /\ Means(Says(h, "frames", Number(100, 1)), sc.frames)
      /\ Means(Says(h, "timeout_s", Number(60, 1)), sc.timeout_s)
  BY <1>2, <1>3, U32Says
<1>7. sc.endpoint = Says(h, "endpoint", DefaultEndpoint)
  BY <1>2, <1>3, StrSays
<1>8. sc.verbose <=> (Says(h, "verbose", Name("true")) \in Yes)
  <2>1. sc.verbose \in Bool(ini, file[h].name, "verbose", TRUE)
    BY <1>1, <1>3, SinkConfIs, Zenon
  <2> QED BY <2>1, BoolSays
<1>9. SinkSaid(h)
  BY <1>4, <1>5, <1>6, <1>7, <1>8, Zenon DEF SinkSaid
<1> QED BY <1>3, <1>9

-----------------------------------------------------------------------------
(***************************************************************************)
(* The cameras that are done, in the order of their headers.               *)
(***************************************************************************)
LEMMA CamsAreLines ==
  ASSUME LinesRead
  PROVE  /\ Cams \in SUBSET Headers /\ Cams \in SUBSET Nat /\ IsFiniteSet(Cams)
         /\ Done \in SUBSET Cams /\ Done \in SUBSET Nat /\ IsFiniteSet(Done)
         /\ Cardinality(Done) \in Nat
<1>1. Headers \in SUBSET Nat /\ IsFiniteSet(Headers)
  BY SetsOfLines
<1>2. Cams \in SUBSET Headers /\ Done \in SUBSET Cams
  BY DEF Cams, Done
<1>3. IsFiniteSet(Cams) /\ Cams \in SUBSET Nat
  BY <1>1, <1>2, FS_Subset
<1>4. IsFiniteSet(Done) /\ Done \in SUBSET Nat
  BY <1>2, <1>3, FS_Subset
<1> QED BY <1>2, <1>3, <1>4, FS_CardinalityType

\* The headers with the places below that of a header are those before it.
LEMMA PlacesFollowLines ==
  ASSUME LinesRead, NEW g \in Headers, NEW h \in Headers
  PROVE  /\ g <= h <=> Place(g, Headers) <= Place(h, Headers)
         /\ g < h <=> Place(g, Headers) < Place(h, Headers)
         /\ Place(g, Headers) \in Nat /\ g \in Nat
<1>1. Headers \in SUBSET Nat /\ IsFiniteSet(Headers) /\ g \in Nat /\ h \in Nat
  BY SetsOfLines
<1>2. Place(g, Headers) \in Nat /\ Place(h, Headers) \in Nat
  BY <1>1, PlaceInRange, FS_CardinalityType
<1>3. g < h => Place(g, Headers) < Place(h, Headers)
  BY <1>1, PlaceAscends
<1>4. h < g => Place(h, Headers) < Place(g, Headers)
  BY <1>1, PlaceAscends
<1>5. g = h => Place(g, Headers) = Place(h, Headers)
  OBVIOUS
<1> QED BY <1>1, <1>2, <1>3, <1>4, <1>5

LEMMA DonePlaces ==
  ASSUME LinesRead, section \in Nat, NEW h \in Done
  PROVE  Place(h, Cams) = Place(h, Done) /\ Place(h, Cams) \in 1 .. Cardinality(Done)
<1>1. \A g \in Cams : g <= h => g \in Done
  <2> SUFFICES ASSUME NEW g \in Cams, g <= h PROVE g \in Done
    OBVIOUS
  <2>1. g \in Headers /\ h \in Headers /\ Place(h, Headers) < section
    BY CamsAreLines DEF Done
  <2>2. Place(g, Headers) <= Place(h, Headers) /\ Place(g, Headers) \in Nat
        /\ Place(h, Headers) \in Nat
    BY <2>1, PlacesFollowLines
  <2>3. Place(g, Headers) < section
    BY <2>1, <2>2
  <2> QED BY <2>3 DEF Done
<1>2. {g \in Cams : g <= h} = {g \in Done : g <= h}
  BY <1>1, CamsAreLines
<1>3. Place(h, Done) \in 1 .. Cardinality(Done)
  BY CamsAreLines, PlaceInRange
<1> QED BY <1>2, <1>3 DEF Place

\* After section i come those of the header with place i, if it is switched on.
LEMMA NextSection ==
  ASSUME LinesRead, section \in Nat, NEW h \in Headers, Place(h, Headers) = section
  PROVE  LET after == {g \in Cams : Place(g, Headers) < section + 1}
         IN  /\ h \notin Cams => after = Done
             /\ h \in Cams => /\ after = Done \cup {h} /\ h \notin Done
                              /\ Cardinality(after) = Cardinality(Done) + 1
                              /\ Place(h, Cams) = Cardinality(Done) + 1
<1> DEFINE after == {g \in Cams : Place(g, Headers) < section + 1}
<1>1. Headers \in SUBSET Nat /\ IsFiniteSet(Headers) /\ Cams \in SUBSET Headers
      /\ h \in Nat
  BY SetsOfLines, CamsAreLines
<1>2. \A g \in Cams : Place(g, Headers) \in Nat
  BY <1>1, PlacesFollowLines
<1>3. h \notin Done
  BY DEF Done
<1>4. \A g \in Cams : Place(g, Headers) = section => g = h
  BY <1>1, PlaceIsOneToOne
<1>5. \A g \in Cams : Place(g, Headers) < section + 1 <=> (g \in Done \/ g = h)
  <2> SUFFICES ASSUME NEW g \in Cams
      PROVE  Place(g, Headers) < section + 1 <=> (g \in Done \/ g = h)
    OBVIOUS
  <2>1. Place(g, Headers) < section + 1 <=>
          (Place(g, Headers) < section \/ Place(g, Headers) = section)
    BY <1>2
  <2> QED BY <2>1, <1>4 DEF Done
<1>6. \A g \in Done : g < h
  <2> SUFFICES ASSUME NEW g \in Done PROVE g < h
    OBVIOUS
  <2>1. g \in Headers /\ Place(g, Headers) < Place(h, Headers)
    BY CamsAreLines DEF Done
  <2> QED BY <2>1, PlacesFollowLines
<1>7. Done \in SUBSET Cams
  BY CamsAreLines
<1>8. h \notin Cams => after = Done
  BY <1>5, <1>7
<1>9. ASSUME h \in Cams
      PROVE  /\ after = Done \cup {h}
             /\ Cardinality(after) = Cardinality(Done) + 1
             /\ Place(h, Cams) = Cardinality(Done) + 1
  <2>1. after = Done \cup {h}
    BY <1>5, <1>7, <1>9
  <2>2. /\ Cardinality(Done \cup {h}) = Cardinality(Done) + 1
        /\ Place(h, Done \cup {h}) = Cardinality(Done) + 1
    BY <1>1, <1>6, CamsAreLines, PlaceOfNext
  <2>3. {g \in Cams : g <= h} = {g \in Done \cup {h} : g <= h}
    <3>1. \A g \in Cams : g <= h => g \in Done \cup {h}
      <4> SUFFICES ASSUME NEW g \in Cams, g <= h PROVE g \in Done \cup {h}
        OBVIOUS
      <4>1. Place(g, Headers) <= Place(h, Headers)
        BY <1>1, PlacesFollowLines
      <4>2. Place(g, Headers) < section + 1
        BY <1>2, <4>1
      <4> QED BY <4>2, <1>5
    <3> QED BY <3>1, <1>7, <1>9
  <2>4. Place(h, Cams) = Place(h, Done \cup {h})
    BY <2>3 DEF Place
  <2> QED BY <2>1, <2>2, <2>4
<1> QED BY <1>3, <1>8, <1>9

\* The loop of build_cameras is at the section of one header.
LEMMA HeaderInWork ==
  ASSUME WellRead, section \in Nat \ {0}, section <= Len(ini)
  PROVE  \E h \in Headers : Place(h, Headers) = section /\ Current = file[h].name
<1>1. section \in 1 .. Len(ini)
  BY LenProperties DEF WellRead, Sections
<1>2. PICK h \in Headers : Place(h, Headers) = section
  BY <1>1, SectionsAreHeaders DEF WellRead
<1>3. ini[Place(h, Headers)].name = file[h].name
  BY SectionsAreHeaders DEF WellRead
<1> QED BY <1>2, <1>3 DEF Current

-----------------------------------------------------------------------------
(***************************************************************************)
(* What the steps leave alone.                                             *)
(***************************************************************************)
LEMMA LinesKept ==
  ASSUME file' = file, lineno' = lineno
  PROVE  /\ Headers' = Headers
         /\ \A h : On(h)' <=> On(h)
         /\ Cams' = Cams
<1>1. Headers' = Headers /\ \A h : Settings(h)' = Settings(h)
  BY DEF Headers, Settings, Pairs, HeaderOf, HeadersBefore
<1>2. ASSUME NEW h, NEW key, NEW def PROVE Says(h, key, def)' = Says(h, key, def)
  <2> DEFINE at == {k \in Settings(h) : file[k].key = key}
  <2>1. at' = at
    BY <1>1
  <2>2. Says(h, key, def) = IF at = {} THEN def ELSE file[CHOOSE k \in at : TRUE].value
    BY DEF Says
  <2>3. Says(h, key, def)' = IF at' = {} THEN def ELSE file'[CHOOSE k \in at' : TRUE].value
    BY DEF Says
  <2> HIDE DEF at
  <2> QED BY <2>1, <2>2, <2>3
<1>3. \A h : On(h)' <=> On(h)
  BY <1>2 DEF On
<1>4. Cams' = Cams
  BY <1>1, <1>3 DEF Cams
<1> QED BY <1>1, <1>3, <1>4

LEMMA SpecsKept ==
  ASSUME NEW c, NEW h, file' = file, ini' = ini, backends'[c] = backends[c]
  PROVE  SpecsOf(file[h].name, backends[c])' = SpecsOf(file[h].name, backends[c])
<1> DEFINE all(secs, s, conf) ==
             {[camera_id |-> id, max_sites |-> SitesOf(conf) % Word,
               expect_period |-> ExpectedPeriod(fps)] :
                id \in IdOf(secs, s), fps \in FpsOf(secs, s)}
<1>1. SpecsOf(file[h].name, backends[c]) = all(ini, file[h].name, backends[c])
  BY DEF SpecsOf
<1>2. SpecsOf(file[h].name, backends[c])' = all(ini', file'[h].name, backends'[c])
  BY DEF SpecsOf
<1> HIDE DEF all
<1> QED BY <1>1, <1>2

LEMMA MadeAgain ==
  ASSUME NEW c, NEW h, CameraMade(c, h), file' = file, ini' = ini,
         backends'[c] = backends[c], capacity'[c] = capacity[c], specs'[c] = specs[c]
  PROVE  CameraMade(c, h)'
<1>1. BuiltFrom(backends[c], h)'
  BY DEF CameraMade, BuiltFrom
<1>2. specs'[c] \in SpecsOf(file[h].name, backends[c])'
  BY SpecsKept DEF CameraMade
<1> QED BY <1>1, <1>2 DEF CameraMade

LEMMA WorkKept ==
  ASSUME NEW h, CameraInWork(h), UNCHANGED <<file, lineno, ini, section, n, specs>>,
         backends'[New] = backends[New], capacity'[New] = capacity[New],
         pc' \in {"scratch", "socket", "connect", "init"}
           => pc \in {"scratch", "socket", "connect", "init"}
  PROVE  CameraInWork(h)'
<1>1. Headers' = Headers /\ New' = New
  BY LinesKept DEF New
<1>2. BuiltFrom(backends[New], h)'
  BY <1>1 DEF CameraInWork, BuiltFrom
<1>3. \A id : Duplicate(id)' <=> Duplicate(id)
  BY DEF Duplicate
<1>4. Place(h, Headers)' = section'
  BY <1>1 DEF CameraInWork
<1> QED BY <1>1, <1>2, <1>3, <1>4 DEF CameraInWork

\* A step that changes nothing of the table and goes where no more is said.
LEMMA TableKept ==
  ASSUME TableInv, UNCHANGED <<file, lineno, ini, sc, section, n, specs, backends, capacity>>,
         pc' \in Configured => pc \in Configured,
         pc' \in Loading => pc \in Loading,
         pc' \in Building => pc \in Building,
         pc' \in Filling => pc \in Filling,
         pc' \in {"scratch", "socket", "connect", "init"}
           => pc \in {"scratch", "socket", "connect", "init"},
         pc' \in {"expect", "run"} => section > Len(ini)
  PROVE  TableInv'
<1>1. Cams' = Cams /\ Headers' = Headers
  BY LinesKept
<1>2. Done' = Done
  BY <1>1 DEF Done
<1>3. ASSUME pc' \in Building
      PROVE  n' = Cardinality(Done') /\ IdsDiffer' /\ \A h \in Done' : CameraMade(Place(h, Cams), h)'
  <2>1. n' = Cardinality(Done') /\ IdsDiffer'
    BY <1>2, <1>3 DEF TableInv, IdsDiffer
  <2>2. ASSUME NEW h \in Done' PROVE CameraMade(Place(h, Cams), h)'
    <3> PICK c : c = Place(h, Cams)
      OBVIOUS
    <3>1. CameraMade(c, h)
      BY <1>2, <1>3, <2>2 DEF TableInv
    <3>2. CameraMade(c, h)'
      BY <3>1, MadeAgain
    <3>3. Place(h, Cams)' = c
      BY <1>1
    <3> QED BY <3>2, <3>3 DEF CameraMade
  <2> QED BY <2>1, <2>2
<1>4. ASSUME pc' \in Filling PROVE \E h \in Cams' : CameraInWork(h)'
  <2>1. PICK h \in Cams : CameraInWork(h)
    BY <1>4 DEF TableInv
  <2>2. CameraInWork(h)'
    BY <2>1, WorkKept
  <2> QED BY <1>1, <2>2
<1>5. /\ pc' \in Configured => sc' \in SinkConf(ini')
      /\ pc' \in Loading => section' = 1
      /\ pc' \in {"expect", "run"} => section' > Len(ini')
  BY DEF TableInv
<1> QED BY <1>3, <1>4, <1>5 DEF TableInv

\* Before build_cameras only the file and its settings are said anything of,
\* and after it nothing.
LEMMA TableAbsent ==
  ASSUME pc' \notin Building, pc' \in Loading => section' = 1,
         pc' \in Configured => sc' \in SinkConf(ini')
  PROVE  TableInv'
BY DEF TableInv, Building

LEMMA TypesKept ==
  ASSUME Types, UNCHANGED <<file, sc, tableVars, loopVars, ran>>, code' \in 0 .. 2
  PROVE  Types'
BY DEF Types, tableVars, loopVars

LEMMA InitTable == Init => Types /\ TableInv
<1> SUFFICES ASSUME Init PROVE Types /\ TableInv
  OBVIOUS
<1>1. sc \in Conf
  BY DEF Init, NoConf, Number, Conf
<1>2. specs \in Seq(EntryType) /\ Len(specs) = n
  BY EmptySeq DEF Init
<1>3. backends \in [Slots -> Backend] /\ capacity \in [Slots -> Nat]
  BY DEF Init, Backend
<1>4. Types
  <2>1. file \in Files /\ section \in 1 .. MaxSections + 1
    BY IniAssumption DEF Init
  <2>2. slot \in 0 .. MaxCameras + 1 /\ scope \in 0 .. MaxCameras /\ code \in 0 .. 2
    BY StartupAssumption DEF Init
  <2>3. ran \in BOOLEAN
    BY DEF Init
  <2> QED BY <1>1, <1>2, <1>3, <2>1, <2>2, <2>3 DEF Types
<1>5. TableInv
  BY DEF Init, TableInv, Configured, Loading, Building, Filling
<1> QED BY <1>4, <1>5

-----------------------------------------------------------------------------
(***************************************************************************)
(* The steps of main around build_cameras.                                 *)
(***************************************************************************)
KnownInv == StartupInv /\ ReaderInv /\ Types /\ TableInv

LEMMA ReadWell ==
  ASSUME ReaderInv, pc \notin {"fail", "exit"}
  PROVE  WellRead /\ Len(ini) \in 0 .. MaxSections
<1>1. WellRead
  BY DEF ReaderInv, WellRead, AllFit
<1>2. Len(ini) \in Nat
  BY LenProperties DEF ReaderInv, Sections
<1> QED BY <1>1, <1>2, IniAssumption DEF ReaderInv

LEMMA LoadStepsTable ==
  ASSUME KnownInv,
         \/ IniOpen \/ IniAlloc \/ ReadLine \/ ReadNoMore \/ ReadFails \/ LoadSinkConf
         \/ SinkNew \/ SinkFrame \/ SinkCtx \/ SinkSocket \/ SinkBind
  PROVE  Types' /\ TableInv'
<1> USE DEF Loading, Building, Filling, Configured, GoTo
<1>1. Types /\ TableInv /\ code \in 0 .. 2 /\ sc \in Conf
  BY DEF KnownInv, Types
<1>2. CASE IniOpen \/ IniAlloc \/ ReadLine \/ ReadNoMore \/ ReadFails
  <2>1. /\ pc \in {"open", "alloc", "read", "fail"} /\ pc' \in {"exit", "alloc", "read", "fail", "conf"}
        /\ UNCHANGED <<file, sc, tableVars, loopVars, ran>> /\ code' \in 0 .. 2
    BY <1>1, <1>2 DEF IniOpen, Step, IniAlloc, ReadLine, ReadNoMore, ReadFails, fileVars
  <2>2. section' = 1
    BY <1>1, <2>1 DEF TableInv, tableVars
  <2> QED BY <1>1, <2>1, <2>2, TypesKept, TableAbsent
<1>3. CASE LoadSinkConf
  <2>1. /\ pc = "conf" /\ UNCHANGED <<file, ini, tableVars, loopVars, ran>> /\ code' \in 0 .. 2
        /\ \/ pc' = "sink" /\ sc' \in SinkConf(ini)
           \/ pc' = "ini_free" /\ sc' = sc
    BY <1>1, <1>3 DEF LoadSinkConf
  <2>2. ini \in Sections
    BY DEF KnownInv, ReaderInv
  <2>3. sc' \in Conf
    BY <1>1, <2>1, <2>2, SinkConfIs
  <2>4. Types'
    BY <1>1, <2>1, <2>3 DEF Types, tableVars, loopVars
  <2>5. section' = 1
    BY <1>1, <2>1 DEF TableInv, tableVars
  <2> QED BY <2>1, <2>4, <2>5, TableAbsent
<1>4. CASE SinkNew \/ SinkFrame \/ SinkCtx \/ SinkSocket \/ SinkBind
  <2>1. /\ pc \in {"sink", "sink_frame", "sink_ctx", "sink_socket", "sink_bind"}
        /\ pc' \in {"sink_frame", "sink_ctx", "sink_socket", "sink_bind", "ctx",
                    "ini_free", "sink_close"}
        /\ UNCHANGED <<fileVars, tableVars, loopVars, ran>> /\ code' \in 0 .. 2
    BY <1>1, <1>4 DEF SinkNew, SinkFrame, SinkCtx, SinkSocket, SinkBind, Step
  <2>2. section' = 1 /\ sc' \in SinkConf(ini')
    BY <1>1, <2>1 DEF TableInv, tableVars, fileVars
  <2>3. Types'
    BY <1>1, <2>1, TypesKept DEF fileVars
  <2> QED BY <2>1, <2>2, <2>3, TableAbsent
<1> QED BY <1>2, <1>3, <1>4

\* The shared context, and build_cameras begins: no camera is done.
LEMMA ContextTable ==
  ASSUME KnownInv, ZmqCtxNew
  PROVE  Types' /\ TableInv'
<1> USE DEF Loading, Building, Filling, Configured, GoTo
<1>1. Types /\ TableInv /\ code \in 0 .. 2
  BY DEF KnownInv, Types
<1>2. /\ pc = "ctx" /\ pc' \in {"build", "sink_close"}
      /\ UNCHANGED <<fileVars, tableVars, loopVars, ran>> /\ code' \in 0 .. 2
  BY <1>1 DEF ZmqCtxNew, Step
<1>3. Types'
  BY <1>1, <1>2, TypesKept DEF fileVars
<1>4. section = 1 /\ section' = 1 /\ sc' \in SinkConf(ini') /\ n = 0 /\ n' = 0
  BY <1>1, <1>2 DEF TableInv, tableVars, fileVars, KnownInv, StartupInv, Counters
<1>5. Done' = {}
  <2>1. LinesRead
    BY DEF KnownInv, ReaderInv
  <2>2. Cams' = Cams /\ Headers' = Headers /\ Cams \subseteq Headers
    BY <1>2, <2>1, LinesKept, CamsAreLines DEF fileVars
  <2>3. \A h \in Headers : ~(Place(h, Headers) < 1)
    BY <2>1, SetsOfLines, PlaceInRange, FS_CardinalityType
  <2> QED BY <1>4, <2>2, <2>3 DEF Done
<1>6. ASSUME pc' = "build" PROVE TableInv'
  <2>1. n' = Cardinality(Done') /\ IdsDiffer'
    BY <1>4, <1>5, FS_EmptySet DEF IdsDiffer
  <2> QED BY <1>4, <1>5, <1>6, <2>1 DEF TableInv
<1>7. ASSUME pc' = "sink_close" PROVE TableInv'
  BY <1>7, TableAbsent
<1> QED BY <1>2, <1>3, <1>6, <1>7

\* What goes on to the release of the table leaves nothing to say of it.
LEMMA FailureTable ==
  ASSUME Types, BuildFails \/ CameraNewFails \/ UNCHANGED <<loopVars, code>>,
         UNCHANGED <<file, sc, ran>>,
         section' \in 1 .. MaxSections + 1, specs' \in Seq(EntryType) /\ Len(specs') = n',
         backends' \in [Slots -> Backend], capacity' \in [Slots -> Nat]
  PROVE  Types' /\ (BuildFails \/ CameraNewFails => TableInv')
<1>1. Types'
  <2>1. slot' \in 0 .. MaxCameras + 1 /\ scope' \in 0 .. MaxCameras /\ code' \in 0 .. 2
    <3>1. CASE BuildFails \/ CameraNewFails
      BY <3>1, StartupAssumption DEF BuildFails, CameraNewFails, FailureScope
    <3>2. CASE UNCHANGED <<loopVars, code>>
      BY <3>2 DEF Types, loopVars
    <3> QED BY <3>1, <3>2
  <2> QED BY <2>1 DEF Types
<1>2. ASSUME BuildFails \/ CameraNewFails PROVE TableInv'
  <2>1. pc' \in {"cams_release", "deinit"}
    BY <1>2 DEF BuildFails, CameraNewFails, GoTo
  <2> QED BY <2>1, TableAbsent DEF Loading, Building, Filling, Configured
<1> QED BY <1>1, <1>2

LEMMA EndStepsTable ==
  ASSUME KnownInv, BuildRefuse \/ BuildDone \/ SinkExpect \/ Run
  PROVE  Types' /\ TableInv'
<1> USE DEF Loading, Building, Filling, Configured, GoTo
<1>1. /\ Types /\ TableInv /\ code \in 0 .. 2 /\ slot \in 0 .. MaxCameras + 1
      /\ scope \in 0 .. MaxCameras /\ n \in 0 .. MaxCameras /\ MaxCameras \in Nat
  BY StartupAssumption DEF KnownInv, Types, StartupInv, Counters
<1>2. CASE BuildRefuse
  <2>1. BuildFails /\ UNCHANGED <<fileVars, tableVars, held, ran>>
    BY <1>2 DEF BuildRefuse
  <2> QED BY <1>1, <2>1, FailureTable DEF Types, fileVars, tableVars
<1>3. CASE BuildDone
  <2>1. /\ pc = "build" /\ section > Len(ini) /\ pc' \in {"expect", "ctx_destroy"}
        /\ UNCHANGED <<fileVars, tableVars, loopVars, ran>> /\ code' \in 0 .. 2
    BY <1>1, <1>3 DEF BuildDone
  <2>2. Types'
    BY <1>1, <2>1, TypesKept DEF fileVars
  <2>3. TableInv'
    BY <1>1, <2>1, TableKept DEF fileVars, tableVars
  <2> QED BY <2>2, <2>3
<1>4. CASE SinkExpect \/ Run
  <2>1. /\ pc \in {"expect", "run"} /\ pc' \in {"run", "cams_release"}
        /\ UNCHANGED <<fileVars, tableVars>> /\ code' \in 0 .. 2
        /\ pc' = "run" => pc = "expect"
    BY <1>1, <1>4 DEF SinkExpect, Run
  <2>a. slot' \in 0 .. MaxCameras + 1 /\ scope' \in 0 .. MaxCameras
    BY <1>1, <1>4 DEF SinkExpect, Run, loopVars
  <2>b. ran' \in BOOLEAN
    BY <1>1, <1>4 DEF SinkExpect, Run, Types
  <2>2. Types'
    BY <1>1, <2>1, <2>a, <2>b DEF Types, fileVars, tableVars
  <2>3. pc' = "run" => section > Len(ini)
    BY <1>1, <2>1 DEF TableInv
  <2>4. TableInv'
    BY <1>1, <2>1, <2>3, TableKept DEF fileVars, tableVars
  <2> QED BY <2>2, <2>4
<1> QED BY <1>2, <1>3, <1>4

LEMMA ReleaseStepsTable ==
  ASSUME KnownInv, Unwind
  PROVE  Types' /\ TableInv'
<1> USE DEF Loading, Building, Filling, Configured, GoTo, Unwind, Releasing, Deleting,
            CameraDeinit, CameraClose, CameraDelFrames, CameraFreeScratch, CameraDel,
            CtxDestroy, SinkClose, SinkCtxDestroy, SinkDelFrames, SinkFree, MainDel
<1>1. /\ Types /\ TableInv /\ code \in 0 .. 2 /\ MaxCameras \in Nat \ {0}
  BY StartupAssumption DEF KnownInv, Types
<1>2. TableInv'
  <2>1. pc' \in Deleting \cup {"impl_destroy", "ctx_destroy", "cams_release", "sink_close",
                             "sink_ctx_destroy", "sink_del_frames", "sink_free",
                             "ini_free", "exit"}
    BY DEF ReleaseCamera, ReleaseImpl, CameraFree, IniFree
  <2> QED BY <2>1, TableAbsent
<1>3. CASE ~(ReleaseImpl \/ CameraFree)
  <2>1. UNCHANGED <<file, sc, tableVars, loopVars, code, ran>>
    BY <1>3 DEF ReleaseCamera, IniFree, unwinding, fileVars
  <2> QED BY <1>1, <1>2, <2>1, TypesKept
<1>4. CASE ReleaseImpl
  <2>1. /\ pc = "impl_destroy" /\ slot' = slot + 1
        /\ UNCHANGED <<fileVars, section, n, specs, capacity, scope, code, ran>>
        /\ backends' = [backends EXCEPT ![slot] = NoBackend]
    BY <1>4 DEF ReleaseImpl
  <2>2. slot \in 1 .. scope + 1 /\ scope \in 0 .. MaxCameras /\ slot <= scope
    BY <2>1 DEF KnownInv, StartupInv, Counters
  <2>3. slot' \in 0 .. MaxCameras + 1
    BY <1>1, <2>1, <2>2
  <2>4. backends' \in [Slots -> Backend]
    BY <1>1, <2>1 DEF Types, Backend
  <2> QED BY <1>1, <1>2, <2>1, <2>3, <2>4 DEF Types, fileVars
<1>5. CASE CameraFree
  <2>1. slot' \in {1, slot} /\ UNCHANGED <<file, sc, tableVars, scope, code, ran>>
    BY <1>5 DEF CameraFree, fileVars
  <2>2. slot' \in 0 .. MaxCameras + 1
    BY <1>1, <2>1 DEF Types
  <2> QED BY <1>1, <1>2, <2>1, <2>2 DEF Types, tableVars
<1> QED BY <1>2, <1>3, <1>4, <1>5

-----------------------------------------------------------------------------
(***************************************************************************)
(* The steps of build_cameras itself.                                      *)
(***************************************************************************)
LEMMA SkipTable ==
  ASSUME KnownInv, BuildSkip
  PROVE  Types' /\ TableInv'
<1>1. /\ pc = "build" /\ section <= Len(ini) /\ Skipped(Current) /\ section' = section + 1
      /\ UNCHANGED <<pc, fileVars, n, specs, backends, capacity, loopVars, held, code, ran>>
  BY DEF BuildSkip, More
<1>2. /\ Types /\ TableInv /\ section \in 1 .. MaxSections + 1 /\ MaxSections \in Nat
      /\ WellRead /\ LinesRead /\ Len(ini) \in 0 .. MaxSections
  BY <1>1, ReadWell, IniAssumption DEF KnownInv, Types, WellRead
<1>3. PICK h \in Headers : Place(h, Headers) = section /\ Current = file[h].name
  BY <1>1, <1>2, HeaderInWork
<1>4. h \notin Cams
  <2>1. ~On(h)
    BY <1>1, <1>2, <1>3, EnabledSays DEF Skipped
  <2> QED BY <2>1 DEF Cams
<1>5. Cams' = Cams /\ Headers' = Headers
  BY <1>1, LinesKept DEF fileVars
<1>6. Done' = Done
  <2>0. section \in Nat
    BY <1>2
  <2>1. {g \in Cams : Place(g, Headers) < section + 1} = Done
    BY <1>2, <1>3, <1>4, <2>0, NextSection
  <2> QED BY <1>1, <1>5, <2>1 DEF Done
<1>7. Types'
  <2>1. section' \in 1 .. MaxSections + 1
    BY <1>1, <1>2
  <2> QED BY <1>1, <1>2, <2>1 DEF Types, fileVars, loopVars
<1>8. ASSUME NEW g \in Done' PROVE CameraMade(Place(g, Cams), g)'
  <2> PICK c : c = Place(g, Cams)
    OBVIOUS
  <2>1. CameraMade(c, g)
    BY <1>1, <1>2, <1>6, <1>8 DEF TableInv, Building
  <2>2. CameraMade(c, g)'
    BY <1>1, <2>1, MadeAgain DEF fileVars
  <2>3. Place(g, Cams)' = c
    BY <1>5
  <2> QED BY <2>2, <2>3 DEF CameraMade
<1>9. n' = Cardinality(Done') /\ IdsDiffer' /\ sc' \in SinkConf(ini')
  BY <1>1, <1>2, <1>6 DEF TableInv, IdsDiffer, fileVars, Building, Configured
<1>10. pc' = "build"
  BY <1>1
<1>11. TableInv'
  BY <1>8, <1>9, <1>10 DEF TableInv, Loading, Filling
<1> QED BY <1>7, <1>11

\* The name of a backend that is not refused is one of the table's.
LEMMA BackendFound ==
  ASSUME WellRead, NEW h \in Headers, NEW name \in BackendName(ini, file[h].name),
         BackendName(ini, file[h].name) # {"unknown"}
  PROVE  name \in Backends
<1> SUFFICES ASSUME name \notin Backends PROVE BackendName(ini, file[h].name) = {"unknown"}
  OBVIOUS
<1> DEFINE named(v) == IF v.kind = "word" /\ v.word \in Backends THEN v.word ELSE "unknown"
           S == Str(ini, file[h].name, "backend", Name("missing"))
<1>1. BackendName(ini, file[h].name) = {named(v) : v \in S}
  BY DEF BackendName
<1>2. PICK v \in S : name = named(v)
  BY <1>1
<1>3. named(v) = "unknown"
  BY <1>2
<1>4. \A w \in S : w = v
  BY StrSays
<1> HIDE DEF named, S
<1> QED BY <1>1, <1>2, <1>3, <1>4

LEMMA CreatedType ==
  ASSUME NEW secs \in Sections, NEW s, NEW name \in Backends, NEW conf \in FromIni(name, secs, s)
  PROVE  conf \in Backend /\ conf.backend = name
<1>1. CASE name = "mock"
  BY <1>1, MockType DEF FromIni
<1>2. CASE name = "v4l2"
  BY <1>2, WebcamType DEF FromIni
<1> QED BY <1>1, <1>2 DEF Backends

LEMMA CreateTable ==
  ASSUME KnownInv, BackendCreate
  PROVE  Types' /\ TableInv'
<1>1. /\ pc = "build" /\ section <= Len(ini) /\ ~Skipped(Current) /\ ~Refused(Current)
      /\ UNCHANGED <<fileVars, section, n, specs, capacity, ran>>
  BY DEF BackendCreate, More
<1>2. /\ Types /\ TableInv /\ section \in 1 .. MaxSections + 1 /\ MaxSections \in Nat
      /\ WellRead /\ LinesRead /\ Len(ini) \in 0 .. MaxSections /\ ini \in Sections
  BY <1>1, ReadWell, IniAssumption DEF KnownInv, Types, WellRead
<1>3. PICK h \in Headers : Place(h, Headers) = section /\ Current = file[h].name
  BY <1>1, <1>2, HeaderInWork
<1>4. On(h) /\ h \in Cams
  <2>1. On(h)
    BY <1>1, <1>2, <1>3, EnabledSays DEF Skipped
  <2> QED BY <2>1 DEF Cams
<1>5. /\ file' = file /\ lineno' = lineno /\ ini' = ini /\ sc' = sc /\ ran' = ran
      /\ Cams' = Cams /\ Headers' = Headers
  BY <1>1, LinesKept DEF fileVars
<1>6. n \in 0 .. MaxCameras - 1 /\ New \in Slots /\ New' = New
  BY <1>1, StartupAssumption
     DEF KnownInv, StartupInv, Counters, Refused, Full, New, Slots
<1>7. CASE BuildFails /\ UNCHANGED <<held, backends>>
  BY <1>1, <1>2, <1>5, <1>7, FailureTable DEF Types
<1>8. ASSUME NEW name \in BackendName(ini, Current), NEW conf \in FromIni(name, ini, Current),
             backends' = [backends EXCEPT ![New] = conf],
             IF SitesOf(conf) <= MaxSites
               THEN GoTo("camera") /\ UNCHANGED <<loopVars, code>>
               ELSE BuildFails
      PROVE  Types' /\ TableInv'
  <2>1. name \in Backends
    BY <1>1, <1>2, <1>3, BackendFound DEF Refused
  <2>2. conf \in Backend /\ conf.backend = name
    BY <1>2, <2>1, CreatedType
  <2>3. /\ backends' \in [Slots -> Backend] /\ backends'[New] = conf
        /\ \A c \in Slots : c # New => backends'[c] = backends[c]
    BY <1>2, <1>6, <1>8, <2>2 DEF Types
  <2>4. /\ section' \in 1 .. MaxSections + 1 /\ specs' \in Seq(EntryType) /\ Len(specs') = n'
        /\ capacity' \in [Slots -> Nat]
    BY <1>1, <1>2 DEF Types
  <2>5. Types' /\ (BuildFails => TableInv')
    <3>1. BuildFails \/ UNCHANGED <<loopVars, code>>
      BY <1>8
    <3> QED BY <1>2, <1>5, <2>3, <2>4, <3>1, FailureTable
  <2>6. CASE SitesOf(conf) <= MaxSites
    <3>1. pc' = "camera"
      BY <1>8, <2>6 DEF GoTo
    <3>2. Done' = Done
      BY <1>1, <1>5 DEF Done
    <3>3. BuiltFrom(backends[New], h)'
      BY <1>3, <1>5, <1>6, <2>1, <2>2, <2>3, <2>6 DEF BuiltFrom
    <3>4. \A id \in IdOf(ini, file[h].name)' : ~Duplicate(id)'
      <4>1. \A id : Duplicate(id)' <=> Duplicate(id)
        BY <1>1 DEF Duplicate
      <4>2. IdOf(ini, file[h].name)' = IdOf(ini, file[h].name)
        BY <1>5
      <4> QED BY <1>1, <1>3, <4>1, <4>2 DEF Refused
    <3>5. CameraInWork(h)'
      BY <1>1, <1>3, <1>5, <3>1, <3>3, <3>4 DEF CameraInWork
    <3>6. ASSUME NEW g \in Done' PROVE CameraMade(Place(g, Cams), g)'
      <4> PICK c : c = Place(g, Cams)
        OBVIOUS
      <4>1. CameraMade(c, g) /\ n = Cardinality(Done)
        BY <1>1, <1>2, <3>2, <3>6 DEF TableInv, Building
      <4>2. c \in 1 .. n
        BY <1>2, <3>2, <3>6, <4>1, DonePlaces
      <4>3. c \in Slots /\ c # New
        BY <1>6, <4>2, StartupAssumption DEF Slots, New
      <4>4. CameraMade(c, g)'
        BY <1>1, <1>5, <2>3, <4>1, <4>3, MadeAgain
      <4>5. Place(g, Cams)' = c
        BY <1>5
      <4> QED BY <4>4, <4>5 DEF CameraMade
    <3>7. n' = Cardinality(Done') /\ IdsDiffer' /\ sc' \in SinkConf(ini')
      BY <1>1, <1>2, <1>5, <3>2 DEF TableInv, IdsDiffer, Building, Configured
    <3>8. TableInv'
      BY <1>4, <1>5, <3>1, <3>5, <3>6, <3>7 DEF TableInv, Loading, Filling
    <3> QED BY <2>5, <3>8
  <2>7. CASE ~(SitesOf(conf) <= MaxSites)
    BY <1>8, <2>5, <2>7
  <2> QED BY <2>6, <2>7
<1> QED BY <1>7, <1>8 DEF BackendCreate

-----------------------------------------------------------------------------
(***************************************************************************)
(* The steps of camera_new.                                                *)
(***************************************************************************)
LEMMA CameraStepsTable ==
  ASSUME KnownInv, CameraAlloc \/ CameraScratch \/ CameraSocket \/ CameraConnect
  PROVE  Types' /\ TableInv'
<1> USE DEF Loading, Building, Filling, Configured, GoTo
<1>1. /\ UNCHANGED <<fileVars, tableVars, ran>> /\ Types /\ TableInv
      /\ BuildFails \/ CameraNewFails \/ UNCHANGED <<loopVars, code>>
  BY DEF CameraAlloc, CameraScratch, CameraSocket, CameraConnect, CameraStep, KnownInv
<1>2. Types' /\ (BuildFails \/ CameraNewFails => TableInv')
  BY <1>1, FailureTable DEF Types, fileVars, tableVars
<1>3. CASE ~(BuildFails \/ CameraNewFails)
  <2>1. \/ pc = "camera" /\ pc' = "frame"
        \/ pc = "scratch" /\ pc' = "socket"
        \/ pc = "socket" /\ pc' = "connect"
        \/ pc = "connect" /\ pc' = "init"
    BY <1>3 DEF CameraAlloc, CameraScratch, CameraSocket, CameraConnect, CameraStep
  <2> QED BY <1>1, <1>2, <2>1, TableKept DEF fileVars, tableVars
<1> QED BY <1>2, <1>3

LEMMA FrameTable ==
  ASSUME KnownInv, CameraFrame
  PROVE  Types' /\ TableInv'
<1>1. /\ pc = "frame" /\ UNCHANGED <<fileVars, section, n, specs, backends, ran>>
      /\ Types /\ TableInv
  BY DEF CameraFrame, KnownInv
<1>2. /\ n \in 0 .. MaxCameras - 1 /\ New \in Slots /\ New' = New /\ WellRead /\ LinesRead
      /\ section \in Nat
  BY <1>1, StartupAssumption, ReadWell
     DEF KnownInv, StartupInv, Counters, New, Slots, Filling, WellRead, Types
<1>3. /\ file' = file /\ lineno' = lineno /\ ini' = ini /\ sc' = sc /\ ran' = ran
      /\ Cams' = Cams /\ Headers' = Headers
  BY <1>1, LinesKept DEF fileVars
<1>4. CASE CameraNewFails /\ UNCHANGED capacity
  BY <1>1, <1>3, <1>4, FailureTable DEF Types
<1>5. CASE /\ capacity' = [capacity EXCEPT ![New] = SitesOf(backends[New]) % Word]
           /\ pc' = "scratch" /\ UNCHANGED <<loopVars, code>>
  <2>1. PICK h \in Cams : CameraInWork(h)
    BY <1>1 DEF TableInv, Filling
  <2>2. SitesOf(backends[New]) % Word \in Nat
    BY <1>2, <2>1, BuiltType DEF CameraInWork, WellRead
  <2>3. /\ capacity' \in [Slots -> Nat]
        /\ capacity'[New] = SitesOf(backends[New]) % Word
        /\ \A c \in Slots : c # New => capacity'[c] = capacity[c]
    BY <1>1, <1>2, <1>5, <2>2 DEF Types
  <2>4. Types'
    BY <1>1, <1>3, <1>5, <2>3 DEF Types, loopVars
  <2>5. Done' = Done
    BY <1>1, <1>3 DEF Done
  <2>6. CameraInWork(h)'
    <3>1. BuiltFrom(backends[New], h)'
      BY <1>1, <1>2, <1>3, <2>1 DEF CameraInWork, BuiltFrom
    <3>2. \A id : Duplicate(id)' <=> Duplicate(id)
      BY <1>1 DEF Duplicate
    <3>3. IdOf(ini, file[h].name)' = IdOf(ini, file[h].name)
      BY <1>3
    <3>4. capacity[New]' = (SitesOf(backends[New]) % Word)'
      BY <1>1, <1>2, <2>3
    <3> QED BY <1>1, <1>3, <2>1, <3>1, <3>2, <3>3, <3>4 DEF CameraInWork
  <2>7. ASSUME NEW g \in Done' PROVE CameraMade(Place(g, Cams), g)'
    <3> PICK c : c = Place(g, Cams)
      OBVIOUS
    <3>1. CameraMade(c, g) /\ n = Cardinality(Done)
      BY <1>1, <2>5, <2>7 DEF TableInv, Building, Filling
    <3>2. c \in 1 .. n
      BY <1>2, <2>5, <2>7, <3>1, DonePlaces
    <3>3. c \in Slots /\ c # New
      BY <1>2, <3>2, StartupAssumption DEF Slots, New
    <3>4. CameraMade(c, g)'
      BY <1>1, <1>3, <2>3, <3>1, <3>3, MadeAgain
    <3>5. Place(g, Cams)' = c
      BY <1>3
    <3> QED BY <3>4, <3>5 DEF CameraMade
  <2>8. n' = Cardinality(Done') /\ IdsDiffer' /\ sc' \in SinkConf(ini')
    BY <1>1, <1>3, <2>5 DEF TableInv, IdsDiffer, Building, Configured, Filling
  <2>9. TableInv'
    BY <1>3, <1>5, <2>1, <2>6, <2>7, <2>8 DEF TableInv, Loading
  <2> QED BY <2>4, <2>9
<1> QED BY <1>4, <1>5 DEF CameraFrame, GoTo

LEMMA InitTableStep ==
  ASSUME KnownInv, CameraInit
  PROVE  Types' /\ TableInv'
<1>1. /\ pc = "init" /\ UNCHANGED <<fileVars, backends, capacity, ran>> /\ Types /\ TableInv
  BY DEF CameraInit, KnownInv
<1>2. /\ n \in 0 .. MaxCameras - 1 /\ New \in Slots /\ New = n + 1 /\ WellRead /\ LinesRead
      /\ section \in Nat /\ Len(ini) \in 0 .. MaxSections /\ ini \in Sections
      /\ section \in 1 .. MaxSections + 1 /\ MaxSections \in Nat
  BY <1>1, StartupAssumption, IniAssumption, ReadWell
     DEF KnownInv, StartupInv, Counters, New, Slots, Filling, WellRead, Types
<1>3. /\ file' = file /\ lineno' = lineno /\ ini' = ini /\ sc' = sc /\ ran' = ran
      /\ Cams' = Cams /\ Headers' = Headers
  BY <1>1, LinesKept DEF fileVars
<1>4. CASE CameraNewFails /\ UNCHANGED <<section, n, specs>>
  BY <1>1, <1>3, <1>4, FailureTable DEF Types
<1>5. ASSUME NEW spec \in SpecsOf(Current, backends[New]), specs' = Append(specs, spec),
             n' = n + 1, section' = section + 1, pc' = "build", UNCHANGED <<loopVars, code>>
      PROVE  Types' /\ TableInv'
  <2>1. PICK h \in Cams : CameraInWork(h)
    BY <1>1 DEF TableInv, Filling
  <2>2. h \in Headers /\ Place(h, Headers) = section /\ section \in 1 .. Len(ini)
    BY <1>2, <2>1, CamsAreLines, SectionsAreHeaders DEF CameraInWork, WellRead
  <2>3. Current = file[h].name
    BY <1>2, <2>2, SectionsAreHeaders DEF Current, WellRead
  <2>4. /\ spec \in EntryType
        /\ \E id \in IdOf(ini, file[h].name), fps \in FpsOf(ini, file[h].name) :
             spec = [camera_id |-> id, max_sites |-> SitesOf(backends[New]),
                     expect_period |-> ExpectedPeriod(fps)]
    <3>1. BuiltFrom(backends[New], h) /\ spec \in SpecsOf(file[h].name, backends[New])
      BY <1>5, <2>1, <2>3 DEF CameraInWork
    <3> QED BY <1>2, <3>1, SpecType
  <2>5. /\ specs' \in Seq(EntryType) /\ Len(specs') = n + 1 /\ specs'[n + 1] = spec
        /\ \A c \in 1 .. n : specs'[c] = specs[c]
    <3>1. specs \in Seq(EntryType) /\ Len(specs) = n
      BY <1>1 DEF Types
    <3> QED BY <1>5, <2>4, <3>1, AppendAt
  <2>6. Types'
    <3>1. section' \in 1 .. MaxSections + 1
      BY <1>2, <1>5, <2>2
    <3> QED BY <1>1, <1>3, <1>5, <2>5, <3>1 DEF Types, loopVars
  <2>7. n = Cardinality(Done) /\ IdsDiffer /\ \A g \in Done : CameraMade(Place(g, Cams), g)
    BY <1>1 DEF TableInv, Building, Filling
  <2>8. /\ Done' = Done \cup {h} /\ Cardinality(Done') = n + 1 /\ Place(h, Cams) = n + 1
    <3>1. Done' = {g \in Cams : Place(g, Headers) < section + 1}
      BY <1>3, <1>5 DEF Done
    <3> QED BY <1>2, <2>1, <2>2, <2>7, <3>1, NextSection
  <2>9. ASSUME NEW g \in Done PROVE CameraMade(Place(g, Cams), g)'
    <3> PICK c : c = Place(g, Cams)
      OBVIOUS
    <3>1. CameraMade(c, g) /\ c \in 1 .. n
      BY <1>2, <2>7, <2>9, DonePlaces
    <3>2. CameraMade(c, g)'
      BY <1>1, <1>3, <2>5, <3>1, MadeAgain
    <3>3. Place(g, Cams)' = c
      BY <1>3
    <3> QED BY <3>2, <3>3 DEF CameraMade
  <2>10. CameraMade(Place(h, Cams), h)'
    <3> PICK c : c = n + 1
      OBVIOUS
    <3>1. /\ BuiltFrom(backends[c], h) /\ capacity[c] = SitesOf(backends[c]) % Word
          /\ spec \in SpecsOf(file[h].name, backends[c])
      BY <1>1, <1>2, <1>5, <2>1, <2>3 DEF CameraInWork
    <3>2. BuiltFrom(backends[c], h)'
      BY <1>1, <1>3, <3>1 DEF BuiltFrom
    <3>3. SpecsOf(file[h].name, backends[c])' = SpecsOf(file[h].name, backends[c])
      BY <1>1, <1>3, SpecsKept
    <3>4. specs'[c] = spec /\ capacity'[c] = SitesOf(backends'[c]) % Word
      BY <1>1, <2>5, <3>1
    <3>5. CameraMade(c, h)'
      BY <3>1, <3>2, <3>3, <3>4 DEF CameraMade
    <3>6. Place(h, Cams)' = c
      BY <1>3, <2>8
    <3> QED BY <3>5, <3>6 DEF CameraMade
  <2>11. IdsDiffer'
    <3> SUFFICES ASSUME NEW c \in 1 .. n + 1, NEW d \in 1 .. c - 1
        PROVE  specs'[d].camera_id # specs'[c].camera_id
      BY <1>5 DEF IdsDiffer
    <3>1. d \in 1 .. n /\ specs'[d] = specs[d]
      BY <1>2, <2>5
    <3>2. CASE c = n + 1
      <4>1. PICK id \in IdOf(ini, file[h].name) : spec.camera_id = id
        BY <2>4
      <4>2. ~Duplicate(id)
        BY <2>1, <4>1 DEF CameraInWork
      <4> QED BY <2>5, <3>1, <3>2, <4>1, <4>2 DEF Duplicate
    <3>3. CASE c \in 1 .. n
      BY <2>5, <2>7, <3>1, <3>3 DEF IdsDiffer
    <3> QED BY <1>2, <3>2, <3>3
  <2>12. \A g \in Done' : CameraMade(Place(g, Cams), g)'
    BY <2>8, <2>9, <2>10
  <2>13. n' = Cardinality(Done') /\ sc' \in SinkConf(ini')
    BY <1>1, <1>3, <1>5, <2>8 DEF TableInv, Configured, Building, Filling
  <2>14. TableInv'
    BY <1>5, <2>11, <2>12, <2>13 DEF TableInv, Loading, Filling
  <2> QED BY <2>6, <2>14
<1> QED BY <1>1, <1>4, <1>5 DEF CameraInit, GoTo

-----------------------------------------------------------------------------
(***************************************************************************)
(* All parts together are inductive.                                       *)
(***************************************************************************)
LEMMA NextTable ==
  ASSUME KnownInv, [Next]_vars
  PROVE  Types' /\ TableInv'
<1>1. CASE Load
  BY <1>1, LoadStepsTable, ContextTable DEF Load
<1>2. CASE Build
  BY <1>2, SkipTable, CreateTable, EndStepsTable DEF Build
<1>3. CASE Camera
  BY <1>3, CameraStepsTable, FrameTable, InitTableStep DEF Camera
<1>4. CASE SinkExpect \/ Run
  BY <1>4, EndStepsTable
<1>5. CASE Unwind
  BY <1>5, ReleaseStepsTable
<1>6. CASE UNCHANGED vars
  <2>1. /\ UNCHANGED <<file, lineno, ini, sc, section, n, specs, backends, capacity>>
        /\ UNCHANGED <<file, sc, tableVars, loopVars, ran>>
        /\ pc' = pc /\ code' = code /\ code \in 0 .. 2 /\ Types /\ TableInv
    BY <1>6 DEF vars, fileVars, tableVars, KnownInv, Types
  <2>2. Types'
    BY <2>1, TypesKept
  <2>3. pc' \in {"expect", "run"} => section > Len(ini)
    BY <2>1 DEF TableInv
  <2> QED BY <2>1, <2>2, <2>3, TableKept
<1> QED BY <1>1, <1>2, <1>3, <1>4, <1>5, <1>6 DEF Next, Forward, Terminated

LEMMA KnownInvariant == Spec => []KnownInv
<1>1. Init => KnownInv
  BY InitHeld, InitRead, InitTable DEF KnownInv
<1>2. KnownInv /\ [Next]_vars => KnownInv'
  BY NextHeld, NextRead, NextTable DEF KnownInv
<1> QED BY <1>1, <1>2, PTL DEF Spec

(***************************************************************************)
(* Every variable of the start keeps its type, for every config file and   *)
(* every limit: section never passes the sections there can be, n never    *)
(* the slots, and what is made of the file are 32-bit values and fractions *)
(* as the rest of the program takes them.                                  *)
(***************************************************************************)
THEOREM StartupTypeCorrect == Spec => []TypeOK
<1>1. KnownInv => TypeOK
  <2> SUFFICES ASSUME KnownInv PROVE TypeOK
    OBVIOUS
  <2>1. Types /\ ReaderInv /\ Counters
    BY DEF KnownInv, StartupInv
  <2>2. pc \in {"open", "alloc", "read", "fail", "conf", "sink", "sink_frame",
                "sink_ctx", "sink_socket", "sink_bind", "ctx", "build", "camera",
                "frame", "scratch", "socket", "connect", "init", "expect", "run",
                "cams_release", "deinit", "close", "del_frames", "free_scratch",
                "free_camera", "impl_destroy", "ctx_destroy", "sink_close",
                "sink_ctx_destroy", "sink_del_frames", "sink_free", "ini_free", "exit"}
    BY <2>1 DEF Counters, Loading, Building, Filling, Unwinding, Releasing, Deleting, Closing
  <2>3. file \in Files /\ lineno \in 0 .. Len(file) /\ ini \in Sections /\ Len(ini) <= MaxSections
    BY <2>1 DEF Types, ReaderInv, LinesRead
  <2>4. n \in 0 .. MaxCameras /\ held \subseteq [kind : Kind, cam : 0 .. MaxCameras]
    BY <2>1 DEF Counters
  <2>5. /\ specs \in Seq([camera_id : Nat, max_sites : Nat, expect_period : [n : Nat, d : Nat]])
        /\ Len(specs) = n /\ sc \in Conf /\ section \in 1 .. MaxSections + 1
        /\ backends \in [Slots -> Backend] /\ capacity \in [Slots -> Nat]
        /\ slot \in 0 .. MaxCameras + 1 /\ scope \in 0 .. MaxCameras /\ code \in 0 .. 2
    BY <2>1, Zenon DEF Types, EntryType
  <2>6. ran \in BOOLEAN
    BY <2>1 DEF Types
  <2> QED BY <2>2, <2>3, <2>4, <2>5, <2>6 DEF TypeOK
<1> QED BY <1>1, KnownInvariant, PTL

(***************************************************************************)
(* When the threads start the system is complete and as the file says it,  *)
(* for every file and every limit: after the last section no camera that   *)
(* is switched on is missing from the table, each slot holds all parts of  *)
(* its camera, made by the settings of that camera's own header, and no    *)
(* two have the same id.                                                   *)
(***************************************************************************)
THEOREM AlwaysReadyToRun == Spec => []ReadyToRun
<1>1. KnownInv => ReadyToRun
  <2> SUFFICES ASSUME KnownInv, pc = "run" PROVE ReadyToRun
    BY DEF ReadyToRun
  <2> USE DEF Building, Configured, Filling
  <2>1. /\ n = Cardinality(Done) /\ \A h \in Done : CameraMade(Place(h, Cams), h)
        /\ IdsDiffer /\ sc \in SinkConf(ini) /\ section > Len(ini)
    BY DEF KnownInv, TableInv
  <2>2. WellRead /\ LinesRead /\ section \in Nat /\ Len(ini) \in Nat
    BY ReadWell DEF KnownInv, WellRead, Types
  <2>3. n \in 0 .. MaxCameras /\ n > 0 /\ MaxCameras \in Nat
    BY StartupAssumption DEF KnownInv, StartupInv, Counters
  <2>4. Done = Cams
    <3>1. ASSUME NEW h \in Cams PROVE Place(h, Headers) < section
      <4>1. h \in Headers
        BY <2>2, CamsAreLines
      <4>2. Place(h, Headers) \in 1 .. Len(ini)
        BY <2>2, <4>1, SectionsAreHeaders DEF WellRead
      <4> QED BY <2>1, <2>2, <4>2
    <3> QED BY <3>1 DEF Done
  <2>5. \E h \in Headers : file[h].name = "sink" /\ SinkSaid(h)
    BY <2>1, <2>2, SinkIsSaid
  <2>6. ASSUME NEW h \in Cams, NEW c, c = Place(h, Cams)
        PROVE  /\ {Res(kind, c) : kind \in {"impl", "camera", "frame", "scratch", "socket"}}
                    \subseteq held
               /\ backends[c].backend = "v4l2" => Res("device", c) \in held
               /\ CameraSaid(c, h)
               /\ \A d \in 1 .. c - 1 : specs[d].camera_id # specs[c].camera_id
    <3>1. c \in 1 .. n /\ h \in Headers
      BY <2>1, <2>2, <2>4, <2>6, DonePlaces, CamsAreLines
    <3>2. Whole(c)
      <4>1. c \in Slots /\ c <= n
        BY <2>3, <3>1 DEF Slots
      <4> QED BY <4>1 DEF KnownInv, StartupInv, SlotsHeld
    <3>3. \A kind \in {"impl", "camera", "frame", "scratch", "socket"} : Res(kind, c) \in held
      BY <3>2 DEF Whole, Of
    <3>4. backends[c].backend = "v4l2" => Res("device", c) \in held
      BY <3>2 DEF Whole, Of
    <3>5. CameraSaid(c, h)
      BY <2>1, <2>2, <2>4, <2>6, <3>1, MadeIsSaid
    <3>6. \A d \in 1 .. c - 1 : specs[d].camera_id # specs[c].camera_id
      BY <2>1, <3>1 DEF IdsDiffer
    <3> QED BY <3>3, <3>4, <3>5, <3>6
  <2> QED BY <2>1, <2>3, <2>4, <2>5, <2>6 DEF ReadyToRun, Cams
<1> QED BY <1>1, KnownInvariant, PTL

-----------------------------------------------------------------------------
(***************************************************************************)
(* The safety half of AlwaysReturns: that the end comes at all is liveness *)
(* and stays with TLC.                                                     *)
(***************************************************************************)

\* Until something fails or the threads have run the status is 0.
Status ==
  /\ code \in 0 .. 2
  /\ IF pc \in Loading \cup Building THEN code = 0 /\ ran = FALSE ELSE code = 2 <=> ran = FALSE

LEMMA NextStatus == StartupInv /\ Status /\ [Next]_vars => Status'
<1> SUFFICES ASSUME StartupInv, Status, [Next]_vars PROVE Status'
  OBVIOUS
<1> USE DEF Status, Loading, Building, Filling, GoTo
<1>1. CASE Load
  BY <1>1 DEF Load, IniOpen, IniAlloc, ReadLine, ReadNoMore, ReadFails, LoadSinkConf,
     SinkNew, SinkFrame, SinkCtx, SinkSocket, SinkBind, ZmqCtxNew, Step
<1>2. CASE Build
  BY <1>2 DEF Build, BuildSkip, BuildRefuse, BackendCreate, BuildDone, BuildFails, More
<1>3. CASE Camera
  BY <1>3 DEF Camera, CameraAlloc, CameraFrame, CameraScratch, CameraSocket, CameraConnect,
     CameraInit, CameraStep, CameraNewFails, BuildFails
<1>4. CASE SinkExpect \/ Run
  BY <1>4 DEF SinkExpect, Run
<1>5. CASE Unwind
  BY <1>5 DEF Unwind, ReleaseCamera, ReleaseImpl, CameraDeinit, CameraClose, CameraDelFrames,
     CameraFreeScratch, CameraFree, CameraDel, CtxDestroy, SinkClose, SinkCtxDestroy,
     SinkDelFrames, SinkFree, MainDel, IniFree, unwinding
<1>6. CASE UNCHANGED vars
  BY <1>6 DEF vars
<1> QED BY <1>1, <1>2, <1>3, <1>4, <1>5, <1>6 DEF Next, Forward, Terminated

(***************************************************************************)
(* A run that was never made exits with 2 and one that was made does not,  *)
(* on every path through main.                                             *)
(***************************************************************************)
THEOREM StatusAlwaysTells == Spec => [](pc = "exit" => (code = 2 <=> ~ran))
<1>1. Init => Status
  BY DEF Init, Status, Loading, Building, Filling
<1>2. StartupInv /\ Status => (pc = "exit" => (code = 2 <=> ~ran))
  BY DEF Status, Loading, Building, Filling
<1> QED BY <1>1, <1>2, NextStatus, StartupInvariant, PTL DEF Spec

(***************************************************************************)
(* zmq_ctx_destroy never waits: no socket of the cameras' context is open  *)
(* when main gets there, whether it comes from cams_release or went past   *)
(* it, nor the sink's when sink_del destroys its own.                      *)
(***************************************************************************)
THEOREM NeverWaitsForSockets ==
  Spec => [](/\ pc = "ctx_destroy" => Sockets = {}
             /\ pc = "sink_ctx_destroy" => Res("sink_socket", 0) \notin held)
<1>1. ASSUME StartupInv, pc = "ctx_destroy", NEW r \in held PROVE r.kind # "socket"
  <2>1. r.kind \in Of(r.cam) /\ r.cam \in {0} \cup Slots
    BY <1>1, HeldBySomeone DEF StartupInv, Counters
  <2>2. Of(0) = {"ini", "ctx"} \cup SinkKinds
    BY <1>1 DEF StartupInv, MainHeld, Unwinding
  <2>3. \A c \in Slots : Of(c) = {}
    BY <1>1 DEF StartupInv, SlotsHeld, Building, Releasing, Deleting, Filling
  <2> QED BY <2>1, <2>2, <2>3 DEF SinkKinds
<1>2. StartupInv => (pc = "ctx_destroy" => Sockets = {})
  BY <1>1 DEF Sockets
<1>3. StartupInv => (pc = "sink_ctx_destroy" => Res("sink_socket", 0) \notin held)
  BY DEF StartupInv, MainHeld, Closing, Of, Kind
<1> QED BY <1>2, <1>3, StartupInvariant, PTL
=============================================================================
