----------------------------- MODULE SinkProofs -----------------------------
(***************************************************************************)
(* What is proved of the sink for every table size, every set of cameras,  *)
(* tables and messages, and every failure of the decode frame to grow.     *)
(***************************************************************************)
EXTENDS Sink, WireProofs, DataLemmas

-----------------------------------------------------------------------------
\* The statuses, and what an accepted message says of its count.
LEMMA UnpackStatusType ==
  ASSUME NEW m \in Message(CameraId), NEW c \in Nat
  PROVE  /\ UnpackStatus(m, c) \in {"ok"} \cup Refusal
         /\ UnpackStatus(m, c) = "ok" => Peek(m) = "ok" /\ m.count <= c
BY DEF UnpackStatus, Peek, Message, Refusal

\* The bounds a camera gets are those of the specs or the fallbacks.
LEMMA FirstSightType ==
  ASSUME SinkTypeOK, NEW id \in CameraId
  PROVE  /\ FirstSight(id) \in CamState
         /\ FirstSight(id).seen
         /\ FirstSight(id).camera_id = id
         /\ FirstSight(id).frames = 0
<1> USE SinkAssumption
<1>1. specs \in Seq(CamSpec)
  BY EmptySeq DEF SinkTypeOK
<1>2. SpecsOf(specs, id) \in SUBSET (1 .. Len(specs))
  BY <1>1, LenProperties DEF SpecsOf
<1>3. ASSUME SpecsOf(specs, id) # {}
      PROVE  specs[Min(SpecsOf(specs, id))] \in CamSpec
  <2>1. SpecsOf(specs, id) \in SUBSET Nat
    BY <1>1, <1>2, LenProperties
  <2>2. Min(SpecsOf(specs, id)) \in 1 .. Len(specs)
    BY <1>2, <1>3, <2>1, MinIsLeast
  <2> QED BY <1>1, <2>2, ElementOfSeq
<1>4. QED BY <1>3 DEF FirstSight, CamState, CamSpec

\* cam_find returns a slot of this camera or a free one.
LEMMA CamFindSlot ==
  ASSUME NEW id, NEW i \in CamFind(id)
  PROVE  /\ i \in Slot
         /\ cams[i].seen => cams[i].camera_id = id
         /\ ~cams[i].seen => SeenSlots(cams, id) = {}
<1> USE SinkAssumption
<1>1. SeenSlots(cams, id) \subseteq Nat /\ FreeSlots(cams) \subseteq Nat
  BY DEF SeenSlots, FreeSlots, Slot
<1>2. CASE SeenSlots(cams, id) # {}
  <2>1. i \in SeenSlots(cams, id)
    BY <1>1, <1>2, MinIsLeast DEF CamFind
  <2> QED BY <2>1 DEF SeenSlots
<1>3. CASE SeenSlots(cams, id) = {}
  <2>1. i \in FreeSlots(cams)
    BY <1>1, <1>3, MinIsLeast DEF CamFind
  <2> QED BY <1>3, <2>1 DEF FreeSlots
<1>4. QED BY <1>2, <1>3

-----------------------------------------------------------------------------
\* A growth leaves a frame with its count.
LEMMA ReserveType ==
  ASSUME NEW d \in [capacity : Nat, count : Nat, room : Nat], NEW n \in Nat,
         NEW r \in Frames!Reserve(d, n)
  PROVE  r.frame \in [capacity : Nat, count : Nat, room : Nat]
<1>1. CASE r.frame = d
  BY <1>1
<1>2. CASE r = [frame |-> [d EXCEPT !.capacity = n,
                                    !.room = IF @ < d.capacity THEN @ ELSE n],
                ok    |-> TRUE]
  <2>1. ASSUME NEW k \in Nat
        PROVE  [d EXCEPT !.capacity = n, !.room = k] \in [capacity : Nat, count : Nat, room : Nat]
    OBVIOUS
  <2>2. (IF d.room < d.capacity THEN d.room ELSE n) \in Nat
    OBVIOUS
  <2> QED BY <1>2, <2>1, <2>2
<1>3. ASSUME NEW how,
             r = [frame |-> [d EXCEPT !.room = IF how = "dangling" THEN 0 ELSE @],
                  ok    |-> FALSE]
      PROVE  r.frame \in [capacity : Nat, count : Nat, room : Nat]
  BY <1>3
<1>4. QED BY <1>1, <1>2, <1>3 DEF Frames!Reserve

\* What the decoding of a message leaves: an accepted one is in the frame.
LEMMA DecodingsType ==
  ASSUME SinkTypeOK, NEW m \in Message(CameraId), NEW d \in Decodings(m)
  PROVE  /\ d.frame \in [capacity : Nat, count : Nat, room : Nat]
         /\ d.status \in {"ok"} \cup Refusal
         /\ d.status = "ok" => Peek(m) = "ok"
<1> DEFINE first == UnpackStatus(m, decoded.capacity)
           told  == [decoded EXCEPT
                       !.count = IF first \in {"ok", "capacity"} THEN m.count ELSE @]
<1>1. decoded \in [capacity : Nat, count : Nat, room : Nat] /\ m.count \in Nat
  BY DEF SinkTypeOK, Message
<1>2. told \in [capacity : Nat, count : Nat, room : Nat]
  BY <1>1
<1>3. CASE first # "capacity"
  BY <1>1, <1>2, <1>3, UnpackStatusType DEF Decodings
<1>4. CASE first = "capacity"
  <2>1. PICK r \in Frames!Reserve(told, m.count) :
          d = [frame |-> r.frame,
               status |-> IF r.ok THEN UnpackStatus(m, r.frame.capacity) ELSE first]
    BY <1>4 DEF Decodings
  <2>2. r.frame \in [capacity : Nat, count : Nat, room : Nat]
    BY <1>1, <1>2, <2>1, ReserveType
  <2> QED BY <1>1, <1>4, <2>1, <2>2, UnpackStatusType
<1>5. QED BY <1>3, <1>4

\* What a frame does to the slot of its camera.
LEMMA RememberType ==
  ASSUME NEW cam \in CamState, NEW f \in Frame(CameraId)
  PROVE  /\ Remember(cam, f) \in CamState
         /\ Remember(cam, f).seen = cam.seen
         /\ Remember(cam, f).camera_id = cam.camera_id
         /\ Remember(cam, f).max_sites = cam.max_sites
         /\ Remember(cam, f).expect_period = cam.expect_period
         /\ Remember(cam, f).spec_known = cam.spec_known
         /\ Remember(cam, f).frames = cam.frames + 1
         /\ Remember(cam, f).last_t_ns = f.t_ns
         /\ Remember(cam, f).last_seq = f.sequence
<1>1. f.t_ns \in Int /\ f.sequence \in Nat
  BY DEF Frame
<1> DEFINE once  == [cam EXCEPT !.frames = @ + 1]
           twice == [once EXCEPT !.last_t_ns = f.t_ns]
<1>2. once \in CamState
  BY DEF CamState
<1>3. twice \in CamState
  BY <1>1, <1>2 DEF CamState
<1>4. [twice EXCEPT !.last_seq = f.sequence] \in CamState
  BY <1>1, <1>3 DEF CamState
<1>5. QED BY <1>4 DEF Remember, CamState

\* Validate keeps the types of the table and the counters.
LEMMA ValidateType ==
  ASSUME SinkTypeOK, NEW f \in Frame(CameraId), Validate(f)
  PROVE  cams' \in [Slot -> CamState] /\ stats' \in Stats
<1>1. f.camera_id \in CameraId /\ f.sequence \in Nat /\ f.t_ns \in Int
  BY DEF Frame
<1>2. cams \in [Slot -> CamState] /\ stats \in Stats
  BY DEF SinkTypeOK
<1>3. CASE UNCHANGED cams /\ stats' = [stats EXCEPT !.received = @ + 1]
  BY <1>2, <1>3 DEF Stats
<1>4. ASSUME NEW cam \in CamState, NEW new
      PROVE  Checked(cam, f, new) \in Stats
  <2>1. Lost(cam, f) \in Nat
    BY <1>1 DEF Lost, CamState
  <2>2. /\ One(StampBack(cam, f)) \in Nat /\ One(OffCadence(cam, f)) \in Nat
        /\ One(SequenceGap(cam, f)) \in Nat /\ One(IndexBad(cam, f)) \in Nat
        /\ One(ValueBad(f)) \in Nat /\ One(new) \in Nat
        /\ One(new /\ specs # <<>> /\ ~cam.spec_known) \in Nat
    BY DEF One
  <2>3. \A n \in Nat : /\ stats.received + n \in Nat /\ stats.bad_parse + n \in Nat
                       /\ stats.backwards + n \in Nat /\ stats.jitter + n \in Nat
                       /\ stats.seq_gaps + n \in Nat /\ stats.seq_lost + n \in Nat
                       /\ stats.bad_index + n \in Nat /\ stats.bad_value + n \in Nat
                       /\ stats.cameras_seen + n \in Nat
                       /\ stats.unexpected_cams + n \in Nat
    BY <1>2 DEF Stats
  <2>4. stats.received + 1 \in Nat /\ stats.bad_parse \in Nat
    BY <1>2 DEF Stats
  <2> QED BY <2>1, <2>2, <2>3, <2>4, Zenon DEF Checked, Stats
<1>5. ASSUME NEW i \in CamFind(f.camera_id),
             NEW cam, cam = IF cams[i].seen THEN cams[i] ELSE FirstSight(f.camera_id),
             cams'  = [cams EXCEPT ![i] = Remember(cam, f)],
             stats' = Checked(cam, f, ~cams[i].seen)
      PROVE  cams' \in [Slot -> CamState] /\ stats' \in Stats
  <2>1. i \in Slot
    BY CamFindSlot
  <2>2. cam \in CamState
    BY <1>1, <1>2, <1>5, <2>1, FirstSightType
  <2> QED BY <1>2, <1>4, <1>5, <2>1, <2>2, RememberType
<1>6. QED BY <1>3, <1>5 DEF Validate

-----------------------------------------------------------------------------
(***************************************************************************)
(* Type correctness.  The counters stay natural numbers: in particular     *)
(* seq_lost never takes a step below zero.                                 *)
(***************************************************************************)
LEMMA InitType == SinkInit => SinkTypeOK
<1> USE SinkAssumption
<1> SUFFICES ASSUME SinkInit PROVE SinkTypeOK
  OBVIOUS
<1>1. cams \in [Slot -> CamState]
  BY DEF SinkInit, NoCam, CamState
<1>2. stats \in Stats
  BY DEF SinkInit, Stats
<1>3. decoded \in [capacity : Nat, count : Nat, room : Nat]
  BY DEF SinkInit, Frames!NewFrame, FirstCapacity
<1>4. heard \in [CameraId -> Seq(Frame(CameraId))]
  BY EmptySeq DEF SinkInit
<1>5. refused \in Seq(Refusal)
  BY EmptySeq DEF SinkInit
<1>6. QED BY <1>1, <1>2, <1>3, <1>4, <1>5 DEF SinkTypeOK, SinkInit

\* The width sink_expect asks for.
LEMMA LargestType ==
  ASSUME NEW table \in SpecTables
  PROVE  Largest(table) \subseteq Nat
<1>1. table \in Seq(CamSpec)
  BY SinkAssumption
<1>2. \A j \in 1 .. Len(table) : table[j] \in CamSpec
  BY <1>1, ElementOfSeq, Zenon
<1>3. DOMAIN table = 1 .. Len(table)
  BY <1>1, LenProperties
<1>4. \A j \in DOMAIN table : table[j].max_sites \in Nat
  BY <1>2, <1>3 DEF CamSpec
<1>5. QED BY <1>4 DEF Largest

LEMMA ExpectType ==
  ASSUME SinkTypeOK, NEW table \in SpecTables, SinkExpect(table)
  PROVE  SinkTypeOK'
<1> USE SinkAssumption
<1>1. specs' \in SpecTables \cup {<<>>}
  BY DEF SinkExpect
<1>2. Largest(table) \subseteq Nat
  BY LargestType
<1>3. decoded' \in [capacity : Nat, count : Nat, room : Nat]
  BY <1>2, ReserveType DEF SinkExpect, SinkTypeOK
<1>4. QED BY <1>1, <1>3 DEF SinkExpect, SinkTypeOK

LEMMA RecvType ==
  ASSUME SinkTypeOK, NEW m \in Message(CameraId), RecvMessage(m)
  PROVE  SinkTypeOK'
<1>1. PICK d \in Decodings(m) :
        /\ decoded' = d.frame
        /\ IF d.status = "ok"
           THEN /\ Validate(Unpacked(m))
                /\ heard' = [heard EXCEPT ![m.camera_id] = Append(@, Unpacked(m))]
                /\ UNCHANGED refused
           ELSE /\ stats' = BadParse
                /\ refused' = Append(refused, d.status)
                /\ UNCHANGED <<cams, heard>>
        /\ UNCHANGED specs
  BY DEF RecvMessage
<1>2. decoded' \in [capacity : Nat, count : Nat, room : Nat]
  BY <1>1, DecodingsType
<1>3. CASE d.status = "ok"
  <2>1. Unpacked(m) \in Frame(CameraId) /\ m.camera_id \in CameraId
    BY <1>1, <1>3, DecodingsType, UnpackedType DEF Message
  <2>2. cams' \in [Slot -> CamState] /\ stats' \in Stats
    BY <1>1, <1>3, <2>1, ValidateType
  <2>3. Append(heard[m.camera_id], Unpacked(m)) \in Seq(Frame(CameraId))
    BY <2>1, AppendProperties DEF SinkTypeOK
  <2>4. heard' \in [CameraId -> Seq(Frame(CameraId))]
    BY <1>1, <1>3, <2>1, <2>3 DEF SinkTypeOK
  <2> QED BY <1>1, <1>2, <1>3, <2>2, <2>4 DEF SinkTypeOK
<1>4. CASE d.status # "ok"
  <2>0. stats' = BadParse /\ refused' = Append(refused, d.status)
    BY <1>1, <1>4
  <2>1. stats' \in Stats
    <3>1. stats \in Stats
      BY DEF SinkTypeOK
    <3> DEFINE counted == [stats EXCEPT !.received = @ + 1]
    <3>2. counted \in Stats /\ counted.bad_parse = stats.bad_parse
      BY <3>1 DEF Stats
    <3>3. [counted EXCEPT !.bad_parse = stats.bad_parse + 1] \in Stats
      <4> HIDE DEF counted
      <4> QED BY <3>1, <3>2 DEF Stats
    <3> QED BY <2>0, <3>3 DEF BadParse
  <2>2. d.status \in Refusal
    BY <1>1, <1>4, DecodingsType
  <2>3. refused' \in Seq(Refusal)
    BY <2>0, <2>2, AppendProperties DEF SinkTypeOK
  <2> QED BY <1>1, <1>2, <1>4, <2>1, <2>3 DEF SinkTypeOK
<1>5. QED BY <1>3, <1>4

\* The decode frame never shrinks.
LEMMA RecvGrows ==
  ASSUME SinkTypeOK, NEW m \in Message(CameraId), RecvMessage(m)
  PROVE  decoded'.capacity >= decoded.capacity
<1> DEFINE first == UnpackStatus(m, decoded.capacity)
           told  == [decoded EXCEPT
                       !.count = IF first \in {"ok", "capacity"} THEN m.count ELSE @]
<1>1. decoded \in [capacity : Nat, count : Nat, room : Nat] /\ m.count \in Nat
  BY DEF SinkTypeOK, Message
<1>2. told \in [capacity : Nat, count : Nat, room : Nat]
      /\ told.capacity = decoded.capacity
  BY <1>1
<1>3. PICK d \in Decodings(m) : decoded' = d.frame
  BY DEF RecvMessage
<1>4. CASE first # "capacity"
  BY <1>1, <1>2, <1>3, <1>4 DEF Decodings
<1>5. CASE first = "capacity"
  <2>1. PICK r \in Frames!Reserve(told, m.count) : d.frame = r.frame
    BY <1>3, <1>5 DEF Decodings
  <2> HIDE DEF told
  <2>2. \/ r.frame.capacity = told.capacity
        \/ told.capacity < m.count /\ r.frame.capacity = m.count
    <3>1. CASE m.count <= told.capacity
      BY <3>1 DEF Frames!Reserve
    <3>2. CASE ~(m.count <= told.capacity)
      <4>1. \/ r.frame = [told EXCEPT !.capacity = m.count,
                                      !.room = IF @ < told.capacity THEN @ ELSE m.count]
            \/ \E how : r.frame = [told EXCEPT !.room = IF how = "dangling" THEN 0 ELSE @]
        BY <3>2 DEF Frames!Reserve
      <4>2. \A k : /\ [told EXCEPT !.room = k].capacity = told.capacity
                   /\ [told EXCEPT !.capacity = m.count, !.room = k].capacity = m.count
        BY <1>2
      <4>3. \/ \E k : r.frame = [told EXCEPT !.capacity = m.count, !.room = k]
            \/ \E k : r.frame = [told EXCEPT !.room = k]
        BY <4>1, Zenon
      <4>4. told.capacity < m.count
        BY <1>1, <1>2, <3>2
      <4>5. r.frame.capacity = told.capacity \/ r.frame.capacity = m.count
        BY <4>2, <4>3, Zenon
      <4> QED BY <4>4, <4>5
    <3> QED BY <3>1, <3>2
  <2> QED BY <1>1, <1>2, <1>3, <2>1, <2>2
<1> QED BY <1>4, <1>5

\* A message that fits is checked and heard.
LEMMA RecvAccepts ==
  ASSUME NEW m, UnpackStatus(m, decoded.capacity) = "ok", RecvMessage(m)
  PROVE  /\ Validate(Unpacked(m))
         /\ heard' = [heard EXCEPT ![m.camera_id] = Append(@, Unpacked(m))]
         /\ UNCHANGED refused
<1>1. \A d \in Decodings(m) : d.status = "ok"
  BY DEF Decodings
<1> QED BY <1>1 DEF RecvMessage

\* A message leaves the streams of the other cameras alone.
LEMMA RecvElsewhere ==
  ASSUME SinkTypeOK, NEW m, RecvMessage(m), NEW id \in CameraId, id # m.camera_id
  PROVE  heard'[id] = heard[id]
BY DEF RecvMessage, SinkTypeOK

LEMMA NextType == SinkTypeOK /\ [SinkNext]_sinkVars => SinkTypeOK'
<1> SUFFICES ASSUME SinkTypeOK, [SinkNext]_sinkVars PROVE SinkTypeOK'
  OBVIOUS
<1>1. ASSUME NEW table \in SpecTables, SinkExpect(table) PROVE SinkTypeOK'
  BY <1>1, ExpectType
<1>2. ASSUME NEW m \in Arrivals, RecvMessage(m) PROVE SinkTypeOK'
  BY <1>2, RecvType, SinkAssumption
<1>3. CASE UNCHANGED sinkVars
  BY <1>3 DEF sinkVars, SinkTypeOK
<1>4. QED BY <1>1, <1>2, <1>3 DEF SinkNext, Register, Receive

\* Every state of the sink has the types of SinkTypeOK: sink_recv, sink_expect.
THEOREM SinkTypeCorrect == SinkSpec => []SinkTypeOK
<1>1. QED BY InitType, NextType, PTL DEF SinkSpec

-----------------------------------------------------------------------------
(***************************************************************************)
(* The reused decode frame of the sink, for messages and tables of every   *)
(* width.  Both results rest on the frame contract: room never falls       *)
(* behind capacity until a growth leaves the frame with a freed array, and *)
(* then there is none at all.                                              *)
(***************************************************************************)
RoomForCapacity == Usable => decoded.capacity <= decoded.room

\* The frames of FrameContract.
ContractFrame == [capacity : Nat, count : Nat, room : Nat]

\* frame_reserve keeps the room, the count and its word.
LEMMA ReserveRoom ==
  ASSUME NEW d \in ContractFrame, d.room # 0, d.capacity <= d.room,
         NEW n \in Nat, NEW r \in Frames!Reserve(d, n)
  PROVE  /\ r.frame.room # 0 => r.frame.capacity <= r.frame.room
         /\ r.frame.room = 0 => ~r.ok
         /\ r.frame.count = d.count
         /\ r.ok => n <= r.frame.capacity
<1>1. CASE n <= d.capacity
  <2>1. r = [frame |-> d, ok |-> TRUE]
    BY <1>1 DEF Frames!Reserve
  <2> QED BY <1>1, <2>1
<1>2. CASE ~(n <= d.capacity)
  <2>1. CASE r = [frame |-> [d EXCEPT !.capacity = n,
                                      !.room = IF @ < d.capacity THEN @ ELSE n],
                  ok    |-> TRUE]
    <3> DEFINE grown == [d EXCEPT !.capacity = n]
    <3>1. /\ grown \in ContractFrame
          /\ grown.capacity = n /\ grown.count = d.count /\ grown.room = d.room
      BY DEF ContractFrame
    <3>2. r.frame = [grown EXCEPT !.room = n] /\ r.ok
      <4>1. ~(d.room < d.capacity)
        BY DEF ContractFrame
      <4> QED BY <2>1, <4>1
    <3>3. n # 0
      BY <1>2 DEF ContractFrame
    <3> HIDE DEF grown
    <3> QED BY <3>1, <3>2, <3>3 DEF ContractFrame
  <2>2. ASSUME NEW how \in ReserveFailures,
               r = [frame |-> [d EXCEPT !.room = IF how = "dangling" THEN 0 ELSE @],
                    ok    |-> FALSE]
        PROVE  /\ r.frame.room # 0 => r.frame.capacity <= r.frame.room
               /\ r.frame.count = d.count
               /\ ~r.ok
    <3>1. CASE how = "dangling"
      <4>1. r.frame = [d EXCEPT !.room = 0] /\ ~r.ok
        BY <2>2, <3>1
      <4> QED BY <4>1 DEF ContractFrame
    <3>2. CASE how # "dangling"
      <4>1. r.frame = [d EXCEPT !.room = d.room] /\ ~r.ok
        BY <2>2, <3>2
      <4> QED BY <4>1 DEF ContractFrame
    <3> QED BY <3>1, <3>2
  <2> QED BY <1>2, <2>1, <2>2 DEF Frames!Reserve
<1>3. QED BY <1>1, <1>2

\* A growth may always be granted, and one that is not leaves the capacity.
LEMMA ReserveWays ==
  ASSUME NEW d \in ContractFrame, NEW n \in Nat, d.capacity < n
  PROVE  /\ \E r \in Frames!Reserve(d, n) : r.ok /\ r.frame.capacity = n
         /\ \A r \in Frames!Reserve(d, n) :
              /\ r.ok => r.frame.capacity = n
              /\ ~r.ok => r.frame.capacity = d.capacity
<1> DEFINE grown == [d EXCEPT !.capacity = n]
           room  == IF d.room < d.capacity THEN d.room ELSE n
           yes   == [frame |-> [grown EXCEPT !.room = room], ok |-> TRUE]
           No(how) == [frame |-> [d EXCEPT !.room = IF how = "dangling" THEN 0 ELSE @],
                       ok |-> FALSE]
<1>1. ~(n <= d.capacity)
  BY DEF ContractFrame
<1>2. Frames!Reserve(d, n) = {yes} \cup {No(how) : how \in ReserveFailures}
  BY <1>1 DEF Frames!Reserve
<1>3. yes.ok /\ yes.frame.capacity = n
  <2>1. grown \in ContractFrame /\ grown.capacity = n
    BY DEF ContractFrame
  <2> HIDE DEF grown, room
  <2> QED BY <2>1 DEF ContractFrame
<1>4. \A how : ~No(how).ok /\ No(how).frame.capacity = d.capacity
  BY DEF ContractFrame
<1> HIDE DEF yes, No
<1> QED BY <1>2, <1>3, <1>4

\* What frame_wire_unpack says of a message and a capacity.
LEMMA UnpackFits ==
  ASSUME NEW m \in Message(CameraId), NEW c \in Nat
  PROVE  /\ UnpackStatus(m, c) = "ok" => m.count <= c
         /\ UnpackStatus(m, c) = "capacity" => c < m.count
         /\ Peek(m) = "ok" /\ m.count <= c => UnpackStatus(m, c) = "ok"
         /\ Peek(m) = "ok" => UnpackStatus(m, c) \in {"ok", "capacity"}
<1>1. m.count \in Nat
  BY DEF Message
<1> QED BY <1>1 DEF UnpackStatus, Peek

\* The first attempt to decode a message.
Told(m) ==
  [decoded EXCEPT !.count = IF UnpackStatus(m, decoded.capacity) \in {"ok", "capacity"}
                            THEN m.count ELSE @]

LEMMA ToldFrame ==
  ASSUME SinkTypeOK, NEW m \in Message(CameraId)
  PROVE  /\ decoded \in ContractFrame /\ m.count \in Nat
         /\ Told(m) \in ContractFrame /\ Told(m).capacity = decoded.capacity
         /\ Told(m).room = decoded.room
         /\ UnpackStatus(m, decoded.capacity) \in {"ok", "capacity"}
              => Told(m).count = m.count
<1>1. decoded \in ContractFrame /\ m.count \in Nat
  BY DEF SinkTypeOK, Message, ContractFrame
<1> QED BY <1>1 DEF ContractFrame, Told

\* The two ways a message is decoded: at once, or after a growth.
LEMMA DecodingWays ==
  ASSUME SinkTypeOK, NEW m \in Message(CameraId), NEW d
  PROVE  /\ UnpackStatus(m, decoded.capacity) # "capacity" =>
              (d \in Decodings(m) <=>
                 d = [frame |-> Told(m), status |-> UnpackStatus(m, decoded.capacity)])
         /\ UnpackStatus(m, decoded.capacity) = "capacity" =>
              (d \in Decodings(m) <=>
                 \E r \in Frames!Reserve(Told(m), m.count) :
                   d = [frame  |-> r.frame,
                        status |-> IF r.ok THEN UnpackStatus(m, r.frame.capacity)
                                   ELSE "capacity"])
<1>1. UnpackStatus(m, decoded.capacity) = "capacity" => Told(m).count = m.count
  BY ToldFrame
<1>2. CASE UnpackStatus(m, decoded.capacity) # "capacity"
  BY <1>2 DEF Decodings, Told
<1>3. CASE UnpackStatus(m, decoded.capacity) = "capacity"
  <2> DEFINE told == [decoded EXCEPT
                        !.count = IF UnpackStatus(m, decoded.capacity)
                                       \in {"ok", "capacity"} THEN m.count ELSE @]
             Kept(r) == [frame  |-> r.frame,
                         status |-> IF r.ok THEN UnpackStatus(m, r.frame.capacity)
                                    ELSE "capacity"]
  <2>1. Decodings(m) = {Kept(r) : r \in Frames!Reserve(told, told.count)}
    BY <1>3 DEF Decodings
  <2>2. told = Told(m)
    BY DEF Told
  <2> HIDE DEF told
  <2>3. Decodings(m) = {Kept(r) : r \in Frames!Reserve(Told(m), m.count)}
    BY <1>1, <1>3, <2>1, <2>2
  <2> QED BY <1>3, <2>3
<1> QED BY <1>2, <1>3

\* Decode, grow, decode again.
LEMMA DecodingsRoom ==
  ASSUME SinkTypeOK, RoomForCapacity, Usable,
         NEW m \in Message(CameraId), NEW d \in Decodings(m)
  PROVE  /\ d.frame.room # 0 => d.frame.capacity <= d.frame.room
         /\ d.frame.room = 0 => d.status # "ok"
         /\ d.status = "ok" => d.frame.count <= d.frame.room
<1> DEFINE first == UnpackStatus(m, decoded.capacity)
<1>1. /\ decoded \in ContractFrame /\ m.count \in Nat
      /\ Told(m) \in ContractFrame /\ Told(m).capacity = decoded.capacity
      /\ Told(m).room = decoded.room
      /\ first \in {"ok", "capacity"} => Told(m).count = m.count
  BY ToldFrame
<1>2. Told(m).room # 0 /\ Told(m).capacity <= Told(m).room
  BY <1>1 DEF RoomForCapacity, Usable
<1>3. \A c \in Nat : UnpackStatus(m, c) = "ok" => m.count <= c
  BY UnpackFits
<1>4. CASE first # "capacity"
  <2>1. d = [frame |-> Told(m), status |-> first]
    BY <1>4, DecodingWays
  <2>2. first = "ok" => m.count <= decoded.capacity
    BY <1>1, <1>3 DEF ContractFrame
  <2> HIDE DEF first
  <2> QED BY <1>1, <1>2, <2>1, <2>2 DEF ContractFrame
<1>5. CASE first = "capacity"
  <2>1. PICK r \in Frames!Reserve(Told(m), m.count) :
          d = [frame |-> r.frame,
               status |-> IF r.ok THEN UnpackStatus(m, r.frame.capacity) ELSE "capacity"]
    BY <1>5, DecodingWays
  <2>2. /\ r.frame.room # 0 => r.frame.capacity <= r.frame.room
        /\ r.frame.room = 0 => ~r.ok
        /\ r.frame.count = m.count
        /\ r.ok => m.count <= r.frame.capacity
    BY <1>1, <1>2, <1>5, ReserveRoom
  <2>3. r.frame \in ContractFrame
    BY <1>1, ReserveType DEF ContractFrame
  <2>4. d.frame = r.frame /\ (d.status = "ok" => r.ok)
    BY <2>1
  <2> QED BY <1>1, <2>2, <2>3, <2>4 DEF ContractFrame
<1> QED BY <1>4, <1>5

LEMMA RoomInit == SinkInit => RoomForCapacity
BY SinkAssumption DEF SinkInit, RoomForCapacity, Frames!NewFrame, FirstCapacity

LEMMA RoomNext ==
  ASSUME SinkTypeOK, RoomForCapacity, [SinkNext]_sinkVars
  PROVE  /\ RoomForCapacity'
         /\ heard' # heard => decoded'.count <= decoded'.room
         /\ stats'.received > stats.received /\ decoded'.room = 0 => Failed'
<1>1. ASSUME NEW table \in SpecTables, Usable, SinkExpect(table)
      PROVE  RoomForCapacity' /\ UNCHANGED <<heard, stats>>
  <2>1. PICK largest \in Largest(table) :
          \E r \in Frames!Reserve(decoded, largest) : decoded' = r.frame
    BY <1>1 DEF SinkExpect
  <2>2. largest \in Nat
    BY LargestType
  <2> QED BY <1>1, <2>1, <2>2, ReserveRoom DEF SinkTypeOK, SinkExpect, RoomForCapacity,
             ContractFrame, Usable
<1>2. ASSUME NEW m \in Arrivals, Usable, RecvMessage(m)
      PROVE  /\ RoomForCapacity'
             /\ heard' # heard => decoded'.count <= decoded'.room
             /\ decoded'.room = 0 => Failed'
  <2>1. m \in Message(CameraId)
    BY SinkAssumption
  <2>2. PICK d \in Decodings(m) :
          /\ decoded' = d.frame
          /\ d.status # "ok" => UNCHANGED heard /\ stats' = BadParse
    BY <1>2 DEF RecvMessage
  <2>3. /\ d.frame.room # 0 => d.frame.capacity <= d.frame.room
        /\ d.frame.room = 0 => d.status # "ok"
        /\ d.status = "ok" => d.frame.count <= d.frame.room
    BY <1>2, <2>1, DecodingsRoom
  <2>4. ASSUME stats' = BadParse PROVE Failed'
    <3>1. stats \in Stats
      BY DEF SinkTypeOK
    <3>2. stats'.bad_parse = stats.bad_parse + 1 /\ stats.bad_parse \in Nat
      BY <2>4, <3>1 DEF BadParse, Stats
    <3> QED BY <3>2 DEF Failed
  <2> QED BY <2>2, <2>3, <2>4 DEF RoomForCapacity, Usable
<1>3. CASE UNCHANGED sinkVars
  <2>1. stats.received \in Nat
    BY DEF SinkTypeOK, Stats
  <2> QED BY <1>3, <2>1 DEF sinkVars, RoomForCapacity, Usable
<1>4. ASSUME UNCHANGED stats PROVE ~(stats'.received > stats.received)
  BY <1>4 DEF SinkTypeOK, Stats
<1>5. QED BY <1>1, <1>2, <1>3, <1>4 DEF SinkNext, Register, Receive

(***************************************************************************)
(* Every frame handed to the checks fits in both arrays of the decode      *)
(* frame, for messages and tables of every width and for growths that fail *)
(* in either way; and the message whose growth leaves a freed array fails  *)
(* the run.  What the sink does after that growth is not covered.          *)
(***************************************************************************)
THEOREM FrameAlwaysFits == SinkSpec => FrameFits
<1> DEFINE Fits == /\ heard' # heard => decoded'.count <= decoded'.room
                   /\ stats'.received > stats.received /\ decoded'.room = 0 => Failed'
<1>1. SinkInit => SinkTypeOK /\ RoomForCapacity
  BY InitType, RoomInit
<1>2. SinkTypeOK /\ RoomForCapacity /\ [SinkNext]_sinkVars
        => (SinkTypeOK /\ RoomForCapacity)'
  BY NextType, RoomNext
<1>3. SinkTypeOK /\ RoomForCapacity /\ [SinkNext]_sinkVars => [Fits]_sinkVars
  BY RoomNext
<1>4. FrameFits <=> [][Fits]_sinkVars
  BY DEF FrameFits
<1> HIDE DEF Fits
<1>5. QED BY <1>1, <1>2, <1>3, <1>4, PTL DEF SinkSpec

(***************************************************************************)
(* A well-formed message gets through if the growth it needs is granted,   *)
(* and is refused only where the frame was too small and did not grow,     *)
(* however wide the messages and the tables before it were and whichever   *)
(* growths failed.  sink_recv, sink_expect.                                *)
(***************************************************************************)
THEOREM WidthNeverRefused == SinkSpec => []WidthRefusedOnlyWithoutMemory
<1>1. ASSUME SinkTypeOK, NEW m \in Arrivals, Peek(m) = "ok"
      PROVE  /\ \E d \in Decodings(m) : d.status = "ok"
             /\ \A d \in Decodings(m) :
                  d.status # "ok" => /\ d.frame.capacity = decoded.capacity
                                     /\ decoded.capacity < m.count
  <2> DEFINE first == UnpackStatus(m, decoded.capacity)
             Kept(r) == [frame  |-> r.frame,
                         status |-> IF r.ok THEN UnpackStatus(m, r.frame.capacity)
                                    ELSE "capacity"]
  <2>1. m \in Message(CameraId)
    BY SinkAssumption
  <2>2. /\ decoded.capacity \in Nat /\ m.count \in Nat
        /\ Told(m) \in ContractFrame /\ Told(m).capacity = decoded.capacity
    BY <1>1, <2>1, ToldFrame DEF ContractFrame
  <2>3. first \in {"ok", "capacity"} /\ (first = "capacity" => decoded.capacity < m.count)
    BY <1>1, <2>1, <2>2, UnpackFits
  <2>4. CASE first = "ok"
    <3> DEFINE once == [frame |-> Told(m), status |-> first]
    <3>1. \A d : d \in Decodings(m) <=> d = once
      BY <1>1, <2>1, <2>4, DecodingWays
    <3>2. once.status = "ok"
      BY <2>4
    <3> HIDE DEF once
    <3> QED BY <3>1, <3>2
  <2>5. CASE first = "capacity"
    <3>1. \A d : d \in Decodings(m) <=>
                   \E r \in Frames!Reserve(Told(m), m.count) : d = Kept(r)
      BY <1>1, <2>1, <2>5, DecodingWays
    <3>2. /\ \E r \in Frames!Reserve(Told(m), m.count) : r.ok /\ r.frame.capacity = m.count
          /\ \A r \in Frames!Reserve(Told(m), m.count) :
               /\ r.ok => r.frame.capacity = m.count
               /\ ~r.ok => r.frame.capacity = decoded.capacity
      BY <2>2, <2>3, <2>5, ReserveWays
    <3>3. UnpackStatus(m, m.count) = "ok"
      BY <1>1, <2>1, <2>2, UnpackFits
    <3>4. \A r : /\ Kept(r).frame = r.frame
                 /\ r.ok => Kept(r).status = UnpackStatus(m, r.frame.capacity)
      OBVIOUS
    <3> HIDE DEF Kept
    <3>5. \A r \in Frames!Reserve(Told(m), m.count) :
            /\ r.ok => Kept(r).status = "ok"
            /\ ~r.ok => Kept(r).frame.capacity = decoded.capacity
      BY <3>2, <3>3, <3>4
    <3> QED BY <2>3, <2>5, <3>1, <3>2, <3>5
  <2> QED BY <2>3, <2>4, <2>5
<1>2. SinkTypeOK => WidthRefusedOnlyWithoutMemory
  BY <1>1 DEF WidthRefusedOnlyWithoutMemory
<1>3. QED BY <1>2, SinkTypeCorrect, PTL

-----------------------------------------------------------------------------
(***************************************************************************)
(* The sink compares each frame with one remembered frame of its camera    *)
(* and keeps one counter per check for all cameras together.  Proved here: *)
(* the table always remembers the right frame, and a counter that is still *)
(* zero therefore vouches for whole streams, so that PASS can be trusted.  *)
(*                                                                         *)
(* The inductive invariant is SinkTypeOK /\ TableTracksStreams             *)
(* /\ CountersTellTruth.  TableTracksStreams is inductive on its types     *)
(* alone; CountersTellTruth needs it to know that the remembered frame is  *)
(* the last one of the stream.                                             *)
(***************************************************************************)
(***************************************************************************)
(* One more frame at the end of a stream.                                  *)
(***************************************************************************)

LEMMA AppendFrame ==
  ASSUME NEW s \in Seq(Frame(CameraId)), NEW f \in Frame(CameraId)
  PROVE  /\ Append(s, f) \in Seq(Frame(CameraId))
         /\ Append(s, f) # <<>>
         /\ Len(s) \in Nat
         /\ DOMAIN s = 1 .. Len(s)
         /\ Len(Append(s, f)) = Len(s) + 1
         /\ DOMAIN Append(s, f) = 1 .. Len(s) + 1
         /\ Append(s, f)[Len(s) + 1] = f
         /\ \A k \in 1 .. Len(s) : /\ Append(s, f)[k] = s[k]
                                   /\ s[k] \in Frame(CameraId)
         /\ s # <<>> <=> Len(s) > 0
BY AppendProperties, LenProperties, ElementOfSeq, EmptySeq

LEMMA AppendContiguous ==
  ASSUME NEW s \in Seq(Frame(CameraId)), NEW f \in Frame(CameraId), Contiguous(s),
         s # <<>> => f.sequence = s[Len(s)].sequence + 1
  PROVE  Contiguous(Append(s, f))
<1> DEFINE t == Append(s, f)
           n == Len(s)
<1>1. /\ n \in Nat /\ DOMAIN s = 1 .. n /\ DOMAIN t = 1 .. n + 1 /\ t[n + 1] = f
      /\ \A k \in 1 .. n : t[k] = s[k] /\ s[k].sequence \in Nat
      /\ s # <<>> <=> n > 0
  BY AppendFrame DEF Frame
<1>2. f.sequence \in Nat
  BY DEF Frame
<1>3. ASSUME NEW k \in 1 .. n + 1 PROVE t[k].sequence = t[1].sequence + k - 1
  <2>1. CASE n = 0
    BY <1>1, <1>2, <2>1
  <2>2. CASE n > 0 /\ k <= n
    <3>1. s[k].sequence = s[1].sequence + k - 1
      BY <1>1, <2>2 DEF Contiguous
    <3> QED BY <1>1, <2>2, <3>1
  <2>3. CASE n > 0 /\ k = n + 1
    <3>1. s[n].sequence = s[1].sequence + n - 1
      BY <1>1, <2>3 DEF Contiguous
    <3> QED BY <1>1, <2>3, <3>1
  <2> QED BY <1>1, <2>1, <2>2, <2>3
<1>4. QED BY <1>1, <1>3 DEF Contiguous

LEMMA AppendAscending ==
  ASSUME NEW s \in Seq(Frame(CameraId)), NEW f \in Frame(CameraId), Ascending(s),
         s # <<>> => f.t_ns > s[Len(s)].t_ns
  PROVE  Ascending(Append(s, f))
<1> DEFINE t == Append(s, f)
           n == Len(s)
<1>1. /\ n \in Nat /\ DOMAIN s = 1 .. n /\ DOMAIN t = 1 .. n + 1 /\ t[n + 1] = f
      /\ \A k \in 1 .. n : t[k] = s[k] /\ s[k].t_ns \in Int
      /\ s # <<>> <=> n > 0
  BY AppendFrame DEF Frame
<1>2. f.t_ns \in Int
  BY DEF Frame
<1>3. ASSUME NEW k \in 1 .. n + 1, NEW l \in 1 .. n + 1, k < l
      PROVE  t[k].t_ns < t[l].t_ns
  <2>1. CASE l <= n
    BY <1>1, <1>3, <2>1 DEF Ascending
  <2>2. CASE l = n + 1
    <3>1. k \in 1 .. n /\ n > 0 /\ f.t_ns > s[n].t_ns
      BY <1>1, <1>3, <2>2
    <3>2. s[k].t_ns <= s[n].t_ns
      BY <1>1, <3>1 DEF Ascending
    <3> QED BY <1>1, <1>2, <2>2, <3>1, <3>2
  <2> QED BY <1>1, <2>1, <2>2
<1>4. QED BY <1>1, <1>3 DEF Ascending

LEMMA AppendSites ==
  ASSUME NEW s \in Seq(Frame(CameraId)), NEW f \in Frame(CameraId), Whole(f),
         NEW cam \in CamState, SitesBelow(s, cam.max_sites), ~IndexBad(cam, f)
  PROVE  SitesBelow(Append(s, f), cam.max_sites)
<1> DEFINE t == Append(s, f)
           n == Len(s)
<1>1. /\ n \in Nat /\ DOMAIN s = 1 .. n /\ DOMAIN t = 1 .. n + 1 /\ t[n + 1] = f
      /\ \A k \in 1 .. n : t[k] = s[k]
  BY AppendFrame
<1>2. cam.max_sites \in Nat
  BY DEF CamState
<1>3. cam.max_sites # 0 => \A e \in 1 .. f.count : f.support[e] < cam.max_sites
  BY <1>2 DEF IndexBad, Whole
<1>4. QED BY <1>1, <1>3 DEF SitesBelow

LEMMA AppendValues ==
  ASSUME NEW s \in Seq(Frame(CameraId)), NEW f \in Frame(CameraId),
         ValuesInRange(s), ~ValueBad(f)
  PROVE  ValuesInRange(Append(s, f))
<1> DEFINE t == Append(s, f)
           n == Len(s)
<1>1. /\ n \in Nat /\ DOMAIN s = 1 .. n /\ DOMAIN t = 1 .. n + 1 /\ t[n + 1] = f
      /\ \A k \in 1 .. n : t[k] = s[k]
  BY AppendFrame
<1>2. ASSUME NEW k \in 1 .. n + 1
      PROVE  \A e \in 1 .. t[k].count : t[k].signal[e] \in 0 .. 255
  <2>1. CASE k <= n
    <3>1. k \in DOMAIN s /\ t[k] = s[k]
      BY <1>1, <2>1
    <3>2. \A e \in 1 .. s[k].count : s[k].signal[e] \in 0 .. 255
      BY <3>1, Zenon DEF ValuesInRange
    <3> QED BY <3>1, <3>2, Zenon
  <2>2. CASE k = n + 1
    <3>1. \A e \in 1 .. f.count : f.signal[e] \in 0 .. 255
      BY Zenon DEF ValueBad
    <3>2. t[k] = f
      BY <1>1, <2>2
    <3> QED BY <3>1, <3>2, Zenon
  <2>3. k <= n \/ k = n + 1
    BY <1>1
  <2> QED BY <2>1, <2>2, <2>3, Zenon
<1>3. \A k \in DOMAIN t : \A e \in 1 .. t[k].count : t[k].signal[e] \in 0 .. 255
  BY <1>1, <1>2, Zenon
<1>4. QED BY <1>3, Zenon DEF ValuesInRange
-----------------------------------------------------------------------------
(***************************************************************************)
(* What cam_find gives sink_validate to compare a frame of camera id with. *)
(***************************************************************************)
Given(i, id) == IF cams[i].seen THEN cams[i] ELSE FirstSight(id)

\* The slot remembers the last frame of this camera, and no other slot is its.
LEMMA SlotOfCamera ==
  ASSUME SinkTypeOK, TableTracksStreams, NEW id \in CameraId, NEW i \in CamFind(id)
  PROVE  /\ Given(i, id) \in CamState
         /\ Given(i, id).seen
         /\ Given(i, id).camera_id = id
         /\ Given(i, id).frames = Len(heard[id])
         /\ heard[id] # <<>> =>
              /\ Given(i, id).last_seq  = heard[id][Len(heard[id])].sequence
              /\ Given(i, id).last_t_ns = heard[id][Len(heard[id])].t_ns
         /\ ~cams[i].seen => heard[id] = <<>>
         /\ \A j \in Slot : j # i /\ cams[j].seen => cams[j].camera_id # id
<1>1. /\ i \in Slot
      /\ cams[i].seen => cams[i].camera_id = id
      /\ ~cams[i].seen => SeenSlots(cams, id) = {}
  BY CamFindSlot
<1>2. CASE cams[i].seen
  BY <1>1, <1>2 DEF Given, TableTracksStreams, SinkTypeOK
<1>3. CASE ~cams[i].seen
  <2>1. i \in FreeSlots(cams)
    BY <1>1, <1>3 DEF FreeSlots
  <2>2. heard[id] = <<>>
    BY <1>1, <1>3, <2>1 DEF TableTracksStreams, Speakers
  <2>3. \A j \in Slot : cams[j].seen => cams[j].camera_id # id
    BY <1>1, <1>3 DEF SeenSlots
  <2>4. Len(heard[id]) = 0
    BY <2>2
  <2> QED BY <1>3, <2>2, <2>3, <2>4, FirstSightType DEF Given
<1>4. QED BY <1>2, <1>3

\* With the table full no slot is this camera's.
LEMMA NoSlot ==
  ASSUME NEW id, CamFind(id) = {}
  PROVE  /\ FreeSlots(cams) = {}
         /\ \A j \in Slot : cams[j].seen => cams[j].camera_id # id
BY DEF CamFind, SeenSlots

\* The frame that is heard changes no other camera's stream.
LEMMA HeardOne ==
  ASSUME SinkTypeOK, NEW f \in Frame(CameraId), f.camera_id \in CameraId,
         heard' = [heard EXCEPT ![f.camera_id] = Append(@, f)]
  PROVE  /\ heard'[f.camera_id] = Append(heard[f.camera_id], f)
         /\ heard[f.camera_id] \in Seq(Frame(CameraId))
         /\ \A id \in CameraId : id # f.camera_id => heard'[id] = heard[id]
         /\ Speakers' = Speakers \cup {f.camera_id}
<1>1. /\ heard'[f.camera_id] = Append(heard[f.camera_id], f)
      /\ heard[f.camera_id] \in Seq(Frame(CameraId))
      /\ \A id \in CameraId : id # f.camera_id => heard'[id] = heard[id]
  BY DEF SinkTypeOK
<1>2. heard'[f.camera_id] # <<>>
  BY <1>1, AppendFrame
<1>3. QED BY <1>1, <1>2 DEF Speakers

-----------------------------------------------------------------------------
(***************************************************************************)
(* The table.                                                              *)
(***************************************************************************)
LEMMA TableValidate ==
  ASSUME SinkTypeOK, TableTracksStreams,
         NEW f \in Frame(CameraId), Validate(f),
         heard' = [heard EXCEPT ![f.camera_id] = Append(@, f)]
  PROVE  TableTracksStreams'
<1> DEFINE id == f.camera_id
<1>1. id \in CameraId
  BY DEF Frame
<1>2. /\ heard'[id] = Append(heard[id], f) /\ heard[id] \in Seq(Frame(CameraId))
      /\ \A other \in CameraId : other # id => heard'[other] = heard[other]
      /\ Speakers' = Speakers \cup {id}
  BY <1>1, HeardOne
<1>3. ASSUME NEW j \in Slot, cams[j].seen, cams[j].camera_id # id, cams'[j] = cams[j]
      PROVE  LET stream == heard'[cams'[j].camera_id]
             IN  /\ cams'[j].camera_id \in Speakers'
                 /\ cams'[j].frames    = Len(stream)
                 /\ cams'[j].last_seq  = stream[Len(stream)].sequence
                 /\ cams'[j].last_t_ns = stream[Len(stream)].t_ns
  <2>1. cams[j].camera_id \in Speakers /\ Speakers \subseteq CameraId
    BY <1>3 DEF TableTracksStreams, Speakers
  <2>2. heard'[cams[j].camera_id] = heard[cams[j].camera_id]
    BY <1>2, <1>3, <2>1
  <2> QED BY <1>2, <1>3, <2>1, <2>2 DEF TableTracksStreams
<1>4. CASE CamFind(id) = {}
  <2>1. UNCHANGED cams
    BY <1>4 DEF Validate
  <2>2. FreeSlots(cams) = {} /\ \A j \in Slot : cams[j].seen => cams[j].camera_id # id
    BY <1>4, NoSlot
  <2>3. FreeSlots(cams)' = {}
    BY <2>1, <2>2 DEF FreeSlots
  <2> QED BY <1>3, <2>1, <2>2, <2>3 DEF TableTracksStreams
<1>5. ASSUME NEW i \in CamFind(id),
             cams' = [cams EXCEPT ![i] = Remember(Given(i, id), f)]
      PROVE  TableTracksStreams'
  <2>1. /\ Given(i, id) \in CamState /\ Given(i, id).seen
        /\ Given(i, id).camera_id = id
        /\ Given(i, id).frames = Len(heard[id])
        /\ \A j \in Slot : j # i /\ cams[j].seen => cams[j].camera_id # id
    BY <1>1, SlotOfCamera
  <2>2. i \in Slot /\ cams[i].seen => cams[i].camera_id = id
    BY CamFindSlot
  <2>3. /\ cams'[i].seen /\ cams'[i].camera_id = id
        /\ cams'[i].frames = Len(heard[id]) + 1
        /\ cams'[i].last_t_ns = f.t_ns /\ cams'[i].last_seq = f.sequence
        /\ \A j \in Slot : j # i => cams'[j] = cams[j]
    <3>1. i \in Slot /\ cams \in [Slot -> CamState]
      BY CamFindSlot DEF SinkTypeOK
    <3>2. cams'[i] = Remember(Given(i, id), f)
      BY <1>5, <3>1
    <3> QED BY <1>5, <2>1, <3>1, <3>2, RememberType
  <2>4. ASSUME NEW j \in Slot, NEW k \in Slot, cams'[j].seen, cams'[k].seen, j # k
        PROVE  cams'[j].camera_id # cams'[k].camera_id
    BY <2>1, <2>3, <2>4 DEF TableTracksStreams
  <2>5. /\ id \in Speakers' /\ Len(heard'[id]) = Len(heard[id]) + 1
        /\ heard'[id][Len(heard'[id])] = f
    BY <1>2, AppendFrame
  <2>6. FreeSlots(cams)' # {} => \A other \in Speakers' : SeenSlots(cams, other)' # {}
    <3> SUFFICES ASSUME FreeSlots(cams)' # {}, NEW other \in Speakers'
                 PROVE  \E j \in Slot : cams'[j].seen /\ cams'[j].camera_id = other
      BY DEF SeenSlots
    <3>1. CASE other = id
      BY <2>3, <3>1, CamFindSlot
    <3>2. CASE other # id
      <4>1. FreeSlots(cams) # {}
        BY <2>3 DEF FreeSlots
      <4>2. PICK j \in Slot : cams[j].seen /\ cams[j].camera_id = other
        BY <1>2, <3>2, <4>1 DEF TableTracksStreams, SeenSlots
      <4>3. j # i
        BY <2>2, <3>2, <4>2, CamFindSlot
      <4> QED BY <2>3, <4>2, <4>3
    <3> QED BY <3>1, <3>2
  <2>7. ASSUME NEW j \in Slot, cams'[j].seen
        PROVE  LET stream == heard'[cams'[j].camera_id]
               IN  /\ cams'[j].camera_id \in Speakers'
                   /\ cams'[j].frames    = Len(stream)
                   /\ cams'[j].last_seq  = stream[Len(stream)].sequence
                   /\ cams'[j].last_t_ns = stream[Len(stream)].t_ns
    <3>1. CASE j = i
      BY <2>3, <2>5, <3>1
    <3>2. CASE j # i
      BY <1>3, <2>1, <2>3, <2>7, <3>2
    <3> QED BY <3>1, <3>2
  <2> QED BY <2>4, <2>6, <2>7 DEF TableTracksStreams
<1>6. QED BY <1>4, <1>5 DEF Validate, Given

-----------------------------------------------------------------------------
(***************************************************************************)
(* The counters.                                                           *)
(***************************************************************************)

\* A counter that one more frame leaves at zero was zero, and the frame passed
\* its check.
LEMMA CheckedZero ==
  ASSUME stats \in Stats, NEW cam \in CamState, NEW f, NEW new
  PROVE  /\ Checked(cam, f, new).bad_parse = stats.bad_parse
         /\ Checked(cam, f, new).seq_gaps = 0
              => stats.seq_gaps = 0 /\ ~SequenceGap(cam, f)
         /\ Checked(cam, f, new).backwards = 0
              => stats.backwards = 0 /\ ~StampBack(cam, f)
         /\ Checked(cam, f, new).bad_index = 0
              => stats.bad_index = 0 /\ ~IndexBad(cam, f)
         /\ Checked(cam, f, new).bad_value = 0
              => stats.bad_value = 0 /\ ~ValueBad(f)
<1>1. \A n \in Nat : \A test : n + One(test) = 0 => n = 0 /\ ~test
  BY DEF One
<1>2. /\ stats.seq_gaps \in Nat /\ stats.backwards \in Nat
      /\ stats.bad_index \in Nat /\ stats.bad_value \in Nat
  BY DEF Stats
<1>3. QED BY <1>1, <1>2, Zenon DEF Checked

LEMMA CountersValidate ==
  ASSUME SinkTypeOK, TableTracksStreams, CountersTellTruth,
         NEW f \in Frame(CameraId), Whole(f), Validate(f), UNCHANGED refused,
         heard' = [heard EXCEPT ![f.camera_id] = Append(@, f)]
  PROVE  CountersTellTruth'
<1> DEFINE id == f.camera_id
           Vouched(st, cam, stream) ==
             /\ st.seq_gaps  = 0 => Contiguous(stream)
             /\ st.backwards = 0 => Ascending(stream)
             /\ st.bad_index = 0 => SitesBelow(stream, cam.max_sites)
             /\ st.bad_value = 0 => ValuesInRange(stream)
<1>1. id \in CameraId /\ f.sequence \in Nat /\ f.t_ns \in Int /\ stats \in Stats
  BY DEF Frame, SinkTypeOK
<1>2. /\ heard'[id] = Append(heard[id], f) /\ heard[id] \in Seq(Frame(CameraId))
      /\ \A other \in CameraId : other # id => heard'[other] = heard[other]
  BY <1>1, HeardOne
<1>3. ASSUME NEW j \in Slot, cams[j].seen, cams[j].camera_id # id, cams'[j] = cams[j]
      PROVE  /\ heard'[cams'[j].camera_id] = heard[cams[j].camera_id]
             /\ Vouched(stats, cams'[j], heard'[cams'[j].camera_id])
  <2>1. cams[j].camera_id \in CameraId
    BY <1>3 DEF TableTracksStreams, Speakers
  <2> QED BY <1>2, <1>3, <2>1 DEF CountersTellTruth
<1>4. CASE CamFind(id) = {}
  <2>1. UNCHANGED cams /\ stats' = [stats EXCEPT !.received = @ + 1]
    BY <1>4 DEF Validate
  <2>2. \A j \in Slot : cams[j].seen => cams[j].camera_id # id
    BY <1>4, NoSlot
  <2>3. /\ stats'.bad_parse = stats.bad_parse /\ stats'.seq_gaps = stats.seq_gaps
        /\ stats'.backwards = stats.backwards /\ stats'.bad_index = stats.bad_index
        /\ stats'.bad_value = stats.bad_value
    BY <1>1, <2>1 DEF Stats
  <2> QED BY <1>3, <2>1, <2>2, <2>3 DEF CountersTellTruth
<1>5. ASSUME NEW i \in CamFind(id),
             cams' = [cams EXCEPT ![i] = Remember(Given(i, id), f)],
             stats' = Checked(Given(i, id), f, ~cams[i].seen)
      PROVE  CountersTellTruth'
  <2> DEFINE cam == Given(i, id)
             s   == heard[id]
  <2>1. /\ cam \in CamState /\ cam.seen /\ cam.camera_id = id
        /\ cam.frames = Len(s)
        /\ s # <<>> => /\ cam.last_seq  = s[Len(s)].sequence
                       /\ cam.last_t_ns = s[Len(s)].t_ns
        /\ ~cams[i].seen => s = <<>>
        /\ \A j \in Slot : j # i /\ cams[j].seen => cams[j].camera_id # id
    BY <1>1, SlotOfCamera
  <2>2. /\ cams'[i].seen /\ cams'[i].camera_id = id
        /\ cams'[i].max_sites = cam.max_sites
        /\ \A j \in Slot : j # i => cams'[j] = cams[j]
    <3>1. i \in Slot /\ cams \in [Slot -> CamState]
      BY CamFindSlot DEF SinkTypeOK
    <3>2. cams'[i] = Remember(cam, f)
      BY <1>5, <3>1
    <3> QED BY <1>5, <2>1, <3>1, <3>2, RememberType
  <2>3. /\ stats'.bad_parse = stats.bad_parse
        /\ stats'.seq_gaps = 0 => stats.seq_gaps = 0 /\ ~SequenceGap(cam, f)
        /\ stats'.backwards = 0 => stats.backwards = 0 /\ ~StampBack(cam, f)
        /\ stats'.bad_index = 0 => stats.bad_index = 0 /\ ~IndexBad(cam, f)
        /\ stats'.bad_value = 0 => stats.bad_value = 0 /\ ~ValueBad(f)
    BY <1>1, <1>5, <2>1, CheckedZero
  <2>4. Vouched(stats, cam, s)
    <3>1. CASE cams[i].seen
      <4>1. i \in Slot /\ cams[i].camera_id = id /\ cam = cams[i]
        BY <3>1, CamFindSlot DEF Given
      <4> QED BY <3>1, <4>1 DEF CountersTellTruth
    <3>2. CASE ~cams[i].seen
      <4>1. s = <<>> /\ DOMAIN s = {}
        BY <2>1, <3>2
      <4> QED BY <4>1 DEF Contiguous, Ascending, SitesBelow, ValuesInRange
    <3> QED BY <3>1, <3>2
  <2>5. s # <<>> => cam.frames > 0 /\ s[Len(s)] \in Frame(CameraId)
    BY <1>2, <2>1, AppendFrame
  <2>6. Vouched(stats', cam, Append(s, f))
    <3>1. ASSUME stats'.seq_gaps = 0 PROVE Contiguous(Append(s, f))
      <4>1. s # <<>> => f.sequence = s[Len(s)].sequence + 1
        BY <2>1, <2>3, <2>5, <3>1 DEF SequenceGap
      <4> QED BY <1>2, <2>3, <2>4, <3>1, <4>1, AppendContiguous
    <3>2. ASSUME stats'.backwards = 0 PROVE Ascending(Append(s, f))
      <4>1. s # <<>> => f.t_ns > s[Len(s)].t_ns
        BY <1>1, <2>1, <2>3, <2>5, <3>2 DEF StampBack, Frame
      <4> QED BY <1>2, <2>3, <2>4, <3>2, <4>1, AppendAscending
    <3>3. ASSUME stats'.bad_index = 0 PROVE SitesBelow(Append(s, f), cam.max_sites)
      BY <1>2, <2>1, <2>3, <2>4, <3>3, AppendSites
    <3>4. ASSUME stats'.bad_value = 0 PROVE ValuesInRange(Append(s, f))
      BY <1>2, <2>3, <2>4, <3>4, AppendValues
    <3> QED BY <3>1, <3>2, <3>3, <3>4
  <2>7. ASSUME NEW j \in Slot, cams'[j].seen
        PROVE  Vouched(stats', cams'[j], heard'[cams'[j].camera_id])
    <3>1. CASE j = i
      BY <1>2, <2>2, <2>6, <3>1
    <3>2. CASE j # i
      <4>1. cams[j].seen /\ cams[j].camera_id # id /\ cams'[j] = cams[j]
        BY <2>1, <2>2, <2>7, <3>2
      <4>2. Vouched(stats, cams'[j], heard'[cams'[j].camera_id])
        BY <1>3, <4>1
      <4> QED BY <2>3, <4>2
    <3> QED BY <3>1, <3>2
  <2> QED BY <2>3, <2>7 DEF CountersTellTruth
<1>6. QED BY <1>4, <1>5 DEF Validate, Given

-----------------------------------------------------------------------------
(***************************************************************************)
(* The inductive invariant and what follows from it.                       *)
(***************************************************************************)
TableInv == SinkTypeOK /\ TableTracksStreams /\ CountersTellTruth

LEMMA TableInvInit == SinkInit => TableInv
<1> SUFFICES ASSUME SinkInit PROVE TableInv
  OBVIOUS
<1>1. \A i \in Slot : ~cams[i].seen
  BY DEF SinkInit, NoCam
<1>2. Speakers = {} /\ refused = <<>>
  BY DEF SinkInit, Speakers
<1>3. TableTracksStreams /\ CountersTellTruth
  BY <1>1, <1>2 DEF TableTracksStreams, CountersTellTruth
<1>4. QED BY <1>3, InitType DEF TableInv

LEMMA TableInvRecv ==
  ASSUME TableInv, NEW m \in Message(CameraId), RecvMessage(m)
  PROVE  TableTracksStreams' /\ CountersTellTruth'
<1>1. SinkTypeOK /\ TableTracksStreams /\ CountersTellTruth
  BY DEF TableInv
<1>2. PICK d \in Decodings(m) :
        IF d.status = "ok"
        THEN /\ Validate(Unpacked(m))
             /\ heard' = [heard EXCEPT ![m.camera_id] = Append(@, Unpacked(m))]
             /\ UNCHANGED refused
        ELSE /\ stats' = BadParse
             /\ refused' = Append(refused, d.status)
             /\ UNCHANGED <<cams, heard>>
  BY DEF RecvMessage
<1>3. CASE d.status = "ok"
  <2>1. Peek(m) = "ok"
    BY <1>1, <1>3, DecodingsType
  <2>2. Unpacked(m) \in Frame(CameraId) /\ Whole(Unpacked(m))
    BY <2>1, UnpackedType
  <2>3. Unpacked(m).camera_id = m.camera_id
    BY DEF Unpacked
  <2> QED BY <1>1, <1>2, <1>3, <2>2, <2>3, TableValidate, CountersValidate
<1>4. CASE d.status # "ok"
  <2>1. stats' = BadParse /\ UNCHANGED <<cams, heard>>
    BY <1>2, <1>4
  <2>2. stats \in Stats
    BY <1>1 DEF SinkTypeOK
  <2>3. /\ stats'.bad_parse = stats.bad_parse + 1
        /\ stats'.seq_gaps = stats.seq_gaps /\ stats'.backwards = stats.backwards
        /\ stats'.bad_index = stats.bad_index /\ stats'.bad_value = stats.bad_value
    <3> DEFINE counted == [stats EXCEPT !.received = @ + 1]
    <3>1. /\ counted \in Stats /\ counted.bad_parse = stats.bad_parse
          /\ counted.seq_gaps = stats.seq_gaps /\ counted.backwards = stats.backwards
          /\ counted.bad_index = stats.bad_index /\ counted.bad_value = stats.bad_value
      BY <2>2 DEF Stats
    <3>2. stats' = [counted EXCEPT !.bad_parse = stats.bad_parse + 1]
      BY <2>1, <3>1 DEF BadParse
    <3> HIDE DEF counted
    <3> QED BY <3>1, <3>2 DEF Stats
  <2>4. stats'.bad_parse # 0
    BY <2>2, <2>3 DEF Stats
  <2>5. TableTracksStreams'
    BY <1>1, <2>1 DEF TableTracksStreams, Speakers, SeenSlots, FreeSlots
  <2>6. CountersTellTruth'
    BY <1>1, <2>1, <2>3, <2>4 DEF CountersTellTruth
  <2> QED BY <2>5, <2>6
<1>5. QED BY <1>3, <1>4

LEMMA TableInvNext == TableInv /\ [SinkNext]_sinkVars => TableInv'
<1> SUFFICES ASSUME TableInv, [SinkNext]_sinkVars PROVE TableInv'
  OBVIOUS
<1>1. SinkTypeOK'
  BY NextType DEF TableInv
<1>2. ASSUME cams' = cams, stats' = stats, heard' = heard, refused' = refused
      PROVE  TableTracksStreams' /\ CountersTellTruth'
  <2>1. TableTracksStreams'
    BY <1>2 DEF TableInv, TableTracksStreams, Speakers, SeenSlots, FreeSlots
  <2>2. CountersTellTruth'
    BY <1>2 DEF TableInv, CountersTellTruth
  <2> QED BY <2>1, <2>2
<1>3. ASSUME NEW table \in SpecTables, SinkExpect(table)
      PROVE  TableTracksStreams' /\ CountersTellTruth'
  BY <1>2, <1>3 DEF SinkExpect
<1>4. ASSUME NEW m \in Arrivals, RecvMessage(m)
      PROVE  TableTracksStreams' /\ CountersTellTruth'
  BY <1>4, TableInvRecv, SinkAssumption
<1>5. CASE UNCHANGED sinkVars
  BY <1>1, <1>2, <1>5 DEF sinkVars, TableInv
<1>6. QED BY <1>1, <1>3, <1>4, <1>5 DEF TableInv, SinkNext, Register, Receive

\* The table of cam_find and sink_validate always describes the streams.
THEOREM TableCorrect == SinkSpec => []TableTracksStreams
<1>1. TableInv => TableTracksStreams
  BY DEF TableInv
<1>2. QED BY <1>1, TableInvInit, TableInvNext, PTL DEF SinkSpec

\* A counter of sink_validate that is zero vouches for whole streams.
THEOREM CountersTrustworthy == SinkSpec => []CountersTellTruth
<1>1. TableInv => CountersTellTruth
  BY DEF TableInv
<1>2. QED BY <1>1, TableInvInit, TableInvNext, PTL DEF SinkSpec

\* What the verdict PASS of sink_report stands for.
THEOREM PassSound == SinkSpec => []PassIsSound
<1>1. TableInv => PassIsSound
  <2> SUFFICES ASSUME TableInv, ~Failed
               PROVE  /\ refused = <<>>
                      /\ \A i \in Slot : cams[i].seen =>
                           LET stream == heard[cams[i].camera_id]
                           IN  /\ Contiguous(stream)
                               /\ Ascending(stream)
                               /\ SitesBelow(stream, cams[i].max_sites)
                               /\ ValuesInRange(stream)
    BY DEF PassIsSound
  <2>1. stats \in Stats
    BY DEF TableInv, SinkTypeOK
  <2>2. /\ stats.bad_parse = 0 /\ stats.seq_gaps = 0 /\ stats.backwards = 0
        /\ stats.bad_index = 0 /\ stats.bad_value = 0
    BY <2>1 DEF Stats, Failed
  <2> QED BY <2>2 DEF TableInv, CountersTellTruth
<1>2. QED BY <1>1, TableInvInit, TableInvNext, PTL DEF SinkSpec

-----------------------------------------------------------------------------
(***************************************************************************)
(* The steps of the sink, one for each way a message may go: it is refused *)
(* by frame_wire_unpack, it finds the table full, or its camera's slot.    *)
(***************************************************************************)
Refuses ==
  /\ stats' = BadParse
  /\ \E status \in Refusal : refused' = Append(refused, status)
  /\ UNCHANGED <<cams, specs, heard>>

Hears(f) ==
  /\ f \in Frame(CameraId) /\ Whole(f) /\ f.camera_id \in CameraId
  /\ heard' = [heard EXCEPT ![f.camera_id] = Append(@, f)]
  /\ UNCHANGED <<specs, refused>>

Overflows(f) ==
  /\ CamFind(f.camera_id) = {}
  /\ stats' = [stats EXCEPT !.received = @ + 1]
  /\ UNCHANGED cams

Places(f, i) ==
  /\ i \in CamFind(f.camera_id)
  /\ cams' = [cams EXCEPT ![i] = Remember(Given(i, f.camera_id), f)]
  /\ stats' = Checked(Given(i, f.camera_id), f, ~cams[i].seen)

\* A message takes one of these.
LEMMA WaysOfRecv ==
  ASSUME SinkTypeOK, NEW m \in Message(CameraId), RecvMessage(m)
  PROVE  \/ Refuses
         \/ \E f : Hears(f) /\ (Overflows(f) \/ \E i : Places(f, i))
<1>1. PICK d \in Decodings(m) :
        /\ IF d.status = "ok"
           THEN /\ Validate(Unpacked(m))
                /\ heard' = [heard EXCEPT ![m.camera_id] = Append(@, Unpacked(m))]
                /\ UNCHANGED refused
           ELSE /\ stats' = BadParse
                /\ refused' = Append(refused, d.status)
                /\ UNCHANGED <<cams, heard>>
        /\ UNCHANGED specs
  BY DEF RecvMessage
<1>2. d.status \in {"ok"} \cup Refusal
  BY DecodingsType
<1>3. CASE d.status = "ok"
  <2> DEFINE f == Unpacked(m)
  <2>1. Peek(m) = "ok"
    BY <1>3, DecodingsType
  <2>2. f \in Frame(CameraId) /\ Whole(f)
    BY <2>1, UnpackedType
  <2>3. f.camera_id = m.camera_id /\ m.camera_id \in CameraId
    BY DEF Unpacked, Message
  <2>4. Validate(f) /\ Hears(f)
    BY <1>1, <1>3, <2>2, <2>3 DEF Hears
  <2> HIDE DEF f
  <2>5. Overflows(f) \/ \E i : Places(f, i)
    BY <2>4 DEF Validate, Overflows, Places, Given
  <2> QED BY <2>4, <2>5
<1>4. CASE d.status # "ok"
  BY <1>1, <1>2, <1>4 DEF Refuses
<1> QED BY <1>3, <1>4

\* A step of the sink is one of these, a registration, or a stutter.
LEMMA WaysOfNext ==
  ASSUME SinkTypeOK, [SinkNext]_sinkVars
  PROVE  \/ Refuses
         \/ \E f : Hears(f) /\ (Overflows(f) \/ \E i : Places(f, i))
         \/ /\ ExpectAnytime \/ stats.received = 0
            /\ UNCHANGED <<cams, stats, heard, refused>>
         \/ UNCHANGED <<cams, specs, stats, heard, refused>>
<1>1. ASSUME NEW table \in SpecTables,
             ExpectAnytime \/ stats.received = 0, SinkExpect(table)
      PROVE  /\ ExpectAnytime \/ stats.received = 0
             /\ UNCHANGED <<cams, stats, heard, refused>>
  BY <1>1 DEF SinkExpect
<1>2. ASSUME NEW m \in Arrivals, RecvMessage(m)
      PROVE  \/ Refuses
             \/ \E f : Hears(f) /\ (Overflows(f) \/ \E i : Places(f, i))
  BY <1>2, WaysOfRecv, SinkAssumption
<1>3. CASE UNCHANGED sinkVars
  BY <1>3 DEF sinkVars
<1> QED BY <1>1, <1>2, <1>3 DEF SinkNext, Register, Receive

\* The bounds of a camera that is new are those of the table in force.
LEMMA FirstBounds ==
  ASSUME NEW id
  PROVE  /\ FirstSight(id).max_sites = Bound(id)
         /\ FirstSight(id).expect_period = Period(id)
         /\ FirstSight(id).spec_known = Configured(id)
<1>1. FirstSight(id).max_sites = Bound(id)
  BY Zenon DEF FirstSight, Bound, Configured
<1>2. FirstSight(id).expect_period = Period(id)
  BY Zenon DEF FirstSight, Period, Configured
<1>3. FirstSight(id).spec_known = Configured(id)
  BY Zenon DEF FirstSight, Configured
<1> QED BY <1>1, <1>2, <1>3

\* What a frame does to the slot of its camera, to the streams and to the table.
LEMMA FramePlaced ==
  ASSUME SinkTypeOK, TableTracksStreams, NEW f, Hears(f), NEW i, Places(f, i)
  PROVE  LET id  == f.camera_id
             cam == Given(i, id)
             s   == heard[id]
         IN  /\ i \in Slot /\ id \in CameraId
             /\ cam \in CamState /\ cam.frames = Len(s)
             /\ s \in Seq(Frame(CameraId))
             /\ s # <<>> => /\ cam.last_seq  = s[Len(s)].sequence
                            /\ cam.last_t_ns = s[Len(s)].t_ns
             /\ cams[i].seen <=> s # <<>>
             /\ cams[i].seen => cam = cams[i]
             /\ ~cams[i].seen => cam = FirstSight(id)
             /\ cams'[i].seen /\ cams'[i].camera_id = id
             /\ cams'[i].max_sites = cam.max_sites
             /\ cams'[i].expect_period = cam.expect_period
             /\ cams'[i].spec_known = cam.spec_known
             /\ \A j \in Slot : j # i => cams'[j] = cams[j]
             /\ heard'[id] = Append(s, f)
             /\ \A other \in CameraId : other # id => heard'[other] = heard[other]
             /\ Speakers' = Speakers \cup {id}
<1> DEFINE id  == f.camera_id
           cam == Given(i, id)
           s   == heard[id]
<1>1. /\ f \in Frame(CameraId) /\ id \in CameraId
      /\ heard' = [heard EXCEPT ![id] = Append(@, f)]
      /\ i \in CamFind(id) /\ cams' = [cams EXCEPT ![i] = Remember(cam, f)]
  BY DEF Hears, Places
<1>2. /\ cam \in CamState /\ cam.seen /\ cam.camera_id = id /\ cam.frames = Len(s)
      /\ s # <<>> => /\ cam.last_seq  = s[Len(s)].sequence
                     /\ cam.last_t_ns = s[Len(s)].t_ns
      /\ ~cams[i].seen => s = <<>>
  BY <1>1, SlotOfCamera
<1>3. i \in Slot /\ (cams[i].seen => cams[i].camera_id = id)
  BY <1>1, CamFindSlot
<1>4. cams[i].seen => s # <<>>
  BY <1>3 DEF TableTracksStreams, Speakers
<1>5. /\ heard'[id] = Append(s, f) /\ s \in Seq(Frame(CameraId))
      /\ \A other \in CameraId : other # id => heard'[other] = heard[other]
      /\ Speakers' = Speakers \cup {id}
  BY <1>1, HeardOne
<1>6. cams'[i] = Remember(cam, f) /\ \A j \in Slot : j # i => cams'[j] = cams[j]
  BY <1>1, <1>3 DEF SinkTypeOK
<1>7. cams[i].seen => cam = cams[i]
  BY DEF Given
<1>8. ~cams[i].seen => cam = FirstSight(id)
  BY DEF Given
<1> HIDE DEF cam, s
<1>9. /\ cams'[i].seen /\ cams'[i].camera_id = id
      /\ cams'[i].max_sites = cam.max_sites
      /\ cams'[i].expect_period = cam.expect_period
      /\ cams'[i].spec_known = cam.spec_known
  BY <1>1, <1>2, <1>6, RememberType
<1> QED BY <1>1, <1>2, <1>3, <1>4, <1>5, <1>6, <1>7, <1>8, <1>9 DEF cam, s

-----------------------------------------------------------------------------
(***************************************************************************)
(* The sums of the report.  The sum over the cameras is the size of a      *)
(* pile, one heap a camera, and a frame puts one entry on one heap.        *)
(***************************************************************************)
Lengths == [id \in CameraId |-> Len(heard[id])]

Taken == {i \in Slot : cams[i].seen}

Counting ==
  /\ stats.bad_parse = Len(refused)
  /\ stats.received = stats.bad_parse + Cardinality(Pile(CameraId, Lengths))
  /\ stats.cameras_seen = Cardinality(Taken)

\* The slots are finitely many.
LEMMA SlotsFinite ==
  /\ IsFiniteSet(Slot) /\ Cardinality(Slot) = MaxCameras
  /\ \A S \in SUBSET Slot : IsFiniteSet(S) /\ Cardinality(S) \in Nat
<1>1. 1 \in Int /\ MaxCameras \in Int /\ MaxCameras >= 1
  BY SinkAssumption
<1>2. IsFiniteSet(1 .. MaxCameras) /\ Cardinality(1 .. MaxCameras) = MaxCameras
  BY <1>1, FS_Interval
<1> QED BY <1>2, FS_Subset, FS_CardinalityType DEF Slot

\* The counters of a message that is refused, and of one that finds no slot.
LEMMA BadParseCounts ==
  ASSUME stats \in Stats
  PROVE  /\ BadParse.received = stats.received + 1
         /\ BadParse.bad_parse = stats.bad_parse + 1
         /\ BadParse.cameras_seen = stats.cameras_seen
         /\ BadParse.seq_gaps = stats.seq_gaps /\ BadParse.seq_lost = stats.seq_lost
         /\ BadParse.backwards = stats.backwards /\ BadParse.jitter = stats.jitter
         /\ BadParse.bad_index = stats.bad_index /\ BadParse.bad_value = stats.bad_value
         /\ BadParse.unexpected_cams = stats.unexpected_cams
<1> DEFINE counted == [stats EXCEPT !.received = @ + 1]
<1>1. /\ counted \in Stats /\ counted.bad_parse = stats.bad_parse
      /\ counted.received = stats.received + 1
      /\ counted.cameras_seen = stats.cameras_seen
      /\ counted.seq_gaps = stats.seq_gaps /\ counted.seq_lost = stats.seq_lost
      /\ counted.backwards = stats.backwards /\ counted.jitter = stats.jitter
      /\ counted.bad_index = stats.bad_index /\ counted.bad_value = stats.bad_value
      /\ counted.unexpected_cams = stats.unexpected_cams
  BY DEF Stats
<1>2. BadParse = [counted EXCEPT !.bad_parse = stats.bad_parse + 1]
  BY <1>1 DEF BadParse
<1> HIDE DEF counted
<1> QED BY <1>1, <1>2 DEF Stats

LEMMA CheckedCounts ==
  ASSUME NEW cam, NEW f, NEW new
  PROVE  /\ Checked(cam, f, new).received = stats.received + 1
         /\ Checked(cam, f, new).bad_parse = stats.bad_parse
         /\ Checked(cam, f, new).cameras_seen = stats.cameras_seen + One(new)
         /\ Checked(cam, f, new).jitter = stats.jitter + One(OffCadence(cam, f))
         /\ Checked(cam, f, new).seq_lost = stats.seq_lost + Lost(cam, f)
         /\ Checked(cam, f, new).seq_gaps = stats.seq_gaps + One(SequenceGap(cam, f))
         /\ Checked(cam, f, new).backwards = stats.backwards + One(StampBack(cam, f))
         /\ Checked(cam, f, new).bad_index = stats.bad_index + One(IndexBad(cam, f))
         /\ Checked(cam, f, new).bad_value = stats.bad_value + One(ValueBad(f))
         /\ Checked(cam, f, new).unexpected_cams =
              stats.unexpected_cams + One(new /\ specs # <<>> /\ ~cam.spec_known)
BY Zenon DEF Checked

\* A frame makes its camera's heap one higher.
LEMMA LengthsNext ==
  ASSUME SinkTypeOK, IsFiniteSet(CameraId), NEW f, Hears(f)
  PROVE  /\ Cardinality(Pile(CameraId, Lengths)) \in Nat
         /\ Cardinality(Pile(CameraId, Lengths')) = Cardinality(Pile(CameraId, Lengths)) + 1
<1> DEFINE id == f.camera_id
<1>1. /\ id \in CameraId /\ heard'[id] = Append(heard[id], f)
      /\ heard[id] \in Seq(Frame(CameraId)) /\ f \in Frame(CameraId)
      /\ \A other \in CameraId : other # id => heard'[other] = heard[other]
  BY HeardOne DEF Hears
<1>2. Len(heard'[id]) = Len(heard[id]) + 1 /\ Len(heard[id]) \in Nat
  BY <1>1, AppendFrame
<1>3. \A other \in CameraId : Len(heard[other]) \in Nat
  BY LenProperties DEF SinkTypeOK
<1>4. \A other \in CameraId : /\ Lengths[other] = Len(heard[other])
                              /\ Lengths'[other] = Len(heard'[other])
  BY DEF Lengths
<1> HIDE DEF id
<1>5. PICK F, G : F = Lengths /\ G = Lengths'
  OBVIOUS
<1>6. /\ \A y \in CameraId : F[y] \in Nat /\ G[y] \in Nat
      /\ \A y \in CameraId : y # id => G[y] = F[y]
      /\ G[id] = F[id] + 1
  BY <1>1, <1>2, <1>3, <1>4, <1>5
<1>7. /\ Cardinality(Pile(CameraId, F)) \in Nat /\ Cardinality(Pile(CameraId, G)) \in Nat
      /\ Cardinality(Pile(CameraId, G)) + F[id] = Cardinality(Pile(CameraId, F)) + G[id]
  <2>1. id \in CameraId
    BY <1>1
  <2> QED BY <1>6, <2>1, PileChanges
<1> QED BY <1>1, <1>5, <1>6, <1>7

LEMMA CountingInit == IsFiniteSet(CameraId) /\ SinkInit => Counting
<1> SUFFICES ASSUME IsFiniteSet(CameraId), SinkInit PROVE Counting
  OBVIOUS
<1>1. \A id \in CameraId : Lengths[id] = 0
  BY DEF Lengths, SinkInit
<1>2. Pile(CameraId, Lengths) = {}
  BY <1>1 DEF Pile
<1>3. Taken = {}
  BY DEF Taken, SinkInit, NoCam
<1>4. Cardinality(Pile(CameraId, Lengths)) = 0 /\ Cardinality(Taken) = 0
  BY <1>2, <1>3, FS_EmptySet
<1> QED BY <1>4 DEF Counting, SinkInit

LEMMA CountingNext ==
  ASSUME IsFiniteSet(CameraId), TableInv, Counting, [SinkNext]_sinkVars
  PROVE  Counting'
<1>1. SinkTypeOK /\ TableTracksStreams /\ stats \in Stats
  BY DEF TableInv, SinkTypeOK
<1>2. CASE Refuses
  <2>1. /\ stats'.received = stats.received + 1
        /\ stats'.bad_parse = stats.bad_parse + 1
        /\ stats'.cameras_seen = stats.cameras_seen
    BY <1>1, <1>2, BadParseCounts DEF Refuses
  <2>2. PICK status \in Refusal : refused' = Append(refused, status)
    BY <1>2 DEF Refuses
  <2>3. Len(refused') = Len(refused) + 1 /\ Len(refused) \in Nat
    BY <1>1, <2>2, AppendAt DEF SinkTypeOK
  <2>4. Lengths' = Lengths /\ Taken' = Taken
    BY <1>2 DEF Refuses, Lengths, Taken
  <2>5. Cardinality(Pile(CameraId, Lengths)) \in Nat
    <3>1. \A id \in CameraId : Lengths[id] \in Nat
      BY <1>1, LenProperties DEF SinkTypeOK, Lengths
    <3> QED BY <3>1, PileFinite, FS_CardinalityType
  <2> QED BY <1>1, <2>1, <2>3, <2>4, <2>5 DEF Counting, Stats
<1>3. ASSUME NEW f, Hears(f), Overflows(f) PROVE Counting'
  <2>1. /\ stats'.received = stats.received + 1
        /\ stats'.bad_parse = stats.bad_parse
        /\ stats'.cameras_seen = stats.cameras_seen
    BY <1>1, <1>3 DEF Overflows, Stats
  <2>2. Taken' = Taken /\ refused' = refused
    BY <1>3 DEF Overflows, Hears, Taken
  <2> QED BY <1>1, <1>3, <2>1, <2>2, LengthsNext DEF Counting, Stats
<1>4. ASSUME NEW f, Hears(f), NEW i, Places(f, i) PROVE Counting'
  <2>1. /\ stats'.received = stats.received + 1
        /\ stats'.bad_parse = stats.bad_parse
        /\ stats'.cameras_seen = stats.cameras_seen + One(~cams[i].seen)
    BY <1>4, CheckedCounts DEF Places
  <2>2. refused' = refused
    BY <1>4 DEF Hears
  <2>3. /\ i \in Slot /\ cams'[i].seen
        /\ \A j \in Slot : j # i => cams'[j] = cams[j]
    BY <1>1, <1>4, FramePlaced
  <2>4. Taken' = Taken \cup {i}
    BY <2>3 DEF Taken
  <2>5. IsFiniteSet(Taken) /\ (i \in Taken <=> cams[i].seen)
    BY <2>3, SlotsFinite DEF Taken
  <2>6. Cardinality(Taken') = IF i \in Taken THEN Cardinality(Taken) ELSE Cardinality(Taken) + 1
    BY <2>4, <2>5, FS_AddElement
  <2>7. Cardinality(Taken') = Cardinality(Taken) + One(~cams[i].seen)
    <3>1. Cardinality(Taken) \in Nat
      BY <2>5, FS_CardinalityType
    <3> QED BY <2>5, <2>6, <3>1 DEF One
  <2> QED BY <1>1, <1>4, <2>1, <2>2, <2>7, LengthsNext DEF Counting, Stats
<1>5. CASE UNCHANGED <<cams, stats, heard, refused>>
  BY <1>5 DEF Counting, Lengths, Taken
<1> QED BY <1>1, <1>2, <1>3, <1>4, <1>5, WaysOfNext

LEMMA CountingInvariant ==
  ASSUME IsFiniteSet(CameraId)
  PROVE  SinkSpec => [](TableInv /\ Counting)
<1>1. SinkInit => TableInv /\ Counting
  BY TableInvInit, CountingInit
<1>2. (TableInv /\ Counting) /\ [SinkNext]_sinkVars => (TableInv /\ Counting)'
  BY TableInvNext, CountingNext
<1> QED BY <1>1, <1>2, PTL DEF SinkSpec

\* As many slots are taken as cameras spoke, up to the size of the table.
LEMMA TakenAsSpoken ==
  ASSUME SinkTypeOK, TableTracksStreams, IsFiniteSet(CameraId)
  PROVE  Cardinality(Taken) = Min({Cardinality(Speakers), MaxCameras})
<1> DEFINE owner == [i \in Taken |-> cams[i].camera_id]
<1>1. IsFiniteSet(Taken) /\ Cardinality(Taken) \in Nat /\ Taken \subseteq Slot
  BY SlotsFinite DEF Taken
<1>2. IsFiniteSet(Speakers) /\ Cardinality(Speakers) \in Nat
  BY FS_Subset, FS_CardinalityType DEF Speakers
<1>3. \A i \in Taken : cams[i].seen /\ cams[i].camera_id \in Speakers
  BY <1>1 DEF Taken, TableTracksStreams
<1>4. owner \in Injection(Taken, Speakers)
  <2>1. owner \in [Taken -> Speakers]
    BY <1>3
  <2>2. ASSUME NEW i \in Taken, NEW j \in Taken, owner[i] = owner[j] PROVE i = j
    BY <1>1, <1>3, <2>2 DEF TableTracksStreams
  <2> HIDE DEF owner
  <2> QED BY <2>1, <2>2 DEF Injection, IsInjective
<1>5. Cardinality(Taken) <= Cardinality(Speakers)
  BY <1>2, <1>4, FS_Injection
<1>6. Cardinality(Taken) <= MaxCameras
  BY <1>1, SlotsFinite, FS_Subset
<1>7. CASE FreeSlots(cams) = {}
  <2>1. Taken = Slot
    BY <1>7 DEF FreeSlots, Taken
  <2>2. Cardinality(Taken) = MaxCameras
    BY <2>1, SlotsFinite
  <2> QED BY <1>1, <1>2, <1>5, <2>2, MinOfTwo
<1>8. CASE FreeSlots(cams) # {}
  <2>1. \A id \in Speakers : \E i \in Taken : owner[i] = id
    BY <1>8 DEF TableTracksStreams, SeenSlots, Taken
  <2>2. owner \in Surjection(Taken, Speakers)
    <3>1. owner \in [Taken -> Speakers]
      BY <1>3
    <3> HIDE DEF owner
    <3> QED BY <2>1, <3>1 DEF Surjection
  <2>3. Cardinality(Taken) = Cardinality(Speakers)
    BY <1>2, <1>4, <2>2, FS_Injection
  <2> QED BY <1>1, <1>2, <1>6, <2>3, MinOfTwo, SinkAssumption
<1> QED BY <1>7, <1>8

(***************************************************************************)
(* Every message handled counts once, as a bad parse or as a frame of its  *)
(* camera, and every camera that spoke counts once, up to the size of the  *)
(* table: for any number of cameras, tables and failures to grow, as ids   *)
(* are uint32_t and so finitely many.  sink_recv, cam_find.                *)
(***************************************************************************)
THEOREM CountsAlwaysAddUp ==
  ASSUME IsFiniteSet(CameraId)
  PROVE  SinkSpec => []CountsAddUp
<1> DEFINE FramesOf(id) == Len(heard[id])
           Sums(g) == g = [s \in SUBSET CameraId |->
                             IF s = {} THEN 0
                             ELSE FramesOf(CHOOSE x \in s : TRUE)
                                    + g[s \ {CHOOSE x \in s : TRUE}]]
           g0 == CHOOSE g : Sums(g)
<1>1. ASSUME TableInv, Counting PROVE CountsAddUp
  <2>1. MapThenSumSet(FramesOf, CameraId) = g0[CameraId]
    BY DEF MapThenSumSet, MapThenFoldSet
  <2>2. \A g : Sums(g) => SumsUp(g, CameraId, Lengths)
    BY DEF SumsUp, Lengths
  <2>3. \A g : SumsUp(g, CameraId, Lengths) => Sums(g)
    BY DEF SumsUp, Lengths
  <2>4. \A id \in CameraId : Lengths[id] \in Nat
    BY <1>1, LenProperties DEF TableInv, SinkTypeOK, Lengths
  <2>5. \E g : Sums(g)
    BY <2>3, <2>4, SumExists
  <2>6. Sums(g0)
    BY <2>5
  <2>7. SumsUp(g0, CameraId, Lengths)
    BY <2>2, <2>6
  <2> HIDE DEF g0
  <2>8. g0[CameraId] = Cardinality(Pile(CameraId, Lengths))
    BY <2>4, <2>7, SumIsPile
  <2>9. Cardinality(Taken) = Min({Cardinality(Speakers), MaxCameras})
    BY <1>1, TakenAsSpoken DEF TableInv
  <2> QED BY <1>1, <2>1, <2>8, <2>9 DEF CountsAddUp, Counting
<1>2. TableInv /\ Counting => CountsAddUp
  BY <1>1
<1> QED BY <1>2, CountingInvariant, PTL

-----------------------------------------------------------------------------
(***************************************************************************)
(* What the counters say exactly, as long as every camera that spoke found *)
(* a slot and the table is registered before the first message, as main    *)
(* does.  There always is one while no more cameras speak than the table   *)
(* has slots.                                                              *)
(***************************************************************************)
SlotsForAll == IsFiniteSet(CameraId) /\ Cardinality(CameraId) <= MaxCameras

\* Then a slot is found for every frame.
LEMMA SlotFound ==
  ASSUME SinkTypeOK, TableTracksStreams, SlotsForAll, NEW id \in CameraId
  PROVE  CamFind(id) # {}
<1> SUFFICES ASSUME CamFind(id) = {} PROVE FALSE
  OBVIOUS
<1>1. FreeSlots(cams) = {} /\ \A j \in Slot : cams[j].seen => cams[j].camera_id # id
  BY NoSlot
<1> DEFINE owner  == [j \in Slot |-> cams[j].camera_id]
           others == CameraId \ {id}
<1>2. \A j \in Slot : cams[j].seen
  BY <1>1 DEF FreeSlots
<1>3. \A j \in Slot : owner[j] \in others
  BY <1>1, <1>2 DEF TableTracksStreams, Speakers
<1>4. \A i, j \in Slot : owner[i] = owner[j] => i = j
  BY <1>2 DEF TableTracksStreams
<1>5. owner \in [Slot -> others]
  BY <1>3
<1>6. IsFiniteSet(others) /\ Cardinality(others) = Cardinality(CameraId) - 1
  BY FS_RemoveElement DEF SlotsForAll
<1> HIDE DEF owner, others
<1>7. owner \in Injection(Slot, others)
  BY <1>4, <1>5 DEF Injection, IsInjective
<1>8. Cardinality(Slot) <= Cardinality(others)
  BY <1>6, <1>7, FS_Injection
<1>9. Cardinality(CameraId) \in Nat /\ MaxCameras \in Nat
  BY FS_CardinalityType, SinkAssumption DEF SlotsForAll
<1> QED BY <1>6, <1>8, <1>9, SlotsFinite DEF SlotsForAll

(***************************************************************************)
(* As many slots as cameras are enough: whatever the order of the frames,  *)
(* no camera is ever without one.  cam_find.                               *)
(***************************************************************************)
THEOREM EnoughSlots == ASSUME SlotsForAll PROVE SinkSpec => []AllSeated
<1>1. ASSUME SinkTypeOK, TableTracksStreams, NEW id \in Speakers
      PROVE  SeenSlots(cams, id) # {}
  <2>1. id \in CameraId /\ heard[id] # <<>>
    BY DEF Speakers
  <2>2. PICK i \in CamFind(id) : TRUE
    BY <1>1, <2>1, SlotFound
  <2>3. i \in Slot /\ cams[i].seen /\ cams[i].camera_id = id
    BY <1>1, <2>1, <2>2, CamFindSlot, SlotOfCamera
  <2> QED BY <2>3 DEF SeenSlots
<1>2. TableInv => AllSeated
  BY <1>1 DEF TableInv, AllSeated
<1> QED BY <1>2, TableInvInit, TableInvNext, PTL DEF SinkSpec

\* A frame that finds its slot takes the table from one in which every camera had
\* one, and after a frame that found none some camera has none.
LEMMA SeatedBefore ==
  ASSUME SinkTypeOK, TableTracksStreams, AllSeated'
  PROVE  /\ UNCHANGED <<cams, heard>> => AllSeated
         /\ \A f : Hears(f) => ~Overflows(f)
         /\ \A f, i : Hears(f) /\ Places(f, i) => AllSeated
<1>1. ASSUME UNCHANGED <<cams, heard>> PROVE AllSeated
  BY <1>1 DEF AllSeated, Speakers, SeenSlots
<1>2. ASSUME NEW f, Hears(f), Overflows(f) PROVE FALSE
  <2> DEFINE id == f.camera_id
  <2>1. id \in CameraId /\ heard' = [heard EXCEPT ![id] = Append(@, f)] /\ f \in Frame(CameraId)
    BY <1>2 DEF Hears
  <2>2. Speakers' = Speakers \cup {id}
    BY <2>1, HeardOne
  <2>3. UNCHANGED cams /\ CamFind(id) = {}
    BY <1>2 DEF Overflows
  <2>4. SeenSlots(cams, id) # {}
    BY <2>2, <2>3 DEF AllSeated, SeenSlots
  <2> QED BY <2>3, <2>4 DEF CamFind
<1>3. ASSUME NEW f, NEW i, Hears(f), Places(f, i), NEW who \in Speakers
      PROVE  SeenSlots(cams, who) # {}
  <2> DEFINE id == f.camera_id
  <2>1. /\ i \in Slot /\ id \in CameraId
        /\ cams[i].seen <=> heard[id] # <<>>
        /\ cams'[i].camera_id = id
        /\ \A j \in Slot : j # i => cams'[j] = cams[j]
        /\ Speakers' = Speakers \cup {id}
    BY <1>3, FramePlaced
  <2>2. cams[i].seen => cams[i].camera_id = id
    BY <1>3, CamFindSlot DEF Places
  <2> HIDE DEF id
  <2>3. PICK j \in Slot : cams'[j].seen /\ cams'[j].camera_id = who
    BY <1>3, <2>1 DEF AllSeated, SeenSlots
  <2>4. CASE j # i
    BY <2>1, <2>3, <2>4 DEF SeenSlots
  <2>5. CASE j = i
    <3>1. who = id /\ heard[id] # <<>>
      BY <1>3, <2>1, <2>3, <2>5 DEF Speakers
    <3> QED BY <2>1, <2>2, <3>1 DEF SeenSlots
  <2> QED BY <2>4, <2>5
<1>4. \A f, i : Hears(f) /\ Places(f, i) => AllSeated
  BY <1>3 DEF AllSeated
<1> QED BY <1>1, <1>2, <1>4

\* The table was there before the first message, and the slots are of its bounds.
Registered ==
  /\ stats.received = 0 <=> Speakers = {} /\ refused = <<>>
  /\ \A i \in Slot : cams[i].seen =>
       /\ cams[i].max_sites = Bound(cams[i].camera_id)
       /\ cams[i].expect_period = Period(cams[i].camera_id)
       /\ cams[i].spec_known = Configured(cams[i].camera_id)

\* So a frame is checked against the bounds of its camera.
LEMMA PlacedBounds ==
  ASSUME SinkTypeOK, TableTracksStreams, Registered,
         NEW f, Hears(f), NEW i, Places(f, i)
  PROVE  LET id  == f.camera_id
             cam == Given(i, id)
         IN  /\ cam.max_sites = Bound(id)
             /\ cam.expect_period = Period(id)
             /\ cam.spec_known = Configured(id)
<1> DEFINE id  == f.camera_id
           cam == Given(i, id)
<1>1. /\ i \in Slot
      /\ cams[i].seen => cam = cams[i]
      /\ ~cams[i].seen => cam = FirstSight(id)
  BY FramePlaced
<1>2. cams[i].seen => cams[i].camera_id = id
  BY CamFindSlot DEF Places
<1> HIDE DEF cam, id
<1>3. ASSUME cams[i].seen
      PROVE  /\ cam.max_sites = Bound(id) /\ cam.expect_period = Period(id)
             /\ cam.spec_known = Configured(id)
  BY <1>1, <1>2, <1>3 DEF Registered
<1>4. ASSUME ~cams[i].seen
      PROVE  /\ cam.max_sites = Bound(id) /\ cam.expect_period = Period(id)
             /\ cam.spec_known = Configured(id)
  BY <1>1, <1>4, FirstBounds
<1> QED BY <1>3, <1>4 DEF cam, id

LEMMA RegisteredInit == SinkInit => Registered
BY DEF SinkInit, Registered, Speakers, NoCam

\* The bounds of a camera are those of the table.
LEMMA SameTable ==
  ASSUME UNCHANGED specs
  PROVE  \A id : Bound(id)' = Bound(id) /\ Period(id)' = Period(id)
                 /\ Configured(id)' = Configured(id)
BY DEF Bound, Period, Configured, SpecsOf

LEMMA RegisteredNext ==
  ASSUME ~ExpectAnytime, TableInv, Registered, [SinkNext]_sinkVars
  PROVE  Registered'
<1>1. SinkTypeOK /\ TableTracksStreams /\ stats \in Stats
  BY DEF TableInv, SinkTypeOK
<1>2. CASE Refuses
  <2>1. stats'.received = stats.received + 1 /\ stats.received \in Nat
    BY <1>1, <1>2, BadParseCounts DEF Refuses, Stats
  <2>2. PICK status \in Refusal : refused' = Append(refused, status)
    BY <1>2 DEF Refuses
  <2>3. refused' # <<>>
    <3>1. Len(refused') = Len(refused) + 1 /\ Len(refused) \in Nat
      BY <1>1, <2>2, AppendAt DEF SinkTypeOK
    <3> QED BY <3>1, EmptySeq
  <2>4. UNCHANGED <<cams, specs>>
    BY <1>2 DEF Refuses
  <2> QED BY <2>1, <2>3, <2>4, SameTable DEF Registered
<1>3. ASSUME NEW f, Hears(f), NEW i, Places(f, i) PROVE Registered'
  <2> DEFINE id  == f.camera_id
             cam == Given(i, id)
  <2>1. stats'.received = stats.received + 1 /\ stats.received \in Nat
    BY <1>1, <1>3, CheckedCounts DEF Places, Stats
  <2>2. /\ Speakers' = Speakers \cup {id}
        /\ cams'[i].camera_id = id
        /\ cams'[i].max_sites = cam.max_sites
        /\ cams'[i].expect_period = cam.expect_period
        /\ cams'[i].spec_known = cam.spec_known
        /\ \A j \in Slot : j # i => cams'[j] = cams[j]
    BY <1>1, <1>3, FramePlaced
  <2>3. /\ cam.max_sites = Bound(id)
        /\ cam.expect_period = Period(id)
        /\ cam.spec_known = Configured(id)
    BY <1>1, <1>3, PlacedBounds
  <2>4. UNCHANGED specs
    BY <1>3 DEF Hears
  <2> HIDE DEF cam, id
  <2>5. ASSUME NEW j \in Slot, cams'[j].seen
        PROVE  /\ cams'[j].max_sites = Bound(cams'[j].camera_id)
               /\ cams'[j].expect_period = Period(cams'[j].camera_id)
               /\ cams'[j].spec_known = Configured(cams'[j].camera_id)
    <3>1. CASE j = i
      BY <2>2, <2>3, <3>1
    <3>2. CASE j # i
      BY <2>2, <2>5, <3>2 DEF Registered
    <3> QED BY <3>1, <3>2
  <2>6. ASSUME NEW j \in Slot, cams'[j].seen
        PROVE  /\ cams'[j].max_sites = Bound(cams[j].camera_id)'
               /\ cams'[j].expect_period = Period(cams[j].camera_id)'
               /\ cams'[j].spec_known = Configured(cams[j].camera_id)'
    BY <2>4, <2>5, <2>6 DEF Bound, Period, Configured, SpecsOf
  <2>7. Speakers' # {} /\ stats'.received # 0
    BY <2>1, <2>2
  <2> QED BY <2>6, <2>7 DEF Registered
<1>4. ASSUME stats.received = 0, UNCHANGED <<cams, stats, heard, refused>>
      PROVE  Registered'
  <2>1. Speakers = {} /\ Speakers' = Speakers
    BY <1>4 DEF Registered, Speakers
  <2>2. \A i \in Slot : ~cams'[i].seen
    BY <1>1, <1>4, <2>1 DEF TableTracksStreams
  <2> QED BY <1>4, <2>1, <2>2 DEF Registered
<1>5. CASE UNCHANGED <<cams, specs, stats, heard, refused>>
  BY <1>5 DEF Registered, Speakers, Bound, Period, Configured, SpecsOf
<1>6. ASSUME NEW f, Hears(f), Overflows(f) PROVE Registered'
  <2>1. stats'.received = stats.received + 1 /\ stats.received \in Nat
    BY <1>1, <1>6 DEF Overflows, Stats
  <2>2. /\ f.camera_id \in CameraId /\ f \in Frame(CameraId)
        /\ heard' = [heard EXCEPT ![f.camera_id] = Append(@, f)]
        /\ UNCHANGED <<cams, specs>>
    BY <1>6 DEF Hears, Overflows
  <2>3. Speakers' = Speakers \cup {f.camera_id}
    BY <1>1, <2>2, HeardOne
  <2> QED BY <2>1, <2>2, <2>3, SameTable DEF Registered
<1> QED BY <1>1, <1>2, <1>3, <1>4, <1>5, <1>6, WaysOfNext

-----------------------------------------------------------------------------
(***************************************************************************)
(* What a stream that is whole says of its last frame: the converses of    *)
(* the lemmas on one more frame.                                           *)
(***************************************************************************)
LEMMA ContiguousBefore ==
  ASSUME NEW s \in Seq(Frame(CameraId)), NEW f \in Frame(CameraId),
         Contiguous(Append(s, f))
  PROVE  Contiguous(s) /\ (s # <<>> => f.sequence = s[Len(s)].sequence + 1)
<1> DEFINE t == Append(s, f)
           n == Len(s)
<1>1. /\ n \in Nat /\ DOMAIN s = 1 .. n /\ DOMAIN t = 1 .. n + 1 /\ t[n + 1] = f
      /\ \A k \in 1 .. n : t[k] = s[k] /\ s[k].sequence \in Nat
      /\ s # <<>> <=> n > 0
  BY AppendFrame DEF Frame
<1>2. \A k \in 1 .. n + 1 : t[k].sequence = t[1].sequence + k - 1
  BY <1>1 DEF Contiguous
<1> HIDE DEF t, n
<1>3. \A k \in 1 .. n : s[k].sequence = s[1].sequence + k - 1
  BY <1>1, <1>2
<1>4. n > 0 => f.sequence = s[n].sequence + 1
  <2> SUFFICES ASSUME n > 0 PROVE f.sequence = s[n].sequence + 1
    OBVIOUS
  <2>1. n \in 1 .. n + 1 /\ n + 1 \in 1 .. n + 1 /\ 1 \in 1 .. n /\ n \in 1 .. n
    BY <1>1
  <2>2. /\ t[n].sequence = t[1].sequence + n - 1
        /\ t[n + 1].sequence = t[1].sequence + (n + 1) - 1
    BY <1>2, <2>1
  <2>3. t[n] = s[n] /\ t[1] = s[1] /\ s[1].sequence \in Nat
    BY <1>1, <2>1
  <2> QED BY <1>1, <2>2, <2>3
<1> QED BY <1>1, <1>3, <1>4 DEF Contiguous, n

LEMMA AscendingBefore ==
  ASSUME NEW s \in Seq(Frame(CameraId)), NEW f \in Frame(CameraId),
         Ascending(Append(s, f))
  PROVE  Ascending(s) /\ (s # <<>> => s[Len(s)].t_ns < f.t_ns)
<1> DEFINE t == Append(s, f)
           n == Len(s)
<1>1. /\ n \in Nat /\ DOMAIN s = 1 .. n /\ DOMAIN t = 1 .. n + 1 /\ t[n + 1] = f
      /\ \A k \in 1 .. n : t[k] = s[k]
      /\ s # <<>> <=> n > 0
  BY AppendFrame
<1>2. \A k, l \in 1 .. n + 1 : k < l => t[k].t_ns < t[l].t_ns
  BY <1>1 DEF Ascending
<1> HIDE DEF t, n
<1>3. \A k, l \in 1 .. n : k < l => s[k].t_ns < s[l].t_ns
  BY <1>1, <1>2
<1>4. n > 0 => s[n].t_ns < f.t_ns
  <2>1. n > 0 => n \in 1 .. n /\ n \in 1 .. n + 1 /\ n + 1 \in 1 .. n + 1 /\ n < n + 1
    BY <1>1
  <2> QED BY <1>1, <1>2, <2>1
<1> QED BY <1>1, <1>3, <1>4 DEF Ascending, n

LEMMA SitesBefore ==
  ASSUME NEW s \in Seq(Frame(CameraId)), NEW f \in Frame(CameraId), Whole(f),
         NEW cam \in CamState, SitesBelow(Append(s, f), cam.max_sites)
  PROVE  SitesBelow(s, cam.max_sites) /\ ~IndexBad(cam, f)
<1> DEFINE t == Append(s, f)
           n == Len(s)
<1>1. /\ n \in Nat /\ DOMAIN s = 1 .. n /\ DOMAIN t = 1 .. n + 1 /\ t[n + 1] = f
      /\ \A k \in 1 .. n : t[k] = s[k]
  BY AppendFrame
<1>2. cam.max_sites \in Nat
  BY DEF CamState
<1> HIDE DEF n
<1>3. ASSUME cam.max_sites # 0
      PROVE  /\ \A k \in 1 .. n : \A e \in 1 .. s[k].count : s[k].support[e] < cam.max_sites
             /\ \A e \in 1 .. f.count : f.support[e] < cam.max_sites
  <2>1. \A k \in 1 .. n + 1 : \A e \in 1 .. t[k].count : t[k].support[e] < cam.max_sites
    BY <1>1, <1>3 DEF SitesBelow
  <2> HIDE DEF t
  <2>2. n + 1 \in 1 .. n + 1 /\ 1 .. n \subseteq 1 .. n + 1
    BY <1>1
  <2> QED BY <1>1, <2>1, <2>2
<1>4. ~IndexBad(cam, f)
  BY <1>2, <1>3 DEF IndexBad, Whole
<1> QED BY <1>1, <1>3, <1>4 DEF SitesBelow

LEMMA ValuesBefore ==
  ASSUME NEW s \in Seq(Frame(CameraId)), NEW f \in Frame(CameraId),
         ValuesInRange(Append(s, f))
  PROVE  ValuesInRange(s) /\ ~ValueBad(f)
<1> DEFINE t == Append(s, f)
           n == Len(s)
<1>1. /\ n \in Nat /\ DOMAIN s = 1 .. n /\ DOMAIN t = 1 .. n + 1 /\ t[n + 1] = f
      /\ \A k \in 1 .. n : t[k] = s[k]
  BY AppendFrame
<1>2. \A k \in 1 .. n + 1 : \A e \in 1 .. t[k].count : t[k].signal[e] \in 0 .. 255
  BY <1>1, Zenon DEF ValuesInRange
<1>3. n + 1 \in 1 .. n + 1 /\ 1 .. n \subseteq 1 .. n + 1
  BY <1>1
<1> HIDE DEF t, n
<1>4. \A k \in 1 .. n : \A e \in 1 .. s[k].count : s[k].signal[e] \in 0 .. 255
  <2> SUFFICES ASSUME NEW k \in 1 .. n, NEW e \in 1 .. s[k].count
               PROVE  s[k].signal[e] \in 0 .. 255
    OBVIOUS
  <2>1. k \in 1 .. n + 1 /\ t[k] = s[k]
    BY <1>1, <1>3
  <2>2. e \in 1 .. t[k].count => t[k].signal[e] \in 0 .. 255
    BY <1>2, <2>1, Zenon
  <2> QED BY <2>1, <2>2, Zenon
<1>5. \A e \in 1 .. f.count : f.signal[e] \in 0 .. 255
  <2> SUFFICES ASSUME NEW e \in 1 .. f.count PROVE f.signal[e] \in 0 .. 255
    OBVIOUS
  <2>1. e \in 1 .. t[n + 1].count => t[n + 1].signal[e] \in 0 .. 255
    BY <1>2, <1>3, Zenon
  <2> QED BY <1>1, <2>1, Zenon
<1> QED BY <1>1, <1>4, <1>5, Zenon DEF ValuesInRange, ValueBad

-----------------------------------------------------------------------------
(***************************************************************************)
(* The counters that fail a run are zero if the streams are whole.         *)
(***************************************************************************)
Innocent ==
  /\ (\A id \in Speakers : Contiguous(heard[id])) => stats.seq_gaps = 0
  /\ (\A id \in Speakers : Ascending(heard[id])) => stats.backwards = 0
  /\ (\A id \in Speakers : SitesBelow(heard[id], Bound(id))) => stats.bad_index = 0
  /\ (\A id \in Speakers : ValuesInRange(heard[id])) => stats.bad_value = 0
  /\ stats.unexpected_cams = 0
       <=> (specs # <<>> => \A id \in Speakers : Configured(id))

LEMMA InnocentInit == SinkInit => Innocent
BY DEF SinkInit, Innocent, Speakers

LEMMA InnocentPlaces ==
  ASSUME SinkTypeOK, TableTracksStreams, Registered, Innocent,
         NEW f, Hears(f), NEW i, Places(f, i)
  PROVE  Innocent'
<1> DEFINE id  == f.camera_id
           cam == Given(i, id)
           s   == heard[id]
<1>1. /\ id \in CameraId /\ cam \in CamState /\ cam.frames = Len(s)
      /\ s \in Seq(Frame(CameraId))
      /\ s # <<>> => /\ cam.last_seq  = s[Len(s)].sequence
                     /\ cam.last_t_ns = s[Len(s)].t_ns
      /\ cams[i].seen <=> s # <<>>
      /\ heard'[id] = Append(s, f)
      /\ \A other \in CameraId : other # id => heard'[other] = heard[other]
      /\ Speakers' = Speakers \cup {id}
  BY FramePlaced
<1>2. /\ cam.max_sites = Bound(id)
      /\ cam.spec_known = Configured(id)
  BY PlacedBounds
<1>3. /\ stats'.seq_gaps = stats.seq_gaps + One(SequenceGap(cam, f))
      /\ stats'.backwards = stats.backwards + One(StampBack(cam, f))
      /\ stats'.bad_index = stats.bad_index + One(IndexBad(cam, f))
      /\ stats'.bad_value = stats.bad_value + One(ValueBad(f))
      /\ stats'.unexpected_cams =
           stats.unexpected_cams + One(~cams[i].seen /\ specs # <<>> /\ ~cam.spec_known)
  <2> DEFINE new == ~cams[i].seen
             after == Checked(cam, f, new)
  <2>1. stats' = after
    BY DEF Places
  <2>2. /\ after.seq_gaps = stats.seq_gaps + One(SequenceGap(cam, f))
        /\ after.backwards = stats.backwards + One(StampBack(cam, f))
        /\ after.bad_index = stats.bad_index + One(IndexBad(cam, f))
        /\ after.bad_value = stats.bad_value + One(ValueBad(f))
        /\ after.unexpected_cams =
             stats.unexpected_cams + One(new /\ specs # <<>> /\ ~cam.spec_known)
    <3> HIDE DEF new, cam, id
    <3> QED BY CheckedCounts
  <2> HIDE DEF after
  <2> QED BY <2>1, <2>2
<1>4. f \in Frame(CameraId) /\ Whole(f) /\ UNCHANGED specs
  BY DEF Hears
<1>5. \A who : Bound(who)' = Bound(who) /\ Configured(who)' = Configured(who)
  BY <1>4, SameTable
<1>6. Speakers \subseteq CameraId /\ (id \in Speakers <=> s # <<>>)
  BY <1>1 DEF Speakers
<1>7. s = <<>> => Contiguous(s) /\ Ascending(s) /\ SitesBelow(s, Bound(id)) /\ ValuesInRange(s)
  <2>1. s = <<>> => DOMAIN s = {}
    OBVIOUS
  <2> HIDE DEF s
  <2> QED BY <2>1 DEF Contiguous, Ascending, SitesBelow, ValuesInRange
<1> HIDE DEF id, cam, s
<1>8. /\ stats.seq_gaps \in Nat /\ stats.backwards \in Nat /\ stats.bad_index \in Nat
      /\ stats.bad_value \in Nat /\ stats.unexpected_cams \in Nat
  BY DEF SinkTypeOK, Stats
<1>9. cam.frames > 0 <=> s # <<>>
  BY <1>1, <1>4, AppendFrame
<1>10. ASSUME \A who \in Speakers' : Contiguous(heard'[who]) PROVE stats'.seq_gaps = 0
  <2>1. Contiguous(s) /\ (s # <<>> => f.sequence = s[Len(s)].sequence + 1)
    <3>1. Contiguous(Append(s, f))
      BY <1>1, <1>10
    <3> QED BY <1>1, <1>4, <3>1, ContiguousBefore
  <2>2. \A who \in Speakers : Contiguous(heard[who])
    BY <1>1, <1>6, <1>10, <2>1 DEF s
  <2>3. ~SequenceGap(cam, f)
    BY <1>1, <1>9, <2>1 DEF SequenceGap
  <2> QED BY <1>3, <2>2, <2>3 DEF Innocent, One
<1>11. ASSUME \A who \in Speakers' : Ascending(heard'[who]) PROVE stats'.backwards = 0
  <2>1. Ascending(s) /\ (s # <<>> => s[Len(s)].t_ns < f.t_ns)
    <3>1. Ascending(Append(s, f))
      BY <1>1, <1>11
    <3> QED BY <1>1, <1>4, <3>1, AscendingBefore
  <2>2. \A who \in Speakers : Ascending(heard[who])
    BY <1>1, <1>6, <1>11, <2>1 DEF s
  <2>3. ~StampBack(cam, f)
    <3>1. f.t_ns \in Int /\ cam.last_t_ns \in Int
      BY <1>1, <1>4 DEF Frame, CamState
    <3> QED BY <1>1, <1>9, <2>1, <3>1 DEF StampBack
  <2> QED BY <1>3, <2>2, <2>3 DEF Innocent, One
<1>12. ASSUME \A who \in Speakers' : SitesBelow(heard'[who], Bound(who)')
       PROVE  stats'.bad_index = 0
  <2>1. SitesBelow(s, cam.max_sites) /\ ~IndexBad(cam, f)
    <3>1. SitesBelow(Append(s, f), cam.max_sites)
      BY <1>1, <1>2, <1>5, <1>12
    <3> QED BY <1>1, <1>4, <3>1, SitesBefore
  <2>2. \A who \in Speakers : SitesBelow(heard[who], Bound(who))
    BY <1>1, <1>2, <1>5, <1>6, <1>12, <2>1 DEF s
  <2> QED BY <1>3, <2>1, <2>2 DEF Innocent, One
<1>13. ASSUME \A who \in Speakers' : ValuesInRange(heard'[who]) PROVE stats'.bad_value = 0
  <2>1. ValuesInRange(s) /\ ~ValueBad(f)
    <3>1. ValuesInRange(Append(s, f))
      BY <1>1, <1>13
    <3> QED BY <1>1, <1>4, <3>1, ValuesBefore
  <2>2. \A who \in Speakers : ValuesInRange(heard[who])
    BY <1>1, <1>6, <1>13, <2>1 DEF s
  <2> QED BY <1>3, <2>1, <2>2 DEF Innocent, One
<1>14. stats'.unexpected_cams = 0
         <=> (specs' # <<>> => \A who \in Speakers' : Configured(who)')
  <2>1. (specs' # <<>> => \A who \in Speakers' : Configured(who)')
          <=> /\ specs # <<>> => \A who \in Speakers : Configured(who)
              /\ specs # <<>> => Configured(id)
    BY <1>1, <1>4, <1>5
  <2>2. CASE cams[i].seen
    <3>1. id \in Speakers
      BY <1>1, <1>6, <2>2
    <3>2. stats'.unexpected_cams = stats.unexpected_cams
      BY <1>3, <1>8, <2>2 DEF One
    <3> QED BY <2>1, <3>1, <3>2 DEF Innocent
  <2>3. CASE ~cams[i].seen
    <3>1. stats'.unexpected_cams =
            IF specs # <<>> /\ ~Configured(id) THEN stats.unexpected_cams + 1
            ELSE stats.unexpected_cams
      BY <1>2, <1>3, <1>8, <2>3 DEF One
    <3>2. stats'.unexpected_cams = 0
            <=> stats.unexpected_cams = 0 /\ (specs # <<>> => Configured(id))
      BY <1>8, <3>1
    <3> QED BY <2>1, <3>2 DEF Innocent
  <2> QED BY <2>2, <2>3
<1> QED BY <1>10, <1>11, <1>12, <1>13, <1>14 DEF Innocent

LEMMA InnocentNext ==
  ASSUME ~ExpectAnytime, TableInv, Registered, AllSeated => Innocent,
         [SinkNext]_sinkVars, AllSeated'
  PROVE  Innocent'
<1>1. SinkTypeOK /\ TableTracksStreams /\ stats \in Stats
  BY DEF TableInv, SinkTypeOK
<1>2. CASE Refuses
  <2>4. Innocent
    BY <1>1, <1>2, SeatedBefore DEF Refuses
  <2>1. /\ stats'.seq_gaps = stats.seq_gaps /\ stats'.backwards = stats.backwards
        /\ stats'.bad_index = stats.bad_index /\ stats'.bad_value = stats.bad_value
        /\ stats'.unexpected_cams = stats.unexpected_cams
    BY <1>1, <1>2, BadParseCounts DEF Refuses
  <2>2. UNCHANGED <<specs, heard>> /\ Speakers' = Speakers
    BY <1>2 DEF Refuses, Speakers
  <2>3. \A id : Bound(id)' = Bound(id) /\ Configured(id)' = Configured(id)
    BY <2>2, SameTable
  <2> QED BY <2>4, <2>1, <2>2, <2>3 DEF Innocent
<1>3. ASSUME NEW f, Hears(f), NEW i, Places(f, i) PROVE Innocent'
  <2>1. Innocent
    BY <1>1, <1>3, SeatedBefore
  <2> QED BY <1>1, <1>3, <2>1, InnocentPlaces
<1>4. ASSUME stats.received = 0, UNCHANGED <<cams, stats, heard, refused>>
      PROVE  Innocent'
  <2>1. Speakers = {} /\ Speakers' = Speakers
    BY <1>4 DEF Registered, Speakers
  <2>2. Innocent
    BY <1>1, <1>4, SeatedBefore
  <2> QED BY <1>4, <2>1, <2>2 DEF Innocent
<1>5. CASE UNCHANGED <<cams, specs, stats, heard, refused>>
  <2>1. \A id : Bound(id)' = Bound(id) /\ Configured(id)' = Configured(id)
    BY <1>5, SameTable
  <2>2. UNCHANGED <<specs, heard, stats>> /\ Speakers' = Speakers
    BY <1>5 DEF Speakers
  <2>3. Innocent
    BY <1>1, <1>5, SeatedBefore
  <2> QED BY <2>1, <2>2, <2>3 DEF Innocent
<1>6. \A f : Hears(f) => ~Overflows(f)
  BY <1>1, SeatedBefore
<1> QED BY <1>1, <1>2, <1>3, <1>4, <1>5, <1>6, WaysOfNext

LEMMA ExactInvariant ==
  ASSUME IsFiniteSet(CameraId), ~ExpectAnytime
  PROVE  SinkSpec => [](TableInv /\ Counting /\ Registered /\ (AllSeated => Innocent))
<1> DEFINE Inv == TableInv /\ Counting /\ Registered /\ (AllSeated => Innocent)
<1>1. SinkInit => Inv
  BY TableInvInit, CountingInit, RegisteredInit, InnocentInit
<1>2. Inv /\ [SinkNext]_sinkVars => Inv'
  BY TableInvNext, CountingNext, RegisteredNext, InnocentNext
<1> HIDE DEF Inv
<1>3. SinkSpec => []Inv
  BY <1>1, <1>2, PTL DEF SinkSpec
<1> QED BY <1>3 DEF Inv

(***************************************************************************)
(* The verdict of sink_report is exact, for any number of cameras, each of *)
(* which has found a slot, and any table registered before the first       *)
(* message: PASS if and only if something arrived, all of it parsed, every *)
(* camera is configured and every stream is whole and within its bounds.   *)
(***************************************************************************)
THEOREM VerdictAlwaysExact ==
  ASSUME IsFiniteSet(CameraId), ~ExpectAnytime
  PROVE  SinkSpec => []VerdictMatchesStreams
<1>1. ASSUME TableInv, Counting, Registered, AllSeated, Innocent
      PROVE  VerdictMatchesStreams
  <2> DEFINE Clean(id) == /\ Contiguous(heard[id]) /\ Ascending(heard[id])
                          /\ SitesBelow(heard[id], Bound(id))
                          /\ ValuesInRange(heard[id])
             Known == specs # <<>> => \A id \in Speakers : Configured(id)
  <2>1. SinkTypeOK /\ TableTracksStreams /\ CountersTellTruth /\ stats \in Stats
    BY <1>1 DEF TableInv, SinkTypeOK
  <2>2. Failed <=> \/ stats.received = 0 \/ stats.bad_parse # 0 \/ stats.backwards # 0
                   \/ stats.seq_gaps # 0 \/ stats.bad_index # 0 \/ stats.bad_value # 0
                   \/ stats.unexpected_cams # 0
    BY <2>1 DEF Failed, Stats
  <2>3. stats.bad_parse = 0 <=> refused = <<>>
    BY <1>1, <2>1, EmptySeq, LenProperties DEF Counting, SinkTypeOK
  <2>4. ASSUME ~Failed PROVE refused = <<>> /\ Speakers # {} /\ Known
    BY <1>1, <2>2, <2>3, <2>4 DEF Registered, Innocent
  <2>5. ASSUME ~Failed, NEW id \in Speakers PROVE Clean(id)
    <3>1. id \in CameraId /\ heard[id] # <<>>
      BY DEF Speakers
    <3>2. PICK i \in Slot : cams[i].seen /\ cams[i].camera_id = id
      BY <1>1 DEF AllSeated, SeenSlots
    <3>3. cams[i].max_sites = Bound(id)
      BY <1>1, <3>2 DEF Registered
    <3> QED BY <2>1, <2>2, <2>5, <3>2, <3>3 DEF CountersTellTruth
  <2>6. ASSUME refused = <<>>, Speakers # {}, \A id \in Speakers : Clean(id), Known
        PROVE  ~Failed
    <3>1. stats.received # 0
      BY <1>1, <2>6 DEF Registered
    <3>2. /\ stats.seq_gaps = 0 /\ stats.backwards = 0 /\ stats.bad_index = 0
          /\ stats.bad_value = 0 /\ stats.unexpected_cams = 0
      BY <1>1, <2>6 DEF Innocent
    <3> QED BY <2>2, <2>3, <2>6, <3>1, <3>2
  <2> QED BY <2>4, <2>5, <2>6 DEF VerdictMatchesStreams
<1>2. TableInv /\ Counting /\ Registered /\ (AllSeated => Innocent) => VerdictMatchesStreams
  BY <1>1 DEF VerdictMatchesStreams
<1> QED BY <1>2, ExactInvariant, PTL

-----------------------------------------------------------------------------
(***************************************************************************)
(* Losses.  What is missing in a stream whose numbers advance grows by     *)
(* what Lost says of each frame.                                           *)
(***************************************************************************)
Advancing(s) == \A i \in 1 .. Len(s) - 1 : s[i].sequence < s[i + 1].sequence

MissingIn(s) == s[Len(s)].sequence - s[1].sequence + 1 - Len(s)

Gone == [id \in CameraId |-> IF heard[id] = <<>> THEN 0 ELSE MissingIn(heard[id])]

AllAdvance == \A id \in Speakers : Advancing(heard[id])

LossCounted ==
  AllAdvance => /\ \A id \in CameraId : Gone[id] \in Nat
                /\ stats.seq_lost = Cardinality(Pile(CameraId, Gone))

LEMMA AdvancingBefore ==
  ASSUME NEW s \in Seq(Frame(CameraId)), NEW f \in Frame(CameraId),
         Advancing(Append(s, f))
  PROVE  Advancing(s) /\ (s # <<>> => s[Len(s)].sequence < f.sequence)
<1> DEFINE t == Append(s, f)
           n == Len(s)
<1>1. /\ n \in Nat /\ Len(t) = n + 1 /\ t[n + 1] = f
      /\ \A k \in 1 .. n : t[k] = s[k]
      /\ s # <<>> <=> n > 0
  BY AppendFrame
<1>2. \A k \in 1 .. n : t[k].sequence < t[k + 1].sequence
  BY <1>1 DEF Advancing
<1> HIDE DEF t, n
<1>3. \A k \in 1 .. n - 1 : s[k].sequence < s[k + 1].sequence
  <2>1. \A k \in 1 .. n - 1 : k \in 1 .. n /\ k + 1 \in 1 .. n
    BY <1>1
  <2> QED BY <1>1, <1>2, <2>1
<1>4. n > 0 => s[n].sequence < f.sequence
  <2>1. n > 0 => n \in 1 .. n
    BY <1>1
  <2> QED BY <1>1, <1>2, <2>1
<1> QED BY <1>1, <1>3, <1>4 DEF Advancing, n

LEMMA AppendMissing ==
  ASSUME NEW s \in Seq(Frame(CameraId)), NEW f \in Frame(CameraId)
  PROVE  /\ s = <<>> => MissingIn(Append(s, f)) = 0
         /\ s # <<>> => /\ MissingIn(s) \in Int
                        /\ s[Len(s)].sequence \in Nat
                        /\ MissingIn(Append(s, f)) =
                             MissingIn(s) + (f.sequence - s[Len(s)].sequence - 1)
<1> DEFINE t == Append(s, f)
           n == Len(s)
<1>1. /\ n \in Nat /\ Len(t) = n + 1 /\ t[n + 1] = f
      /\ \A k \in 1 .. n : t[k] = s[k] /\ s[k].sequence \in Nat
      /\ s # <<>> <=> n > 0
  BY AppendFrame DEF Frame
<1>2. f.sequence \in Nat
  BY DEF Frame
<1> HIDE DEF t
<1>3. MissingIn(t) = f.sequence - t[1].sequence + 1 - (n + 1)
  BY <1>1 DEF MissingIn
<1>4. CASE s = <<>>
  <2>1. n = 0 /\ t[1] = f
    BY <1>1, <1>4
  <2> QED BY <1>2, <1>3, <1>4, <2>1 DEF t
<1>5. CASE s # <<>>
  <2>1. 1 \in 1 .. n /\ n \in 1 .. n
    BY <1>1, <1>5
  <2>2. t[1] = s[1] /\ s[1].sequence \in Nat /\ s[n].sequence \in Nat
    BY <1>1, <2>1
  <2>3. MissingIn(s) = s[n].sequence - s[1].sequence + 1 - n
    BY DEF MissingIn
  <2>4. MissingIn(s) \in Int
    BY <1>1, <2>2, <2>3
  <2>5. MissingIn(t) = MissingIn(s) + (f.sequence - s[n].sequence - 1)
    <3>1. PICK a, b, c \in Nat :
            a = s[1].sequence /\ b = s[n].sequence /\ c = f.sequence
      BY <1>2, <2>2
    <3>2. MissingIn(t) = c - a + 1 - (n + 1) /\ MissingIn(s) = b - a + 1 - n
      BY <1>3, <2>2, <2>3, <3>1
    <3>3. n \in Nat
      BY <1>1
    <3> HIDE DEF n
    <3>4. c - a + 1 - (n + 1) = (b - a + 1 - n) + (c - b - 1)
      BY <3>3
    <3> QED BY <3>1, <3>2, <3>4
  <2> QED BY <1>5, <2>2, <2>4, <2>5 DEF t
<1> QED BY <1>4, <1>5

LEMMA LossPlaces ==
  ASSUME IsFiniteSet(CameraId), SinkTypeOK, TableTracksStreams, LossCounted,
         NEW f, Hears(f), NEW i, Places(f, i)
  PROVE  LossCounted'
<1> SUFFICES ASSUME AllAdvance'
             PROVE  /\ \A id \in CameraId : Gone'[id] \in Nat
                    /\ stats'.seq_lost = Cardinality(Pile(CameraId, Gone'))
  BY DEF LossCounted
<1> DEFINE id  == f.camera_id
           cam == Given(i, id)
           s   == heard[id]
<1>1. /\ id \in CameraId /\ cam \in CamState /\ cam.frames = Len(s)
      /\ s \in Seq(Frame(CameraId))
      /\ s # <<>> => cam.last_seq  = s[Len(s)].sequence
      /\ heard'[id] = Append(s, f)
      /\ \A other \in CameraId : other # id => heard'[other] = heard[other]
      /\ Speakers' = Speakers \cup {id}
  BY FramePlaced
<1>2. stats'.seq_lost = stats.seq_lost + Lost(cam, f)
  <2> DEFINE new == ~cams[i].seen
             after == Checked(cam, f, new)
  <2>1. stats' = after
    BY DEF Places
  <2>2. after.seq_lost = stats.seq_lost + Lost(cam, f)
    <3> HIDE DEF new, cam, id
    <3> QED BY CheckedCounts
  <2> HIDE DEF after
  <2> QED BY <2>1, <2>2
<1>3. f \in Frame(CameraId) /\ f.sequence \in Nat /\ stats.seq_lost \in Nat
  BY DEF Hears, Frame, SinkTypeOK, Stats
<1>4. Speakers \subseteq CameraId /\ (id \in Speakers <=> s # <<>>)
  BY <1>1 DEF Speakers
<1>5. /\ Gone[id] = IF s = <<>> THEN 0 ELSE MissingIn(s)
      /\ Gone'[id] = IF heard'[id] = <<>> THEN 0 ELSE MissingIn(heard'[id])
      /\ \A other \in CameraId : other # id => Gone'[other] = Gone[other]
  BY <1>1 DEF Gone
<1>6. \A other \in Speakers : other # id => heard'[other] = heard[other]
  BY <1>1, <1>4
<1> HIDE DEF id, cam, s
<1>7. heard'[id] # <<>> /\ (cam.frames > 0 <=> s # <<>>)
  BY <1>1, <1>3, AppendFrame
<1>8. Advancing(s) /\ (s # <<>> => s[Len(s)].sequence < f.sequence)
  <2>1. Advancing(Append(s, f))
    BY <1>1 DEF AllAdvance
  <2> QED BY <1>1, <1>3, <2>1, AdvancingBefore
<1>9. AllAdvance
  <2> SUFFICES ASSUME NEW who \in Speakers PROVE Advancing(heard[who])
    BY DEF AllAdvance
  <2>1. CASE who = id
    BY <1>8, <2>1 DEF s
  <2>2. CASE who # id
    <3>1. Advancing(heard'[who])
      BY <1>1 DEF AllAdvance
    <3> QED BY <1>6, <2>2, <3>1
  <2> QED BY <2>1, <2>2
<1>10. /\ \A who \in CameraId : Gone[who] \in Nat
       /\ stats.seq_lost = Cardinality(Pile(CameraId, Gone))
  BY <1>9 DEF LossCounted
<1>11. Gone'[id] = Gone[id] + Lost(cam, f) /\ Lost(cam, f) \in Nat
  <2>1. CASE s = <<>>
    <3>1. Gone'[id] = 0 /\ Gone[id] = 0
      BY <1>1, <1>3, <1>5, <1>7, <2>1, AppendMissing
    <3>2. Lost(cam, f) = 0
      BY <1>7, <2>1 DEF Lost, SequenceGap
    <3> QED BY <3>1, <3>2
  <2>2. CASE s # <<>>
    <3> DEFINE last == s[Len(s)].sequence
    <3>1. /\ last \in Nat /\ MissingIn(s) \in Int
          /\ Gone[id] = MissingIn(s)
          /\ Gone'[id] = MissingIn(s) + (f.sequence - last - 1)
      BY <1>1, <1>3, <1>5, <1>7, <2>2, AppendMissing
    <3>2. last < f.sequence /\ cam.last_seq = last /\ cam.frames > 0
      BY <1>1, <1>7, <1>8, <2>2
    <3> HIDE DEF last
    <3>3. Lost(cam, f) = f.sequence - last - 1
      BY <1>3, <3>1, <3>2 DEF Lost, SequenceGap
    <3> QED BY <1>3, <3>1, <3>2, <3>3
  <2> QED BY <2>1, <2>2
<1>12. PICK F, G : F = Gone /\ G = Gone'
  OBVIOUS
<1>13. /\ \A who \in CameraId : F[who] \in Nat /\ G[who] \in Nat
       /\ \A who \in CameraId : who # id => G[who] = F[who]
       /\ G[id] = F[id] + Lost(cam, f)
  BY <1>1, <1>5, <1>10, <1>11, <1>12
<1>14. /\ Cardinality(Pile(CameraId, F)) \in Nat /\ Cardinality(Pile(CameraId, G)) \in Nat
       /\ Cardinality(Pile(CameraId, G)) + F[id] = Cardinality(Pile(CameraId, F)) + G[id]
  <2>1. id \in CameraId
    BY <1>1
  <2> QED BY <1>13, <2>1, PileChanges
<1>15. F[id] \in Nat
  BY <1>1, <1>13
<1>16. Cardinality(Pile(CameraId, G)) = Cardinality(Pile(CameraId, F)) + Lost(cam, f)
  BY <1>11, <1>13, <1>14, <1>15
<1> QED BY <1>2, <1>10, <1>12, <1>13, <1>16

\* Nothing is missing before the first message.
LEMMA LossInit == IsFiniteSet(CameraId) /\ SinkInit => LossCounted
<1> SUFFICES ASSUME SinkInit PROVE LossCounted
  OBVIOUS
<1>1. \A id \in CameraId : Gone[id] = 0
  BY DEF Gone, SinkInit
<1>2. Pile(CameraId, Gone) = {}
  BY <1>1 DEF Pile
<1>3. Cardinality(Pile(CameraId, Gone)) = 0
  BY <1>2, FS_EmptySet
<1> QED BY <1>1, <1>3 DEF LossCounted, SinkInit

LEMMA LossNext ==
  ASSUME IsFiniteSet(CameraId), TableInv, AllSeated => LossCounted,
         [SinkNext]_sinkVars, AllSeated'
  PROVE  LossCounted'
<1>1. SinkTypeOK /\ TableTracksStreams /\ stats \in Stats
  BY DEF TableInv, SinkTypeOK
<1>2. ASSUME UNCHANGED <<cams, heard>>, stats'.seq_lost = stats.seq_lost
      PROVE  LossCounted'
  <2>1. LossCounted
    BY <1>1, <1>2, SeatedBefore
  <2> QED BY <1>2, <2>1 DEF LossCounted, AllAdvance, Gone, Speakers
<1>3. CASE Refuses
  <2>1. stats'.seq_lost = stats.seq_lost /\ UNCHANGED <<cams, heard>>
    BY <1>1, <1>3, BadParseCounts DEF Refuses
  <2> QED BY <1>2, <2>1
<1>4. ASSUME NEW f, Hears(f), NEW i, Places(f, i) PROVE LossCounted'
  <2>1. LossCounted
    BY <1>1, <1>4, SeatedBefore
  <2> QED BY <1>1, <1>4, <2>1, LossPlaces
<1>5. CASE UNCHANGED <<cams, stats, heard, refused>>
  BY <1>2, <1>5
<1>6. \A f : Hears(f) => ~Overflows(f)
  BY <1>1, SeatedBefore
<1> QED BY <1>1, <1>3, <1>4, <1>5, <1>6, WaysOfNext

(***************************************************************************)
(* Where every stream advances, seq_lost is what is missing between the    *)
(* first and the last frame of each camera, for any number of cameras that *)
(* have found a slot, however their frames interleave and whatever is      *)
(* refused between them.  sink_validate.                                   *)
(***************************************************************************)
THEOREM LossAlwaysExact ==
  ASSUME IsFiniteSet(CameraId)
  PROVE  SinkSpec => []LossIsExact
<1> DEFINE Missing(id) == LET s == heard[id]
                          IN  s[Len(s)].sequence - s[1].sequence + 1 - Len(s)
           Sums(g) == g = [s \in SUBSET Speakers |->
                             IF s = {} THEN 0
                             ELSE Missing(CHOOSE x \in s : TRUE)
                                    + g[s \ {CHOOSE x \in s : TRUE}]]
           g0 == CHOOSE g : Sums(g)
           F  == [id \in Speakers |-> Missing(id)]
<1>1. ASSUME TableInv, AllSeated, LossCounted PROVE LossIsExact
  <2>1. ASSUME AllAdvance PROVE stats.seq_lost = MapThenSumSet(Missing, Speakers)
    <3>1. MapThenSumSet(Missing, Speakers) = g0[Speakers]
      BY DEF MapThenSumSet, MapThenFoldSet
    <3>2. \A g : Sums(g) <=> SumsUp(g, Speakers, F)
      <4>1. ASSUME NEW s \in SUBSET Speakers, s # {}
            PROVE  F[CHOOSE x \in s : TRUE] = Missing(CHOOSE x \in s : TRUE)
        <5>1. PICK y : y = CHOOSE x \in s : TRUE
          OBVIOUS
        <5>2. y \in Speakers
          BY <4>1, <5>1
        <5>3. F[y] = Missing(y)
          BY <5>2
        <5> QED BY <5>1, <5>3
      <4> HIDE DEF F, Missing
      <4> QED BY <4>1 DEF SumsUp
    <3>3. Speakers \subseteq CameraId /\ IsFiniteSet(Speakers)
      BY FS_Subset DEF Speakers
    <3>4. \A id \in Speakers : F[id] = Gone[id] /\ F[id] \in Nat
      <4>1. \A id \in CameraId : Gone[id] \in Nat
        BY <1>1, <2>1 DEF LossCounted
      <4>2. \A id \in Speakers : Gone[id] = MissingIn(heard[id])
        BY <3>3 DEF Gone, Speakers
      <4>3. \A id \in Speakers : F[id] = MissingIn(heard[id])
        BY DEF MissingIn
      <4> QED BY <3>3, <4>1, <4>2, <4>3
    <3>5. \A id \in CameraId \ Speakers : Gone[id] = 0
      BY DEF Gone, Speakers
    <3> HIDE DEF F
    <3>6. \E g : Sums(g)
      BY <3>2, <3>3, <3>4, SumExists
    <3>7. Sums(g0)
      BY <3>6
    <3>8. SumsUp(g0, Speakers, F)
      BY <3>2, <3>7
    <3> HIDE DEF g0
    <3>9. g0[Speakers] = Cardinality(Pile(Speakers, F))
      BY <3>3, <3>4, <3>8, SumIsPile
    <3>10. Pile(Speakers, F) = Pile(CameraId, Gone)
      <4>1. Pile(Speakers, F) \subseteq Pile(CameraId, Gone)
        BY <3>3, <3>4 DEF Pile
      <4>2. Pile(CameraId, Gone) \subseteq Pile(Speakers, F)
        BY <3>3, <3>4, <3>5 DEF Pile
      <4> QED BY <4>1, <4>2
    <3> QED BY <1>1, <2>1, <3>1, <3>9, <3>10 DEF LossCounted
  <2> HIDE DEF Missing
  <2> QED BY <2>1 DEF LossIsExact, AllAdvance, Advancing, Missing
<1>2. TableInv /\ (AllSeated => LossCounted) => LossIsExact
  BY <1>1 DEF LossIsExact
<1>3. SinkInit => TableInv /\ (AllSeated => LossCounted)
  BY TableInvInit, LossInit
<1>4. TableInv /\ (AllSeated => LossCounted) /\ [SinkNext]_sinkVars
        => TableInv' /\ (AllSeated' => LossCounted')
  BY TableInvNext, LossNext
<1> QED BY <1>2, <1>3, <1>4, PTL DEF SinkSpec

-----------------------------------------------------------------------------
(***************************************************************************)
(* Cadence.  OffSteps are the steps of a stream that leave the tolerance   *)
(* around the period; each frame adds at most the step that leads to it.   *)
(***************************************************************************)
OffStep(period, dt) ==
  period > 0 /\ dt > 0 /\ 100 * dt \notin period * (100 - Tol) .. period * (100 + Tol)

OffSteps(period, s) ==
  {i \in 1 .. Len(s) - 1 : OffStep(period, s[i + 1].t_ns - s[i].t_ns)}

Jitters == [id \in CameraId |-> Cardinality(OffSteps(Period(id), heard[id]))]

JitterCounted == stats.jitter = Cardinality(Pile(CameraId, Jitters))

\* The test of sink_validate is that of OffStep.
LEMMA OffCadenceIsOffStep ==
  ASSUME NEW cam \in CamState, NEW f \in Frame(CameraId), cam.frames > 0
  PROVE  OffCadence(cam, f) <=> OffStep(cam.expect_period, f.t_ns - cam.last_t_ns)
<1> DEFINE p == cam.expect_period
           low == p * (100 - Tol)
           high == p * (100 + Tol)
<1>1. f.t_ns \in Int /\ cam.last_t_ns \in Int /\ p \in Nat
  BY DEF Frame, CamState
<1>2. Tol \in Int
  BY SinkAssumption DEF Tol
<1>3. low \in Int /\ high \in Int
  BY <1>1, <1>2
<1>4. PICK a, b \in Int : a = f.t_ns /\ b = cam.last_t_ns
  BY <1>1
<1> HIDE DEF p, low, high
<1>5. 100 * (a - b) \in Int /\ (a > b <=> a - b > 0)
  BY <1>4
<1>6. OffCadence(cam, f) <=> a > b /\ p > 0 /\ (100 * (a - b) < low \/ 100 * (a - b) > high)
  BY <1>4 DEF OffCadence, p, low, high
<1>7. OffStep(p, a - b) <=> p > 0 /\ a - b > 0 /\ 100 * (a - b) \notin low .. high
  BY DEF OffStep, low, high
<1>8. 100 * (a - b) \notin low .. high <=> 100 * (a - b) < low \/ 100 * (a - b) > high
  BY <1>3, <1>5
<1> QED BY <1>4, <1>5, <1>6, <1>7, <1>8 DEF p

LEMMA OffStepsFinite ==
  ASSUME NEW s \in Seq(Frame(CameraId)), NEW p
  PROVE  IsFiniteSet(OffSteps(p, s)) /\ Cardinality(OffSteps(p, s)) \in Nat
<1>1. Len(s) - 1 \in Int /\ 1 \in Int
  BY LenProperties
<1>2. IsFiniteSet(1 .. Len(s) - 1)
  BY <1>1, FS_Interval
<1>3. OffSteps(p, s) \subseteq 1 .. Len(s) - 1
  BY DEF OffSteps
<1> QED BY <1>2, <1>3, FS_Subset, FS_CardinalityType

\* One more frame adds one step, if it is off.
LEMMA AppendOffSteps ==
  ASSUME NEW s \in Seq(Frame(CameraId)), NEW f \in Frame(CameraId), NEW p
  PROVE  Cardinality(OffSteps(p, Append(s, f))) =
           Cardinality(OffSteps(p, s))
             + One(s # <<>> /\ OffStep(p, f.t_ns - s[Len(s)].t_ns))
<1> DEFINE t == Append(s, f)
           n == Len(s)
           old == OffSteps(p, s)
           new == OffSteps(p, t)
           off == s # <<>> /\ OffStep(p, f.t_ns - s[n].t_ns)
<1>1. /\ n \in Nat /\ Len(t) = n + 1 /\ t[n + 1] = f
      /\ \A k \in 1 .. n : t[k] = s[k]
      /\ s # <<>> <=> n > 0
  BY AppendFrame
<1> HIDE DEF t, n
<1>2. new = {k \in 1 .. n : OffStep(p, t[k + 1].t_ns - t[k].t_ns)}
  BY <1>1 DEF OffSteps
<1>3. old = {k \in 1 .. n - 1 : OffStep(p, s[k + 1].t_ns - s[k].t_ns)}
  BY DEF OffSteps, n
<1>4. \A k \in 1 .. n - 1 : k \in 1 .. n /\ k # n /\ t[k + 1] = s[k + 1] /\ t[k] = s[k]
  BY <1>1
<1>5. \A k \in 1 .. n : k \in 1 .. n - 1 \/ k = n
  BY <1>1
<1>6. n > 0 => n \in 1 .. n /\ t[n + 1] = f /\ t[n] = s[n]
  BY <1>1
<1>7. n \notin old
  BY <1>1, <1>3
<1>8. IsFiniteSet(old) /\ Cardinality(old) \in Nat
  BY OffStepsFinite
<1>9. CASE off
  <2>1. new = old \cup {n}
    <3>1. n \in new
      BY <1>1, <1>2, <1>6, <1>9
    <3>2. old \subseteq new
      BY <1>2, <1>3, <1>4
    <3>3. new \subseteq old \cup {n}
      BY <1>2, <1>3, <1>4, <1>5
    <3> HIDE DEF new, old
    <3> QED BY <3>1, <3>2, <3>3
  <2> HIDE DEF new, old, off
  <2>2. Cardinality(new) = Cardinality(old) + 1
    BY <1>7, <1>8, <2>1, FS_AddElement
  <2> QED BY <1>9, <2>2 DEF One, new, old, off, t, n
<1>10. CASE ~off
  <2>1. new = old
    <3>1. n \notin new
      BY <1>1, <1>2, <1>6, <1>10
    <3>2. old \subseteq new
      BY <1>2, <1>3, <1>4
    <3>3. new \subseteq old \cup {n}
      BY <1>2, <1>3, <1>4, <1>5
    <3> HIDE DEF new, old
    <3> QED BY <3>1, <3>2, <3>3
  <2> HIDE DEF new, old, off
  <2>2. Cardinality(new) = Cardinality(old) + 0
    BY <1>8, <2>1
  <2> QED BY <1>10, <2>2 DEF One, new, old, off, t, n
<1> QED BY <1>9, <1>10

LEMMA JittersType ==
  ASSUME SinkTypeOK
  PROVE  \A id \in CameraId : Jitters[id] \in Nat
BY OffStepsFinite DEF SinkTypeOK, Jitters

LEMMA JitterPlaces ==
  ASSUME IsFiniteSet(CameraId), SinkTypeOK, TableTracksStreams, Registered,
         JitterCounted, NEW f, Hears(f), NEW i, Places(f, i)
  PROVE  JitterCounted'
<1> DEFINE id  == f.camera_id
           cam == Given(i, id)
           s   == heard[id]
           off == OffCadence(cam, f)
<1>1. /\ id \in CameraId /\ cam \in CamState /\ cam.frames = Len(s)
      /\ s \in Seq(Frame(CameraId))
      /\ s # <<>> => cam.last_t_ns = s[Len(s)].t_ns
      /\ heard'[id] = Append(s, f)
      /\ \A other \in CameraId : other # id => heard'[other] = heard[other]
  BY FramePlaced
<1>2. cam.expect_period = Period(id)
  BY PlacedBounds
<1>3. stats'.jitter = stats.jitter + One(off)
  <2> DEFINE new == ~cams[i].seen
             after == Checked(cam, f, new)
  <2>1. stats' = after
    BY DEF Places
  <2>2. after.jitter = stats.jitter + One(off)
    <3> HIDE DEF new, cam, id
    <3> QED BY CheckedCounts DEF off
  <2> HIDE DEF after
  <2> QED BY <2>1, <2>2
<1>4. f \in Frame(CameraId) /\ UNCHANGED specs /\ stats.jitter \in Nat
  BY DEF Hears, SinkTypeOK, Stats
<1>5. \A who : Period(who)' = Period(who)
  BY <1>4, SameTable
<1>6. \A who \in CameraId : /\ Jitters[who] = Cardinality(OffSteps(Period(who), heard[who]))
                            /\ Jitters'[who] = Cardinality(OffSteps(Period(who)', heard'[who]))
  BY DEF Jitters
<1>7. off <=> s # <<>> /\ OffStep(Period(id), f.t_ns - s[Len(s)].t_ns)
  <2> HIDE DEF id, cam, s
  <2>1. cam.frames > 0 <=> s # <<>>
    BY <1>1, <1>4, AppendFrame
  <2>2. CASE s = <<>>
    BY <2>1, <2>2 DEF OffCadence
  <2>3. CASE s # <<>>
    BY <1>1, <1>2, <1>4, <2>1, <2>3, OffCadenceIsOffStep
  <2> QED BY <2>2, <2>3
<1> HIDE DEF id, cam, s, off
<1>8. Jitters'[id] = Jitters[id] + One(off)
  <2>1. Jitters'[id] = Cardinality(OffSteps(Period(id), Append(s, f)))
    BY <1>1, <1>5, <1>6
  <2>2. Jitters[id] = Cardinality(OffSteps(Period(id), s))
    BY <1>1, <1>6 DEF s
  <2>3. Cardinality(OffSteps(Period(id), Append(s, f))) =
          Cardinality(OffSteps(Period(id), s))
            + One(s # <<>> /\ OffStep(Period(id), f.t_ns - s[Len(s)].t_ns))
    BY <1>1, <1>4, AppendOffSteps
  <2>4. One(s # <<>> /\ OffStep(Period(id), f.t_ns - s[Len(s)].t_ns)) = One(off)
    BY <1>7 DEF One
  <2> QED BY <2>1, <2>2, <2>3, <2>4
<1>9. \A who \in CameraId : who # id => Jitters'[who] = Jitters[who]
  BY <1>1, <1>5, <1>6
<1>10. \A who \in CameraId : Jitters[who] \in Nat
  BY JittersType
<1>11. One(off) \in Nat
  BY DEF One
<1>12. PICK F, G : F = Jitters /\ G = Jitters'
  OBVIOUS
<1>13. /\ \A who \in CameraId : F[who] \in Nat /\ G[who] \in Nat
       /\ \A who \in CameraId : who # id => G[who] = F[who]
       /\ G[id] = F[id] + One(off)
  BY <1>1, <1>8, <1>9, <1>10, <1>11, <1>12
<1>14. /\ Cardinality(Pile(CameraId, F)) \in Nat /\ Cardinality(Pile(CameraId, G)) \in Nat
       /\ Cardinality(Pile(CameraId, G)) + F[id] = Cardinality(Pile(CameraId, F)) + G[id]
  <2>1. id \in CameraId
    BY <1>1
  <2> QED BY <1>13, <2>1, PileChanges
<1>15. F[id] \in Nat
  BY <1>1, <1>13
<1>16. Cardinality(Pile(CameraId, G)) = Cardinality(Pile(CameraId, F)) + One(off)
  BY <1>11, <1>13, <1>14, <1>15
<1> QED BY <1>3, <1>12, <1>16 DEF JitterCounted

LEMMA NoJitter ==
  ASSUME NEW S, NEW F, \A id \in S : F[id] = 0
  PROVE  Cardinality(Pile(S, F)) = 0
<1>1. Pile(S, F) = {}
  BY DEF Pile
<1> QED BY <1>1, FS_EmptySet

\* Where nobody spoke there is no step.
LEMMA SilentJitters ==
  ASSUME NEW id, heard[id] = <<>>
  PROVE  Cardinality(OffSteps(Period(id), heard[id])) = 0
<1>1. OffSteps(Period(id), heard[id]) = {}
  BY DEF OffSteps
<1> QED BY <1>1, FS_EmptySet

LEMMA JitterInit == SinkInit => JitterCounted
<1> SUFFICES ASSUME SinkInit PROVE JitterCounted
  OBVIOUS
<1>1. \A id \in CameraId : Jitters[id] = 0
  BY SilentJitters DEF Jitters, SinkInit
<1> QED BY <1>1, NoJitter DEF JitterCounted, SinkInit

LEMMA JitterNext ==
  ASSUME IsFiniteSet(CameraId), ~ExpectAnytime, TableInv, Registered,
         AllSeated => JitterCounted, [SinkNext]_sinkVars, AllSeated'
  PROVE  JitterCounted'
<1>1. SinkTypeOK /\ TableTracksStreams /\ stats \in Stats
  BY DEF TableInv, SinkTypeOK
<1>2. ASSUME UNCHANGED <<cams, specs, heard>>, stats'.jitter = stats.jitter
      PROVE  JitterCounted'
  <2>1. \A id : Period(id)' = Period(id)
    BY <1>2, SameTable
  <2>2. Jitters' = Jitters
    BY <1>2, <2>1 DEF Jitters
  <2>3. JitterCounted
    BY <1>1, <1>2, SeatedBefore
  <2> QED BY <1>2, <2>2, <2>3 DEF JitterCounted
<1>3. CASE Refuses
  <2>1. stats'.jitter = stats.jitter /\ UNCHANGED <<cams, specs, heard>>
    BY <1>1, <1>3, BadParseCounts DEF Refuses
  <2> QED BY <1>2, <2>1
<1>4. ASSUME NEW f, Hears(f), NEW i, Places(f, i) PROVE JitterCounted'
  <2>1. JitterCounted
    BY <1>1, <1>4, SeatedBefore
  <2> QED BY <1>1, <1>4, <2>1, JitterPlaces
<1>5. ASSUME stats.received = 0, UNCHANGED <<cams, stats, heard, refused>>
      PROVE  JitterCounted'
  <2>1. \A id \in CameraId : heard[id] = <<>>
    BY <1>5 DEF Registered, Speakers
  <2>2. \A id \in CameraId : Jitters[id] = 0
    BY <2>1, SilentJitters DEF Jitters
  <2>3. \A id \in CameraId : Jitters'[id] = 0
    <3>1. \A id \in CameraId : OffSteps(Period(id)', heard'[id]) = {}
      BY <1>5, <2>1 DEF OffSteps
    <3>2. \A id \in CameraId : Jitters'[id] = Cardinality(OffSteps(Period(id)', heard'[id]))
      BY DEF Jitters
    <3> QED BY <3>1, <3>2, FS_EmptySet
  <2>4. PICK F, G : F = Jitters /\ G = Jitters'
    OBVIOUS
  <2>5. Cardinality(Pile(CameraId, F)) = 0 /\ Cardinality(Pile(CameraId, G)) = 0
    BY <2>2, <2>3, <2>4, NoJitter
  <2>6. JitterCounted
    BY <1>1, <1>5, SeatedBefore
  <2> QED BY <1>5, <2>4, <2>5, <2>6 DEF JitterCounted
<1>6. CASE UNCHANGED <<cams, specs, stats, heard, refused>>
  BY <1>2, <1>6
<1>7. \A f : Hears(f) => ~Overflows(f)
  BY <1>1, SeatedBefore
<1> QED BY <1>1, <1>3, <1>4, <1>5, <1>6, <1>7, WaysOfNext

(***************************************************************************)
(* jitter counts exactly the steps forward in time that leave the          *)
(* tolerance around the period of their own camera, for any number of      *)
(* cameras that have found a slot, any tolerance and any periods.          *)
(* sink_validate and the bounds of cam_find.                               *)
(***************************************************************************)
THEOREM JitterAlwaysExact ==
  ASSUME IsFiniteSet(CameraId), ~ExpectAnytime
  PROVE  SinkSpec => []JitterIsExact
<1> DEFINE Off(id) == LET s == heard[id] IN
             {i \in 1 .. Len(s) - 1 :
                LET dt == s[i + 1].t_ns - s[i].t_ns
                IN  /\ Period(id) > 0 /\ dt > 0
                    /\ 100 * dt \notin Period(id) * (100 - Tol) .. Period(id) * (100 + Tol)}
           Count(id) == Cardinality(Off(id))
           Sums(g) == g = [s \in SUBSET Speakers |->
                             IF s = {} THEN 0
                             ELSE Count(CHOOSE x \in s : TRUE)
                                    + g[s \ {CHOOSE x \in s : TRUE}]]
           g0 == CHOOSE g : Sums(g)
           F  == [id \in Speakers |-> Count(id)]
           Inv == TableInv /\ Registered /\ (AllSeated => JitterCounted)
<1>1. ASSUME TableInv, AllSeated, JitterCounted PROVE JitterIsExact
  <2>1. MapThenSumSet(Count, Speakers) = g0[Speakers]
    BY DEF MapThenSumSet, MapThenFoldSet
  <2>2. \A g : Sums(g) <=> SumsUp(g, Speakers, F)
    <3>1. ASSUME NEW s \in SUBSET Speakers, s # {}
          PROVE  F[CHOOSE x \in s : TRUE] = Count(CHOOSE x \in s : TRUE)
      <4>1. PICK y : y = CHOOSE x \in s : TRUE
        OBVIOUS
      <4>2. y \in Speakers
        BY <3>1, <4>1
      <4>3. F[y] = Count(y)
        BY <4>2
      <4> HIDE DEF Count
      <4> QED BY <4>1, <4>3
    <3> HIDE DEF F, Count
    <3> QED BY <3>1 DEF SumsUp
  <2>3. Speakers \subseteq CameraId /\ IsFiniteSet(Speakers)
    BY FS_Subset DEF Speakers
  <2>4. \A id \in Speakers : F[id] = Jitters[id] /\ F[id] \in Nat
    <3>1. \A id : Off(id) = OffSteps(Period(id), heard[id])
      BY DEF OffSteps, OffStep
    <3> HIDE DEF Off
    <3>2. \A id \in Speakers : F[id] = Cardinality(OffSteps(Period(id), heard[id]))
      BY <3>1
    <3>3. \A id \in CameraId : Jitters[id] = Cardinality(OffSteps(Period(id), heard[id]))
      BY DEF Jitters
    <3>4. \A id \in CameraId : Jitters[id] \in Nat
      BY <1>1, JittersType DEF TableInv
    <3> HIDE DEF F
    <3> QED BY <2>3, <3>2, <3>3, <3>4
  <2>5. \A id \in CameraId \ Speakers : Jitters[id] = 0
    BY SilentJitters DEF Jitters, Speakers
  <2> HIDE DEF F
  <2>6. \E g : Sums(g)
    BY <2>2, <2>3, <2>4, SumExists
  <2>7. Sums(g0)
    BY <2>6
  <2>8. SumsUp(g0, Speakers, F)
    BY <2>2, <2>7
  <2> HIDE DEF g0
  <2>9. g0[Speakers] = Cardinality(Pile(Speakers, F))
    BY <2>3, <2>4, <2>8, SumIsPile
  <2>10. Pile(Speakers, F) = Pile(CameraId, Jitters)
    <3>1. Pile(Speakers, F) \subseteq Pile(CameraId, Jitters)
      BY <2>3, <2>4 DEF Pile
    <3>2. Pile(CameraId, Jitters) \subseteq Pile(Speakers, F)
      BY <2>3, <2>4, <2>5 DEF Pile
    <3> QED BY <3>1, <3>2
  <2>11. stats.jitter = MapThenSumSet(Count, Speakers)
    BY <1>1, <2>1, <2>9, <2>10 DEF JitterCounted
  <2> QED BY <2>11 DEF JitterIsExact
<1>2. Inv => JitterIsExact
  BY <1>1 DEF JitterIsExact
<1>3. SinkInit => Inv
  BY TableInvInit, RegisteredInit, JitterInit
<1>4. Inv /\ [SinkNext]_sinkVars => Inv'
  BY TableInvNext, RegisteredNext, JitterNext
<1> HIDE DEF Inv
<1> QED BY <1>2, <1>3, <1>4, PTL DEF SinkSpec

=============================================================================
