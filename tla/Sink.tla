-------------------------------- MODULE Sink --------------------------------
(***************************************************************************)
(* The fan-in consumer of src/c/sink.c.  One thread owns a sink: it        *)
(* registers the table of expected cameras (sink_expect), then handles one *)
(* message per call of sink_recv: decode it into the one reused frame,     *)
(* grow that frame if the message is wider, check the frame against the    *)
(* last one of the same camera, and count what is wrong.  sink_report      *)
(* turns the counters into the verdict the process exits with.             *)
(*                                                                         *)
(* Stamps are integers of any unit and tol is a percentage.  The printed   *)
(* delta statistics (dt_min_ms, dt_max_ms, dt_sum_ms, dt_n) decide nothing *)
(* and are left out.  heard and refused are history variables: no code     *)
(* reads them, the properties compare the counters with them.              *)
(***************************************************************************)
EXTENDS Wire, FiniteSetsExt

CONSTANTS
  CameraId,         \* the camera ids a message may carry, uint32_t in the code
  MaxCameras,       \* SINK_MAX_CAMERAS
  DefaultSites,     \* check.max_sites: the fallback bound, 0 for none
  DefaultPeriod,    \* check.expect_period_ms: the fallback cadence, 0 for none
  TolPercent,       \* check.tol in percent; 0 asks for the default
  DefaultCapacity,  \* the decode capacity used without a site bound, 4096
  ReserveFailures,  \* how frame_reserve may fail: "unchanged", "dangling"
  SpecTables,       \* the tables sink_expect may be called with
  ExpectAnytime,    \* may sink_expect be called again after a message?
  Arrivals,         \* the messages that may arrive
  MaxReceived       \* bound of the model on the messages handled

CamSpec == [camera_id : CameraId, max_sites : Nat, expect_period : Nat]

ASSUME SinkAssumption ==
  /\ CameraId \subseteq Nat
  /\ MaxCameras \in Nat \ {0}
  /\ DefaultSites \in Nat /\ DefaultPeriod \in Nat
  /\ TolPercent \in Int
  /\ DefaultCapacity \in Nat \ {0}
  /\ ReserveFailures \subseteq {"unchanged", "dangling"}
  /\ SpecTables \subseteq Seq(CamSpec)
  /\ ExpectAnytime \in BOOLEAN
  /\ Arrivals \subseteq Message(CameraId)
  /\ MaxReceived \in Nat

VARIABLES
  cams,     \* the camera table, one record a slot
  specs,    \* the registered table, the n_specs first entries of specs
  stats,    \* sink_stats_t
  decoded,  \* the reused frame: its capacity, its count field, and the entries
            \* that both its arrays really have room for
  heard,    \* history: the well-formed frames of each camera, in arrival order
  refused   \* history: the status of each message that was not checked

sinkVars == <<cams, specs, stats, decoded, heard, refused>>

Slot == 1 .. MaxCameras

CamState ==
  [seen : BOOLEAN, spec_known : BOOLEAN, camera_id : Nat, max_sites : Nat,
   expect_period : Nat, frames : Nat, last_t_ns : Int, last_seq : Nat]

NoCam ==
  [seen |-> FALSE, spec_known |-> FALSE, camera_id |-> 0, max_sites |-> 0,
   expect_period |-> 0, frames |-> 0, last_t_ns |-> 0, last_seq |-> 0]

Stats ==
  [received : Nat, bad_parse : Nat, backwards : Nat, jitter : Nat,
   seq_gaps : Nat, seq_lost : Nat, bad_index : Nat, bad_value : Nat,
   cameras_seen : Nat, unexpected_cams : Nat]

\* sink_new replaces a tolerance that is not positive by one half.
Tol == IF TolPercent <= 0 THEN 50 ELSE TolPercent

FirstCapacity == IF DefaultSites # 0 THEN DefaultSites ELSE DefaultCapacity

-----------------------------------------------------------------------------
\* The decode frame is a frame of frame.h: its operations are FrameContract's.
Frames == INSTANCE FrameContract WITH
            frame <- decoded, Capacity <- Nat, Entries <- Nat

\* The first entry registered for id wins.
SpecsOf(table, id) == {j \in DOMAIN table : table[j].camera_id = id}

SeenSlots(table, id) == {i \in Slot : table[i].seen /\ table[i].camera_id = id}
FreeSlots(table)     == {i \in Slot : ~table[i].seen}

\* The state cam_find gives a camera it meets for the first time: its bounds
\* are copied from the specs, or from the fallbacks, once and for all.
FirstSight(id) ==
  LET known == SpecsOf(specs, id) # {}
      spec  == specs[Min(SpecsOf(specs, id))]
  IN  [seen          |-> TRUE,
       spec_known    |-> known,
       camera_id     |-> id,
       max_sites     |-> IF known THEN spec.max_sites ELSE DefaultSites,
       expect_period |-> IF known THEN spec.expect_period ELSE DefaultPeriod,
       frames        |-> 0, last_t_ns |-> 0, last_seq |-> 0]

\* Mutant of CamFind: with the table full, the last slot is taken over.
CamFindTakesOver(id) ==
  IF SeenSlots(cams, id) # {} THEN {Min(SeenSlots(cams, id))}
  ELSE IF FreeSlots(cams) # {} THEN {Min(FreeSlots(cams))}
  ELSE {MaxCameras}

\* cam_find: the slots it may return for id, none when the table is full.
CamFind(id) ==
  IF SeenSlots(cams, id) # {} THEN {Min(SeenSlots(cams, id))}
  ELSE IF FreeSlots(cams) # {} THEN {Min(FreeSlots(cams))}
  ELSE {}

\* The checks of sink_validate between a frame and its predecessor.
StampBack(cam, f)   == cam.frames > 0 /\ f.t_ns <= cam.last_t_ns

\* Mutant of OffCadence: a stamp that did not advance counts as jitter too.
OffCadenceBackwards(cam, f) ==
  /\ cam.frames > 0
  /\ cam.expect_period > 0
  /\ \/ 100 * (f.t_ns - cam.last_t_ns) < cam.expect_period * (100 - Tol)
     \/ 100 * (f.t_ns - cam.last_t_ns) > cam.expect_period * (100 + Tol)

OffCadence(cam, f) ==
  /\ cam.frames > 0
  /\ f.t_ns > cam.last_t_ns
  /\ cam.expect_period > 0
  /\ \/ 100 * (f.t_ns - cam.last_t_ns) < cam.expect_period * (100 - Tol)
     \/ 100 * (f.t_ns - cam.last_t_ns) > cam.expect_period * (100 + Tol)

\* Mutants of SequenceGap: only a jump forward is a gap; a camera's first frame
\* is compared as well.
SequenceGapForward(cam, f) == cam.frames > 0 /\ f.sequence > cam.last_seq + 1
SequenceGapFromZero(cam, f) == f.sequence # cam.last_seq + 1

SequenceGap(cam, f) == cam.frames > 0 /\ f.sequence # cam.last_seq + 1

\* Mutants of Lost: a step back is subtracted too; the frame that arrived is
\* counted as lost.
LostBackwards(cam, f) ==
  IF SequenceGap(cam, f) THEN f.sequence - cam.last_seq - 1 ELSE 0
LostOneMore(cam, f) ==
  IF SequenceGap(cam, f) /\ f.sequence > cam.last_seq
  THEN f.sequence - cam.last_seq ELSE 0

Lost(cam, f) ==
  IF SequenceGap(cam, f) /\ f.sequence > cam.last_seq
  THEN f.sequence - cam.last_seq - 1 ELSE 0

\* The checks of sink_validate on the content of one frame.  Mutant of IndexBad:
\* the site just past the last one is let through.
IndexBadPastEnd(cam, f) ==
  cam.max_sites # 0 /\ \E i \in 1 .. f.count : f.support[i] > cam.max_sites
IndexBad(cam, f) ==
  cam.max_sites # 0 /\ \E i \in 1 .. f.count : f.support[i] >= cam.max_sites
ValueBad(f) == \E i \in 1 .. f.count : f.signal[i] \notin 0 .. 255

One(test) == IF test THEN 1 ELSE 0

\* The counters after a message that was not decoded.  Mutant: it does not count
\* as received.
BadParseOnly == [stats EXCEPT !.bad_parse = @ + 1]
BadParse == [stats EXCEPT !.received = @ + 1, !.bad_parse = @ + 1]

\* The counters after frame f of a camera in state cam, new if it had no slot.
Checked(cam, f, new) ==
  [received     |-> stats.received + 1,
   bad_parse    |-> stats.bad_parse,
   backwards    |-> stats.backwards + One(StampBack(cam, f)),
   jitter       |-> stats.jitter + One(OffCadence(cam, f)),
   seq_gaps     |-> stats.seq_gaps + One(SequenceGap(cam, f)),
   seq_lost     |-> stats.seq_lost + Lost(cam, f),
   bad_index    |-> stats.bad_index + One(IndexBad(cam, f)),
   bad_value    |-> stats.bad_value + One(ValueBad(f)),
   cameras_seen |-> stats.cameras_seen + One(new),
   unexpected_cams |->
     stats.unexpected_cams + One(new /\ specs # <<>> /\ ~cam.spec_known)]

\* The slot of a camera after frame f.
Remember(cam, f) ==
  [cam EXCEPT !.frames = @ + 1, !.last_t_ns = f.t_ns, !.last_seq = f.sequence]

(***************************************************************************)
(* sink_validate on a decoded frame f, cam_find included.  With the table  *)
(* full the frame is neither checked nor counted.  The sequence is kept as *)
(* a natural number: a camera sends fewer than 2^64 frames.                *)
(***************************************************************************)
Validate(f) ==
  \/ /\ CamFind(f.camera_id) = {}
     /\ UNCHANGED cams
     /\ stats' = [stats EXCEPT !.received = @ + 1]
  \/ \E i \in CamFind(f.camera_id) :
       LET cam == IF cams[i].seen THEN cams[i] ELSE FirstSight(f.camera_id)
       IN  /\ cams'  = [cams EXCEPT ![i] = Remember(cam, f)]
           /\ stats' = Checked(cam, f, ~cams[i].seen)

-----------------------------------------------------------------------------
\* sink_new after its socket is bound: calloc zeroes the table and counters.
SinkInit ==
  /\ cams    = [i \in Slot |-> NoCam]
  /\ specs   = <<>>
  /\ stats   = [received |-> 0, bad_parse |-> 0, backwards |-> 0, jitter |-> 0,
                seq_gaps |-> 0, seq_lost |-> 0, bad_index |-> 0,
                bad_value |-> 0, cameras_seen |-> 0, unexpected_cams |-> 0]
  /\ decoded = Frames!NewFrame(FirstCapacity)
  /\ heard   = [id \in CameraId |-> <<>>]
  /\ refused = <<>>

\* largest, the maximum of the table's bounds and 0.
Largest(table) ==
  {w \in {0} \cup {table[j].max_sites : j \in DOMAIN table} :
     \A j \in DOMAIN table : table[j].max_sites <= w}

(***************************************************************************)
(* sink_expect.  A table longer than SINK_MAX_CAMERAS is rejected before   *)
(* anything is stored; a decode frame that cannot grow is reported after   *)
(* the table is in force.                                                  *)
(***************************************************************************)
SinkExpect(table) ==
  /\ Len(table) <= MaxCameras
  /\ specs' = table
  /\ \E largest \in Largest(table) :
       \E r \in Frames!Reserve(decoded, largest) : decoded' = r.frame
  /\ UNCHANGED <<cams, stats, heard, refused>>

\* Mutant of Decodings: the message is not decoded again after the growth.
DecodingsOnce(m) ==
  LET first == UnpackStatus(m, decoded.capacity)
      told  == [decoded EXCEPT
                  !.count = IF first \in {"ok", "capacity"} THEN m.count ELSE @]
  IN  IF first # "capacity" THEN {[frame |-> told, status |-> first]}
      ELSE {[frame |-> r.frame, status |-> first] : r \in Frames!Reserve(told, told.count)}

\* The decode frames and statuses that frame_wire_unpack, the growth it may ask
\* for and the second attempt leave behind.  A message that is too wide leaves
\* its count in the frame, and that count is what the growth is asked for.
Decodings(m) ==
  LET first == UnpackStatus(m, decoded.capacity)
      told  == [decoded EXCEPT
                  !.count = IF first \in {"ok", "capacity"} THEN m.count ELSE @]
      Again(r) == IF r.ok THEN UnpackStatus(m, r.frame.capacity) ELSE first
  IN  IF first # "capacity" THEN {[frame |-> told, status |-> first]}
      ELSE {[frame |-> r.frame, status |-> Again(r)] :
              r \in Frames!Reserve(told, told.count)}

(***************************************************************************)
(* sink_recv once a message is there: decode, grow and retry, count,       *)
(* check.                                                                  *)
(***************************************************************************)
RecvMessage(m) ==
  \E d \in Decodings(m) :
    /\ decoded' = d.frame
    /\ IF d.status = "ok"
       THEN /\ Validate(Unpacked(m))
            /\ heard' = [heard EXCEPT ![m.camera_id] = Append(@, Unpacked(m))]
            /\ UNCHANGED refused
       ELSE /\ stats' = BadParse
            /\ refused' = Append(refused, d.status)
            /\ UNCHANGED <<cams, heard>>
    /\ UNCHANGED specs

\* A growth that failed half-way left the decode frame with a freed array.  Every
\* further use is undefined, and as in Frame no step is modelled from there.
Usable == decoded.room # 0

Register == \E table \in SpecTables :
              /\ Usable
              /\ ExpectAnytime \/ stats.received = 0
              /\ SinkExpect(table)

Receive == \E m \in Arrivals :
             /\ Usable
             /\ stats.received < MaxReceived
             /\ RecvMessage(m)

SinkNext == Register \/ Receive

SinkSpec == SinkInit /\ [][SinkNext]_sinkVars

\* The test of sink_report; its result is the exit status of the program.
Failed ==
  \/ stats.received = 0
  \/ stats.bad_parse > 0
  \/ stats.backwards > 0
  \/ stats.seq_gaps > 0
  \/ stats.bad_index > 0
  \/ stats.bad_value > 0
  \/ stats.unexpected_cams > 0

-----------------------------------------------------------------------------
\* The statuses of a message that is not checked.
Refusal == {"short", "format", "version", "length", "capacity"}

\* Types of the state.
SinkTypeOK ==
  /\ cams \in [Slot -> CamState]
  /\ specs \in SpecTables \cup {<<>>}
  /\ stats \in Stats
  /\ decoded \in [capacity : Nat, count : Nat, room : Nat]
  /\ heard \in [CameraId -> Seq(Frame(CameraId))]
  /\ refused \in Seq(Refusal)

Configured(id) == SpecsOf(specs, id) # {}

Bound(id) ==
  IF Configured(id) THEN specs[Min(SpecsOf(specs, id))].max_sites ELSE DefaultSites

Period(id) ==
  IF Configured(id) THEN specs[Min(SpecsOf(specs, id))].expect_period
                    ELSE DefaultPeriod

\* The cams that have sent a frame, and whether the table has a slot for each.
Speakers  == {id \in CameraId : heard[id] # <<>>}
AllSeated == \A id \in Speakers : SeenSlots(cams, id) # {}

(***************************************************************************)
(* The table is a faithful summary of the streams: a camera has at most    *)
(* one slot, a slot describes the last frame of its camera and how many    *)
(* there were, and while a slot is free every camera that spoke has one.   *)
(* cam_find, the end of sink_validate.                                     *)
(***************************************************************************)
TableTracksStreams ==
  /\ \A i, j \in Slot : cams[i].seen /\ cams[j].seen /\ i # j
                          => cams[i].camera_id # cams[j].camera_id
  /\ \A i \in Slot : cams[i].seen =>
       LET stream == heard[cams[i].camera_id]
       IN  /\ cams[i].camera_id \in Speakers
           /\ cams[i].frames    = Len(stream)
           /\ cams[i].last_seq  = stream[Len(stream)].sequence
           /\ cams[i].last_t_ns = stream[Len(stream)].t_ns
  /\ FreeSlots(cams) # {} => \A id \in Speakers : SeenSlots(cams, id) # {}

\* What the checks of sink_validate mean for a whole stream.
Contiguous(s) == \A k \in DOMAIN s : s[k].sequence = s[1].sequence + k - 1
Ascending(s)  == \A k, l \in DOMAIN s : k < l => s[k].t_ns < s[l].t_ns
SitesBelow(s, bound) ==
  bound # 0 => \A k \in DOMAIN s : \A e \in 1 .. s[k].count : s[k].support[e] < bound
ValuesInRange(s) ==
  \A k \in DOMAIN s : \A e \in 1 .. s[k].count : s[k].signal[e] \in 0 .. 255

(***************************************************************************)
(* A counter that is still zero vouches for every stream of a camera with  *)
(* a slot: no gap counted means that its numbers are contiguous from the   *)
(* first frame to the last, and so on for stamps, sites and values, though *)
(* sink_validate only ever compares a frame with the one before it.        *)
(***************************************************************************)
CountersTellTruth ==
  /\ stats.bad_parse = 0 => refused = <<>>
  /\ \A i \in Slot : cams[i].seen =>
       LET stream == heard[cams[i].camera_id]
       IN  /\ stats.seq_gaps  = 0 => Contiguous(stream)
           /\ stats.backwards = 0 => Ascending(stream)
           /\ stats.bad_index = 0 => SitesBelow(stream, cams[i].max_sites)
           /\ stats.bad_value = 0 => ValuesInRange(stream)

(***************************************************************************)
(* The verdict PASS can be trusted, for any number of cameras and whenever *)
(* the table is registered: everything received has parsed, and every      *)
(* camera that has a slot sent, from its first frame to its last, each     *)
(* number once, stamps that ascend between any two frames, sites within    *)
(* the bound it was given when it was first seen and values within [0, 1]. *)
(***************************************************************************)
PassIsSound ==
  ~Failed =>
    /\ refused = <<>>
    /\ \A i \in Slot : cams[i].seen =>
         LET stream == heard[cams[i].camera_id]
         IN  /\ Contiguous(stream)
             /\ Ascending(stream)
             /\ SitesBelow(stream, cams[i].max_sites)
             /\ ValuesInRange(stream)

(***************************************************************************)
(* The verdict is exact: PASS if and only if something arrived, all of it  *)
(* parsed, all of it came from configured cameras and every stream is      *)
(* whole and within the bounds of the table.  So no clean run fails and,   *)
(* beyond PassIsSound, no camera escapes the checks.  It is claimed while  *)
(* every camera that spoke found a slot, and for a table registered before *)
(* the first message, as main does.                                        *)
(***************************************************************************)
VerdictMatchesStreams ==
  AllSeated =>
    ((~Failed) <=>
       /\ refused = <<>>
       /\ Speakers # {}
       /\ \A id \in Speakers : /\ Contiguous(heard[id]) /\ Ascending(heard[id])
                               /\ SitesBelow(heard[id], Bound(id))
                               /\ ValuesInRange(heard[id])
       /\ specs # <<>> => \A id \in Speakers : Configured(id))

(***************************************************************************)
(* Where every stream ascends, seq_lost is what is missing between the     *)
(* first and the last frame of each camera: the losses of single gaps add  *)
(* up to the exact number, with nothing lost or counted twice between      *)
(* cameras whose frames interleave, as long as each has found a slot.      *)
(* sink_validate.                                                          *)
(***************************************************************************)
LossIsExact ==
  LET Missing(id) == LET s == heard[id]
                     IN  s[Len(s)].sequence - s[1].sequence + 1 - Len(s)
      Forward(s) == \A i \in 1 .. Len(s) - 1 : s[i].sequence < s[i + 1].sequence
  IN  AllSeated /\ (\A id \in Speakers : Forward(heard[id]))
      => stats.seq_lost = MapThenSumSet(Missing, Speakers)

(***************************************************************************)
(* jitter counts the steps forward in time, over all cameras, that leave   *)
(* the tolerance around the period of their own camera; a camera without a *)
(* period counts none, as long as every camera has found a slot.           *)
(* sink_validate and the bounds of cam_find.                               *)
(***************************************************************************)
JitterIsExact ==
  LET Off(id) == LET s == heard[id] IN
        {i \in 1 .. Len(s) - 1 :
           LET dt == s[i + 1].t_ns - s[i].t_ns
           IN  /\ Period(id) > 0 /\ dt > 0
               /\ 100 * dt \notin Period(id) * (100 - Tol) .. Period(id) * (100 + Tol)}
      Count(id) == Cardinality(Off(id))
  IN  AllSeated => stats.jitter = MapThenSumSet(Count, Speakers)

(***************************************************************************)
(* The sums of the report agree: every message handled counts once, as a   *)
(* bad parse or as a frame of the camera that sent it, and every camera    *)
(* that spoke counts once, up to the size of the table.  sink_recv through *)
(* the growth and the second attempt, cam_find.                            *)
(***************************************************************************)
CountsAddUp ==
  LET FramesOf(id) == Len(heard[id])
  IN  /\ stats.bad_parse = Len(refused)
      /\ stats.received = stats.bad_parse + MapThenSumSet(FramesOf, CameraId)
      /\ stats.cameras_seen = Min({Cardinality(Speakers), MaxCameras})

(***************************************************************************)
(* A well-formed message is refused for its width only when memory ran     *)
(* out: whatever the messages, tables and failures before left in the      *)
(* decode frame, it gets through if the growth it needs is granted, and a  *)
(* refusal means that it was wider than the frame, which did not grow.     *)
(* sink_recv with both its attempts, sink_expect.                          *)
(***************************************************************************)
WidthRefusedOnlyWithoutMemory ==
  \A m \in Arrivals : Peek(m) = "ok" =>
    /\ \E d \in Decodings(m) : d.status = "ok"
    /\ \A d \in Decodings(m) :
         d.status # "ok" => /\ d.frame.capacity = decoded.capacity
                            /\ decoded.capacity < m.count

(***************************************************************************)
(* A frame handed to the checks has room in both arrays of the decode      *)
(* frame for all the entries that frame_wire_unpack writes, and the        *)
(* message whose growth leaves the frame with a freed array is not handed  *)
(* over but fails the run.  Nothing is said of what the sink does after    *)
(* that growth: it decodes into the freed array, for which frame_reserve   *)
(* is to blame (FrameLeftUsable).                                          *)
(***************************************************************************)
FrameFits ==
  [][/\ heard' # heard => decoded'.count <= decoded'.room
     /\ stats'.received > stats.received /\ decoded'.room = 0 => Failed']_sinkVars

(***************************************************************************)
(* smoke.c:11 and README.md:85 say that a run fails if any check failed,   *)
(* and sink.h lists the cadence among the invariants checked.              *)
(***************************************************************************)
CadenceFails == stats.jitter > 0 => Failed

(***************************************************************************)
(* sink.h:58 describes unexpected_cams as the ids that sent frames but     *)
(* were never configured.                                                  *)
(***************************************************************************)
UnconfiguredCounted ==
  specs # <<>> =>
    stats.unexpected_cams = Cardinality({id \in Speakers : ~Configured(id)})

=============================================================================
