----------------------------- MODULE WireProofs -----------------------------
(***************************************************************************)
(* What is proved of the message format, for frames of every size: a       *)
(* message is read inside its bounds, and what one side packs is what the  *)
(* other side unpacks.                                                     *)
(***************************************************************************)
EXTENDS Wire, SequenceTheorems, TLAPS

\* The live entries of a frame are there, and are what the wire can carry.
Whole(f) == \A e \in 1 .. f.count : f.support[e] \in Int /\ f.signal[e] \in Int

\* What follows the header of a message that frame_wire_peek accepts is one word
\* for each support entry and one for each signal entry.
LEMMA AcceptedWords ==
  ASSUME NEW C, NEW m \in Message(C), Peek(m) = "ok"
  PROVE  /\ m.words \in Seq(Int) /\ m.count \in Nat
         /\ Len(m.words) = 2 * m.count
         /\ \A k \in 1 .. 2 * m.count : m.words[k] \in Int
<1>1. m.words \in Seq(Int) /\ m.count \in Nat /\ m.len \in Nat
  BY DEF Message
<1>2. m.len >= HeaderBytes /\ m.len = FrameWireSize(m.count)
  BY DEF Peek, Message, HeaderBytes, FrameWireSize, WordBytes
<1>3. m.len = HeaderBytes + WordBytes * Len(m.words)
  BY <1>2 DEF Message
<1>4. Len(m.words) \in Nat
  BY <1>1, LenProperties
<1>5. \A n, l \in Nat : HeaderBytes + WordBytes * l = FrameWireSize(n) => l = 2 * n
  BY DEF FrameWireSize, HeaderBytes, WordBytes
<1>6. Len(m.words) = 2 * m.count
  BY <1>1, <1>2, <1>3, <1>4, <1>5
<1>7. QED BY <1>1, <1>6, ElementOfSeq

\* frame_wire_unpack reads inside the message: a message that peek accepts gives
\* a frame whose count entries are all there.
LEMMA UnpackedType ==
  ASSUME NEW C, NEW m \in Message(C), Peek(m) = "ok"
  PROVE  /\ Unpacked(m) \in Frame(C)
         /\ Whole(Unpacked(m))
         /\ Len(Unpacked(m).support) = m.count
         /\ Len(Unpacked(m).signal) = m.count
<1>1. /\ m.words \in Seq(Int) /\ m.count \in Nat
      /\ \A k \in 1 .. 2 * m.count : m.words[k] \in Int
  BY AcceptedWords
<1>2. /\ SubSeq(m.words, 1, m.count) \in Seq(Int)
      /\ Len(SubSeq(m.words, 1, m.count)) = m.count
      /\ SubSeq(m.words, m.count + 1, 2 * m.count) \in Seq(Int)
      /\ Len(SubSeq(m.words, m.count + 1, 2 * m.count)) = m.count
  <2>1. /\ SubSeq(m.words, 1, m.count) \in Seq(Int)
        /\ Len(SubSeq(m.words, 1, m.count)) =
             IF 1 <= m.count THEN m.count - 1 + 1 ELSE 0
    BY <1>1, SubSeqProperties
  <2>2. /\ SubSeq(m.words, m.count + 1, 2 * m.count) \in Seq(Int)
        /\ Len(SubSeq(m.words, m.count + 1, 2 * m.count)) =
             IF m.count + 1 <= 2 * m.count THEN 2 * m.count - (m.count + 1) + 1 ELSE 0
    BY <1>1, SubSeqProperties
  <2> QED BY <1>1, <2>1, <2>2
<1>3. /\ \A e \in 1 .. m.count : SubSeq(m.words, 1, m.count)[e] \in Int
      /\ \A e \in 1 .. m.count : SubSeq(m.words, m.count + 1, 2 * m.count)[e] \in Int
  BY <1>2, ElementOfSeq
<1>4. QED BY <1>2, <1>3 DEF Unpacked, Frame, Message, Whole

-----------------------------------------------------------------------------
\* Two blocks of n words, one after the other, are found again.
LEMMA HalvesOfConcat ==
  ASSUME NEW n \in Nat, NEW a \in Seq(Int), NEW b \in Seq(Int), Len(a) = n, Len(b) = n
  PROVE  /\ SubSeq(a \o b, 1, n) = a
         /\ SubSeq(a \o b, n + 1, 2 * n) = b
<1> DEFINE w == a \o b
           p == SubSeq(w, 1, n)
           q == SubSeq(w, n + 1, 2 * n)
<1>1. /\ \A i \in 1 .. n : w[i] = a[i]
      /\ \A i \in 1 .. n : w[n + i] = b[i]
  <2>1. \A i \in 1 .. n + n : w[i] = IF i <= n THEN a[i] ELSE b[i - n]
    BY ConcatProperties
  <2>2. \A i \in 1 .. n : i \in 1 .. n + n /\ i <= n
    OBVIOUS
  <2>3. \A i \in 1 .. n : n + i \in 1 .. n + n /\ ~(n + i <= n) /\ (n + i) - n = i
    OBVIOUS
  <2> HIDE DEF w
  <2>4. ASSUME NEW i \in 1 .. n PROVE w[i] = a[i]
    BY <2>1, <2>2
  <2>5. ASSUME NEW i \in 1 .. n PROVE w[n + i] = b[i]
    BY <2>1, <2>3
  <2> QED BY <2>4, <2>5
<1>2. /\ \A i \in 1 .. n : w[i] \in Int
      /\ \A i \in n + 1 .. 2 * n : w[i] \in Int
  <2>1. w \in Seq(Int) /\ Len(w) = n + n
    BY ConcatProperties
  <2> HIDE DEF w
  <2> QED BY <2>1, ElementOfSeq
<1> HIDE DEF w
<1>3. /\ p \in Seq(Int) /\ Len(p) = n /\ \A i \in 1 .. n : p[i] = w[i]
  <2>1. p \in Seq(Int) /\ Len(p) = n /\ \A i \in 1 .. n - 1 + 1 : p[i] = w[1 + i - 1]
    BY <1>2, SubSeqProperties
  <2> HIDE DEF p
  <2> QED BY <2>1
<1>4. /\ q \in Seq(Int) /\ Len(q) = n /\ \A i \in 1 .. n : q[i] = w[n + i]
  <2>1. /\ q \in Seq(Int) /\ Len(q) = n
        /\ \A i \in 1 .. 2 * n - (n + 1) + 1 : q[i] = w[n + 1 + i - 1]
    BY <1>2, SubSeqProperties
  <2>2. \A i \in 1 .. n : i \in 1 .. 2 * n - (n + 1) + 1 /\ n + 1 + i - 1 = n + i
    OBVIOUS
  <2> HIDE DEF q
  <2>3. ASSUME NEW i \in 1 .. n PROVE q[i] = w[n + i]
    BY <2>1, <2>2
  <2> QED BY <2>1, <2>3
<1>5. p = a
  <2> HIDE DEF p
  <2> QED BY <1>1, <1>3, SeqEqual
<1>6. q = b
  <2> HIDE DEF q
  <2> QED BY <1>1, <1>4, SeqEqual
<1>7. QED BY <1>5, <1>6 DEF w

(***************************************************************************)
(* Every frame whose live entries are there packs into a message that the  *)
(* sink accepts, given the room, and unpacks into the same frame: its      *)
(* camera, number, stamp and live entries in their order.                  *)
(* frame_wire_pack, frame_wire_unpack.                                     *)
(***************************************************************************)
THEOREM PackRoundTrip ==
  ASSUME NEW C, NEW f \in Frame(C), Whole(f), NEW capacity \in Nat, f.count <= capacity
  PROVE  /\ Pack(f) \in Message(C)
         /\ UnpackStatus(Pack(f), capacity) = "ok"
         /\ Unpacked(Pack(f)) =
              [camera_id |-> f.camera_id, sequence |-> f.sequence,
               t_ns |-> f.t_ns, count |-> f.count,
               support |-> SubSeq(f.support, 1, f.count),
               signal  |-> SubSeq(f.signal, 1, f.count)]
<1> DEFINE a == SubSeq(f.support, 1, f.count)
           b == SubSeq(f.signal, 1, f.count)
           m == Pack(f)
<1>1. /\ f.camera_id \in C /\ f.sequence \in Nat /\ f.t_ns \in Int /\ f.count \in Nat
      /\ f.support \in Seq(Int) /\ f.signal \in Seq(Int)
  BY DEF Frame
<1>2. a \in Seq(Int) /\ Len(a) = f.count /\ b \in Seq(Int) /\ Len(b) = f.count
  <2>1. /\ \A e \in 1 .. f.count : f.support[e] \in Int
        /\ \A e \in 1 .. f.count : f.signal[e] \in Int
    BY DEF Whole
  <2>2. a \in Seq(Int) /\ Len(a) = IF 1 <= f.count THEN f.count - 1 + 1 ELSE 0
    BY <1>1, <2>1, SubSeqProperties
  <2>3. b \in Seq(Int) /\ Len(b) = IF 1 <= f.count THEN f.count - 1 + 1 ELSE 0
    BY <1>1, <2>1, SubSeqProperties
  <2> QED BY <1>1, <2>2, <2>3
<1>3. /\ m.len = FrameWireSize(f.count) /\ m.format = FormatTag /\ m.version = WireVersion
      /\ m.camera_id = f.camera_id /\ m.count = f.count /\ m.t_ns = f.t_ns
      /\ m.sequence = f.sequence /\ m.words = a \o b
  BY DEF Pack
<1>4. a \o b \in Seq(Int) /\ Len(a \o b) = f.count + f.count
  BY <1>2, ConcatProperties
<1>5. m \in Message(C)
  <2>1. FrameWireSize(f.count) = HeaderBytes + WordBytes * Len(a \o b)
    BY <1>1, <1>4 DEF FrameWireSize, HeaderBytes, WordBytes
  <2>2. FrameWireSize(f.count) \in Nat /\ WireVersion \in Nat
    BY <1>1 DEF FrameWireSize, HeaderBytes, WordBytes, WireVersion
  <2> HIDE DEF a, b
  <2>3. m \in [len : Nat, format : {FormatTag, "other"}, version : Nat, camera_id : C,
               count : Nat, t_ns : Int, sequence : Nat, words : Seq(Int)]
    BY <1>1, <1>4, <2>2 DEF Pack, a, b
  <2> QED BY <1>3, <2>1, <2>3 DEF Message
<1>6. UnpackStatus(m, capacity) = "ok"
  <2>1. FrameWireSize(f.count) >= HeaderBytes /\ ~(WireVersion > WireVersion)
    BY <1>1 DEF FrameWireSize, HeaderBytes, WordBytes, WireVersion
  <2>2. Peek(m) = "ok"
    <3>1. ~(m.len < HeaderBytes)
      BY <1>1, <1>3 DEF FrameWireSize, HeaderBytes, WordBytes
    <3> QED BY <1>3, <2>1, <3>1 DEF Peek
  <2> QED BY <1>1, <1>3, <2>2 DEF UnpackStatus
<1>7. /\ SubSeq(m.words, 1, m.count) = a
      /\ SubSeq(m.words, m.count + 1, 2 * m.count) = b
  <2>1. SubSeq(a \o b, 1, f.count) = a /\ SubSeq(a \o b, f.count + 1, 2 * f.count) = b
    <3> HIDE DEF a, b
    <3> QED BY <1>1, <1>2, HalvesOfConcat
  <2> QED BY <1>3, <2>1
<1>8. Unpacked(m) = [camera_id |-> f.camera_id, sequence |-> f.sequence,
                     t_ns |-> f.t_ns, count |-> f.count, support |-> a, signal |-> b]
  BY <1>3, <1>7 DEF Unpacked
<1>9. QED BY <1>5, <1>6, <1>8

-----------------------------------------------------------------------------
(***************************************************************************)
(* frame_wire_unpack writes inside its destination and reads inside the    *)
(* message, whatever the message says of itself: one that is accepted has  *)
(* as many words as its count asks for, and no more sites than there is    *)
(* room.                                                                   *)
(***************************************************************************)
THEOREM AcceptedFits ==
  ASSUME NEW C, NEW m \in Message(C), NEW capacity \in Nat,
         UnpackStatus(m, capacity) = "ok"
  PROVE  /\ Unpacked(m) \in Frame(C)
         /\ Whole(Unpacked(m))
         /\ Len(Unpacked(m).support) = m.count
         /\ Len(Unpacked(m).signal) = m.count
         /\ Len(m.words) = 2 * m.count
         /\ m.count <= capacity
<1>1. Peek(m) = "ok" /\ ~(m.count > capacity)
  BY DEF UnpackStatus
<1>2. m.count \in Nat /\ Len(m.words) = 2 * m.count
  BY <1>1, AcceptedWords
<1>3. m.count <= capacity
  BY <1>1, <1>2
<1>4. QED BY <1>1, <1>2, <1>3, UnpackedType

\* The first Len(s) words of s are s.
LEMMA WholePrefix ==
  ASSUME NEW n \in Nat, NEW s \in Seq(Int), Len(s) = n
  PROVE  SubSeq(s, 1, n) = s
<1> DEFINE p == SubSeq(s, 1, n)
<1>1. \A i \in 1 .. n : s[i] \in Int
  BY ElementOfSeq
<1>2. /\ p \in Seq(Int)
      /\ Len(p) = IF 1 <= n THEN n - 1 + 1 ELSE 0
      /\ \A i \in 1 .. n - 1 + 1 : p[i] = s[1 + i - 1]
  BY <1>1, SubSeqProperties
<1> HIDE DEF p
<1>3. Len(p) = n /\ \A i \in 1 .. n : p[i] = s[i]
  BY <1>2
<1>4. p = s
  BY <1>2, <1>3, SeqEqual
<1> QED BY <1>4 DEF p

\* A sequence of 2 * n words is its first n followed by its last n.
LEMMA ConcatOfHalves ==
  ASSUME NEW n \in Nat, NEW w \in Seq(Int), Len(w) = 2 * n
  PROVE  SubSeq(w, 1, n) \o SubSeq(w, n + 1, 2 * n) = w
<1> DEFINE a == SubSeq(w, 1, n)
           b == SubSeq(w, n + 1, 2 * n)
           v == a \o b
<1>1. \A i \in 1 .. 2 * n : w[i] \in Int
  BY ElementOfSeq
<1>2. a \in Seq(Int) /\ Len(a) = n /\ \A i \in 1 .. n : a[i] = w[i]
  <2>1. a \in Seq(Int) /\ Len(a) = (IF 1 <= n THEN n - 1 + 1 ELSE 0)
        /\ \A i \in 1 .. n - 1 + 1 : a[i] = w[1 + i - 1]
    BY <1>1, SubSeqProperties
  <2> HIDE DEF a
  <2> QED BY <2>1
<1>3. b \in Seq(Int) /\ Len(b) = n /\ \A i \in 1 .. n : b[i] = w[n + i]
  <2>1. /\ b \in Seq(Int)
        /\ Len(b) = IF n + 1 <= 2 * n THEN 2 * n - (n + 1) + 1 ELSE 0
        /\ \A i \in 1 .. 2 * n - (n + 1) + 1 : b[i] = w[n + 1 + i - 1]
    BY <1>1, SubSeqProperties
  <2>2. \A i \in 1 .. n : i \in 1 .. 2 * n - (n + 1) + 1 /\ n + 1 + i - 1 = n + i
    OBVIOUS
  <2> HIDE DEF b
  <2>3. ASSUME NEW i \in 1 .. n PROVE b[i] = w[n + i]
    BY <2>1, <2>2
  <2> QED BY <2>1, <2>3
<1> HIDE DEF a, b
<1>4. /\ v \in Seq(Int) /\ Len(v) = 2 * n
      /\ \A i \in 1 .. 2 * n : v[i] = IF i <= n THEN a[i] ELSE b[i - n]
  <2>1. /\ v \in Seq(Int) /\ Len(v) = n + n
        /\ \A i \in 1 .. n + n : v[i] = IF i <= n THEN a[i] ELSE b[i - n]
    <3>1. a \in Seq(Int) /\ b \in Seq(Int) /\ Len(a) = n /\ Len(b) = n
      BY <1>2, <1>3
    <3> QED BY <3>1, ConcatProperties
  <2> HIDE DEF v
  <2>2. n + n = 2 * n
    OBVIOUS
  <2> QED BY <2>1, <2>2
<1>5. ASSUME NEW i \in 1 .. 2 * n PROVE v[i] = w[i]
  <2> HIDE DEF v
  <2>1. CASE i <= n
    <3>1. i \in 1 .. n
      BY <2>1
    <3> QED BY <2>1, <3>1, <1>2, <1>4
  <2>2. CASE ~(i <= n)
    <3>1. i - n \in 1 .. n /\ n + (i - n) = i
      BY <2>2
    <3> QED BY <2>2, <3>1, <1>3, <1>4
  <2> QED BY <2>1, <2>2
<1> HIDE DEF v
<1>6. v = w
  BY <1>4, <1>5, SeqEqual
<1> QED BY <1>6 DEF a, b, v

(***************************************************************************)
(* The other way round: the sink loses nothing of a message it accepts.    *)
(* Packing what was unpacked gives the message again, so two messages of   *)
(* the current version that differ are never read as the same frame.       *)
(* A message of an earlier version comes back as one of the current.       *)
(***************************************************************************)
THEOREM UnpackRoundTrip ==
  ASSUME NEW C, NEW m \in Message(C), NEW capacity \in Nat,
         UnpackStatus(m, capacity) = "ok"
  PROVE  Pack(Unpacked(m)) = [m EXCEPT !.version = WireVersion]
<1> DEFINE a == SubSeq(m.words, 1, m.count)
           b == SubSeq(m.words, m.count + 1, 2 * m.count)
<1>1. Peek(m) = "ok"
  BY DEF UnpackStatus
<1>2. /\ m.words \in Seq(Int) /\ m.count \in Nat /\ Len(m.words) = 2 * m.count
  BY <1>1, AcceptedWords
<1>3. a \o b = m.words
  BY <1>2, ConcatOfHalves
<1>4. m.len = FrameWireSize(m.count) /\ m.format = FormatTag
  BY <1>1 DEF Peek
<1>5. SubSeq(a, 1, m.count) = a /\ SubSeq(b, 1, m.count) = b
  <2>1. \A s \in Seq(Int) : Len(s) = m.count => SubSeq(s, 1, m.count) = s
    BY <1>2, WholePrefix
  <2>2. Unpacked(m).support \in Seq(Int) /\ Unpacked(m).signal \in Seq(Int)
    BY <1>1, UnpackedType DEF Frame
  <2>3. Unpacked(m).support = a /\ Unpacked(m).signal = b
    BY DEF Unpacked
  <2>4. Len(Unpacked(m).support) = m.count /\ Len(Unpacked(m).signal) = m.count
    BY <1>1, UnpackedType
  <2> HIDE DEF a, b
  <2> QED BY <2>1, <2>2, <2>3, <2>4
<1>6. Pack(Unpacked(m)) =
        [len |-> m.len, format |-> m.format, version |-> WireVersion,
         camera_id |-> m.camera_id, count |-> m.count, t_ns |-> m.t_ns,
         sequence |-> m.sequence, words |-> m.words]
  <2>1. /\ Unpacked(m).support = a /\ Unpacked(m).signal = b
        /\ Unpacked(m).count = m.count /\ Unpacked(m).camera_id = m.camera_id
        /\ Unpacked(m).t_ns = m.t_ns /\ Unpacked(m).sequence = m.sequence
    BY DEF Unpacked
  <2> HIDE DEF a, b
  <2> QED BY <1>3, <1>4, <1>5, <2>1 DEF Pack
<1>7. m \in [len : Nat, format : {FormatTag, "other"}, version : Nat,
             camera_id : C, count : Nat, t_ns : Int, sequence : Nat,
             words : Seq(Int)]
  BY DEF Message
<1>8. [m EXCEPT !.version = WireVersion] =
        [len |-> m.len, format |-> m.format, version |-> WireVersion,
         camera_id |-> m.camera_id, count |-> m.count, t_ns |-> m.t_ns,
         sequence |-> m.sequence, words |-> m.words]
  BY <1>7
<1>9. QED BY <1>6, <1>8

=============================================================================
