----------------------------- MODULE FrameProofs -----------------------------
(***************************************************************************)
(* What is proved of the frame container, for every heap and every set of  *)
(* capacities: the heap holds the two arrays of the frame and nothing      *)
(* else, and the arrays keep the promises of FrameContract, which the sink *)
(* is modelled on.                                                         *)
(*                                                                         *)
(* The inductive invariant says what a frame that is not dangling owns.    *)
(* The signal array grows last, so it always has exactly capacity entries; *)
(* the support array has more when only the second growth has failed.      *)
(***************************************************************************)
EXTENDS Frame, DataLemmas

Owned ==
  /\ support \in Block /\ signal \in Block /\ support # signal
  /\ Live(size) = {support, signal}
  /\ capacity \in Nat /\ capacity > 0
  /\ size[signal] = capacity /\ capacity <= size[support]

FrameInv ==
  /\ exists \in BOOLEAN
  /\ size \in [Block -> Nat]
  /\ count \in Nat
  /\ ~exists => Live(size) = {} /\ capacity = 0 /\ count = 0
  /\ exists /\ ~Dangling => Owned

\* Without a pointer that dangles a frame owns its arrays.
LEMMA OwnedHere ==
  ASSUME FrameInv, exists, ~Dangling
  PROVE  /\ Owned
         /\ size[support] \in Nat /\ size[signal] \in Nat
         /\ support \in Live(size) /\ signal \in Live(size)
BY DEF FrameInv, Owned

\* realloc leaves the array it was given in one block, and everything else alone.
LEMMA ReallocMoves ==
  ASSUME NEW heap \in [Block -> Nat], NEW b \in Live(heap), NEW n \in Nat, n > 0,
         NEW s \in Realloc(heap, b, n)
  PROVE  /\ s.heap \in [Block -> Nat]
         /\ s.block \in Block /\ s.heap[s.block] = n
         /\ s.block = b \/ s.block \notin Live(heap)
         /\ \A c \in Block : c # b /\ c # s.block => s.heap[c] = heap[c]
         /\ Live(s.heap) = (Live(heap) \ {b}) \cup {s.block}
<1>1. PICK t \in {b} \cup (Block \ Live(heap)) :
        s = [block |-> t, heap |-> [heap EXCEPT ![b] = 0, ![t] = n]]
  BY DEF Realloc
<1>2. t \in Block /\ b \in Block /\ (t = b \/ t \notin Live(heap))
  BY DEF Live
<1>3. s.block = t /\ s.heap = [heap EXCEPT ![b] = 0, ![t] = n]
  BY <1>1
<1>4. /\ s.heap \in [Block -> Nat] /\ s.heap[t] = n
      /\ t # b => s.heap[b] = 0
      /\ \A c \in Block : c # b /\ c # t => s.heap[c] = heap[c]
  BY <1>2, <1>3
<1>5. Live(s.heap) = (Live(heap) \ {b}) \cup {t}
  BY <1>2, <1>4 DEF Live
<1> QED BY <1>2, <1>3, <1>4, <1>5

LEMMA FrameInvInit == FrameInit => FrameInv
<1> SUFFICES ASSUME FrameInit PROVE FrameInv
  OBVIOUS
<1>1. exists = FALSE /\ capacity = 0 /\ count = 0 /\ size = [b \in Block |-> 0]
  BY DEF FrameInit
<1>2. Live(size) = {}
  BY <1>1 DEF Live
<1>3. exists \in BOOLEAN
  BY <1>1, Zenon
<1> QED BY <1>1, <1>2, <1>3 DEF FrameInv

\* malloc hands out nothing, or a block that was free.
LEMMA MallocTakes ==
  ASSUME NEW heap \in [Block -> Nat], NEW n \in Nat, n > 0, NEW s \in Malloc(heap, n)
  PROVE  /\ s.heap \in [Block -> Nat]
         /\ s.block = Nowhere \/ (s.block \in Block \ Live(heap) /\ s.heap[s.block] = n)
         /\ \A c \in Block : c # s.block => s.heap[c] = heap[c]
<1>1. CASE s = [block |-> Nowhere, heap |-> heap]
  BY <1>1
<1>2. CASE \E b \in Block \ Live(heap) :
             s = [block |-> b, heap |-> [heap EXCEPT ![b] = n]]
  <2>1. PICK b \in Block \ Live(heap) :
          s = [block |-> b, heap |-> [heap EXCEPT ![b] = n]]
    BY <1>2
  <2>2. s.block = b /\ s.heap = [heap EXCEPT ![b] = n]
    BY <2>1
  <2> QED BY <2>1, <2>2
<1> QED BY <1>1, <1>2 DEF Malloc

\* new_frames owns its two arrays, or leaves the heap as it found it.
LEMMA NewFramesInv ==
  ASSUME FrameInv, NEW n \in Capacity, NewFrames(n)
  PROVE  /\ FrameInv' /\ ~exists
         /\ \/ UNCHANGED frameVars
            \/ /\ exists' /\ Owned' /\ capacity' = n /\ count' = 0
<1>1. n \in Nat /\ n > 0 /\ ~exists
  BY FrameAssumption DEF NewFrames
<1>2. Live(size) = {} /\ size \in [Block -> Nat]
  BY <1>1 DEF FrameInv
<1>3. PICK s \in Malloc(size, n) : \E g \in Malloc(s.heap, n) :
        \/ /\ Nowhere \in {s.block, g.block}
           /\ size' = Freed(g.heap, s.block, g.block)
           /\ UNCHANGED <<exists, support, signal, capacity, count>>
        \/ /\ Nowhere \notin {s.block, g.block}
           /\ support' = s.block /\ signal' = g.block /\ size' = g.heap
           /\ exists' = TRUE /\ capacity' = n /\ count' = 0
  BY DEF NewFrames
<1>4. PICK g \in Malloc(s.heap, n) :
        \/ /\ Nowhere \in {s.block, g.block}
           /\ size' = Freed(g.heap, s.block, g.block)
           /\ UNCHANGED <<exists, support, signal, capacity, count>>
        \/ /\ Nowhere \notin {s.block, g.block}
           /\ support' = s.block /\ signal' = g.block /\ size' = g.heap
           /\ exists' = TRUE /\ capacity' = n /\ count' = 0
  BY <1>3
<1>5. /\ s.heap \in [Block -> Nat]
      /\ s.block = Nowhere \/ (s.block \in Block \ Live(size) /\ s.heap[s.block] = n)
      /\ \A c \in Block : c # s.block => s.heap[c] = size[c]
  BY <1>1, <1>2, MallocTakes
<1>6. /\ g.heap \in [Block -> Nat]
      /\ g.block = Nowhere \/ (g.block \in Block \ Live(s.heap) /\ g.heap[g.block] = n)
      /\ \A c \in Block : c # g.block => g.heap[c] = s.heap[c]
  BY <1>1, <1>5, MallocTakes
<1>7. CASE /\ Nowhere \in {s.block, g.block}
           /\ size' = Freed(g.heap, s.block, g.block)
           /\ UNCHANGED <<exists, support, signal, capacity, count>>
  <2>1. \A c \in Block : size[c] = 0
    BY <1>2 DEF Live
  <2>2. \A c \in Block : Freed(g.heap, s.block, g.block)[c] = size[c]
    BY <1>5, <1>6, <2>1 DEF Freed
  <2>3. Freed(g.heap, s.block, g.block) = size
    BY <1>2, <2>2 DEF Freed
  <2>4. UNCHANGED frameVars
    BY <1>7, <2>3 DEF frameVars
  <2> QED BY <1>1, <2>4 DEF frameVars, FrameInv, Owned, Dangling
<1>8. CASE /\ Nowhere \notin {s.block, g.block}
           /\ support' = s.block /\ signal' = g.block /\ size' = g.heap
           /\ exists' = TRUE /\ capacity' = n /\ count' = 0
  <2>1. /\ s.block \in Block /\ s.heap[s.block] = n /\ s.block \in Live(s.heap)
        /\ g.block \in Block /\ g.block \notin Live(s.heap) /\ g.heap[g.block] = n
    BY <1>1, <1>5, <1>6, <1>8 DEF Live
  <2>2. g.block # s.block /\ g.heap[s.block] = n
    BY <1>6, <2>1
  <2>3. Live(g.heap) = {s.block, g.block}
    BY <1>1, <1>2, <1>5, <1>6, <2>1, <2>2 DEF Live
  <2>4. Owned'
    BY <1>1, <1>8, <2>1, <2>2, <2>3 DEF Owned
  <2>5. exists' \in BOOLEAN
    BY <1>8, Zenon
  <2> QED BY <1>1, <1>6, <1>8, <2>4, <2>5 DEF FrameInv
<1> QED BY <1>4, <1>7, <1>8

LEMMA DelFramesInv ==
  ASSUME FrameInv, ~Dangling, DelFrames
  PROVE  FrameInv'
<1>1. /\ exists /\ size' = Freed(size, support, signal) /\ exists' = FALSE
      /\ capacity' = 0 /\ count' = 0
  BY DEF DelFrames
<1>2. Owned /\ size \in [Block -> Nat]
  BY <1>1, OwnedHere DEF FrameInv
<1>3. size' = [c \in Block |-> IF c \in {support, signal} THEN 0 ELSE size[c]]
  BY <1>1 DEF Freed
<1>4. /\ size' \in [Block -> Nat] /\ size'[support] = 0 /\ size'[signal] = 0
      /\ \A c \in Block : c # support /\ c # signal => size'[c] = size[c]
  BY <1>2, <1>3 DEF Owned
<1>5. Live(size') = {}
  BY <1>2, <1>4 DEF Owned, Live
<1>6. exists' \in BOOLEAN
  BY <1>1, Zenon
<1> QED BY <1>1, <1>4, <1>5, <1>6 DEF FrameInv

\* A growth that succeeds.
LEMMA GrowsInv ==
  ASSUME FrameInv, exists, ~Dangling, NEW n \in Capacity, n > capacity, ReserveGrows(n),
         UNCHANGED <<exists, count>>
  PROVE  FrameInv' /\ exists' /\ Owned' /\ size'[support'] = n /\ capacity' = n
<1>1. PICK s \in Realloc(size, support, n) : \E g \in Realloc(s.heap, signal, n) :
        /\ support' = s.block /\ signal' = g.block /\ size' = g.heap /\ capacity' = n
  BY DEF ReserveGrows
<1>2. PICK g \in Realloc(s.heap, signal, n) :
        /\ support' = s.block /\ signal' = g.block /\ size' = g.heap /\ capacity' = n
  BY <1>1
<1>3. /\ Owned /\ support \in Live(size) /\ signal \in Live(size)
      /\ size \in [Block -> Nat] /\ n \in Nat /\ n > 0
  BY OwnedHere, FrameAssumption DEF FrameInv, Owned
<1>4. /\ s.heap \in [Block -> Nat]
      /\ s.block \in Block /\ s.heap[s.block] = n
      /\ s.block = support \/ s.block \notin Live(size)
      /\ Live(s.heap) = (Live(size) \ {support}) \cup {s.block}
  BY <1>3, ReallocMoves
<1>5. Live(s.heap) = {s.block, signal} /\ s.block # signal /\ signal \in Live(s.heap)
  BY <1>3, <1>4 DEF Owned
<1>6. /\ g.heap \in [Block -> Nat]
      /\ g.block \in Block /\ g.heap[g.block] = n
      /\ g.block = signal \/ g.block \notin Live(s.heap)
      /\ \A c \in Block : c # signal /\ c # g.block => g.heap[c] = s.heap[c]
      /\ Live(g.heap) = (Live(s.heap) \ {signal}) \cup {g.block}
  BY <1>3, <1>4, <1>5, ReallocMoves
<1>7. /\ Live(g.heap) = {s.block, g.block} /\ s.block # g.block
      /\ g.heap[s.block] = n
  BY <1>4, <1>5, <1>6
<1>8. Owned' /\ size'[support'] = n
  BY <1>2, <1>3, <1>4, <1>6, <1>7 DEF Owned
<1> QED BY <1>2, <1>6, <1>8 DEF FrameInv

\* A growth that fails leaves the frame as it was, or its support dangles.
LEMMA FailsInv ==
  ASSUME FrameInv, exists, ~Dangling, NEW n \in Capacity, n > capacity, ReserveFails(n),
         UNCHANGED <<exists, count>>
  PROVE  /\ FrameInv' /\ exists' /\ UNCHANGED <<support, signal, capacity>>
         /\ Owned' \/ (Dangling' /\ "signal" \in MayFail)
<1>1. UNCHANGED <<support, signal, capacity>>
  BY DEF ReserveFails
<1>2. /\ Owned /\ support \in Live(size) /\ signal \in Live(size)
      /\ size \in [Block -> Nat] /\ n \in Nat /\ n > 0
  BY OwnedHere, FrameAssumption DEF FrameInv, Owned
<1>3. CASE UNCHANGED size
  <2>1. Owned'
    BY <1>1, <1>2, <1>3 DEF Owned
  <2> QED BY <1>1, <1>3, <2>1 DEF FrameInv
<1>4. CASE "signal" \in MayFail /\ \E s \in Realloc(size, support, n) : size' = s.heap
  <2>1. PICK s \in Realloc(size, support, n) : size' = s.heap
    BY <1>4
  <2>2. /\ s.heap \in [Block -> Nat]
        /\ s.block \in Block /\ s.heap[s.block] = n
        /\ s.block = support \/ s.block \notin Live(size)
        /\ \A c \in Block : c # support /\ c # s.block => s.heap[c] = size[c]
        /\ Live(s.heap) = (Live(size) \ {support}) \cup {s.block}
    BY <1>2, ReallocMoves
  <2>3. CASE s.block = support
    <3>1. Live(size') = {support, signal} /\ size'[support] = n /\ size'[signal] = capacity
      BY <1>2, <2>1, <2>2, <2>3 DEF Owned
    <3>2. Owned'
      BY <1>1, <1>2, <3>1 DEF Owned
    <3> QED BY <1>1, <2>1, <2>2, <3>2 DEF FrameInv
  <2>4. CASE s.block # support
    <3>1. support \notin Live(size')
      BY <1>2, <2>1, <2>2, <2>4
    <3>2. Dangling'
      BY <1>1, <3>1 DEF Dangling
    <3> QED BY <1>1, <1>4, <2>1, <2>2, <3>2 DEF FrameInv
  <2> QED BY <2>3, <2>4
<1> QED BY <1>3, <1>4 DEF ReserveFails

LEMMA FrameInvNext == FrameInv /\ [FrameNext]_frameVars => FrameInv'
<1> SUFFICES ASSUME FrameInv, [FrameNext]_frameVars PROVE FrameInv'
  OBVIOUS
<1>1. ASSUME NEW n \in Capacity, NewFrames(n) PROVE FrameInv'
  BY <1>1, NewFramesInv
<1>2. ASSUME NEW n \in Capacity, FrameReserve(n) PROVE FrameInv'
  BY <1>2, GrowsInv, FailsInv DEF FrameReserve
<1>3. ASSUME NEW n \in Nat, exists, count' = n,
             UNCHANGED <<exists, support, signal, capacity, size>>
      PROVE  FrameInv'
  BY <1>3 DEF FrameInv, Owned, Dangling
<1>4. ASSUME NEW n \in Capacity, Fill(n) PROVE FrameInv'
  BY <1>3, <1>4, FrameAssumption DEF Fill
<1>5. CASE FrameReset
  BY <1>3, <1>5 DEF FrameReset
<1>6. CASE ~Dangling /\ DelFrames
  BY <1>6, DelFramesInv
<1>7. CASE UNCHANGED frameVars
  BY <1>7 DEF frameVars, FrameInv, Owned, Dangling
<1> QED BY <1>1, <1>2, <1>4, <1>5, <1>6, <1>7 DEF FrameNext

LEMMA FrameInvariant == FrameSpec => []FrameInv
BY FrameInvInit, FrameInvNext, PTL DEF FrameSpec

(***************************************************************************)
(* The heap holds the arrays of the frame and nothing else, in every order *)
(* of creating, growing and deleting frames and for every malloc and       *)
(* realloc that fails: none leaks a block, and the two arrays never share  *)
(* one.                                                                    *)
(***************************************************************************)
THEOREM HeapAlwaysOwned == FrameSpec => []HeapOwned
<1>1. FrameInv => HeapOwned
  BY DEF FrameInv, HeapOwned, Owned, Dangling
<1>2. QED BY <1>1, FrameInvariant, PTL

-----------------------------------------------------------------------------
(***************************************************************************)
(* The frame that its owner sees.                                          *)
(***************************************************************************)

\* A frame has room for its capacity and no more.
LEMMA RoomHere ==
  ASSUME Owned, size \in [Block -> Nat]
  PROVE  ~Dangling /\ Room = capacity
<1>1. ~Dangling
  BY DEF Owned, Dangling
<1>2. PICK a \in Nat, b \in Nat : a = size[support] /\ b = size[signal]
  BY DEF Owned
<1>3. Room = Min({a, b})
  BY <1>1, <1>2 DEF Room
<1>4. Min({a, b}) = IF a <= b THEN a ELSE b
  BY MinOfTwo
<1> QED BY <1>1, <1>2, <1>3, <1>4 DEF Owned

(***************************************************************************)
(* What frame.h:44 says of a failed growth is true as long as the second   *)
(* realloc, of the signal array, does not fail: the first failure leaves   *)
(* the frame as it was.                                                    *)
(***************************************************************************)
THEOREM FirstFailureIsHarmless ==
  ASSUME "signal" \notin MayFail
  PROVE  FrameSpec => []FrameLeftUsable
<1> DEFINE Usable == exists => ~Dangling
<1>1. FrameInit => Usable
  BY DEF FrameInit
<1>2. FrameInv /\ Usable /\ [FrameNext]_frameVars => Usable'
  <2> SUFFICES ASSUME FrameInv, Usable, [FrameNext]_frameVars, exists' PROVE ~Dangling'
    OBVIOUS
  <2>1. Owned' => ~Dangling'
    BY DEF Owned, Dangling
  <2>2. ASSUME NEW n \in Capacity, NewFrames(n) PROVE ~Dangling'
    BY <2>1, <2>2, NewFramesInv DEF frameVars, Dangling
  <2>3. ASSUME NEW n \in Capacity, FrameReserve(n) PROVE ~Dangling'
    BY <2>1, <2>3, GrowsInv, FailsInv DEF FrameReserve
  <2>4. ASSUME NEW n \in Capacity, Fill(n) PROVE ~Dangling'
    BY <2>4 DEF Fill, Dangling
  <2>5. CASE FrameReset
    BY <2>5 DEF FrameReset, Dangling
  <2>6. CASE DelFrames
    BY <2>6 DEF DelFrames
  <2>7. CASE UNCHANGED frameVars
    BY <2>7 DEF frameVars, Dangling
  <2> QED BY <2>2, <2>3, <2>4, <2>5, <2>6, <2>7 DEF FrameNext
<1>3. FrameInv /\ Usable => FrameLeftUsable
  <2> SUFFICES ASSUME FrameInv, exists, ~Dangling PROVE Room >= capacity
    BY DEF FrameLeftUsable
  <2>1. Owned /\ size \in [Block -> Nat]
    BY OwnedHere DEF FrameInv
  <2>2. Room = capacity /\ capacity \in Nat
    BY <2>1, RoomHere DEF Owned
  <2> QED BY <2>2
<1>4. QED BY <1>1, <1>2, <1>3, FrameInvariant, PTL DEF FrameSpec

\* The frame of the contract: what the owner sees of the arrays.
Seen == [capacity |-> capacity, count |-> count, room |-> IF exists THEN Room ELSE 0]

LEMMA SeenHere ==
  ASSUME FrameInv, ~Dangling
  PROVE  /\ ~exists => Seen = Contract!NoFrame
         /\ exists => /\ Seen = [capacity |-> capacity, count |-> count,
                                 room |-> capacity]
                      /\ Seen # Contract!NoFrame
<1>1. CASE ~exists
  BY <1>1 DEF FrameInv, Seen, Contract!NoFrame
<1>2. CASE exists
  <2>1. Owned /\ size \in [Block -> Nat]
    BY <1>2, OwnedHere DEF FrameInv
  <2>2. Room = capacity /\ capacity > 0
    BY <2>1, RoomHere DEF Owned
  <2>3. Seen = [capacity |-> capacity, count |-> count, room |-> capacity]
    BY <1>2, <2>2 DEF Seen
  <2>4. Seen.capacity = capacity /\ Contract!NoFrame.capacity = 0
    BY <2>3 DEF Contract!NoFrame
  <2>5. capacity # 0
    BY <2>1 DEF Owned
  <2> QED BY <1>2, <2>3, <2>4, <2>5
<1> QED BY <1>1, <1>2

LEMMA SeenNext ==
  ASSUME FrameInv', Owned', exists'
  PROVE  Seen' = [capacity |-> capacity', count |-> count', room |-> capacity']
<1>1. ~Dangling'
  BY DEF Owned, Dangling
<1>2. PICK a \in Nat, b \in Nat : a = size'[support'] /\ b = size'[signal']
  BY DEF Owned, FrameInv
<1>3. Room' = Min({a, b})
  BY <1>1, <1>2 DEF Room
<1>4. Min({a, b}) = IF a <= b THEN a ELSE b
  BY MinOfTwo
<1>5. Room' = capacity'
  BY <1>2, <1>3, <1>4 DEF Owned
<1> QED BY <1>5 DEF Seen

\* A growth, granted or refused, is one of the contract.
LEMMA ReserveKeeps ==
  ASSUME FrameInv, NEW n \in Capacity, FrameReserve(n)
  PROVE  Contract!Grow
<1>1. exists /\ ~Dangling /\ n > capacity /\ UNCHANGED <<exists, count>>
  BY DEF FrameReserve
<1>2. Seen = [capacity |-> capacity, count |-> count, room |-> capacity]
      /\ Seen # Contract!NoFrame
  BY <1>1, SeenHere
<1>3. Owned /\ n \in Nat /\ capacity \in Nat
  BY <1>1, OwnedHere, FrameAssumption DEF Owned
<1> DEFINE grown == [Seen EXCEPT !.capacity = n, !.room = IF @ < Seen.capacity THEN @ ELSE n]
           lost  == [Seen EXCEPT !.room = 0]
           same  == [Seen EXCEPT !.room = @]
<1>4. /\ [frame |-> grown, ok |-> TRUE] \in Contract!Reserve(Seen, n)
      /\ [frame |-> lost, ok |-> FALSE] \in Contract!Reserve(Seen, n)
      /\ [frame |-> same, ok |-> FALSE] \in Contract!Reserve(Seen, n)
  <2>1. ~(n <= Seen.capacity)
    BY <1>1, <1>2, <1>3
  <2> QED BY <2>1 DEF Contract!Reserve
<1>5. grown = [capacity |-> n, count |-> count, room |-> n]
  <2>1. Seen.capacity = capacity /\ Seen.room = capacity
    BY <1>2
  <2>2. ~(Seen.room < Seen.capacity)
    BY <1>3, <2>1
  <2>3. grown = [Seen EXCEPT !.capacity = n, !.room = n]
    BY <2>2
  <2>4. [Seen EXCEPT !.capacity = n, !.room = n]
          = [capacity |-> n, count |-> count, room |-> n]
    <3> DEFINE once  == [Seen EXCEPT !.capacity = n]
               twice == [once EXCEPT !.room = n]
    <3>1. once = [capacity |-> n, count |-> count, room |-> capacity]
      BY <1>2
    <3> HIDE DEF once
    <3>2. twice = [capacity |-> n, count |-> count, room |-> n]
      BY <3>1
    <3> QED BY <3>2 DEF once
  <2> HIDE DEF grown
  <2> QED BY <2>3, <2>4
<1>6. lost = [capacity |-> capacity, count |-> count, room |-> 0] /\ same = Seen
  BY <1>2
<1> HIDE DEF grown, lost, same
<1>7. ASSUME NEW f, NEW ok, [frame |-> f, ok |-> ok] \in Contract!Reserve(Seen, n), Seen' = f
      PROVE  Contract!Grow
  <2>1. \E r \in Contract!Reserve(Seen, n) : Seen' = r.frame
    <3>1. [frame |-> f, ok |-> ok].frame = f
      OBVIOUS
    <3> QED BY <1>7, <3>1
  <2> QED BY <1>2, <2>1 DEF Contract!Grow, Seen
<1>8. CASE ReserveGrows(n)
  <2>1. FrameInv' /\ exists' /\ Owned' /\ capacity' = n
    BY <1>1, <1>8, GrowsInv
  <2>2. Seen' = [capacity |-> n, count |-> count, room |-> n]
    BY <1>1, <2>1, SeenNext
  <2> QED BY <1>4, <1>5, <1>7, <2>2
<1>9. CASE ReserveFails(n)
  <2>1. /\ FrameInv' /\ exists' /\ UNCHANGED <<support, signal, capacity>>
        /\ Owned' \/ Dangling'
    BY <1>1, <1>9, FailsInv
  <2>2. CASE Owned'
    <3>1. Seen' = Seen
      BY <1>1, <1>2, <2>1, <2>2, SeenNext
    <3> QED BY <1>4, <1>6, <1>7, <3>1
  <2>3. CASE Dangling'
    <3>1. Seen' = lost
      BY <1>1, <1>6, <2>1, <2>3 DEF Seen, Room
    <3> QED BY <1>4, <1>7, <3>1
  <2> QED BY <2>1, <2>2, <2>3
<1> QED BY <1>1, <1>8, <1>9 DEF FrameReserve

\* Every step of the arrays is one that the owner may take, or is not seen.
LEMMA ContractStep ==
  ASSUME FrameInv, [FrameNext]_frameVars
  PROVE  Contract!ContractNext \/ UNCHANGED Seen
<1>1. ASSUME NEW n \in Capacity, NewFrames(n)
      PROVE  Contract!Create \/ UNCHANGED Seen
  <2>1. CASE UNCHANGED frameVars
    BY <2>1 DEF frameVars, Seen, Room, Dangling
  <2>2. CASE exists' /\ Owned' /\ capacity' = n /\ count' = 0
    <3>1. FrameInv' /\ ~exists /\ ~Dangling /\ n \in Nat /\ n > 0
      BY <1>1, NewFramesInv, FrameAssumption DEF NewFrames, Dangling
    <3>2. Seen = Contract!NoFrame
      BY <3>1, SeenHere
    <3>3. Seen' = [capacity |-> n, count |-> 0, room |-> n]
      BY <2>2, <3>1, SeenNext
    <3>4. n \in Capacity \ {0} /\ Seen' = Contract!NewFrame(n)
      BY <3>1, <3>3 DEF Contract!NewFrame
    <3> QED BY <3>2, <3>4 DEF Contract!Create, Seen
  <2> QED BY <1>1, <2>1, <2>2, NewFramesInv
<1>2. ASSUME NEW n \in Capacity, FrameReserve(n) PROVE Contract!Grow
  BY <1>2, ReserveKeeps
<1>3. ASSUME NEW n \in Capacity \cup {0}, exists, ~Dangling, count' = n,
             UNCHANGED <<exists, support, signal, capacity, size>>
      PROVE  Contract!Write
  <2>1. Seen # Contract!NoFrame
    BY <1>3, SeenHere
  <2>2. Seen' = [Seen EXCEPT !.count = n]
    BY <1>3 DEF Seen, Room, Dangling
  <2> QED BY <2>1, <2>2 DEF Contract!Write, Seen
<1>4. ASSUME NEW n \in Capacity, Fill(n) PROVE Contract!Write
  BY <1>3, <1>4 DEF Fill
<1>5. CASE FrameReset
  <2>1. Contract!Write
    BY <1>3, <1>5 DEF FrameReset
  <2> QED BY <2>1 DEF Contract!ContractNext
<1>6. CASE ~Dangling /\ DelFrames
  <2>1. exists /\ exists' = FALSE /\ capacity' = 0 /\ count' = 0
    BY <1>6 DEF DelFrames
  <2>2. Seen # Contract!NoFrame
    BY <1>6, <2>1, SeenHere
  <2>3. Seen' = Contract!NoFrame
    BY <2>1 DEF Seen, Contract!NoFrame
  <2>4. Contract!Delete
    BY <2>2, <2>3 DEF Contract!Delete, Seen
  <2> QED BY <2>4 DEF Contract!ContractNext
<1>7. CASE UNCHANGED frameVars
  <2>1. UNCHANGED Seen
    BY <1>7 DEF frameVars, Seen, Room, Dangling
  <2> QED BY <2>1
<1> QED BY <1>1, <1>2, <1>4, <1>5, <1>6, <1>7 DEF FrameNext, Contract!ContractNext

(***************************************************************************)
(* The two arrays implement the frame of FrameContract: as long as nothing *)
(* dangles there is room for the capacity in both, growth only ever adds   *)
(* to it, and a growth that fails half-way is the contract's "dangling".   *)
(***************************************************************************)
THEOREM ArraysKeepContract == FrameSpec => ContractKept
<1>1. FrameInit => Contract!ContractInit
  <2> SUFFICES ASSUME FrameInit PROVE Contract!ContractInit
    OBVIOUS
  <2>1. ~exists /\ capacity = 0 /\ count = 0
    BY DEF FrameInit
  <2> QED BY <2>1 DEF Contract!ContractInit, Contract!NoFrame
<1>2. FrameInv /\ [FrameNext]_frameVars => [Contract!ContractNext]_Seen
  BY ContractStep
<1>3. FrameInv /\ [FrameNext]_frameVars
        => [Contract!ContractNext]_([capacity |-> capacity, count |-> count,
                                     room |-> IF exists THEN Room ELSE 0])
  BY <1>2 DEF Seen
<1>4. QED
  BY <1>1, <1>3, FrameInvariant, PTL DEF FrameSpec, ContractKept, Contract!ContractSpec

=============================================================================
