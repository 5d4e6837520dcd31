--------------------------- MODULE FrameContract ---------------------------
(***************************************************************************)
(* What src/c/frame.h promises the owner of a frame: a frame that exists   *)
(* has room for capacity entries, frame_reserve only ever grows it, and    *)
(* nothing but the owner touches it.  The arrays are not seen: room is the *)
(* number of entries that both really hold.                                *)
(*                                                                         *)
(* Capacities are below 2^32, as those of every caller are, so storing one *)
(* in a uint32_t keeps it.                                                 *)
(***************************************************************************)
EXTENDS Integers

CONSTANTS
  Capacity,        \* the capacities asked for
  Entries,         \* the counts an owner writes
  ReserveFailures  \* how frame_reserve may fail: "unchanged", "dangling"

VARIABLE frame

\* new_frames refuses a capacity of 0.
NoFrame == [capacity |-> 0, count |-> 0, room |-> 0]

NewFrame(n) == [capacity |-> n, count |-> 0, room |-> n]

(***************************************************************************)
(* frame_reserve: the frames a call for n entries may leave and the        *)
(* success it reports.  The growth fails either before the frame changed   *)
(* or, "dangling", after the support array moved, when the frame keeps a   *)
(* pointer to the freed one and never has room for anything again.         *)
(***************************************************************************)
Reserve(d, n) ==
  IF n <= d.capacity
  THEN {[frame |-> d, ok |-> TRUE]}
  ELSE {[frame |-> [d EXCEPT !.capacity = n,
                             !.room = IF @ < d.capacity THEN @ ELSE n],
         ok    |-> TRUE]}
       \cup {[frame |-> [d EXCEPT !.room = IF how = "dangling" THEN 0 ELSE @],
              ok    |-> FALSE] : how \in ReserveFailures}

Create == frame = NoFrame /\ \E n \in Capacity \ {0} : frame' = NewFrame(n)

Grow == /\ frame # NoFrame
        /\ \E n \in Capacity : \E r \in Reserve(frame, n) : frame' = r.frame

\* The owner writes entries and their count, or frame_reset clears it.
Write == /\ frame # NoFrame
         /\ \E n \in Entries : frame' = [frame EXCEPT !.count = n]

Delete == frame # NoFrame /\ frame' = NoFrame

ContractInit == frame = NoFrame
ContractNext == Create \/ Grow \/ Write \/ Delete
ContractSpec == ContractInit /\ [][ContractNext]_frame
=============================================================================
