------------------------------- MODULE Frame -------------------------------
(***************************************************************************)
(* The frame container of src/c/frame.c on the heap that malloc, realloc   *)
(* and free share: two arrays, support and signal, that grow one after the *)
(* other.  One owner calls the operations in any legal order.              *)
(*                                                                         *)
(* A block of the heap is its identity and its size in entries, 0 for a    *)
(* block that is free.  malloc and realloc may fail, and realloc may move  *)
(* a block.  The frame_t itself lives exactly as long as the frame, and is *)
(* left out.  Once an array pointer dangles every further use is           *)
(* undefined, so the model takes no step from there.                       *)
(***************************************************************************)
EXTENDS FiniteSetsExt

CONSTANTS
  Block,     \* the blocks of the heap
  Capacity,  \* the capacities asked for
  MayFail    \* the reallocations that may fail: "support", "signal"

ASSUME FrameAssumption ==
  /\ Block \subseteq Nat \ {0}
  /\ Capacity \subseteq Nat
  /\ MayFail \subseteq {"support", "signal"}

VARIABLES
  exists,    \* is there a frame?
  support,   \* the block of frame->support
  signal,    \* the block of frame->signal
  capacity,  \* frame->capacity
  count,     \* frame->count
  size       \* the heap

frameVars == <<exists, support, signal, capacity, count, size>>

Nowhere == 0   \* the pointer of no frame

Live(heap) == {b \in Block : heap[b] > 0}
Dangling   == exists /\ ~({support, signal} \subseteq Live(size))

FrameInit ==
  /\ exists = FALSE /\ support = Nowhere /\ signal = Nowhere
  /\ capacity = 0 /\ count = 0
  /\ size = [b \in Block |-> 0]

\* malloc(n): the block it hands out, and the heap; Nowhere when it fails.
Malloc(heap, n) ==
  {[block |-> Nowhere, heap |-> heap]}
  \cup {[block |-> b, heap |-> [heap EXCEPT ![b] = n]] : b \in Block \ Live(heap)}

\* del_frames, on the heap; an array that is not there is none to free.
\* Mutant: the signal array is forgotten.
FreedOne(heap, a, b) == [c \in Block |-> IF c = a THEN 0 ELSE heap[c]]
Freed(heap, a, b) == [c \in Block |-> IF c \in {a, b} THEN 0 ELSE heap[c]]

(***************************************************************************)
(* new_frames: refuses a capacity of 0.  Each of the two arrays may be     *)
(* refused on its own, and del_frames gives the other one back.            *)
(***************************************************************************)
NewFrames(n) ==
  /\ ~exists
  /\ n > 0
  /\ \E s \in Malloc(size, n) : \E g \in Malloc(s.heap, n) :
       \/ /\ Nowhere \in {s.block, g.block}
          /\ size' = Freed(g.heap, s.block, g.block)
          /\ UNCHANGED <<exists, support, signal, capacity, count>>
       \/ /\ Nowhere \notin {s.block, g.block}
          /\ support' = s.block /\ signal' = g.block /\ size' = g.heap
          /\ exists' = TRUE /\ capacity' = n /\ count' = 0

DelFrames ==
  /\ exists
  /\ size' = Freed(size, support, signal)
  /\ exists' = FALSE /\ support' = Nowhere /\ signal' = Nowhere
  /\ capacity' = 0 /\ count' = 0

\* realloc(b, n): where the array ends up, and the heap; a move frees b.
Realloc(heap, b, n) ==
  {[block |-> t, heap |-> [heap EXCEPT ![b] = 0, ![t] = n]] :
     t \in {b} \cup (Block \ Live(heap))}

\* Mutant of ReserveGrows: only one of the two arrays is reallocated.
ReserveGrowsOne(n) ==
  \E s \in Realloc(size, support, n) :
    /\ support' = s.block /\ size' = s.heap /\ capacity' = n
    /\ UNCHANGED signal

ReserveGrows(n) ==
  \E s \in Realloc(size, support, n) :
    \E g \in Realloc(s.heap, signal, n) :
      /\ support' = s.block /\ signal' = g.block
      /\ size' = g.heap
      /\ capacity' = n

\* Each early return of frame_reserve leaves the frame's own fields alone, and
\* the second one leaves a heap in which the support array may have moved.
ReserveFails(n) ==
  /\ \/ "support" \in MayFail /\ UNCHANGED size
     \/ "signal" \in MayFail /\ \E s \in Realloc(size, support, n) : size' = s.heap
  /\ UNCHANGED <<support, signal, capacity>>

\* frame_reserve; a capacity the frame has already is granted at once.
FrameReserve(n) ==
  /\ exists /\ ~Dangling
  /\ n > capacity
  /\ ReserveGrows(n) \/ ReserveFails(n)
  /\ UNCHANGED <<exists, count>>

\* A backend or the decoder writes n entries.  Both compare n with capacity.
Fill(n) ==
  /\ exists /\ ~Dangling
  /\ n <= capacity
  /\ count' = n
  /\ UNCHANGED <<exists, support, signal, capacity, size>>

FrameReset ==
  /\ exists /\ ~Dangling
  /\ count' = 0
  /\ UNCHANGED <<exists, support, signal, capacity, size>>

FrameNext ==
  \/ \E n \in Capacity : NewFrames(n) \/ FrameReserve(n) \/ Fill(n)
  \/ FrameReset
  \/ ~Dangling /\ DelFrames

FrameSpec == FrameInit /\ [][FrameNext]_frameVars

-----------------------------------------------------------------------------
(***************************************************************************)
(* The heap holds what the frame owns and nothing else: two different      *)
(* arrays while it exists and none otherwise, whichever array a new frame  *)
(* was refused and whatever grew, moved or failed before.  A frame whose   *)
(* growth left a dangling pointer is beyond this: see FrameLeftUsable.     *)
(***************************************************************************)
HeapOwned ==
  ~Dangling => /\ Live(size) = IF exists THEN {support, signal} ELSE {}
               /\ exists => support # signal

(***************************************************************************)
(* The arrays implement the frame of FrameContract, which the sink is      *)
(* modelled on.                                                            *)
(***************************************************************************)
Room == IF Dangling THEN 0 ELSE Min({size[support], size[signal]})

Contract ==
  INSTANCE FrameContract WITH
    Entries <- Capacity \cup {0}, ReserveFailures <- {"unchanged", "dangling"},
    frame <- [capacity |-> capacity, count |-> count,
              room |-> IF exists THEN Room ELSE 0]

ContractKept == Contract!ContractSpec

(***************************************************************************)
(* frame.h:44 says that frame_reserve leaves the frame usable when it      *)
(* fails.                                                                  *)
(***************************************************************************)
FrameLeftUsable == exists => ~Dangling /\ Room >= capacity
=============================================================================
