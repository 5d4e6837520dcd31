------------------------------ MODULE MCFrame -------------------------------
(***************************************************************************)
(* An instance of Frame for TLC: the heap has two blocks to spare, so both *)
(* arrays can move in one growth.                                          *)
(***************************************************************************)
EXTENDS Frame

Heap == 1 .. 4
=============================================================================
