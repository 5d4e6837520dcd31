------------------------------- MODULE MCV4l2 -------------------------------
(***************************************************************************)
(* Instance of V4l2 for TLC: an image of 3 x 2 pixels and 2 x 3 cells, so  *)
(* that one row of cells holds one row of pixels and the other two, and    *)
(* the first column of cells none.  One image is dark, one is above the    *)
(* threshold of 4 everywhere, and one is at the threshold in every cell    *)
(* but two: in one the only pixel is above it, and in the other the mean   *)
(* is 4.5, which floats of three bits round to 4.                          *)
(***************************************************************************)
EXTENDS V4l2

Flat(level) == [p \in Pixels |-> level]
Corners     == [p \in Pixels |-> IF p \in {<<0, 1>>, <<2, 0>>} THEN 5 ELSE 4]

MCImages == {Flat(0), Flat(9), Corners}
=============================================================================
