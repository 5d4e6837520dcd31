------------------------------ MODULE MCSmoke -------------------------------
(***************************************************************************)
(* Instances of Smoke for TLC.  Other programs send a frame of a camera    *)
(* that is not configured or a message that is too short to parse.         *)
(***************************************************************************)
EXTENDS Smoke

Stranger == Shot(0, 0, 1)
Garbage  == [Shot(0, 0, 1) EXCEPT !.len = HeaderBytes - 1]

MCForeign == {Stranger, Garbage}
=============================================================================
