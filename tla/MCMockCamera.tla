---------------------------- MODULE MCMockCamera ----------------------------
(***************************************************************************)
(* Instance of MockCamera for TLC: words of 8 values, so that a grid of 6  *)
(* cells lets the sum of base and i overflow and one of 4 or 3 does not;   *)
(* periods of one to three units of the clock, refused configurations.     *)
(***************************************************************************)
EXTENDS MockCamera

Shape(rows, cols, sites, period) ==
  [rows |-> rows, cols |-> cols, sites |-> sites, period |-> period]

MCConfigs ==
  {Shape(2, 2, 3, 2), Shape(1, 3, 5, 3), Shape(2, 3, 6, 1),
   Shape(0, 2, 1, 1), Shape(2, 0, 1, 1), Shape(1, 1, 1, 0), Shape(1, 1, 1, -1)}
=============================================================================
