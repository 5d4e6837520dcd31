--------------------------- MODULE CameraContract ---------------------------
(***************************************************************************)
(* What src/c/camera.h demands of a capture backend, and what camera.c and *)
(* smoke.c rely on: init brings the device up or fails, deinit is safe in  *)
(* any state, and acquire, of a device that is up, gives a frame, nothing  *)
(* within its time, or an error.  The sites of a frame are cells of the    *)
(* grid whose size max_sites told before init, and frames are numbered in  *)
(* ascending order, so that a number left out is a frame that was lost.    *)
(* The stamp of a frame is the backend's own, "the driver's own capture    *)
(* stamp": a backend that takes it from a driver cannot promise what the   *)
(* sink expects of it, that it ascends.                                    *)
(***************************************************************************)
EXTENDS Integers, SequencesExt

CONSTANTS
  Gapless,  \* are the frames numbered from 0 without a gap?
  Ascends   \* does the backend stamp the frames in ascending order itself?

VARIABLES
  phase,  \* "down", "up", or "failed" until the next deinit
  grid,   \* what max_sites reports
  frames  \* the frames since init, while the device is up

backendVars == <<phase, grid, frames>>

BackendInit == phase = "down" /\ grid \in Nat /\ frames = <<>>

\* Contexts come and go, with other grids, while the device is down.
Configure == phase = "down" /\ phase' = "down" /\ grid' \in Nat /\ UNCHANGED frames

\* A second init begins the numbering anew.
Up   == phase # "failed" /\ phase' = "up" /\ frames' = <<>> /\ UNCHANGED grid
Fail == phase' = "failed" /\ frames' = <<>> /\ UNCHANGED grid
Down == phase' = "down" /\ frames' = <<>> /\ UNCHANGED grid

Accepted(frame) ==
  /\ \A i \in DOMAIN frame.support : frame.support[i] \in 0 .. grid - 1
  /\ Len(frame.support) <= frame.room

\* The frame comes after those of done.
InOrder(done, frame) ==
  /\ IF Gapless THEN frame.sequence = Len(done)
     ELSE done # <<>> => frame.sequence > Last(done).sequence
  /\ Ascends /\ done # <<>> => frame.t_ns > Last(done).t_ns

Deliver ==
  /\ phase = "up" /\ phase' = "up"
  /\ frames' # <<>> /\ Front(frames') = frames
  /\ Accepted(Last(frames'))
  /\ InOrder(frames, Last(frames'))
  /\ UNCHANGED grid

BackendNext == Configure \/ Up \/ Fail \/ Down \/ Deliver

BackendSpec == BackendInit /\ [][BackendNext]_backendVars
=============================================================================
