-------------------------------- MODULE Wire --------------------------------
(***************************************************************************)
(* The message format of src/c/wire.h: one ZeroMQ message carries one      *)
(* sparse frame as a 32-byte header, then count support words, then count  *)
(* signal words of four bytes each.                                        *)
(*                                                                         *)
(* A frame is a record with the fields of frame_t; support and signal are  *)
(* the allocated arrays, of which the first count entries are live.  A     *)
(* word of the message is an integer: a site of the support, or the        *)
(* numerator of a signal value over 255, so [0, 1] is 0 .. 255 and every   *)
(* other integer stands for a value outside it or one that is not finite.  *)
(***************************************************************************)
EXTENDS Integers, Sequences

FormatTag   == "FRM1"   \* FRAME_WIRE_FORMAT
WireVersion == 1        \* FRAME_WIRE_VERSION
HeaderBytes == 32       \* sizeof(frame_wire_header_t)
WordBytes   == 4        \* sizeof(uint32_t) = sizeof(float)

Frame(CameraId) ==
  [camera_id : CameraId, sequence : Nat, t_ns : Int, count : Nat,
   support : Seq(Int), signal : Seq(Int)]

(***************************************************************************)
(* len is the size ZeroMQ reports for the message; the header fields mean  *)
(* nothing when it is below HeaderBytes, and what follows the header is    *)
(* made of whole words.                                                    *)
(***************************************************************************)
Message(CameraId) ==
  {m \in [len : Nat, format : {FormatTag, "other"}, version : Nat,
          camera_id : CameraId, count : Nat, t_ns : Int, sequence : Nat,
          words : Seq(Int)] :
     m.len >= HeaderBytes => m.len = HeaderBytes + WordBytes * Len(m.words)}

FrameWireSize(count) == HeaderBytes + count * (WordBytes + WordBytes)

(***************************************************************************)
(* frame_wire_pack returns 0 when the frame does not fit, else the bytes   *)
(* it wrote; CanPack is the test, Pack the message it leaves in out.       *)
(***************************************************************************)
CanPack(frame, cap) == cap >= FrameWireSize(frame.count)

Pack(frame) ==
  [len       |-> FrameWireSize(frame.count),
   format    |-> FormatTag,
   version   |-> WireVersion,
   camera_id |-> frame.camera_id,
   count     |-> frame.count,
   t_ns      |-> frame.t_ns,
   sequence  |-> frame.sequence,
   words     |-> SubSeq(frame.support, 1, frame.count)
                   \o SubSeq(frame.signal, 1, frame.count)]

\* frame_wire_peek: the first test that fails names the status.  Any version up
\* to the current one is accepted, 0 included.
Peek(msg) ==
  IF msg.len < HeaderBytes                      THEN "short"
  ELSE IF msg.format # FormatTag                THEN "format"
  ELSE IF msg.version > WireVersion             THEN "version"
  ELSE IF msg.len # FrameWireSize(msg.count)    THEN "length"
  ELSE "ok"

\* Mutant of UnpackStatus: the destination's capacity is not tested.
UnpackUnchecked(msg, capacity) == Peek(msg)

\* The status frame_wire_unpack returns for a destination of this capacity.
UnpackStatus(msg, capacity) ==
  IF Peek(msg) = "ok" /\ msg.count > capacity THEN "capacity" ELSE Peek(msg)

\* What frame_wire_unpack leaves in the live part of the destination frame.
Unpacked(msg) ==
  [camera_id |-> msg.camera_id,
   sequence  |-> msg.sequence,
   t_ns      |-> msg.t_ns,
   count     |-> msg.count,
   support   |-> SubSeq(msg.words, 1, msg.count),
   signal    |-> SubSeq(msg.words, msg.count + 1, 2 * msg.count)]

=============================================================================
