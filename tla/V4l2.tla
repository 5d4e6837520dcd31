-------------------------------- MODULE V4l2 --------------------------------
(***************************************************************************)
(* The webcam backend of src/c/v4l2_webcam.c: a session with a V4L2 device *)
(* that is brought up in steps of which each may fail, the cycle of its    *)
(* buffers between the driver and the thread that acquires, the reduction  *)
(* of an image to sites, and the release of whatever there is.             *)
(*                                                                         *)
(* The driver is external and modelled as the code relies on it: it fills  *)
(* the queued buffers in order, numbers every frame, also those it has no  *)
(* buffer for, and owns a buffer from QBUF to DQBUF.  An image maps each   *)
(* pixel <<y, x>> to its luminance, and its stamp is any the driver may    *)
(* give.  debug_frame is kept as an allocation only.  Two flags are left   *)
(* out: streaming, which nothing in the code sets, so that the stream ends *)
(* when the device is closed, and stamp_checked, which only decides on a   *)
(* warning that the driver's clock is not the monotonic one.               *)
(***************************************************************************)
EXTENDS Integers, FiniteSetsExt, SequencesExt

CONSTANTS
  Granted,              \* the numbers of buffers that REQBUFS may grant
  Width, Height,        \* what S_FMT agreed on
  GridRows, GridCols,   \* the output geometry, 0 for one cell per pixel
  Threshold,            \* luminance strictly above it makes a site
  Precision,            \* bits of the significand of a float, 24 in the code
  Capacity,             \* of the frame handed to acquire
  Images,               \* what the camera may see
  Stamps,               \* the stamps the driver may give
  MaxFrames             \* bound of the model on the frames the driver numbers

Pixels == (0 .. Height - 1) \X (0 .. Width - 1)

\* A float whose significand is even, as every number up to 255 is in 24 bits.
ThresholdIsEven ==
  \/ 2 * Threshold < 2 ^ Precision
  \/ Threshold < 2 ^ Precision /\ Threshold % 2 = 0

ASSUME V4l2Assumption ==
  /\ Granted \subseteq Nat
  /\ Width \in Nat \ {0} /\ Height \in Nat \ {0}
  /\ GridRows \in Nat /\ GridCols \in Nat
  /\ Threshold \in 0 .. 255
  /\ Precision \in Nat \ {0}
  /\ ThresholdIsEven
  /\ Capacity \in Nat
  /\ Images \subseteq [Pixels -> 0 .. 255]
  /\ Stamps \subseteq Int
  /\ MaxFrames \in Nat

VARIABLES
  stage,     \* where the context is between its creation and its end
  fd,        \* is the device open?
  buffers,   \* ctx->buffers: what start is of each entry
  debug,     \* is debug_frame allocated?
  maps,      \* the buffers whose memory is mapped into the process
  inq,       \* the driver's queue of empty buffers
  outq,      \* the filled buffers, each with its number and stamp
  streaming, \* did STREAMON succeed and is the device open?
  memory,    \* what each buffer's memory shows
  clock,     \* the number of the driver's next frame
  held,      \* the filled buffer between DQBUF and QBUF, or NoBuffer
  captured,  \* history since init: number, image and stamp of what was filled
  delivered  \* history since init: the frames that acquire returned

sessionVars == <<stage, fd, buffers, debug, maps>>
driverVars  == <<inq, outq, streaming, memory, clock>>
vars        == <<sessionVars, driverVars, held, captured, delivered>>

NoTable  == <<>>   \* ctx->buffers = NULL, n_buffers = 0
NoBuffer == [index |-> 0, sequence |-> 0, t_ns |-> 0]
Dark     == [p \in Pixels |-> 0]

\* v4l2_ctx_create
Init ==
  /\ stage = "created" /\ fd = FALSE /\ buffers = NoTable /\ debug = FALSE
  /\ maps = {} /\ inq = <<>> /\ outq = <<>> /\ streaming = FALSE
  /\ memory = <<>> /\ clock = 0
  /\ held = NoBuffer /\ captured = {} /\ delivered = <<>>

-----------------------------------------------------------------------------
(***************************************************************************)
(* v4l2_init: open, QUERYCAP, S_FMT, REQBUFS with its table, then QUERYBUF,*)
(* mmap and QBUF of each buffer, STREAMON, and the debug frame.            *)
(***************************************************************************)

\* The table of n entries of which the first k are mapped.
Table(n, k) == [i \in 1 .. n |-> IF i <= k THEN "mapped" ELSE "null"]

UpTo(k) == [i \in 1 .. k |-> i]

\* How far v4l2_init got: the entries, how many of them are mapped and queued,
\* whether the stream and the debug frame are there.
Session(table, queued, on, frame) ==
  /\ fd' = TRUE
  /\ buffers' = table
  /\ maps' = {i \in DOMAIN table : table[i] = "mapped"}
  /\ inq' = UpTo(queued)
  /\ memory' = [i \in DOMAIN table |-> Dark]
  /\ streaming' = on
  /\ debug' = frame

InitDone ==
  \E n \in Granted :
    /\ n >= 2
    /\ Session(Table(n, n), n, TRUE, TRUE)
    /\ stage' = "up"

\* open fails.
OpenFails ==
  /\ UNCHANGED <<fd, buffers, maps, inq, memory, streaming, debug>>

\* QUERYCAP, S_FMT, REQBUFS or calloc fails, or fewer than two are granted.
NoBuffersGot == Session(NoTable, 0, FALSE, FALSE)

\* Among n entries QUERYBUF, mmap or QBUF of entry k + 1 fails.
MapFails ==
  \E n \in Granted : \E k \in 0 .. n - 1 :
    /\ n >= 2
    /\ \/ Session(Table(n, k), k, FALSE, FALSE)
       \/ Session([Table(n, k) EXCEPT ![k + 1] = "failed"], k, FALSE, FALSE)
       \/ Session(Table(n, k + 1), k, FALSE, FALSE)

\* STREAMON or the allocation of the debug frame fails.
StreamFails ==
  \E n \in Granted, on \in BOOLEAN :
    /\ n >= 2
    /\ Session(Table(n, n), n, on, FALSE)

\* The first init of a context, or another after deinit; with the stream the
\* driver's numbers begin anew.
V4l2Init ==
  /\ stage \in {"created", "down"}
  /\ \/ InitDone
     \/ (OpenFails \/ NoBuffersGot \/ MapFails \/ StreamFails) /\ stage' = "failed"
  /\ clock' = 0 /\ captured' = {} /\ delivered' = <<>>
  /\ UNCHANGED <<outq, held>>

-----------------------------------------------------------------------------
(***************************************************************************)
(* The driver.                                                             *)
(***************************************************************************)

\* A frame goes into the first empty buffer.
Fill ==
  /\ streaming
  /\ clock < MaxFrames
  /\ inq # <<>>
  /\ \E image \in Images, t \in Stamps :
       /\ memory' = [memory EXCEPT ![Head(inq)] = image]
       /\ captured' = captured \cup {<<clock, image, t>>}
       /\ outq' = Append(outq, [index |-> Head(inq), sequence |-> clock, t_ns |-> t])
  /\ inq' = Tail(inq)
  /\ clock' = clock + 1
  /\ UNCHANGED <<sessionVars, streaming, held, delivered>>

\* No buffer is empty, and a number is skipped.
Skip ==
  /\ streaming
  /\ clock < MaxFrames
  /\ inq = <<>>
  /\ clock' = clock + 1
  /\ UNCHANGED <<sessionVars, inq, outq, streaming, memory, held, captured, delivered>>

-----------------------------------------------------------------------------
(***************************************************************************)
(* yuyv_to_sparse.  A cell whose block holds no pixel gives no site.  The  *)
(* sum and the number of pixels are rounded to floats, and so is their     *)
(* quotient; that the rounded quotient exceeds the threshold is said       *)
(* without the division.                                                   *)
(***************************************************************************)
\* Mutant of Rows: the driver's geometry in place of the configured one.
RowsOfImage == Height
Rows == IF GridRows # 0 THEN GridRows ELSE Height
Cols == IF GridCols # 0 THEN GridCols ELSE Width

\* Where the block of cell i begins among n cells over a side of the image.
Edge(i, n, side) == (i * side) \div n

Block(r, c) ==
  (Edge(r, Rows, Height) .. Edge(r + 1, Rows, Height) - 1)
    \X (Edge(c, Cols, Width) .. Edge(c + 1, Cols, Width) - 1)

\* How many bits n has.
Bits(n) == CHOOSE k \in 0 .. n : n < 2 ^ k /\ (k > 0 => 2 ^ (k - 1) <= n)

\* (float)n: the nearest of the floats, of two the one with an even significand.
ToFloat(n) ==
  IF Bits(n) <= Precision THEN n
  ELSE LET unit == 2 ^ (Bits(n) - Precision)
           low  == n \div unit
           rest == n % unit
           up   == 2 * rest > unit \/ (2 * rest = unit /\ low % 2 = 1)
       IN  (IF up THEN low + 1 ELSE low) * unit

\* Is a / b, rounded, above the threshold?  It is when a / b lies more than half
\* way to the next float, half of a unit in the threshold's last place; half
\* way it is rounded back.
QuotientAbove(a, b) ==
  IF Threshold = 0 THEN a > 0
  ELSE 2 ^ (Precision + 1 - Bits(Threshold)) * (a - b * Threshold) > b

\* Is the mean luminance of some pixels not at or below the threshold?  The
\* quotient 0 / 0 is not a number, and not below anything.
Above(image, pixels) ==
  LET Luminance(p) == image[p]
  IN  \/ pixels = {}
      \/ QuotientAbove(ToFloat(MapThenSumSet(Luminance, pixels)),
                       ToFloat(Cardinality(pixels)))

\* Mutant of Bright: a cell without a pixel is not passed over.
BrightUnguarded(image, block) == Above(image, block)
Bright(image, block) == block # {} /\ Above(image, block)

Lit(image) ==
  {cell[1] * Cols + cell[2] :
     cell \in {cell \in (0 .. Rows - 1) \X (0 .. Cols - 1) :
                 Bright(image, Block(cell[1], cell[2]))}}

\* The elements of a finite set of numbers, the smaller ones first.
Ascending(set) ==
  CHOOSE s \in [1 .. Cardinality(set) -> set] :
    \A i, j \in 1 .. Cardinality(set) : i < j => s[i] < s[j]

Sparse(image) ==
  SubSeq(Ascending(Lit(image)), 1, Min({Cardinality(Lit(image)), Capacity}))

-----------------------------------------------------------------------------
(***************************************************************************)
(* v4l2_acquire, from its poll to DQBUF and from there to QBUF; a timeout  *)
(* and EAGAIN change nothing.                                              *)
(***************************************************************************)
Idle == stage = "up" /\ held = NoBuffer

\* Mutant of Dequeue: of several frames only the latest is read, and the older
\* ones are handed back.
DequeueLatest ==
  /\ Idle
  /\ outq # <<>>
  /\ held' = Last(outq)
  /\ outq' = <<>>
  /\ inq' = inq \o [i \in 1 .. Len(outq) - 1 |-> outq[i].index]
  /\ UNCHANGED <<sessionVars, streaming, memory, clock, captured, delivered>>

Dequeue ==
  /\ Idle
  /\ outq # <<>>
  /\ held' = Head(outq)
  /\ outq' = Tail(outq)
  /\ UNCHANGED <<sessionVars, inq, streaming, memory, clock, captured, delivered>>

\* A negative code ends the camera's thread: poll or DQBUF failed.
AcquireFails ==
  /\ Idle
  /\ stage' = "faulted"
  /\ UNCHANGED <<fd, buffers, debug, maps, driverVars, held, captured, delivered>>

Reading == stage = "up" /\ held # NoBuffer

\* Mutant of Requeue: an image without a site is not handed back.
RequeueBright ==
  /\ Reading
  /\ delivered' = Append(delivered, [sequence |-> held.sequence,
                                     t_ns     |-> held.t_ns,
                                     support  |-> Sparse(memory[held.index])])
  /\ inq' = IF Lit(memory[held.index]) = {} THEN inq ELSE Append(inq, held.index)
  /\ held' = NoBuffer
  /\ UNCHANGED <<sessionVars, outq, streaming, memory, clock, captured>>

Requeue ==
  /\ Reading
  /\ delivered' = Append(delivered, [sequence |-> held.sequence,
                                     t_ns     |-> held.t_ns,
                                     support  |-> Sparse(memory[held.index])])
  /\ inq' = Append(inq, held.index)
  /\ held' = NoBuffer
  /\ UNCHANGED <<sessionVars, outq, streaming, memory, clock, captured>>

\* QBUF fails: the buffer stays with the process, and the frame that was read
\* from it is discarded with the negative code.
RequeueFails ==
  /\ Reading
  /\ stage' = "faulted"
  /\ held' = NoBuffer
  /\ UNCHANGED <<fd, buffers, debug, maps, driverVars, captured, delivered>>

-----------------------------------------------------------------------------
\* Mutant of Unmapped: nothing is unmapped unless every entry was mapped.
UnmappedWhenComplete ==
  {i \in DOMAIN buffers : \A j \in DOMAIN buffers : buffers[j] = "mapped"}

\* What the loop of v4l2_release unmaps: every start that is not NULL; the
\* munmap of MAP_FAILED is refused by the system and changes nothing.
Unmapped == {i \in DOMAIN buffers : buffers[i] # "null"}

\* Mutant of Release: the table is freed and its pointer stays.
ReleaseKeepsTable ==
  /\ maps' = maps \ Unmapped
  /\ fd' = FALSE
  /\ debug' = FALSE
  /\ inq' = <<>> /\ outq' = <<>> /\ streaming' = FALSE /\ memory' = <<>>
  /\ UNCHANGED <<buffers, clock, held, captured, delivered>>

(***************************************************************************)
(* v4l2_release.  The driver forgets its queues when the device is closed. *)
(***************************************************************************)
Release ==
  /\ maps' = maps \ Unmapped
  /\ buffers' = NoTable
  /\ fd' = FALSE
  /\ debug' = FALSE
  /\ inq' = <<>> /\ outq' = <<>> /\ streaming' = FALSE /\ memory' = <<>>
  /\ UNCHANGED <<clock, held, captured, delivered>>

\* v4l2_deinit, which camera_del calls after a failed init and without one too.
V4l2Deinit ==
  /\ stage \in {"created", "failed", "faulted"} \/ Idle
  /\ Release
  /\ stage' = "down"

\* v4l2_ctx_destroy; without a camera nothing was released before it.
V4l2Destroy ==
  /\ stage \in {"created", "down"}
  /\ Release
  /\ stage' = "gone"

Next ==
  \/ V4l2Init
  \/ Fill \/ Skip
  \/ Dequeue \/ AcquireFails \/ Requeue \/ RequeueFails
  \/ V4l2Deinit \/ V4l2Destroy

V4l2Spec == Init /\ [][Next]_vars

-----------------------------------------------------------------------------
Numbered == [index : Nat, sequence : Nat, t_ns : Int]
Delivery == [sequence : Nat, t_ns : Int, support : Seq(Nat)]

V4l2TypeOK ==
  /\ stage \in {"created", "failed", "up", "faulted", "down", "gone"}
  /\ fd \in BOOLEAN /\ debug \in BOOLEAN /\ streaming \in BOOLEAN
  /\ buffers \in Seq({"null", "mapped", "failed"})
  /\ maps \subseteq Nat
  /\ inq \in Seq(Nat) /\ outq \in Seq(Numbered)
  /\ DOMAIN memory = DOMAIN buffers
  /\ clock \in Nat
  /\ held \in Numbered
  /\ captured \subseteq Nat \X [Pixels -> 0 .. 255] \X Int
  /\ delivered \in Seq(Delivery)

(***************************************************************************)
(* The comment on v4l2_release: safe at any point of an initialisation     *)
(* that stopped half-way.  Wherever v4l2_init failed, or acquire did, a    *)
(* release leaves no mapping, no allocation and no open device.            *)
(***************************************************************************)
NothingLeft ==
  stage \in {"down", "gone"} =>
    ~fd /\ ~debug /\ buffers = NoTable /\ maps = {}

Waiting == [i \in DOMAIN outq |-> outq[i].index]
Read    == IF held = NoBuffer THEN <<>> ELSE <<held.index>>

(***************************************************************************)
(* No buffer is lost and none has two owners: while the camera runs, each  *)
(* buffer that was granted is in one place of the cycle, empty with the    *)
(* driver, filled, or read by the thread.  With at least two of them the   *)
(* driver can fill one while another is read.  v4l2_acquire's QBUF.        *)
(***************************************************************************)
PoolConserved ==
  stage = "up" =>
    LET pool == inq \o Waiting \o Read
    IN  /\ Len(pool) = Len(buffers) /\ Len(buffers) >= 2
        /\ ToSet(pool) = DOMAIN buffers
        /\ \A i \in DOMAIN buffers : buffers[i] = "mapped" /\ i \in maps

\* The cell of the output that a pixel belongs to.
CellOf(p) ==
  LET row == Max({r \in 0 .. Rows - 1 : Edge(r, Rows, Height) <= p[1]})
      col == Max({c \in 0 .. Cols - 1 : Edge(c, Cols, Width) <= p[2]})
  IN  row * Cols + col

\* The sites of an image, from its pixels instead of from its cells, so that a
\* cell without a pixel is none.
SitesOf(image) ==
  LET Of(k) == {p \in Pixels : CellOf(p) = k}
  IN  {k \in {CellOf(p) : p \in Pixels} : Above(image, Of(k))}

(***************************************************************************)
(* A frame says what the camera saw: the sites that acquire returns under  *)
(* a number are those of the image the driver captured under that number,  *)
(* in ascending order, cut off at the capacity of the frame, under the     *)
(* stamp of that image, whatever the driver did to the buffers meanwhile.  *)
(* v4l2_acquire, yuyv_to_sparse.                                           *)
(***************************************************************************)
FramesAreImages ==
  \A i \in DOMAIN delivered :
    LET shown == {c \in captured : c[1] = delivered[i].sequence}
        sites == delivered[i].support
    IN  \E c \in shown : LET image == c[2] IN
          /\ shown = {c} /\ c[3] = delivered[i].t_ns
          /\ \A k \in 1 .. Len(sites) - 1 : sites[k] < sites[k + 1]
          /\ ToSet(sites) \subseteq SitesOf(image)
          /\ Len(sites) = Min({Cardinality(SitesOf(image)), Capacity})
          /\ \A a \in SitesOf(image) \ ToSet(sites), b \in ToSet(sites) : b < a

(***************************************************************************)
(* The frames of one camera come in the order of the driver's numbers, and *)
(* every frame that got a buffer is delivered or still on its way, so that *)
(* a gap in the numbers is a frame the driver had no buffer for: what the  *)
(* sink counts as lost really was lost.  v4l2_acquire's use of sequence.   *)
(***************************************************************************)
GapsAreSkips ==
  stage = "up" =>
    LET done    == [i \in DOMAIN delivered |-> delivered[i].sequence]
        reading == IF held = NoBuffer THEN <<>> ELSE <<held.sequence>>
        numbers == done \o reading \o [i \in DOMAIN outq |-> outq[i].sequence]
    IN  /\ \A i \in 1 .. Len(numbers) - 1 : numbers[i] < numbers[i + 1]
        /\ ToSet(numbers) = {c[1] : c \in captured}

(***************************************************************************)
(* The webcam is a backend as camera.h demands one: its sites are cells of *)
(* the grid whose size was asked for before init, when the driver had not  *)
(* agreed on a format yet, its numbers ascend, and after a failure it      *)
(* gives nothing until it is released.  Its stamps are the driver's, of    *)
(* which nothing is claimed.  v4l2_camera_interface and v4l2_max_sites.    *)
(***************************************************************************)
WebcamContract ==
  INSTANCE CameraContract WITH
    Gapless <- FALSE, Ascends <- FALSE,
    phase   <- CASE stage = "up" -> "up"
                 [] stage \in {"failed", "faulted"} -> "failed"
                 [] OTHER -> "down",
    grid    <- GridRows * GridCols,
    frames  <- IF stage = "up" THEN [k \in DOMAIN delivered |->
                                       [t_ns     |-> delivered[k].t_ns,
                                        sequence |-> delivered[k].sequence,
                                        support  |-> delivered[k].support,
                                        room     |-> Capacity]]
               ELSE <<>>

WebcamKeepsContract == WebcamContract!BackendSpec
=============================================================================
