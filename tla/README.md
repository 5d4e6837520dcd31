# sparse-camera in TLA+

sparse-camera captures frames from cameras, reduces each to a sparse set of
lit sites, and sends them over ZeroMQ to one consumer that checks what arrives.
`src/src/c` holds the library and one program, `smoke.c`, that runs the whole
pipeline in one process: a thread per camera that captures and publishes, and
the main thread that drains, checks, reports and decides the exit status.
This directory is a TLA+ specification of that code: modules translated from
the C sources, TLC runs over small instances of them, and theorems about them
that TLAPS proves for every value of their constants.

    tlc -workers 2 -config sink.cfg MCSink     # a run
    tlapm SinkProofs.tla                       # a proof module

`PROJECT.json` lists the components, the runs with their properties, for each
property a mutated definition that breaks it, the source lines of every
definition, the hazards, the findings and the theorems.

## 1. Inventory

| component | source | state | operations | module |
|---|---|---|---|---|
| frame container | `frame.{c,h}` | two heap arrays, `capacity`, `count` | `new_frames`, `del_frames`, `frame_reserve`, `frame_reset` | `Frame`, `FrameContract` |
| wire format | `wire.h` | none | pack, peek, unpack | `Wire` |
| sink | `sink.{c,h}` | camera table, registered table, counters, decode frame, PULL socket | `sink_new`, `sink_expect`, `sink_recv`, `sink_report`, `sink_del` | `Sink`; new/del in `Startup` |
| publisher | `camera.{c,h}` | frame, scratch buffer, PUSH socket, `sent`/`dropped` | `camera_new`, `camera_tick`, `camera_del` | `camera_tick` in `Smoke`, the others in `Startup`; the interface in `CameraContract` |
| run loop | `smoke.c` | `g_stop`, `cam_thread_t` per thread, `quiet`, `timed_out` | `main`, `cam_run`, `build_cameras`, `cams_release` | `Smoke`, `Startup`, `Config` |
| mock backend | `mock_camera.{c,h}` | next deadline, sequence, `up` | create, init, acquire, deinit, destroy | `MockCamera` |
| V4L2 backend | `v4l2_webcam.{c,h}` | descriptor, mapped buffers, debug frame | create, init, acquire, deinit, destroy | `V4l2` |
| config reader | `ini.{c,h}` | sections of key/value pairs | `ini_load`, `ini_get*`, `ini_check_keys`, `ini_free` | `Ini`; `ini_load` and `ini_free` in `Startup` |
| configurations, scripts, Makefile | `configs/`, `scripts/` | - | - | not modelled |

**Interactions.** A camera's thread calls `interface->acquire` (a table of
three callbacks that hides the backend), packs the frame into its own scratch
buffer and sends it without blocking. ZeroMQ carries it from the PUSH socket's
queue to the sink's. The main thread receives, decodes into *one* reused frame
and checks against the table that `build_cameras` filled. Camera threads and
main share `g_stop`, `cam_thread_t.rc` and `cam_thread_t.ticks` without a lock.
Backends are shared with nobody; the frame container is used by publisher and
sink.

**What is hard, and what makes each part correct.**

- *Frame container.* Two reallocations in a row, either of which may move a
  block or fail. Right: the heap holds exactly what the frame owns, and both
  arrays have room for `capacity` entries.
- *Wire format.* A count from the outside decides how much is read and written.
  Right: what was packed is what is unpacked, and nothing else is accepted.
- *Sink.* Frames of many cameras interleave; each is only compared with its
  predecessor; the table is finite; numbers are unsigned; the decode frame grows
  in the middle of a receive. Right: the counters and the verdict agree with the
  streams as they were sent.
- *Publisher and run loop.* Every interleaving of N threads, main, the queues,
  SIGINT, a watchdog and a `pthread_create` that fails; unlocked reads; five
  ways out of the drain loop. Right: nothing is lost or doubled on the way,
  every reported loss is real, every run ends, nothing is released in use.
- *Mock backend.* A thread that wakes late. Right: no backlog, never ahead of
  its fps, ascending stamps, sites inside the grid in 32-bit arithmetic.
- *V4L2 backend.* Buffers alternate between two owners, one of which runs
  concurrently; initialisation has eight steps that may fail. Right: no buffer
  is lost or has two owners, a frame shows the image of its number, a release
  leaves nothing.
- *Config reader.* Fixed tables, a current section, conversions of `libc` that
  wrap, saturate or take signs. Right: at every line the sections say what the
  lines read so far say, the first line that does not fit is the one that fails,
  and what a setting means to one reader it means to the other.
- *Startup and release.* Some twenty acquisitions, each of which may fail, and
  five exits. Right: each exit releases everything, users before what they use,
  and does not block in `zmq_ctx_destroy`.

## 2. The modules and the code

    FrameContract <-- implemented by -- Frame        (ContractKept, run frame)
          ^
          | INSTANCE (decoded)
    Wire <-- Sink <-- INSTANCE -- Smoke  <.. step "Run" of .. Startup
                                    :                            |
                                    : a camera of                v EXTENDS
                                    v                          Config --> Ini
    CameraContract <-- implemented by -- MockCamera   (MockKeepsContract)
                   <-- implemented by -- V4l2         (WebcamKeepsContract)

Solid arrows are EXTENDS or INSTANCE. The dotted ones are boundaries kept by
statement: `Startup!ReadyToRun` says of the state in which `Startup` takes its
step `Run` what `Smoke!Init` assumes (all cameras built, streaming, distinct
ids, the table complete); `Smoke!Termination` justifies that `Run` is one step
that ends; and what `Smoke` takes a camera to do is what `CameraContract` says
of a backend (the mock numbers without a gap and stamps in ascending order, the
webcam numbers in ascending order and its stamps are its driver's).

**`FrameContract`, `Frame`.** `FrameContract` is what `frame.h` promises an
owner: a record with `capacity`, `count` and `room`, the entries both arrays
really hold. `Reserve` is a set of outcomes, one for each way `frame_reserve`
may end. `Frame` is `frame.c` on a heap of blocks: `malloc` picks a free block,
`realloc` keeps or moves, and each may fail; a new frame that is refused one of
its arrays gives the other one back. The refinement mapping takes `room` to the
smaller of the two blocks, 0 when a pointer dangles.

**`Wire`.** Messages are records: the header's fields, the length ZeroMQ reports
and the payload as words instead of bytes. A signal value is its numerator over
255, any other integer standing for a value outside [0, 1], not finite
included. `Pack`, `Peek`, `UnpackStatus`, `Unpacked` are `wire.h`'s functions;
their tests keep the code's order, since the first that fails names the status.

**`Sink`.** `SinkExpect` and `RecvMessage` are `sink_expect` and `sink_recv`
once a message is there. `RecvMessage` makes the whole call: decode, grow,
decode again (`Decodings`), count, `cam_find` and the checks (`Validate`).
`Failed` is the test of `sink_report`. `heard` and `refused` are histories that
only properties read. A growth of the decode frame may fail in both ways of
`FrameContract`; the one that leaves a freed array ends the model (`Usable`),
since all that follows is undefined. Times are in any unit, the tolerance in
percent so that the comparison stays in integers; sequence numbers are naturals
(fewer than 2^64 frames), and `Lost \in Nat` is where a wrap would show.

**`Smoke`.** `main` from the first `pthread_create` to the end of
`cams_release`, and `cam_run` with `camera_tick` in each thread. `thread[c].at`
is where a thread is; the unlocked fields `ticks` and `rc` are written one step
after the send, so main may read between. Main's label `pc` follows its loop:
head, receive, scan, then stop, join, report, release. `Sink` is INSTANCEd with
the state of `Smoke` as its variables, so a receive is `Sink!RecvMessage`.
A camera outside `Webcams` is a mock (never a timeout, error or gap, stamps that
ascend); a camera in it may time out, fail or have frames skipped at any time,
and its stamps are any of `DriverStamps`, a 0 being replaced by the time as in
`camera_tick` (`Stamps`). main's scan reads one camera per step (`ScanCamera`),
so threads run between its reads, and `Decide` is what follows it.

**`MockCamera`.** `Create`, `MockInit`, `MockDeinit`, `Destroy`, and `acquire`
in two steps around its sleep. The clock is a variable that any number of steps
may advance, so a wake may be late by any amount. `Word` is 2^32.

**`V4l2`.** `V4l2Init` enumerates where initialisation may stop and what it then
leaves, the first time and after each `V4l2Deinit`; `Fill` and `Skip` are the
driver; `Dequeue` and `Requeue` are the two halves of `v4l2_acquire`, with the
image read from the buffer's memory in between, while the driver goes on;
`Release` is `v4l2_release`. A frame carries the stamp of its buffer, which is
whatever the driver gave it. `Sparse` is `yuyv_to_sparse`, cell by cell; the
property compares it with `SitesOf`, which goes from pixels to cells. The mean
of a cell is a `float`: the sum and the number of pixels are each rounded to
`Precision` bits (24 in C) and so is their quotient (`ToFloat`,
`QuotientAbove`), so a mean barely above the threshold may round to it and give
no site, as in the code. A cell without pixels would be 0/0, which is not below
anything: the guard `n == 0` is the first conjunct of `Bright`.

**`CameraContract`.** The comment on `camera_interface_t` in `camera.h`, with
the things that the rest of the code relies on: the sites of a frame are cells
of the grid whose size `max_sites` told *before* init (`build_cameras` makes the
frame's capacity and the sink's bound of it), numbers ascend (`sink_validate`),
and so do the stamps of a backend that makes them itself (`Ascends`; the mock).
Of a driver's stamps nothing is promised. Both backends implement it; their
refinement mappings are at the end of their modules.

**`Ini`.** The pure part of `ini.c`: which lines are refused (`LineRefused`, by
the tests of the code), what any other line does to the sections (`Taken`), and
the lookups. A lookup gives the set of values it may return, empty when it
fails. A number is a fraction n/d, d = 0 standing for nan and the infinities;
`strtoul` is modelled with its sign and its wrap.

**`Config`.** What `smoke.c` makes of the sections: `load_sink_conf`,
`mock_from_ini`, `v4l2_from_ini`, `parse_grid` with the truncation of `sscanf`,
the tests and defaults of each key, the period and the number of sites.

**`Startup`.** `main` before and after the threads. The state is the set of
resources the process holds and the data made of the file; each acquisition is a
step that succeeds or goes to the exit the code goes to. `ReadLine` is one round
of the loop of `ini_load`, `ReadNoMore` the `fgets` that delivers nothing (the
end of the file or an error of reading, which the code does not tell apart),
`ReadFails` its exit. `build_cameras` is a loop over the sections that were
read: `BuildSkip`, `BuildRefuse`, `BackendCreate`, then the steps of
`camera_new`. The way back is as fine: `camera_del` is five steps
(`CameraDeinit` to `CameraFree`), whether `camera_new` gives a camera up or
`cams_release` visits its slot, `sink_del` is four (`SinkClose` to `SinkFree`),
and both calls of `zmq_ctx_destroy` wait for the sockets of their context.
`specs`, `backends` and `capacity` are the table of the sink, the settings each
backend was created with, and the capacity of each frame.

`MC*` modules only hold the sets the configurations use. `*Proofs` modules hold
the theorems about the module they are named after, and `DataLemmas` the lemmas
about numbers, sequences, finite sets and sums that they share (section 7).

## 3. The runs

`CHECK_DEADLOCK FALSE` is given where the objects of a bounded life or the
bound of the model stop the system (`frame`, `sink`, `mock_camera`, `v4l2`);
`Smoke` and `Startup` check deadlock and only stutter after the exit.

| run | question | bounds |
|---|---|---|
| `frame` | does the heap hold what the frame owns, and do the arrays implement the contract, in every order of operations and failures? | 4 blocks (two arrays and two to move to), capacities 0..3 |
| `sink` | do counters, verdict and table agree with the streams, with more cameras than slots and growth that fails either way? | 3 cameras for 2 slots; 4 messages: numbers 0..2, stamps 1, 2, 5, 1 to 3 sites, a value out of range, every malformed kind; 3 tables |
| `smoke_count` | does a run of a given number of frames end, and is what it reports true? | mock and webcam, 3 ticks each, queues of 1, a driver whose stamps stand still |
| `smoke_forever` | does each other way out end the run, and release nothing in use? | mock and webcam without a number of ticks, one frame or skip each, SIGINT, watchdog, failing `pthread_create`, one foreign message |
| `mock_camera` | pacing, stamps and band with a thread that may be late | clock to 10, 4 frames, 3 valid shapes and 4 refused ones, words of 8 values |
| `v4l2` | are buffers conserved, frames true, releases complete? | 0..3 buffers, image of 3 x 2 pixels to 2 x 3 cells, one column of them without pixels, floats of 3 bits, 4 frames a session, 3 images, 2 stamps, capacity 3 of 6 cells |
| `startup` | do the sections say what the lines say, is the system that starts the one the file describes, and does each exit release everything in order and return? | 130 files, 2 slots, 4 sections, 5 keys, words of 2^15 values (2^30 for `unsigned long`), the reading cut off after any line |
| `frame_usable`, `sink_jitter`, `sink_overflow`, `smoke_quiet`, `startup_preamble` | findings, section 6 | |

**Why the bounds suffice.** The sink compares a frame with one predecessor of
its camera, so two frames of one camera interleaved with two of another (4
messages) contain every pair of checks, and a number 0..2 has a repeat, a step
back, a step on and a gap. The third camera finds the table full. The stamps lie
1, 3 and 4 apart, for a period of 2 and half of it as tolerance both ends of the
band and beyond it. In `Smoke` a queue of one is the limit that real high water
marks reach after more frames; with three ticks a frame can wait in each of two
queues, be dropped, and be followed by another one, the gap that the sink then
counts. The driver skips frames in `smoke_forever` only, where a run has no end
of its own; a skip that the sink sees as a gap needs more frames than that run
has, and is covered by the theorem. A band of 6 cells in words of 8 values
overflows as 2^32 does for a grid above 2^31; shapes of 3 and 4 cells do not. A
3-row image on 2 rows of cells has blocks of unequal size, and 3 columns of
cells for 2 of pixels leave cells empty; with floats of 3 bits a mean of 4.5
rounds to the threshold 4, as 32 + 2^-20 does to 32 with 24 bits. 2 is the least
number of buffers the code accepts, 3 leaves some in each place. A table of 2
slots is full and overfull with 2 and 3 sections. The files of `startup` hold
each kind of line that `ini_load` refuses, each setting that is refused with its
neighbours that are accepted (a number at each end of its range, nan, infinite,
negative, an empty value, a key of the other backend), once before and once
after a camera that is in order; words of 2^15 values are enough for every
default to fit and for 200 x 200 cells not to.

**Mutants.** Each (run, property) has a mutated definition, written in the
module just before the original, in the form of a plausible slip: a guard
dropped, an index off by one, a reset forgotten, an order swapped. With the
mutant in its place TLC finds the property violated under the same
configuration.

## 4. Properties worth knowing

- `VerdictMatchesStreams` (sink): PASS if and only if something arrived, all of
  it parsed, all of it from configured cameras, and every stream is whole and in
  bounds. `PassIsSound` is the direction that holds for any number of cameras.
  `LossIsExact`, `JitterIsExact`, `CountsAddUp`: the numbers of the report
  against the streams.
- `FramesConserved` (smoke): at every moment, what a camera sent is what the
  sink has checked and what is under way, in order; each number the driver gave
  out was sent, dropped, skipped or is about to be sent.
- `LossesAreReal`: the sink reports no more loss than there was, and a run of
  cameras alone fails only for a loss or for a driver whose stamps do not
  ascend.
- `TotalMeansEveryFrame`, `QuietMeansNobodySends`: the two ways out of the drain
  loop mean what main takes them to mean.
- `SpawnFailureFails`: nothing remembers that `pthread_create` failed; the run
  fails because the loop is skipped and nothing is received.
- `Termination`, `StopEndsRun`, `DeadlineEndsRun`: every run ends.
- `OneMoreReceive`: however many messages wait, main returns from at most one
  more `sink_recv` after the deadline. The liveness properties cannot say this,
  since cameras of a bounded model fall silent at last; `late` counts the
  returns.
- `NoBacklog`, `NeverAhead` (mock): three frames in a row span a period; frame k
  comes no earlier than k periods after init.
- `MockKeepsContract`, `WebcamKeepsContract`: the backends implement
  `CameraContract`, through every order of create, init, failure, deinit and
  another init.
- `PoolConserved`, `FramesAreImages`, `GapsAreSkips` (webcam).
- `ReaderIsExact` (startup): the meaning of a file is stated by the places of
  its lines (the last header before a line, the settings between two headers,
  the how-manieth header a line is), without sections; the reader must agree
  with it at every line, and fail at exactly the first line that does not fit.
- `ReadyToRun`: when the threads start, the cameras are those the file switches
  on, in its order. Each setting is compared with the line that gives it, or
  with its default where there is none: of the sink `endpoint`, `frames`, `tol`,
  `timeout_s` and `verbose`; of a camera `backend`, `id`, both sides of `grid`
  and `fps`, by way of the period; of a mock `sites`; of a webcam `device`, both
  sides of `resolution`, `threshold`, `buffers` and `timeout_ms`; and no key is
  there that its backend has no use for. Three numbers made in three places
  agree: the geometry of the backend, the capacity of the frame and the sink's
  bound; and so do two more, the period the mock paces itself to and the one the
  sink expects.
- `NothingLeaks`, `UsersGoFirst`, `AlwaysReturns` (startup): every exit, call by
  call: a device before its camera, a camera before its backend, a socket before
  its context, the parts of the sink before the sink. The last one also says
  that status 2 means that no thread ever ran.

## 5. Fairness and other assumptions

`Smoke!Fairness` is weak fairness of main's steps, of each camera's thread and
of the delivery of each connection. Threads are scheduled; `acquire` returns,
because the mock sleeps to a deadline and the webcam polls with a timeout
(2000 ms unless configured); ZeroMQ delivers what it has accepted while both
ends live. Nothing is assumed of losses, errors, foreign messages, SIGINT or
the clock: those actions are outside of every fairness condition, `RecvError`
included. `Startup!FairSpec` is weak fairness of main's one thread: calls
return, except `zmq_ctx_destroy`, whose guard, at each of its two calls, is that
no socket of its context is open.

Further assumptions:

- *Memory model.* `ticks` and `rc` are plain fields read by main while threads
  write them. Smoke takes reads and writes as sequentially consistent and
  explores their interleavings. They only grow or are set once.
- *One camera, one read.* The scan takes one step per camera, between which all
  threads go on. The reads of `rc` and `ticks` of the same camera are one step:
  `ticks` no longer changes once `rc` is set.
- *Stamps of a webcam* are any of `DriverStamps`; `v4l2_acquire` only warns when
  the driver's clock is not the monotonic one.
- *External parts.* ZeroMQ (bounded, ordered, lossless after acceptance, of any
  latency) and the V4L2 driver (numbers every frame, owns a buffer from QBUF to
  DQBUF) are modelled as the code relies on them.
- *Foreign messages* do not bear the id of a configured camera; one that did
  would be taken for that camera's, which is what the sink's design says.
- *A QBUF that fails* after a frame was decoded is, for Smoke, a skip followed
  by an error of `acquire`.
- *Width.* `Frame` takes capacities below 2^32; that its callers keep to it is
  part of `Startup!ReadyToRun`.
- *Lines.* A line of `Ini` is what one `fgets` delivers, without its comment and
  trimmed. The characters of names and numbers are not modelled.
- *`acquire` returns* unless `timeout_ms` is 2^31 or more: the cast to `int` at
  `v4l2_webcam.c:454` makes it negative, and `poll` then waits for ever. A
  webcam configured so is outside of `Smoke!Fairness`.

## 6. Findings

Each is a run that TLC ends with a counterexample to what the repository says.

- `frame_usable`: when the second `realloc` of `frame_reserve` fails, the first
  may have moved its block; the frame keeps the freed pointer. `frame.h:44` says
  the frame is left usable. In the sink (`FrameFits`, checked and proved with
  this failure among the others) the message whose growth fails so is not handed
  on and fails the run, but `sink_recv` would decode the next one into the freed
  array; the models stop at that point.
- `sink_jitter`: the verdict ignores `jitter`, whereas `README.md:85` and
  `smoke.c:11` say that any failed check makes the exit status non-zero, and
  `sink.h:10` lists the cadence among the checks.
- `sink_overflow`: with the camera table full, an unconfigured camera is neither
  counted in `unexpected_cams` nor checked, and the run passes.
- `smoke_quiet`: a camera that sends its last frame between main's last empty
  poll and main's scan makes main leave with the frame on its way; the comment
  at `smoke.c:562` says nothing is still arriving. The run has messages arrive
  as soon as they are sent (`Prompt`), so latency is not the cause.
- `startup_preamble`: `ini.h:7` says that everything before the first section is
  ignored; `ini.c:193` refuses a key there (and `ini.c:179` other words).

Observed while reading, and not made runs:

- `sink.h:66` says that `sink_expect` replaces any previous table; a camera that
  was seen before keeps its bounds. `main` calls it once, before any frame.
- A driver whose stamps stand still fails a run that lost nothing, with
  `backwards` (`LossesAreReal` names that case).
- `ctx->streaming` of the webcam is never set, so `STREAMOFF` is never issued;
  closing the device ends the stream.
- After a failed `mmap` the release passes `MAP_FAILED` to `munmap`, which the
  system refuses.
- `fgets` splits a line longer than its buffer: the tail of a long comment is
  parsed as a line, and from there on the line numbers of messages are too high.
- An error of reading is taken for the end of the file, so the program may run
  on a part of its config.
- `ini_get_u32` accepts the negative numbers from 1 - 2^64 to -(2^64 - 2^32) and
  wraps them; `parse_grid` reduces each side modulo 2^32 (`4294967297x2` is 1 by
  2). `ReadyToRun` therefore only speaks of numbers of 32 bits.
- Text after `]`, and unknown keys in sections that are switched off or belong
  to nobody, are ignored without a word, against `ini.h:11`.
- `tol = nan` passes the test of `load_sink_conf`, and no frame is then outside
  of its cadence; a webcam's `fps` of nan or less than 0 disables that check too
  (for 0 this is intended).
- `v4l2_max_sites` is 0 before init when no grid is set; `build_cameras` would
  refuse such a camera, and `v4l2_from_ini` never makes one.
- Frames missing before the first or after the last one received leave no gap,
  and an error of a camera's thread is printed and is not part of the exit
  status: `LossesAreReal` has no converse.

## 7. What is proved

Every invariant and every action property that a passing run checks is a theorem
of its specification, and so are the three refinements:

| module | theorem | property |
|---|---|---|
| `WireProofs` | `PackRoundTrip`, `UnpackRoundTrip` | unpacking what was packed gives the frame back, and packing what was unpacked the message |
| | `AcceptedFits` | an accepted message is read and written inside its bounds, whatever its header says |
| `FrameProofs` | `HeapAlwaysOwned` | `HeapOwned` |
| | `ArraysKeepContract` | `ContractKept` |
| | `FirstFailureIsHarmless` | the finding `frame_usable` has one cause, the second `realloc` |
| `SinkProofs` | `SinkTypeCorrect` | `SinkTypeOK` |
| | `TableCorrect`, `CountersTrustworthy` | `TableTracksStreams`, `CountersTellTruth` |
| | `PassSound`, `VerdictAlwaysExact` | `PassIsSound`, `VerdictMatchesStreams` |
| | `CountsAlwaysAddUp`, `LossAlwaysExact`, `JitterAlwaysExact` | `CountsAddUp`, `LossIsExact`, `JitterIsExact` |
| | `EnoughSlots` | with no more cameras than slots, each that speaks has one |
| | `FrameAlwaysFits`, `WidthNeverRefused` | `FrameFits`, `WidthRefusedOnlyWithoutMemory` |
| `SmokeProofs` | `SmokeTypeCorrect` | `TypeOK` of `Smoke` |
| | `FramesAlwaysConserved`, `LossesAlwaysReal` | `FramesConserved`, `LossesAreReal` |
| | `TotalAlwaysMeansEveryFrame`, `QuietAlwaysMeansNobodySends` | `TotalMeansEveryFrame`, `QuietMeansNobodySends` |
| | `NeverUsedAfterRelease`, `SpawnFailureAlwaysFails` | `NoUseAfterRelease`, `SpawnFailureFails` |
| | `AlwaysOneMoreReceive` | `OneMoreReceive` |
| `MockCameraProofs` | `StampsAlwaysAscend`, `NeverABacklog`, `NeverRunsAhead` | `StampsAscend`, `NoBacklog`, `NeverAhead` |
| | `BandAlwaysAccepted` | `BandAccepted` |
| | `MockIsBackend` | `MockKeepsContract` |
| `V4l2Proofs` | `V4l2TypeCorrect` | `V4l2TypeOK` |
| | `ReleaseIsComplete`, `PoolAlwaysConserved` | `NothingLeft`, `PoolConserved` |
| | `GapsAreAlwaysSkips`, `FramesAreAlwaysImages` | `GapsAreSkips`, `FramesAreImages` |
| | `WebcamIsBackend` | `WebcamKeepsContract` |
| `StartupProofs` | `StartupTypeCorrect` | `TypeOK` of `Startup` |
| | `NothingEverLeaks`, `UsersAlwaysGoFirst` | `NothingLeaks`, `UsersGoFirst` |
| | `ReaderAlwaysExact` | `ReaderIsExact` |
| | `AlwaysReadyToRun` | `ReadyToRun` |
| | `StatusAlwaysTells` | at the exit the status is 2 exactly when no run was made |
| | `NeverWaitsForSockets` | no socket of its context is open at either `zmq_ctx_destroy`, which would wait for it |

They hold for every value of the constants that the ASSUMEs of the modules
allow: any number of cameras, slots, buffers, messages and lines, any table,
image, geometry, clock and config file. The ASSUMEs only give the constants
their types. Eight results have a premise on top of them:

| premise | of | why it holds of the program |
|---|---|---|
| `"signal" \notin MayFail` | `FirstFailureIsHarmless` | it does not: the theorem says that the finding `frame_usable` has no other cause |
| `IsFiniteSet(CameraId)` | `CountsAlwaysAddUp`, `VerdictAlwaysExact`, `LossAlwaysExact`, `JitterAlwaysExact` | an id is a `uint32_t` |
| `SlotsForAll` | `EnoughSlots` | no more cameras than slots, which `build_cameras` sees to; with foreign cameras beyond that see the finding `sink_overflow` |
| `~ExpectAnytime` | `VerdictAlwaysExact`, `JitterAlwaysExact` | `main` calls `sink_expect` once, before it receives |
| `Strangers` | `FramesAlwaysConserved` | no foreign message bears the id of a camera of the run (section 5) |
| `GridRows * GridCols # 0` | `WebcamIsBackend` | `parse_grid` refuses a side of 0, so `v4l2_from_ini` never leaves the grid unset |

(`LossesAreReal` and `TotalMeansEveryFrame` have their premise, that no foreign
message was received, in the property itself, and so have the exact properties
of the sink, that every camera that spoke has a slot.) TLC checks an instance of
each premise but the first and `SlotsForAll`: the run `sink` has more cameras
than slots, so that `AllSeated` is true in some of its states and false in
others.

### The arguments

*The wire* needs no invariant: the header and the payload of a packed frame pass
each test of `Peek` and `UnpackStatus` in turn, and the prefix of the arrays up
to `count` is what is read back. In the other direction the test of the length
in `Peek` is the whole argument: it makes the words of the message twice its
`count`, so the two halves that are read are all of it. A `version` below the
current one is accepted and is the one thing that is not kept.

*The frame container.* `FrameInv` says what a frame that does not dangle owns:
two different live blocks and no other, `signal` of exactly `capacity` entries
and `support` of at least as many. It is not enough to say that both have room:
that `signal` is exact is what a `Reserve` that fails half-way relies on.
`ArraysKeepContract` maps each step to one of `FrameContract`, taking a dangling
pointer to a room of 0.

*The sink: streams.* The code compares a frame with one remembered frame, and
the properties speak of whole streams. The bridge is `TableInv == SinkTypeOK /\
TableTracksStreams /\ CountersTellTruth`: each slot remembers the *last* frame
of its own stream (which needs that no camera has two slots, and that a slot is
only taken while no other holds the id), so a check between a frame and its slot
is a check between neighbours of the stream; a stream whose neighbours are
contiguous or ascending is so as a whole (`AppendContiguous`,
`AppendAscending`). `PassIsSound` follows, since PASS means that the counters
are 0.

*The sink: exact verdict.* The converse, that counters only rise for a reason,
needs three more parts. `Counting` relates the totals to the streams, so that
"nothing received" and "no camera" agree; `Registered` says that a slot has the
bounds of its own camera, true only while the table cannot be replaced after the
first frame; `Innocent` says that whole streams leave each counter at 0.

*The sink: sums.* `LossIsExact`, `JitterIsExact` and `CountsAddUp` are sums over
the cameras, written with a fold. The prover has no induction over a set, so
`DataLemmas` measures a sum as the size of a *pile*: F[x] entries on every x
(`Pile`). `SumIsPile` identifies the fold with the size of the pile by a least
counterexample, and `PileChanges` says what becomes of it when one stack grows,
which is all a step does. With that, `LossCounted` and `JitterCounted` are
inductive next to `TableInv`: a frame adds to its own stack what `sink_validate`
adds to the counter.

*The decode frame.* `RoomForCapacity` (capacity never exceeds the real room as
long as there is one) is inductive although a message that does not fit leaves
its `count` behind; only an accepted decode hands the frame on, and that has
tested the count. That a wide message is never refused needs the second attempt:
after a growth that succeeded, `UnpackStatus` cannot say "capacity" again.

*The run.* `SmokeInv` has five parts. `Phases` is where main is: threads exist
from 1 to some k, and where one is missing the drain loop is skipped with
nothing received, so `Failed` holds (`SpawnFailureFails`). `Threads` is where
each thread is: none runs at `release`, since main has joined all that were
created, and none that the scan has passed is `Producing`, since a thread that
has stopped never starts again, so none is when the scan has passed them all.
`Deadline`, next to them, counts the returns of `sink_recv` (`OneMoreReceive`).
`Queues` says whose messages a connection carries, and includes the `TableInv`
of the sink, of which `SmokeProofs` takes an INSTANCE. `Way` follows the
numbers: what travels and what was heard together are as many as were sent, they
ascend, and each number the driver gave out is sent, dropped, skipped or in the
hand of the thread; the bound on place i (`i - 1 <= number < i + losses`) is the
strengthening that lets the gap the sink sees be compared with the losses before
the frame. `Verdict` compares the sink's sums with those of the streams (piles
again) and says that without a foreign message no other counter rises. `Flags`
and `Mail`, the types of the rest, need the other five.

*The mock.* `NoBacklog` is not inductive. `Paced` is the strengthening: the next
deadline lies after the last stamp, at least a period after the stamp before
it, and at least (frames + 1) periods after init. Since a wake is never before
its deadline, each of the three properties is one of its conjuncts one step on.
The band needs arithmetic of `%`: with twice the grid below 2^32 the sum does
not wrap, and two cells less than a grid apart have different remainders.
`MockIsBackend` maps every step to one of `CameraContract` or to a stutter.

*The webcam.* `V4l2Inv`: what is mapped is what the table says (`Stages`), every
buffer of the cycle is in one place (`Apart`) and, while the camera streams, in
some place (`Everywhere`), with the lengths of the queues adding up to their
number; sequence numbers ascend along the way (`Order`); and what travels under
a number is the image captured under it, in memory first and as its sites at the
end (`Faithful`). `Apart` is what keeps `Faithful`: the driver only writes into
buffers that nobody waits for or reads. `yuyv_to_sparse` gives no cell too few
or too many by arithmetic: the bounds of the blocks tile the image, so each
pixel belongs to one cell (`CellRange` and the lemmas after it), a block without
pixels is nobody's cell, and the cells above the threshold have one ascending
list. How a mean is rounded plays no part in that, so the theorem holds at every
precision; that `QuotientAbove` is the comparison of the C code is left to the
reading of its definition.

*The start: resources.* `StartupInv` says for each place of `main` what `main`
and the sink hold (`MainHeld`), what each slot holds (`SlotsHeld`: complete
below `n`, at the slot that is being filled exactly what `camera_new` has got so
far, nothing above), and the ranges of the loops (`Counters`). During the
release a slot is only `Sound`: what is left of a camera that was given up holds
nothing without what it uses. That `cams_release` visits *all* slots after a
failure and `n` after a run is where the two halves of `SlotsHeld` meet. What
`main` holds at `ctx_destroy` is then the config, the sink and its own context,
and no slot holds anything: `NeverWaitsForSockets`.

*The start: the reader.* `Faithful` says that section i is the i-th header and
pair j of it the j-th setting of that header, counted by places among the lines
(`Place`). That names and keys differ is not part of it: it follows from the
lines, which all fit (`AllFit`), and it is what makes the first match of
`ini_get` the only one (`Lookup`). `RefusedIffUnfit` shows, test by test, that
`ini_load` refuses exactly the lines that do not fit.

*The start: the table.* Each conversion gives what the file says or the default
(`StrSays`, `U32Says`, `F64Says`, `EnabledSays`, `GridSays`). `TableInv` of
`StartupProofs` says that at section i the table holds the cameras before i that
are on, camera h in slot `Place(h, Cams)`, made of its own section
(`CameraMade`), and that the camera being built was compared with all ids before
it (`CameraInWork`). At `run` there is no section left, so no camera is missing,
and `CameraMade` with the conversions is `CameraSaid`; the products and
quotients of the grid and of the period are in `BuiltType` and `PeriodRounded`.

### Only model-checked

- Liveness: `Termination`, `StopEndsRun`, `DeadlineEndsRun` (smoke),
  `AlwaysReturns` (startup). They need fairness and ENABLED, which the prover
  does not handle. The safety half of `AlwaysReturns` is proved
  (`StatusAlwaysTells`, `NeverWaitsForSockets`); what stays is that the end
  comes.
- The five findings, which are counterexamples.
- The boundary between `Startup` and `Smoke` (section 2): `ReadyToRun` is proved
  of the one and `Smoke!Init` assumes it of the other; no formal step joins
  them.

## 8. Not modelled, and the plan

Not modelled: the configurations and scripts, the statistics that are only
printed (`dt_*`), the wording of messages, the splitting of text into names and
numbers (`trim`, `strip_comment`, `strtod`), the content of the debug frame and
`v4l2_ctx_get_format` (they only read), the luminance of the mock's sites, the
addresses and file names in a config, the conversion of a period beyond 64 bits.

The order followed was the path of a frame (container and wire format, sink, the
concurrent run), then the backends and what builds and releases it all, then the
config that it is built from, then the proofs. Every component that keeps state
is modelled, and every safety property that is checked is proved. What is
left is the step from `ReadyToRun` to `Smoke!Init`: the two modules share no
variables, and a module that composes them would join them by a mapping of one
exit state to one initial state.
