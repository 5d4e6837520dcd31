------------------------------ MODULE MCStartup ------------------------------
(***************************************************************************)
(* Instance of Startup for TLC: a table of two slots, files of up to four  *)
(* sections and five keys each, and words of 2^15 values, so that the      *)
(* defaults fit, 200 x 200 cells do not, and nothing passes the integers   *)
(* of TLC.  Each reason to refuse a file occurs once before and once after *)
(* a camera that is in order.                                              *)
(***************************************************************************)
EXTENDS Startup

Cam(name, backend, id, more) ==
  <<Header(name), Pair("backend", Name(backend)), Pair("id", Number(id, 1))>> \o more

MockCam(more)   == Cam("cam.b", "mock", 1, more)
WebcamCam(more) == Cam("cam.b", "v4l2", 1, more)

SinkPart == <<Header("sink"), [kind |-> "blank"]>>
Plain    == <<Header("cam.a"), Pair("backend", Name("mock"))>>

NaN      == Number(0, 0)
Infinite == Number(1, 0)

\* One setting of a mock, accepted or refused.
MockSettings ==
  {Pair("fps", x) : x \in {Number(60, 1), Number(1, 2), Number(0, 1), Number(-1, 2),
                           NaN, Infinite, Number(2 * Second, 1), Name("fast")}}
    \cup {Pair("sites", x) : x \in {Number(9, 1), Number(0, 1), Number(Word, 1), Number(-5, 1),
                                    Number(1 - Long, 1), Number(1, 2)}}
    \cup {Pair("grid", x) : x \in {Grid(3, 5), Grid(0, 5), Grid(Word + 1, 2),
                                   Grid(200, 200), Grid(-1, 1), Number(64, 1), Empty}}
    \cup {Pair("enabled", x) : x \in {Name("off"), Number(1, 1), Name("maybe")}}
    \cup {Pair("gird", Grid(3, 5)), Pair("device", Name("/dev/video1"))}

WebcamSettings ==
  {Pair("fps", Number(60, 1)), Pair("fps", Number(0, 1)), Pair("fps", NaN),
   Pair("device", Name("/dev/video1")), Pair("device", Empty),
   Pair("resolution", Grid(120, 160)), Pair("resolution", Name("large")),
   Pair("grid", Grid(2, 2)), Pair("threshold", Number(255, 1)),
   Pair("threshold", Number(256, 1)), Pair("buffers", Number(1, 1)),
   Pair("buffers", Number(2, 1)), Pair("timeout_ms", Number(0, 1)),
   Pair("sites", Number(9, 1))}

\* Sections of a second camera that are refused before its backend is asked.
Unasked ==
  {Cam("cam.b", "mock", 0, <<>>), Cam("cam.b", "webcam", 1, <<>>),
   <<Header("cam.b"), Pair("id", Number(1, 1))>>,
   <<Header("cam.b"), Pair("backend", Empty)>>,
   <<Header("cam.b"), Pair("backend", Name("mock")), Pair("id", Name("one"))>>}

\* Lines that ini_load refuses, after a camera's section has begun.
BadLines ==
  {<<[kind |-> "words"]>>, <<[Header("cam.c") EXCEPT !.closed = FALSE]>>,
   <<Header("")>>, <<Header("long")>>, <<Header("cam.b")>>,
   <<Header("x"), Header("y"), Header("z")>>,
   <<Pair("", Name("on"))>>, <<Pair("long", Name("on"))>>, <<Pair("grid", Name("long"))>>,
   <<Pair("id", Number(2, 1))>>,
   [i \in 1 .. 4 |-> Pair(<<"fps", "grid", "sites", "more">>[i], Number(i, 1))]}

SinkSettings ==
  {Pair("frames", Number(0, 1)), Pair("frames", Name("all")), Pair("tol", NaN),
   Pair("endpoint", Name("tcp://*:5555")), Pair("tol", Number(1, 4)),
   Pair("tol", Number(0, 1)), Pair("timeout_s", Number(0, 1)),
   Pair("verbose", Name("no")), Pair("verbose", Name("loud")),
   Pair("endpoint", Empty), Pair("frame", Number(9, 1))}

SecondCamera ==
  {MockCam(<<p>>) : p \in MockSettings} \cup {WebcamCam(<<p>>) : p \in WebcamSettings}
    \cup {MockCam(more) : more \in BadLines} \cup Unasked

MCFiles ==
  {SinkPart \o cam : cam \in SecondCamera} \cup {SinkPart \o Plain \o cam : cam \in SecondCamera}
    \cup {<<Header("sink"), p>> \o Plain : p \in SinkSettings}
    \cup {SinkPart \o Plain \o MockCam(<<>>) \o Cam("cam.c", "v4l2", 2, <<>>),
          WebcamCam(<<>>) \o SinkPart \o Cam("cam.a", "mock", 2, <<>>),
          Plain \o <<Header("spare")>> \o WebcamCam(<<>>) \o SinkPart,
          <<Pair("frames", Number(1, 1))>> \o SinkPart \o Plain,
          Plain, SinkPart, <<>>}
==============================================================================
