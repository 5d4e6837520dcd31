------------------------------- MODULE MCSink -------------------------------
(***************************************************************************)
(* Instances of Sink for TLC: messages of one to three sites from a few    *)
(* cameras, and tables that bound them.                                    *)
(***************************************************************************)
EXTENDS Sink

MCFrame(id, sequence, t_ns, support, signal) ==
  [camera_id |-> id, sequence |-> sequence, t_ns |-> t_ns,
   count |-> Len(support), support |-> support, signal |-> signal]

\* One site, in every range: only the numbering and the stamp can be wrong.  The
\* stamps are 1, 3 and 4 apart: for a period of 2 and the default tolerance of
\* one half, the first two are the bounds of the band and the third is outside.
Plain(ids, sequences, stamps) ==
  {Pack(MCFrame(id, n, t, <<0>>, <<255>>)) :
     id \in ids, n \in sequences, t \in stamps}

\* Two and three sites, wider than the first capacity; the last site of the
\* second is outside a bound of two sites.
Wide == {Pack(MCFrame(0, 1, 2, <<0, 1>>, <<0, 255>>)),
         Pack(MCFrame(0, 2, 4, <<0, 1, 2>>, <<0, 0, 0>>))}

\* A value above 1 in a live entry.
TooBright == {Pack(MCFrame(1, 1, 2, <<0>>, <<256>>))}

\* Messages that frame_wire_peek refuses, one for each of its tests.
Malformed ==
  LET m == Pack(MCFrame(0, 0, 1, <<0>>, <<0>>))
  IN  {[m EXCEPT !.len = HeaderBytes - 1],
       [m EXCEPT !.format = "other"],
       [m EXCEPT !.version = WireVersion + 1],
       [m EXCEPT !.count = 2]}

Spec0(sites, period) ==
  [camera_id |-> 0, max_sites |-> sites, expect_period |-> period]
Spec1(sites, period) ==
  [camera_id |-> 1, max_sites |-> sites, expect_period |-> period]

\* No table, one bound for each of two cameras, the same id twice.
MCTables == {<<>>, <<Spec0(2, 2), Spec1(0, 0)>>, <<Spec0(1, 0), Spec0(3, 2)>>}

\* A camera in every order of numbers and stamps, another that interleaves with
\* it, and a third that says one thing.
MCArrivals == Plain({0}, 0 .. 2, {1, 2, 5}) \cup Plain({1}, 0 .. 1, {1, 2})
                \cup Plain({2}, {0}, {1}) \cup Wide \cup TooBright \cup Malformed

OverflowTables == {<<Spec0(0, 0), Spec1(0, 0)>>}
=============================================================================
