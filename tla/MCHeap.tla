------------------------------- MODULE MCHeap -------------------------------
(***************************************************************************)
(* Heap with the code's page, header and alignment sizes on a handful of   *)
(* frames.                                                                 *)
(***************************************************************************)
EXTENDS Heap

Using(frames, ns, ps, n) ==
    [usable |-> frames, sizes |-> ns, pairs |-> ps, maxLive |-> n]

\* Three allocations at a time over frames that do not touch, and one at a
\* time, with sizes on both sides of every boundary, over frames that do.
MCUses ==
    { Using({1, 3}, {40, 2000, 4016}, {<<3, 16>>}, 3),
      Using({1, 2, 3, 4, 6},
            {1, 64, 4016, 4017, 4040, 4072, 4073, 5000, 8176, 12290}, {<<3, 16>>}, 1) }

\* Two at a time over frames that touch.
MCAdjacent == { Using({1, 2}, {64, 4000}, {}, 2) }
=============================================================================
