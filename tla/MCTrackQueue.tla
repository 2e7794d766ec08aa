---------------------------- MODULE MCTrackQueue ----------------------------
EXTENDS TrackQueue

MCSlots == 1 .. 8
\* Items 1 and 3 are the same track under two queue item ids.
MCTrackOf == [i \in Items |-> IF i = 3 THEN 1 ELSE i]
\* Items 3 and 4 are.
MCInsertTrackOf == [i \in Items |-> IF i = 4 THEN 3 ELSE i]
\* The reversals and the rotations of what three items can be.
MCShuffles ==
    {<<0>>, <<1, 0>>, <<2, 1, 0>>, <<1, 2, 0>>, <<3, 2, 1, 0>>, <<1, 2, 3, 0>>}
=============================================================================
