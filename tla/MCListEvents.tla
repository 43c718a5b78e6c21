---------------------------- MODULE MCListEvents ----------------------------
(* Instances of ListEvents for TLC.                                        *)
EXTENDS ListEvents

CONSTANT none

K(s, i, t) == [start |-> s, id |-> i, ts |-> t]

\* Event 1 with two versions, then moved to an earlier start time; event 2,
\* which starts within a microsecond, with a version after ReadTs.
MCKey == {K(2, 1, 1), K(2, 1, 2), K(2, 1, 3), K(0, 1, 3), K(1, 2, 1), K(1, 2, 4)}
MCTombstone == {K(2, 1, 3)}
\* No filter and no time range; and a filter that only the first versions
\* match, with a range that excludes the last of event 1.
MCFilters ==
  {[match |-> MCKey, posting |-> MCKey],
   [match |-> {K(2, 1, 1), K(0, 1, 3), K(1, 2, 1)},
    posting |-> {K(2, 1, 1), K(1, 2, 1)}]}
\* Those that make panics and empty pages, short pages, a long one, and the
\* greatest.
MCSizes == {-2, -1, 0, 1, 4, 7}
=============================================================================
