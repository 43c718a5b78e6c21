---------------------------- MODULE MCIterators ----------------------------
(* Instances of Iterators for TLC.                                         *)
EXTENDS Iterators

CONSTANT none

K(s, i, t) == [start |-> s, id |-> i, ts |-> t]

\* Event 1 with two versions, its deletion and its version at an earlier
\* start time; event 2 with two versions, one of them after ReadTs.
MCKey == {K(2, 1, 1), K(2, 1, 2), K(2, 1, 3), K(1, 1, 3), K(1, 2, 1), K(1, 2, 4)}
MCTombstone == {K(2, 1, 3)}
\* No filter and no time range.
MCNoFilter == {[match |-> MCKey, posting |-> MCKey]}

\* The ordinary case: versions of an event reached the store in the order of
\* their timestamps, first index 1, then index 2, then the memtable.
InOrder ==
  \A i \in Index : \A k \in Range(keys[i]) :
    \A l \in mt \cup UNION {Range(keys[j]) : j \in i + 1 .. Indexes} :
      k.id = l.id => k.ts < l.ts

InOrderSpec == Init /\ InOrder /\ [][Next]_vars
=============================================================================
