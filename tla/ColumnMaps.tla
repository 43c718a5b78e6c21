------------------------------ MODULE ColumnMaps ------------------------------
(***************************************************************************)
(* What bit-sliced indexes promise: each one is a map from columns to      *)
(* signed integers of W bits, and its operations change it column by       *)
(* column, in arithmetic that wraps round.                                 *)
(***************************************************************************)
EXTENDS Integers, FiniteSets

CONSTANTS
  W,      \* bits of a value
  C,      \* bits of a column number
  Name,   \* the maps
  None    \* no value in a column

Column == 0 .. 2^C - 1
Value == -(2^(W-1)) .. 2^(W-1) - 1

\* The integer of W bits that n is, whatever overflowed.
Wrap(n) == ((n + 2^(W-1)) % (2^W)) - 2^(W-1)

Map == [Column -> Value \cup {None}]
Empty == [c \in Column |-> None]

\* A number to count with: nothing counts as zero.
Number(v) == IF v = None THEN 0 ELSE v

\* Each call says what it may make, as m2, of a map m, given another map n
\* where it takes one.  "Some columns" are the caller's choice.

\* Some columns get the value v.
Set(m, m2) == \E v \in Value : \A c \in Column : m2[c] \in {m[c], v}

Clear(m, m2) == \A c \in Column : m2[c] \in {m[c], None}

Increment(m, m2) ==
  \A c \in Column : m2[c] \in {m[c], Wrap(Number(m[c]) + 1)}

Add(m, n, m2) ==
  \A c \in Column :
    m2[c] = IF n[c] = None THEN m[c] ELSE Wrap(Number(m[c]) + n[c])

\* Columns of both hold the same value.
Concatenate(m, n, m2) ==
  \A c \in Column :
    /\ m[c] = n[c] \/ None \in {m[c], n[c]}
    /\ m2[c] = IF n[c] = None THEN m[c] ELSE n[c]

\* How many columns of some hold each value, by the value's own number.
Count(n, m2) ==
  \E S \in SUBSET Column : \A k \in Column :
    LET held == {c \in S : n[c] # None /\ n[c] % (2^C) = k}
    IN m2[k] = IF held = {} THEN None ELSE Wrap(Cardinality(held))
-----------------------------------------------------------------------------
VARIABLE values

TypeOK == values \in [Name -> Map]

Init == values = [x \in Name |-> Empty]

\* One call changes one map.  A new map, a copy and a copy of some columns
\* take the place of the old map.
Call(m, m2, others) ==
  \/ Set(m, m2) \/ Clear(m, m2) \/ Increment(m, m2)
  \/ \E n \in others : Add(m, n, m2) \/ Concatenate(m, n, m2)
  \/ \E n \in others \cup {m} : Clear(n, m2) \/ Count(n, m2)
  \/ m2 = Empty

Next ==
  \E x \in Name :
    /\ \A y \in Name \ {x} : values'[y] = values[y]
    /\ Call(values[x], values'[x], {values[y] : y \in Name \ {x}})

Spec == Init /\ [][Next]_values
=============================================================================
