------------------------------- MODULE BitSlices -------------------------------
(***************************************************************************)
(* A bit-sliced index (bsi/bsi.go) and its queries, as operators.  Slice j *)
(* holds the columns whose value has bit j; the existence bitmap holds     *)
(* the columns that have a value.  Queries work column by column, in       *)
(* batches whose results are united or added: only the counts are cut into *)
(* batches here.  MinMax is left out.                                      *)
(***************************************************************************)
EXTENDS Integers, FiniteSetsExt, SequencesExt

CONSTANTS
  W,   \* bits of a value: 64 in the code
  C    \* bits of a column number: 32 in the code

ASSUME WidthAssumption == W \in Nat \ {0} /\ C \in Nat

Column == 0 .. 2^C - 1
Value == -(2^(W-1)) .. 2^(W-1) - 1
Wrap(n) == ((n + 2^(W-1)) % (2^W)) - 2^(W-1)

\* uint64(v) & (1 << j): a shift by W or more gives 0.
Bit(v, j) == j \in 0 .. W-1 /\ (v \div (2^j)) % 2 = 1

\* bits.Len64 of the unsigned reading of v.
Len64(v) == CHOOSE n \in 0 .. W : v % (2^W) < 2^n /\ \A k \in 0 .. n-1 : v % (2^W) >= 2^k

\* ^v + 1
Negated(v) == Wrap(-v)

Larger(m, n) == IF m > n THEN m ELSE n
BitCount(b) == Cardinality(DOMAIN b.bA)
Slice(b, j) == IF j \in DOMAIN b.bA THEN b.bA[j] ELSE {}

NewBSI(max, min) ==
  [bA |-> [j \in 0 .. Larger(Len64(max), Len64(min)) - 1 |-> {}], eBM |-> {},
   max |-> max, min |-> min, runOptimized |-> FALSE]
NewDefaultBSI == NewBSI(0, 0)

\* The number that slices of a column spell; slices past W shift out.
Spelled(b, c, places) ==
  Wrap(SumSet({2^j : j \in {k \in places : k < W /\ c \in b.bA[k]}}))
GetValue(b, c) == Spelled(b, c, DOMAIN b.bA)
-----------------------------------------------------------------------------
(* Updates.                                                                *)

\* Without a range the index grows to the width of the value.
Grown(b, v) ==
  IF b.max = 0 /\ b.min = 0
  THEN [b EXCEPT !.bA = [j \in 0 .. Larger(BitCount(b), Len64(v)) - 1 |-> Slice(b, j)]]
  ELSE b

\* b.bA[i].RunOptimize() with i counting down from the missing slices: the
\* first index lies past the one slice that was appended.
GrowthPanics(b, v) ==
  /\ b.runOptimized /\ b.max = 0 /\ b.min = 0
  /\ Len64(v) > BitCount(b)
  /\ Len64(v) - BitCount(b) > BitCount(b)

\* Bits that v lacks are removed only where the column has a value.
\* Mutant: they are never removed.
SetValueOver(b, c, v) ==
  LET g == Grown(b, v)
  IN [g EXCEPT !.bA = [j \in DOMAIN g.bA |->
                         IF Bit(v, j) THEN g.bA[j] \cup {c} ELSE g.bA[j]],
               !.eBM = @ \cup {c}]
SetValue(b, c, v) ==
  LET g == Grown(b, v)
  IN [g EXCEPT !.bA = [j \in DOMAIN g.bA |->
                         IF Bit(v, j) THEN g.bA[j] \cup {c}
                         ELSE IF c \in g.eBM THEN g.bA[j] \ {c} ELSE g.bA[j]],
               !.eBM = @ \cup {c}]

SetMany(b, S, v) ==
  LET g == Grown(b, v)
  IN [g EXCEPT !.bA = [j \in DOMAIN g.bA |->
                         IF Bit(v, j) THEN g.bA[j] \cup S ELSE g.bA[j] \ S],
               !.eBM = @ \cup S]

ClearValues(b, S) ==
  [b EXCEPT !.bA = [j \in DOMAIN b.bA |-> b.bA[j] \ S], !.eBM = @ \ S]

NewBSIRetainSet(b, S) ==
  [NewBSI(b.max, b.min) EXCEPT !.bA = [j \in DOMAIN b.bA |-> b.bA[j] \cap S],
                               !.eBM = b.eBM \cap S]

\* The carry into slice j of adding the columns of S at slice i: they ripple
\* through the slices that are full.
Carry(b, S, i, j) == {c \in S : \A k \in i .. j-1 : c \in Slice(b, k)}
addDigit(b, S, i) ==
  LET top == Larger(BitCount(b), i + 1)
      width == IF Carry(b, S, i, top) = {} THEN top ELSE top + 1
  IN [b EXCEPT !.bA = [j \in 0 .. width - 1 |->
        IF j < i THEN Slice(b, j) ELSE SymDiff(Slice(b, j), Carry(b, S, i, j))]]

Add(b, other) ==
  FoldLeft(LAMBDA sum, j : addDigit(sum, other.bA[j], j),
           [b EXCEPT !.eBM = @ \cup other.eBM],
           [n \in 1 .. BitCount(other) |-> n - 1])

Increment(b, S) == [addDigit(b, S, 0) EXCEPT !.eBM = @ \cup S]

\* A narrower index empties what the ones before it gave to a higher slice.
ParOr(b, bsis) ==
  LET width == FoldLeft(LAMBDA w, x : Larger(w, BitCount(x)), BitCount(b), bsis)
      Given(j) == FoldLeft(LAMBDA a, x : IF BitCount(x) > j THEN a \cup x.bA[j] ELSE {},
                           {}, bsis)
  IN [b EXCEPT !.bA = [j \in 0 .. width - 1 |-> Slice(b, j) \cup Given(j)],
               !.eBM = @ \cup UNION {bsis[n].eBM : n \in DOMAIN bsis}]

\* Slices that the data lacks stay as they were.
UnmarshalBinary(b, data) ==
  [b EXCEPT !.bA = [j \in 0 .. Larger(BitCount(b), BitCount(data)) - 1 |->
                      IF j < BitCount(data) THEN data.bA[j] ELSE b.bA[j]],
            !.eBM = data.eBM]
-----------------------------------------------------------------------------
(* Queries.                                                                *)

\* The places of the value proper, from a width where the highest is a sign.
Places(x) == 0 .. (IF x = W THEN W - 2 ELSE x - 1)
NegativeAt(x, v) == x = W /\ Bit(v, W - 1)

\* The highest place where column c differs from v, or -1.  Values of
\* different signs are compared by magnitude.
CompValue(b, c, v, x) ==
  IF (x = W /\ c \in Slice(b, W - 1)) # NegativeAt(x, v) THEN Negated(v) ELSE v
Differs(b, c, v, x) ==
  Max({-1} \cup {j \in Places(x) : Bit(v, j) # (c \in Slice(b, j))})

\* Slices and value are both read to the greater of their widths.  Mutant:
\* bits of the value past the highest slice are not.
OwnWidth(b, v) == BitCount(b)
Width(b, v) == Larger(Len64(v), BitCount(b))

\* LT, LE, EQ, GE and GT end at the first difference.
Compare(b, op, v, S) ==
  LET x == Width(b, v)
      startIsNegative == NegativeAt(x, v)
  IN {c \in S :
        LET isNegative == x = W /\ c \in Slice(b, W - 1)
            comp == CompValue(b, c, v, x)
            j == Differs(b, c, comp, x)
            eq == j = -1
            lt == ~eq /\ IF Bit(comp, j) THEN ~startIsNegative \/ isNegative
                                         ELSE isNegative /\ ~startIsNegative
            gt == ~eq /\ IF Bit(comp, j) THEN startIsNegative /\ ~isNegative
                                         ELSE startIsNegative \/ ~isNegative
        IN CASE op = "LT" -> lt
             [] op = "LE" -> lt \/ (eq /\ (~startIsNegative \/ isNegative))
             [] op = "EQ" -> eq
             [] op = "GE" -> gt \/ (eq /\ (startIsNegative \/ ~isNegative))
             [] op = "GT" -> gt}

\* RANGE looks for two first differences at once, and may end at either
\* before it has found the other.
CompareRange(b, start, end, S) ==
  LET x == Width(b, end)
      startIsNegative == NegativeAt(x, start)
      endIsNegative == NegativeAt(x, end)
  IN {c \in S :
        LET isNegative == x = W /\ c \in Slice(b, W - 1)
            compStart == CompValue(b, c, start, x)
            compEnd == CompValue(b, c, end, x)
            j1 == Differs(b, c, compStart, x)
            j2 == Differs(b, c, compEnd, x)
            startBreaks == Bit(compStart, j1)
            endBreaks == ~Bit(compEnd, j2) \/ (startIsNegative /\ ~endIsNegative)
            eq1 == j1 = -1 \/ (j2 > j1 /\ endBreaks)
            eq2 == j2 = -1 \/ (j1 >= j2 /\ startBreaks)
            gt1 == ~eq1 /\ IF Bit(compStart, j1) THEN startIsNegative /\ ~isNegative
                                                 ELSE startIsNegative \/ ~isNegative
            lt2 == ~eq2 /\ IF Bit(compEnd, j2) THEN ~endIsNegative \/ isNegative
                                               ELSE isNegative /\ ~endIsNegative
        IN (eq1 \/ gt1) /\ (eq2 \/ lt2)}

\* The sum of S wraps as the values do.
Sum(b, S) ==
  LET Weight(j) == Cardinality(S \cap b.bA[j]) * 2^j
  IN Wrap(MapThenSumSet(Weight, {j \in DOMAIN b.bA : j < W}))

IntersectAndTranspose(b, S) == {GetValue(b, c) % (2^C) : c \in S \cap b.eBM}

BatchEqual(b, values) == {c \in b.eBM : GetValue(b, c) \in values}

\* One batch counts how many columns hold each value, in an index whose
\* columns are the values; the order of the columns makes no difference.
\* Mutant: a column without a value counts as one.
Counted(b, c, r) ==
  LET k == GetValue(b, c) % (2^C)
  IN SetValue(r, k, IF k \in r.eBM THEN GetValue(r, k) + 1 ELSE 1)
transposeAll(b, batch) ==
  FoldSet(LAMBDA c, r : Counted(b, c, r), NewDefaultBSI, batch)
transposeWithCounts(b, batch) ==
  FoldSet(LAMBDA c, r : IF c \in b.eBM THEN Counted(b, c, r) ELSE r, NewDefaultBSI, batch)

TransposeWithCounts(b, batches) ==
  FoldLeft(Add, NewDefaultBSI, [n \in DOMAIN batches |-> transposeWithCounts(b, batches[n])])

\* parallelExecutor and its likes cut S into n batches of as many columns, in
\* their order; the last has the remainder too.
Batches(S, n) ==
  LET Rank(c) == Cardinality({d \in S : d < c})
      x == Cardinality(S) \div n
  IN [i \in 1 .. n |-> {c \in S : /\ (i - 1) * x <= Rank(c)
                                 /\ (i = n \/ Rank(c) < i * x)}]
=============================================================================
