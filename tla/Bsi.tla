--------------------------------- MODULE Bsi ---------------------------------
(***************************************************************************)
(* Bit-sliced indexes in use (bsi/bsi.go): any legal calls on them, one    *)
(* after another, as the type is not safe for concurrent use.  The queries *)
(* change nothing; what they answer is what the properties are about.      *)
(***************************************************************************)
EXTENDS BitSlices, TLC

CONSTANTS
  Name,      \* the indexes
  Operand,   \* bound: indexes that others are combined with, and that only
             \* have column 0 set and are made anew
  None,      \* no value
  Ranges,    \* the <<max, min>> an index is made with; <<0, 0>> has no range
  Optimized, \* the indexes that are run-optimized at times
  Parallel,  \* numbers of batches a query may be cut into
  MaxWidth   \* bound: slices of an index

ASSUME BsiAssumption ==
  /\ Operand \subseteq Name /\ None \notin Value
  /\ Ranges \subseteq Value \X Value /\ Parallel \subseteq Nat \ {0}

VARIABLES
  bsi,      \* bsi[x]: the index x
  panicked  \* a call has panicked

vars == <<bsi, panicked>>

Init ==
  /\ bsi \in [Name -> {NewBSI(r[1], r[2]) : r \in Ranges}]
  /\ panicked = FALSE

Fits(b) == BitCount(b) <= MaxWidth
Become(x, b) ==
  /\ ~panicked /\ Fits(b)
  /\ bsi' = [bsi EXCEPT ![x] = b]
  /\ UNCHANGED panicked

\* Min and max "are your responsibility".
InRange(b, v) == (b.max = 0 /\ b.min = 0) \/ v \in b.min .. b.max

Panic == ~panicked /\ panicked' = TRUE /\ UNCHANGED bsi

Set(x, S, v) ==
  /\ InRange(bsi[x], v)
  /\ IF GrowthPanics(bsi[x], v) THEN Panic
     ELSE \/ \E c \in S : S = {c} /\ Become(x, SetValue(bsi[x], c, v))
          \/ Become(x, SetMany(bsi[x], S, v))

Clear(x, S) == Become(x, ClearValues(bsi[x], S))
IncrementMany(x, S) == Become(x, Increment(bsi[x], S))
AddFrom(x, y) == Become(x, Add(bsi[x], bsi[y]))

\* Columns of both hold the same value.
ParOrFrom(x, y) ==
  /\ \A c \in bsi[x].eBM \cap bsi[y].eBM : GetValue(bsi[x], c) = GetValue(bsi[y], c)
  /\ Become(x, ParOr(bsi[x], <<bsi[y]>>))

\* Clone retains all columns.
RetainFrom(x, y, S) == Become(x, NewBSIRetainSet(bsi[y], S))

CountFrom(x, y, S) ==
  IF bsi[y].runOptimized /\ S \cap bsi[y].eBM # {} THEN Panic
  ELSE \E n \in Parallel : Become(x, TransposeWithCounts(bsi[y], Batches(S, n)))

\* MarshalBinary of y, and UnmarshalBinary into a new index.
Load(x, y) == Become(x, UnmarshalBinary(NewDefaultBSI, bsi[y]))

New(x) == \E r \in Ranges : Become(x, NewBSI(r[1], r[2]))

RunOptimize(x) ==
  x \in Optimized /\ Become(x, [bsi[x] EXCEPT !.runOptimized = TRUE])

Next ==
  \/ \E x \in Name \ Operand :
       \/ \E S \in SUBSET Column : Clear(x, S) \/ IncrementMany(x, S)
                                   \/ \E v \in Value : Set(x, S, v)
       \/ \E y \in Name \ {x} : AddFrom(x, y) \/ ParOrFrom(x, y)
       \/ \E y \in Name :
            \/ Load(x, y)
            \/ \E S \in SUBSET Column : RetainFrom(x, y, S) \/ CountFrom(x, y, S)
       \/ RunOptimize(x)
  \/ \E x \in Operand, v \in Value : Set(x, {0}, v)
  \/ \E x \in Name : New(x)

Spec == Init /\ [][Next]_vars
-----------------------------------------------------------------------------
(* Properties.                                                             *)

Has(b, c) == c \in b.eBM

\* Whatever slices an index has and was given, decoded column by column it is
\* the map that its calls describe: no stale or stray bits, no lost carries,
\* sums that wrap, counts that the batches do not change.
Columns == INSTANCE ColumnMaps WITH
  values <- [x \in Name |-> [c \in Column |->
               IF Has(bsi[x], c) THEN GetValue(bsi[x], c) ELSE None]]
ColumnsKept == Columns!Spec

Holds(op, m, n) ==
  CASE op = "LT" -> m < n [] op = "LE" -> m <= n [] op = "EQ" -> m = n
    [] op = "GE" -> m >= n [] op = "GT" -> m > n
Exact(b, op, v) ==
  Compare(b, op, v, b.eBM) = {c \in b.eBM : Holds(op, GetValue(b, c), v)}

\* LE and GE, which the time range of a query uses, are exact for every value,
\* of any sign and wider or narrower than the index, as long as no carry has
\* given the index more slices than a value has bits.  The others are exact
\* while no column is negative, RANGE from one value to another too.
ComparisonsExact ==
  \A x \in Name : BitCount(bsi[x]) <= W =>
    /\ \A v \in Value : Exact(bsi[x], "LE", v) /\ Exact(bsi[x], "GE", v)
    /\ (\A c \in bsi[x].eBM : GetValue(bsi[x], c) >= 0) =>
         \A v \in Value \cap Nat :
           /\ \A op \in {"LT", "EQ", "GT"} : Exact(bsi[x], op, v)
           /\ \A w \in {w \in Value : v <= w} :
                CompareRange(bsi[x], v, w, bsi[x].eBM) =
                  {c \in bsi[x].eBM : GetValue(bsi[x], c) \in v .. w}

\* Queries that answer the same question agree: the columns that equal a
\* value with those that neither bound excludes, the sum of any columns with
\* their values, and the values that occur with those that are counted,
\* however the count is cut into batches.
QueriesAgree ==
  \A x \in Name :
    /\ BitCount(bsi[x]) <= W => \A v \in Value :
         BatchEqual(bsi[x], {v}) = Compare(bsi[x], "LE", v, bsi[x].eBM)
                                   \cap Compare(bsi[x], "GE", v, bsi[x].eBM)
    /\ \A S \in SUBSET bsi[x].eBM :
         LET Held(c) == GetValue(bsi[x], c)
         IN Sum(bsi[x], S) = Wrap(MapThenSumSet(Held, S))
    /\ \A n \in Parallel, S \in SUBSET Column :
         LET counts == TransposeWithCounts(bsi[x], Batches(S, n))
         IN /\ counts.eBM = IntersectAndTranspose(bsi[x], S)
            /\ Sum(counts, counts.eBM) = Wrap(Cardinality(S \cap bsi[x].eBM))
=============================================================================
