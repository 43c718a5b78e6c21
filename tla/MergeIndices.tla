----------------------------- MODULE MergeIndices -----------------------------
(***************************************************************************)
(* The roaring indexes of the store (index.go): fromMemTable builds one    *)
(* from the items of a sealed memtable, event by event, and mergeTwoIndices*)
(* merges two of them, key by key, into a level.  The levels are those of  *)
(* mergeLevel (storage.go), with the limits left out: any level may spill. *)
(*                                                                         *)
(* Rows count from 1 (row ids of the code from 0).  tags and annotations   *)
(* are handled alike: both are posting lists, one per label.  A time is    *)
(* known by its binary digits, least significant first; a bit-sliced index *)
(* keeps one set of rows per digit.                                        *)
(***************************************************************************)
EXTENDS Integers, Sequences, FiniteSets, SequencesExt

CONSTANTS
  Key,          \* event keys: records with start, id, ts and zone
  Label,        \* tags and annotation pairs
  Labels,       \* Labels[k]: those of the event with key k
  StartDigits,  \* StartDigits[k], EndDigits[k]: its start and end time
  EndDigits,
  MaxItems,     \* bound: items of a memtable
  MaxTables,    \* bound: memtables
  Deepest       \* the last level, 3 in the code

\* Keys of Go maps are equal when their fields are, and a time.Time tells its
\* location: AsTime() gives UTC, and Local() the same instant in Local.
UTC(k) == [k EXCEPT !.zone = "UTC"]
Local(k) == [k EXCEPT !.zone = "Local"]

Digits == Seq(BOOLEAN)
Level == 0 .. Deepest

ASSUME MergeAssumption ==
  /\ \A k \in Key : k.start \in Int /\ k.id \in Int /\ k.ts \in Int
  \* One event, in whichever zone its start time is told.
  /\ \A k \in Key :
       /\ Local(k) \in Key /\ Local(k).zone = "Local"
       /\ Labels[Local(k)] = Labels[k]
       /\ StartDigits[Local(k)] = StartDigits[k] /\ EndDigits[Local(k)] = EndDigits[k]
  /\ Labels \in [Key -> SUBSET Label]
  /\ \A k \in Key : StartDigits[k] \in Digits /\ EndDigits[k] \in Digits
  /\ MaxItems \in Nat /\ MaxTables \in Nat /\ Deepest \in Nat \ {0}

VARIABLES
  left,    \* items of the memtable that fromMemTable has yet to visit
  fresh,   \* the index it builds
  level,   \* s.levels, NewIndex for nil
  pc,      \* "idle", "index" or "merge"
  a, b,    \* the operands of mergeTwoIndices
  dst,     \* the level its result goes to
  keys, remapA, remapB,  \* its key list and row maps, grown together
  taken    \* memtables so far

mvars == <<a, b, dst, keys, remapA, remapB>>
vars == <<left, fresh, level, pc, mvars, taken>>
-----------------------------------------------------------------------------
(* Memtables.                                                              *)

\* The order of the skip list: start time, then id, then timestamp, each
\* descending; instants are compared, whatever their zones.
Before(k, l) ==
  \/ k.start > l.start
  \/ k.start = l.start /\ k.id > l.id
  \/ k.start = l.start /\ k.id = l.id /\ k.ts > l.ts

\* The keys of a memtable, front to back, as EventKeyFromProto makes them.
MemTable ==
  {s \in UNION {[1 .. n -> {k \in Key : k.zone = "UTC"}] : n \in 1 .. MaxItems} :
     \A n \in 1 .. Len(s) - 1 : Before(s[n], s[n + 1])}
-----------------------------------------------------------------------------
(* Bit-sliced columns: one set of rows per digit, and the rows with a      *)
(* value.                                                                  *)

Larger(m, n) == IF m >= n THEN m ELSE n

\* The rows whose digit i is one; a column has no slice beyond its BitCount.
Slice(col, i) == IF i \in DOMAIN col.bits THEN col.bits[i] ELSE {}

NewBSI == [bits |-> <<>>, exists |-> {}]

\* Set digit i of row r in slice s.
PutDigit(s, r, d, i) ==
  IF i \in DOMAIN d /\ d[i] THEN s \cup {r} ELSE s \ {r}

\* SetValue of a column made by NewDefaultBSI, which grows with its values.
SetValue(col, r, d) ==
  [bits |-> [i \in 1 .. Larger(Len(col.bits), Len(d)) |->
               PutDigit(Slice(col, i), r, d, i)],
   exists |-> col.exists \cup {r}]

\* Row r of the column holds the value with digits d.
Holds(col, r, d) ==
  /\ r \in col.exists
  /\ Len(d) <= Len(col.bits)
  /\ \A i \in DOMAIN col.bits : r \in col.bits[i] <=> i \in DOMAIN d /\ d[i]
-----------------------------------------------------------------------------
(* Building an index.                                                      *)

NewIndex ==
  [all |-> {}, keys |-> <<>>, indexes |-> <<>>,
   postings |-> [l \in Label |-> {}],
   startTime |-> NewBSI, endTime |-> NewBSI]

\* indexEvent: one event becomes the next row.  It makes the key anew, with the
\* start time in Local.
AddEvent(x, k) ==
  LET r == Len(x.keys) + 1 IN
  [all |-> x.all \cup {r},
   keys |-> Append(x.keys, Local(k)),
   indexes |-> [l \in DOMAIN x.indexes \cup {Local(k)} |->
                  IF l = Local(k) THEN r ELSE x.indexes[l]],
   postings |-> [l \in Label |->
                   x.postings[l] \cup (IF l \in Labels[k] THEN {r} ELSE {})],
   startTime |-> SetValue(x.startTime, r, StartDigits[k]),
   endTime |-> SetValue(x.endTime, r, EndDigits[k])]
-----------------------------------------------------------------------------
(* Merging two.                                                            *)

\* Which operand gives its next key.
TakesA(k, l) == IF k.start # l.start THEN k.start < l.start ELSE k.id >= l.id

\* moveBitmap: the rows of rb under their new numbers.
MoveBitmap(rb, remap) == {remap[r] : r \in rb}

\* Mutant: the result is as wide as the first operand.
MergeBSINarrow(colA, colB, ra, rb, n) ==
  [bits |-> [i \in DOMAIN colA.bits |->
               MoveBitmap(Slice(colA, i), ra) \cup MoveBitmap(Slice(colB, i), rb)],
   exists |-> 1 .. n]

MergeBSI(colA, colB, ra, rb, n) ==
  [bits |-> [i \in 1 .. Larger(Len(colA.bits), Len(colB.bits)) |->
               MoveBitmap(Slice(colA, i), ra) \cup MoveBitmap(Slice(colB, i), rb)],
   exists |-> 1 .. n]

\* The key map; an entry of y replaces one of x.  Mutant: the rows of y are
\* taken over unchanged.
MergeKeyMapRaw(x, y, ra, rb) ==
  [k \in DOMAIN x.indexes \cup DOMAIN y.indexes |->
     IF k \in DOMAIN y.indexes THEN y.indexes[k] ELSE ra[x.indexes[k]]]

MergeKeyMap(x, y, ra, rb) ==
  [k \in DOMAIN x.indexes \cup DOMAIN y.indexes |->
     IF k \in DOMAIN y.indexes THEN rb[y.indexes[k]] ELSE ra[x.indexes[k]]]

\* The posting lists.  Mutant: a list of y replaces the one of x.
MergePostingsReplacing(x, y, ra, rb) ==
  [l \in Label |-> IF y.postings[l] # {} THEN MoveBitmap(y.postings[l], rb)
                   ELSE MoveBitmap(x.postings[l], ra)]

MergePostings(x, y, ra, rb) ==
  [l \in Label |-> MoveBitmap(x.postings[l], ra)
                     \cup MoveBitmap(y.postings[l], rb)]

\* AddRange(0, n), which leaves n out: the rows 1 to n.  Mutant: it is given
\* the last row for its end.
AllButLast(n) == 1 .. n - 1
AllRows(n) == 1 .. n

\* mergeTwoIndices after its key loops.
Merged ==
  [all |-> AllRows(Len(keys)),
   keys |-> keys,
   indexes |-> MergeKeyMap(a, b, remapA, remapB),
   postings |-> MergePostings(a, b, remapA, remapB),
   startTime |-> MergeBSI(a.startTime, b.startTime, remapA, remapB, Len(keys)),
   endTime |-> MergeBSI(a.endTime, b.endTime, remapA, remapB, Len(keys))]
-----------------------------------------------------------------------------
Init ==
  /\ left = <<>> /\ fresh = NewIndex
  /\ level = [i \in Level |-> NewIndex]
  /\ pc = "idle" /\ a = NewIndex /\ b = NewIndex /\ dst = 0
  /\ keys = <<>> /\ remapA = <<>> /\ remapB = <<>>
  /\ taken = 0

\* fromMemTable is called for the next sealed memtable.
FromMemTable ==
  /\ pc = "idle" /\ taken < MaxTables
  /\ left' \in MemTable
  /\ fresh' = NewIndex /\ taken' = taken + 1 /\ pc' = "index"
  /\ UNCHANGED <<level, mvars>>

IndexEvent ==
  /\ pc = "index" /\ left # <<>>
  /\ fresh' = AddEvent(fresh, Head(left))
  /\ left' = Tail(left)
  /\ UNCHANGED <<level, pc, mvars, taken>>

\* mergeTwoIndices(x, y) for level d of levels lv.  A nil operand: the other
\* one is the result.
CallMerge(x, y, lv, d) ==
  IF x.keys = <<>> \/ y.keys = <<>>
    THEN /\ level' = [lv EXCEPT ![d] = IF x.keys = <<>> THEN y ELSE x]
         /\ pc' = "idle" /\ UNCHANGED mvars
    ELSE /\ level' = lv
         /\ a' = x /\ b' = y /\ dst' = d /\ pc' = "merge"
         /\ keys' = <<>> /\ remapA' = <<>> /\ remapB' = <<>>

\* mergeLevel: the pending index goes into level 0, as the second operand.
Flush ==
  /\ pc = "index" /\ left = <<>>
  /\ CallMerge(level[0], fresh, level, 0)
  /\ UNCHANGED <<left, fresh, taken>>

\* A level spills into the next one, as the first operand.
Spill(i) ==
  /\ pc = "idle" /\ i + 1 \in Level /\ level[i].keys # <<>>
  /\ CallMerge(level[i], level[i + 1], [level EXCEPT ![i] = NewIndex], i + 1)
  /\ UNCHANGED <<left, fresh, taken>>

AtoGo == Len(remapA) < Len(a.keys)
BtoGo == Len(remapB) < Len(b.keys)
NextA == a.keys[Len(remapA) + 1]
NextB == b.keys[Len(remapB) + 1]

\* The row of a key just appended.  Mutant: its 0-based number.
RowOff == Len(keys)
Row == Len(keys) + 1

TakeA ==
  /\ pc = "merge" /\ AtoGo /\ (BtoGo => TakesA(NextA, NextB))
  /\ keys' = Append(keys, NextA) /\ remapA' = Append(remapA, Row)
  /\ UNCHANGED <<left, fresh, level, pc, a, b, dst, remapB, taken>>

TakeB ==
  /\ pc = "merge" /\ BtoGo /\ (AtoGo => ~TakesA(NextA, NextB))
  /\ keys' = Append(keys, NextB) /\ remapB' = Append(remapB, Row)
  /\ UNCHANGED <<left, fresh, level, pc, a, b, dst, remapA, taken>>

Finish ==
  /\ pc = "merge" /\ ~AtoGo /\ ~BtoGo
  /\ level' = [level EXCEPT ![dst] = Merged]
  /\ pc' = "idle" /\ a' = NewIndex /\ b' = NewIndex /\ dst' = 0
  /\ keys' = <<>> /\ remapA' = <<>> /\ remapB' = <<>>
  /\ UNCHANGED <<left, fresh, taken>>

Next ==
  \/ FromMemTable \/ IndexEvent \/ Flush \/ \E i \in Level : Spill(i)
  \/ TakeA \/ TakeB \/ Finish

Spec == Init /\ [][Next]_vars
-----------------------------------------------------------------------------
\* The indexes that exist: the one being built and the levels.
Live == {fresh} \cup {level[i] : i \in Level}

\* One row per key in every part of index x.
Shaped(x) ==
  /\ x.keys \in Seq(Key) /\ x.all = DOMAIN x.keys
  /\ x.postings \in [Label -> SUBSET DOMAIN x.keys]
  /\ \A col \in {x.startTime, x.endTime} :
       col.bits \in Seq(SUBSET DOMAIN x.keys) /\ col.exists = DOMAIN x.keys

TypeOK ==
  /\ left \in Seq(Key) /\ keys \in Seq(Key)
  /\ remapA \in Seq(DOMAIN keys) /\ remapB \in Seq(DOMAIN keys)
  /\ pc \in {"idle", "index", "merge"} /\ dst \in Level
  /\ taken \in 0 .. MaxTables
  /\ level = [i \in Level |-> level[i]]
  /\ \A x \in Live \cup {a, b} : Shaped(x)

\* Every posting list of every index, built or merged any number of times,
\* is the rows of the events that carry the label (moveBitmap, index.go:349).
PostingsFollow(x) ==
  \A l \in Label :
    x.postings[l] = {r \in DOMAIN x.keys : l \in Labels[x.keys[r]]}
PostingsFollowRows == \A x \in Live : PostingsFollow(x)

\* Every row reads back the start and end time of its own event, also when
\* the two merged columns have different widths (mergeBSI, index.go:375).
TimesRead(x) ==
  \A r \in DOMAIN x.keys :
    /\ Holds(x.startTime, r, StartDigits[x.keys[r]])
    /\ Holds(x.endTime, r, EndDigits[x.keys[r]])
TimesReadBack == \A x \in Live : TimesRead(x)

\* The key map knows the keys of the key list and no other, each in Local, and
\* leads to a row of that key, even if the same memtable was merged twice
\* (index.go:306-312, 416-424).
KeyMapLeads(x) ==
  /\ DOMAIN x.indexes = {x.keys[r] : r \in DOMAIN x.keys}
  /\ \A k \in DOMAIN x.indexes :
       /\ k.zone = "Local"
       /\ x.indexes[k] \in DOMAIN x.keys /\ x.keys[x.indexes[k]] = k
KeyMapExact == \A x \in Live : KeyMapLeads(x)

\* What TestRoaringIndex_Filter takes for granted (index_test.go:157-160): the
\* key map has the key of an indexed event as EventKeyFromProto and AsTime()
\* make it.
KeyMapFound ==
  \A x \in Live : \A r \in DOMAIN x.keys : UTC(x.keys[r]) \in DOMAIN x.indexes

\* Row map ra takes the rows of ka, in their order, to rows of the same key.
Embeds(ra, ka, ks) ==
  /\ ra \in Seq(DOMAIN ks) /\ Len(ra) <= Len(ka)
  /\ \A n, m \in DOMAIN ra : n < m => ra[n] < ra[m]
  /\ \A n \in DOMAIN ra : ks[ra[n]] = ka[n]

\* Every row of ks comes from exactly one of two operands.
Dealt(ra, rb, ks) ==
  \A m \in DOMAIN ks :
    (\E n \in DOMAIN ra : ra[n] = m) <=> ~(\E n \in DOMAIN rb : rb[n] = m)

\* While a merge runs (index.go:265-300) the rows of the result are dealt
\* out to the two operands, none shared and none skipped: every index that
\* moveBitmap then takes from a row map is right.
RowsDealtOut ==
  pc = "merge" =>
    /\ Embeds(remapA, a.keys, keys) /\ Embeds(remapB, b.keys, keys)
    /\ Dealt(remapA, remapB, keys)

\* What TestMergeTwoIndices asks of the keys of a merged index
\* (index_test.go:209-213): start time and id never ascend.
KeysDescend ==
  \A x \in Live : \A n \in 1 .. Len(x.keys) - 1 :
    LET k == x.keys[n]  l == x.keys[n + 1] IN
    k.start > l.start \/ (k.start = l.start /\ k.id >= l.id)
=============================================================================
