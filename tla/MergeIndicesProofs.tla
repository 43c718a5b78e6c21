-------------------------- MODULE MergeIndicesProofs --------------------------
(***************************************************************************)
(* That building and merging keep every part of an index in step with its  *)
(* key list, for any keys, labels, times, memtables and levels, and        *)
(* whatever the order in which the two operands are drained: the proofs    *)
(* never expand TakesA.                                                    *)
(***************************************************************************)
EXTENDS MergeIndices, TLAPS

\* The row maps ra and rb deal the rows 1..n out to operands of na and nb
\* rows: every row to exactly one row of one operand.
DealtAll(ra, rb, na, nb, n) ==
  /\ ra \in [1 .. na -> 1 .. n] /\ rb \in [1 .. nb -> 1 .. n]
  /\ \A p, q \in 1 .. na : ra[p] = ra[q] => p = q
  /\ \A p, q \in 1 .. nb : rb[p] = rb[q] => p = q
  /\ \A p \in 1 .. na, q \in 1 .. nb : ra[p] # rb[q]
  /\ \A m \in 1 .. n : (\E p \in 1 .. na : ra[p] = m) \/ (\E q \in 1 .. nb : rb[q] = m)

\* A column whose slices hold rows of 1..n only.
Column(col, n) == col.bits \in Seq(SUBSET (1 .. n)) /\ col.exists = 1 .. n

\* An index whose parts all agree with its key list.
Sound(x) == Shaped(x) /\ PostingsFollow(x) /\ TimesRead(x) /\ KeyMapLeads(x)

\* TypeOK without what Sound says of the indexes.
Scalars ==
  /\ left \in Seq(Key) /\ keys \in Seq(Key)
  /\ remapA \in Seq(DOMAIN keys) /\ remapB \in Seq(DOMAIN keys)
  /\ pc \in {"idle", "index", "merge"} /\ dst \in Level
  /\ taken \in 0 .. MaxTables
  /\ level = [i \in Level |-> level[i]]

AllSound ==
  Sound(fresh) /\ Sound(a) /\ Sound(b) /\ \A i \in Level : Sound(level[i])

IInv == Scalars /\ AllSound /\ RowsDealtOut
-----------------------------------------------------------------------------
(* Columns.                                                                *)

LEMMA SliceRows ==
  ASSUME NEW n \in Nat, NEW col, Column(col, n), NEW i
  PROVE  Slice(col, i) \in SUBSET (1 .. n)
  BY DEF Slice, Column

\* SetValue gives the next row its value and leaves the others theirs.
LEMMA SetValueHolds ==
  ASSUME NEW n \in Nat, NEW col, Column(col, n), NEW d \in Digits
  PROVE  /\ Column(SetValue(col, n + 1, d), n + 1)
         /\ Holds(SetValue(col, n + 1, d), n + 1, d)
         /\ \A r \in 1 .. n, e \in Digits :
              Holds(col, r, e) => Holds(SetValue(col, n + 1, d), r, e)
<1> DEFINE new == SetValue(col, n + 1, d)
           w == Larger(Len(col.bits), Len(d))
<1>1. /\ w \in Nat /\ Len(col.bits) <= w /\ Len(d) <= w
      /\ Len(col.bits) \in Nat /\ Len(d) \in Nat
      /\ DOMAIN col.bits = 1 .. Len(col.bits) /\ DOMAIN d = 1 .. Len(d)
  BY DEF Larger, Column, Digits
<1>2. /\ new.bits = [i \in 1 .. w |-> PutDigit(Slice(col, i), n + 1, d, i)]
      /\ new.exists = col.exists \cup {n + 1}
  BY DEF SetValue
<1>3. \A i : PutDigit(Slice(col, i), n + 1, d, i) \in SUBSET (1 .. n + 1)
  BY SliceRows DEF PutDigit
<1>4. /\ new.bits \in Seq(SUBSET (1 .. n + 1)) /\ Len(new.bits) = w
      /\ DOMAIN new.bits = 1 .. w
  BY <1>1, <1>2, <1>3
<1>5. new.exists = 1 .. n + 1
  <2>1. (1 .. n) \cup {n + 1} = 1 .. n + 1
    OBVIOUS
  <2> QED BY <1>2, <2>1 DEF Column
<1>6. Holds(new, n + 1, d)
  <2>1. \A i \in 1 .. w : n + 1 \in new.bits[i] <=> i \in DOMAIN d /\ d[i]
    BY <1>2 DEF PutDigit
  <2> QED BY <2>1, <1>1, <1>4, <1>5 DEF Holds
<1>7. ASSUME NEW r \in 1 .. n, NEW e \in Digits, Holds(col, r, e)
      PROVE  Holds(new, r, e)
  <2>1. \A i \in 1 .. w : r \in new.bits[i] <=> r \in Slice(col, i)
    <3>1. r # n + 1
      OBVIOUS
    <3>2. ASSUME NEW s, NEW i
          PROVE  r \in PutDigit(s, n + 1, d, i) <=> r \in s
      BY <3>1 DEF PutDigit
    <3>3. \A i \in 1 .. w : new.bits[i] = PutDigit(Slice(col, i), n + 1, d, i)
      BY <1>2
    <3> QED BY <3>2, <3>3
  <2>2. \A i \in 1 .. w : r \in Slice(col, i) <=> i \in DOMAIN e /\ e[i]
    <3> SUFFICES ASSUME NEW i \in 1 .. w
                 PROVE  r \in Slice(col, i) <=> i \in DOMAIN e /\ e[i]
      OBVIOUS
    <3>1. DOMAIN e = 1 .. Len(e) /\ Len(e) \in Nat
      BY DEF Digits
    <3>2. CASE i \in DOMAIN col.bits
      BY <3>2, <1>7 DEF Slice, Holds
    <3>3. CASE i \notin DOMAIN col.bits
      BY <3>3, <3>1, <1>1, <1>7 DEF Slice, Holds
    <3> QED BY <3>2, <3>3
  <2>3. Len(e) <= w
    BY <1>1, <1>7 DEF Holds, Digits
  <2> QED BY <2>1, <2>2, <2>3, <1>4, <1>5 DEF Holds
<1> QED BY <1>4, <1>5, <1>6, <1>7 DEF Column

\* A row moved by mergeBSI carries its value along.  The value of a row of
\* the first operand cannot be disturbed by the second, nor the other way
\* round, because no row is dealt out twice.
LEMMA MergeBSIHolds ==
  ASSUME NEW na \in Nat, NEW nb \in Nat, NEW n \in Nat, NEW ra, NEW rb,
         DealtAll(ra, rb, na, nb, n),
         NEW colA, NEW colB, Column(colA, na), Column(colB, nb)
  PROVE  LET new == MergeBSI(colA, colB, ra, rb, n) IN
         /\ Column(new, n)
         /\ \A r \in 1 .. na, e \in Digits :
              Holds(colA, r, e) => Holds(new, ra[r], e)
         /\ \A r \in 1 .. nb, e \in Digits :
              Holds(colB, r, e) => Holds(new, rb[r], e)
<1> DEFINE new == MergeBSI(colA, colB, ra, rb, n)
           w == Larger(Len(colA.bits), Len(colB.bits))
<1>1. /\ w \in Nat /\ Len(colA.bits) <= w /\ Len(colB.bits) <= w
      /\ Len(colA.bits) \in Nat /\ Len(colB.bits) \in Nat
      /\ DOMAIN colA.bits = 1 .. Len(colA.bits)
      /\ DOMAIN colB.bits = 1 .. Len(colB.bits)
  BY DEF Larger, Column
<1>2. /\ new.bits = [i \in 1 .. w |-> MoveBitmap(Slice(colA, i), ra)
                                        \cup MoveBitmap(Slice(colB, i), rb)]
      /\ new.exists = 1 .. n
  BY DEF MergeBSI
<1>3. \A i : /\ Slice(colA, i) \in SUBSET (1 .. na)
             /\ Slice(colB, i) \in SUBSET (1 .. nb)
  BY SliceRows
<1>4. \A i : MoveBitmap(Slice(colA, i), ra) \cup MoveBitmap(Slice(colB, i), rb)
               \in SUBSET (1 .. n)
  BY <1>3 DEF MoveBitmap, DealtAll
<1>5. new.bits \in Seq(SUBSET (1 .. n)) /\ Len(new.bits) = w /\ DOMAIN new.bits = 1 .. w
  BY <1>1, <1>2, <1>4
<1>6. ASSUME NEW r \in 1 .. na, NEW e \in Digits, Holds(colA, r, e)
      PROVE  Holds(new, ra[r], e)
  <2>1. ra[r] \in 1 .. n
    BY DEF DealtAll
  <2>2. \A i \in 1 .. w : ra[r] \in new.bits[i] <=> r \in Slice(colA, i)
    BY <1>2, <1>3 DEF MoveBitmap, DealtAll
  <2>3. \A i \in 1 .. w : r \in Slice(colA, i) <=> i \in DOMAIN e /\ e[i]
    BY <1>1, <1>6 DEF Slice, Holds, Digits
  <2> QED BY <2>1, <2>2, <2>3, <1>1, <1>2, <1>5, <1>6 DEF Holds, Digits
<1>7. ASSUME NEW r \in 1 .. nb, NEW e \in Digits, Holds(colB, r, e)
      PROVE  Holds(new, rb[r], e)
  <2>1. rb[r] \in 1 .. n
    BY DEF DealtAll
  <2>2. \A i \in 1 .. w : rb[r] \in new.bits[i] <=> r \in Slice(colB, i)
    BY <1>2, <1>3 DEF MoveBitmap, DealtAll
  <2>3. \A i \in 1 .. w : r \in Slice(colB, i) <=> i \in DOMAIN e /\ e[i]
    BY <1>1, <1>7 DEF Slice, Holds, Digits
  <2> QED BY <2>1, <2>2, <2>3, <1>1, <1>2, <1>5, <1>7 DEF Holds, Digits
<1> QED BY <1>2, <1>5, <1>6, <1>7 DEF Column
-----------------------------------------------------------------------------
(* Indexes.                                                                *)

LEMMA NewIndexSound == Sound(NewIndex)
<1>1. Shaped(NewIndex)
  BY DEF Shaped, NewIndex, NewBSI
<1> QED BY <1>1 DEF Sound, PostingsFollow, TimesRead, KeyMapLeads, NewIndex

LEMMA ColumnsOf ==
  ASSUME NEW x, Shaped(x)
  PROVE  /\ Len(x.keys) \in Nat /\ DOMAIN x.keys = 1 .. Len(x.keys)
         /\ Column(x.startTime, Len(x.keys)) /\ Column(x.endTime, Len(x.keys))
  BY DEF Shaped, Column

\* indexEvent keeps an index sound.
LEMMA AddEventSound ==
  ASSUME NEW x, Sound(x), NEW k \in Key
  PROVE  Sound(AddEvent(x, k))
<1> DEFINE n == Len(x.keys)
           c == Local(k)
           y == AddEvent(x, k)
<1>0. /\ c \in Key /\ c.zone = "Local" /\ Labels[k] = Labels[c]
      /\ StartDigits[k] = StartDigits[c] /\ EndDigits[k] = EndDigits[c]
  BY MergeAssumption
<1>1. Shaped(x) /\ n \in Nat /\ DOMAIN x.keys = 1 .. n
      /\ Column(x.startTime, n) /\ Column(x.endTime, n)
  BY ColumnsOf DEF Sound
<1>2. /\ y.all = x.all \cup {n + 1}
      /\ y.keys = Append(x.keys, c)
      /\ y.indexes = [l \in DOMAIN x.indexes \cup {c} |->
                        IF l = c THEN n + 1 ELSE x.indexes[l]]
      /\ y.postings = [l \in Label |-> x.postings[l]
                         \cup (IF l \in Labels[c] THEN {n + 1} ELSE {})]
      /\ y.startTime = SetValue(x.startTime, n + 1, StartDigits[c])
      /\ y.endTime = SetValue(x.endTime, n + 1, EndDigits[c])
  BY <1>0 DEF AddEvent
<1> HIDE DEF c, y
<1>3. /\ y.keys \in Seq(Key) /\ DOMAIN y.keys = 1 .. n + 1
      /\ y.keys[n + 1] = c /\ \A r \in 1 .. n : y.keys[r] = x.keys[r]
      /\ 1 .. n + 1 = (1 .. n) \cup {n + 1} /\ n + 1 \notin 1 .. n
  BY <1>1, <1>2, <1>0 DEF Shaped
<1>4. /\ StartDigits[c] \in Digits /\ EndDigits[c] \in Digits
      /\ \A r \in 1 .. n : /\ StartDigits[x.keys[r]] \in Digits
                           /\ EndDigits[x.keys[r]] \in Digits
  BY <1>1, <1>0, MergeAssumption DEF Shaped
<1>5. Shaped(y)
  <2>1. Column(y.startTime, n + 1) /\ Column(y.endTime, n + 1)
    BY <1>1, <1>2, <1>4, SetValueHolds
  <2>2. y.all = DOMAIN y.keys
    BY <1>1, <1>2, <1>3 DEF Shaped
  <2>3. y.postings \in [Label -> SUBSET DOMAIN y.keys]
    BY <1>1, <1>2, <1>3 DEF Shaped
  <2> QED BY <1>3, <2>1, <2>2, <2>3 DEF Shaped, Column
<1>6. PostingsFollow(y)
  <2>1. \A l \in Label :
          x.postings[l] = {r \in 1 .. n : l \in Labels[x.keys[r]]}
    BY <1>1 DEF Sound, PostingsFollow
  <2> QED BY <1>2, <1>3, <2>1 DEF PostingsFollow
<1>7. TimesRead(y)
  <2>1. /\ Holds(y.startTime, n + 1, StartDigits[c])
        /\ Holds(y.endTime, n + 1, EndDigits[c])
    BY <1>1, <1>2, <1>4, SetValueHolds
  <2>2. \A r \in 1 .. n : /\ Holds(y.startTime, r, StartDigits[x.keys[r]])
                          /\ Holds(y.endTime, r, EndDigits[x.keys[r]])
    <3>1. \A r \in 1 .. n : /\ Holds(x.startTime, r, StartDigits[x.keys[r]])
                            /\ Holds(x.endTime, r, EndDigits[x.keys[r]])
      BY <1>1 DEF Sound, TimesRead
    <3> QED BY <1>1, <1>2, <1>4, <3>1, SetValueHolds
  <2> QED BY <1>3, <2>1, <2>2 DEF TimesRead
<1>8. KeyMapLeads(y)
  <2>1. /\ DOMAIN x.indexes = {x.keys[r] : r \in 1 .. n}
        /\ \A l \in DOMAIN x.indexes :
             l.zone = "Local" /\ x.indexes[l] \in 1 .. n /\ x.keys[x.indexes[l]] = l
    BY <1>1 DEF Sound, KeyMapLeads
  <2>2. {x.keys[r] : r \in 1 .. n} \cup {c} = {y.keys[r] : r \in 1 .. n + 1}
    <3>1. \A r \in 1 .. n + 1 : r \in 1 .. n \/ r = n + 1
      BY <1>3
    <3> QED BY <1>3, <3>1
  <2>3. ASSUME NEW l \in DOMAIN y.indexes
        PROVE  l.zone = "Local" /\ y.indexes[l] \in 1 .. n + 1 /\ y.keys[y.indexes[l]] = l
    <3>1. CASE l = c
      BY <3>1, <1>1, <1>2, <1>3, <1>0
    <3>2. CASE l # c
      <4>1. y.indexes[l] = x.indexes[l] /\ l \in DOMAIN x.indexes
        BY <3>2, <1>2
      <4> QED BY <4>1, <2>1, <1>3
    <3> QED BY <3>1, <3>2
  <2>4. DOMAIN y.indexes = DOMAIN x.indexes \cup {c}
    BY <1>2
  <2> QED BY <1>3, <2>1, <2>2, <2>3, <2>4 DEF KeyMapLeads
<1> QED BY <1>5, <1>6, <1>7, <1>8 DEF Sound, y

\* When the key loops are over every row has been dealt out.
LEMMA LoopsDealt ==
  ASSUME TypeOK, RowsDealtOut, pc = "merge", ~AtoGo, ~BtoGo
  PROVE  /\ Len(a.keys) \in Nat /\ Len(b.keys) \in Nat /\ Len(keys) \in Nat
         /\ DOMAIN keys = 1 .. Len(keys)
         /\ DOMAIN a.keys = 1 .. Len(a.keys) /\ DOMAIN b.keys = 1 .. Len(b.keys)
         /\ DealtAll(remapA, remapB, Len(a.keys), Len(b.keys), Len(keys))
         /\ \A p \in 1 .. Len(a.keys) : keys[remapA[p]] = a.keys[p]
         /\ \A p \in 1 .. Len(b.keys) : keys[remapB[p]] = b.keys[p]
<1>1. Shaped(a) /\ Shaped(b)
  BY DEF TypeOK
<1>2. /\ Len(a.keys) \in Nat /\ Len(b.keys) \in Nat /\ Len(keys) \in Nat
      /\ DOMAIN keys = 1 .. Len(keys)
      /\ DOMAIN a.keys = 1 .. Len(a.keys) /\ DOMAIN b.keys = 1 .. Len(b.keys)
  BY <1>1, ColumnsOf DEF TypeOK
<1>3. /\ Embeds(remapA, a.keys, keys) /\ Embeds(remapB, b.keys, keys)
      /\ Dealt(remapA, remapB, keys)
  BY DEF RowsDealtOut
<1>4. /\ Len(remapA) = Len(a.keys) /\ Len(remapB) = Len(b.keys)
      /\ DOMAIN remapA = 1 .. Len(a.keys) /\ DOMAIN remapB = 1 .. Len(b.keys)
  BY <1>2, <1>3 DEF Embeds, AtoGo, BtoGo
<1>5. /\ remapA \in [1 .. Len(a.keys) -> 1 .. Len(keys)]
      /\ remapB \in [1 .. Len(b.keys) -> 1 .. Len(keys)]
  BY <1>2, <1>3, <1>4 DEF Embeds
<1>6. /\ \A p, q \in 1 .. Len(a.keys) : remapA[p] = remapA[q] => p = q
      /\ \A p, q \in 1 .. Len(b.keys) : remapB[p] = remapB[q] => p = q
  <2>1. ASSUME NEW p \in 1 .. Len(a.keys), NEW q \in 1 .. Len(a.keys), p < q
        PROVE  remapA[p] # remapA[q]
    BY <1>3, <1>4, <1>5, <2>1 DEF Embeds
  <2>2. ASSUME NEW p \in 1 .. Len(b.keys), NEW q \in 1 .. Len(b.keys), p < q
        PROVE  remapB[p] # remapB[q]
    BY <1>3, <1>4, <1>5, <2>2 DEF Embeds
  <2> QED BY <1>2, <2>1, <2>2
<1>7. /\ \A p \in 1 .. Len(a.keys) : keys[remapA[p]] = a.keys[p]
      /\ \A p \in 1 .. Len(b.keys) : keys[remapB[p]] = b.keys[p]
  BY <1>3, <1>4 DEF Embeds
<1>8. \A m \in 1 .. Len(keys) :
        (\E p \in 1 .. Len(a.keys) : remapA[p] = m)
          <=> ~(\E q \in 1 .. Len(b.keys) : remapB[q] = m)
  BY <1>2, <1>3, <1>4 DEF Dealt
<1>9. \A p \in 1 .. Len(a.keys), q \in 1 .. Len(b.keys) : remapA[p] # remapB[q]
  BY <1>5, <1>8
<1> QED BY <1>2, <1>5, <1>6, <1>7, <1>8, <1>9 DEF DealtAll

\* The result of a merge is sound.
LEMMA MergedSound ==
  ASSUME TypeOK, RowsDealtOut, pc = "merge", ~AtoGo, ~BtoGo, Sound(a), Sound(b)
  PROVE  Sound(Merged)
<1> DEFINE na == Len(a.keys)
           nb == Len(b.keys)
           n == Len(keys)
<1>1. /\ na \in Nat /\ nb \in Nat /\ n \in Nat
      /\ DOMAIN keys = 1 .. n
      /\ DOMAIN a.keys = 1 .. na /\ DOMAIN b.keys = 1 .. nb
      /\ DealtAll(remapA, remapB, na, nb, n)
      /\ \A p \in 1 .. na : keys[remapA[p]] = a.keys[p]
      /\ \A p \in 1 .. nb : keys[remapB[p]] = b.keys[p]
  BY LoopsDealt
<1>2. /\ Shaped(a) /\ Column(a.startTime, na) /\ Column(a.endTime, na)
      /\ Shaped(b) /\ Column(b.startTime, nb) /\ Column(b.endTime, nb)
  BY ColumnsOf DEF Sound
<1>3. /\ Merged.all = 1 .. n
      /\ Merged.keys = keys
      /\ Merged.indexes = MergeKeyMap(a, b, remapA, remapB)
      /\ Merged.postings = MergePostings(a, b, remapA, remapB)
      /\ Merged.startTime = MergeBSI(a.startTime, b.startTime, remapA, remapB, n)
      /\ Merged.endTime = MergeBSI(a.endTime, b.endTime, remapA, remapB, n)
  BY DEF Merged, AllRows
<1>4. \A p \in 1 .. na : StartDigits[a.keys[p]] \in Digits /\ EndDigits[a.keys[p]] \in Digits
  BY <1>1, <1>2, MergeAssumption DEF Shaped
<1>5. \A p \in 1 .. nb : StartDigits[b.keys[p]] \in Digits /\ EndDigits[b.keys[p]] \in Digits
  BY <1>1, <1>2, MergeAssumption DEF Shaped
<1>6. ASSUME NEW m \in 1 .. n
      PROVE  \/ \E p \in 1 .. na : m = remapA[p] /\ keys[m] = a.keys[p]
             \/ \E p \in 1 .. nb : m = remapB[p] /\ keys[m] = b.keys[p]
  <2>1. CASE \E p \in 1 .. na : remapA[p] = m
    BY <2>1, <1>1
  <2>2. CASE \E p \in 1 .. nb : remapB[p] = m
    BY <2>2, <1>1
  <2> QED BY <2>1, <2>2, <1>1 DEF DealtAll
<1>7. Shaped(Merged)
  <2>1. Column(Merged.startTime, n) /\ Column(Merged.endTime, n)
    BY <1>1, <1>2, <1>3, MergeBSIHolds
  <2>2. /\ a.postings \in [Label -> SUBSET (1 .. na)]
        /\ b.postings \in [Label -> SUBSET (1 .. nb)]
    BY <1>1, <1>2 DEF Shaped
  <2>3. \A l \in Label : /\ MoveBitmap(a.postings[l], remapA) \in SUBSET (1 .. n)
                         /\ MoveBitmap(b.postings[l], remapB) \in SUBSET (1 .. n)
    BY <1>1, <2>2 DEF MoveBitmap, DealtAll
  <2>4. Merged.postings \in [Label -> SUBSET (1 .. n)]
    BY <1>3, <2>3 DEF MergePostings
  <2> QED BY <1>1, <1>3, <2>1, <2>4 DEF Shaped, Column, TypeOK
<1>8. PostingsFollow(Merged)
  <2> SUFFICES ASSUME NEW l \in Label
               PROVE  Merged.postings[l] = {r \in 1 .. n : l \in Labels[keys[r]]}
    BY <1>1, <1>3 DEF PostingsFollow
  <2>1. /\ a.postings[l] = {r \in 1 .. na : l \in Labels[a.keys[r]]}
        /\ b.postings[l] = {r \in 1 .. nb : l \in Labels[b.keys[r]]}
    BY <1>1 DEF Sound, PostingsFollow
  <2>2. Merged.postings[l] = {remapA[r] : r \in a.postings[l]}
                               \cup {remapB[r] : r \in b.postings[l]}
    BY <1>3 DEF MergePostings, MoveBitmap
  <2>3. ASSUME NEW m \in Merged.postings[l]
        PROVE  m \in 1 .. n /\ l \in Labels[keys[m]]
    BY <1>1, <2>1, <2>2 DEF DealtAll
  <2>4. ASSUME NEW m \in 1 .. n, l \in Labels[keys[m]]
        PROVE  m \in Merged.postings[l]
    BY <1>6, <2>1, <2>2, <2>4
  <2> QED BY <2>3, <2>4
<1>9. TimesRead(Merged)
  <2>1. /\ \A p \in 1 .. na : /\ Holds(a.startTime, p, StartDigits[a.keys[p]])
                              /\ Holds(a.endTime, p, EndDigits[a.keys[p]])
        /\ \A p \in 1 .. nb : /\ Holds(b.startTime, p, StartDigits[b.keys[p]])
                              /\ Holds(b.endTime, p, EndDigits[b.keys[p]])
    BY <1>1 DEF Sound, TimesRead
  <2>2. \A p \in 1 .. na :
          /\ Holds(Merged.startTime, remapA[p], StartDigits[a.keys[p]])
          /\ Holds(Merged.endTime, remapA[p], EndDigits[a.keys[p]])
    BY <1>1, <1>2, <1>3, <1>4, <2>1, MergeBSIHolds
  <2>3. \A p \in 1 .. nb :
          /\ Holds(Merged.startTime, remapB[p], StartDigits[b.keys[p]])
          /\ Holds(Merged.endTime, remapB[p], EndDigits[b.keys[p]])
    BY <1>1, <1>2, <1>3, <1>5, <2>1, MergeBSIHolds
  <2> QED BY <1>1, <1>3, <1>6, <2>2, <2>3 DEF TimesRead
<1>10. KeyMapLeads(Merged)
  <2>1. /\ DOMAIN a.indexes = {a.keys[r] : r \in 1 .. na}
        /\ \A k \in DOMAIN a.indexes :
             k.zone = "Local" /\ a.indexes[k] \in 1 .. na /\ a.keys[a.indexes[k]] = k
        /\ DOMAIN b.indexes = {b.keys[r] : r \in 1 .. nb}
        /\ \A k \in DOMAIN b.indexes :
             k.zone = "Local" /\ b.indexes[k] \in 1 .. nb /\ b.keys[b.indexes[k]] = k
    BY <1>1 DEF Sound, KeyMapLeads
  <2>2. /\ DOMAIN Merged.indexes = DOMAIN a.indexes \cup DOMAIN b.indexes
        /\ \A k \in DOMAIN Merged.indexes :
             Merged.indexes[k] = IF k \in DOMAIN b.indexes
                                   THEN remapB[b.indexes[k]]
                                   ELSE remapA[a.indexes[k]]
    BY <1>3 DEF MergeKeyMap
  <2>3. DOMAIN a.indexes \cup DOMAIN b.indexes = {keys[r] : r \in 1 .. n}
    <3>0. /\ DOMAIN a.indexes = {a.keys[r] : r \in 1 .. na}
          /\ DOMAIN b.indexes = {b.keys[r] : r \in 1 .. nb}
      BY <2>1
    <3>1. ASSUME NEW r \in 1 .. na
          PROVE  a.keys[r] \in {keys[m] : m \in 1 .. n}
      <4>1. remapA[r] \in 1 .. n /\ a.keys[r] = keys[remapA[r]]
        BY <1>1 DEF DealtAll
      <4> QED BY <4>1
    <3>2. ASSUME NEW r \in 1 .. nb
          PROVE  b.keys[r] \in {keys[m] : m \in 1 .. n}
      <4>1. remapB[r] \in 1 .. n /\ b.keys[r] = keys[remapB[r]]
        BY <1>1 DEF DealtAll
      <4> QED BY <4>1
    <3>3. ASSUME NEW m \in 1 .. n
          PROVE  keys[m] \in DOMAIN a.indexes \cup DOMAIN b.indexes
      BY <1>6, <3>0
    <3> QED BY <3>0, <3>1, <3>2, <3>3
  <2>4. \A k \in DOMAIN Merged.indexes :
          Merged.indexes[k] \in 1 .. n /\ keys[Merged.indexes[k]] = k
    <3> SUFFICES ASSUME NEW k \in DOMAIN Merged.indexes
                 PROVE  Merged.indexes[k] \in 1 .. n /\ keys[Merged.indexes[k]] = k
      OBVIOUS
    <3>1. CASE k \in DOMAIN b.indexes
      <4>1. Merged.indexes[k] = remapB[b.indexes[k]]
        BY <3>1, <2>2
      <4>2. b.indexes[k] \in 1 .. nb /\ b.keys[b.indexes[k]] = k
        BY <3>1, <2>1
      <4>3. /\ remapB[b.indexes[k]] \in 1 .. n
            /\ keys[remapB[b.indexes[k]]] = b.keys[b.indexes[k]]
        BY <4>2, <1>1 DEF DealtAll
      <4> QED BY <4>1, <4>2, <4>3
    <3>2. CASE k \notin DOMAIN b.indexes
      <4>1. Merged.indexes[k] = remapA[a.indexes[k]] /\ k \in DOMAIN a.indexes
        BY <3>2, <2>2
      <4>2. a.indexes[k] \in 1 .. na /\ a.keys[a.indexes[k]] = k
        BY <4>1, <2>1
      <4>3. /\ remapA[a.indexes[k]] \in 1 .. n
            /\ keys[remapA[a.indexes[k]]] = a.keys[a.indexes[k]]
        BY <4>2, <1>1 DEF DealtAll
      <4> QED BY <4>1, <4>2, <4>3
    <3> QED BY <3>1, <3>2
  <2>5. \A k \in DOMAIN Merged.indexes : k.zone = "Local"
    BY <2>1, <2>2
  <2> QED BY <1>1, <1>3, <2>2, <2>3, <2>4, <2>5 DEF KeyMapLeads
<1> QED BY <1>7, <1>8, <1>9, <1>10 DEF Sound
-----------------------------------------------------------------------------
(* The invariant.                                                          *)

LEMMA IInvTypes == ASSUME IInv PROVE TypeOK
  BY DEF IInv, Scalars, AllSound, Sound, TypeOK, Live

LEMMA InitInv == ASSUME Init PROVE IInv
<1>1. Scalars
  BY MergeAssumption DEF Init, Scalars, Level
<1>2. AllSound
  BY NewIndexSound DEF Init, AllSound
<1>3. RowsDealtOut
  BY DEF Init, RowsDealtOut
<1> QED BY <1>1, <1>2, <1>3 DEF IInv

\* Neither call of mergeTwoIndices can disturb the invariant: a nil operand
\* leaves the other as the result, and two proper ones start empty loops.
LEMMA CallMergeInv ==
  ASSUME IInv, NEW x, NEW y, Sound(x), Sound(y), NEW lv,
         lv = [i \in Level |-> lv[i]],
         \A i \in Level : Sound(lv[i]), NEW d \in Level, pc # "merge",
         CallMerge(x, y, lv, d), UNCHANGED <<left, fresh, taken>>
  PROVE  IInv'
<1>1. CASE x.keys = <<>> \/ y.keys = <<>>
  <2>1. /\ level' = [lv EXCEPT ![d] = IF x.keys = <<>> THEN y ELSE x]
        /\ pc' = "idle" /\ UNCHANGED mvars
    BY <1>1 DEF CallMerge
  <2>2. \A i \in Level : level'[i] = lv[i] \/ level'[i] \in {x, y}
    BY <2>1
  <2>3. Scalars'
    BY <2>1 DEF IInv, Scalars, mvars
  <2>4. AllSound'
    <3>1. \A i \in Level : Sound(level'[i])
      BY <2>2
    <3> QED BY <2>1, <3>1 DEF IInv, AllSound, mvars
  <2>5. RowsDealtOut'
    BY <2>1 DEF RowsDealtOut
  <2> QED BY <2>3, <2>4, <2>5 DEF IInv
<1>2. CASE ~(x.keys = <<>> \/ y.keys = <<>>)
  <2>1. /\ level' = lv
        /\ a' = x /\ b' = y /\ dst' = d /\ pc' = "merge"
        /\ keys' = <<>> /\ remapA' = <<>> /\ remapB' = <<>>
    BY <1>2 DEF CallMerge
  <2>2. Scalars'
    BY <2>1 DEF IInv, Scalars
  <2>3. AllSound'
    BY <2>1 DEF IInv, AllSound
  <2>4. RowsDealtOut'
    <3>1. Len(x.keys) \in Nat /\ Len(y.keys) \in Nat
      BY ColumnsOf DEF Sound
    <3> QED BY <2>1, <3>1 DEF RowsDealtOut, Embeds, Dealt
  <2> QED BY <2>2, <2>3, <2>4 DEF IInv
<1> QED BY <1>1, <1>2

LEMMA EmbedsNext ==
  ASSUME NEW ks \in Seq(Key), NEW ka \in Seq(Key), NEW ra, Embeds(ra, ka, ks),
         Len(ra) < Len(ka)
  PROVE  Embeds(Append(ra, Len(ks) + 1), ka, Append(ks, ka[Len(ra) + 1]))
<1> DEFINE n == Len(ks)
           p == Len(ra)
           rn == Append(ra, n + 1)
           kn == Append(ks, ka[p + 1])
<1>1. /\ n \in Nat /\ DOMAIN ks = 1 .. n /\ ra \in Seq(1 .. n)
      /\ p \in Nat /\ DOMAIN ra = 1 .. p
      /\ Len(ka) \in Nat /\ ka[p + 1] \in Key
  BY DEF Embeds
<1>2. /\ kn \in Seq(Key) /\ DOMAIN kn = 1 .. n + 1 /\ kn[n + 1] = ka[p + 1]
      /\ \A m \in 1 .. n : kn[m] = ks[m]
  BY <1>1
<1>3. /\ rn \in Seq(1 .. n + 1) /\ Len(rn) = p + 1 /\ DOMAIN rn = 1 .. p + 1
      /\ rn[p + 1] = n + 1 /\ \A m \in 1 .. p : rn[m] = ra[m]
  BY <1>1
<1>4. \A m \in 1 .. p : ra[m] \in 1 .. n
  BY <1>1
<1>5. ASSUME NEW l \in 1 .. p + 1, NEW m \in 1 .. p + 1, l < m
      PROVE  rn[l] < rn[m]
  <2>1. l \in 1 .. p /\ rn[l] = ra[l] /\ ra[l] \in 1 .. n
    <3>1. l \in 1 .. p
      BY <1>1, <1>5
    <3> QED BY <3>1, <1>3, <1>4
  <2>2. CASE m = p + 1
    BY <2>1, <2>2, <1>1, <1>3
  <2>3. CASE m \in 1 .. p
    <3>1. ra[l] < ra[m]
      BY <2>1, <2>3, <1>1, <1>5 DEF Embeds
    <3> QED BY <3>1, <2>1, <2>3, <1>3
  <2> QED BY <2>2, <2>3, <1>1
<1>6. ASSUME NEW m \in 1 .. p + 1
      PROVE  kn[rn[m]] = ka[m]
  <2>1. CASE m = p + 1
    BY <2>1, <1>2, <1>3
  <2>2. CASE m \in 1 .. p
    <3>1. ks[ra[m]] = ka[m]
      BY <2>2, <1>1 DEF Embeds
    <3> QED BY <3>1, <2>2, <1>2, <1>3, <1>4
  <2> QED BY <2>1, <2>2, <1>1
<1> HIDE DEF rn, kn
<1>7. Embeds(rn, ka, kn)
  BY <1>1, <1>2, <1>3, <1>5, <1>6 DEF Embeds
<1> QED BY <1>7 DEF rn, kn

LEMMA EmbedsOther ==
  ASSUME NEW ks \in Seq(Key), NEW kb, NEW rb, Embeds(rb, kb, ks), NEW k \in Key
  PROVE  Embeds(rb, kb, Append(ks, k))
<1> DEFINE n == Len(ks)
           kn == Append(ks, k)
<1>1. /\ n \in Nat /\ DOMAIN ks = 1 .. n /\ rb \in Seq(1 .. n)
      /\ DOMAIN kn = 1 .. n + 1 /\ \A m \in 1 .. n : kn[m] = ks[m]
  BY DEF Embeds
<1>2. \A m \in DOMAIN rb : rb[m] \in 1 .. n
  BY <1>1
<1>3. rb \in Seq(1 .. n + 1)
  BY <1>1
<1> HIDE DEF kn
<1>4. Embeds(rb, kb, kn)
  BY <1>1, <1>2, <1>3 DEF Embeds
<1> QED BY <1>4 DEF kn

LEMMA DealtNext ==
  ASSUME NEW ks \in Seq(Key), NEW k \in Key,
         NEW ra \in Seq(DOMAIN ks), NEW rb \in Seq(DOMAIN ks), Dealt(ra, rb, ks)
  PROVE  /\ Dealt(Append(ra, Len(ks) + 1), rb, Append(ks, k))
         /\ Dealt(ra, Append(rb, Len(ks) + 1), Append(ks, k))
<1> DEFINE n == Len(ks)
<1>1. /\ n \in Nat /\ DOMAIN ks = 1 .. n /\ DOMAIN Append(ks, k) = 1 .. n + 1
      /\ DOMAIN ra = 1 .. Len(ra) /\ DOMAIN rb = 1 .. Len(rb)
      /\ Len(ra) \in Nat /\ Len(rb) \in Nat
      /\ \A m \in DOMAIN ra : ra[m] \in 1 .. n
      /\ \A m \in DOMAIN rb : rb[m] \in 1 .. n
  OBVIOUS
<1>2. ASSUME NEW r \in Seq(1 .. n), NEW m \in 1 .. n + 1
      PROVE  (\E q \in DOMAIN Append(r, n + 1) : Append(r, n + 1)[q] = m)
               <=> m = n + 1 \/ \E q \in DOMAIN r : r[q] = m
  <2>1. /\ Len(r) \in Nat /\ DOMAIN r = 1 .. Len(r)
        /\ DOMAIN Append(r, n + 1) = 1 .. Len(r) + 1
        /\ Append(r, n + 1)[Len(r) + 1] = n + 1
        /\ \A q \in 1 .. Len(r) : Append(r, n + 1)[q] = r[q]
    BY <1>1
  <2>2. \A q \in 1 .. Len(r) + 1 : q \in 1 .. Len(r) \/ q = Len(r) + 1
    BY <2>1
  <2>3. Len(r) + 1 \in 1 .. Len(r) + 1 /\ 1 .. Len(r) \subseteq 1 .. Len(r) + 1
    BY <2>1
  <2> QED BY <2>1, <2>2, <2>3
<1>3. \A m \in 1 .. n + 1 : m = n + 1 \/ m \in 1 .. n
  BY <1>1
<1>4. n + 1 \notin 1 .. n
  BY <1>1
<1>5. ra \in Seq(1 .. n) /\ rb \in Seq(1 .. n)
  BY <1>1
<1>6. \A m \in 1 .. n :
        (\E q \in DOMAIN ra : ra[q] = m) <=> ~(\E q \in DOMAIN rb : rb[q] = m)
  BY <1>1 DEF Dealt
<1>7. ~(\E q \in DOMAIN ra : ra[q] = n + 1) /\ ~(\E q \in DOMAIN rb : rb[q] = n + 1)
  BY <1>1, <1>4
<1>8. Dealt(Append(ra, n + 1), rb, Append(ks, k))
  <2> SUFFICES ASSUME NEW m \in 1 .. n + 1
               PROVE  (\E q \in DOMAIN Append(ra, n + 1) : Append(ra, n + 1)[q] = m)
                        <=> ~(\E q \in DOMAIN rb : rb[q] = m)
    BY <1>1 DEF Dealt
  <2>1. (\E q \in DOMAIN Append(ra, n + 1) : Append(ra, n + 1)[q] = m)
          <=> m = n + 1 \/ \E q \in DOMAIN ra : ra[q] = m
    BY <1>2, <1>5
  <2> QED BY <2>1, <1>3, <1>4, <1>6, <1>7
<1>9. Dealt(ra, Append(rb, n + 1), Append(ks, k))
  <2> SUFFICES ASSUME NEW m \in 1 .. n + 1
               PROVE  (\E q \in DOMAIN ra : ra[q] = m)
                        <=> ~(\E q \in DOMAIN Append(rb, n + 1) : Append(rb, n + 1)[q] = m)
    BY <1>1 DEF Dealt
  <2>1. (\E q \in DOMAIN Append(rb, n + 1) : Append(rb, n + 1)[q] = m)
          <=> m = n + 1 \/ \E q \in DOMAIN rb : rb[q] = m
    BY <1>2, <1>5
  <2> QED BY <2>1, <1>3, <1>4, <1>6, <1>7
<1> QED BY <1>8, <1>9

LEMMA TakeInv == ASSUME IInv, TakeA \/ TakeB PROVE IInv'
<1>1. /\ pc = "merge" /\ UNCHANGED <<left, fresh, level, pc, a, b, dst, taken>>
      /\ keys \in Seq(Key) /\ a.keys \in Seq(Key) /\ b.keys \in Seq(Key)
      /\ Embeds(remapA, a.keys, keys) /\ Embeds(remapB, b.keys, keys)
      /\ Dealt(remapA, remapB, keys)
      /\ remapA \in Seq(DOMAIN keys) /\ remapB \in Seq(DOMAIN keys)
  BY DEF IInv, Scalars, AllSound, Sound, Shaped, RowsDealtOut, TakeA, TakeB
<1>2. RowsDealtOut' /\ keys' \in Seq(Key)
  <2>1. CASE TakeA
    <3>1. /\ Len(remapA) < Len(a.keys) /\ remapB' = remapB
          /\ keys' = Append(keys, a.keys[Len(remapA) + 1])
          /\ remapA' = Append(remapA, Len(keys) + 1)
      BY <2>1 DEF TakeA, AtoGo, NextA, Row
    <3>2. a.keys[Len(remapA) + 1] \in Key
      BY <1>1, <3>1
    <3>3. /\ Embeds(remapA', a.keys, keys') /\ Embeds(remapB', b.keys, keys')
          /\ Dealt(remapA', remapB', keys')
      BY <1>1, <3>1, <3>2, EmbedsNext, EmbedsOther, DealtNext
    <3> QED BY <1>1, <3>1, <3>2, <3>3 DEF RowsDealtOut
  <2>2. CASE TakeB
    <3>1. /\ Len(remapB) < Len(b.keys) /\ remapA' = remapA
          /\ keys' = Append(keys, b.keys[Len(remapB) + 1])
          /\ remapB' = Append(remapB, Len(keys) + 1)
      BY <2>2 DEF TakeB, BtoGo, NextB, Row
    <3>2. b.keys[Len(remapB) + 1] \in Key
      BY <1>1, <3>1
    <3>3. /\ Embeds(remapA', a.keys, keys') /\ Embeds(remapB', b.keys, keys')
          /\ Dealt(remapA', remapB', keys')
      BY <1>1, <3>1, <3>2, EmbedsNext, EmbedsOther, DealtNext
    <3> QED BY <1>1, <3>1, <3>2, <3>3 DEF RowsDealtOut
  <2> QED BY <2>1, <2>2
<1>3. Scalars'
  <2>1. remapA' \in Seq(DOMAIN keys') /\ remapB' \in Seq(DOMAIN keys')
    BY <1>1, <1>2 DEF RowsDealtOut, Embeds
  <2> QED BY <1>1, <1>2, <2>1 DEF IInv, Scalars
<1>4. AllSound'
  BY <1>1 DEF IInv, AllSound
<1> QED BY <1>2, <1>3, <1>4 DEF IInv

LEMMA FinishInv == ASSUME IInv, Finish PROVE IInv'
<1>1. /\ pc = "merge" /\ ~AtoGo /\ ~BtoGo
      /\ level' = [level EXCEPT ![dst] = Merged]
      /\ pc' = "idle" /\ a' = NewIndex /\ b' = NewIndex /\ dst' = 0
      /\ keys' = <<>> /\ remapA' = <<>> /\ remapB' = <<>>
      /\ UNCHANGED <<left, fresh, taken>>
  BY DEF Finish
<1>2. Sound(Merged)
  BY <1>1, IInvTypes, MergedSound DEF IInv, AllSound
<1>3. Scalars'
  <2>1. 0 \in Level
    BY MergeAssumption DEF Level
  <2>2. level' = [i \in Level |-> level'[i]]
    BY <1>1 DEF IInv, Scalars
  <2> QED BY <1>1, <2>1, <2>2 DEF IInv, Scalars
<1>4. AllSound'
  <2>1. \A i \in Level : level'[i] = level[i] \/ level'[i] = Merged
    BY <1>1 DEF IInv, Scalars
  <2>2. \A i \in Level : Sound(level'[i])
    BY <1>2, <2>1 DEF IInv, AllSound
  <2>3. Sound(fresh) /\ Sound(NewIndex)
    BY NewIndexSound DEF IInv, AllSound
  <2> QED BY <1>1, <2>2, <2>3 DEF AllSound
<1>5. RowsDealtOut'
  BY <1>1 DEF RowsDealtOut
<1> QED BY <1>3, <1>4, <1>5 DEF IInv

LEMMA NextInv == ASSUME IInv, [Next]_vars PROVE IInv'
<1>1. CASE FromMemTable
  <2>1. left' \in Seq(Key)
    <3>1. MemTable \subseteq Seq(Key)
      BY MergeAssumption DEF MemTable
    <3> QED BY <1>1, <3>1 DEF FromMemTable
  <2>2. /\ pc' = "index" /\ taken < MaxTables /\ taken' = taken + 1
        /\ fresh' = NewIndex /\ UNCHANGED <<level, mvars>>
    BY <1>1 DEF FromMemTable
  <2>3. Scalars'
    BY <2>1, <2>2, MergeAssumption DEF IInv, Scalars, mvars
  <2>4. AllSound'
    BY <2>2, NewIndexSound DEF IInv, AllSound, mvars
  <2>5. RowsDealtOut'
    BY <2>2 DEF RowsDealtOut
  <2> QED BY <2>3, <2>4, <2>5 DEF IInv
<1>2. CASE IndexEvent
  <2>1. /\ pc = "index" /\ left # <<>> /\ left' = Tail(left)
        /\ fresh' = AddEvent(fresh, Head(left))
        /\ UNCHANGED <<level, pc, mvars, taken>>
    BY <1>2 DEF IndexEvent
  <2>2. Head(left) \in Key /\ Tail(left) \in Seq(Key)
    BY <2>1 DEF IInv, Scalars
  <2>3. Sound(AddEvent(fresh, Head(left)))
    BY <2>2, AddEventSound DEF IInv, AllSound
  <2>4. Scalars'
    BY <2>1, <2>2 DEF IInv, Scalars, mvars
  <2>5. AllSound'
    BY <2>1, <2>3 DEF IInv, AllSound, mvars
  <2>6. RowsDealtOut'
    BY <2>1 DEF RowsDealtOut
  <2> QED BY <2>4, <2>5, <2>6 DEF IInv
<1>3. CASE Flush
  <2>1. /\ pc = "index" /\ CallMerge(level[0], fresh, level, 0)
        /\ UNCHANGED <<left, fresh, taken>>
    BY <1>3 DEF Flush
  <2>2. 0 \in Level
    BY MergeAssumption DEF Level
  <2>3. Sound(level[0]) /\ Sound(fresh) /\ \A i \in Level : Sound(level[i])
    BY <2>2 DEF IInv, AllSound
  <2>4. level = [i \in Level |-> level[i]]
    BY DEF IInv, Scalars
  <2>5. pc # "merge"
    BY <2>1
  <2> QED BY <2>1, <2>2, <2>3, <2>4, <2>5, CallMergeInv
<1>4. ASSUME NEW i \in Level, Spill(i)
      PROVE  IInv'
  <2> DEFINE lv == [level EXCEPT ![i] = NewIndex]
  <2>1. /\ pc = "idle" /\ i + 1 \in Level
        /\ CallMerge(level[i], level[i + 1], lv, i + 1)
        /\ UNCHANGED <<left, fresh, taken>>
    BY <1>4 DEF Spill
  <2>2. \A j \in Level : lv[j] = level[j] \/ lv[j] = NewIndex
    BY DEF IInv, Scalars
  <2>3. \A j \in Level : Sound(lv[j])
    BY <2>2, NewIndexSound DEF IInv, AllSound
  <2>4. Sound(level[i]) /\ Sound(level[i + 1])
    BY <2>1 DEF IInv, AllSound
  <2>5. lv = [j \in Level |-> lv[j]]
    BY DEF IInv, Scalars
  <2>6. pc # "merge"
    BY <2>1
  <2> HIDE DEF lv
  <2> QED BY <2>1, <2>3, <2>4, <2>5, <2>6, CallMergeInv
<1>5. CASE UNCHANGED vars
  BY <1>5 DEF vars, mvars, IInv, Scalars, AllSound, RowsDealtOut
<1> QED BY <1>1, <1>2, <1>3, <1>4, <1>5, TakeInv, FinishInv DEF Next

LEMMA Invariance == Spec => []IInv
<1>1. Init => IInv
  BY InitInv
<1>2. IInv /\ [Next]_vars => IInv'
  BY NextInv
<1> QED BY <1>1, <1>2, PTL DEF Spec
-----------------------------------------------------------------------------
(* The results.                                                            *)

\* Every part of every index has one entry per key, at every step of a build
\* or a merge.
THEOREM TypeCorrect == Spec => []TypeOK
<1>1. IInv => TypeOK
  BY IInvTypes
<1> QED BY <1>1, Invariance, PTL

\* Filters on tags and annotations select exactly the right rows of an index
\* that went through any number of merges.
THEOREM PostingsAlwaysFollow == Spec => []PostingsFollowRows
<1>1. IInv => PostingsFollowRows
  BY DEF IInv, AllSound, Sound, PostingsFollowRows, Live
<1> QED BY <1>1, Invariance, PTL

\* So do the comparisons with start and end times: no digit is lost and none
\* is picked up from another row.
THEOREM TimesAlwaysReadBack == Spec => []TimesReadBack
<1>1. IInv => TimesReadBack
  BY DEF IInv, AllSound, Sound, TimesReadBack, Live
<1> QED BY <1>1, Invariance, PTL

\* The key map of every index, built or merged any number of times, knows the
\* keys of the key list and no other, and leads to a row of each; all of them
\* tell their start time in Local, so the key of a memtable's item, which tells
\* it in UTC, is never among them.
THEOREM KeyMapAlwaysExact == Spec => []KeyMapExact
<1>1. IInv => KeyMapExact
  BY DEF IInv, AllSound, Sound, KeyMapExact, Live
<1> QED BY <1>1, Invariance, PTL

\* The two row maps of a merge deal its rows out, whatever the comparison of
\* start times and ids answers.
THEOREM RowsAlwaysDealtOut == Spec => []RowsDealtOut
<1>1. IInv => RowsDealtOut
  BY DEF IInv
<1> QED BY <1>1, Invariance, PTL
=============================================================================
