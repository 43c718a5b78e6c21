---------------------------- MODULE StorageProofs ----------------------------
(* Proofs of the safety properties of Storage, for every set of requests,  *)
(* batch length, memtable size, level limit and number of readers.         *)
EXTENDS Storage, SequenceTheorems, FiniteSetTheorems, WellFoundedInduction, TLAPS

(***************************************************************************)
(* The inductive invariant.                                                *)
(***************************************************************************)

\* Every sealed memtable is pending or merged, unless the write worker is
\* between storing the new cur and storing the longer pen.
Placed ==
  \A t \in 1 .. cur - 1 : \/ t \in Range(pen) \cup Merged(levels)
                          \/ wpc = "publish" /\ t = cur - 1

\* An index on its way between the workers is merged already.
Handed ==
  /\ fpc \in {"merge", "handoff"} => ftodo # <<>>
  /\ fpc = "handoff" => Head(ftodo) \in Merged(levels)
  /\ wpc \in {"pollDrop", "selectDrop"} => wdone \in Merged(levels)

\* Indexes are those of sealed memtables without tombstones.
Sealed ==
  /\ wpc = "publish" => cur > 1
  /\ \A t \in Range(pen) \cup Merged(levels) \cup Range(ftodo) :
       t \in 1 .. cur - 1 /\ tables[t] \cap Tombstone = {}

\* What the write worker has put of its request, and what is acknowledged.
Written ==
  /\ wpc \in {"publish", "notify", "put"} => wreq \in Request
  /\ wpc \in {"publish", "notify"} => wnext = 1
  /\ wnext >= 1
  /\ wpc = "put" => \A k \in 1 .. wnext - 1 : <<wreq, k>> \in tables[cur]
  /\ \A x \in Acked : \E t \in 1 .. cur : x \in tables[t]

\* How far a reader is covered by what it has loaded.
Covered ==
  \A rd \in Reader : rpc[rd] # "idle" =>
    /\ rcur[rd] \in 1 .. cur
    /\ \A x \in must[rd] : \E t \in 1 .. rcur[rd] : x \in tables[t]
    /\ rpc[rd] \in {"levels", "iterate"} =>
         \A t \in 1 .. rcur[rd] :
           \/ t \in seen[rd]
           \/ rpc[rd] = "levels" /\ t \in Merged(levels)
           \/ window[rd] /\ t = rcur[rd] - 1

IInv == TypeOK /\ Placed /\ Handed /\ Sealed /\ Written /\ Covered

(***************************************************************************)
(* Sequences.                                                              *)
(***************************************************************************)

\* The elements of a sequence after append.
LEMMA RangeAppend ==
  ASSUME NEW S, NEW s \in Seq(S), NEW e \in S
  PROVE  Append(s, e) \in Seq(S) /\ Range(Append(s, e)) = Range(s) \cup {e}
<1> DEFINE a == Append(s, e)
<1>1. /\ a \in Seq(S) /\ Len(a) = Len(s) + 1 /\ Len(s) \in Nat
      /\ a[Len(s) + 1] = e
      /\ \A i \in 1 .. Len(s) : a[i] = s[i]
  BY AppendProperties, LenProperties
<1>2. DOMAIN a = 1 .. Len(s) + 1 /\ DOMAIN s = 1 .. Len(s)
  BY <1>1, LenProperties
<1> HIDE DEF a
<1>3. Range(a) = Range(s) \cup {e}
  BY <1>1, <1>2 DEF Range
<1>4. QED BY <1>1, <1>3 DEF a

\* The elements of a concatenation.
LEMMA RangeConcat ==
  ASSUME NEW S, NEW s \in Seq(S), NEW t \in Seq(S)
  PROVE  s \o t \in Seq(S) /\ Range(s \o t) = Range(s) \cup Range(t)
<1>1. /\ s \o t \in Seq(S) /\ Len(s \o t) = Len(s) + Len(t)
      /\ \A i \in 1 .. Len(s) + Len(t) :
           (s \o t)[i] = IF i <= Len(s) THEN s[i] ELSE t[i - Len(s)]
  BY ConcatProperties
<1>2. DOMAIN (s \o t) = 1 .. Len(s) + Len(t)
  BY <1>1, LenProperties
<1>3. ASSUME NEW x \in Range(s \o t) PROVE x \in Range(s) \cup Range(t)
  <2>1. PICK i \in 1 .. Len(s) + Len(t) : x = (s \o t)[i]
    BY <1>2, <1>3 DEF Range
  <2>2. CASE i <= Len(s)
    BY <1>1, <2>1, <2>2, LenProperties DEF Range
  <2>3. CASE i > Len(s)
    <3>1. i - Len(s) \in DOMAIN t /\ x = t[i - Len(s)]
      BY <1>1, <2>1, <2>3, LenProperties
    <3>2. QED BY <3>1 DEF Range
  <2>4. QED BY <2>2, <2>3, <2>1, LenProperties
<1>4. ASSUME NEW x \in Range(s) PROVE x \in Range(s \o t)
  <2>1. PICK i \in 1 .. Len(s) : x = s[i]
    BY <1>4, LenProperties DEF Range
  <2>2. i \in 1 .. Len(s) + Len(t) /\ (s \o t)[i] = x
    BY <1>1, <2>1, LenProperties
  <2>3. QED BY <1>2, <2>2 DEF Range
<1>5. ASSUME NEW x \in Range(t) PROVE x \in Range(s \o t)
  <2>1. PICK i \in 1 .. Len(t) : x = t[i]
    BY <1>5, LenProperties DEF Range
  <2>2. /\ Len(s) + i \in 1 .. Len(s) + Len(t)
        /\ (s \o t)[Len(s) + i] = x
    BY <1>1, <2>1, LenProperties
  <2>3. QED BY <1>2, <2>2 DEF Range
<1>6. QED BY <1>1, <1>3, <1>4, <1>5

\* The elements of a nonempty sequence are its head and those of its tail.
LEMMA RangeTail ==
  ASSUME NEW S, NEW s \in Seq(S), s # <<>>
  PROVE  /\ Head(s) \in Range(s) /\ Tail(s) \in Seq(S)
         /\ Range(Tail(s)) \subseteq Range(s)
<1>1. /\ Tail(s) \in Seq(S) /\ Len(Tail(s)) = Len(s) - 1
      /\ \A i \in 1 .. Len(Tail(s)) : Tail(s)[i] = s[i + 1]
  BY HeadTailProperties
<1>2. Len(s) \in Nat /\ Len(s) # 0 /\ DOMAIN s = 1 .. Len(s)
  BY EmptySeq, LenProperties
<1>3. Head(s) \in Range(s)
  BY <1>2 DEF Range
<1>4. ASSUME NEW x \in Range(Tail(s)) PROVE x \in Range(s)
  <2>1. PICK i \in 1 .. Len(Tail(s)) : x = Tail(s)[i]
    BY <1>1, <1>4, LenProperties DEF Range
  <2>2. i + 1 \in DOMAIN s /\ s[i + 1] = x
    BY <1>1, <1>2, <2>1
  <2>3. QED BY <2>2 DEF Range
<1>5. QED BY <1>1, <1>3, <1>4

\* A nonempty set of naturals has a least element.
LEMMA LeastNatural ==
  ASSUME NEW T, T \subseteq Nat, T # {}
  PROVE  Min(T) \in T
<1> DEFINE less == OpToRel(<, Nat)
<1>1. \E x \in T : \A y \in T : ~ (<<y, x>> \in less)
  <2>1. IsWellFoundedOn(less, Nat)
    BY NatLessThanWellFounded
  <2> HIDE DEF less
  <2>2. QED BY <2>1, WFMin
<1>2. \A x, y \in Nat : <<y, x>> \in less <=> y < x
  BY DEF OpToRel
<1> HIDE DEF less
<1>3. \E x \in T : \A y \in T : x =< y
  <2>1. PICK x \in T : \A y \in T : ~ (<<y, x>> \in less)
    BY <1>1
  <2>2. ASSUME NEW y \in T PROVE x =< y
    <3>1. x \in Nat /\ y \in Nat BY <2>1
    <3>2. ~ (y < x) BY <1>2, <2>1, <3>1, Zenon
    <3>3. QED BY <3>1, <3>2
  <2>3. QED BY <2>1, <2>2
<1>4. QED BY <1>3 DEF Min

\* Removing an occurrence of e from s keeps every other element.
LEMMA RangeRemoveFirst ==
  ASSUME NEW S, NEW s \in Seq(S), NEW e
  PROVE  /\ RemoveFirst(s, e) \in Seq(S)
         /\ Range(RemoveFirst(s, e)) \subseteq Range(s)
         /\ Range(s) \subseteq Range(RemoveFirst(s, e)) \cup {e}
<1>1. CASE ~ \E i \in 1 .. Len(s) : s[i] = e
  BY <1>1 DEF RemoveFirst
<1>2. CASE \E i \in 1 .. Len(s) : s[i] = e
  <2> DEFINE I == {i \in 1 .. Len(s) : s[i] = e}
             k == Min(I)
             a == SubSeq(s, 1, k - 1)
             b == SubSeq(s, k + 1, Len(s))
  <2>1. k \in 1 .. Len(s) /\ s[k] = e
    <3>1. I \subseteq Nat /\ I # {}
      BY <1>2, LenProperties
    <3>2. QED BY <3>1, LeastNatural
  <2>2. RemoveFirst(s, e) = a \o b
    <3>1. SelectInSeq(s, LAMBDA v : v = e) = k
      BY <1>2 DEF SelectInSeq
    <3>2. QED BY <1>2, <3>1 DEF RemoveFirst, RemoveAt
  <2> HIDE DEF k
  <2>3. /\ a \in Seq(S) /\ Len(a) = k - 1
        /\ \A i \in 1 .. k - 1 : a[i] = s[i]
    BY <2>1, LenProperties, ElementOfSeq, SubSeqProperties
  <2>4. /\ b \in Seq(S) /\ Len(b) = Len(s) - k
        /\ \A i \in 1 .. Len(s) - k : b[i] = s[k + i]
    BY <2>1, LenProperties, ElementOfSeq, SubSeqProperties
  <2> HIDE DEF a, b
  <2>5. a \o b \in Seq(S) /\ Range(a \o b) = Range(a) \cup Range(b)
    BY <2>3, <2>4, RangeConcat
  <2>6. DOMAIN s = 1 .. Len(s) /\ DOMAIN a = 1 .. k - 1
        /\ DOMAIN b = 1 .. Len(s) - k /\ Len(s) \in Nat
    BY <2>3, <2>4, LenProperties
  <2>7. Range(a) \subseteq Range(s)
    BY <2>1, <2>3, <2>6 DEF Range
  <2>8. ASSUME NEW x \in Range(b) PROVE x \in Range(s)
    <3>1. PICK i \in 1 .. Len(s) - k : x = b[i]
      BY <2>6, <2>8 DEF Range
    <3>2. k + i \in DOMAIN s /\ s[k + i] = x
      BY <2>1, <2>4, <2>6, <3>1
    <3>3. QED BY <3>2 DEF Range
  <2>9. ASSUME NEW x \in Range(s), x # e PROVE x \in Range(a) \cup Range(b)
    <3>1. PICK i \in 1 .. Len(s) : x = s[i]
      BY <2>6, <2>9 DEF Range
    <3>2. CASE i < k
      <4>1. i \in DOMAIN a /\ a[i] = x BY <2>1, <2>3, <2>6, <3>1, <3>2
      <4>2. QED BY <4>1 DEF Range
    <3>3. CASE i > k
      <4>1. i - k \in DOMAIN b /\ b[i - k] = x
        BY <2>1, <2>4, <2>6, <3>1, <3>3
      <4>2. QED BY <4>1 DEF Range
    <3>4. QED BY <2>1, <2>9, <3>1, <3>2, <3>3
  <2>10. QED BY <2>2, <2>5, <2>7, <2>8, <2>9
<1>3. QED BY <1>1, <1>2

(***************************************************************************)
(* Levels.                                                                 *)
(***************************************************************************)

\* Merging a memtable into level 0 adds it to what is merged.
LEMMA MergedAbsorb ==
  ASSUME NEW lv \in [Level -> Seq(Nat)], NEW t \in Nat
  PROVE  /\ Absorb(lv, t) \in [Level -> Seq(Nat)]
         /\ Merged(Absorb(lv, t)) = Merged(lv) \cup {t}
<1>1. /\ Append(lv[0], t) \in Seq(Nat)
      /\ Range(Append(lv[0], t)) = Range(lv[0]) \cup {t}
  <2>1. lv[0] \in Seq(Nat) BY DEF Level
  <2>2. QED BY <2>1, RangeAppend
<1>2. QED BY <1>1 DEF Absorb, Merged, Level

\* A spill moves memtables between levels and loses none.
LEMMA MergedSpill ==
  ASSUME NEW lv \in [Level -> Seq(Nat)], NEW i \in 0 .. 2
  PROVE  /\ Spill(lv, i) \in [Level -> Seq(Nat)]
         /\ Merged(Spill(lv, i)) = Merged(lv)
<1>1. /\ lv[i] \o lv[i + 1] \in Seq(Nat)
      /\ Range(lv[i] \o lv[i + 1]) = Range(lv[i]) \cup Range(lv[i + 1])
  BY RangeConcat DEF Level
<1>2. <<>> \in Seq(Nat) /\ Range(<<>>) = {}
  BY DEF Range
<1> DEFINE new == [lv EXCEPT ![i + 1] = lv[i] \o @, ![i] = <<>>]
<1>3. /\ new \in [Level -> Seq(Nat)]
      /\ new[i] = <<>> /\ new[i + 1] = lv[i] \o lv[i + 1]
      /\ \A j \in Level \ {i, i + 1} : new[j] = lv[j]
  <2>1. i \in Level /\ i + 1 \in Level /\ i # i + 1 BY DEF Level
  <2>2. QED BY <1>1, <1>2, <2>1
<1> HIDE DEF new
<1>4. Merged(new) = Merged(lv)
  <2>1. i \in Level /\ i + 1 \in Level BY DEF Level
  <2>2. ASSUME NEW t PROVE t \in Merged(new) <=> t \in Merged(lv)
    <3>1. /\ t \in Merged(new) <=> \E j \in Level : t \in Range(new[j])
          /\ t \in Merged(lv) <=> \E j \in Level : t \in Range(lv[j])
      BY DEF Merged
    <3>2. QED BY <1>1, <1>2, <1>3, <2>1, <3>1
  <2>3. QED BY <2>2
<1>5. QED BY <1>4, <1>3 DEF Spill, new

\* mergeLevel adds the memtable it was given and loses none.
LEMMA MergedCascade ==
  ASSUME NEW lv \in [Level -> Seq(Nat)], NEW t \in Nat,
         NEW out, out = Spill(Spill(Spill(Absorb(lv, t), 0), 1), 2)
  PROVE  out \in [Level -> Seq(Nat)] /\ Merged(out) = Merged(lv) \cup {t}
<1> DEFINE a == Absorb(lv, t)
           b == Spill(a, 0)
           c == Spill(b, 1)
<1>1. a \in [Level -> Seq(Nat)] /\ Merged(a) = Merged(lv) \cup {t}
  BY MergedAbsorb
<1> HIDE DEF a
<1>2. b \in [Level -> Seq(Nat)] /\ Merged(b) = Merged(a)
  BY <1>1, MergedSpill
<1> HIDE DEF b
<1>3. c \in [Level -> Seq(Nat)] /\ Merged(c) = Merged(b)
  BY <1>2, MergedSpill
<1> HIDE DEF c
<1>4. /\ Spill(c, 2) \in [Level -> Seq(Nat)]
      /\ Merged(Spill(c, 2)) = Merged(c)
  BY <1>3, MergedSpill
<1>5. out = Spill(c, 2)
  BY DEF a, b, c
<1>6. QED BY <1>1, <1>2, <1>3, <1>4, <1>5

(***************************************************************************)
(* The invariant is inductive.                                             *)
(***************************************************************************)

LEMMA InitInv == Init => IInv
<1> SUFFICES ASSUME Init PROVE IInv
  OBVIOUS
<1> USE StorageAssumption DEF Init
<1>1. tables \in Seq(SUBSET Item) /\ cur = 1 /\ tables # <<>>
  BY DEF cur
<1>2. pen \in Seq(Nat) /\ ftodo \in Seq(Nat) /\ Range(pen) = {} /\ Range(ftodo) = {}
  BY DEF Range
<1>3. levels \in [Level -> Seq(Nat)] /\ Merged(levels) = {}
  BY DEF Merged, Level, Range
<1>4. TypeOK
  <2>1. wreq \in Request \cup {NoRequest} /\ fcount \in 0 .. CompactEvery - 1
    OBVIOUS
  <2>2. /\ rpc \in [Reader -> {"idle", "pen", "levels", "iterate"}]
        /\ rcur \in [Reader -> Nat] /\ seen \in [Reader -> SUBSET Nat]
        /\ must \in [Reader -> SUBSET Item]
    OBVIOUS
  <2>3. window \in [Reader -> BOOLEAN] /\ stopped \in BOOLEAN
    BY Zenon
  <2>4. req \in [Request -> {"new", "sending", "accepted", "acked",
                             "cancelled", "lost"}]
    OBVIOUS
  <2>5. QED BY <1>1, <1>2, <1>3, <2>1, <2>2, <2>3, <2>4 DEF TypeOK
<1>5. Acked = {}
  BY DEF Acked
<1>6. Placed /\ Handed /\ Sealed /\ Covered
  BY <1>1, <1>2, <1>3 DEF Placed, Handed, Sealed, Covered
<1>7. Written
  BY <1>1, <1>5 DEF Written
<1>8. QED BY <1>4, <1>6, <1>7 DEF IInv

\* Steps of clients: only req changes, and no request becomes acknowledged.
LEMMA ClientInv ==
  ASSUME IInv, Client \/ Stop PROVE IInv'
<1>1. /\ UNCHANGED <<tables, pen, levels, wvars, fvars, rvars>>
      /\ req' \in [Request -> {"new", "sending", "accepted", "acked",
                               "cancelled", "lost"}]
      /\ stopped' \in BOOLEAN
      /\ \A r \in Request : req'[r] = "acked" => req[r] = "acked"
  BY DEF IInv, TypeOK, Client, Send, Cancel, Again, Stop, rvars, wvars, fvars
<1>2. Acked' \subseteq Acked
  BY <1>1 DEF Acked
<1>3. TypeOK'
  BY <1>1 DEF IInv, TypeOK, wvars, fvars, rvars, Item, Items
<1>4. (Placed /\ Handed /\ Sealed /\ Covered)'
  BY <1>1 DEF IInv, Placed, Handed, Sealed, Covered, cur, wvars, fvars, rvars
<1>5. Written'
  BY <1>1, <1>2 DEF IInv, Written, cur, wvars
<1>6. QED BY <1>3, <1>4, <1>5 DEF IInv

\* Steps of the write worker that move its place or answer a client.
LEMMA WriterMoveInv ==
  ASSUME IInv, PollDefault \/ WriterExit PROVE IInv'
<1>1. /\ UNCHANGED <<tables, pen, levels, wreq, wnext, wdone, fvars, stopped,
                     req, rvars>>
      /\ wpc \in {"poll", "select"} /\ wpc' \in {"select", "exited"}
  BY DEF PollDefault, WriterExit, ExitPoints
<1>2. TypeOK'
  BY <1>1 DEF IInv, TypeOK, fvars, rvars, Item, Items
<1>3. (Placed /\ Handed /\ Sealed /\ Covered)'
  BY <1>1 DEF IInv, Placed, Handed, Sealed, Covered, cur, fvars, rvars
<1>4. Written'
  BY <1>1 DEF IInv, Written, Acked, cur
<1>5. QED BY <1>2, <1>3, <1>4 DEF IInv

\* A request is accepted, with or without a rotation.
LEMMA AcceptInv ==
  ASSUME IInv, NEW r \in Request, Accept(r) PROVE IInv'
<1>1. /\ UNCHANGED <<pen, levels, wdone, fvars, stopped, rvars>>
      /\ wpc = "select" /\ req[r] = "sending"
      /\ req' = [req EXCEPT ![r] = "accepted"]
      /\ wreq' = r /\ wnext' = 1
  BY DEF Accept
<1>2. /\ TypeOK /\ cur \in Nat /\ cur >= 1 /\ DOMAIN tables = 1 .. cur
  BY LenProperties, EmptySeq DEF IInv, TypeOK, cur
<1>3. /\ tables' \in Seq(SUBSET Item) /\ tables' # <<>>
      /\ \A t \in 1 .. cur : tables'[t] = tables[t]
      /\ \/ cur' = cur /\ wpc' = "put"
         \/ cur' = cur + 1 /\ wpc' = "publish"
  <2>1. CASE Cardinality(tables[cur]) >= MaxMemTableSize
    <3>1. wpc' = "publish" /\ tables' = Append(tables, {})
      BY <2>1 DEF Accept
    <3>2. /\ tables' \in Seq(SUBSET Item) /\ Len(tables') = Len(tables) + 1
          /\ \A t \in 1 .. Len(tables) : tables'[t] = tables[t]
      BY <3>1, <1>2 DEF TypeOK
    <3>3. tables' # <<>>
      BY <3>2, <1>2, EmptySeq DEF cur
    <3>4. QED BY <3>1, <3>2, <3>3 DEF cur
  <2>2. CASE ~ (Cardinality(tables[cur]) >= MaxMemTableSize)
    <3>1. wpc' = "put" /\ tables' = tables
      BY <2>2 DEF Accept
    <3>2. QED BY <3>1, <1>2 DEF cur, TypeOK
  <2>3. QED BY <2>1, <2>2
<1>4. TypeOK'
  BY <1>1, <1>2, <1>3 DEF TypeOK, fvars, rvars, Item, Items
<1>5. Placed' /\ Handed' /\ Sealed'
  <2>1. Placed'
    BY <1>1, <1>2, <1>3 DEF IInv, Placed
  <2>2. Handed'
    BY <1>1, <1>3 DEF IInv, Handed, fvars
  <2>3. Sealed'
    BY <1>1, <1>2, <1>3 DEF IInv, Sealed, fvars
  <2>4. QED BY <2>1, <2>2, <2>3
<1>6. Covered'
  BY <1>1, <1>2, <1>3 DEF IInv, Covered, rvars
<1>7. Written'
  <2>1. Acked' \subseteq Acked
    BY <1>1, <1>2 DEF Acked, TypeOK
  <2>2. QED BY <1>1, <1>2, <1>3, <2>1 DEF IInv, Written
<1>8. QED BY <1>4, <1>5, <1>6, <1>7 DEF IInv

\* The index of the sealed memtable becomes pending: the window closes.
LEMMA PublishInv ==
  ASSUME IInv, Publish PROVE IInv'
<1>1. /\ UNCHANGED <<tables, levels, wreq, wnext, wdone, fvars, stopped, req,
                     rvars>>
      /\ wpc = "publish" /\ wpc' = "notify"
      /\ tables[cur - 1] \cap Tombstone = {}
      /\ pen' = Append(pen, cur - 1)
  BY DEF Publish, Indexable
<1>2. TypeOK /\ cur \in Nat /\ cur > 1 /\ cur' = cur
  BY <1>1, LenProperties DEF IInv, TypeOK, Sealed, cur
<1>3. pen' \in Seq(Nat) /\ Range(pen') = Range(pen) \cup {cur - 1}
  <2>1. cur - 1 \in Nat /\ pen \in Seq(Nat) BY <1>2 DEF TypeOK
  <2>2. QED BY <1>1, <2>1, RangeAppend
<1>4. TypeOK'
  BY <1>1, <1>2, <1>3 DEF TypeOK, fvars, rvars, Item, Items
<1>5. Placed'
  BY <1>1, <1>2, <1>3 DEF IInv, Placed
<1>6. Handed' /\ Sealed'
  BY <1>1, <1>2, <1>3 DEF IInv, Handed, Sealed, fvars
<1>7. Covered'
  BY <1>1, <1>2 DEF IInv, Covered, rvars
<1>8. Written'
  BY <1>1, <1>2 DEF IInv, Written, Acked
<1>9. QED BY <1>4, <1>5, <1>6, <1>7, <1>8 DEF IInv

\* After a crash the store is what Open builds.
LEMMA CrashInv ==
  ASSUME IInv, Crash PROVE IInv'
<1> USE StorageAssumption DEF Crash
<1>1. tables' \in Seq(SUBSET Item) /\ cur' = 1 /\ tables' # <<>>
  BY DEF cur
<1>2. /\ pen' \in Seq(Nat) /\ ftodo' \in Seq(Nat)
      /\ Range(pen') = {} /\ Range(ftodo') = {}
  BY DEF Range
<1>3. levels' \in [Level -> Seq(Nat)] /\ Merged(levels') = {}
  BY DEF Merged, Level, Range
<1>4. /\ req' \in [Request -> {"new", "sending", "accepted", "acked",
                               "cancelled", "lost"}]
      /\ \A r \in Request : req'[r] # "acked"
  BY DEF IInv, TypeOK
<1>5. TypeOK'
  <2>1. wreq' \in Request \cup {NoRequest} /\ fcount' \in 0 .. CompactEvery - 1
    OBVIOUS
  <2>2. /\ rpc' \in [Reader -> {"idle", "pen", "levels", "iterate"}]
        /\ rcur' \in [Reader -> Nat] /\ seen' \in [Reader -> SUBSET Nat]
        /\ must' \in [Reader -> SUBSET Item]
    OBVIOUS
  <2>3. window' \in [Reader -> BOOLEAN] /\ stopped' \in BOOLEAN
    BY Zenon
  <2>4. QED BY <1>1, <1>2, <1>3, <1>4, <2>1, <2>2, <2>3 DEF TypeOK
<1>6. Acked' = {}
  BY <1>4 DEF Acked
<1>7. (Placed /\ Handed /\ Sealed /\ Covered)'
  BY <1>1, <1>2, <1>3 DEF Placed, Handed, Sealed, Covered
<1>8. Written'
  BY <1>1, <1>6 DEF Written
<1>9. QED BY <1>5, <1>7, <1>8 DEF IInv

\* The flush worker is notified, or not.
LEMMA NotifyInv ==
  ASSUME IInv, Notify PROVE IInv'
<1>1. /\ UNCHANGED <<tables, pen, levels, wreq, wnext, wdone, ftodo, stopped,
                     req, rvars>>
      /\ wpc = "notify" /\ wpc' = "put"
      /\ \/ fpc' = fpc
         \/ fpc = "select" /\ fpc' \in {"select", "load"}
      /\ fcount' \in 0 .. CompactEvery - 1
  BY StorageAssumption DEF Notify, Received, NotReceived, IInv, TypeOK
<1>2. TypeOK'
  BY <1>1 DEF IInv, TypeOK, rvars, Item, Items
<1>3. (Placed /\ Handed /\ Sealed /\ Covered)'
  BY <1>1 DEF IInv, Placed, Handed, Sealed, Covered, cur, rvars
<1>4. Written'
  BY <1>1 DEF IInv, Written, Acked, cur
<1>5. QED BY <1>2, <1>3, <1>4 DEF IInv

\* An item is put into the current memtable: nothing sealed changes.
LEMMA PutItemInv ==
  ASSUME IInv, PutItem PROVE IInv'
<1>1. /\ UNCHANGED <<pen, levels, wpc, wreq, wdone, fvars, stopped, req,
                     rvars>>
      /\ wpc = "put" /\ wnext <= BatchLen[wreq] /\ wnext' = wnext + 1
      /\ tables' = [tables EXCEPT ![cur] = @ \cup {<<wreq, wnext>>}]
  BY DEF PutItem, PutTable
<1>2. /\ TypeOK /\ cur \in Nat /\ cur >= 1 /\ DOMAIN tables = 1 .. cur
      /\ wreq \in Request /\ wnext \in Nat /\ wnext >= 1
  BY <1>1, LenProperties, EmptySeq DEF IInv, TypeOK, cur, Written
<1>3. <<wreq, wnext>> \in Item
  <2>1. BatchLen[wreq] \in Nat
    BY <1>2, StorageAssumption
  <2>2. wnext \in 1 .. BatchLen[wreq]
    BY <1>1, <1>2, <2>1
  <2>3. QED BY <1>2, <2>2 DEF Item, Items
<1>4. /\ tables' \in Seq(SUBSET Item) /\ tables' # <<>> /\ cur' = cur
      /\ \A t \in 1 .. cur - 1 : tables'[t] = tables[t]
      /\ \A t \in 1 .. cur : tables[t] \subseteq tables'[t]
      /\ tables'[cur] = tables[cur] \cup {<<wreq, wnext>>}
  <2>1. tables[cur] \cup {<<wreq, wnext>>} \in SUBSET Item
    <3>1. tables \in Seq(SUBSET Item) /\ cur \in 1 .. Len(tables)
      BY <1>2 DEF TypeOK, cur
    <3>2. tables[cur] \in SUBSET Item
      BY <3>1, ElementOfSeq
    <3>3. QED BY <3>2, <1>3
  <2>2. /\ tables' \in Seq(SUBSET Item) /\ Len(tables') = Len(tables)
        /\ \A t \in 1 .. Len(tables) :
             tables'[t] = IF t = cur THEN tables[cur] \cup {<<wreq, wnext>>}
                                     ELSE tables[t]
    BY <1>1, <1>2, <2>1, ExceptSeq DEF TypeOK, cur
  <2>3. Len(tables') = cur /\ tables' # <<>>
    <3>1. Len(tables') = cur BY <2>2 DEF cur
    <3>2. Len(<<>>) = 0 BY EmptySeq
    <3>3. QED BY <1>2, <3>1, <3>2
  <2>4. cur' = cur BY <2>3 DEF cur
  <2>5. \A t \in 1 .. cur :
          tables'[t] = IF t = cur THEN tables[cur] \cup {<<wreq, wnext>>}
                                  ELSE tables[t]
    BY <2>2 DEF cur
  <2>6. QED BY <1>2, <2>2, <2>3, <2>4, <2>5
<1>5. TypeOK'
  BY <1>1, <1>2, <1>4 DEF TypeOK, fvars, rvars, Item, Items
<1>6. (Placed /\ Handed)'
  BY <1>1, <1>4 DEF IInv, Placed, Handed, fvars
<1>7. Sealed'
  BY <1>1, <1>4 DEF IInv, Sealed, fvars
<1>8. Covered'
  <2> SUFFICES ASSUME NEW rd \in Reader, rpc[rd] # "idle"
               PROVE /\ rcur[rd] \in 1 .. cur
                     /\ \A x \in must[rd] :
                          \E t \in 1 .. rcur[rd] : x \in tables'[t]
                     /\ rpc[rd] \in {"levels", "iterate"} =>
                          \A t \in 1 .. rcur[rd] :
                            \/ t \in seen[rd]
                            \/ rpc[rd] = "levels" /\ t \in Merged(levels)
                            \/ window[rd] /\ t = rcur[rd] - 1
    BY <1>1, <1>4 DEF Covered, rvars
  <2>1. rcur[rd] \in 1 .. cur
    BY DEF IInv, Covered
  <2>2. 1 .. rcur[rd] \subseteq 1 .. cur
    BY <2>1, <1>2
  <2>3. \A x \in must[rd] : \E t \in 1 .. rcur[rd] : x \in tables'[t]
    BY <2>2, <1>4 DEF IInv, Covered
  <2>4. QED BY <2>1, <2>3 DEF IInv, Covered
<1>9. Written'
  <2>1. Acked' = Acked
    BY <1>1 DEF Acked
  <2>2. \A x \in Acked' : \E t \in 1 .. cur' : x \in tables'[t]
    BY <1>4, <2>1 DEF IInv, Written
  <2>3. \A k \in 1 .. wnext' - 1 : <<wreq', k>> \in tables'[cur']
    BY <1>1, <1>2, <1>4 DEF IInv, Written
  <2>4. QED BY <1>1, <1>2, <2>2, <2>3 DEF Written
<1>10. QED BY <1>5, <1>6, <1>7, <1>8, <1>9 DEF IInv

\* All items of a request are in the current memtable when it is answered.
LEMMA RespondInv ==
  ASSUME IInv, Respond PROVE IInv'
<1>1. /\ UNCHANGED <<tables, pen, levels, wdone, fvars, stopped, rvars>>
      /\ wpc = "put" /\ wnext > BatchLen[wreq] /\ wpc' = "poll"
      /\ wreq' = NoRequest /\ wnext' = 1
      /\ req' = [req EXCEPT ![wreq] = IF @ = "accepted" THEN "acked" ELSE @]
  BY DEF Respond
<1>2. /\ TypeOK /\ cur \in Nat /\ cur >= 1 /\ cur' = cur
      /\ wreq \in Request /\ wnext \in Nat /\ BatchLen[wreq] \in Nat
  <2>1. TypeOK /\ wreq \in Request /\ wnext \in Nat
    BY <1>1 DEF IInv, TypeOK, Written
  <2>2. BatchLen[wreq] \in Nat
    BY <2>1, StorageAssumption
  <2>3. cur \in Nat /\ cur >= 1 /\ cur' = cur
    BY <1>1, <2>1, LenProperties, EmptySeq DEF TypeOK, cur
  <2>4. QED BY <2>1, <2>2, <2>3
<1>3. TypeOK'
  BY <1>1, <1>2 DEF TypeOK, fvars, rvars, Item, Items
<1>4. (Placed /\ Handed /\ Sealed /\ Covered)'
  BY <1>1, <1>2 DEF IInv, Placed, Handed, Sealed, Covered, fvars, rvars
<1>5. ASSUME NEW x \in Acked' PROVE \E t \in 1 .. cur : x \in tables[t]
  <2>1. PICK r \in Request : req'[r] = "acked" /\ x \in Items(r)
    BY <1>5 DEF Acked
  <2>2. CASE req[r] = "acked"
    BY <2>1, <2>2 DEF Acked, IInv, Written
  <2>3. CASE req[r] # "acked"
    <3>1. r = wreq
      BY <1>1, <1>2, <2>1, <2>3 DEF TypeOK
    <3>2. PICK k \in 1 .. BatchLen[wreq] : x = <<wreq, k>>
      BY <2>1, <3>1 DEF Items
    <3>3. k \in 1 .. wnext - 1
      BY <1>1, <1>2, <3>2
    <3>4. x \in tables[cur]
      BY <1>1, <3>2, <3>3 DEF IInv, Written
    <3>5. QED BY <1>2, <3>4
  <2>4. QED BY <2>2, <2>3
<1>6. Written'
  BY <1>1, <1>2, <1>5 DEF Written
<1>7. QED BY <1>3, <1>4, <1>6 DEF IInv

\* The write worker receives an index that is merged.
LEMMA ReceiveDoneInv ==
  ASSUME IInv, ReceiveDone PROVE IInv'
<1>1. /\ UNCHANGED <<tables, pen, levels, wreq, wnext, fcount, stopped, req,
                     rvars>>
      /\ fpc = "handoff" /\ wpc \in {"poll", "select"}
      /\ wpc' \in {"pollDrop", "selectDrop"}
      /\ wdone' = Head(ftodo) /\ ftodo' = Tail(ftodo)
      /\ fpc' \in {"select", "merge"}
      /\ fpc' = "merge" => ftodo' # <<>>
  BY DEF ReceiveDone
<1>2. ftodo \in Seq(Nat) /\ ftodo # <<>> /\ Head(ftodo) \in Merged(levels)
  BY <1>1 DEF IInv, TypeOK, Handed
<1>3. /\ ftodo' \in Seq(Nat) /\ Range(ftodo') \subseteq Range(ftodo)
      /\ Head(ftodo) \in Nat
  BY <1>1, <1>2, RangeTail, HeadTailProperties
<1>4. TypeOK'
  BY <1>1, <1>3 DEF IInv, TypeOK, rvars, Item, Items
<1>5. (Placed /\ Handed /\ Sealed /\ Covered)'
  BY <1>1, <1>2, <1>3 DEF IInv, Placed, Handed, Sealed, Covered, cur, rvars
<1>6. Written'
  BY <1>1 DEF IInv, Written, Acked, cur
<1>7. QED BY <1>4, <1>5, <1>6 DEF IInv

\* A merged index leaves the pen and stays reachable through the levels.
LEMMA DropPendingInv ==
  ASSUME IInv, DropPending PROVE IInv'
<1>1. /\ UNCHANGED <<tables, levels, wreq, wnext, fvars, stopped, req, rvars>>
      /\ wpc \in {"pollDrop", "selectDrop"} /\ wpc' \in {"select", "poll"}
      /\ pen' = RemoveFirst(pen, wdone) /\ wdone' = 0
  BY DEF DropPending, Dropped
<1>2. wdone \in Merged(levels) /\ pen \in Seq(Nat)
  BY <1>1 DEF IInv, Handed, TypeOK
<1>3. /\ pen' \in Seq(Nat) /\ Range(pen') \subseteq Range(pen)
      /\ Range(pen) \subseteq Range(pen') \cup {wdone}
  BY <1>1, <1>2, RangeRemoveFirst
<1>4. TypeOK'
  BY <1>1, <1>3 DEF IInv, TypeOK, fvars, rvars, Item, Items
<1>5. Placed'
  BY <1>1, <1>2, <1>3 DEF IInv, Placed, cur
<1>6. (Handed /\ Sealed /\ Covered)'
  BY <1>1, <1>3 DEF IInv, Handed, Sealed, Covered, cur, fvars, rvars
<1>7. Written'
  BY <1>1 DEF IInv, Written, Acked, cur
<1>8. QED BY <1>4, <1>5, <1>6, <1>7 DEF IInv

\* The flush worker loads the pen.
LEMMA LoadPendingInv ==
  ASSUME IInv, Timer \/ Compact PROVE IInv'
<1>1. /\ UNCHANGED <<tables, pen, levels, wvars, fcount, stopped, req, rvars>>
      /\ ftodo' = pen /\ fpc' \in {"select", "merge"}
      /\ fpc' = "merge" => pen # <<>>
  BY DEF Timer, Compact, LoadPending
<1>2. TypeOK'
  BY <1>1 DEF IInv, TypeOK, wvars, rvars, Item, Items
<1>3. (Placed /\ Handed /\ Sealed /\ Covered)'
  BY <1>1 DEF IInv, Placed, Handed, Sealed, Covered, cur, wvars, rvars
<1>4. Written'
  BY <1>1 DEF IInv, Written, Acked, cur, wvars
<1>5. QED BY <1>2, <1>3, <1>4 DEF IInv

\* The flush worker returns.
LEMMA FlushExitInv ==
  ASSUME IInv, FlushExit PROVE IInv'
<1>1. /\ UNCHANGED <<tables, pen, levels, wvars, ftodo, fcount, stopped, req,
                     rvars>>
      /\ fpc' = "exited"
  BY DEF FlushExit
<1>2. TypeOK'
  BY <1>1 DEF IInv, TypeOK, wvars, rvars, Item, Items
<1>3. (Placed /\ Handed /\ Sealed /\ Covered)'
  BY <1>1 DEF IInv, Placed, Handed, Sealed, Covered, cur, wvars, rvars
<1>4. Written'
  BY <1>1 DEF IInv, Written, Acked, cur, wvars
<1>5. QED BY <1>2, <1>3, <1>4 DEF IInv

\* mergeLevel keeps every merged memtable merged and adds one that is sealed.
LEMMA MergeLevelInv ==
  ASSUME IInv, MergeLevel PROVE IInv'
<1>1. /\ UNCHANGED <<tables, pen, wvars, ftodo, fcount, stopped, req, rvars>>
      /\ fpc = "merge" /\ fpc' = "handoff"
      /\ levels' = Spill(Spill(Spill(Absorb(levels, Head(ftodo)), 0), 1), 2)
  BY DEF MergeLevel
<1>2. /\ levels \in [Level -> Seq(Nat)] /\ ftodo \in Seq(Nat)
      /\ ftodo # <<>>
  BY <1>1 DEF IInv, TypeOK, Handed
<1>3. Head(ftodo) \in Nat /\ Head(ftodo) \in Range(ftodo)
  BY <1>2, RangeTail, HeadTailProperties
<1>4. /\ levels' \in [Level -> Seq(Nat)]
      /\ Merged(levels') = Merged(levels) \cup {Head(ftodo)}
  BY <1>1, <1>2, <1>3, MergedCascade
<1>5. TypeOK'
  BY <1>1, <1>4 DEF IInv, TypeOK, wvars, rvars, Item, Items
<1>6. (Placed /\ Handed /\ Sealed)'
  BY <1>1, <1>2, <1>3, <1>4 DEF IInv, Placed, Handed, Sealed, cur, wvars
<1>7. Covered'
  BY <1>1, <1>4 DEF IInv, Covered, cur, rvars
<1>8. Written'
  BY <1>1 DEF IInv, Written, Acked, cur, wvars
<1>9. QED BY <1>5, <1>6, <1>7, <1>8 DEF IInv

\* The three loads of a reader and its return.
LEMMA LoadCurInv ==
  ASSUME IInv, NEW rd \in Reader, LoadCur(rd) PROVE IInv'
<1>1. /\ UNCHANGED <<tables, pen, levels, wvars, fvars, stopped, req, seen,
                     window>>
      /\ rpc' = [rpc EXCEPT ![rd] = "pen"]
      /\ rcur' = [rcur EXCEPT ![rd] = cur]
      /\ must' = [must EXCEPT ![rd] = Acked]
  BY DEF LoadCur
<1>2. TypeOK /\ cur \in Nat /\ cur >= 1 /\ cur' = cur /\ Acked' = Acked
  BY <1>1, LenProperties, EmptySeq DEF IInv, TypeOK, cur, Acked
<1>3. Acked \in SUBSET Item
  BY DEF Acked, Item
<1>4. TypeOK'
  BY <1>1, <1>2, <1>3 DEF TypeOK, wvars, fvars, Item, Items
<1>5. (Placed /\ Handed /\ Sealed /\ Written)'
  BY <1>1, <1>2 DEF IInv, Placed, Handed, Sealed, Written, wvars, fvars
<1>6. Covered'
  <2>1. \A x \in Acked : \E t \in 1 .. cur : x \in tables[t]
    BY DEF IInv, Written
  <2>2. QED BY <1>1, <1>2, <2>1 DEF IInv, Covered, TypeOK
<1>7. QED BY <1>4, <1>5, <1>6 DEF IInv

LEMMA LoadPenInv ==
  ASSUME IInv, NEW rd \in Reader, LoadPen(rd) PROVE IInv'
<1>1. /\ UNCHANGED <<tables, pen, levels, wvars, fvars, stopped, req, rcur,
                     must>>
      /\ rpc[rd] = "pen" /\ rpc' = [rpc EXCEPT ![rd] = "levels"]
      /\ seen' = [seen EXCEPT ![rd] = Range(pen) \cup {rcur[rd]}]
      /\ window' = [window EXCEPT ![rd] = wpc = "publish" /\ rcur[rd] = cur]
  BY DEF LoadPen
<1>2. TypeOK /\ cur \in Nat /\ cur >= 1 /\ cur' = cur /\ rcur[rd] \in 1 .. cur
  BY <1>1, LenProperties, EmptySeq DEF IInv, TypeOK, cur, Covered
<1>3. TypeOK'
  <2>1. Range(pen) \cup {rcur[rd]} \in SUBSET Nat
    BY <1>2, LenProperties DEF TypeOK, Range
  <2>2. seen' \in [Reader -> SUBSET Nat]
    BY <1>1, <1>2, <2>1 DEF TypeOK
  <2>3. window' \in [Reader -> BOOLEAN]
    BY <1>1, <1>2, Zenon DEF TypeOK
  <2>4. rpc' \in [Reader -> {"idle", "pen", "levels", "iterate"}]
    BY <1>1, <1>2 DEF TypeOK
  <2>5. QED BY <1>1, <1>2, <2>2, <2>3, <2>4 DEF TypeOK, wvars, fvars, Item, Items
<1>4. (Placed /\ Handed /\ Sealed)'
  BY <1>1, <1>2 DEF IInv, Placed, Handed, Sealed, wvars, fvars
<1>5. Written'
  BY <1>1, <1>2 DEF IInv, Written, Acked, wvars
<1>6. Covered'
  <2>1. window'[rd] <=> (wpc = "publish" /\ rcur[rd] = cur)
    BY <1>1, <1>2, Zenon DEF TypeOK
  <2>2. \A q \in Reader : q # rd => window'[q] = window[q]
    BY <1>1, <1>2, Zenon DEF TypeOK
  <2>3. ASSUME NEW t \in 1 .. rcur[rd]
        PROVE \/ t \in seen'[rd]
              \/ t \in Merged(levels)
              \/ window'[rd] /\ t = rcur[rd] - 1
    <3>1. seen'[rd] = Range(pen) \cup {rcur[rd]}
      BY <1>1, <1>2 DEF TypeOK
    <3>2. CASE t = rcur[rd]
      BY <3>1, <3>2
    <3>3. CASE t # rcur[rd]
      <4>1. t \in 1 .. cur - 1 /\ t < rcur[rd] /\ rcur[rd] <= cur
        BY <1>2, <3>3
      <4>2. CASE t \in Range(pen) \cup Merged(levels)
        BY <3>1, <4>2
      <4>3. CASE wpc = "publish" /\ t = cur - 1
        BY <1>2, <2>1, <4>1, <4>3
      <4>4. QED BY <4>1, <4>2, <4>3 DEF IInv, Placed
    <3>4. QED BY <3>2, <3>3
  <2>4. ASSUME NEW q \in Reader, rpc'[q] # "idle", q # rd
        PROVE /\ rpc[q] = rpc'[q] /\ seen'[q] = seen[q]
              /\ window'[q] = window[q]
    BY <1>1, <1>2, <2>2, <2>4 DEF TypeOK
  <2>5. rpc'[rd] = "levels"
    BY <1>1, <1>2 DEF TypeOK
  <2>6. QED BY <1>1, <1>2, <2>3, <2>4, <2>5 DEF IInv, Covered
<1>7. QED BY <1>3, <1>4, <1>5, <1>6 DEF IInv

LEMMA LoadLevelsInv ==
  ASSUME IInv, NEW rd \in Reader, LoadLevels(rd) PROVE IInv'
<1>1. /\ UNCHANGED <<tables, pen, levels, wvars, fvars, stopped, req, rcur,
                     must, window>>
      /\ rpc[rd] = "levels" /\ rpc' = [rpc EXCEPT ![rd] = "iterate"]
      /\ seen' = [seen EXCEPT ![rd] = @ \cup Merged(levels)]
  BY DEF LoadLevels
<1>2. TypeOK /\ cur' = cur
  BY <1>1 DEF IInv, cur
<1>3. Merged(levels) \in SUBSET Nat
  <2>1. \A i \in Level : Range(levels[i]) \subseteq Nat
    BY <1>2, LenProperties DEF TypeOK, Range
  <2>2. QED BY <2>1 DEF Merged
<1>4. TypeOK'
  BY <1>1, <1>2, <1>3 DEF TypeOK, wvars, fvars, Item, Items
<1>5. (Placed /\ Handed /\ Sealed)'
  BY <1>1, <1>2 DEF IInv, Placed, Handed, Sealed, wvars, fvars
<1>6. Written'
  BY <1>1, <1>2 DEF IInv, Written, Acked, wvars
<1>7. Covered'
  BY <1>1, <1>2 DEF IInv, Covered, TypeOK
<1>8. QED BY <1>4, <1>5, <1>6, <1>7 DEF IInv

LEMMA ReturnInv ==
  ASSUME IInv, NEW rd \in Reader, Return(rd) PROVE IInv'
<1>1. /\ UNCHANGED <<tables, pen, levels, wvars, fvars, stopped, req>>
      /\ rpc' = [rpc EXCEPT ![rd] = "idle"]
      /\ rcur' = [rcur EXCEPT ![rd] = 0]
      /\ seen' = [seen EXCEPT ![rd] = {}]
      /\ must' = [must EXCEPT ![rd] = {}]
      /\ window' = [window EXCEPT ![rd] = FALSE]
  BY DEF Return
<1>2. TypeOK /\ cur' = cur
  BY <1>1 DEF IInv, cur
<1>3. TypeOK'
  <2>1. window' \in [Reader -> BOOLEAN]
    BY <1>1, <1>2, Zenon DEF TypeOK
  <2>2. QED BY <1>1, <1>2, <2>1 DEF TypeOK, wvars, fvars, Item, Items
<1>4. (Placed /\ Handed /\ Sealed)'
  BY <1>1, <1>2 DEF IInv, Placed, Handed, Sealed, wvars, fvars
<1>5. Written'
  BY <1>1, <1>2 DEF IInv, Written, Acked, wvars
<1>6. Covered'
  <2>1. \A q \in Reader : q # rd => window'[q] = window[q]
    BY <1>1, <1>2, Zenon DEF TypeOK
  <2>2. QED BY <1>1, <1>2, <2>1 DEF IInv, Covered, TypeOK
<1>7. QED BY <1>3, <1>4, <1>5, <1>6 DEF IInv

LEMMA StutterInv ==
  ASSUME IInv, UNCHANGED vars PROVE IInv'
<1>1. UNCHANGED <<tables, pen, levels, wvars, fvars, stopped, req, rvars>>
  BY DEF vars
<1>2. TypeOK'
  BY <1>1 DEF IInv, TypeOK, wvars, fvars, rvars, Item, Items
<1>3. (Placed /\ Handed /\ Sealed /\ Written /\ Covered)'
  BY <1>1 DEF IInv, Placed, Handed, Sealed, Written, Covered, Acked, cur,
              wvars, fvars, rvars
<1>4. QED BY <1>2, <1>3 DEF IInv

\* Every step of clients, workers and readers keeps the invariant.
LEMMA StepInv ==
  ASSUME IInv, [Next]_vars PROVE IInv'
<1>1. CASE Client \/ Stop
  BY <1>1, ClientInv
<1>2. CASE WriteWorker
  <2>1. CASE \E r \in Request : Accept(r)
    BY <2>1, AcceptInv
  <2>2. CASE PollDefault \/ WriterExit
    BY <2>2, WriterMoveInv
  <2>3. CASE Publish \/ Crash \/ Notify
    BY <2>3, PublishInv, CrashInv, NotifyInv
  <2>4. CASE PutItem \/ Respond
    BY <2>4, PutItemInv, RespondInv
  <2>5. CASE ReceiveDone \/ DropPending
    BY <2>5, ReceiveDoneInv, DropPendingInv
  <2>6. QED BY <1>2, <2>1, <2>2, <2>3, <2>4, <2>5 DEF WriteWorker
<1>3. CASE FlushWorker
  BY <1>3, LoadPendingInv, FlushExitInv, MergeLevelInv DEF FlushWorker
<1>4. CASE ListEvents
  BY <1>4, LoadCurInv, LoadPenInv, LoadLevelsInv, ReturnInv DEF ListEvents
<1>5. CASE UNCHANGED vars
  BY <1>5, StutterInv
<1>6. QED BY <1>1, <1>2, <1>3, <1>4, <1>5 DEF Next

LEMMA Invariant == Spec => []IInv
<1>1. Init => IInv
  BY InitInv
<1>2. IInv /\ [Next]_vars => IInv'
  BY StepInv
<1>3. QED BY <1>1, <1>2, PTL DEF Spec

(***************************************************************************)
(* What follows from it.                                                   *)
(***************************************************************************)

\* The state of the store is well typed after any calls, steps of the workers
\* and crashes (storage.go:45-205).
THEOREM TypeCorrect == Spec => []TypeOK
<1>1. IInv => TypeOK
  BY DEF IInv
<1>2. QED BY <1>1, Invariant, PTL

\* A ListEvents call reaches every memtable up to the one it loaded as cur,
\* save the one sealed just before in an open rotation window
\* (storage.go:295-304 against 333-335).
THEOREM SnapshotsCover == Spec => []SnapshotCoverage
<1>1. IInv => SnapshotCoverage
  BY DEF IInv, Covered, SnapshotCoverage, Missable
<1>2. QED BY <1>1, Invariant, PTL

\* A ListEvents call reaches every write acknowledged before it, save those in
\* the memtable it may miss (storage.go:279-281 against 333-335).
THEOREM AckedWritesVisible == Spec => []AckedVisible
<1>1. ASSUME IInv, NEW rd \in Reader, rpc[rd] = "iterate", NEW x \in must[rd]
      PROVE x \in Visible(rd) \cup UNION {tables[t] : t \in Missable(rd)}
  <2>1. PICK t \in 1 .. rcur[rd] : x \in tables[t]
    BY <1>1 DEF IInv, Covered
  <2>2. t \in seen[rd] \/ t \in Missable(rd)
    BY <1>1, <2>1 DEF IInv, Covered, Missable
  <2>3. QED BY <2>1, <2>2 DEF Visible
<1>2. IInv => AckedVisible
  BY <1>1 DEF AckedVisible
<1>3. QED BY <1>2, Invariant, PTL

\* No index ever holds a tombstone: rotating a memtable that holds one ends
\* the process before its index is stored (index.go:426, storage.go:297-304).
THEOREM IndexesHoldNoTombstone == Spec => []NoTombstoneInIndex
<1>1. IInv => NoTombstoneInIndex
  BY DEF IInv, Sealed, NoTombstoneInIndex
<1>2. QED BY <1>1, Invariant, PTL

\* A sealed memtable never changes, so its index stays complete
\* (storage.go:311-317).
THEOREM SealedMemtablesFrozen == Spec => SealedFrozen
<1>1. ASSUME IInv, [Next]_vars, NEW t \in 1 .. cur - 1, cur' >= cur
      PROVE tables'[t] = tables[t]
  <2>1. TypeOK /\ cur \in Nat /\ t \in 1 .. cur /\ t # cur
    BY <1>1, LenProperties DEF IInv, TypeOK, cur
  <2>2. CASE UNCHANGED tables
    BY <2>2
  <2>3. CASE tables' = Append(tables, {})
    BY <2>1, <2>3 DEF TypeOK, cur
  <2>4. CASE tables' = [tables EXCEPT ![cur] = @ \cup {<<wreq, wnext>>}]
    BY <2>1, <2>4
  <2>5. CASE tables' = <<{}>>
    <3>1. cur' = 1 BY <2>5 DEF cur
    <3>2. QED BY <1>1, <2>1, <3>1
  <2>6. QED
    BY <1>1, <2>2, <2>3, <2>4, <2>5
    DEF Next, Client, Send, Cancel, Again, Stop, WriteWorker, PollDefault,
        WriterExit, Accept, Publish, Crash, Notify, PutItem, PutTable, Respond,
        ReceiveDone, DropPending, FlushWorker, Timer, Compact, LoadPending,
        FlushExit, MergeLevel, ListEvents, LoadCur, LoadPen, LoadLevels,
        Return, vars
<1>2. IInv /\ [Next]_vars =>
        [\A t \in 1 .. cur - 1 : cur' >= cur => tables'[t] = tables[t]]_vars
  BY <1>1
<1>3. QED BY <1>2, Invariant, PTL DEF Spec, SealedFrozen

(***************************************************************************)
(* What the two workers keep: that a batch stays in one memtable, that the *)
(* levels stay under their limits, and, when a drop is prompt, that the    *)
(* levels are ordered by age and merge no memtable twice.                  *)
(***************************************************************************)

(***************************************************************************)
(* Batches.                                                                *)
(***************************************************************************)

\* What is in a memtable was accepted, and what the write worker still puts
\* is in the current memtable only.
Fresh ==
  /\ \A r \in Request, t \in 1 .. cur : tables[t] \cap Items(r) # {} =>
       /\ req[r] \notin {"new", "sending"}
       /\ wreq = r => t = cur /\ wpc = "put"
  /\ wreq \in Request =>
       BatchLen[wreq] = 0 \/ req[wreq] \notin {"new", "sending"}

Undivided == Fresh /\ BatchUndivided

\* Steps that put nothing and start no request.
LEMMA UndividedFrame ==
  ASSUME IInv, Undivided,
         UNCHANGED <<tables, wreq>>, wpc' = wpc \/ wpc # "put",
         \A r \in Request : BatchLen[r] # 0 /\ req'[r] \in {"new", "sending"}
                              => req[r] \in {"new", "sending"}
  PROVE  Undivided'
<1>1. \A r \in Request : Items(r) # {} => BatchLen[r] # 0
  BY StorageAssumption DEF Items
<1>2. Fresh'
  BY <1>1 DEF Undivided, Fresh, cur
<1>3. BatchUndivided'
  BY DEF Undivided, BatchUndivided
<1>4. QED BY <1>2, <1>3 DEF Undivided

LEMMA UndividedAccept ==
  ASSUME IInv, Undivided, NEW r \in Request, Accept(r)
  PROVE  Undivided'
<1>1. /\ TypeOK /\ cur \in Nat /\ cur >= 1 /\ DOMAIN tables = 1 .. cur
      /\ req[r] = "sending" /\ req' = [req EXCEPT ![r] = "accepted"]
      /\ wreq' = r
  BY LenProperties, EmptySeq DEF IInv, TypeOK, cur, Accept
<1>2. \/ tables' = tables
      \/ /\ cur' = cur + 1 /\ DOMAIN tables' = 1 .. cur + 1
         /\ tables'[cur + 1] = {}
         /\ \A t \in 1 .. cur : tables'[t] = tables[t]
  <2>1. CASE tables' = Append(tables, {})
    <3>1. /\ tables' \in Seq(SUBSET Item) /\ Len(tables') = Len(tables) + 1
          /\ \A t \in 1 .. Len(tables) : tables'[t] = tables[t]
          /\ tables'[Len(tables) + 1] = {}
      BY <1>1, <2>1 DEF TypeOK
    <3>2. DOMAIN tables' = 1 .. Len(tables')
      BY <3>1, LenProperties
    <3>3. QED BY <3>1, <3>2 DEF cur
  <2>2. QED BY <2>1 DEF Accept
<1>3. \A q \in Request, t \in DOMAIN tables' :
        tables'[t] \cap Items(q) # {} =>
          t \in 1 .. cur /\ tables[t] \cap Items(q) # {}
  BY <1>1, <1>2
<1>4. \A q \in Request, t \in DOMAIN tables' :
        tables'[t] \cap Items(q) # {} => q # r /\ req'[q] = req[q]
  BY <1>1, <1>3 DEF Undivided, Fresh, TypeOK
<1>5. DOMAIN tables' = 1 .. cur'
  BY <1>1, <1>2 DEF cur
<1>6. Fresh'
  <2>1. \A q \in Request, t \in 1 .. cur' : tables'[t] \cap Items(q) # {} =>
          req'[q] \notin {"new", "sending"} /\ wreq' # q
    BY <1>1, <1>3, <1>4, <1>5 DEF Undivided, Fresh
  <2>2. req'[wreq'] = "accepted"
    BY <1>1 DEF TypeOK
  <2>3. QED BY <2>1, <2>2 DEF Fresh
<1>7. BatchUndivided'
  BY <1>1, <1>3 DEF Undivided, BatchUndivided
<1>8. QED BY <1>6, <1>7 DEF Undivided

LEMMA UndividedPut ==
  ASSUME IInv, Undivided, PutItem
  PROVE  Undivided'
<1>1. /\ TypeOK /\ cur \in Nat /\ cur >= 1 /\ DOMAIN tables = 1 .. cur
      /\ wpc = "put" /\ wreq \in Request /\ wnext \in Nat /\ wnext >= 1
      /\ wnext <= BatchLen[wreq] /\ BatchLen[wreq] \in Nat
      /\ UNCHANGED <<wpc, wreq, req>>
      /\ tables' = [tables EXCEPT ![cur] = @ \cup {<<wreq, wnext>>}]
  BY LenProperties, EmptySeq, StorageAssumption
  DEF IInv, TypeOK, Written, cur, PutItem, PutTable
<1>2. cur' = cur /\ DOMAIN tables' = 1 .. cur
  BY <1>1, LenProperties DEF cur, TypeOK
<1>3. \A q \in Request, t \in 1 .. cur :
        tables'[t] \cap Items(q) # {} =>
          tables[t] \cap Items(q) # {} \/ (q = wreq /\ t = cur)
  BY <1>1 DEF Items
<1>4. req[wreq] \notin {"new", "sending"}
  BY <1>1 DEF Undivided, Fresh
<1>5. Fresh'
  BY <1>1, <1>2, <1>3, <1>4 DEF Undivided, Fresh
<1>6. ASSUME NEW q \in Request, NEW t \in 1 .. cur, NEW u \in 1 .. cur,
             tables'[t] \cap Items(q) # {}, tables'[u] \cap Items(q) # {}
      PROVE  t = u
  <2>1. CASE q = wreq
    <3>1. \A v \in 1 .. cur : tables[v] \cap Items(q) # {} => v = cur
      BY <2>1 DEF Undivided, Fresh
    <3>2. QED BY <1>3, <1>6, <3>1
  <2>2. CASE q # wreq
    <3>1. tables[t] \cap Items(q) # {} /\ tables[u] \cap Items(q) # {}
      BY <1>3, <1>6, <2>2
    <3>2. QED BY <1>1, <3>1 DEF Undivided, BatchUndivided
  <2>3. QED BY <2>1, <2>2
<1>7. BatchUndivided'
  BY <1>2, <1>6 DEF BatchUndivided
<1>8. QED BY <1>5, <1>7 DEF Undivided

LEMMA UndividedCrash ==
  ASSUME Crash PROVE Undivided'
<1>1. tables' = <<{}>> /\ wreq' = NoRequest
  BY DEF Crash
<1>2. cur' = 1 /\ DOMAIN tables' = {1} /\ tables'[1] = {}
  BY <1>1 DEF cur
<1>3. QED
  BY <1>1, <1>2, StorageAssumption DEF Undivided, Fresh, BatchUndivided

LEMMA UndividedRespond ==
  ASSUME IInv, Undivided, Respond PROVE Undivided'
<1>1. /\ TypeOK /\ wreq \in Request /\ UNCHANGED tables /\ wreq' = NoRequest
      /\ req' = [req EXCEPT ![wreq] = IF @ = "accepted" THEN "acked" ELSE @]
  BY DEF IInv, Written, Respond
<1>2. \A q \in Request : req'[q] \in {"new", "sending"}
                           => req[q] \in {"new", "sending"}
  BY <1>1 DEF TypeOK
<1>3. Fresh' /\ BatchUndivided'
  BY <1>1, <1>2, StorageAssumption
  DEF Undivided, Fresh, BatchUndivided, cur
<1>4. QED BY <1>3 DEF Undivided

LEMMA UndividedStep ==
  ASSUME IInv, Undivided, [Next]_vars PROVE Undivided'
<1>1. CASE Client
  <2>1. PICK r \in Request : Send(r) \/ Cancel(r) \/ Again(r)
    BY <1>1 DEF Client
  <2>2. UNCHANGED <<tables, wreq, wpc>>
    BY <2>1 DEF Send, Cancel, Again, wvars
  <2>3. \A q \in Request : BatchLen[q] # 0 /\ req'[q] \in {"new", "sending"}
                             => req[q] \in {"new", "sending"}
    BY <2>1 DEF IInv, TypeOK, Send, Cancel, Again
  <2>4. QED BY <2>2, <2>3, UndividedFrame
<1>2. CASE Stop \/ FlushWorker \/ ListEvents \/ UNCHANGED vars
  <2>1. UNCHANGED <<tables, wreq, wpc, req>>
    BY <1>2 DEF Stop, FlushWorker, Timer, Compact, LoadPending, FlushExit,
                MergeLevel, ListEvents, LoadCur, LoadPen, LoadLevels, Return,
                vars, wvars
  <2>2. QED BY <2>1, UndividedFrame
<1>3. CASE WriteWorker
  <2>1. CASE \/ PollDefault \/ WriterExit \/ Publish \/ Notify
             \/ ReceiveDone \/ DropPending
    <3>1. UNCHANGED <<tables, wreq, req>> /\ wpc # "put"
      BY <2>1 DEF PollDefault, WriterExit, ExitPoints, Publish, Notify,
                  ReceiveDone, DropPending
    <3>2. QED BY <3>1, UndividedFrame
  <2>2. QED
    BY <1>3, <2>1, UndividedAccept, UndividedPut, UndividedCrash,
       UndividedRespond DEF WriteWorker
<1>4. QED BY <1>1, <1>2, <1>3 DEF Next

\* A key change and its tombstone, and every other batch, are never split
\* by a rotation (storage.go:286-318).
THEOREM BatchesUndivided == Spec => []BatchUndivided
<1>1. Init => Undivided
  BY StorageAssumption DEF Init, Undivided, Fresh, BatchUndivided, cur
<1>2. IInv /\ Undivided /\ [Next]_vars => Undivided'
  BY UndividedStep
<1>3. Undivided => BatchUndivided
  BY DEF Undivided
<1>4. QED BY <1>1, <1>2, <1>3, Invariant, PTL DEF Spec

(***************************************************************************)
(* The size of the levels.                                                 *)
(***************************************************************************)

TablesFinite == \A t \in 1 .. cur : IsFiniteSet(tables[t])

Bounded == TablesFinite /\ LevelsUnderLimit

\* The cardinality of a merged index is a natural number.
LEMMA CardNat ==
  ASSUME NEW run \in Seq(Nat), \A t \in Range(run) : IsFiniteSet(tables[t])
  PROVE  Card(run) \in Nat
<1> DEFINE part(k) == {k} \X tables[run[k]]
           parts == {part(k) : k \in DOMAIN run}
           f == [k \in DOMAIN run |-> part(k)]
<1>1. DOMAIN run = 1 .. Len(run) /\ Len(run) \in Nat
  BY LenProperties
<1>2. IsFiniteSet(DOMAIN run)
  BY <1>1, FS_Interval
<1>3. f \in Surjection(DOMAIN run, parts)
  BY DEF Surjection
<1>4. IsFiniteSet(parts)
  <2> HIDE DEF f, parts
  <2>1. QED BY <1>2, <1>3, FS_Surjection
<1>5. ASSUME NEW k \in DOMAIN run PROVE IsFiniteSet(part(k))
  <2>1. run[k] \in Range(run)
    BY DEF Range
  <2>2. IsFiniteSet({k}) /\ IsFiniteSet(tables[run[k]])
    BY <2>1, FS_Singleton
  <2>3. QED BY <2>2, FS_Product
<1>6. \A T \in parts : IsFiniteSet(T)
  BY <1>5
<1>7. IsFiniteSet(UNION parts)
  <2> HIDE DEF parts
  <2>1. QED BY <1>4, <1>6, FS_UNION
<1>8. Card(run) = Cardinality(UNION parts)
  BY DEF Card
<1> HIDE DEF parts
<1>9. QED BY <1>7, <1>8, FS_CardinalityType

\* What is merged is sealed.
LEMMA MergedSealed ==
  ASSUME IInv, NEW i \in Level
  PROVE  /\ levels[i] \in Seq(Nat)
         /\ \A t \in Range(levels[i]) : t \in 1 .. cur - 1
BY DEF IInv, TypeOK, Sealed, Merged

\* A memtable grows by single items.
LEMMA TablesFiniteStep ==
  ASSUME IInv, TablesFinite, [Next]_vars PROVE TablesFinite'
<1>1. TypeOK /\ cur \in Nat /\ cur >= 1 /\ DOMAIN tables = 1 .. cur
  BY LenProperties, EmptySeq DEF IInv, TypeOK, cur
<1>2. CASE UNCHANGED tables
  BY <1>2 DEF TablesFinite, cur
<1>3. CASE tables' = Append(tables, {})
  <2>1. /\ cur' = cur + 1 /\ tables'[cur + 1] = {}
        /\ \A t \in 1 .. cur : tables'[t] = tables[t]
    BY <1>1, <1>3 DEF TypeOK, cur
  <2>2. \A t \in 1 .. cur' :
          \/ tables'[t] = {}
          \/ t \in 1 .. cur /\ tables'[t] = tables[t]
    BY <1>1, <2>1
  <2>3. IsFiniteSet({})
    BY FS_EmptySet
  <2>4. QED BY <2>2, <2>3 DEF TablesFinite
<1>4. CASE tables' = [tables EXCEPT ![cur] = @ \cup {<<wreq, wnext>>}]
  <2>1. cur' = cur
    BY <1>1, <1>4, LenProperties DEF TypeOK, cur
  <2>2. /\ tables'[cur] = tables[cur] \cup {<<wreq, wnext>>}
        /\ \A t \in 1 .. cur : t # cur => tables'[t] = tables[t]
    BY <1>1, <1>4
  <2>3. IsFiniteSet(tables[cur] \cup {<<wreq, wnext>>})
    BY <1>1, FS_AddElement DEF TablesFinite
  <2>4. QED BY <2>1, <2>2, <2>3 DEF TablesFinite
<1>5. CASE tables' = <<{}>>
  <2>1. \A t \in 1 .. cur' : tables'[t] = {}
    BY <1>5 DEF cur
  <2>2. IsFiniteSet({})
    BY FS_EmptySet
  <2>3. QED BY <2>1, <2>2 DEF TablesFinite
<1>6. QED
  BY <1>2, <1>3, <1>4, <1>5
  DEF Next, Client, Send, Cancel, Again, Stop, WriteWorker, PollDefault,
      WriterExit, Accept, Publish, Crash, Notify, PutItem, PutTable, Respond,
      ReceiveDone, DropPending, FlushWorker, Timer, Compact, LoadPending,
      FlushExit, MergeLevel, ListEvents, LoadCur, LoadPen, LoadLevels,
      Return, vars

\* A spill leaves its level under the limit and touches no level above.
LEMMA SpillUnder ==
  ASSUME NEW lv \in [Level -> Seq(Nat)], NEW i \in 0 .. 2,
         \A j \in 0 .. 2 : Card(lv[j]) \in Nat
  PROVE  /\ Spill(lv, i)[i] # <<>> => Card(Spill(lv, i)[i]) < LevelLimit[i]
         /\ \A j \in Level \ {i, i + 1} : Spill(lv, i)[j] = lv[j]
<1>1. LevelLimit[i] \in Nat /\ Card(lv[i]) \in Nat
  BY StorageAssumption
<1>2. i \in Level /\ i + 1 \in Level /\ i # i + 1
  BY DEF Level
<1>3. CASE lv[i] # <<>> /\ Card(lv[i]) >= LevelLimit[i]
  <2>1. Spill(lv, i) = [lv EXCEPT ![i + 1] = lv[i] \o @, ![i] = <<>>]
    BY <1>3 DEF Spill
  <2>2. QED BY <1>2, <2>1
<1>4. CASE ~ (lv[i] # <<>> /\ Card(lv[i]) >= LevelLimit[i])
  <2>1. Spill(lv, i) = lv
    BY <1>4 DEF Spill
  <2>2. QED BY <1>1, <1>4, <2>1
<1>5. QED BY <1>3, <1>4

LEMMA UnderMerge ==
  ASSUME IInv, Bounded, MergeLevel PROVE LevelsUnderLimit'
<1> DEFINE h == Head(ftodo)
           a == Absorb(levels, h)
           b == Spill(a, 0)
           c == Spill(b, 1)
           d == Spill(c, 2)
<1>1. /\ UNCHANGED tables /\ levels' = d
      /\ levels \in [Level -> Seq(Nat)] /\ ftodo \in Seq(Nat) /\ ftodo # <<>>
  BY DEF IInv, TypeOK, Handed, MergeLevel
<1>2. h \in Nat /\ h \in Range(ftodo)
  BY <1>1, RangeTail, HeadTailProperties
<1>3. \A t \in Merged(levels) \cup {h} : t \in 1 .. cur /\ IsFiniteSet(tables[t])
  <2>1. \A t \in Merged(levels) \cup {h} : t \in 1 .. cur - 1
    BY <1>2 DEF IInv, Sealed
  <2>2. cur \in Nat
    BY LenProperties DEF IInv, TypeOK, cur
  <2>3. QED BY <2>1, <2>2 DEF Bounded, TablesFinite
<1> HIDE DEF h
<1>4. ASSUME NEW lv \in [Level -> Seq(Nat)],
             Merged(lv) = Merged(levels) \cup {h}, NEW i \in Level
      PROVE  Card(lv[i]) \in Nat
  <2>1. Range(lv[i]) \subseteq Merged(lv)
    BY DEF Merged
  <2>2. QED BY <1>3, <1>4, <2>1, CardNat
<1>5. a \in [Level -> Seq(Nat)] /\ Merged(a) = Merged(levels) \cup {h}
  BY <1>1, <1>2, MergedAbsorb
<1> HIDE DEF a
<1>6. b \in [Level -> Seq(Nat)] /\ Merged(b) = Merged(levels) \cup {h}
  BY <1>5, MergedSpill
<1>7. b[0] # <<>> => Card(b[0]) < LevelLimit[0]
  BY <1>4, <1>5, SpillUnder DEF Level
<1> HIDE DEF b
<1>8. c \in [Level -> Seq(Nat)] /\ Merged(c) = Merged(levels) \cup {h}
  BY <1>6, MergedSpill
<1>9. c[0] = b[0] /\ (c[1] # <<>> => Card(c[1]) < LevelLimit[1])
  <2>1. 0 \in Level \ {1, 1 + 1} /\ 1 \in 0 .. 2
    BY DEF Level
  <2>2. \A j \in 0 .. 2 : Card(b[j]) \in Nat
    BY <1>4, <1>6 DEF Level
  <2>3. QED BY <1>6, <2>1, <2>2, SpillUnder
<1> HIDE DEF c
<1>10. /\ d[0] = c[0] /\ d[1] = c[1]
       /\ d[2] # <<>> => Card(d[2]) < LevelLimit[2]
  BY <1>4, <1>8, SpillUnder DEF Level
<1> HIDE DEF d
<1>11. \A i \in 0 .. 2 : d[i] # <<>> => Card(d[i]) < LevelLimit[i]
  BY <1>7, <1>9, <1>10
<1>12. QED BY <1>1, <1>11 DEF LevelsUnderLimit, Card

\* Only mergeLevel and a crash change the levels; other steps change no
\* sealed memtable.
LEMMA UnderOther ==
  ASSUME IInv, Bounded, [Next]_vars, UNCHANGED levels, ~ Crash
  PROVE  LevelsUnderLimit'
<1>1. TypeOK /\ cur \in Nat
  BY LenProperties DEF IInv, TypeOK, cur
<1>2. ASSUME NEW t \in 1 .. cur - 1 PROVE tables'[t] = tables[t]
  <2>1. t \in 1 .. cur /\ t # cur
    BY <1>1
  <2>2. CASE UNCHANGED tables
    BY <2>2
  <2>3. CASE tables' = Append(tables, {})
    BY <1>1, <2>1, <2>3 DEF TypeOK, cur
  <2>4. CASE tables' = [tables EXCEPT ![cur] = @ \cup {<<wreq, wnext>>}]
    BY <1>1, <2>1, <2>4
  <2>5. QED
    BY <2>2, <2>3, <2>4
    DEF Next, Client, Send, Cancel, Again, Stop, WriteWorker, PollDefault,
        WriterExit, Accept, Publish, Notify, PutItem, PutTable, Respond,
        ReceiveDone, DropPending, FlushWorker, Timer, Compact, LoadPending,
        FlushExit, MergeLevel, ListEvents, LoadCur, LoadPen, LoadLevels,
        Return, vars
<1>3. ASSUME NEW i \in 0 .. 2 PROVE Card(levels[i])' = Card(levels[i])
  <2>1. \A t \in Range(levels[i]) : tables'[t] = tables[t]
    <3>1. i \in Level
      BY DEF Level
    <3>2. \A t \in Range(levels[i]) : t \in 1 .. cur - 1
      BY <3>1, MergedSealed
    <3>3. QED BY <1>2, <3>2
  <2>2. levels'[i] = levels[i]
    OBVIOUS
  <2>3. Card(levels[i])' = Card(levels[i])
    <3> DEFINE run == levels[i]
    <3>1. levels'[i] = run
      BY <2>2
    <3>2. \A k \in DOMAIN run : tables'[run[k]] = tables[run[k]]
      BY <2>1 DEF Range
    <3> HIDE DEF run
    <3>3. UNION {{k} \X tables'[run[k]] : k \in DOMAIN run}
            = UNION {{k} \X tables[run[k]] : k \in DOMAIN run}
      BY <3>2
    <3>4. QED BY <3>1, <3>3 DEF Card, run
  <2>4. QED BY <2>3
<1>4. QED BY <1>3 DEF Bounded, LevelsUnderLimit

LEMMA BoundedStep ==
  ASSUME IInv, Bounded, [Next]_vars PROVE Bounded'
<1>1. Crash \/ MergeLevel \/ UNCHANGED levels
  BY DEF Next, Client, Send, Cancel, Again, Stop, WriteWorker, PollDefault,
      WriterExit, Accept, Publish, Notify, PutItem, Respond, ReceiveDone,
      DropPending, FlushWorker, Timer, Compact, LoadPending, FlushExit,
      ListEvents, LoadCur, LoadPen, LoadLevels, Return, vars
<1>2. LevelsUnderLimit'
  <2>1. CASE Crash
    <3>1. \A i \in 0 .. 2 : levels'[i] = <<>>
      BY <2>1 DEF Crash, Level
    <3>2. QED BY <3>1 DEF LevelsUnderLimit
  <2>2. CASE MergeLevel
    BY <2>2, UnderMerge
  <2>3. CASE UNCHANGED levels /\ ~ Crash
    BY <2>3, UnderOther
  <2>4. QED BY <1>1, <2>1, <2>2, <2>3
<1>3. TablesFinite'
  BY TablesFiniteStep DEF Bounded
<1>4. QED BY <1>2, <1>3 DEF Bounded

\* Every merge leaves levels 0..2 under their limits, whatever the limits
\* and the sizes of the memtables are (storage.go:187-198).
THEOREM LevelsAlwaysUnderLimit == Spec => []LevelsUnderLimit
<1>1. Init => Bounded
  <2>1. SUFFICES ASSUME Init PROVE Bounded
    OBVIOUS
  <2>2. cur = 1 /\ tables[1] = {} /\ levels = [i \in Level |-> <<>>]
    BY <2>1 DEF Init, cur
  <2>3. TablesFinite
    <3>1. \A t \in 1 .. cur : tables[t] = {}
      BY <2>2
    <3>2. IsFiniteSet({})
      BY FS_EmptySet
    <3>3. QED BY <3>1, <3>2 DEF TablesFinite
  <2>4. LevelsUnderLimit
    BY <2>2 DEF LevelsUnderLimit, Level
  <2>5. QED BY <2>3, <2>4 DEF Bounded
<1>2. IInv /\ Bounded /\ [Next]_vars => Bounded'
  BY BoundedStep
<1>3. Bounded => LevelsUnderLimit
  BY DEF Bounded
<1>4. QED BY <1>1, <1>2, <1>3, Invariant, PTL DEF Spec

(***************************************************************************)
(* Ordered sequences.                                                      *)
(***************************************************************************)

Increasing(s) == \A i, j \in DOMAIN s : i < j => s[i] < s[j]

\* The elements of a sequence of naturals.
LEMMA RangeNat ==
  ASSUME NEW s \in Seq(Nat) PROVE Range(s) \subseteq Nat
<1>1. DOMAIN s = 1 .. Len(s) /\ \A i \in 1 .. Len(s) : s[i] \in Nat
  BY LenProperties, ElementOfSeq
<1>2. QED BY <1>1 DEF Range

\* An element larger than every other may be appended.
LEMMA IncreasingAppend ==
  ASSUME NEW s \in Seq(Nat), NEW e \in Nat, Increasing(s),
         \A t \in Range(s) : t < e
  PROVE  Increasing(Append(s, e))
<1> DEFINE a == Append(s, e)
<1>1. /\ DOMAIN a = 1 .. Len(s) + 1 /\ DOMAIN s = 1 .. Len(s)
      /\ Len(s) \in Nat /\ a[Len(s) + 1] = e
      /\ \A i \in 1 .. Len(s) : a[i] = s[i] /\ s[i] < e
  <2>1. /\ a \in Seq(Nat) /\ Len(a) = Len(s) + 1 /\ a[Len(s) + 1] = e
        /\ \A i \in 1 .. Len(s) : a[i] = s[i]
    BY AppendProperties
  <2>2. DOMAIN s = 1 .. Len(s) /\ Len(s) \in Nat /\ DOMAIN a = 1 .. Len(a)
    BY <2>1, LenProperties
  <2>3. \A i \in 1 .. Len(s) : s[i] \in Range(s)
    BY <2>2 DEF Range
  <2>4. QED BY <2>1, <2>2, <2>3
<1> HIDE DEF a
<1>2. Increasing(a)
  BY <1>1 DEF Increasing
<1>3. QED BY <1>2 DEF a

\* The head of an increasing sequence is below its tail, which is increasing.
LEMMA IncreasingTail ==
  ASSUME NEW s \in Seq(Nat), s # <<>>, Increasing(s)
  PROVE  /\ Increasing(Tail(s))
         /\ \A t \in Range(Tail(s)) : Head(s) < t
         /\ Range(s) = {Head(s)} \cup Range(Tail(s))
<1> DEFINE b == Tail(s)
<1>1. /\ DOMAIN s = 1 .. Len(s) /\ Len(s) \in Nat \ {0} /\ Head(s) = s[1]
      /\ DOMAIN b = 1 .. Len(s) - 1
      /\ \A i \in 1 .. Len(s) - 1 : b[i] = s[i + 1]
  BY HeadTailProperties, EmptySeq, LenProperties
<1> HIDE DEF b
<1>2. ASSUME NEW i \in DOMAIN b, NEW j \in DOMAIN b, i < j PROVE b[i] < b[j]
  <2>1. i + 1 \in DOMAIN s /\ j + 1 \in DOMAIN s /\ i + 1 < j + 1
    BY <1>1, <1>2
  <2>2. QED BY <1>1, <2>1 DEF Increasing
<1>3. ASSUME NEW i \in DOMAIN b PROVE Head(s) < b[i]
  <2>1. 1 \in DOMAIN s /\ i + 1 \in DOMAIN s /\ 1 < i + 1
    BY <1>1
  <2>2. QED BY <1>1, <2>1 DEF Increasing
<1>4. \A t \in Range(b) : Head(s) < t
  BY <1>3 DEF Range
<1>5. ASSUME NEW i \in DOMAIN s PROVE s[i] \in {Head(s)} \cup Range(b)
  <2>1. CASE i = 1
    BY <1>1, <2>1
  <2>2. CASE i # 1
    <3>1. i - 1 \in DOMAIN b /\ s[i] = b[i - 1]
      BY <1>1, <2>2
    <3>2. QED BY <3>1 DEF Range
  <2>3. QED BY <2>1, <2>2
<1>6. Range(s) = {Head(s)} \cup Range(b)
  <2>1. Head(s) \in Range(s) /\ Range(b) \subseteq Range(s)
    BY RangeTail DEF b
  <2>2. Range(s) \subseteq {Head(s)} \cup Range(b)
    BY <1>5 DEF Range
  <2>3. QED BY <2>1, <2>2
<1>7. QED BY <1>2, <1>4, <1>6 DEF Increasing, b

\* RemoveFirst takes its element out of an increasing sequence for good.
LEMMA IncreasingRemove ==
  ASSUME NEW s \in Seq(Nat), NEW e, Increasing(s)
  PROVE  Increasing(RemoveFirst(s, e)) /\ e \notin Range(RemoveFirst(s, e))
<1>1. CASE ~ \E i \in 1 .. Len(s) : s[i] = e
  <2>1. RemoveFirst(s, e) = s
    BY <1>1 DEF RemoveFirst
  <2>2. e \notin Range(s)
    BY <1>1, LenProperties DEF Range
  <2>3. QED BY <2>1, <2>2
<1>2. CASE \E i \in 1 .. Len(s) : s[i] = e
  <2> DEFINE I == {i \in 1 .. Len(s) : s[i] = e}
             k == Min(I)
             a == SubSeq(s, 1, k - 1)
             b == SubSeq(s, k + 1, Len(s))
             c == a \o b
  <2>1. k \in 1 .. Len(s) /\ s[k] = e
    <3>1. I \subseteq Nat /\ I # {}
      BY <1>2, LenProperties
    <3>2. QED BY <3>1, LeastNatural
  <2>2. RemoveFirst(s, e) = c
    <3>1. SelectInSeq(s, LAMBDA v : v = e) = k
      BY <1>2 DEF SelectInSeq
    <3>2. QED BY <1>2, <3>1 DEF RemoveFirst, RemoveAt
  <2> HIDE DEF k
  <2>3. /\ a \in Seq(Nat) /\ Len(a) = k - 1
        /\ \A i \in 1 .. k - 1 : a[i] = s[i]
    BY <2>1, LenProperties, ElementOfSeq, SubSeqProperties
  <2>4. /\ b \in Seq(Nat) /\ Len(b) = Len(s) - k
        /\ \A i \in 1 .. Len(s) - k : b[i] = s[k + i]
    BY <2>1, LenProperties, ElementOfSeq, SubSeqProperties
  <2> HIDE DEF a, b
  <2>5. /\ c \in Seq(Nat) /\ Len(c) = Len(a) + Len(b)
        /\ \A i \in 1 .. Len(a) + Len(b) :
             c[i] = IF i <= Len(a) THEN a[i] ELSE b[i - Len(a)]
    BY <2>3, <2>4, ConcatProperties
  <2>6. DOMAIN c = 1 .. Len(s) - 1 /\ DOMAIN s = 1 .. Len(s) /\ Len(s) \in Nat
    <3>1. DOMAIN c = 1 .. Len(c) /\ DOMAIN s = 1 .. Len(s) /\ Len(s) \in Nat
      BY <2>5, LenProperties
    <3>2. Len(c) = Len(s) - 1
      BY <2>1, <2>3, <2>4, <2>5, <3>1
    <3>3. QED BY <3>1, <3>2
  <2> HIDE DEF c
  <2> DEFINE at(i) == IF i < k THEN i ELSE i + 1
  <2>l. Len(s) \in Int /\ k \in Int /\ 1 <= k /\ k <= Len(s)
    BY <2>1, <2>6
  <2>7. ASSUME NEW i \in DOMAIN c
        PROVE  c[i] = s[at(i)] /\ at(i) \in DOMAIN s /\ at(i) # k
    <3>1. i \in Int /\ 1 <= i /\ i <= Len(s) - 1
      BY <2>6, <2>7
    <3>2. c[i] = IF i <= Len(a) THEN a[i] ELSE b[i - Len(a)]
      <4>1. Len(a) + Len(b) = Len(s) - 1
        BY <2>l, <2>3, <2>4
      <4>2. i \in 1 .. Len(a) + Len(b)
        BY <2>l, <3>1, <4>1
      <4>3. QED BY <2>5, <4>2
    <3>3. CASE i < k
      <4>1. i <= k - 1 /\ i \in 1 .. k - 1
        BY <2>l, <3>1, <3>3
      <4>2. c[i] = s[i]
        BY <2>3, <3>2, <4>1
      <4>3. i \in DOMAIN s /\ i # k
        BY <2>l, <2>6, <3>1, <3>3
      <4>4. QED BY <3>3, <4>2, <4>3
    <3>4. CASE ~ (i < k)
      <4>1. ~ (i <= k - 1) /\ i - (k - 1) \in 1 .. Len(s) - k
            /\ k + (i - (k - 1)) = i + 1
        BY <2>l, <3>1, <3>4
      <4>2. c[i] = b[i - (k - 1)]
        BY <2>3, <3>2, <4>1
      <4>3. b[i - (k - 1)] = s[i + 1]
        BY <2>4, <4>1
      <4>4. i + 1 \in DOMAIN s /\ i + 1 # k
        BY <2>l, <2>6, <3>1, <3>4
      <4>5. QED BY <3>4, <4>2, <4>3, <4>4
    <3>5. QED BY <3>3, <3>4
  <2>8. ASSUME NEW i \in DOMAIN c, NEW j \in DOMAIN c, i < j
        PROVE  at(i) < at(j)
    <3>1. i \in Int /\ j \in Int
      BY <2>6, <2>8
    <3>2. QED BY <2>l, <2>8, <3>1
  <2> HIDE DEF at
  <2>9. Increasing(c)
    BY <2>7, <2>8 DEF Increasing
  <2>10. \A i \in DOMAIN c : c[i] # e
    <3>1. ASSUME NEW i \in DOMAIN c PROVE c[i] # e
      <4>1. at(i) < k \/ k < at(i)
        BY <2>1, <2>6, <2>7
      <4>2. s[at(i)] \in Nat /\ s[k] \in Nat /\ k \in DOMAIN s
        BY <2>1, <2>6, <2>7, ElementOfSeq
      <4>3. s[at(i)] < s[k] \/ s[k] < s[at(i)]
        BY <2>7, <4>1, <4>2 DEF Increasing
      <4>4. QED BY <2>1, <2>7, <4>2, <4>3
    <3>2. QED BY <3>1
  <2>11. QED BY <2>2, <2>9, <2>10 DEF Range
<1>3. QED BY <1>1, <1>2

\* A new element may be appended to a sequence without duplicates.
LEMMA InjectiveAppend ==
  ASSUME NEW s \in Seq(Nat), NEW e \in Nat, IsInjective(s), e \notin Range(s)
  PROVE  IsInjective(Append(s, e))
<1> DEFINE a == Append(s, e)
<1>1. /\ DOMAIN a = 1 .. Len(s) + 1 /\ DOMAIN s = 1 .. Len(s)
      /\ Len(s) \in Nat /\ a[Len(s) + 1] = e
      /\ \A i \in 1 .. Len(s) : a[i] = s[i] /\ s[i] # e
  <2>1. /\ a \in Seq(Nat) /\ Len(a) = Len(s) + 1 /\ a[Len(s) + 1] = e
        /\ \A i \in 1 .. Len(s) : a[i] = s[i]
    BY AppendProperties
  <2>2. DOMAIN s = 1 .. Len(s) /\ Len(s) \in Nat /\ DOMAIN a = 1 .. Len(a)
    BY <2>1, LenProperties
  <2>3. \A i \in 1 .. Len(s) : s[i] # e
    BY <2>2 DEF Range
  <2>4. QED BY <2>1, <2>2, <2>3
<1> HIDE DEF a
<1>2. IsInjective(a)
  BY <1>1 DEF IsInjective
<1>3. QED BY <1>2 DEF a

\* Two sequences without duplicates and without a common element.
LEMMA InjectiveConcat ==
  ASSUME NEW s \in Seq(Nat), NEW t \in Seq(Nat),
         IsInjective(s), IsInjective(t), Range(s) \cap Range(t) = {}
  PROVE  IsInjective(s \o t)
<1> DEFINE c == s \o t
<1>1. /\ c \in Seq(Nat) /\ Len(c) = Len(s) + Len(t)
      /\ \A i \in 1 .. Len(s) + Len(t) :
           c[i] = IF i <= Len(s) THEN s[i] ELSE t[i - Len(s)]
  BY ConcatProperties
<1>2. /\ DOMAIN s = 1 .. Len(s) /\ Len(s) \in Nat
      /\ DOMAIN t = 1 .. Len(t) /\ Len(t) \in Nat
      /\ DOMAIN c = 1 .. Len(s) + Len(t)
  BY <1>1, LenProperties
<1> HIDE DEF c
<1>3. ASSUME NEW i \in DOMAIN c
      PROVE  \/ i \in DOMAIN s /\ c[i] = s[i] /\ i <= Len(s)
             \/ i - Len(s) \in DOMAIN t /\ c[i] = t[i - Len(s)] /\ i > Len(s)
  <2>1. CASE i <= Len(s)
    BY <1>1, <1>2, <2>1
  <2>2. CASE ~ (i <= Len(s))
    <3>1. i - Len(s) \in DOMAIN t /\ i > Len(s)
      BY <1>2, <2>2
    <3>2. QED BY <1>1, <1>2, <2>2, <3>1
  <2>3. QED BY <2>1, <2>2
<1>4. ASSUME NEW i \in DOMAIN c, NEW j \in DOMAIN c, c[i] = c[j]
      PROVE  i = j
  <2>1. CASE i <= Len(s) /\ j <= Len(s)
    <3>1. i \in DOMAIN s /\ j \in DOMAIN s /\ s[i] = s[j]
      BY <1>2, <1>3, <1>4, <2>1
    <3>2. QED BY <3>1 DEF IsInjective
  <2>2. CASE i > Len(s) /\ j > Len(s)
    <3>1. /\ i - Len(s) \in DOMAIN t /\ j - Len(s) \in DOMAIN t
          /\ t[i - Len(s)] = t[j - Len(s)]
      BY <1>2, <1>3, <1>4, <2>2
    <3>2. i - Len(s) = j - Len(s)
      BY <3>1 DEF IsInjective
    <3>3. QED BY <1>2, <3>2
  <2>3. \A k \in DOMAIN c : /\ k <= Len(s) => c[k] \in Range(s)
                            /\ k > Len(s) => c[k] \in Range(t)
    <3>1. ASSUME NEW k \in DOMAIN c
          PROVE  /\ k <= Len(s) => c[k] \in Range(s)
                 /\ k > Len(s) => c[k] \in Range(t)
      <4>1. CASE k <= Len(s)
        <5>1. k \in DOMAIN s /\ c[k] = s[k]
          BY <1>2, <1>3, <4>1
        <5>2. ~ (k > Len(s))
          BY <1>2, <4>1
        <5>3. QED BY <5>1, <5>2 DEF Range
      <4>2. CASE k > Len(s)
        <5>1. k - Len(s) \in DOMAIN t /\ c[k] = t[k - Len(s)]
          BY <1>2, <1>3, <4>2
        <5>2. ~ (k <= Len(s))
          BY <1>2, <4>2
        <5>3. QED BY <5>1, <5>2 DEF Range
      <4>3. QED BY <1>2, <4>1, <4>2
    <3>2. QED BY <3>1
  <2>4. QED BY <1>2, <1>4, <2>1, <2>2, <2>3
<1>5. QED BY <1>4 DEF IsInjective, c

(***************************************************************************)
(* Levels ordered by age.                                                  *)
(***************************************************************************)

\* A deeper level holds older memtables.
Aged(lv) ==
  \A i, j \in Level : i < j =>
    \A t \in Range(lv[i]), u \in Range(lv[j]) : u < t

\* No level holds a memtable twice.
Distinct(lv) == \A i \in Level : IsInjective(lv[i])

\* A memtable newer than all that are merged goes on top.
LEMMA AgedAbsorb ==
  ASSUME NEW lv \in [Level -> Seq(Nat)], NEW t \in Nat,
         Aged(lv), Distinct(lv), \A u \in Merged(lv) : u < t
  PROVE  Aged(Absorb(lv, t)) /\ Distinct(Absorb(lv, t))
<1> DEFINE a == Absorb(lv, t)
<1>1. /\ 0 \in Level /\ lv[0] \in Seq(Nat) /\ a[0] = Append(lv[0], t)
      /\ \A i \in Level : i # 0 => a[i] = lv[i]
  BY DEF Absorb, Level
<1>2. Range(a[0]) = Range(lv[0]) \cup {t}
  BY <1>1, RangeAppend
<1>3. \A i \in Level : Range(lv[i]) \subseteq Merged(lv)
  BY DEF Merged
<1>4. IsInjective(a[0])
  <2>1. t \notin Range(lv[0])
    BY <1>1, <1>3
  <2>2. IsInjective(lv[0])
    BY <1>1 DEF Distinct
  <2>3. QED BY <1>1, <2>1, <2>2, InjectiveAppend
<1> HIDE DEF a
<1>5. Distinct(a)
  BY <1>1, <1>4 DEF Distinct
<1>6. ASSUME NEW i \in Level, NEW j \in Level, i < j,
             NEW x \in Range(a[i]), NEW y \in Range(a[j])
      PROVE  y < x
  <2>1. j # 0
    BY <1>6 DEF Level
  <2>2. y \in Range(lv[j]) /\ y \in Merged(lv)
    BY <1>1, <1>3, <2>1
  <2>3. CASE x \in Range(lv[i])
    BY <1>6, <2>2, <2>3 DEF Aged
  <2>4. CASE x = t
    BY <2>2, <2>4
  <2>5. QED BY <1>1, <1>2, <2>3, <2>4
<1>7. QED BY <1>5, <1>6 DEF Aged, a

\* A spill puts the newer memtables on top of the older ones.
LEMMA AgedSpill ==
  ASSUME NEW lv \in [Level -> Seq(Nat)], NEW k \in 0 .. 2,
         Aged(lv), Distinct(lv)
  PROVE  Aged(Spill(lv, k)) /\ Distinct(Spill(lv, k))
<1> DEFINE b == [lv EXCEPT ![k + 1] = lv[k] \o @, ![k] = <<>>]
<1>1. /\ k \in Level /\ k + 1 \in Level /\ k < k + 1 /\ k # k + 1
      /\ lv[k] \in Seq(Nat) /\ lv[k + 1] \in Seq(Nat)
  BY DEF Level
<1>2. /\ b[k] = <<>> /\ b[k + 1] = lv[k] \o lv[k + 1]
      /\ \A i \in Level \ {k, k + 1} : b[i] = lv[i]
  BY <1>1
<1> HIDE DEF b
<1>3. Range(b[k]) = {} /\ Range(b[k + 1]) = Range(lv[k]) \cup Range(lv[k + 1])
  <2>1. Range(b[k]) = {}
    BY <1>2 DEF Range
  <2>2. Range(b[k + 1]) = Range(lv[k]) \cup Range(lv[k + 1])
    BY <1>1, <1>2, RangeConcat
  <2>3. QED BY <2>1, <2>2
<1>4. IsInjective(b[k + 1])
  <2>1. IsInjective(lv[k]) /\ IsInjective(lv[k + 1])
    BY <1>1 DEF Distinct
  <2>2. ASSUME NEW x \in Range(lv[k]) PROVE x \notin Range(lv[k + 1])
    <3>1. x \in Nat
      BY <1>1, RangeNat
    <3>2. \A y \in Range(lv[k + 1]) : y < x
      BY <1>1 DEF Aged
    <3>3. QED BY <3>1, <3>2
  <2>3. QED BY <1>1, <1>2, <2>1, <2>2, InjectiveConcat
<1>5. Distinct(b)
  <2>1. IsInjective(b[k])
    BY <1>2 DEF IsInjective
  <2>2. QED BY <1>2, <1>4, <2>1 DEF Distinct
<1>6. ASSUME NEW i \in Level, NEW j \in Level, i < j,
             NEW x \in Range(b[i]), NEW y \in Range(b[j])
      PROVE  y < x
  <2>1. i # k /\ j # k
    BY <1>3, <1>6
  <2>2. CASE i = k + 1
    <3>1. /\ j \in Level \ {k, k + 1} /\ y \in Range(lv[j])
          /\ k < j /\ k + 1 < j
      BY <1>1, <1>2, <1>6, <2>1, <2>2 DEF Level
    <3>2. x \in Range(lv[k]) \/ x \in Range(lv[k + 1])
      BY <1>3, <2>2
    <3>3. QED BY <1>1, <3>1, <3>2 DEF Aged
  <2>3. CASE j = k + 1
    <3>1. /\ i \in Level \ {k, k + 1} /\ x \in Range(lv[i])
          /\ i < k /\ i < k + 1
      BY <1>1, <1>2, <1>6, <2>1, <2>3 DEF Level
    <3>2. y \in Range(lv[k]) \/ y \in Range(lv[k + 1])
      BY <1>3, <2>3
    <3>3. QED BY <1>1, <3>1, <3>2 DEF Aged
  <2>4. CASE i # k + 1 /\ j # k + 1
    <3>1. x \in Range(lv[i]) /\ y \in Range(lv[j])
      BY <1>2, <2>1, <2>4
    <3>2. QED BY <1>6, <3>1 DEF Aged
  <2>5. QED BY <2>2, <2>3, <2>4
<1>7. Aged(b)
  BY <1>6 DEF Aged
<1>8. QED BY <1>5, <1>7 DEF Spill, b

\* mergeLevel keeps the order when it is given a memtable that is newer than
\* all that are merged.
LEMMA AgedCascade ==
  ASSUME NEW lv \in [Level -> Seq(Nat)], NEW t \in Nat,
         Aged(lv), Distinct(lv), \A u \in Merged(lv) : u < t,
         NEW out, out = Spill(Spill(Spill(Absorb(lv, t), 0), 1), 2)
  PROVE  Aged(out) /\ Distinct(out)
<1> DEFINE a == Absorb(lv, t)
           b == Spill(a, 0)
           c == Spill(b, 1)
<1>1. a \in [Level -> Seq(Nat)] /\ Aged(a) /\ Distinct(a)
  BY MergedAbsorb, AgedAbsorb
<1> HIDE DEF a
<1>2. b \in [Level -> Seq(Nat)] /\ Aged(b) /\ Distinct(b)
  BY <1>1, MergedSpill, AgedSpill
<1> HIDE DEF b
<1>3. c \in [Level -> Seq(Nat)] /\ Aged(c) /\ Distinct(c)
  BY <1>2, MergedSpill, AgedSpill
<1> HIDE DEF c
<1>4. Aged(Spill(c, 2)) /\ Distinct(Spill(c, 2))
  BY <1>3, AgedSpill
<1>5. out = Spill(c, 2)
  BY DEF a, b, c
<1>6. QED BY <1>4, <1>5

\* The four levels together hold no memtable twice.
LEMMA LevelsInjective ==
  ASSUME NEW lv \in [Level -> Seq(Nat)], Aged(lv), Distinct(lv)
  PROVE  IsInjective(lv[0] \o lv[1] \o lv[2] \o lv[3])
<1>1. \A i \in {0, 1, 2, 3} : lv[i] \in Seq(Nat) /\ IsInjective(lv[i])
  BY DEF Level, Distinct
<1>2. ASSUME NEW i \in {0, 1, 2, 3}, NEW j \in {0, 1, 2, 3}, i < j
      PROVE  Range(lv[i]) \cap Range(lv[j]) = {}
  <2>1. Range(lv[i]) \subseteq Nat
    BY <1>1, RangeNat
  <2>2. \A t \in Range(lv[i]), u \in Range(lv[j]) : u < t
    BY <1>2 DEF Aged, Level
  <2>3. QED BY <2>1, <2>2
<1> DEFINE p == lv[0] \o lv[1]
           q == p \o lv[2]
<1>3. /\ p \in Seq(Nat) /\ IsInjective(p)
      /\ Range(p) = Range(lv[0]) \cup Range(lv[1])
  BY <1>1, <1>2, InjectiveConcat, RangeConcat
<1> HIDE DEF p
<1>4. /\ q \in Seq(Nat) /\ IsInjective(q)
      /\ Range(q) = Range(p) \cup Range(lv[2])
  <2>1. Range(p) \cap Range(lv[2]) = {}
    BY <1>2, <1>3
  <2>2. QED BY <1>1, <1>3, <2>1, InjectiveConcat, RangeConcat
<1> HIDE DEF q
<1>5. IsInjective(q \o lv[3])
  <2>1. Range(q) \cap Range(lv[3]) = {}
    BY <1>2, <1>3, <1>4
  <2>2. QED BY <1>1, <1>4, <2>1, InjectiveConcat
<1>6. QED BY <1>5 DEF p, q

(***************************************************************************)
(* The hand-over between the workers, with PromptDrop.                     *)
(***************************************************************************)

Dropping == wpc \in {"pollDrop", "selectDrop"}

\* The pen, and what the flush worker has left of it, are in order of age.
\* The flush worker holds nothing between two compactions, and no drop is
\* outstanding when it is about to load the pen.
Queued ==
  /\ Increasing(pen) /\ Increasing(ftodo)
  /\ Range(ftodo) \subseteq Range(pen)
  /\ fpc \in {"select", "load", "exited"} => ftodo = <<>>
  /\ fpc = "load" => ~ Dropping
  /\ wpc = "publish" => \A t \in Range(pen) \cup Merged(levels) : t < cur - 1

\* The flush worker takes the oldest of the pen first: all it has not loaded
\* is newer, save the index that is just being dropped.
OldestFirst ==
  /\ Dropping => \A u \in Range(ftodo) : wdone < u
  /\ \A u \in Range(ftodo), t \in Range(pen) \ Range(ftodo) :
       u < t \/ (Dropping /\ t = wdone)

\* An index both pending and merged is being handed over or dropped.
Shared ==
  \A t \in Range(pen) \cap Merged(levels) :
    \/ Dropping /\ t = wdone
    \/ fpc = "handoff" /\ t = Head(ftodo)

\* What is pending and not merged is newer than what is merged.
PendingNewer ==
  \A t \in Range(pen) \ Merged(levels), u \in Merged(levels) : u < t

InOrder ==
  Queued /\ OldestFirst /\ Shared /\ PendingNewer
         /\ Aged(levels) /\ Distinct(levels)

\* Steps that move neither worker's part of the hand-over.
LEMMA OrderFrame ==
  ASSUME InOrder, UNCHANGED <<pen, levels, wdone, ftodo, fpc>>,
         cur' = cur,
         wpc' = wpc \/ (wpc' # "publish" /\ ~ Dropping /\ ~ Dropping')
  PROVE  InOrder'
<1>1. Dropping' = Dropping
  BY DEF Dropping
<1>2. Queued' /\ OldestFirst' /\ Shared'
  BY <1>1 DEF InOrder, Queued, OldestFirst, Shared
<1>3. PendingNewer' /\ Aged(levels)' /\ Distinct(levels)'
  BY DEF InOrder, PendingNewer, Aged, Distinct
<1>4. QED BY <1>2, <1>3 DEF InOrder

\* A rotation: every index is of an older memtable than the one just sealed.
LEMMA OrderAccept ==
  ASSUME IInv, InOrder, NEW r \in Request, Accept(r) PROVE InOrder'
<1>1. /\ UNCHANGED <<pen, levels, wdone, ftodo, fpc>> /\ wpc = "select"
      /\ wpc' \in {"publish", "put"}
  BY DEF Accept, fvars
<1>2. TypeOK /\ cur \in Nat
  BY LenProperties DEF IInv, TypeOK, cur
<1>3. CASE UNCHANGED tables /\ wpc' = "put"
  BY <1>1, <1>3, OrderFrame DEF Dropping, cur
<1>4. CASE tables' = Append(tables, {}) /\ wpc' = "publish"
  <2>1. cur' = cur + 1
    BY <1>2, <1>4 DEF TypeOK, cur
  <2>2. \A t \in Range(pen) \cup Merged(levels) : t < cur' - 1
    BY <1>2, <2>1 DEF IInv, Sealed
  <2>3. ~ Dropping /\ ~ Dropping'
    BY <1>1, <1>4 DEF Dropping
  <2>4. Queued' /\ OldestFirst' /\ Shared'
    BY <1>1, <2>2, <2>3 DEF InOrder, Queued, OldestFirst, Shared
  <2>5. PendingNewer' /\ Aged(levels)' /\ Distinct(levels)'
    BY <1>1 DEF InOrder, PendingNewer, Aged, Distinct
  <2>6. QED BY <2>4, <2>5 DEF InOrder
<1>5. QED BY <1>3, <1>4 DEF Accept

LEMMA OrderPublish ==
  ASSUME IInv, InOrder, Publish PROVE InOrder'
<1> DEFINE n == cur - 1
<1>1. /\ UNCHANGED <<levels, wdone, ftodo, fpc, tables>>
      /\ wpc = "publish" /\ wpc' = "notify" /\ pen' = Append(pen, n)
  BY DEF Publish, fvars
<1>2. /\ TypeOK /\ n \in Nat /\ pen \in Seq(Nat) /\ cur' = cur
      /\ \A t \in Range(pen) \cup Merged(levels) : t < n
  BY <1>1, LenProperties
  DEF IInv, TypeOK, Sealed, cur, InOrder, Queued
<1>3. ~ Dropping /\ ~ Dropping' /\ Range(ftodo) \subseteq Range(pen)
  BY <1>1 DEF Dropping, InOrder, Queued
<1>4. Range(pen') = Range(pen) \cup {n} /\ Increasing(pen')
  BY <1>1, <1>2, RangeAppend, IncreasingAppend DEF InOrder, Queued
<1> HIDE DEF n
<1>5. n \notin Merged(levels) /\ n \notin Range(pen)
  BY <1>2
<1>6. Queued'
  BY <1>1, <1>3, <1>4 DEF InOrder, Queued
<1>7. OldestFirst' /\ Shared'
  BY <1>1, <1>2, <1>3, <1>4, <1>5 DEF InOrder, OldestFirst, Shared
<1>8. PendingNewer'
  BY <1>1, <1>2, <1>4 DEF InOrder, PendingNewer
<1>9. QED BY <1>1, <1>6, <1>7, <1>8 DEF InOrder, Aged, Distinct

\* A notification may send the flush worker to the pen; nothing is dropped
\* meanwhile.
LEMMA OrderNotify ==
  ASSUME IInv, InOrder, Notify PROVE InOrder'
<1>1. /\ UNCHANGED <<pen, levels, wdone, ftodo>> /\ cur' = cur
      /\ wpc = "notify" /\ wpc' = "put"
      /\ fpc' = fpc \/ (fpc = "select" /\ fpc' = "load")
  BY DEF Notify, Received, NotReceived, cur
<1>2. ~ Dropping /\ ~ Dropping'
  BY <1>1 DEF Dropping
<1>3. Queued'
  BY <1>1, <1>2 DEF InOrder, Queued
<1>4. OldestFirst' /\ Shared'
  BY <1>1, <1>2 DEF InOrder, OldestFirst, Shared
<1>5. QED BY <1>1, <1>3, <1>4 DEF InOrder, PendingNewer, Aged, Distinct

\* The oldest index left is received: all others left are newer.
LEMMA OrderReceive ==
  ASSUME IInv, InOrder, ReceiveDone PROVE InOrder'
<1>1. /\ UNCHANGED <<pen, levels, tables>> /\ fpc = "handoff"
      /\ wpc \in {"poll", "select"} /\ wpc' \in {"pollDrop", "selectDrop"}
      /\ wdone' = Head(ftodo) /\ ftodo' = Tail(ftodo)
      /\ fpc' = IF ftodo' = <<>> THEN "select" ELSE "merge"
  BY DEF ReceiveDone
<1>2. ftodo \in Seq(Nat) /\ ftodo # <<>> /\ Increasing(ftodo)
  BY <1>1 DEF IInv, TypeOK, Handed, InOrder, Queued
<1>3. /\ Increasing(ftodo') /\ \A t \in Range(ftodo') : wdone' < t
      /\ Range(ftodo) = {wdone'} \cup Range(ftodo')
  BY <1>1, <1>2, IncreasingTail
<1>4. ~ Dropping /\ Dropping' /\ cur' = cur
  BY <1>1 DEF Dropping, cur
<1>5. Queued'
  BY <1>1, <1>3, <1>4 DEF InOrder, Queued
<1>6. OldestFirst'
  BY <1>1, <1>3, <1>4 DEF InOrder, OldestFirst
<1>7. Shared'
  BY <1>1, <1>4 DEF InOrder, Shared
<1>8. QED BY <1>1, <1>5, <1>6, <1>7 DEF InOrder, PendingNewer, Aged, Distinct

\* The received index leaves the pen for good.
LEMMA OrderDrop ==
  ASSUME IInv, InOrder, DropPending PROVE InOrder'
<1>1. /\ UNCHANGED <<tables, levels, ftodo, fpc>> /\ Dropping
      /\ wpc' \in {"select", "poll"} /\ pen' = RemoveFirst(pen, wdone)
  BY DEF DropPending, Dropped, Dropping, fvars
<1>2. pen \in Seq(Nat) /\ Increasing(pen) /\ ~ Dropping' /\ cur' = cur
  BY <1>1 DEF IInv, TypeOK, InOrder, Queued, Dropping, cur
<1>3. /\ Increasing(pen') /\ wdone \notin Range(pen')
      /\ Range(pen') \subseteq Range(pen)
      /\ Range(pen) \subseteq Range(pen') \cup {wdone}
  BY <1>1, <1>2, RangeRemoveFirst, IncreasingRemove
<1>4. wdone \in Nat /\ \A u \in Range(ftodo) : u # wdone
  <2>1. \A u \in Range(ftodo) : u \in Nat /\ wdone < u
    BY <1>1, RangeNat DEF IInv, TypeOK, InOrder, OldestFirst
  <2>2. QED BY <2>1 DEF IInv, TypeOK
<1>5. Queued'
  BY <1>1, <1>2, <1>3, <1>4 DEF InOrder, Queued
<1>6. OldestFirst'
  BY <1>1, <1>2, <1>3 DEF InOrder, OldestFirst
<1>7. Shared'
  BY <1>1, <1>2, <1>3 DEF InOrder, Shared
<1>8. PendingNewer'
  BY <1>1, <1>3 DEF InOrder, PendingNewer
<1>9. QED BY <1>1, <1>5, <1>6, <1>7, <1>8 DEF InOrder, Aged, Distinct

\* Loading the pen while a drop is outstanding would merge its index twice.
LEMMA OrderLoad ==
  ASSUME PromptDrop, IInv, InOrder, Timer \/ Compact PROVE InOrder'
<1>1. /\ UNCHANGED <<tables, pen, levels, wpc, wdone>> /\ ftodo' = pen
      /\ fpc \in {"select", "load"}
      /\ fpc' = IF pen = <<>> THEN "select" ELSE "merge"
  BY DEF Timer, Compact, LoadPending, wvars
<1>2. ~ Dropping /\ ~ Dropping' /\ cur' = cur
  BY <1>1 DEF Timer, Compact, Dropping, InOrder, Queued, cur
<1>3. Queued'
  BY <1>1, <1>2 DEF InOrder, Queued
<1>4. OldestFirst' /\ Shared'
  BY <1>1, <1>2 DEF InOrder, OldestFirst, Shared
<1>5. QED BY <1>1, <1>3, <1>4 DEF InOrder, PendingNewer, Aged, Distinct

LEMMA OrderFlushExit ==
  ASSUME InOrder, FlushExit PROVE InOrder'
<1>1. /\ UNCHANGED <<tables, pen, levels, wpc, wdone, ftodo>>
      /\ fpc = "select" /\ fpc' = "exited"
  BY DEF FlushExit, wvars
<1>2. Queued' /\ OldestFirst' /\ Shared'
  BY <1>1 DEF InOrder, Queued, OldestFirst, Shared, Dropping, cur
<1>3. QED BY <1>1, <1>2 DEF InOrder, PendingNewer, Aged, Distinct

\* The index that is merged is the oldest one not merged.
LEMMA OrderMerge ==
  ASSUME IInv, InOrder, MergeLevel PROVE InOrder'
<1> DEFINE h == Head(ftodo)
<1>1. /\ UNCHANGED <<tables, pen, wpc, wdone, ftodo>>
      /\ fpc = "merge" /\ fpc' = "handoff"
      /\ levels' = Spill(Spill(Spill(Absorb(levels, h), 0), 1), 2)
      /\ levels \in [Level -> Seq(Nat)]
      /\ ftodo \in Seq(Nat) /\ ftodo # <<>> /\ pen \in Seq(Nat)
  BY DEF IInv, TypeOK, Handed, MergeLevel, wvars
<1>2. /\ h \in Nat /\ h \in Range(ftodo) /\ h \in Range(pen)
      /\ \A u \in Range(ftodo) : u = h \/ h < u
  BY <1>1, RangeTail, IncreasingTail, HeadTailProperties DEF InOrder, Queued
<1>3. Merged(levels') = Merged(levels) \cup {h}
  BY <1>1, <1>2, MergedCascade
<1> HIDE DEF h
<1>4. Dropping => wdone \in Nat /\ wdone < h /\ wdone \in Merged(levels)
  BY <1>2 DEF IInv, TypeOK, Handed, Dropping, InOrder, OldestFirst
<1>5. h \notin Merged(levels)
  BY <1>1, <1>2, <1>4 DEF InOrder, Shared
<1>6. \A u \in Merged(levels) : u < h
  BY <1>2, <1>5 DEF InOrder, PendingNewer
<1>7. Aged(levels') /\ Distinct(levels')
  BY <1>1, <1>2, <1>6, AgedCascade DEF InOrder
<1>8. Dropping' = Dropping /\ cur' = cur
  BY <1>1 DEF Dropping, cur
<1>9. Queued'
  BY <1>1, <1>2, <1>3, <1>8 DEF InOrder, Queued
<1>10. OldestFirst'
  BY <1>1, <1>8 DEF InOrder, OldestFirst
<1>11. Shared'
  BY <1>1, <1>3, <1>8 DEF InOrder, Shared, h
<1>12. PendingNewer'
  <2>1. ASSUME NEW t \in Range(pen) \ Merged(levels), t # h PROVE h < t
    BY <1>2, <1>4, <2>1 DEF InOrder, OldestFirst
  <2>2. QED BY <1>1, <1>3, <2>1 DEF InOrder, PendingNewer
<1>13. QED BY <1>7, <1>9, <1>10, <1>11, <1>12 DEF InOrder, Aged, Distinct

LEMMA OrderStart ==
  ASSUME NEW p, p = <<>>, NEW lv, lv = [i \in Level |-> <<>>]
  PROVE  /\ Range(p) = {} /\ Increasing(p) /\ Merged(lv) = {}
         /\ Aged(lv) /\ Distinct(lv)
<1>1. Range(p) = {} /\ Increasing(p) /\ IsInjective(p)
  BY DEF Range, Increasing, IsInjective
<1>2. \A i \in Level : lv[i] = p
  OBVIOUS
<1>3. Merged(lv) = {}
  BY <1>1, <1>2 DEF Merged
<1>4. Aged(lv) /\ Distinct(lv)
  BY <1>1, <1>2 DEF Aged, Distinct
<1>5. QED BY <1>1, <1>3, <1>4

LEMMA OrderInit == Init => InOrder
<1>1. SUFFICES ASSUME Init PROVE InOrder
  OBVIOUS
<1>2. /\ pen = <<>> /\ ftodo = <<>> /\ levels = [i \in Level |-> <<>>]
      /\ wpc = "poll" /\ fpc = "select"
  BY <1>1 DEF Init
<1>3. /\ Range(pen) = {} /\ Range(ftodo) = {} /\ Merged(levels) = {}
      /\ Increasing(pen) /\ Increasing(ftodo)
      /\ Aged(levels) /\ Distinct(levels)
  BY <1>2, OrderStart
<1>4. Queued /\ OldestFirst /\ Shared /\ PendingNewer
  BY <1>2, <1>3 DEF Queued, OldestFirst, Shared, PendingNewer, Dropping
<1>5. QED BY <1>3, <1>4 DEF InOrder

LEMMA OrderCrash ==
  ASSUME Crash PROVE InOrder'
<1>1. /\ pen' = <<>> /\ ftodo' = <<>> /\ levels' = [i \in Level |-> <<>>]
      /\ wpc' = "poll" /\ fpc' = "select"
  BY DEF Crash
<1>2. /\ Range(pen') = {} /\ Range(ftodo') = {} /\ Merged(levels') = {}
      /\ Increasing(pen') /\ Increasing(ftodo')
      /\ Aged(levels') /\ Distinct(levels')
  BY <1>1, OrderStart
<1>3. Queued' /\ OldestFirst' /\ Shared' /\ PendingNewer'
  BY <1>1, <1>2 DEF Queued, OldestFirst, Shared, PendingNewer, Dropping
<1>4. QED BY <1>2, <1>3 DEF InOrder, Aged, Distinct

LEMMA OrderStep ==
  ASSUME PromptDrop, IInv, InOrder, [Next]_vars PROVE InOrder'
<1>1. CASE Client \/ Stop \/ ListEvents \/ UNCHANGED vars
  <2>1. UNCHANGED <<tables, pen, levels, wdone, ftodo, fpc, wpc>>
    BY <1>1 DEF Client, Send, Cancel, Again, Stop, ListEvents, LoadCur,
                LoadPen, LoadLevels, Return, vars, wvars, fvars
  <2>2. QED BY <2>1, OrderFrame DEF cur
<1>2. CASE WriteWorker
  <2>1. CASE PollDefault \/ WriterExit \/ Respond
    <3>1. UNCHANGED <<tables, pen, levels, wdone, ftodo, fpc>>
      BY <2>1 DEF PollDefault, WriterExit, Respond, fvars
    <3>2. wpc' # "publish" /\ ~ Dropping /\ ~ Dropping'
      BY <2>1 DEF PollDefault, WriterExit, ExitPoints, Respond, Dropping
    <3>3. QED BY <3>1, <3>2, OrderFrame DEF cur
  <2>2. CASE PutItem
    <3>1. UNCHANGED <<pen, levels, wdone, ftodo, fpc, wpc>>
      BY <2>2 DEF PutItem, fvars
    <3>2. cur' = cur
      BY <2>2, LenProperties DEF PutItem, IInv, TypeOK, cur
    <3>3. QED BY <3>1, <3>2, OrderFrame
  <2>3. CASE \E r \in Request : Accept(r)
    BY <2>3, OrderAccept
  <2>4. CASE Publish \/ Crash \/ Notify
    BY <2>4, OrderPublish, OrderCrash, OrderNotify
  <2>5. CASE ReceiveDone \/ DropPending
    BY <2>5, OrderReceive, OrderDrop
  <2>6. QED BY <1>2, <2>1, <2>2, <2>3, <2>4, <2>5 DEF WriteWorker
<1>3. CASE FlushWorker
  BY <1>3, OrderLoad, OrderFlushExit, OrderMerge DEF FlushWorker
<1>4. QED BY <1>1, <1>2, <1>3 DEF Next

LEMMA OrderInvariant ==
  ASSUME PromptDrop PROVE Spec => [](IInv /\ InOrder)
<1>1. Init => IInv /\ InOrder
  BY InitInv, OrderInit
<1>2. IInv /\ InOrder /\ [Next]_vars => (IInv /\ InOrder)'
  BY StepInv, OrderStep
<1>3. QED BY <1>1, <1>2, PTL DEF Spec

\* A deeper level holds older memtables, and what is pending and not merged
\* is newer than every level, if a drop takes less than the flush timer
\* (storage.go:173-205 against 262-276).
THEOREM LevelsKeepAge ==
  ASSUME PromptDrop PROVE Spec => []LevelsAgeOrdered
<1>1. InOrder => LevelsAgeOrdered
  BY DEF InOrder, Aged, PendingNewer, LevelsAgeOrdered
<1>2. QED BY <1>1, OrderInvariant, PTL

\* No memtable is merged twice, if a drop takes less than the flush timer
\* (storage.go:124-139 against 262-276).
THEOREM MergesHappenOnce ==
  ASSUME PromptDrop PROVE Spec => []MergedOnce
<1>1. ASSUME IInv, InOrder PROVE MergedOnce
  <2>1. IsInjective(levels[0] \o levels[1] \o levels[2] \o levels[3])
    BY <1>1, LevelsInjective DEF IInv, TypeOK, InOrder
  <2>2. Range(pen) \cap Merged(levels) \subseteq
          {wdone} \cup (IF fpc = "handoff" THEN {Head(ftodo)} ELSE {})
    BY <1>1 DEF InOrder, Shared
  <2>3. QED BY <2>1, <2>2 DEF MergedOnce
<1>2. QED BY <1>1, OrderInvariant, PTL
=============================================================================
