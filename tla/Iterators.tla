------------------------------- MODULE Iterators -------------------------------
(***************************************************************************)
(* How ListEvents walks its snapshot: a MemTableIterator over the current  *)
(* memtable, an IndexIterator over each index and a MergeIterator over all *)
(* of them, while the write worker goes on putting items into the memtable *)
(* (iterator_memtable.go, iterator_index.go, iterator_merge.go).  Seek,    *)
(* which only tests call, is left out.                                     *)
(*                                                                         *)
(* A key stands for one version of an event.  Indexes start as those built *)
(* by fromMemTable, front to back as the memtable.                         *)
(***************************************************************************)
EXTENDS Integers, Sequences, FiniteSets, SequencesExt

CONSTANTS
  Key,        \* event keys: records with start, id and ts
  Tombstone,  \* those of deleted versions, which no index holds
  Filters,    \* each filter has the keys that match it in a memtable, and
              \* the rows of an index that query selects: those that also
              \* overlap the time range of the call
  ReadTs,     \* the timestamp of the ListEvents call
  Indexes,    \* the number of indexes
  None        \* nil

Index == 1 .. Indexes
Source == 0 .. Indexes  \* NewMergeIterator: the memtable comes first

\* A key is what the order looks at: start time, id and timestamp.
ASSUME IteratorAssumption ==
  /\ Key \subseteq [start : Int, id : Int, ts : Int] /\ IsFiniteSet(Key)
  /\ Tombstone \subseteq Key /\ Filters \subseteq [match : SUBSET Key, posting : SUBSET Key]
  /\ ReadTs \in Int /\ Indexes \in Nat /\ None \notin Key

VARIABLES
  mt,        \* the keys of the memtable
  coming,    \* keys of batches accepted but not yet put
  late,      \* keys put since the iteration began
  keys,      \* keys[i]: the key list of index i
  filter,    \* the filter of the call
  mit,       \* MemTableIterator: cur, next, end
  iit,       \* IndexIterators: row, nextIdx (0 for none), end
  pc,        \* MergeIterator: "init", "next" or "end"
  emitted    \* the keys it has returned

vars == <<mt, coming, late, keys, filter, mit, iit, pc, emitted>>

\* The order of the skip list, newest start time first, newest version first.
Before(k, l) ==
  \/ k.start > l.start
  \/ k.start = l.start /\ k.id > l.id
  \/ k.start = l.start /\ k.id = l.id /\ k.ts > l.ts

SameEvent(k, l) == k.start = l.start /\ k.id = l.id

\* The key list that fromMemTable makes of the keys of a memtable: in their
\* order, each as far from the front as there are keys before it.
KeyList(S) ==
  [n \in 1 .. Cardinality(S) |->
     CHOOSE k \in S : Cardinality({l \in S : Before(l, k)}) = n - 1]

\* The first key of S, None if there is none.
First(S) ==
  IF S = {} THEN None ELSE CHOOSE k \in S : \A l \in S \ {k} : Before(k, l)
-----------------------------------------------------------------------------
(* MemTableIterator.                                                       *)

Succ(k) == First({l \in mt : Before(k, l)})

\* The element before k in the memtable is a version of k's id that the call
\* may read: k is skipped.  Mutant: also if the call may not read it.
ShadowedByAny(k) ==
  \E l \in mt : l.id = k.id /\ Before(l, k) /\ Succ(l) = k
Shadowed(k) ==
  \E l \in mt : l.id = k.id /\ l.ts <= ReadTs /\ Before(l, k) /\ Succ(l) = k

\* The loop stops at the element of key k, or runs off the list.
Found(k) ==
  [cur |-> k, next |-> IF k = None THEN None ELSE Succ(k), end |-> k = None]

MemNext ==
  LET from == IF mit.cur = None /\ mit.next = None THEN First(mt) ELSE mit.next
      hit == First({k \in mt \cap filter.match :
                      /\ from # None /\ (k = from \/ Before(from, k))
                      /\ k.ts <= ReadTs /\ ~Shadowed(k)})
  IN IF mit.end THEN mit
     ELSE IF from = None THEN [mit EXCEPT !.end = TRUE]
     ELSE Found(hit)
-----------------------------------------------------------------------------
(* IndexIterator.                                                          *)

\* advance: the next row after r of the posting list that the call may read
\* and that is no version of the id emitted last.  Mutant: the id emitted
\* last is not remembered.
AdvanceForgetting(i, r) ==
  LET rows == {q \in DOMAIN keys[i] :
                 q > r /\ keys[i][q] \in filter.posting /\ keys[i][q].ts <= ReadTs}
  IN IF rows = {} THEN 0 ELSE Min(rows)
Advance(i, r) ==
  LET rows == {q \in DOMAIN keys[i] :
                 /\ q > r /\ keys[i][q] \in filter.posting /\ keys[i][q].ts <= ReadTs
                 /\ r > 0 => keys[i][q].id # keys[i][r].id}
  IN IF rows = {} THEN 0 ELSE Min(rows)

NewIndexIterator(i) == [row |-> 0, nextIdx |-> Advance(i, 0), end |-> FALSE]

IndexNext(i) ==
  IF iit[i].end \/ iit[i].nextIdx = 0 THEN [iit[i] EXCEPT !.end = TRUE]
  ELSE [row |-> iit[i].nextIdx, nextIdx |-> Advance(i, iit[i].nextIdx),
        end |-> FALSE]
-----------------------------------------------------------------------------
(* MergeIterator.                                                          *)

Valid(s) == IF s = 0 THEN ~mit.end ELSE ~iit[s].end
Value(s) == IF s = 0 THEN mit.cur ELSE keys[s][iit[s].row]

\* The source that minIndex names once the loop has seen those of S: the
\* first key in order, the newest of its versions, the earliest source.
\* Mutant: timestamps are not compared.
MinIndexByEvent(S) ==
  CHOOSE s \in S : \A u \in S \ {s} :
    \/ Before(Value(s), Value(u)) /\ ~SameEvent(Value(s), Value(u))
    \/ SameEvent(Value(s), Value(u)) /\ s < u
MinIndex(S) ==
  CHOOSE s \in S : \A u \in S \ {s} :
    \/ Before(Value(s), Value(u))
    \/ ~Before(Value(u), Value(s)) /\ s < u

\* The loop advances a source that ties with the sources before it and is
\* not newer.  An earlier one that a newer source displaces is not advanced.
Passed(s) ==
  LET prior == {u \in Source : u < s /\ Valid(u)}
  IN /\ Valid(s) /\ prior # {}
     /\ LET best == Value(MinIndex(prior))
        IN SameEvent(Value(s), best) /\ Value(s).ts <= best.ts

Step(S) ==
  /\ mit' = IF 0 \in S THEN MemNext ELSE mit
  /\ iit' = [i \in Index |-> IF i \in S THEN IndexNext(i) ELSE iit[i]]
-----------------------------------------------------------------------------
\* What a snapshot can look like: the source of every key, if any.  No index
\* holds a tombstone.
Absent == -1
Coming == -2
Snapshots ==
  {f \in [Key -> Source \cup {Absent, Coming}] :
     \A k \in Tombstone : f[k] \notin Index}

Init ==
  \E f \in Snapshots :
    /\ mt = {k \in Key : f[k] = 0}
    /\ coming = {k \in Key : f[k] = Coming}
    /\ keys = [i \in Index |-> KeyList({k \in Key : f[k] = i})]
    /\ late = {} /\ filter \in Filters
    /\ mit = [cur |-> None, next |-> None, end |-> FALSE]
    /\ iit = [i \in Index |-> NewIndexIterator(i)]
    /\ pc = "init" /\ emitted = <<>>

\* The write worker puts an item; its timestamp may be older than ReadTs.
PutItem ==
  /\ pc = "next"
  /\ \E k \in coming :
       mt' = mt \cup {k} /\ late' = late \cup {k} /\ coming' = coming \ {k}
  /\ UNCHANGED <<keys, filter, mit, iit, pc, emitted>>

\* The first Next: all sources are advanced once.
Start ==
  /\ pc = "init" /\ pc' = "next"
  /\ Step(Source)
  /\ UNCHANGED <<mt, coming, late, keys, filter, emitted>>

\* Next returns true.
Emit ==
  /\ pc = "next"
  /\ LET valid == {s \in Source : Valid(s)}
     IN /\ valid # {}
        /\ emitted' = Append(emitted, Value(MinIndex(valid)))
        /\ Step({MinIndex(valid)} \cup {s \in Source : Passed(s)})
  /\ UNCHANGED <<mt, coming, late, keys, filter, pc>>

\* Next returns false.
End ==
  /\ pc = "next" /\ \A s \in Source : ~Valid(s)
  /\ pc' = "end"
  /\ UNCHANGED <<mt, coming, late, keys, filter, mit, iit, emitted>>

Next == PutItem \/ Start \/ Emit \/ End

Spec == Init /\ [][Next]_vars
-----------------------------------------------------------------------------
Stored == mt \cup UNION {Range(keys[i]) : i \in Index}

\* The versions that the call may read, put before or while it runs.
Readable == {k \in Stored : k.ts <= ReadTs}

\* The versions that the filter lets through at the place where they are.
Selected == (mt \cap filter.match) \cup (filter.posting \ mt)

\* An event with a single start time in all it has stored.
Unmoved(k) == \A l \in Stored : l.id = k.id => l.start = k.start

\* Every index has its keys in the order of the memtable it was built from;
\* merged ones do not (index.go:268-275).
Sorted ==
  \A i \in Index : \A q \in 1 .. Len(keys[i]) - 1 : Before(keys[i][q], keys[i][q + 1])

\* Of sorted sources the keys come in strictly descending order: no version is returned twice,
\* and the first version returned of an event is its newest one, whichever
\* of the sources hold the others (iterator_merge.go:35-65).
EmittedDescend ==
  Sorted => \A n \in 1 .. Len(emitted) - 1 : Before(emitted[n], emitted[n + 1])

\* A sorted source gives one version of an event: what is returned twice is held by
\* two sources (iterator_memtable.go:55, iterator_index.go:95).
Holders(k) ==
  {s \in Source : IF s = 0 THEN k \in mt ELSE k \in Range(keys[s])}
OnePerSource ==
  Sorted =>
    \A n, m \in DOMAIN emitted :
      n # m /\ SameEvent(emitted[n], emitted[m])
        => Holders(emitted[n]) \cap Holders(emitted[m]) = {}

\* Of sorted sources, the newest readable version of every unmoved event is returned if the
\* filter selects it where it is and it was stored when the iteration began;
\* only a newer one put meanwhile, at a timestamp not above ReadTs, can hide
\* it (iterator_memtable.go:55).
NewestEmitted ==
  (pc = "end" /\ Sorted) =>
    \A k \in (Readable \cap Selected) \ late :
      (Unmoved(k) /\ ~\E l \in Readable : l.id = k.id /\ l.ts > k.ts)
        => k \in Range(emitted)

\* What TestIteratorMerge asks (iterator_merge_test.go:85-87): of an event
\* with versions in two sources only the newest is returned.
EventsOnce ==
  \A n, m \in DOMAIN emitted : n # m => ~SameEvent(emitted[n], emitted[m])
=============================================================================
