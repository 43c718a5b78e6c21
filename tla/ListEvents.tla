------------------------------ MODULE ListEvents ------------------------------
(***************************************************************************)
(* ListEvents (storage.go): the page that a call makes of what its         *)
(* iterators return.  The iterators choose keys from memory; the events    *)
(* of the answer are the rows that the events table has at the timestamp   *)
(* of the call, where a committed version may be that memory does not hold *)
(* yet, or never will: a hand-off was cancelled, or the process restarted. *)
(* Iterators has the steps of the iteration and the puts of the write      *)
(* worker; a filter stands for the filter and the time range of the call.  *)
(***************************************************************************)
EXTENDS Iterators

CONSTANTS
  Unit,      \* a microsecond, in the fractions of start times
  Sizes,     \* page sizes that callers ask for
  MaxSize    \* the greatest int32

ASSUME ListAssumption ==
  /\ Unit \in Nat \ {0} /\ MaxSize \in Nat
  /\ Sizes \subseteq -MaxSize - 1 .. MaxSize
  /\ None \notin [start : Int, id : Int]

VARIABLES
  history,  \* the committed versions
  size,     \* page_size
  at,       \* where the call is
  page,     \* keys
  token,    \* next_page_token, None if it is empty
  events    \* the events of the answer, each by its version

listVars == <<history, size, at, page, token, events>>
allVars == <<vars, listVars>>
-----------------------------------------------------------------------------
(* The events table, which keeps its old versions.                         *)

Row(k) == [start |-> k.start - (k.start % Unit), id |-> k.id]

\* The version in row r at timestamp t.  An update that deletes and inserts
\* the same row inserts last.
RowAt(r, t) ==
  LET past == {k \in history : Row(k) = r /\ k.ts <= t}
      last == {k \in past \ Tombstone : \A l \in past : l.ts <= k.ts}
  IN IF last = {} THEN None ELSE CHOOSE k \in last : TRUE

CurrentAt(t) == {RowAt(Row(k), t) : k \in history} \ {None}

\* A history that the calls of EventService can leave: a version at another
\* start time replaces the row of the one before, and only a row that is
\* there is deleted.
Possible(h) ==
  /\ \A k \in h \ Tombstone, l \in h \ Tombstone :
       (k.id = l.id /\ Row(k) # Row(l) /\ k.ts <= l.ts) =>
         \E d \in h \cap Tombstone : Row(d) = Row(k) /\ k.ts < d.ts /\ d.ts <= l.ts
  /\ \A d \in h \cap Tombstone :
       \E k \in h \ Tombstone : Row(k) = Row(d) /\ k.ts < d.ts

\* A version at another start time and the tombstone of the old row reach
\* memory in one batch; a tombstone never leaves the memtable.
Together(h) ==
  \A d \in h \cap Tombstone, k \in h \ Tombstone :
    (d.id = k.id /\ d.ts = k.ts) =>
      /\ d \in mt <=> k \in mt
      /\ d \in coming <=> k \in coming
      /\ \A i \in Index : k \notin Range(keys[i])
-----------------------------------------------------------------------------
\* int(in.GetPageSize() + 1): the sum is an int32.
PageSize == IF size = MaxSize THEN -MaxSize - 1 ELSE size + 1

ListInit ==
  /\ Init
  /\ history \in {h \in SUBSET Key : Stored \cup coming \subseteq h /\ Possible(h)}
  /\ Together(history)
  /\ size \in Sizes
  /\ at = "begin" /\ page = <<>> /\ token = None /\ events = <<>>

\* The key list that mergeTwoIndices makes of a and b: earliest start first,
\* although each has the latest first; of equal keys, a's.
Merged(a, b) ==
  LET Rest[p \in (1 .. Len(a) + 1) \X (1 .. Len(b) + 1)] ==
        LET i == p[1]
            j == p[2]
        IN IF i > Len(a) THEN SubSeq(b, j, Len(b))
           ELSE IF j > Len(b) THEN SubSeq(a, i, Len(a))
           ELSE IF a[i].start < b[j].start \/ (a[i].start = b[j].start /\ a[i].id >= b[j].id)
                THEN <<a[i]>> \o Rest[<<i + 1, j>>]
                ELSE <<b[j]>> \o Rest[<<i, j + 1>>]
  IN Rest[<<1, 1>>]

\* The flush worker may have replaced two indexes by one before the pointers
\* are loaded.
MergeFirst ==
  /\ at = "begin" /\ Indexes > 1 /\ <<>> \notin {keys[1], keys[2]}
  /\ keys' = [keys EXCEPT ![1] = Merged(keys[1], keys[2]), ![2] = <<>>]
  /\ UNCHANGED <<mt, coming, late, filter, mit, pc, emitted, listVars>>
  /\ iit' = [i \in Index |-> NewIndexIterator(i)']

\* make([]EventKey, 0, pageSize) panics on a negative capacity.
Begin ==
  /\ at = "begin"
  /\ at' = IF PageSize < 0 THEN "panic" ELSE "loop"
  /\ UNCHANGED <<vars, history, size, page, token, events>>

\* The filter is wrong for an index, or a request to the store fails.
Fail ==
  /\ at \in {"begin", "lookup"} /\ at' = "failed"
  /\ UNCHANGED <<vars, history, size, page, token, events>>

\* The condition of the loop holds and Next is called.
Advancing == at = "loop" /\ Len(page) < PageSize

\* What becomes of a key returned by Next.
Collected(k) == IF k \in Tombstone THEN page ELSE Append(page, k)

Initialise ==
  Advancing /\ Start /\ UNCHANGED listVars

Collect ==
  /\ Advancing /\ Emit /\ page' = Collected(Last(emitted'))
  /\ UNCHANGED <<history, size, at, token, events>>

\* Next returns false: everything is in the page.
Exhaust ==
  /\ Advancing /\ End /\ at' = IF page = <<>> THEN "done" ELSE "lookup"
  /\ UNCHANGED <<history, size, page, token, events>>

\* EncodePageToken: a token tells the versions of an event apart no more.
Token(k) == [start |-> k.start, id |-> k.id]

\* The page has a key more than was asked for, which makes the token.
\* Mutant: the token is the last key that stays.
CutToKept ==
  /\ at = "loop" /\ Len(page) = PageSize
  /\ IF page = <<>> THEN at' = "done" /\ UNCHANGED <<page, token>>
     ELSE at' = "lookup" /\ page' = Front(page)
          /\ token' = IF Len(page) = 1 THEN None ELSE Token(Last(Front(page)))
  /\ UNCHANGED <<vars, history, size, events>>
Cut ==
  /\ at = "loop" /\ Len(page) = PageSize
  /\ IF page = <<>> THEN at' = "done" /\ UNCHANGED <<page, token>>
     ELSE at' = "lookup" /\ token' = Token(Last(page)) /\ page' = Front(page)
  /\ UNCHANGED <<vars, history, size, events>>

\* eventsMap: of the rows found, the last one of each id; and the loop that
\* makes the answer, an event for each key whose id is in the map.  Mutant:
\* the rows are looked up without a timestamp, which reads the latest.
AnswerFrom(t) ==
  LET row == [n \in DOMAIN page |-> RowAt(Row(page[n]), t)]
      found(n) == {m \in DOMAIN page : row[m] # None /\ page[m].id = page[n].id}
      upTo[n \in 0 .. Len(page)] ==
        IF n = 0 THEN <<>>
        ELSE IF found(n) = {} THEN upTo[n - 1]
        ELSE Append(upTo[n - 1], row[Max(found(n))])
  IN upTo[Len(page)]
AnswerLatest ==
  AnswerFrom(CHOOSE t \in {k.ts : k \in Key} : \A k \in Key : k.ts <= t)
Answer == AnswerFrom(ReadTs)

Lookup ==
  /\ at = "lookup" /\ at' = "done" /\ events' = Answer
  /\ UNCHANGED <<vars, history, size, page, token>>

Puts == PutItem /\ at = "loop" /\ UNCHANGED listVars

ListNext ==
  \/ MergeFirst \/ Begin \/ Fail \/ Initialise \/ Collect \/ Exhaust \/ Cut \/ Lookup
  \/ Puts

ListSpec == ListInit /\ [][ListNext]_allVars
-----------------------------------------------------------------------------
\* Every event of the answer is the one its row has at the timestamp of the
\* call, however old the version that memory led to: deleted events are not
\* listed, whatever memory knows of the deletion (storage.go:418-440).
ListedCurrent == Range(events) \subseteq CurrentAt(ReadTs)

\* An event that is current and that memory held when the call began, with
\* that start time only, is on the page if the filter selects it where it is
\* and its key is before that of the token; only a newer version put meanwhile
\* can hide it, or a deletion: of an event moved away and back
\* (storage.go:382-440).  Where nothing is cut off this holds of unsorted
\* indexes too: no order of versions makes the iterators pass over all of an
\* event's.
CurrentListed ==
  at = "done" =>
    \A k \in CurrentAt(ReadTs) \cap ((Stored \cap Selected) \ late) :
      /\ Unmoved(k)
      /\ ~\E l \in Readable : l.id = k.id /\ (l.ts > k.ts \/ l \in Tombstone)
      /\ IF token = None THEN PageSize > 0 ELSE Sorted /\ Before(k, Last(emitted))
      => k \in Range(events)

\* An event is on a page only if a version of it is selected that the call
\* may read, which may lead to a current one that the filter does not select
\* (index.go:65); and no more often than sources hold such versions, counted
\* apart for each start time the event has had.  An unsorted source may lead
\* to it once for every version.
ListedFromSelected ==
  \A k \in Range(events) :
    LET found == {l \in (Readable \cap Selected) \ Tombstone : l.id = k.id}
        ways == IF Sorted THEN UNION {{<<s, l.start>> : s \in Holders(l)} : l \in found}
                ELSE found
    IN /\ found # {}
       /\ Cardinality({n \in DOMAIN events : events[n] = k}) <= Cardinality(ways)

\* A page has no more events than were asked for, and comes with a token
\* exactly when the iteration went on to a key that is not on it, which is
\* the token's and comes after all of the page, if the sources are sorted
\* (storage.go:393-401).
PageAndToken ==
  at \in {"lookup", "done"} =>
    /\ Len(page) <= (IF size < 0 THEN 0 ELSE size) /\ Len(events) <= Len(page)
    /\ token # None <=> \E k \in Range(emitted) \ Tombstone : k \notin Range(page)
    /\ token # None => /\ token = Token(Last(emitted))
                       /\ Sorted => \A k \in Range(page) : Before(k, Last(emitted))
=============================================================================
