------------------------------- MODULE Storage -------------------------------
(***************************************************************************)
(* The in-memory half of the event store (storage.go): clients hand write  *)
(* batches to one write worker, which puts them into the current memtable  *)
(* and rotates it when it is full; one flush worker merges the pending     *)
(* indexes into four levels; readers of ListEvents load the three pointers *)
(* cur, pen and levels one after the other, under no common lock.          *)
(*                                                                         *)
(* A memtable is named by its number of creation and its contents are a    *)
(* set of write items <<request, position>>.  A memtable never changes     *)
(* after it is sealed, so a roaringIndex built from memtable t is t, and a *)
(* merged index is the sequence of the memtables merged into it, in the    *)
(* order in which mergeTwoIndices received them.                           *)
(***************************************************************************)
EXTENDS Integers, Sequences, FiniteSets, SequencesExt

CONSTANTS
  Request,          \* the write calls (create, update, delete) of clients
  NoRequest,        \* what the write worker holds between two requests
  BatchLen,         \* BatchLen[r]: number of write items of request r
  Tombstone,        \* the items with a nil event (delete, key change)
  Reader,           \* concurrent ListEvents calls
  MaxMemTableSize,  \* maxMemTableSize, 16384 in the code
  LevelLimit,       \* levelLimit of levels 0..2
  CompactEvery,     \* notifications per compaction, 4 in the code
  PromptDrop        \* TRUE: the write worker needs less than the 30 s of
                    \* the flush timer to drop an index it was handed

Items(r) == {r} \X (1 .. BatchLen[r])
Item == UNION {Items(r) : r \in Request}
Level == 0 .. 3

ASSUME StorageAssumption ==
  /\ NoRequest \notin Request
  /\ BatchLen \in [Request -> Nat]
  /\ Tombstone \subseteq Item
  /\ MaxMemTableSize \in Nat \ {0}
  /\ LevelLimit \in [0 .. 2 -> Nat \ {0}]
  /\ CompactEvery \in Nat \ {0}
  /\ PromptDrop \in BOOLEAN

VARIABLES
  tables,   \* contents of every memtable so far; s.cur is the last one
  pen,      \* s.pen, the sealed memtables not yet dropped, oldest first
  levels,   \* s.levels, <<>> for nil
  wpc, wreq, wnext, wdone,  \* write worker: place, request, next item to
                            \* put, index received from compactDoneCh
  fpc, ftodo, fcount,       \* flush worker: place, indexes left of the pen
                            \* it loaded, its counter c
  stopped,  \* s.stopCh is closed
  req,      \* progress of every write call
  rpc, rcur, seen,          \* readers: place, cur loaded, memtables reached
  must, window              \* history of the readers: items acknowledged
                            \* before the call, and whether pen was loaded
                            \* inside the rotation window

wvars == <<wpc, wreq, wnext, wdone>>
fvars == <<fpc, ftodo, fcount>>
rvars == <<rpc, rcur, seen, must, window>>
vars == <<tables, pen, levels, wvars, fvars, stopped, req, rvars>>

cur == Len(tables)

\* Cardinality of ri.all: mergeTwoIndices keeps every key of both operands.
Card(run) == Cardinality(UNION {{k} \X tables[run[k]] : k \in DOMAIN run})

\* The memtables merged into some level.
Merged(lv) == UNION {Range(lv[i]) : i \in Level}

\* Every item of an acknowledged request.
Acked == UNION {Items(r) : r \in {q \in Request : req[q] = "acked"}}

\* What the iterators of reader rd range over.
Visible(rd) == UNION {tables[t] : t \in seen[rd]}

TypeOK ==
  /\ tables \in Seq(SUBSET Item) /\ tables # <<>>
  /\ pen \in Seq(Nat)
  /\ levels \in [Level -> Seq(Nat)]
  /\ wpc \in {"poll", "select", "pollDrop", "selectDrop", "publish",
              "notify", "put", "exited"}
  /\ wreq \in Request \cup {NoRequest}
  /\ wnext \in Nat /\ wdone \in Nat
  /\ fpc \in {"select", "load", "merge", "handoff", "exited"}
  /\ ftodo \in Seq(Nat) /\ fcount \in 0 .. CompactEvery - 1
  /\ stopped \in BOOLEAN
  /\ req \in [Request -> {"new", "sending", "accepted", "acked",
                          "cancelled", "lost"}]
  /\ rpc \in [Reader -> {"idle", "pen", "levels", "iterate"}]
  /\ rcur \in [Reader -> Nat]
  /\ seen \in [Reader -> SUBSET Nat]
  /\ must \in [Reader -> SUBSET Item]
  /\ window \in [Reader -> BOOLEAN]

\* Open: an empty memtable, no index, both workers started.
Init ==
  /\ tables = <<{}>> /\ pen = <<>> /\ levels = [i \in Level |-> <<>>]
  /\ wpc = "poll" /\ wreq = NoRequest /\ wnext = 1 /\ wdone = 0
  /\ fpc = "select" /\ ftodo = <<>> /\ fcount = 0
  /\ stopped = FALSE
  /\ req = [r \in Request |-> "new"]
  /\ rpc = [rd \in Reader |-> "idle"]
  /\ rcur = [rd \in Reader |-> 0]
  /\ seen = [rd \in Reader |-> {}]
  /\ must = [rd \in Reader |-> {}]
  /\ window = [rd \in Reader |-> FALSE]
-----------------------------------------------------------------------------
(* Clients: the two selects that end every write call.                     *)

Send(r) ==
  /\ req[r] = "new"
  /\ req' = [req EXCEPT ![r] = "sending"]
  /\ UNCHANGED <<tables, pen, levels, wvars, fvars, stopped, rvars>>

\* ctx.Done() in either select; a batch already accepted is still applied.
Cancel(r) ==
  /\ req[r] \in {"sending", "accepted"}
  /\ req' = [req EXCEPT ![r] = "cancelled"]
  /\ UNCHANGED <<tables, pen, levels, wvars, fvars, stopped, rvars>>

\* A further call.  Bound: only calls with an empty batch come again, so
\* that writes never cease and the memtables stay finite.
Again(r) ==
  /\ BatchLen[r] = 0 /\ req[r] \in {"acked", "cancelled", "lost"}
  /\ req' = [req EXCEPT ![r] = "new"]
  /\ UNCHANGED <<tables, pen, levels, wvars, fvars, stopped, rvars>>

\* Close: close(s.stopCh).
Stop ==
  /\ ~stopped
  /\ stopped' = TRUE
  /\ UNCHANGED <<tables, pen, levels, wvars, fvars, req, rvars>>
-----------------------------------------------------------------------------
(* The write worker.                                                       *)

\* A case of the first select is ready.  Mutant: there is no first select.
NeverReady == FALSE
Ready == fpc = "handoff" \/ stopped

\* The first select takes its default only if no other case is ready.
PollDefault ==
  /\ wpc = "poll" /\ ~Ready
  /\ wpc' = "select"
  /\ UNCHANGED <<tables, pen, levels, wreq, wnext, wdone, fvars, stopped,
                 req, rvars>>

\* Both selects listen to stopCh.  Mutant: the second one does not.
ExitOnPoll == {"poll"}
ExitPoints == {"poll", "select"}

WriterExit ==
  /\ wpc \in ExitPoints /\ stopped
  /\ wpc' = "exited"
  /\ UNCHANGED <<tables, pen, levels, wreq, wnext, wdone, fvars, stopped,
                 req, rvars>>

\* Rendezvous on writeCh and the head of batchCreateEvents: a full memtable
\* is replaced by an empty one before its index is built.
Accept(r) ==
  /\ wpc = "select" /\ req[r] = "sending"
  /\ req' = [req EXCEPT ![r] = "accepted"]
  /\ wreq' = r /\ wnext' = 1
  /\ IF Cardinality(tables[cur]) >= MaxMemTableSize
       THEN wpc' = "publish" /\ tables' = Append(tables, {})
       ELSE wpc' = "put" /\ UNCHANGED tables
  /\ UNCHANGED <<pen, levels, wdone, fvars, stopped, rvars>>

\* indexEvent dereferences the event of every item of memtable t.  Mutant: it
\* accepts a nil event.
NilSafe(t) == TRUE
Indexable(t) == tables[t] \cap Tombstone = {}

\* fromMemTable succeeds and the new index is appended to the pen.
Publish ==
  /\ wpc = "publish" /\ Indexable(cur - 1)
  /\ pen' = Append(pen, cur - 1)
  /\ wpc' = "notify"
  /\ UNCHANGED <<tables, levels, wreq, wnext, wdone, fvars, stopped, req,
                 rvars>>

\* fromMemTable meets a nil event: the process dies and everything in memory
\* with it.  The next Open starts from empty.
Crash ==
  /\ wpc = "publish" /\ ~Indexable(cur - 1)
  /\ tables' = <<{}>> /\ pen' = <<>> /\ levels' = [i \in Level |-> <<>>]
  /\ wpc' = "poll" /\ wreq' = NoRequest /\ wnext' = 1 /\ wdone' = 0
  /\ fpc' = "select" /\ ftodo' = <<>> /\ fcount' = 0
  /\ stopped' = FALSE
  /\ req' = [r \in Request |->
               CASE req[r] \in {"sending", "accepted"} -> "cancelled"
                 [] req[r] = "acked" -> "lost"
                 [] OTHER -> req[r]]
  /\ rpc' = [rd \in Reader |-> "idle"]
  /\ rcur' = [rd \in Reader |-> 0]
  /\ seen' = [rd \in Reader |-> {}]
  /\ must' = [rd \in Reader |-> {}]
  /\ window' = [rd \in Reader |-> FALSE]

\* A flush worker parked in its select receives the notification: c++, and a
\* compaction every CompactEvery times.  Mutant: c > 4 instead of c >= 4.
ReceivedOffByOne ==
  /\ fpc = "select"
  /\ IF fcount + 1 > CompactEvery
       THEN fcount' = 0 /\ fpc' = "load"
       ELSE fcount' = fcount + 1 /\ UNCHANGED fpc
Received ==
  /\ fpc = "select"
  /\ IF fcount + 1 >= CompactEvery
       THEN fcount' = 0 /\ fpc' = "load"
       ELSE fcount' = fcount + 1 /\ UNCHANGED fpc

\* The select takes its default; also possible when the flush worker is only
\* about to park.  Mutant: the send has no default.
NoDefault == FALSE
NotReceived == UNCHANGED <<fpc, fcount>>

\* Non-blocking send on compactCh.
Notify ==
  /\ wpc = "notify"
  /\ wpc' = "put"
  /\ Received \/ NotReceived
  /\ UNCHANGED <<tables, pen, levels, wreq, wnext, wdone, ftodo, stopped,
                 req, rvars>>

\* Mutant: the memtable's size is checked before every item.
PutItemSplitting ==
  /\ wpc = "put" /\ wnext <= BatchLen[wreq]
  /\ IF Cardinality(tables[cur]) >= MaxMemTableSize
       THEN wpc' = "publish" /\ tables' = Append(tables, {}) /\ UNCHANGED wnext
       ELSE /\ tables' = [tables EXCEPT ![cur] = @ \cup {<<wreq, wnext>>}]
            /\ wnext' = wnext + 1 /\ UNCHANGED wpc
  /\ UNCHANGED <<pen, levels, wreq, wdone, fvars, stopped, req, rvars>>

\* Where batchCreateEvents puts: the new table after a rotation.  Mutant:
\* curTable = newTable is missing.
StaleTable == IF cur > 1 THEN cur - 1 ELSE cur
PutTable == cur

\* putItem, one item under the memtable's lock.
PutItem ==
  /\ wpc = "put" /\ wnext <= BatchLen[wreq]
  /\ tables' = [tables EXCEPT ![PutTable] = @ \cup {<<wreq, wnext>>}]
  /\ wnext' = wnext + 1
  /\ UNCHANGED <<pen, levels, wpc, wreq, wdone, fvars, stopped, req, rvars>>

\* The answer; a client that is still waiting returns with it.
Respond ==
  /\ wpc = "put" /\ wnext > BatchLen[wreq]
  /\ req' = [req EXCEPT ![wreq] = IF @ = "accepted" THEN "acked" ELSE @]
  /\ wpc' = "poll" /\ wreq' = NoRequest /\ wnext' = 1
  /\ UNCHANGED <<tables, pen, levels, wdone, fvars, stopped, rvars>>

\* Rendezvous on compactDoneCh, in either select of the write worker.
ReceiveDone ==
  /\ fpc = "handoff"
  /\ \/ wpc = "poll" /\ wpc' = "pollDrop"
     \/ wpc = "select" /\ wpc' = "selectDrop"
  /\ wdone' = Head(ftodo)
  /\ ftodo' = Tail(ftodo)
  /\ fpc' = IF Tail(ftodo) = <<>> THEN "select" ELSE "merge"
  /\ UNCHANGED <<tables, pen, levels, wreq, wnext, fcount, stopped, req,
                 rvars>>

\* pen without the received index.  Mutants: the oldest index is removed,
\* whichever was received; the shortened pen is not stored.
DroppedOldest(p, t) == IF p = <<>> THEN p ELSE Tail(p)
DroppedNone(p, t) == p
Dropped(p, t) == RemoveFirst(p, t)

\* The write worker removes the index it received from the pen, if there.
DropPending ==
  /\ wpc \in {"pollDrop", "selectDrop"}
  /\ pen' = Dropped(pen, wdone)
  /\ wpc' = IF wpc = "pollDrop" THEN "select" ELSE "poll"
  /\ wdone' = 0
  /\ UNCHANGED <<tables, levels, wreq, wnext, fvars, stopped, req, rvars>>
-----------------------------------------------------------------------------
(* The flush worker.                                                       *)

\* Mutant: the pen is merged from its newest index to its oldest.
LoadPendingReversed ==
  /\ ftodo' = Reverse(pen)
  /\ fpc' = IF pen = <<>> THEN "select" ELSE "merge"
  /\ UNCHANGED <<tables, pen, levels, wvars, fcount, stopped, req, rvars>>

LoadPending ==
  /\ ftodo' = pen
  /\ fpc' = IF pen = <<>> THEN "select" ELSE "merge"
  /\ UNCHANGED <<tables, pen, levels, wvars, fcount, stopped, req, rvars>>

\* The 30 s timer; with PromptDrop it cannot overtake the drop that follows
\* the last rendezvous.
Timer ==
  /\ fpc = "select"
  /\ PromptDrop => wpc \notin {"pollDrop", "selectDrop"}
  /\ LoadPending

\* Every CompactEvery-th notification.
Compact == fpc = "load" /\ LoadPending

FlushExit ==
  /\ fpc = "select" /\ stopped
  /\ fpc' = "exited"
  /\ UNCHANGED <<tables, pen, levels, wvars, ftodo, fcount, stopped, req,
                 rvars>>

Absorb(lv, t) == [lv EXCEPT ![0] = Append(@, t)]

\* Mutants: a level may reach its limit; a spill overwrites the level below.
SpillAboveLimit(lv, i) ==
  IF lv[i] # <<>> /\ Card(lv[i]) > LevelLimit[i]
    THEN [lv EXCEPT ![i + 1] = lv[i] \o @, ![i] = <<>>]
    ELSE lv
SpillOverwriting(lv, i) ==
  IF lv[i] # <<>> /\ Card(lv[i]) >= LevelLimit[i]
    THEN [lv EXCEPT ![i + 1] = lv[i], ![i] = <<>>]
    ELSE lv

Spill(lv, i) ==
  IF lv[i] # <<>> /\ Card(lv[i]) >= LevelLimit[i]
    THEN [lv EXCEPT ![i + 1] = lv[i] \o @, ![i] = <<>>]
    ELSE lv

\* mergeLevel up to its send: merge into level 0, cascade, publish.
MergeLevel ==
  /\ fpc = "merge"
  /\ levels' = Spill(Spill(Spill(Absorb(levels, Head(ftodo)), 0), 1), 2)
  /\ fpc' = "handoff"
  /\ UNCHANGED <<tables, pen, wvars, ftodo, fcount, stopped, req, rvars>>
-----------------------------------------------------------------------------
(* Readers: the three loads of ListEvents.                                 *)

LoadCur(rd) ==
  /\ rpc[rd] = "idle"
  /\ rpc' = [rpc EXCEPT ![rd] = "pen"]
  /\ rcur' = [rcur EXCEPT ![rd] = cur]
  /\ must' = [must EXCEPT ![rd] = Acked]
  /\ UNCHANGED <<tables, pen, levels, wvars, fvars, stopped, req, seen,
                 window>>

LoadPen(rd) ==
  /\ rpc[rd] = "pen"
  /\ rpc' = [rpc EXCEPT ![rd] = "levels"]
  /\ seen' = [seen EXCEPT ![rd] = Range(pen) \cup {rcur[rd]}]
  /\ window' = [window EXCEPT ![rd] = wpc = "publish" /\ rcur[rd] = cur]
  /\ UNCHANGED <<tables, pen, levels, wvars, fvars, stopped, req, rcur, must>>

LoadLevels(rd) ==
  /\ rpc[rd] = "levels"
  /\ rpc' = [rpc EXCEPT ![rd] = "iterate"]
  /\ seen' = [seen EXCEPT ![rd] = @ \cup Merged(levels)]
  /\ UNCHANGED <<tables, pen, levels, wvars, fvars, stopped, req, rcur, must,
                 window>>

\* The call returns.
Return(rd) ==
  /\ rpc[rd] = "iterate"
  /\ rpc' = [rpc EXCEPT ![rd] = "idle"]
  /\ rcur' = [rcur EXCEPT ![rd] = 0]
  /\ seen' = [seen EXCEPT ![rd] = {}]
  /\ must' = [must EXCEPT ![rd] = {}]
  /\ window' = [window EXCEPT ![rd] = FALSE]
  /\ UNCHANGED <<tables, pen, levels, wvars, fvars, stopped, req>>
-----------------------------------------------------------------------------
Client == \E r \in Request : Send(r) \/ Cancel(r) \/ Again(r)
WriteWorker ==
  \/ PollDefault \/ WriterExit \/ \E r \in Request : Accept(r)
  \/ Publish \/ Crash \/ Notify \/ PutItem \/ Respond
  \/ ReceiveDone \/ DropPending
FlushWorker == Timer \/ Compact \/ FlushExit \/ MergeLevel
ListEvents ==
  \E rd \in Reader : LoadCur(rd) \/ LoadPen(rd) \/ LoadLevels(rd) \/ Return(rd)

Next == Client \/ Stop \/ WriteWorker \/ FlushWorker \/ ListEvents

Spec == Init /\ [][Next]_vars

\* The Go scheduler runs both workers, and a channel serves its waiting
\* senders in FIFO order.  Nothing is assumed of the choice that a select
\* makes among its ready cases.
Fairness ==
  /\ WF_vars(WriteWorker) /\ WF_vars(FlushWorker)
  /\ \A r \in Request : SF_vars(Accept(r))

LiveSpec == Spec /\ Fairness
-----------------------------------------------------------------------------
(* What a reader gets.                                                     *)

\* The table that reader rd may miss: the one sealed just before it loaded
\* cur, if it loaded pen too before that table's index was in it.
Missable(rd) == IF window[rd] THEN {rcur[rd] - 1} ELSE {}

\* ListEvents iterates over every memtable up to the one it loaded as cur,
\* whatever rotations, merges and drops happen between its three loads
\* (storage.go:333-335); the rotation window (295-304) is the only exception.
SnapshotCoverage ==
  \A rd \in Reader : rpc[rd] = "iterate" =>
    (1 .. rcur[rd]) \ seen[rd] \subseteq Missable(rd)

\* Every write acknowledged before ListEvents loads cur is in what it
\* iterates over, except what sits in the table it may miss.
AckedVisible ==
  \A rd \in Reader : rpc[rd] = "iterate" =>
    must[rd] \subseteq
      Visible(rd) \cup UNION {tables[t] : t \in Missable(rd)}
-----------------------------------------------------------------------------
(* What the workers keep.                                                  *)

\* After a rotation nothing writes to the sealed memtable, so the index
\* built from it does not miss an item (storage.go:311, curTable = newTable).
SealedFrozen ==
  [][\A t \in 1 .. cur - 1 : cur' >= cur => tables'[t] = tables[t]]_vars

\* A batch is never split by a rotation: the size check (storage.go:291) is
\* made once per batch, so a key change and its tombstone share a memtable.
BatchUndivided ==
  \A r \in Request : \A t, u \in DOMAIN tables :
    tables[t] \cap Items(r) # {} /\ tables[u] \cap Items(r) # {} => t = u

\* No index, pending or merged, holds a tombstone: the IsDeleted keys that
\* ListEvents skips (storage.go:384) come from the current memtable only.
NoTombstoneInIndex ==
  \A t \in Range(pen) \cup Merged(levels) : tables[t] \cap Tombstone = {}

\* Every cascade leaves levels 0..2 below their limits (storage.go:187-198):
\* a spill into a level that overflows in turn is carried on at once.
LevelsUnderLimit ==
  \A i \in 0 .. 2 : levels[i] # <<>> => Card(levels[i]) < LevelLimit[i]

\* A deeper level holds older memtables only, and what is still pending and
\* not yet merged is newer than every level.
LevelsAgeOrdered ==
  /\ \A i, j \in Level : i < j =>
       \A t \in Range(levels[i]), u \in Range(levels[j]) : u < t
  /\ \A t \in Range(pen) \ Merged(levels), u \in Merged(levels) : u < t

\* No memtable is merged twice, and one that is both pending and merged is
\* in the hand-over between the two workers; with PromptDrop only.
MergedOnce ==
  /\ IsInjective(levels[0] \o levels[1] \o levels[2] \o levels[3])
  /\ Range(pen) \cap Merged(levels) \subseteq
       {wdone} \cup (IF fpc = "handoff" THEN {Head(ftodo)} ELSE {})
-----------------------------------------------------------------------------
(* Progress.                                                               *)

\* A pending index is merged and dropped, although notifications are lost
\* (storage.go:306-309) and writes may never cease; unless Close is called.
PendingDrains ==
  \A t \in 1 .. Cardinality(Item) :
    t \in Range(pen) ~> t \notin Range(pen) \/ stopped

\* The workers never block each other for good: a write that was sent is
\* answered, or its client leaves, unless Close is called.
WritesAnswered ==
  \A r \in Request :
    req[r] = "sending" ~> req[r] \in {"acked", "cancelled", "lost"} \/ stopped

\* Close (storage.go:93-97) waits for both workers.  They both end, or the
\* write worker has left while the flush worker is parked on compactDoneCh
\* (202): the one way in which Close hangs.
CloseSettles ==
  stopped ~> \/ ~stopped
             \/ wpc = "exited" /\ fpc \in {"exited", "handoff"}
=============================================================================
