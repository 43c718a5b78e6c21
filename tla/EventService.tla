----------------------------- MODULE EventService -----------------------------
(***************************************************************************)
(* BatchCreateEvents, UpdateEvent and DeleteEvent (storage.go), call by    *)
(* call and request by request, over the two tables of the external store: *)
(* events, a row per start time (in microseconds) and id, and              *)
(* events_id_uniq_idx, which leads from an id to the key of that row.      *)
(*                                                                         *)
(* The store is modelled from how ytclient uses it: a transaction looks up *)
(* at its start timestamp, its modifications are buffered, and its commit  *)
(* is refused if a row it writes was written after it began.  Every        *)
(* request may fail, the commit also with its answer lost, and a lost      *)
(* commit may still be applied later.  A committed call hands its items to *)
(* the write worker (Storage), which makes them readable.  The process may *)
(* die at any step; the tables survive, nothing else does.                 *)
(***************************************************************************)
EXTENDS EventRequests

CONSTANTS
  Unit,       \* a microsecond, in the fractions Time counts
  Keep,       \* a row that a transaction does not modify
  MaxCrashes  \* bound: how often the process dies

\* UnixMicro: row keys have microseconds.
Micro(t) == t - (t % Unit)
RowTime == {Micro(t) : t \in Time}

ASSUME ServiceAssumption ==
  /\ Unit \in Nat \ {0}
  /\ None \notin Int /\ Keep \notin Event \cup Int \cup {None}
  /\ MaxCrashes \in Nat

VARIABLES
  rows,     \* rows[i][m]: the row of id i and start time m in events
  idx,      \* idx[i]: the row of id i in events_id_uniq_idx
  rowTs, idxTs,  \* the timestamps of their last commits
  clock,    \* the store's timestamps so far
  tx,       \* state of each call's transaction
  begun, stamp,  \* its start and its commit timestamp
  snap,     \* the tables at its start
  buf,      \* its buffered modifications
  pc,       \* where the call is, or how it ended
  key, ev,  \* its local variables: start time of the old key, event
  index,    \* what readers reach in memory: the items put since Open
  put,      \* the calls whose items were put since Open
  crashes

storeVars == <<rows, idx, rowTs, idxTs, clock, stamp>>
txVars == <<tx, begun, snap, buf>>
callVars == <<pc, key, ev>>
memVars == <<index, put, crashes>>
vars == <<storeVars, txVars, callVars, memVars>>

Tables == [rows : [Id -> [RowTime -> Event \cup {None}]],
           idx : [Id -> RowTime \cup {None}]]
Modifications == [rows : [Id -> [RowTime -> Event \cup {None, Keep}]],
                  idx : [Id -> RowTime \cup {None, Keep}]]
Untouched == [rows |-> [i \in Id |-> [m \in RowTime |-> Keep]],
              idx |-> [i \in Id |-> Keep]]
Item == [id : Id, start : Int, ts : Nat, deleted : BOOLEAN,
         event : Event \cup {None}]

Working == {"begin", "lookIdx", "lookRow", "delRow", "insRow", "insIdx",
            "delIdx", "commit", "committing", "handoff", "wait"}
Ended == {"ok", "failed", "unsure"}

TypeOK ==
  /\ [rows |-> rows, idx |-> idx] \in Tables
  /\ rowTs \in [Id -> [RowTime -> Nat]] /\ idxTs \in [Id -> Nat]
  /\ clock \in Nat
  /\ tx \in [Call -> {"none", "open", "aborted", "sent", "refused", "committed"}]
  /\ begun \in [Call -> Nat] /\ stamp \in [Call -> Nat]
  /\ snap \in [Call -> Tables] /\ buf \in [Call -> Modifications]
  /\ pc \in [Call -> Working \cup Ended]
  /\ key \in [Call -> RowTime \cup {None}]
  /\ ev \in [Call -> Event \cup {None}]
  /\ index \subseteq Item /\ put \subseteq Call
  /\ crashes \in 0 .. MaxCrashes

\* Open: the tables are as they were left, nothing is read back from them.
Init ==
  /\ rows = [i \in Id |-> [m \in RowTime |->
               IF Stored[i] # None /\ m = Micro(Stored[i].start)
               THEN Stored[i] ELSE None]]
  /\ idx = [i \in Id |-> IF Stored[i] = None THEN None ELSE Micro(Stored[i].start)]
  /\ rowTs = [i \in Id |-> [m \in RowTime |-> 0]] /\ idxTs = [i \in Id |-> 0]
  /\ clock = 0
  /\ tx = [c \in Call |-> "none"]
  /\ begun = [c \in Call |-> 0] /\ stamp = [c \in Call |-> 0]
  /\ snap = [c \in Call |-> [rows |-> rows, idx |-> idx]]
  /\ buf = [c \in Call |-> Untouched]
  /\ pc = [c \in Call |-> "begin"]
  /\ key = [c \in Call |-> None] /\ ev = [c \in Call |-> None]
  /\ index = {} /\ put = {} /\ crashes = 0
-----------------------------------------------------------------------------
(* The requests of a transaction, up to its commit.                        *)

Goto(c, place) == pc' = [pc EXCEPT ![c] = place]

\* StartTabletTx.  BatchCreateEvents has its events from the request.
Begin(c) ==
  /\ pc[c] = "begin"
  /\ tx' = [tx EXCEPT ![c] = "open"]
  /\ begun' = [begun EXCEPT ![c] = clock]
  /\ snap' = [snap EXCEPT ![c] = [rows |-> rows, idx |-> idx]]
  /\ IF Kind[c] = "create"
     THEN Goto(c, "insIdx") /\ ev' = [ev EXCEPT ![c] = New[c]]
     ELSE Goto(c, "lookIdx") /\ UNCHANGED ev
  /\ UNCHANGED <<storeVars, buf, key, memVars>>

\* LookupRows of the id, which must find one row.
LookIdx(c) ==
  /\ pc[c] = "lookIdx"
  /\ \E i \in Ids[c] :
       IF snap[c].idx[i] = None
       THEN Goto(c, "failed") /\ UNCHANGED key
       ELSE /\ Goto(c, IF Kind[c] = "update" THEN "lookRow" ELSE "delRow")
            /\ key' = [key EXCEPT ![c] = snap[c].idx[i]]
  /\ UNCHANGED <<storeVars, txVars, ev, memVars>>

\* The fields of the mask, and no others, come from the request.
Updated(c, e) ==
  [start |-> IF "start" \in Mask[c] THEN New[c].start ELSE e.start,
   title |-> IF "title" \in Mask[c] THEN New[c].title ELSE e.title]

\* keyChanged: the mask names the start time, whether or not it differs.
\* Mutant: the old row is never deleted.
KeyKept(c) == FALSE
KeyChanged(c) == "start" \in Mask[c]

\* LookupRows of the key, which must find one row, and the loop over the
\* mask.  Mutant: both lookups precede the transaction.
LookRowUnprotected(c) ==
  /\ pc[c] = "lookRow"
  /\ \E i \in Ids[c] :
       IF snap[c].rows[i][key[c]] = None
       THEN Goto(c, "failed") /\ UNCHANGED ev
       ELSE /\ Goto(c, IF KeyChanged(c) THEN "delRow" ELSE "insRow")
            /\ ev' = [ev EXCEPT ![c] = Updated(c, snap[c].rows[i][key[c]])]
  /\ begun' = [begun EXCEPT ![c] = clock]
  /\ UNCHANGED <<storeVars, tx, snap, buf, key, memVars>>
LookRow(c) ==
  /\ pc[c] = "lookRow"
  /\ \E i \in Ids[c] :
       IF snap[c].rows[i][key[c]] = None
       THEN Goto(c, "failed") /\ UNCHANGED ev
       ELSE /\ Goto(c, IF KeyChanged(c) THEN "delRow" ELSE "insRow")
            /\ ev' = [ev EXCEPT ![c] = Updated(c, snap[c].rows[i][key[c]])]
  /\ UNCHANGED <<storeVars, txVars, key, memVars>>

\* DeleteRows and InsertRows of the events table.  A later modification of a
\* row replaces an earlier one.
DelRow(c) ==
  /\ pc[c] = "delRow"
  /\ buf' = [buf EXCEPT ![c].rows =
               [i \in Id |-> [m \in RowTime |->
                  IF i \in Ids[c] /\ m = key[c] THEN None ELSE @[i][m]]]]
  /\ Goto(c, IF Kind[c] = "update" THEN "insRow" ELSE "delIdx")
  /\ UNCHANGED <<storeVars, tx, begun, snap, key, ev, memVars>>

InsRow(c) ==
  /\ pc[c] = "insRow"
  /\ buf' = [buf EXCEPT ![c].rows =
               [i \in Id |-> [m \in RowTime |->
                  IF i \in Ids[c] /\ m = Micro(ev[c].start) THEN ev[c] ELSE @[i][m]]]]
  /\ Goto(c, IF Kind[c] = "update" THEN "insIdx" ELSE "commit")
  /\ UNCHANGED <<storeVars, tx, begun, snap, key, ev, memVars>>

\* InsertRows and DeleteRows of the id table, which creates write first and
\* the others last.
InsIdx(c) ==
  /\ pc[c] = "insIdx"
  /\ buf' = [buf EXCEPT ![c].idx =
               [i \in Id |-> IF i \in Ids[c] THEN Micro(ev[c].start) ELSE @[i]]]
  /\ Goto(c, IF Kind[c] = "update" THEN "commit" ELSE "insRow")
  /\ UNCHANGED <<storeVars, tx, begun, snap, key, ev, memVars>>

DelIdx(c) ==
  /\ pc[c] = "delIdx"
  /\ buf' = [buf EXCEPT ![c].idx =
               [i \in Id |-> IF i \in Ids[c] THEN None ELSE @[i]]]
  /\ Goto(c, "commit")
  /\ UNCHANGED <<storeVars, tx, begun, snap, key, ev, memVars>>

\* A request fails.  A failed insert of a create aborts the transaction,
\* other failures leave it open until the store forgets it.
RequestFails(c) ==
  /\ pc[c] \in {"begin", "lookIdx", "lookRow", "delRow", "insRow", "insIdx", "delIdx"}
  /\ Goto(c, "failed")
  /\ tx' = IF Kind[c] = "create" /\ tx[c] = "open"
           THEN [tx EXCEPT ![c] = "aborted"] ELSE tx
  /\ UNCHANGED <<storeVars, begun, snap, buf, key, ev, memVars>>
-----------------------------------------------------------------------------
(* Commit.                                                                 *)

SendCommit(c) ==
  /\ pc[c] = "commit"
  /\ tx' = [tx EXCEPT ![c] = "sent"]
  /\ Goto(c, "committing")
  /\ UNCHANGED <<storeVars, begun, snap, buf, key, ev, memVars>>

\* A row that the transaction writes was written after it began.
Conflict(c) ==
  \E i \in Id :
    \/ buf[c].idx[i] # Keep /\ idxTs[i] > begun[c]
    \/ \E m \in RowTime : buf[c].rows[i][m] # Keep /\ rowTs[i][m] > begun[c]

\* The store applies the commit, whether or not its sender still waits.
Apply(c) ==
  /\ tx[c] = "sent" /\ ~Conflict(c)
  /\ clock' = clock + 1
  /\ rows' = [i \in Id |-> [m \in RowTime |->
                IF buf[c].rows[i][m] = Keep THEN rows[i][m] ELSE buf[c].rows[i][m]]]
  /\ rowTs' = [i \in Id |-> [m \in RowTime |->
                 IF buf[c].rows[i][m] = Keep THEN rowTs[i][m] ELSE clock']]
  /\ idx' = [i \in Id |-> IF buf[c].idx[i] = Keep THEN idx[i] ELSE buf[c].idx[i]]
  /\ idxTs' = [i \in Id |-> IF buf[c].idx[i] = Keep THEN idxTs[i] ELSE clock']
  /\ stamp' = [stamp EXCEPT ![c] = clock']
  /\ tx' = [tx EXCEPT ![c] = "committed"]
  /\ UNCHANGED <<begun, snap, buf, callVars, memVars>>

Refuse(c) ==
  /\ tx[c] = "sent" /\ Conflict(c)
  /\ tx' = [tx EXCEPT ![c] = "refused"]
  /\ UNCHANGED <<storeVars, begun, snap, buf, callVars, memVars>>

\* The answer arrives.
CommitAnswered(c) ==
  /\ pc[c] = "committing" /\ tx[c] \in {"committed", "refused"}
  /\ Goto(c, IF tx[c] = "committed" THEN "handoff" ELSE "failed")
  /\ UNCHANGED <<storeVars, txVars, key, ev, memVars>>

\* The request or its answer is lost or late: the call returns an error.
CommitLost(c) ==
  /\ pc[c] = "committing"
  /\ Goto(c, "unsure")
  /\ UNCHANGED <<storeVars, txVars, key, ev, memVars>>
-----------------------------------------------------------------------------
(* The hand-off to the write worker.                                       *)

\* Live items have the event's own start time and the commit timestamp.
\* Mutant: the start timestamp.
LiveAtBegin(c, i) == [id |-> i, start |-> ev[c].start, ts |-> begun[c],
                      deleted |-> FALSE, event |-> ev[c]]
Live(c, i) == [id |-> i, start |-> ev[c].start, ts |-> stamp[c],
               deleted |-> FALSE, event |-> ev[c]]

\* Tombstones have the start time of the old row's key, in microseconds.
Tombstone(c, i) == [id |-> i, start |-> key[c], ts |-> stamp[c],
                    deleted |-> TRUE, event |-> None]

\* The items of a call as the memtable holds them once they are put.  An
\* update that names an unchanged start time has two items of the same key:
\* the second one replaces the value of the first, whose key stays.
\* Mutant: no tombstone for the old key of an update.
ItemsUnburied(c) ==
  UNION {IF Kind[c] = "delete" THEN {Tombstone(c, i)} ELSE {Live(c, i)} : i \in Ids[c]}
Items(c) ==
  UNION {CASE Kind[c] = "delete" -> {Tombstone(c, i)}
           [] Kind[c] = "update" /\ KeyChanged(c) /\ ev[c].start = key[c] ->
                {[Live(c, i) EXCEPT !.event = None]}
           [] Kind[c] = "update" /\ KeyChanged(c) /\ ev[c].start # key[c] ->
                {Live(c, i), Tombstone(c, i)}
           [] OTHER -> {Live(c, i)} : i \in Ids[c]}

Put(c) ==
  /\ pc[c] = "handoff"
  /\ index' = index \cup Items(c)
  /\ put' = put \cup {c}
  /\ Goto(c, "wait")
  /\ UNCHANGED <<storeVars, txVars, key, ev, crashes>>

Acknowledge(c) ==
  /\ pc[c] = "wait"
  /\ Goto(c, "ok")
  /\ UNCHANGED <<storeVars, txVars, key, ev, memVars>>

\* ctx.Done() in either select: an error, though the commit stands.
Cancel(c) ==
  /\ pc[c] \in {"handoff", "wait"}
  /\ Goto(c, "unsure")
  /\ UNCHANGED <<storeVars, txVars, key, ev, memVars>>

\* The process dies and is started again.
Crash ==
  /\ crashes < MaxCrashes
  /\ crashes' = crashes + 1
  /\ index' = {} /\ put' = {}
  /\ pc' = [c \in Call |->
              IF pc[c] \in Ended \cup {"begin"} THEN pc[c]
              ELSE IF tx[c] \in {"sent", "committed"} THEN "unsure" ELSE "failed"]
  /\ UNCHANGED <<storeVars, txVars, key, ev>>
-----------------------------------------------------------------------------
Next ==
  \/ \E c \in Call :
       \/ Begin(c) \/ LookIdx(c) \/ LookRow(c) \/ DelRow(c) \/ InsRow(c)
       \/ InsIdx(c) \/ DelIdx(c) \/ RequestFails(c)
       \/ SendCommit(c) \/ Apply(c) \/ Refuse(c) \/ CommitAnswered(c)
       \/ CommitLost(c) \/ Put(c) \/ Acknowledge(c) \/ Cancel(c)
  \/ Crash

Spec == Init /\ [][Next]_vars
-----------------------------------------------------------------------------
(* Properties.                                                             *)

\* The current event of an id: the row that the id table leads to.
Current(i) == IF idx[i] = None THEN None ELSE rows[i][idx[i]]

\* The two tables never disagree: an id has at most one row in events, under
\* the key that the id table names and that its own start time gives,
\* whatever calls overlap, fail half way or are applied late.
TablesAgree ==
  \A i \in Id, m \in RowTime :
    /\ rows[i][m] # None <=> idx[i] = m
    /\ rows[i][m] # None => Micro(rows[i][m].start) = m

\* Every call takes effect at most once, at one instant, on the event as it
\* is then (no update is lost), never after it was answered with a refusal
\* and always before it is answered with success.
Map == INSTANCE EventMap WITH
  events <- [i \in Id |-> Current(i)],
  took <- {c \in Call : tx[c] = "committed"},
  answer <- [c \in Call |-> IF pc[c] \in Ended THEN pc[c] ELSE "none"]
AtomicEvents == Map!Spec

\* Once the last committed change of an id was put, in whatever order puts
\* came, the newest items of the id in memory are a live one at the event's
\* start time, with the event (unless its own tombstone replaced it), or
\* tombstones only if there is no event any more.
LastChangeIndexed ==
  \A c \in put : \A i \in Ids[c] : stamp[c] = idxTs[i] =>
    LET items == {x \in index : x.id = i}
        live == {x \in items : ~x.deleted /\ \A y \in items : y.ts <= x.ts}
    IN IF Current(i) = None THEN live = {}
       ELSE \E x \in live : /\ live = {x} /\ x.start = Current(i).start
                            /\ x.event \in {Current(i), None}

\* A live item that no newer item of its key covers is at the start time its
\* event has, if every change since was put: moves and deletes bury the old
\* key.  Not so below a microsecond, to which tombstones are cut.
OldKeyBuried ==
  \A x \in index :
    /\ ~x.deleted /\ x.start = Micro(x.start)
    /\ \A y \in index : y.id = x.id /\ y.start = x.start => y.ts <= x.ts
    /\ \A c \in Call : x.id \in Ids[c] /\ tx[c] = "committed" /\ stamp[c] > x.ts => c \in put
    => Current(x.id) # None /\ Current(x.id).start = x.start
=============================================================================
