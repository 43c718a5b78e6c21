-------------------------- MODULE EventServiceProofs --------------------------
(* Proofs about EventService, for any events, calls and restarts: the      *)
(* tables agree, and every call is one step of EventMap or none.           *)
EXTENDS EventService, TLAPS

(***************************************************************************)
(* The inductive invariant.                                                *)
(***************************************************************************)

\* Two tables agree, as TablesAgree says of the current ones.
Agree(t) ==
  \A i \in Id, m \in RowTime :
    /\ t.rows[i][m] # None <=> t.idx[i] = m
    /\ t.rows[i][m] # None => Micro(t.rows[i][m].start) = m

Now == [rows |-> rows, idx |-> idx]

\* The state of the transaction at each place of a call.
PhaseOf(c) ==
  /\ pc[c] = "begin" => tx[c] = "none"
  /\ pc[c] \in {"lookIdx", "lookRow", "delRow", "insRow", "insIdx", "delIdx", "commit"}
       => tx[c] = "open"
  /\ pc[c] = "committing" => tx[c] \in {"sent", "committed", "refused"}
  /\ pc[c] \in {"handoff", "wait", "ok"} => tx[c] = "committed"
  /\ pc[c] = "failed" => tx[c] \in {"none", "open", "aborted", "refused"}
  /\ tx[c] = "sent" => pc[c] \in {"committing", "unsure"}
  /\ tx[c] = "none" => pc[c] \in {"begin", "failed"}
Phases == \A c \in Call : PhaseOf(c)

\* Where a transaction that may still commit has got to.
Place(c) == IF tx[c] = "sent" THEN "commit" ELSE pc[c]
Pending(c) ==
  Place(c) \in {"lookIdx", "lookRow", "delRow", "insRow", "insIdx", "delIdx", "commit"}

\* Timestamps lie in the past; unless an id was written after it began, a
\* transaction has seen its current rows.
SnapshotOf(c) ==
  tx[c] \in {"open", "sent"} =>
    /\ Agree(snap[c])
    /\ begun[c] <= clock
    /\ \A i \in Id : idxTs[i] <= begun[c] =>
         rows[i] = snap[c].rows[i] /\ idx[i] = snap[c].idx[i]
Snapshots == \A c \in Call : SnapshotOf(c)

\* The local variables of a call: old key and new event.
LocalsOf(c) ==
  Pending(c) =>
    /\ Kind[c] = "create" => Place(c) \in {"insIdx", "insRow", "commit"} /\ ev[c] = New[c]
    /\ Kind[c] = "update" => Place(c) # "delIdx"
    /\ Kind[c] = "update" /\ Place(c) = "delRow" => KeyChanged(c)
    /\ Kind[c] = "delete" => Place(c) \in {"lookIdx", "delRow", "delIdx", "commit"}
    /\ \A i \in Ids[c] :
         /\ Kind[c] # "create" /\ Place(c) # "lookIdx" =>
              key[c] \in RowTime /\ key[c] = snap[c].idx[i]
         /\ Kind[c] = "update" /\ Place(c) \notin {"lookIdx", "lookRow"} =>
              /\ ev[c] \in Event
              /\ ev[c] = Updated(c, snap[c].rows[i][key[c]])
Locals == \A c \in Call : LocalsOf(c)

\* The modifications a transaction has buffered so far.
Deleted(c) ==
  \/ Kind[c] = "update" /\ KeyChanged(c) /\ Place(c) \in {"insRow", "insIdx", "commit"}
  \/ Kind[c] = "delete" /\ Place(c) \in {"delIdx", "commit"}
Inserted(c) ==
  \/ Kind[c] = "update" /\ Place(c) \in {"insIdx", "commit"}
  \/ Kind[c] = "create" /\ Place(c) = "commit"
Indexed(c) ==
  \/ Kind[c] = "create" /\ Place(c) \in {"insRow", "commit"}
  \/ Kind[c] # "create" /\ Place(c) = "commit"
BufferOf(c) ==
  /\ pc[c] = "begin" => buf[c] = Untouched
  /\ Pending(c) =>
       \A i \in Id :
         /\ buf[c].idx[i] =
              IF i \in Ids[c] /\ Indexed(c)
              THEN IF Kind[c] = "delete" THEN None ELSE Micro(ev[c].start)
              ELSE Keep
         /\ \A m \in RowTime :
              buf[c].rows[i][m] =
                IF i \in Ids[c] /\ Inserted(c) /\ m = Micro(ev[c].start) THEN ev[c]
                ELSE IF i \in Ids[c] /\ Deleted(c) /\ m = key[c] THEN None
                ELSE Keep
Buffers == \A c \in Call : BufferOf(c)

\* Ids that a create call is to make are free until it commits.
Unmade ==
  \A c \in Call : Kind[c] = "create" /\ tx[c] # "committed" =>
    \A i \in Ids[c] : idx[i] = None

\* What a call hands over is there.
PreparedOf(c) ==
  pc[c] \in {"commit", "committing", "handoff"} =>
    /\ Kind[c] # "delete" => ev[c] \in Event
    /\ Kind[c] # "create" => key[c] \in RowTime
Prepared == \A c \in Call : PreparedOf(c)

IInv ==
  /\ TypeOK /\ TablesAgree /\ Phases /\ Snapshots /\ Locals /\ Buffers
  /\ Prepared /\ Unmade
  /\ \A i \in Id : idxTs[i] <= clock

(***************************************************************************)
(* Types.                                                                  *)
(***************************************************************************)

\* Row times are times in whole microseconds, and events are no markers.
LEMMA Markers ==
  /\ RowTime \subseteq Int
  /\ \A e \in Event : e.start \in Nat /\ Micro(e.start) \in RowTime
  /\ None \notin RowTime /\ Keep \notin RowTime /\ None \notin Event /\ Keep \notin Event
  /\ None # Keep
<1>1. \A t \in Time : Micro(t) \in Int
  BY RequestAssumption, ServiceAssumption DEF Micro
<1>2. QED
  BY <1>1, RequestAssumption, ServiceAssumption DEF RowTime, Event

LEMMA UpdatedType ==
  ASSUME NEW c \in Call, NEW e \in Event
  PROVE  Updated(c, e) \in Event
  BY RequestAssumption DEF Updated, Event

\* The requests, call by call.
LEMMA Requests ==
  ASSUME NEW c \in Call
  PROVE  /\ Kind[c] \in {"create", "update", "delete"}
         /\ Ids[c] \subseteq Id /\ New[c] \in Event
         /\ Kind[c] # "create" => \E i \in Id : Ids[c] = {i}
  BY RequestAssumption

\* What a modification request makes of the buffers.
LEMMA RowsStep ==
  ASSUME TypeOK, NEW c \in Call,
         NEW R \in [Id -> [RowTime -> Event \cup {None, Keep}]],
         buf' = [buf EXCEPT ![c].rows = R]
  PROVE  /\ buf' \in [Call -> Modifications]
         /\ buf'[c].rows = R /\ buf'[c].idx = buf[c].idx
         /\ \A d \in Call \ {c} : buf'[d] = buf[d]
<1>1. buf \in [Call -> Modifications]
  BY DEF TypeOK
<1>2. [buf[c] EXCEPT !.rows = R] \in Modifications
  BY <1>1 DEF Modifications
<1>3. /\ [buf[c] EXCEPT !.rows = R].rows = R
      /\ [buf[c] EXCEPT !.rows = R].idx = buf[c].idx
  BY <1>1 DEF Modifications
<1>4. buf' = [buf EXCEPT ![c] = [buf[c] EXCEPT !.rows = R]]
  OBVIOUS
<1>5. QED BY <1>1, <1>2, <1>3, <1>4

LEMMA IdxStep ==
  ASSUME TypeOK, NEW c \in Call,
         NEW I \in [Id -> RowTime \cup {None, Keep}],
         buf' = [buf EXCEPT ![c].idx = I]
  PROVE  /\ buf' \in [Call -> Modifications]
         /\ buf'[c].idx = I /\ buf'[c].rows = buf[c].rows
         /\ \A d \in Call \ {c} : buf'[d] = buf[d]
<1>1. buf \in [Call -> Modifications]
  BY DEF TypeOK
<1>2. [buf[c] EXCEPT !.idx = I] \in Modifications
  BY <1>1 DEF Modifications
<1>3. /\ [buf[c] EXCEPT !.idx = I].idx = I
      /\ [buf[c] EXCEPT !.idx = I].rows = buf[c].rows
  BY <1>1 DEF Modifications
<1>4. buf' = [buf EXCEPT ![c] = [buf[c] EXCEPT !.idx = I]]
  OBVIOUS
<1>5. QED BY <1>1, <1>2, <1>3, <1>4

LEMMA DelRowBuffer ==
  ASSUME TypeOK, NEW c \in Call, DelRow(c)
  PROVE  /\ buf' \in [Call -> Modifications]
         /\ buf'[c].idx = buf[c].idx
         /\ \A i \in Id, m \in RowTime : buf'[c].rows[i][m] =
              IF i \in Ids[c] /\ m = key[c] THEN None ELSE buf[c].rows[i][m]
         /\ \A d \in Call \ {c} : buf'[d] = buf[d]
<1> DEFINE R == [i \in Id |-> [m \in RowTime |->
                   IF i \in Ids[c] /\ m = key[c] THEN None ELSE buf[c].rows[i][m]]]
<1>1. buf[c].rows \in [Id -> [RowTime -> Event \cup {None, Keep}]]
  BY DEF TypeOK, Modifications
<1>2. R \in [Id -> [RowTime -> Event \cup {None, Keep}]]
  BY <1>1
<1>3. buf' = [buf EXCEPT ![c].rows = R]
  BY DEF DelRow
<1>5. \A i \in Id, m \in RowTime : R[i][m] =
        IF i \in Ids[c] /\ m = key[c] THEN None ELSE buf[c].rows[i][m]
  OBVIOUS
<1> HIDE DEF R
<1>6. /\ buf' \in [Call -> Modifications]
      /\ buf'[c].rows = R /\ buf'[c].idx = buf[c].idx
      /\ \A d \in Call \ {c} : buf'[d] = buf[d]
  BY <1>2, <1>3, RowsStep
<1>7. QED BY <1>5, <1>6

LEMMA InsRowBuffer ==
  ASSUME TypeOK, NEW c \in Call, InsRow(c), ev[c] \in Event
  PROVE  /\ buf' \in [Call -> Modifications]
         /\ buf'[c].idx = buf[c].idx
         /\ \A i \in Id, m \in RowTime : buf'[c].rows[i][m] =
              IF i \in Ids[c] /\ m = Micro(ev[c].start) THEN ev[c] ELSE buf[c].rows[i][m]
         /\ \A d \in Call \ {c} : buf'[d] = buf[d]
<1> DEFINE R == [i \in Id |-> [m \in RowTime |->
                   IF i \in Ids[c] /\ m = Micro(ev[c].start) THEN ev[c]
                   ELSE buf[c].rows[i][m]]]
<1>1. buf[c].rows \in [Id -> [RowTime -> Event \cup {None, Keep}]]
  BY DEF TypeOK, Modifications
<1>2. R \in [Id -> [RowTime -> Event \cup {None, Keep}]]
  BY <1>1
<1>3. buf' = [buf EXCEPT ![c].rows = R]
  BY DEF InsRow
<1>5. \A i \in Id, m \in RowTime : R[i][m] =
        IF i \in Ids[c] /\ m = Micro(ev[c].start) THEN ev[c] ELSE buf[c].rows[i][m]
  OBVIOUS
<1> HIDE DEF R
<1>6. /\ buf' \in [Call -> Modifications]
      /\ buf'[c].rows = R /\ buf'[c].idx = buf[c].idx
      /\ \A d \in Call \ {c} : buf'[d] = buf[d]
  BY <1>2, <1>3, RowsStep
<1>7. QED BY <1>5, <1>6

LEMMA IdxBuffer ==
  ASSUME TypeOK, NEW c \in Call, NEW v \in RowTime \cup {None},
         buf' = [buf EXCEPT ![c].idx = [i \in Id |-> IF i \in Ids[c] THEN v ELSE @[i]]]
  PROVE  /\ buf' \in [Call -> Modifications]
         /\ buf'[c].rows = buf[c].rows
         /\ \A i \in Id : buf'[c].idx[i] = IF i \in Ids[c] THEN v ELSE buf[c].idx[i]
         /\ \A d \in Call \ {c} : buf'[d] = buf[d]
<1> DEFINE I == [i \in Id |-> IF i \in Ids[c] THEN v ELSE buf[c].idx[i]]
<1>1. buf[c].idx \in [Id -> RowTime \cup {None, Keep}]
  BY DEF TypeOK, Modifications
<1>2. I \in [Id -> RowTime \cup {None, Keep}]
  BY <1>1
<1>3. buf' = [buf EXCEPT ![c].idx = I]
  OBVIOUS
<1>5. \A i \in Id : I[i] = IF i \in Ids[c] THEN v ELSE buf[c].idx[i]
  OBVIOUS
<1> HIDE DEF I
<1>6. QED BY <1>2, <1>3, <1>5, IdxStep

\* The kind of a call that is at a place of its own, and its event.
LEMMA AtPlace ==
  ASSUME Phases, Locals, NEW c \in Call
  PROVE  /\ pc[c] = "lookRow" => Kind[c] = "update" /\ key[c] \in RowTime
         /\ pc[c] \in {"insRow", "insIdx"} => ev[c] \in Event
<1>1. CASE pc[c] = "lookRow"
  BY <1>1, Requests DEF Phases, PhaseOf, Locals, LocalsOf, Pending, Place
<1>2. CASE pc[c] \in {"insRow", "insIdx"}
  <2>1. tx[c] = "open" /\ Place(c) = pc[c] /\ Pending(c)
    BY <1>2 DEF Phases, PhaseOf, Pending, Place
  <2>2. Kind[c] \in {"create", "update"}
    BY <1>2, <2>1, Requests DEF Locals, LocalsOf
  <2>3. QED BY <1>2, <2>1, <2>2, Requests DEF Locals, LocalsOf
<1>3. QED BY <1>1, <1>2

LEMMA InitType == Init => TypeOK
<1> SUFFICES ASSUME Init PROVE TypeOK
  OBVIOUS
<1> USE Markers, RequestAssumption, ServiceAssumption
<1>1. rows \in [Id -> [RowTime -> Event \cup {None}]]
  BY DEF Init
<1>2. idx \in [Id -> RowTime \cup {None}]
  BY DEF Init
<1>3. Untouched \in Modifications
  BY DEF Untouched, Modifications
<1>4. QED
  BY <1>1, <1>2, <1>3 DEF Init, TypeOK, Tables, Working, Ended, Item

LEMMA StepType == IInv /\ [Next]_vars => TypeOK'
<1> SUFFICES ASSUME IInv, [Next]_vars PROVE TypeOK'
  OBVIOUS
<1>iinv. TypeOK /\ Phases /\ Locals /\ Prepared
  BY DEF IInv
<1> USE <1>iinv DEF TypeOK
<1>types. /\ rows \in [Id -> [RowTime -> Event \cup {None}]]
          /\ idx \in [Id -> RowTime \cup {None}]
          /\ buf \in [Call -> Modifications] /\ snap \in [Call -> Tables]
          /\ \A c \in Call : /\ buf[c].rows \in [Id -> [RowTime -> Event \cup {None, Keep}]]
                            /\ buf[c].idx \in [Id -> RowTime \cup {None, Keep}]
                            /\ snap[c].rows \in [Id -> [RowTime -> Event \cup {None}]]
                            /\ snap[c].idx \in [Id -> RowTime \cup {None}]
  BY DEF Tables, Modifications
<1>1. CASE UNCHANGED vars
  BY <1>1 DEF vars, storeVars, txVars, callVars, memVars
<1>2. ASSUME NEW c \in Call, Begin(c) PROVE TypeOK'
  <2>1. snap' \in [Call -> Tables]
    BY <1>2, <1>types DEF Begin, Tables
  <2>2. ev' \in [Call -> Event \cup {None}]
    <3>1. CASE Kind[c] = "create"
      <4>1. New[c] \in Event /\ ev' = [ev EXCEPT ![c] = New[c]]
        BY <1>2, <3>1, RequestAssumption DEF Begin
      <4>2. ev \in [Call -> Event \cup {None}]
        OBVIOUS
      <4> HIDE DEF TypeOK
      <4>3. QED BY <4>1, <4>2
    <3>2. CASE Kind[c] # "create"
      <4>1. ev' = ev
        BY <1>2, <3>2 DEF Begin
      <4>2. QED BY <4>1
    <3>3. QED BY <3>1, <3>2
  <2>3. pc' \in [Call -> Working \cup Ended]
    BY <1>2 DEF Begin, Goto, Working
  <2>4. QED
    BY <1>2, <2>1, <2>2, <2>3 DEF Begin, storeVars, memVars
<1>3. ASSUME NEW c \in Call, LookIdx(c) PROVE TypeOK'
  <2>1. PICK i \in Ids[c] :
          IF snap[c].idx[i] = None
          THEN Goto(c, "failed") /\ UNCHANGED key
          ELSE /\ Goto(c, IF Kind[c] = "update" THEN "lookRow" ELSE "delRow")
               /\ key' = [key EXCEPT ![c] = snap[c].idx[i]]
    BY <1>3 DEF LookIdx
  <2>2. i \in Id
    BY Requests
  <2>3. key' \in [Call -> RowTime \cup {None}] /\ pc' \in [Call -> Working \cup Ended]
    <3>1. snap[c].idx[i] \in RowTime \cup {None}
      BY <2>2, <1>types
    <3>2. QED BY <2>1, <3>1 DEF Goto, Working, Ended
  <2>4. QED
    BY <1>3, <2>3 DEF LookIdx, storeVars, txVars, memVars
<1>4. ASSUME NEW c \in Call, LookRow(c) PROVE TypeOK'
  <2>1. PICK i \in Ids[c] :
          IF snap[c].rows[i][key[c]] = None
          THEN Goto(c, "failed") /\ UNCHANGED ev
          ELSE /\ Goto(c, IF KeyChanged(c) THEN "delRow" ELSE "insRow")
               /\ ev' = [ev EXCEPT ![c] = Updated(c, snap[c].rows[i][key[c]])]
    BY <1>4 DEF LookRow
  <2>2. i \in Id /\ Kind[c] = "update" /\ tx[c] = "open"
    BY <1>4, Requests, AtPlace DEF LookRow, Phases, PhaseOf
  <2>3. key[c] \in RowTime
    BY <1>4, AtPlace DEF LookRow
  <2>4. snap[c].rows[i][key[c]] \in Event \cup {None}
    BY <2>2, <2>3, <1>types
  <2>5. ev' \in [Call -> Event \cup {None}] /\ pc' \in [Call -> Working \cup Ended]
    BY <2>1, <2>4, UpdatedType DEF Goto, Working, Ended
  <2>6. QED
    BY <1>4, <2>5 DEF LookRow, storeVars, txVars, memVars
<1>5. ASSUME NEW c \in Call, DelRow(c) PROVE TypeOK'
  <2>1. buf' \in [Call -> Modifications]
    BY <1>5, DelRowBuffer
  <2>2. pc' \in [Call -> Working \cup Ended]
    BY <1>5 DEF DelRow, Goto, Working
  <2>3. QED
    BY <1>5, <2>1, <2>2 DEF DelRow, storeVars, memVars
<1>6. ASSUME NEW c \in Call, InsRow(c) PROVE TypeOK'
  <2>1. ev[c] \in Event
    BY <1>6, AtPlace DEF InsRow
  <2>2. buf' \in [Call -> Modifications]
    BY <1>6, <2>1, InsRowBuffer
  <2>3. pc' \in [Call -> Working \cup Ended]
    BY <1>6 DEF InsRow, Goto, Working
  <2>4. QED
    BY <1>6, <2>2, <2>3 DEF InsRow, storeVars, memVars
<1>7. ASSUME NEW c \in Call, InsIdx(c) PROVE TypeOK'
  <2>1. ev[c] \in Event
    BY <1>7, AtPlace DEF InsIdx
  <2>2. buf' \in [Call -> Modifications]
    BY <1>7, <2>1, IdxBuffer, Markers DEF InsIdx
  <2>3. pc' \in [Call -> Working \cup Ended]
    BY <1>7 DEF InsIdx, Goto, Working
  <2>4. QED
    BY <1>7, <2>2, <2>3 DEF InsIdx, storeVars, memVars
<1>8. ASSUME NEW c \in Call, DelIdx(c) PROVE TypeOK'
  <2>1. buf' \in [Call -> Modifications]
    BY <1>8, IdxBuffer DEF DelIdx
  <2>2. pc' \in [Call -> Working \cup Ended]
    BY <1>8 DEF DelIdx, Goto, Working
  <2>3. QED
    BY <1>8, <2>1, <2>2 DEF DelIdx, storeVars, memVars
<1>9. ASSUME NEW c \in Call, RequestFails(c) \/ SendCommit(c) PROVE TypeOK'
  BY <1>9 DEF RequestFails, SendCommit, Goto, Working, Ended, storeVars, memVars
<1>10. ASSUME NEW c \in Call, Apply(c) PROVE TypeOK'
  <2>1. clock' \in Nat
    BY <1>10 DEF Apply
  <2>2. rows' \in [Id -> [RowTime -> Event \cup {None}]]
    BY <1>10, <1>types DEF Apply
  <2>3. idx' \in [Id -> RowTime \cup {None}]
    BY <1>10, <1>types DEF Apply
  <2>4. rowTs' \in [Id -> [RowTime -> Nat]] /\ idxTs' \in [Id -> Nat]
    BY <1>10, <2>1 DEF Apply
  <2>5. QED
    BY <1>10, <2>1, <2>2, <2>3, <2>4 DEF Apply, Tables, callVars, memVars
<1>11. ASSUME NEW c \in Call, Refuse(c) PROVE TypeOK'
  BY <1>11 DEF Refuse, storeVars, callVars, memVars
<1>12. ASSUME NEW c \in Call,
              CommitAnswered(c) \/ CommitLost(c) \/ Acknowledge(c) \/ Cancel(c)
       PROVE  TypeOK'
  BY <1>12 DEF CommitAnswered, CommitLost, Acknowledge, Cancel, Goto, Working,
               Ended, storeVars, txVars, memVars
<1>13. ASSUME NEW c \in Call, Put(c) PROVE TypeOK'
  <2>1. ASSUME NEW i \in Ids[c], Kind[c] # "delete"
        PROVE  Live(c, i) \in Item /\ [Live(c, i) EXCEPT !.event = None] \in Item
    <3>1. i \in Id /\ ev[c] \in Event /\ ev[c].start \in Int
      BY <1>13, <2>1, Markers, Requests DEF Put, Prepared, PreparedOf
    <3>2. QED BY <3>1 DEF Live, Item
  <2>2. ASSUME NEW i \in Ids[c], Kind[c] # "create"
        PROVE  Tombstone(c, i) \in Item
    BY <1>13, <2>2, Markers, RequestAssumption DEF Put, Tombstone, Item, Prepared, PreparedOf
  <2>3. Items(c) \subseteq Item
    <3>1. ASSUME NEW i \in Ids[c]
          PROVE  (CASE Kind[c] = "delete" -> {Tombstone(c, i)}
                   [] Kind[c] = "update" /\ KeyChanged(c) /\ ev[c].start = key[c] ->
                        {[Live(c, i) EXCEPT !.event = None]}
                   [] Kind[c] = "update" /\ KeyChanged(c) /\ ev[c].start # key[c] ->
                        {Live(c, i), Tombstone(c, i)}
                   [] OTHER -> {Live(c, i)}) \subseteq Item
      BY <2>1, <2>2, Requests
    <3>2. QED BY <3>1 DEF Items
  <2>4. index' \subseteq Item /\ put' \subseteq Call
    BY <1>13, <2>3 DEF Put
  <2>5. pc' \in [Call -> Working \cup Ended]
    BY <1>13 DEF Put, Goto, Working
  <2>6. QED
    BY <1>13, <2>4, <2>5 DEF Put, storeVars, txVars
<1>14. ASSUME Crash PROVE TypeOK'
  <2>1. pc' \in [Call -> Working \cup Ended]
    BY <1>14 DEF Crash, Ended
  <2>2. crashes' \in 0 .. MaxCrashes
    BY <1>14, ServiceAssumption DEF Crash
  <2>3. QED
    BY <1>14, <2>1, <2>2 DEF Crash, storeVars, txVars
<1>15. QED
  BY <1>1, <1>2, <1>3, <1>4, <1>5, <1>6, <1>7, <1>8, <1>9, <1>10, <1>11, <1>12,
     <1>13, <1>14 DEF Next

(***************************************************************************)
(* The commit.                                                             *)
(***************************************************************************)

\* What is buffered when the commit is sent.
LEMMA SentBuffer ==
  ASSUME IInv, NEW c \in Call, tx[c] = "sent"
  PROVE  /\ Pending(c) /\ Place(c) = "commit"
         /\ \A i \in Id :
              /\ buf[c].idx[i] =
                   IF i \in Ids[c]
                   THEN IF Kind[c] = "delete" THEN None ELSE Micro(ev[c].start)
                   ELSE Keep
              /\ \A m \in RowTime :
                   buf[c].rows[i][m] =
                     IF i \in Ids[c] /\ Kind[c] # "delete" /\ m = Micro(ev[c].start) THEN ev[c]
                     ELSE IF /\ i \in Ids[c]
                             /\ Kind[c] = "delete" \/ (Kind[c] = "update" /\ KeyChanged(c))
                             /\ m = key[c] THEN None
                     ELSE Keep
<1>1. Pending(c) /\ Place(c) = "commit"
  BY DEF Pending, Place
<1>2. /\ Indexed(c) /\ (Inserted(c) <=> Kind[c] # "delete")
      /\ Deleted(c) <=> Kind[c] = "delete" \/ (Kind[c] = "update" /\ KeyChanged(c))
  BY <1>1, Requests DEF Indexed, Inserted, Deleted
<1>3. QED
  BY <1>1, <1>2 DEF IInv, Buffers, BufferOf

\* Rows that a commit does not touch.
LEMMA ApplyElsewhere ==
  ASSUME IInv, NEW c \in Call, Apply(c), NEW i \in Id, i \notin Ids[c]
  PROVE  idx'[i] = idx[i] /\ rows'[i] = rows[i] /\ idxTs'[i] = idxTs[i]
<1>1. /\ buf[c].idx[i] = Keep
      /\ \A m \in RowTime : buf[c].rows[i][m] = Keep
  BY SentBuffer DEF Apply
<1>2. rows[i] \in [RowTime -> Event \cup {None}]
  BY DEF IInv, TypeOK, Tables
<1>3. rows'[i] = [m \in RowTime |-> rows[i][m]]
  BY <1>1 DEF Apply
<1>4. QED
  BY <1>1, <1>2, <1>3 DEF Apply

\* The rows of an id after the commit of a call on it hold the outcome of
\* the call for the event as it was just before.
LEMMA ApplyHere ==
  ASSUME IInv, NEW c \in Call, Apply(c), NEW i \in Ids[c]
  PROVE  /\ idxTs'[i] = clock + 1
         /\ Current(i) \in Event \cup {None}
         /\ Kind[c] = "create" <=> Current(i) = None
         /\ LET e == Map!Outcome(c, Current(i))
            IN /\ e \in Event \cup {None}
               /\ e = None => /\ idx'[i] = None
                              /\ \A m \in RowTime : rows'[i][m] = None
               /\ e # None => /\ idx'[i] = Micro(e.start)
                              /\ \A m \in RowTime :
                                   rows'[i][m] = IF m = Micro(e.start) THEN e ELSE None
<1>1. i \in Id
  BY Requests
<1>2. /\ Pending(c) /\ Place(c) = "commit"
      /\ buf[c].idx[i] = IF Kind[c] = "delete" THEN None ELSE Micro(ev[c].start)
      /\ \A m \in RowTime :
           buf[c].rows[i][m] =
             IF Kind[c] # "delete" /\ m = Micro(ev[c].start) THEN ev[c]
             ELSE IF /\ Kind[c] = "delete" \/ (Kind[c] = "update" /\ KeyChanged(c))
                     /\ m = key[c] THEN None
             ELSE Keep
  BY <1>1, SentBuffer DEF Apply
<1>3. Kind[c] # "delete" => ev[c] \in Event
  BY <1>2, Requests DEF IInv, Locals, LocalsOf
<1>4. buf[c].idx[i] # Keep
  BY <1>2, <1>3, Markers
<1>5. idx'[i] = buf[c].idx[i] /\ idxTs'[i] = clock + 1
  BY <1>1, <1>4 DEF Apply
<1>6. idxTs[i] <= begun[c]
  BY <1>1, <1>4 DEF Apply, Conflict, IInv, TypeOK
<1>7. rows[i] = snap[c].rows[i] /\ idx[i] = snap[c].idx[i]
  BY <1>1, <1>6 DEF Apply, IInv, Snapshots, SnapshotOf
<1>8. \A m \in RowTime : rows'[i][m] = IF buf[c].rows[i][m] = Keep THEN rows[i][m]
                                       ELSE buf[c].rows[i][m]
  BY <1>1 DEF Apply
<1>9. /\ \A m \in RowTime :
           /\ rows[i][m] # None <=> idx[i] = m
           /\ rows[i][m] # None => Micro(rows[i][m].start) = m
           /\ rows[i][m] \in Event \cup {None}
      /\ idx[i] \in RowTime \cup {None}
  BY <1>1 DEF IInv, TablesAgree, TypeOK, Tables
<1>10. CASE Kind[c] = "create"
  <2>1. idx[i] = None /\ ev[c] = New[c] /\ Current(i) = None
    BY <1>2, <1>10 DEF IInv, Unmade, Locals, LocalsOf, Current, Apply
  <2>2. ASSUME NEW m \in RowTime PROVE rows[i][m] = None
    <3>1. idx[i] # m BY <2>1, Markers
    <3>2. QED BY <1>9, <3>1
  <2>3. Map!Outcome(c, Current(i)) = ev[c]
    BY <1>10, <2>1 DEF Map!Outcome
  <2>4. \A m \in RowTime : rows'[i][m] = IF m = Micro(ev[c].start) THEN ev[c] ELSE None
    BY <1>2, <1>3, <1>8, <1>10, <2>2, Markers
  <2>5. ev[c] \in Event /\ ev[c] # None
    BY <1>3, <1>10, Markers
  <2>6. QED
    BY <1>2, <1>5, <1>10, <2>1, <2>3, <2>4, <2>5
<1>11. ASSUME Kind[c] # "create"
       PROVE  /\ key[c] \in RowTime /\ idx[i] = key[c]
              /\ Current(i) = rows[i][key[c]] /\ Current(i) \in Event
              /\ \A m \in RowTime \ {key[c]} : rows[i][m] = None
  <2>1. key[c] \in RowTime /\ idx[i] = key[c]
    BY <1>2, <1>7, <1>11 DEF IInv, Locals, LocalsOf
  <2>2. rows[i][key[c]] # None /\ rows[i][key[c]] \in Event \cup {None}
    BY <1>9, <2>1
  <2>3. Current(i) = rows[i][key[c]]
    BY <2>1, Markers DEF Current
  <2>4. ASSUME NEW m \in RowTime \ {key[c]} PROVE rows[i][m] = None
    BY <1>9, <2>1
  <2>5. QED BY <2>1, <2>2, <2>3, <2>4
<1>12. CASE Kind[c] = "delete"
  <2>1. Map!Outcome(c, Current(i)) = None
    BY <1>12 DEF Map!Outcome
  <2>2. \A m \in RowTime : rows'[i][m] = None
    <3>1. ASSUME NEW m \in RowTime PROVE rows'[i][m] = None
      <4>1. CASE m = key[c]
        BY <1>2, <1>8, <1>12, <4>1, Markers
      <4>2. CASE m # key[c]
        BY <1>2, <1>8, <1>11, <1>12, <4>2, Markers
      <4>3. QED BY <4>1, <4>2
    <3>2. QED BY <3>1
  <2>3. QED
    BY <1>2, <1>5, <1>11, <1>12, <2>1, <2>2, Markers
<1>13. CASE Kind[c] = "update"
  <2>1. ev[c] = Updated(c, Current(i)) /\ ev[c] \in Event
    BY <1>2, <1>7, <1>11, <1>13 DEF IInv, Locals, LocalsOf
  <2>2. Map!Outcome(c, Current(i)) = ev[c]
    BY <1>13, <2>1 DEF Map!Outcome, Map!Updated, Updated
  <2>3. ~KeyChanged(c) => Micro(ev[c].start) = key[c]
    <3>1. ~KeyChanged(c) => ev[c].start = Current(i).start
      BY <2>1 DEF Updated, KeyChanged
    <3>2. Micro(Current(i).start) = key[c]
      BY <1>9, <1>11, <1>13, Markers
    <3>3. QED BY <3>1, <3>2
  <2>4. \A m \in RowTime : rows'[i][m] = IF m = Micro(ev[c].start) THEN ev[c] ELSE None
    BY <1>2, <1>8, <1>11, <1>13, <2>1, <2>3, Markers
  <2>5. QED
    BY <1>2, <1>5, <1>11, <1>13, <2>1, <2>2, <2>4, Markers
<1>14. QED
  BY <1>10, <1>12, <1>13, Requests

(***************************************************************************)
(* Every step keeps the invariant.                                         *)
(***************************************************************************)

\* The steps of one call.
CallStep(c) ==
  \/ Begin(c) \/ LookIdx(c) \/ LookRow(c) \/ DelRow(c) \/ InsRow(c)
  \/ InsIdx(c) \/ DelIdx(c) \/ RequestFails(c)
  \/ SendCommit(c) \/ Apply(c) \/ Refuse(c) \/ CommitAnswered(c)
  \/ CommitLost(c) \/ Put(c) \/ Acknowledge(c) \/ Cancel(c)

\* It leaves the other calls where they are.
LEMMA OtherCalls ==
  ASSUME TypeOK, NEW c \in Call, CallStep(c), NEW d \in Call \ {c},
         c \in Call
  PROVE  /\ pc'[d] = pc[d] /\ tx'[d] = tx[d] /\ key'[d] = key[d] /\ ev'[d] = ev[d]
         /\ snap'[d] = snap[d] /\ begun'[d] = begun[d] /\ buf'[d] = buf[d]
<1> USE DEF TypeOK, storeVars, txVars, callVars, memVars, Goto
<1>1. CASE Begin(c)
  BY <1>1 DEF Begin
<1>2. CASE LookIdx(c)
  BY <1>2 DEF LookIdx
<1>3. CASE LookRow(c)
  BY <1>3 DEF LookRow
<1>4. CASE DelRow(c)
  BY <1>4, DelRowBuffer DEF DelRow
<1>5. CASE InsRow(c)
  <2>1. buf'[d] = buf[d]
    BY <1>5 DEF InsRow
  <2>2. QED BY <1>5, <2>1 DEF InsRow
<1>6. CASE InsIdx(c)
  <2>1. buf'[d] = buf[d]
    BY <1>6 DEF InsIdx
  <2>2. QED BY <1>6, <2>1 DEF InsIdx
<1>7. CASE DelIdx(c)
  <2>1. buf'[d] = buf[d]
    BY <1>7 DEF DelIdx
  <2>2. QED BY <1>7, <2>1 DEF DelIdx
<1>8. CASE RequestFails(c) \/ SendCommit(c) \/ Apply(c) \/ Refuse(c)
  BY <1>8 DEF RequestFails, SendCommit, Apply, Refuse
<1>9. CASE CommitAnswered(c) \/ CommitLost(c) \/ Put(c) \/ Acknowledge(c) \/ Cancel(c)
  BY <1>9 DEF CommitAnswered, CommitLost, Put, Acknowledge, Cancel
<1>10. QED
  BY <1>1, <1>2, <1>3, <1>4, <1>5, <1>6, <1>7, <1>8, <1>9 DEF CallStep

\* Only a commit changes the tables.
LEMMA TablesKept ==
  ASSUME NEW c \in Call, CallStep(c), ~Apply(c)
  PROVE  UNCHANGED storeVars
  BY DEF CallStep, Begin, LookIdx, LookRow, DelRow, InsRow, InsIdx, DelIdx,
         RequestFails, SendCommit, Refuse, CommitAnswered, CommitLost, Put,
         Acknowledge, Cancel

LEMMA TablesStep ==
  ASSUME IInv, [Next]_vars
  PROVE  TablesAgree' /\ \A i \in Id : idxTs'[i] <= clock'
<1> USE DEF IInv
<1>1. CASE UNCHANGED storeVars
  BY <1>1 DEF storeVars, TablesAgree
<1>2. ASSUME NEW c \in Call, Apply(c)
      PROVE  TablesAgree' /\ \A i \in Id : idxTs'[i] <= clock'
  <2>1. ASSUME NEW i \in Id, NEW m \in RowTime
        PROVE  /\ rows'[i][m] # None <=> idx'[i] = m
               /\ rows'[i][m] # None => Micro(rows'[i][m].start) = m
    <3>1. CASE i \in Ids[c]
      BY <1>2, <3>1, ApplyHere, Markers
    <3>2. CASE i \notin Ids[c]
      BY <1>2, <3>2, ApplyElsewhere DEF TablesAgree
    <3>3. QED BY <3>1, <3>2
  <2>2. ASSUME NEW i \in Id PROVE idxTs'[i] <= clock'
    <3>1. clock' = clock + 1 /\ clock \in Nat
      BY <1>2 DEF Apply, TypeOK
    <3>2. CASE i \in Ids[c]
      BY <1>2, <3>1, <3>2, ApplyHere
    <3>3. CASE i \notin Ids[c]
      BY <1>2, <3>1, <3>3, ApplyElsewhere DEF TypeOK
    <3>4. QED BY <3>2, <3>3
  <2>3. QED BY <2>1, <2>2 DEF TablesAgree
<1>3. QED
  BY <1>1, <1>2, TablesKept DEF Next, CallStep, Crash, vars

LEMMA PhasesStep ==
  ASSUME IInv, [Next]_vars
  PROVE  Phases'
<1> USE DEF IInv, TypeOK, Phases, PhaseOf, Goto
<1>1. CASE UNCHANGED vars
  BY <1>1 DEF vars, txVars, callVars
<1>2. ASSUME NEW c \in Call, CallStep(c), NEW d \in Call PROVE PhaseOf(d)'
  <2>1. CASE d # c
    BY <1>2, <2>1, OtherCalls
  <2>2. CASE d = c
    <3>1. CASE Begin(c) \/ LookIdx(c) \/ LookRow(c)
      BY <2>2, <3>1 DEF Begin, LookIdx, LookRow, txVars
    <3>2. CASE DelRow(c) \/ InsRow(c) \/ InsIdx(c) \/ DelIdx(c)
      BY <2>2, <3>2 DEF DelRow, InsRow, InsIdx, DelIdx
    <3>3. CASE RequestFails(c) \/ SendCommit(c) \/ Apply(c) \/ Refuse(c)
      BY <2>2, <3>3 DEF RequestFails, SendCommit, Apply, Refuse, callVars
    <3>4. CASE \/ CommitAnswered(c) \/ CommitLost(c) \/ Put(c)
               \/ Acknowledge(c) \/ Cancel(c)
      BY <2>2, <3>4 DEF CommitAnswered, CommitLost, Put, Acknowledge, Cancel, txVars
    <3>5. QED
      BY <1>2, <3>1, <3>2, <3>3, <3>4 DEF CallStep
  <2>3. QED BY <2>1, <2>2
<1>3. CASE Crash
  BY <1>3 DEF Crash, txVars, Ended, Working
<1>4. QED
  BY <1>1, <1>2, <1>3 DEF Next, CallStep

\* A snapshot of rows that no commit has touched since stays current.
LEMMA SnapshotsStep ==
  ASSUME IInv, [Next]_vars
  PROVE  Snapshots'
<1> USE DEF IInv, Snapshots
<1>1. CASE UNCHANGED <<storeVars, txVars>>
  BY <1>1 DEF storeVars, txVars, SnapshotOf, Agree
<1>2. ASSUME NEW c \in Call, Begin(c) PROVE Snapshots'
  <2>1. Agree(snap[c])' /\ begun'[c] = clock /\ snap'[c] = Now /\ UNCHANGED storeVars
    BY <1>2 DEF Begin, Agree, TablesAgree, TypeOK, Now
  <2>2. SnapshotOf(c)'
    BY <2>1 DEF SnapshotOf, Now, storeVars, TypeOK
  <2>3. ASSUME NEW d \in Call \ {c} PROVE SnapshotOf(d)'
    BY <1>2, <2>1, <2>3, OtherCalls DEF CallStep, SnapshotOf, Agree, storeVars
  <2>4. QED BY <2>2, <2>3
<1>3. ASSUME NEW c \in Call, Apply(c) PROVE Snapshots'
  <2>1. clock' = clock + 1 /\ clock \in Nat /\ tx'[c] = "committed"
    BY <1>3 DEF Apply, TypeOK
  <2>2. SnapshotOf(c)'
    BY <2>1 DEF SnapshotOf
  <2>3. ASSUME NEW d \in Call \ {c} PROVE SnapshotOf(d)'
    <3>1. /\ tx'[d] = tx[d] /\ snap'[d] = snap[d] /\ begun'[d] = begun[d]
          /\ begun[d] \in Nat
      BY <1>3, OtherCalls DEF CallStep, TypeOK
    <3>2. ASSUME NEW i \in Id, tx[d] \in {"open", "sent"}, idxTs'[i] <= begun[d]
          PROVE  rows'[i] = snap[d].rows[i] /\ idx'[i] = snap[d].idx[i]
      <4>1. begun[d] <= clock
        BY <3>2 DEF SnapshotOf
      <4>2. i \notin Ids[c]
        BY <1>3, <2>1, <3>1, <3>2, <4>1, ApplyHere
      <4>3. QED
        BY <1>3, <3>2, <4>2, ApplyElsewhere DEF SnapshotOf
    <3>3. QED
      BY <2>1, <3>1, <3>2 DEF SnapshotOf, Agree
  <2>4. QED BY <2>2, <2>3
<1>4. ASSUME NEW c \in Call,
             \/ DelRow(c) \/ InsRow(c) \/ InsIdx(c) \/ DelIdx(c)
             \/ RequestFails(c) \/ SendCommit(c) \/ Refuse(c)
      PROVE  Snapshots'
  <2>1. UNCHANGED <<storeVars, snap, begun>>
    BY <1>4 DEF DelRow, InsRow, InsIdx, DelIdx, RequestFails, SendCommit, Refuse
  <2>2. \A d \in Call : tx'[d] \in {"open", "sent"} => tx[d] \in {"open", "sent"}
    BY <1>4 DEF DelRow, InsRow, InsIdx, DelIdx, RequestFails, SendCommit, Refuse,
                Phases, PhaseOf, TypeOK
  <2>3. QED
    BY <2>1, <2>2 DEF SnapshotOf, Agree, storeVars
<1>5. QED
  BY <1>1, <1>2, <1>3, <1>4
  DEF Next, LookIdx, LookRow, CommitAnswered, CommitLost, Put, Acknowledge,
      Cancel, Crash, vars

\* The local variables follow the code.
LEMMA LocalsStep ==
  ASSUME IInv, [Next]_vars
  PROVE  Locals'
<1> USE DEF IInv, Locals
<1>1. CASE UNCHANGED vars
  BY <1>1 DEF vars, txVars, callVars, LocalsOf, Pending, Place
<1>2. ASSUME NEW c \in Call, CallStep(c), NEW d \in Call PROVE LocalsOf(d)'
  <2>1. CASE d # c
    BY <1>2, <2>1, OtherCalls DEF LocalsOf, Pending, Place
  <2>2. CASE d = c
    <3>phase. PhaseOf(c) /\ LocalsOf(c)
      BY DEF Phases
    <3>1. CASE Begin(c)
      <4>1. /\ tx'[c] = "open" /\ pc'[c] = IF Kind[c] = "create" THEN "insIdx" ELSE "lookIdx"
            /\ Kind[c] = "create" => ev'[c] = New[c]
        BY <3>1 DEF Begin, Goto, TypeOK
      <4>2. QED BY <2>2, <4>1, Requests DEF LocalsOf, Pending, Place
    <3>2. CASE LookIdx(c)
      <4>1. PICK i \in Ids[c] :
              IF snap[c].idx[i] = None
              THEN Goto(c, "failed") /\ UNCHANGED key
              ELSE /\ Goto(c, IF Kind[c] = "update" THEN "lookRow" ELSE "delRow")
                   /\ key' = [key EXCEPT ![c] = snap[c].idx[i]]
        BY <3>2 DEF LookIdx
      <4>2. tx[c] = "open" /\ UNCHANGED <<tx, snap, ev>>
        BY <3>2, <3>phase DEF LookIdx, PhaseOf, txVars
      <4>3. Kind[c] # "create" /\ Ids[c] = {i} /\ i \in Id
        BY <3>2, <3>phase, <4>2, Requests DEF LookIdx, LocalsOf, Pending, Place
      <4>4. snap[c].idx[i] \in RowTime \cup {None}
        BY <4>3 DEF TypeOK, Tables
      <4>5. CASE snap[c].idx[i] = None
        BY <2>2, <4>1, <4>2, <4>5 DEF LocalsOf, Pending, Place, Goto, TypeOK
      <4>6. CASE snap[c].idx[i] # None
        <5>1. /\ pc'[c] = IF Kind[c] = "update" THEN "lookRow" ELSE "delRow"
              /\ key'[c] = snap[c].idx[i] /\ key'[c] \in RowTime
          BY <4>1, <4>4, <4>6 DEF Goto, TypeOK
        <5>2. QED
          BY <2>2, <4>2, <4>3, <5>1, Requests DEF LocalsOf, Pending, Place
      <4>7. QED BY <4>5, <4>6
    <3>3. CASE LookRow(c)
      <4>1. PICK i \in Ids[c] :
              IF snap[c].rows[i][key[c]] = None
              THEN Goto(c, "failed") /\ UNCHANGED ev
              ELSE /\ Goto(c, IF KeyChanged(c) THEN "delRow" ELSE "insRow")
                   /\ ev' = [ev EXCEPT ![c] = Updated(c, snap[c].rows[i][key[c]])]
        BY <3>3 DEF LookRow
      <4>2. tx[c] = "open" /\ UNCHANGED <<tx, snap, key>>
        BY <3>3, <3>phase DEF LookRow, PhaseOf, txVars
      <4>3. /\ Kind[c] = "update" /\ key[c] \in RowTime /\ key[c] = snap[c].idx[i]
            /\ Ids[c] = {i} /\ i \in Id
        BY <3>3, <3>phase, <4>2, Requests DEF LookRow, LocalsOf, Pending, Place
      <4>4. snap[c].rows[i][key[c]] \in Event \cup {None}
        BY <4>3 DEF TypeOK, Tables
      <4>5. CASE snap[c].rows[i][key[c]] = None
        BY <2>2, <4>1, <4>2, <4>5 DEF LocalsOf, Pending, Place, Goto, TypeOK
      <4>6. CASE snap[c].rows[i][key[c]] # None
        <5>1. /\ pc'[c] = IF KeyChanged(c) THEN "delRow" ELSE "insRow"
              /\ ev'[c] = Updated(c, snap[c].rows[i][key[c]]) /\ ev'[c] \in Event
          BY <4>1, <4>4, <4>6, UpdatedType DEF Goto, TypeOK
        <5>2. QED
          BY <2>2, <4>2, <4>3, <5>1 DEF LocalsOf, Pending, Place
      <4>7. QED BY <4>5, <4>6
    <3>4. CASE DelRow(c) \/ InsRow(c) \/ InsIdx(c) \/ DelIdx(c)
      <4>1. UNCHANGED <<tx, snap, key, ev>> /\ tx[c] = "open" /\ Place(c) = pc[c] /\ Pending(c)
        BY <3>4, <3>phase
        DEF DelRow, InsRow, InsIdx, DelIdx, PhaseOf, Pending, Place
      <4>2. \/ /\ pc[c] = "delRow"
               /\ pc'[c] = IF Kind[c] = "update" THEN "insRow" ELSE "delIdx"
            \/ /\ pc[c] = "insRow"
               /\ pc'[c] = IF Kind[c] = "update" THEN "insIdx" ELSE "commit"
            \/ /\ pc[c] = "insIdx"
               /\ pc'[c] = IF Kind[c] = "update" THEN "commit" ELSE "insRow"
            \/ /\ pc[c] = "delIdx" /\ pc'[c] = "commit"
        BY <3>4 DEF DelRow, InsRow, InsIdx, DelIdx, Goto, TypeOK
      <4>3. Place(c)' = pc'[c]
        BY <4>1 DEF Place
      <4>4. QED
        BY <2>2, <3>phase, <4>1, <4>2, <4>3, Requests DEF LocalsOf
    <3>5. CASE RequestFails(c) \/ CommitAnswered(c) \/ Put(c) \/ Acknowledge(c) \/ Apply(c) \/ Refuse(c)
      <4>1. ~Pending(c)'
        BY <3>5, <3>phase
        DEF RequestFails, CommitAnswered, Put, Acknowledge, Apply, Refuse,
            PhaseOf, Goto, TypeOK, Pending, Place, txVars, callVars
      <4>2. QED BY <2>2, <4>1 DEF LocalsOf
    <3>6. CASE SendCommit(c) \/ CommitLost(c) \/ Cancel(c)
      <4>1. /\ UNCHANGED <<snap, key, ev>>
            /\ Pending(c)' => Pending(c) /\ Place(c)' = Place(c)
        BY <3>6, <3>phase
        DEF SendCommit, CommitLost, Cancel, PhaseOf, Goto, TypeOK, Pending, Place, txVars
      <4>2. QED BY <2>2, <3>phase, <4>1 DEF LocalsOf
    <3>7. QED
      BY <1>2, <3>1, <3>2, <3>3, <3>4, <3>5, <3>6 DEF CallStep
  <2>3. QED BY <2>1, <2>2
<1>3. CASE Crash
  <2>1. ASSUME NEW d \in Call PROVE LocalsOf(d)'
    <3>1. /\ UNCHANGED <<tx, snap, key, ev>>
          /\ Pending(d)' => Pending(d) /\ Place(d)' = Place(d)
      BY <1>3 DEF Crash, txVars, Pending, Place, Phases, PhaseOf, TypeOK, Ended
    <3>2. QED BY <3>1 DEF LocalsOf
  <2>2. QED BY <2>1
<1>4. QED
  BY <1>1, <1>2, <1>3 DEF Next, CallStep

\* Only updates that change the key and deletes delete rows.
LEMMA DelRowKind ==
  ASSUME NEW c \in Call, LocalsOf(c), Pending(c), Place(c) = "delRow"
  PROVE  Kind[c] = "delete" \/ KeyChanged(c)
  BY Requests DEF LocalsOf

\* The buffers follow the code, request by request.
LEMMA BuffersStep ==
  ASSUME IInv, [Next]_vars
  PROVE  Buffers'
<1> USE DEF IInv, Buffers
<1>1. CASE UNCHANGED vars
  BY <1>1 DEF vars, txVars, callVars, BufferOf, Pending, Place, Indexed, Inserted, Deleted
<1>2. ASSUME NEW c \in Call, CallStep(c), NEW d \in Call PROVE BufferOf(d)'
  <2>1. CASE d # c
    BY <1>2, <2>1, OtherCalls DEF BufferOf, Pending, Place, Indexed, Inserted, Deleted
  <2>2. CASE d = c
    <3>phase. PhaseOf(c) /\ LocalsOf(c) /\ BufferOf(c)
      BY DEF Phases, Locals
    <3>1. CASE Begin(c)
      <4>1. /\ tx'[c] = "open" /\ pc'[c] = IF Kind[c] = "create" THEN "insIdx" ELSE "lookIdx"
            /\ buf'[c] = Untouched
        BY <3>1, <3>phase DEF Begin, Goto, TypeOK, BufferOf
      <4>2. \A i \in Id : buf'[c].idx[i] = Keep /\ \A m \in RowTime : buf'[c].rows[i][m] = Keep
        BY <4>1 DEF Untouched
      <4>3. pc'[c] # "begin" /\ ~Indexed(c)' /\ ~Inserted(c)' /\ ~Deleted(c)'
        BY <4>1 DEF Indexed, Inserted, Deleted, Place
      <4>4. QED
        BY <2>2, <4>2, <4>3 DEF BufferOf
    <3>2. CASE LookIdx(c) \/ LookRow(c)
      <4>1. /\ tx[c] = "open" /\ UNCHANGED <<tx, buf>>
            /\ pc[c] \in {"lookIdx", "lookRow"}
        BY <3>2, <3>phase DEF LookIdx, LookRow, PhaseOf, txVars
      <4>2. \A i \in Id : buf[c].idx[i] = Keep /\ \A m \in RowTime : buf[c].rows[i][m] = Keep
        BY <3>phase, <4>1 DEF BufferOf, Pending, Place, Indexed, Inserted, Deleted
      <4>3. /\ pc'[c] \in {"lookRow", "delRow", "insRow", "failed"}
            /\ pc'[c] = "insRow" => Kind[c] # "create" /\ ~KeyChanged(c)
        BY <3>2, <3>phase, <4>1, Requests
        DEF LookIdx, LookRow, Goto, TypeOK, LocalsOf, Pending, Place
      <4>4. pc'[c] # "begin" /\ (Pending(c)' => ~Indexed(c)' /\ ~Inserted(c)' /\ ~Deleted(c)')
        <5>1. Place(c)' = pc'[c]
          BY <4>1 DEF Place
        <5>2. QED BY <3>phase, <4>1, <4>3, <5>1
                  DEF Indexed, Inserted, Deleted, LocalsOf, Pending, Place
      <4>5. QED
        BY <2>2, <4>1, <4>2, <4>4 DEF BufferOf
    <3>3. CASE DelRow(c)
      <4>1. /\ pc[c] = "delRow" /\ tx[c] = "open" /\ UNCHANGED <<tx, key, ev>>
            /\ pc'[c] = IF Kind[c] = "update" THEN "insRow" ELSE "delIdx"
        BY <3>3, <3>phase DEF DelRow, PhaseOf, Goto, TypeOK
      <4>2. /\ Kind[c] \in {"update", "delete"} /\ Pending(c) /\ Place(c) = "delRow"
            /\ Place(c)' = pc'[c] /\ pc'[c] # "begin"
        BY <3>phase, <4>1, Requests DEF LocalsOf, Pending, Place
      <4>3. /\ ~Indexed(c) /\ ~Inserted(c) /\ ~Deleted(c)
            /\ ~Indexed(c)' /\ ~Inserted(c)'
            /\ Kind[c] = "delete" \/ KeyChanged(c) => Deleted(c)'
        BY <4>1, <4>2 DEF Indexed, Inserted, Deleted
      <4>4. Deleted(c)'
        BY <3>phase, <4>2, <4>3, DelRowKind
      <4>5. QED
        BY <2>2, <3>3, <3>phase, <4>1, <4>2, <4>3, <4>4, DelRowBuffer DEF BufferOf
    <3>4. CASE InsRow(c)
      <4>1. /\ pc[c] = "insRow" /\ tx[c] = "open" /\ UNCHANGED <<tx, key, ev>>
            /\ pc'[c] = IF Kind[c] = "update" THEN "insIdx" ELSE "commit"
            /\ ev[c] \in Event
        BY <3>4, <3>phase, AtPlace DEF InsRow, PhaseOf, Goto, TypeOK
      <4>2. /\ Kind[c] \in {"update", "create"} /\ Pending(c) /\ Place(c) = "insRow"
            /\ Place(c)' = pc'[c] /\ pc'[c] # "begin"
        BY <3>phase, <4>1, Requests DEF LocalsOf, Pending, Place
      <4>3. /\ ~Inserted(c) /\ Inserted(c)'
            /\ Indexed(c)' = Indexed(c) /\ Deleted(c)' = Deleted(c)
        BY <4>1, <4>2 DEF Indexed, Inserted, Deleted, KeyChanged
      <4>4. QED
        BY <2>2, <3>4, <3>phase, <4>1, <4>2, <4>3, InsRowBuffer DEF BufferOf
    <3>5. CASE InsIdx(c) \/ DelIdx(c)
      <4> DEFINE v == IF Kind[c] = "delete" THEN None ELSE Micro(ev[c].start)
      <4>1. /\ pc[c] \in {"insIdx", "delIdx"} /\ tx[c] = "open" /\ UNCHANGED <<tx, key, ev>>
            /\ pc'[c] = IF Kind[c] = "create" THEN "insRow" ELSE "commit"
        BY <3>5, <3>phase, Requests DEF InsIdx, DelIdx, PhaseOf, Goto, TypeOK, LocalsOf, Pending, Place
      <4>2. /\ Pending(c) /\ Place(c) = pc[c]
            /\ Kind[c] = "delete" <=> DelIdx(c)
            /\ Place(c)' = pc'[c] /\ pc'[c] # "begin"
        <5>1. Pending(c) /\ Place(c) = pc[c] /\ Place(c)' = pc'[c] /\ pc'[c] # "begin"
          BY <4>1 DEF Pending, Place
        <5>2. CASE InsIdx(c)
          <6>1. pc[c] = "insIdx" BY <5>2 DEF InsIdx
          <6>2. QED BY <3>phase, <5>1, <6>1 DEF LocalsOf, DelIdx
        <5>3. CASE DelIdx(c)
          <6>1. pc[c] = "delIdx" BY <5>3 DEF DelIdx
          <6>2. Kind[c] = "delete" BY <3>phase, <5>1, <6>1, Requests DEF LocalsOf
          <6>3. QED BY <5>1, <5>3, <6>2
        <5>4. QED BY <3>5, <5>2, <5>3
      <4>3. /\ ~Indexed(c) /\ Indexed(c)'
            /\ Inserted(c)' <=> Inserted(c)
            /\ Deleted(c)' <=> Deleted(c)
        <5>1. CASE Kind[c] = "create"
          BY <3>phase, <4>1, <4>2, <5>1 DEF Indexed, Inserted, Deleted, LocalsOf
        <5>2. CASE Kind[c] = "update"
          <6>1. pc[c] = "insIdx" BY <3>phase, <4>1, <4>2, <5>2 DEF LocalsOf
          <6>2. QED BY <4>1, <4>2, <5>2, <6>1 DEF Indexed, Inserted, Deleted, KeyChanged
        <5>3. CASE Kind[c] = "delete"
          <6>1. pc[c] = "delIdx" BY <3>phase, <4>1, <4>2, <5>3 DEF LocalsOf
          <6>2. QED BY <4>1, <4>2, <5>3, <6>1 DEF Indexed, Inserted, Deleted
        <5>4. QED BY <5>1, <5>2, <5>3, Requests
      <4>4. v \in RowTime \cup {None}
        <5>1. Kind[c] # "delete" => pc[c] = "insIdx"
          BY <3>5, <4>2 DEF InsIdx
        <5>2. QED BY <4>1, <5>1, AtPlace, Markers
      <4>5. buf' = [buf EXCEPT ![c].idx = [i \in Id |-> IF i \in Ids[c] THEN v ELSE @[i]]]
        BY <3>5, <4>2 DEF InsIdx, DelIdx
      <4> HIDE DEF v
      <4>6. /\ buf'[c].rows = buf[c].rows
            /\ \A i \in Id : buf'[c].idx[i] = IF i \in Ids[c] THEN v ELSE buf[c].idx[i]
        BY <4>4, <4>5, IdxBuffer
      <4>7. \A i \in Id : /\ buf[c].idx[i] = Keep
                          /\ \A m \in RowTime : buf[c].rows[i][m] =
                               IF i \in Ids[c] /\ Inserted(c) /\ m = Micro(ev[c].start) THEN ev[c]
                               ELSE IF i \in Ids[c] /\ Deleted(c) /\ m = key[c] THEN None
                               ELSE Keep
        BY <3>phase, <4>2, <4>3 DEF BufferOf
      <4>8. QED
        BY <2>2, <4>1, <4>2, <4>3, <4>6, <4>7 DEF BufferOf, v
    <3>6. CASE RequestFails(c) \/ CommitAnswered(c) \/ Put(c) \/ Acknowledge(c) \/ Apply(c) \/ Refuse(c)
      <4>1. ~Pending(c)' /\ pc'[c] # "begin"
        BY <3>6, <3>phase
        DEF RequestFails, CommitAnswered, Put, Acknowledge, Apply, Refuse,
            PhaseOf, Goto, TypeOK, Pending, Place, txVars, callVars
      <4>2. QED BY <2>2, <4>1 DEF BufferOf
    <3>7. CASE SendCommit(c) \/ CommitLost(c) \/ Cancel(c)
      <4>1. /\ UNCHANGED <<buf, key, ev>> /\ pc'[c] # "begin"
            /\ Pending(c)' => Pending(c) /\ Place(c)' = Place(c)
        BY <3>7, <3>phase
        DEF SendCommit, CommitLost, Cancel, PhaseOf, Goto, TypeOK, Pending, Place, txVars
      <4>2. QED
        BY <2>2, <3>phase, <4>1 DEF BufferOf, Indexed, Inserted, Deleted
    <3>8. QED
      BY <1>2, <3>1, <3>2, <3>3, <3>4, <3>5, <3>6, <3>7 DEF CallStep
  <2>3. QED BY <2>1, <2>2
<1>3. CASE Crash
  <2>1. ASSUME NEW d \in Call PROVE BufferOf(d)'
    <3>1. /\ UNCHANGED <<tx, buf, key, ev>> /\ (pc'[d] = "begin" => pc[d] = "begin")
          /\ Pending(d)' => Pending(d) /\ Place(d)' = Place(d)
      BY <1>3 DEF Crash, txVars, Pending, Place, Phases, PhaseOf, TypeOK, Ended
    <3>2. QED BY <3>1 DEF BufferOf, Indexed, Inserted, Deleted
  <2>2. QED BY <2>1
<1>4. QED
  BY <1>1, <1>2, <1>3 DEF Next, CallStep

LEMMA PreparedStep ==
  ASSUME IInv, [Next]_vars
  PROVE  Prepared'
<1> USE DEF IInv, Prepared
<1>1. CASE UNCHANGED vars
  BY <1>1 DEF vars, callVars, PreparedOf
<1>2. ASSUME NEW c \in Call, CallStep(c), NEW d \in Call PROVE PreparedOf(d)'
  <2>1. CASE d # c
    BY <1>2, <2>1, OtherCalls DEF PreparedOf
  <2>2. CASE d = c
    <3>1. CASE \/ Begin(c) \/ LookIdx(c) \/ LookRow(c) \/ RequestFails(c) \/ DelRow(c)
               \/ CommitLost(c) \/ Put(c) \/ Acknowledge(c) \/ Cancel(c)
      <4>1. pc'[c] \notin {"commit", "committing", "handoff"}
        BY <3>1 DEF Begin, LookIdx, LookRow, RequestFails, DelRow, CommitLost, Put,
                    Acknowledge, Cancel, Goto, TypeOK
      <4>2. QED BY <2>2, <4>1 DEF PreparedOf
    <3>2. CASE SendCommit(c) \/ CommitAnswered(c) \/ Apply(c) \/ Refuse(c)
      BY <2>2, <3>2 DEF SendCommit, CommitAnswered, Apply, Refuse, Goto, TypeOK,
                        PreparedOf, callVars
    <3>3. CASE InsRow(c) \/ InsIdx(c) \/ DelIdx(c)
      <4>1. Pending(c) /\ Place(c) = pc[c] /\ UNCHANGED <<key, ev>>
        BY <3>3 DEF InsRow, InsIdx, DelIdx, Phases, PhaseOf, Pending, Place
      <4>2. /\ Kind[c] # "create" => key[c] \in RowTime
            /\ Kind[c] # "delete" => ev[c] \in Event
        <5>1. LocalsOf(c) /\ pc[c] \in {"insRow", "insIdx", "delIdx"}
          BY <3>3 DEF Locals, InsRow, InsIdx, DelIdx
        <5>2. QED BY <4>1, <5>1, Requests, AtPlace DEF LocalsOf
      <4>3. QED BY <2>2, <4>1, <4>2 DEF PreparedOf
    <3>4. QED
      BY <1>2, <3>1, <3>2, <3>3 DEF CallStep
  <2>3. QED BY <2>1, <2>2
<1>3. CASE Crash
  BY <1>3 DEF Crash, PreparedOf, TypeOK, Ended
<1>4. QED
  BY <1>1, <1>2, <1>3 DEF Next, CallStep

\* A call can only change ids that exist, so those still to be made stay free.
LEMMA UnmadeStep ==
  ASSUME IInv, [Next]_vars
  PROVE  Unmade'
<1> USE DEF IInv, Unmade
<1>1. ASSUME NEW c \in Call, Apply(c) PROVE Unmade'
  <2>1. ASSUME NEW d \in Call, Kind[d] = "create", tx'[d] # "committed", NEW i \in Ids[d]
        PROVE  idx'[i] = None
    <3>1. d # c /\ tx'[d] = tx[d]
      BY <1>1, <2>1 DEF Apply, TypeOK
    <3>2. i \in Id /\ idx[i] = None /\ Current(i) = None
      BY <2>1, <3>1, Requests DEF Current
    <3>3. i \notin Ids[c]
      <4>1. CASE Kind[c] = "create"
        BY <2>1, <3>1, <4>1, FreshAssumption
      <4>2. CASE Kind[c] # "create"
        BY <1>1, <3>2, <4>2, ApplyHere
      <4>3. QED BY <4>1, <4>2
    <3>4. QED BY <1>1, <3>2, <3>3, ApplyElsewhere
  <2>2. QED BY <2>1
<1>2. CASE UNCHANGED <<idx, tx>>
  BY <1>2
<1>3. ASSUME NEW c \in Call, CallStep(c), ~Apply(c) PROVE Unmade'
  <2>1. UNCHANGED idx
    BY <1>3, TablesKept DEF storeVars
  <2>2. \A d \in Call : tx'[d] # "committed" => tx[d] # "committed"
    BY <1>3 DEF CallStep, Begin, LookIdx, LookRow, DelRow, InsRow, InsIdx, DelIdx,
                RequestFails, SendCommit, Refuse, CommitAnswered, CommitLost, Put,
                Acknowledge, Cancel, txVars, TypeOK, Phases, PhaseOf
  <2>3. QED BY <2>1, <2>2
<1>4. QED
  BY <1>1, <1>2, <1>3 DEF Next, CallStep, Crash, vars, storeVars, txVars

LEMMA InitInv == Init => IInv
<1> SUFFICES ASSUME Init PROVE IInv
  OBVIOUS
<1>1. TypeOK
  BY InitType
<1>2. TablesAgree
  <2>1. ASSUME NEW i \in Id, NEW m \in RowTime
        PROVE  /\ rows[i][m] # None <=> idx[i] = m
               /\ rows[i][m] # None => Micro(rows[i][m].start) = m
    <3>1. /\ rows[i][m] = IF Stored[i] # None /\ m = Micro(Stored[i].start)
                          THEN Stored[i] ELSE None
          /\ idx[i] = IF Stored[i] = None THEN None ELSE Micro(Stored[i].start)
      BY DEF Init
    <3>2. m # None
      BY Markers
    <3>3. QED BY <3>1, <3>2
  <2>2. QED BY <2>1 DEF TablesAgree
<1>3. \A c \in Call : pc[c] = "begin" /\ tx[c] = "none" /\ ~Pending(c) /\ buf[c] = Untouched
  BY DEF Init, Pending, Place
<1>4. Phases /\ Snapshots /\ Locals /\ Buffers /\ Prepared
  BY <1>3 DEF Phases, PhaseOf, Snapshots, SnapshotOf, Locals, LocalsOf, Buffers, BufferOf,
              Prepared, PreparedOf
<1>5. Unmade
  BY Requests, FreshAssumption DEF Init, Unmade
<1>6. QED
  BY <1>1, <1>2, <1>4, <1>5 DEF IInv, Init

THEOREM Invariant == Spec => []IInv
<1>1. IInv /\ [Next]_vars => IInv'
  BY StepType, TablesStep, PhasesStep, SnapshotsStep, LocalsStep, BuffersStep,
     PreparedStep, UnmadeStep DEF IInv
<1>2. QED
  BY <1>1, InitInv, PTL DEF Spec

\* The tables, transactions, calls and items have their types.
THEOREM TypeCorrect == Spec => []TypeOK
<1>1. IInv => TypeOK
  BY DEF IInv
<1>2. QED BY <1>1, Invariant, PTL

\* The two tables agree after every commit, whatever calls overlap, fail or are
\* applied late (storage.go:207-640).
THEOREM TablesAlwaysAgree == Spec => []TablesAgree
<1>1. IInv => TablesAgree
  BY DEF IInv
<1>2. QED BY <1>1, Invariant, PTL

(***************************************************************************)
(* Every call is one step of EventMap, or none.                            *)
(***************************************************************************)

Heard(c) == IF pc[c] \in Ended THEN pc[c] ELSE "none"
Taken == {c \in Call : tx[c] = "committed"}

\* Calls that end, with their answers, are an Answer step.
LEMMA AnswerStep ==
  ASSUME IInv, UNCHANGED <<rows, idx>>, Taken' = Taken,
         \A c \in Call : \/ Heard(c)' = Heard(c)
                       \/ /\ Heard(c) = "none" /\ Heard(c)' \in Ended
                          /\ Heard(c)' = "ok" => c \in Taken
                          /\ Heard(c)' = "failed" => c \notin Taken
  PROVE  Map!Answer
<1> DEFINE S == {c \in Call : Heard(c)' # Heard(c)}
           a == [c \in Call |-> IF c \in S THEN Heard(c)' ELSE "ok"]
<1>1. a \in [Call -> {"ok", "failed", "unsure"}] /\ S \in SUBSET Call
  BY DEF Ended
<1>2. /\ \A c \in S : Heard(c) = "none"
      /\ \A c \in S : a[c] = "ok" => c \in Taken
      /\ \A c \in S : a[c] = "failed" => c \notin Taken
  OBVIOUS
<1>3. [c \in Call |-> Heard(c)]' = [c \in Call |-> IF c \in S THEN a[c] ELSE [d \in Call |-> Heard(d)][c]]
  OBVIOUS
<1>4. [i \in Id |-> Current(i)]' = [i \in Id |-> Current(i)]
  BY DEF Current
<1>5. /\ \A c \in S : [d \in Call |-> Heard(d)][c] = "none"
      /\ S \subseteq Call
  BY <1>1, <1>2
<1> HIDE DEF S, a
<1>6. QED
  BY <1>1, <1>2, <1>3, <1>4, <1>5 DEF Map!Answer, Heard, Taken

\* A commit takes effect on the events of the map at once.
LEMMA TakeStep ==
  ASSUME IInv, NEW c \in Call, Apply(c)
  PROVE  Map!Take(c)
<1> DEFINE events == [i \in Id |-> Current(i)]
<1>1. c \notin Taken /\ Heard(c) \in {"none", "unsure"}
  BY DEF Apply, IInv, Phases, PhaseOf, Heard, Taken, Ended
<1>2. \A i \in Ids[c] : Kind[c] = "create" <=> events[i] = None
  BY ApplyHere, Requests
<1>3. ASSUME NEW i \in Id
      PROVE  Current(i)' = IF i \in Ids[c] THEN Map!Outcome(c, Current(i)) ELSE Current(i)
  <2>1. CASE i \in Ids[c]
    <3> DEFINE e == Map!Outcome(c, Current(i))
    <3>1. /\ e \in Event \cup {None}
          /\ e = None => idx'[i] = None
          /\ e # None => /\ idx'[i] = Micro(e.start)
                         /\ \A m \in RowTime :
                              rows'[i][m] = IF m = Micro(e.start) THEN e ELSE None
      BY <2>1, ApplyHere
    <3> HIDE DEF e
    <3>2. Current(i)' = e
      <4>1. CASE e = None
        BY <3>1, <4>1 DEF Current
      <4>2. CASE e # None
        <5>1. Micro(e.start) \in RowTime /\ Micro(e.start) # None
          BY <3>1, <4>2, Markers
        <5>2. QED BY <3>1, <4>2, <5>1 DEF Current
      <4>3. QED BY <4>1, <4>2
    <3>3. QED BY <2>1, <3>2 DEF e
  <2>2. CASE i \notin Ids[c]
    BY <2>2, ApplyElsewhere DEF Current
  <2>3. QED BY <2>1, <2>2
<1>4. Taken' = Taken \cup {c} /\ UNCHANGED pc
  BY DEF Apply, Taken, IInv, TypeOK, callVars
<1>5. events' = [i \in Id |-> IF i \in Ids[c] THEN Map!Outcome(c, events[i]) ELSE events[i]]
  BY <1>3
<1>6. [d \in Call |-> Heard(d)]' = [d \in Call |-> Heard(d)]
  BY <1>4 DEF Heard
<1>7. [d \in Call |-> Heard(d)][c] \in {"none", "unsure"}
  BY <1>1
<1> HIDE DEF events
<1>8. QED
  BY <1>1, <1>2, <1>4, <1>5, <1>6, <1>7 DEF Map!Take, Taken, Heard, events

\* Calls are atomic: EventService implements EventMap, so no update is lost,
\* no call takes effect twice, none after it was refused, and every call that
\* succeeds has taken effect before (storage.go:207-283, 442-640).
THEOREM Implementation == Spec => AtomicEvents
<1>1. Init => Map!Init
  <2>1. ASSUME Init PROVE [i \in Id |-> Current(i)] = Stored
    <3>1. ASSUME NEW i \in Id PROVE Current(i) = Stored[i]
      <4>1. CASE Stored[i] = None
        BY <2>1, <4>1 DEF Init, Current
      <4>2. CASE Stored[i] # None
        <5>1. Stored[i] \in Event
          BY <4>2, RequestAssumption
        <5>2. Micro(Stored[i].start) \in RowTime /\ Micro(Stored[i].start) # None
          BY <5>1, Markers
        <5>3. QED BY <2>1, <4>2, <5>2 DEF Init, Current
      <4>3. QED BY <4>1, <4>2
    <3>2. QED BY <3>1, RequestAssumption
  <2>2. ASSUME Init
        PROVE  /\ {c \in Call : tx[c] = "committed"} = {}
               /\ [c \in Call |-> IF pc[c] \in Ended THEN pc[c] ELSE "none"] = [c \in Call |-> "none"]
    BY <2>2 DEF Init, Ended
  <2>3. QED BY <2>1, <2>2 DEF Map!Init
<1>2. ASSUME IInv, [Next]_vars PROVE [Map!Next]_(Map!vars)
  <2>1. ASSUME NEW c \in Call, Apply(c) PROVE Map!Next
    BY <1>2, <2>1, TakeStep DEF Map!Next
  <2>2. ASSUME NEW c \in Call, CallStep(c), ~Apply(c) PROVE Map!Answer
    <3>1. UNCHANGED <<rows, idx>> /\ PhaseOf(c) /\ TypeOK
      BY <1>2, <2>2, TablesKept DEF storeVars, IInv, Phases
    <3>2. \A d \in Call \ {c} : Heard(d)' = Heard(d)
      BY <2>2, <3>1, OtherCalls DEF Heard
    <3>3. Taken' = Taken
      <4>1. \A d \in Call : tx'[d] = "committed" <=> tx[d] = "committed"
        BY <2>2, <3>1 DEF CallStep, Begin, LookIdx, LookRow, DelRow, InsRow, InsIdx,
           DelIdx, RequestFails, SendCommit, Refuse, CommitAnswered, CommitLost, Put,
           Acknowledge, Cancel, txVars, TypeOK, PhaseOf
      <4>2. QED BY <4>1 DEF Taken
    <3>4. \/ Heard(c)' = Heard(c)
          \/ /\ Heard(c) = "none" /\ Heard(c)' \in Ended
             /\ Heard(c)' = "ok" => c \in Taken
             /\ Heard(c)' = "failed" => c \notin Taken
      <4>1. CASE \/ Begin(c) \/ LookIdx(c) \/ LookRow(c) \/ DelRow(c) \/ InsRow(c)
                 \/ InsIdx(c) \/ DelIdx(c) \/ RequestFails(c)
        <5>1. pc[c] \notin Ended /\ tx[c] # "committed"
          BY <3>1, <4>1 DEF Begin, LookIdx, LookRow, DelRow, InsRow, InsIdx, DelIdx,
             RequestFails, PhaseOf, Ended
        <5>2. pc'[c] \in Working \/ pc'[c] = "failed"
          BY <3>1, <4>1 DEF Begin, LookIdx, LookRow, DelRow, InsRow, InsIdx, DelIdx,
             RequestFails, Goto, Working, TypeOK
        <5>3. QED BY <5>1, <5>2 DEF Heard, Taken, Working, Ended
      <4>2. CASE SendCommit(c) \/ Refuse(c) \/ Put(c)
        BY <3>1, <4>2 DEF SendCommit, Refuse, Put, Goto, TypeOK, callVars, Heard, Ended
      <4>3. CASE CommitAnswered(c) \/ CommitLost(c) \/ Acknowledge(c) \/ Cancel(c)
        BY <3>1, <4>3 DEF CommitAnswered, CommitLost, Acknowledge, Cancel, Goto,
           TypeOK, PhaseOf, Heard, Taken, Ended
      <4>4. QED BY <2>2, <4>1, <4>2, <4>3 DEF CallStep
    <3>5. QED BY <1>2, <3>1, <3>2, <3>3, <3>4, AnswerStep
  <2>3. CASE Crash
    <3>1. UNCHANGED <<rows, idx>> /\ Taken' = Taken
      BY <2>3 DEF Crash, storeVars, txVars, Taken
    <3>2. ASSUME NEW c \in Call
          PROVE  \/ Heard(c)' = Heard(c)
                 \/ /\ Heard(c) = "none" /\ Heard(c)' \in Ended
                    /\ Heard(c)' = "ok" => c \in Taken
                    /\ Heard(c)' = "failed" => c \notin Taken
      BY <1>2, <2>3 DEF Crash, Heard, Taken, Ended, IInv, TypeOK
    <3>3. QED BY <1>2, <3>1, <3>2, AnswerStep DEF Map!Next
  <2>4. CASE UNCHANGED vars
    BY <2>4 DEF vars, storeVars, txVars, callVars, Map!vars, Current
  <2>5. QED
    BY <1>2, <2>1, <2>2, <2>3, <2>4 DEF Next, CallStep, Map!Next
<1>3. QED
  BY <1>1, <1>2, Invariant, PTL DEF Spec, AtomicEvents, Map!Spec

(***************************************************************************)
(* Memory follows the tables.                                              *)
(***************************************************************************)

\* Commit timestamps are those of one call each.
Stamps ==
  \A c \in Call : tx[c] = "committed" =>
    /\ stamp[c] <= clock
    /\ \A i \in Ids[c] : stamp[c] <= idxTs[i]
    /\ \A d \in Call : tx[d] = "committed" /\ stamp[d] = stamp[c] => d = c

\* What the last commit of an id left in the tables.
Results ==
  \A c \in Call : tx[c] = "committed" =>
    /\ Kind[c] # "delete" => ev[c] \in Event
    /\ \A i \in Ids[c] : stamp[c] = idxTs[i] =>
         Current(i) = IF Kind[c] = "delete" THEN None ELSE ev[c]

\* The index holds the items of the calls that were put, and no others.
Filed ==
  /\ \A c \in put : tx[c] = "committed" /\ Items(c) \subseteq index
  /\ \A x \in index : \E c \in put : x \in Items(c)

IndexInv == IInv /\ Stamps /\ Results /\ Filed

\* The live item of a call on one of its ids.
LiveItem(c, i) ==
  IF Kind[c] = "update" /\ KeyChanged(c) /\ ev[c].start = key[c]
  THEN [Live(c, i) EXCEPT !.event = None] ELSE Live(c, i)

LEMMA LiveFields ==
  ASSUME NEW c \in Call, NEW i \in Id
  PROVE  /\ LiveItem(c, i).id = i /\ LiveItem(c, i).ts = stamp[c]
         /\ LiveItem(c, i).start = ev[c].start
         /\ LiveItem(c, i).deleted = FALSE
         /\ LiveItem(c, i).event \in {ev[c], None}
  BY DEF LiveItem, Live

LEMMA ItemsOf ==
  ASSUME NEW c \in Call, NEW x \in Items(c)
  PROVE  /\ x.id \in Ids[c] /\ x.ts = stamp[c]
         /\ ~x.deleted => Kind[c] # "delete" /\ x = LiveItem(c, x.id)
<1>1. PICK i \in Ids[c] :
        x \in CASE Kind[c] = "delete" -> {Tombstone(c, i)}
               [] Kind[c] = "update" /\ KeyChanged(c) /\ ev[c].start = key[c] ->
                    {[Live(c, i) EXCEPT !.event = None]}
               [] Kind[c] = "update" /\ KeyChanged(c) /\ ev[c].start # key[c] ->
                    {Live(c, i), Tombstone(c, i)}
               [] OTHER -> {Live(c, i)}
  BY DEF Items
<1>2. x = Tombstone(c, i) \/ (Kind[c] # "delete" /\ x = LiveItem(c, i))
  BY <1>1, Requests DEF LiveItem
<1>3. CASE x = Tombstone(c, i)
  <2>1. x.id = i /\ x.ts = stamp[c] /\ x.deleted = TRUE
    BY <1>3 DEF Tombstone
  <2>2. QED BY <2>1
<1>4. CASE Kind[c] # "delete" /\ x = LiveItem(c, i)
  BY <1>4, LiveFields, Requests
<1>5. QED
  BY <1>2, <1>3, <1>4

LEMMA ItemsIn ==
  ASSUME NEW c \in Call, NEW i \in Ids[c]
  PROVE  /\ Kind[c] # "delete" => LiveItem(c, i) \in Items(c)
         /\ Kind[c] = "delete" => Tombstone(c, i) \in Items(c)
<1> DEFINE Of(j) ==
      CASE Kind[c] = "delete" -> {Tombstone(c, j)}
        [] Kind[c] = "update" /\ KeyChanged(c) /\ ev[c].start = key[c] ->
             {[Live(c, j) EXCEPT !.event = None]}
        [] Kind[c] = "update" /\ KeyChanged(c) /\ ev[c].start # key[c] ->
             {Live(c, j), Tombstone(c, j)}
        [] OTHER -> {Live(c, j)}
<1>1. Kind[c] # "delete" => LiveItem(c, i) \in Of(i)
  BY Requests DEF LiveItem
<1>2. Kind[c] = "delete" => Tombstone(c, i) \in Of(i)
  OBVIOUS
<1>3. Items(c) = UNION {Of(j) : j \in Ids[c]}
  BY DEF Items
<1> HIDE DEF Of
<1>4. QED
  BY <1>1, <1>2, <1>3

\* A committed call stays as it is.
LEMMA Frozen ==
  ASSUME IInv, [Next]_vars, NEW c \in Call, tx[c] = "committed"
  PROVE  /\ tx'[c] = "committed" /\ ev'[c] = ev[c] /\ key'[c] = key[c]
         /\ stamp'[c] = stamp[c]
<1> USE DEF IInv, TypeOK, Phases, PhaseOf
<1>1. ASSUME NEW d \in Call, CallStep(d)
      PROVE  /\ tx'[c] = "committed" /\ ev'[c] = ev[c] /\ key'[c] = key[c]
             /\ stamp'[c] = stamp[c]
  <2>1. CASE Apply(d)
    BY <2>1 DEF Apply, callVars
  <2>2. CASE ~Apply(d)
    <3>1. stamp'[c] = stamp[c]
      BY <1>1, <2>2, TablesKept DEF storeVars
    <3>2. CASE d # c
      BY <1>1, <3>1, <3>2, OtherCalls
    <3>3. CASE d = c
      BY <1>1, <2>2, <3>1, <3>3 DEF CallStep, Begin, LookIdx, LookRow, DelRow, InsRow,
         InsIdx, DelIdx, RequestFails, SendCommit, Refuse, CommitAnswered, CommitLost,
         Put, Acknowledge, Cancel, txVars, callVars
    <3>4. QED BY <3>2, <3>3
  <2>3. QED BY <2>1, <2>2
<1>2. CASE Crash
  BY <1>2 DEF Crash, storeVars, txVars
<1>3. CASE UNCHANGED vars
  BY <1>3 DEF vars, storeVars, txVars, callVars
<1>4. QED
  BY <1>1, <1>2, <1>3 DEF Next, CallStep

LEMMA FrozenItems ==
  ASSUME IInv, [Next]_vars, NEW c \in Call, tx[c] = "committed"
  PROVE  Items(c)' = Items(c)
<1>1. ev'[c] = ev[c] /\ key'[c] = key[c] /\ stamp'[c] = stamp[c]
  BY Frozen
<1>2. QED
  BY <1>1 DEF Items, Live, Tombstone

\* Steps other than a commit commit no call and leave the tables.
LEMMA OtherSteps ==
  ASSUME IInv, [Next]_vars, \A c \in Call : ~Apply(c)
  PROVE  UNCHANGED storeVars /\ \A d \in Call : tx'[d] = "committed" <=> tx[d] = "committed"
<1> USE DEF IInv
<1>1. ASSUME NEW c \in Call, CallStep(c)
      PROVE  UNCHANGED storeVars /\ \A d \in Call : tx'[d] = "committed" <=> tx[d] = "committed"
  <2>1. UNCHANGED storeVars
    BY <1>1, TablesKept
  <2>2. tx'[c] = "committed" <=> tx[c] = "committed"
    BY <1>1 DEF CallStep, Begin, LookIdx, LookRow, DelRow, InsRow, InsIdx,
       DelIdx, RequestFails, SendCommit, Refuse, CommitAnswered, CommitLost, Put,
       Acknowledge, Cancel, txVars, TypeOK, Phases, PhaseOf
  <2>3. QED BY <1>1, <2>1, <2>2, OtherCalls
<1>2. CASE Crash
  BY <1>2 DEF Crash, txVars
<1>3. CASE UNCHANGED vars
  BY <1>3 DEF vars, txVars
<1>4. QED
  BY <1>1, <1>2, <1>3 DEF Next, CallStep

\* What a commit leaves of its own ids.
LEMMA ApplyResult ==
  ASSUME IInv, NEW c \in Call, Apply(c), NEW i \in Ids[c]
  PROVE  Current(i)' = IF Kind[c] = "delete" THEN None ELSE ev[c]
<1>1. i \in Id /\ tx[c] = "sent" /\ Kind[c] \in {"create", "update", "delete"}
  BY Requests DEF Apply
<1>2. Pending(c) /\ Place(c) = "commit"
  BY <1>1 DEF Pending, Place
<1>3. CASE Kind[c] = "delete"
  <2>1. buf[c].idx[i] = None
    BY <1>1, <1>3, SentBuffer
  <2>2. idx'[i] = None
    BY <1>1, <2>1, Markers DEF Apply
  <2>3. QED BY <1>3, <2>2 DEF Current
<1>4. CASE Kind[c] # "delete"
  <2>1. ev[c] \in Event
    BY <1>1, <1>2, <1>4, Requests DEF IInv, Locals, LocalsOf
  <2>2. Micro(ev[c].start) \in RowTime
    BY <2>1, Markers
  <2>3. buf[c].idx[i] = Micro(ev[c].start) /\ buf[c].rows[i][Micro(ev[c].start)] = ev[c]
    BY <1>1, <1>4, <2>2, SentBuffer
  <2>4. idx'[i] = Micro(ev[c].start) /\ rows'[i][Micro(ev[c].start)] = ev[c]
    BY <1>1, <2>1, <2>2, <2>3, Markers DEF Apply
  <2>5. QED BY <1>4, <2>2, <2>4, Markers DEF Current
<1>5. QED BY <1>3, <1>4

LEMMA InitIndex == Init => IndexInv
  BY InitInv DEF Init, IndexInv, Stamps, Results, Filed

LEMMA StampsStep ==
  ASSUME IndexInv, [Next]_vars
  PROVE  Stamps'
<1> USE DEF IndexInv
<1>1. ASSUME NEW c \in Call, Apply(c)
      PROVE  Stamps'
  <2>1. /\ clock \in Nat /\ clock' = clock + 1 /\ stamp \in [Call -> Nat]
        /\ stamp' = [stamp EXCEPT ![c] = clock + 1]
        /\ tx' = [tx EXCEPT ![c] = "committed"]
        /\ \A d \in Call : tx[d] \in {"none", "open", "aborted", "sent", "refused", "committed"}
        /\ idxTs \in [Id -> Nat] /\ DOMAIN tx = Call
    BY <1>1 DEF Apply, IInv, TypeOK
  <2>2. ASSUME NEW d \in Call, tx'[d] = "committed"
        PROVE  /\ stamp'[d] <= clock'
               /\ \A i \in Ids[d] : stamp'[d] <= idxTs'[i]
               /\ \A e \in Call : tx'[e] = "committed" /\ stamp'[e] = stamp'[d] => e = d
    <3>1. CASE d = c
      <4>1. \A i \in Ids[d] : idxTs'[i] = clock + 1
        BY <1>1, <3>1, ApplyHere
      <4>2. \A e \in Call : tx'[e] = "committed" /\ stamp'[e] = stamp'[d] => e = d
        BY <2>1, <3>1 DEF Stamps
      <4>3. QED BY <2>1, <3>1, <4>1, <4>2
    <3>2. CASE d # c
      <4>1. tx[d] = "committed" /\ stamp'[d] = stamp[d] /\ stamp[d] <= clock
        BY <2>1, <2>2, <3>2 DEF Stamps
      <4>2. ASSUME NEW i \in Ids[d] PROVE stamp'[d] <= idxTs'[i]
        <5>1. i \in Id /\ stamp[d] <= idxTs[i] /\ idxTs[i] \in Nat /\ stamp[d] \in Nat
          BY <2>1, <4>1, <4>2, Requests DEF Stamps
        <5>2. CASE i \in Ids[c]
          BY <1>1, <2>1, <4>1, <5>1, <5>2, ApplyHere
        <5>3. CASE i \notin Ids[c]
          BY <1>1, <4>1, <5>1, <5>3, ApplyElsewhere
        <5>4. QED BY <5>2, <5>3
      <4>3. \A e \in Call : tx'[e] = "committed" /\ stamp'[e] = stamp'[d] => e = d
        BY <2>1, <4>1 DEF Stamps
      <4>4. QED BY <2>1, <4>1, <4>2, <4>3
    <3>3. QED BY <3>1, <3>2
  <2>3. QED BY <2>2 DEF Stamps
<1>2. CASE \A c \in Call : ~Apply(c)
  BY <1>2, OtherSteps DEF Stamps, storeVars
<1>3. QED BY <1>1, <1>2

LEMMA ResultsStep ==
  ASSUME IndexInv, [Next]_vars
  PROVE  Results'
<1> USE DEF IndexInv
<1>1. ASSUME NEW c \in Call, Apply(c)
      PROVE  Results'
  <2>1. /\ clock \in Nat /\ clock' = clock + 1 /\ stamp \in [Call -> Nat]
        /\ stamp' = [stamp EXCEPT ![c] = clock + 1]
        /\ tx' = [tx EXCEPT ![c] = "committed"] /\ UNCHANGED ev
        /\ DOMAIN tx = Call
    BY <1>1 DEF Apply, IInv, TypeOK, callVars
  <2>2. ASSUME NEW d \in Call, tx'[d] = "committed"
        PROVE  /\ Kind[d] # "delete" => ev'[d] \in Event
               /\ \A i \in Ids[d] : stamp'[d] = idxTs'[i] =>
                    Current(i)' = IF Kind[d] = "delete" THEN None ELSE ev'[d]
    <3>1. CASE d = c
      <4>1. tx[c] = "sent" /\ Pending(c) /\ Place(c) = "commit"
        BY <1>1 DEF Apply, Pending, Place
      <4>2. Kind[c] # "delete" => ev[c] \in Event
        BY <4>1, Requests DEF IInv, Locals, LocalsOf
      <4>3. QED BY <1>1, <2>1, <3>1, <4>2, ApplyResult
    <3>2. CASE d # c
      <4>1. tx[d] = "committed" /\ stamp'[d] = stamp[d] /\ stamp[d] <= clock /\ stamp[d] \in Nat
        BY <2>1, <2>2, <3>2 DEF Stamps
      <4>2. ASSUME NEW i \in Ids[d], stamp'[d] = idxTs'[i]
            PROVE  Current(i)' = IF Kind[d] = "delete" THEN None ELSE ev[d]
        <5>1. i \in Id
          BY Requests
        <5>2. i \notin Ids[c]
          BY <1>1, <2>1, <4>1, <4>2, ApplyHere
        <5>3. idx'[i] = idx[i] /\ rows'[i] = rows[i] /\ idxTs'[i] = idxTs[i]
          BY <1>1, <5>1, <5>2, ApplyElsewhere
        <5>4. QED BY <4>1, <4>2, <5>3 DEF Results, Current
      <4>3. QED BY <2>1, <4>1, <4>2 DEF Results
    <3>3. QED BY <3>1, <3>2
  <2>3. QED BY <2>2 DEF Results
<1>2. CASE \A c \in Call : ~Apply(c)
  <2>1. UNCHANGED storeVars /\ \A d \in Call : tx'[d] = "committed" <=> tx[d] = "committed"
    BY <1>2, OtherSteps
  <2>2. \A d \in Call : tx[d] = "committed" => ev'[d] = ev[d]
    BY Frozen
  <2>3. QED BY <2>1, <2>2 DEF Results, storeVars, Current
<1>3. QED BY <1>1, <1>2

LEMMA FiledStep ==
  ASSUME IndexInv, [Next]_vars
  PROVE  Filed'
<1> USE DEF IndexInv
<1>1. \A c \in put : tx'[c] = "committed" /\ Items(c)' = Items(c) /\ c \in Call
  BY Frozen, FrozenItems DEF Filed, IInv, TypeOK
<1>2. CASE UNCHANGED <<index, put>>
  BY <1>1, <1>2 DEF Filed
<1>3. ASSUME NEW c \in Call, Put(c) PROVE Filed'
  <2>1. tx[c] = "committed" /\ put' = put \cup {c} /\ index' = index \cup Items(c)
    BY <1>3 DEF Put, IInv, Phases, PhaseOf
  <2>2. tx'[c] = "committed" /\ Items(c)' = Items(c)
    BY <2>1, Frozen, FrozenItems
  <2>3. QED BY <1>1, <2>1, <2>2 DEF Filed
<1>4. CASE Crash
  BY <1>4 DEF Crash, Filed
<1>5. ASSUME NEW c \in Call, CallStep(c), ~Put(c) PROVE UNCHANGED <<index, put>>
  BY <1>5 DEF CallStep, Begin, LookIdx, LookRow, DelRow, InsRow, InsIdx, DelIdx,
     RequestFails, SendCommit, Apply, Refuse, CommitAnswered, CommitLost,
     Acknowledge, Cancel, memVars
<1>6. QED
  BY <1>2, <1>3, <1>4, <1>5 DEF Next, CallStep, vars, memVars

LEMMA IndexStep == IndexInv /\ [Next]_vars => IndexInv'
<1>1. IInv /\ [Next]_vars => IInv'
  BY StepType, TablesStep, PhasesStep, SnapshotsStep, LocalsStep, BuffersStep,
     PreparedStep, UnmadeStep DEF IInv
<1>2. QED BY <1>1, StampsStep, ResultsStep, FiledStep DEF IndexInv

\* Under the invariant, memory is right about every id whose last change
\* was put.
LEMMA IndexImplies == IndexInv => LastChangeIndexed
<1> SUFFICES ASSUME IndexInv, NEW c \in put, NEW i \in Ids[c], stamp[c] = idxTs[i]
    PROVE  LET items == {x \in index : x.id = i}
               live == {x \in items : ~x.deleted /\ \A y \in items : y.ts <= x.ts}
           IN IF Current(i) = None THEN live = {}
              ELSE \E x \in live : /\ live = {x} /\ x.start = Current(i).start
                                   /\ x.event \in {Current(i), None}
  BY DEF LastChangeIndexed
<1> USE DEF IndexInv
<1> DEFINE items == {x \in index : x.id = i}
           live == {x \in items : ~x.deleted /\ \A y \in items : y.ts <= x.ts}
<1>1. /\ c \in Call /\ tx[c] = "committed" /\ Items(c) \subseteq index /\ i \in Id
      /\ stamp[c] \in Nat
  BY Requests DEF Filed, IInv, TypeOK
<1>2. ASSUME NEW x \in items
      PROVE  x.ts \in Nat /\ x.ts <= stamp[c] /\ (x.ts = stamp[c] => x \in Items(c))
  <2>1. PICK d \in put : x \in Items(d)
    BY DEF Filed
  <2>2. d \in Call /\ tx[d] = "committed" /\ i \in Ids[d] /\ x.ts = stamp[d]
    BY <2>1, ItemsOf DEF Filed, IInv, TypeOK
  <2>3. stamp[d] \in Nat /\ stamp[d] <= stamp[c]
    BY <2>2 DEF Stamps, IInv, TypeOK
  <2>4. x.ts = stamp[c] => d = c
    BY <1>1, <2>2 DEF Stamps
  <2>5. QED BY <2>1, <2>2, <2>3, <2>4
<1>3. CASE Kind[c] = "delete"
  <2>1. Current(i) = None
    BY <1>1, <1>3 DEF Results
  <2>2. Tombstone(c, i) \in items /\ Tombstone(c, i).ts = stamp[c]
    BY <1>1, <1>3, ItemsIn DEF Tombstone
  <2>3. ASSUME NEW x \in live PROVE FALSE
    <3>1. x \in items /\ x.ts = stamp[c] /\ ~x.deleted
      BY <1>1, <1>2, <2>2
    <3>2. x \in Items(c)
      BY <1>2, <3>1
    <3>3. QED BY <1>1, <1>3, <3>1, <3>2, ItemsOf
  <2>4. QED BY <2>1, <2>3
<1>4. CASE Kind[c] # "delete"
  <2>1. Current(i) = ev[c] /\ ev[c] \in Event /\ Current(i) # None
    BY <1>1, <1>4, Markers DEF Results
  <2>2. /\ LiveItem(c, i) \in items /\ LiveItem(c, i).ts = stamp[c]
        /\ LiveItem(c, i).deleted = FALSE
    BY <1>1, <1>4, ItemsIn, LiveFields
  <2>3. LiveItem(c, i) \in live
    BY <1>2, <2>2
  <2>4. ASSUME NEW x \in live PROVE x = LiveItem(c, i)
    <3>1. x \in items /\ x.ts = stamp[c] /\ ~x.deleted /\ x.id = i
      BY <1>1, <1>2, <2>2
    <3>2. x \in Items(c)
      BY <1>2, <3>1
    <3>3. QED BY <1>1, <3>1, <3>2, ItemsOf
  <2>5. LiveItem(c, i).start = Current(i).start /\ LiveItem(c, i).event \in {Current(i), None}
    <3>1. /\ LiveItem(c, i).start = ev[c].start
          /\ LiveItem(c, i).event \in {ev[c], None}
      BY <1>1, LiveFields
    <3>2. QED BY <2>1, <3>1
  <2>6. live = {LiveItem(c, i)}
    BY <2>3, <2>4
  <2> HIDE DEF items, live
  <2>7. \E x \in live : /\ live = {x} /\ x.start = Current(i).start
                       /\ x.event \in {Current(i), None}
    BY <2>5, <2>6
  <2>8. QED BY <2>1, <2>7 DEF items, live
<1>5. QED BY <1>3, <1>4

\* Once the last change of an event was put, its newest item in memory is the
\* event, or a tombstone if it is gone, in whatever order puts, late commits
\* and restarts came (storage.go:262-283, 556-640).
THEOREM MemoryFollowsTables == Spec => []LastChangeIndexed
  BY InitIndex, IndexStep, IndexImplies, PTL DEF Spec

(***************************************************************************)
(* Old keys are buried.                                                    *)
(***************************************************************************)

\* Call d takes id i away from the key with start time m, or writes that key
\* again: either way it has an item at m.
Leaves(d, i, m) ==
  /\ i \in Ids[d] /\ key[d] = m
  /\ Kind[d] = "delete" \/ (Kind[d] = "update" /\ KeyChanged(d))

\* An event is where a committed call has put it, or a later one took it away.
Moved ==
  \A c \in Call : tx[c] = "committed" /\ Kind[c] # "delete" =>
    \A i \in Ids[c] : ev[c].start = Micro(ev[c].start) =>
      \/ Current(i) # None /\ Current(i).start = ev[c].start
      \/ \E d \in Call : /\ tx[d] = "committed" /\ stamp[d] > stamp[c]
                         /\ Leaves(d, i, ev[c].start)

\* A call that takes an id away from a key has an item of that key.
LEMMA LeavesItem ==
  ASSUME NEW d \in Call, NEW i, NEW m, Leaves(d, i, m)
  PROVE  \E y \in Items(d) : y.id = i /\ y.start = m /\ y.ts = stamp[d]
<1>1. i \in Ids[d] /\ i \in Id /\ key[d] = m
  BY Requests DEF Leaves
<1>2. /\ Tombstone(d, i).id = i /\ Tombstone(d, i).start = m
      /\ Tombstone(d, i).ts = stamp[d]
  BY <1>1 DEF Tombstone
<1>3. CASE Kind[d] = "delete"
  <2>1. Tombstone(d, i) \in Items(d)
    BY <1>1, <1>3, ItemsIn
  <2>2. QED BY <1>2, <2>1
<1>4. CASE Kind[d] = "update" /\ KeyChanged(d) /\ ev[d].start = key[d]
  <2>1. LiveItem(d, i) \in Items(d)
    BY <1>1, <1>4, ItemsIn
  <2>2. /\ LiveItem(d, i).id = i /\ LiveItem(d, i).start = m
        /\ LiveItem(d, i).ts = stamp[d]
    BY <1>1, <1>4, LiveFields
  <2>3. QED BY <2>1, <2>2
<1>5. CASE Kind[d] = "update" /\ KeyChanged(d) /\ ev[d].start # key[d]
  <2>1. Tombstone(d, i) \in Items(d)
    BY <1>1, <1>5 DEF Items
  <2>2. QED BY <1>2, <2>1
<1>6. QED BY <1>3, <1>4, <1>5 DEF Leaves

\* A commit leaves an event at its start time, or takes it away from there.
LEMMA ApplyMoves ==
  ASSUME IInv, NEW c \in Call, Apply(c), NEW i \in Ids[c],
         Current(i) # None, Current(i).start = Micro(Current(i).start)
  PROVE  \/ Leaves(c, i, Current(i).start)
         \/ Kind[c] = "update" /\ ev[c].start = Current(i).start
<1>1. /\ i \in Id /\ tx[c] = "sent" /\ Pending(c) /\ Place(c) = "commit"
      /\ Kind[c] # "create" /\ Kind[c] \in {"create", "update", "delete"}
  BY Requests, ApplyHere DEF Apply, Pending, Place
<1>2. buf[c].idx[i] # Keep
  <2>1. Kind[c] = "update" => ev[c] \in Event
    BY <1>1 DEF IInv, Locals, LocalsOf
  <2>2. buf[c].idx[i] = IF Kind[c] = "delete" THEN None ELSE Micro(ev[c].start)
    BY <1>1, SentBuffer
  <2>3. QED BY <1>1, <2>1, <2>2, Markers
<1>3. idxTs[i] <= begun[c]
  BY <1>1, <1>2 DEF Apply, Conflict, IInv, TypeOK
<1>4. rows[i] = snap[c].rows[i] /\ idx[i] = snap[c].idx[i]
  BY <1>1, <1>3 DEF IInv, Snapshots, SnapshotOf
<1>5. key[c] \in RowTime /\ idx[i] = key[c]
  BY <1>1, <1>4 DEF IInv, Locals, LocalsOf
<1>6. Current(i) = rows[i][key[c]] /\ rows[i][key[c]] # None
  BY <1>5, Markers DEF Current
<1>7. Micro(Current(i).start) = key[c]
  BY <1>1, <1>5, <1>6 DEF IInv, TablesAgree
<1>8. CASE Kind[c] = "update" /\ ~ KeyChanged(c)
  <2>1. ev[c] = Updated(c, Current(i))
    BY <1>1, <1>4, <1>6, <1>8 DEF IInv, Locals, LocalsOf
  <2>2. ev[c].start = Current(i).start
    BY <1>8, <2>1 DEF Updated, KeyChanged
  <2>3. QED BY <1>8, <2>2
<1>9. CASE Kind[c] = "delete" \/ (Kind[c] = "update" /\ KeyChanged(c))
  BY <1>7, <1>9 DEF Leaves
<1>10. QED BY <1>1, <1>8, <1>9

LEMMA MovedStep ==
  ASSUME IndexInv, Moved, [Next]_vars PROVE Moved'
<1> USE DEF IndexInv
<1>1. ASSUME NEW c \in Call, tx[c] = "committed"
      PROVE  /\ tx'[c] = "committed" /\ ev'[c] = ev[c] /\ key'[c] = key[c]
             /\ stamp'[c] = stamp[c]
             /\ \A i, m : Leaves(c, i, m)' <=> Leaves(c, i, m)
  BY <1>1, Frozen DEF Leaves
<1>2. CASE \A c \in Call : ~ Apply(c)
  <2>1. UNCHANGED storeVars /\ \A d \in Call : tx'[d] = "committed" <=> tx[d] = "committed"
    BY <1>2, OtherSteps
  <2>2. \A i : Current(i)' = Current(i)
    BY <2>1 DEF storeVars, Current
  <2>3. QED BY <1>1, <2>1, <2>2 DEF Moved
<1>3. ASSUME NEW c \in Call, Apply(c) PROVE Moved'
  <2>1. /\ clock \in Nat /\ stamp' = [stamp EXCEPT ![c] = clock + 1]
        /\ stamp \in [Call -> Nat] /\ UNCHANGED <<ev, key>>
        /\ tx' = [tx EXCEPT ![c] = "committed"] /\ DOMAIN tx = Call
    BY <1>3 DEF Apply, IInv, TypeOK, callVars
  <2>2. ASSUME NEW d \in Call, tx'[d] = "committed", Kind[d] # "delete",
               NEW i \in Ids[d], ev[d].start = Micro(ev[d].start)
        PROVE  \/ Current(i)' # None /\ Current(i)'.start = ev[d].start
               \/ \E e \in Call : /\ tx'[e] = "committed" /\ stamp'[e] > stamp'[d]
                                  /\ Leaves(e, i, ev[d].start)'
    <3>1. CASE d = c
      <4>1. Current(i)' = ev[c]
        BY <1>3, <2>2, <3>1, ApplyResult
      <4>2. ev[c] # None
        <5>1. Pending(c) /\ Place(c) = "commit"
          BY <1>3, SentBuffer DEF Apply
        <5>2. ev[c] \in Event
          BY <2>2, <3>1, <5>1, Requests DEF IInv, Locals, LocalsOf
        <5>3. QED BY <5>2, Markers
      <4>3. QED BY <3>1, <4>1, <4>2
    <3>2. CASE d # c
      <4>1. tx[d] = "committed" /\ stamp'[d] = stamp[d] /\ stamp[d] \in Nat
            /\ stamp[d] <= clock /\ i \in Id
        BY <2>1, <2>2, <3>2, Requests DEF Stamps
      <4>2. CASE \E e \in Call : /\ tx[e] = "committed" /\ stamp[e] > stamp[d]
                                 /\ Leaves(e, i, ev[d].start)
        BY <1>1, <2>1, <4>1, <4>2
      <4>3. CASE Current(i) # None /\ Current(i).start = ev[d].start
        <5>1. CASE i \notin Ids[c]
          <6>1. Current(i)' = Current(i)
            BY <1>3, <4>1, <5>1, ApplyElsewhere DEF Current
          <6>2. QED BY <4>3, <6>1
        <5>2. CASE i \in Ids[c] /\ Leaves(c, i, ev[d].start)
          <6>1. Leaves(c, i, ev[d].start)'
            BY <2>1, <5>2 DEF Leaves
          <6>2. tx'[c] = "committed" /\ stamp'[c] > stamp'[d]
            BY <2>1, <4>1
          <6>3. QED BY <6>1, <6>2
        <5>3. CASE i \in Ids[c] /\ Kind[c] = "update" /\ ev[c].start = ev[d].start
          <6>1. Current(i)' = ev[c]
            BY <1>3, <5>3, ApplyResult
          <6>2. Pending(c) /\ Place(c) = "commit"
            BY <1>3, SentBuffer DEF Apply
          <6>3. ev[c] \in Event
            BY <5>3, <6>2 DEF IInv, Locals, LocalsOf
          <6>4. QED BY <5>3, <6>1, <6>3, Markers
        <5>4. QED BY <1>3, <2>2, <4>3, <5>1, <5>2, <5>3, ApplyMoves
      <4>4. QED BY <2>2, <4>1, <4>2, <4>3 DEF Moved
    <3>3. QED BY <3>1, <3>2
  <2>3. QED BY <2>1, <2>2 DEF Moved, Micro
<1>4. QED BY <1>2, <1>3

LEMMA MovedImplies == IndexInv /\ Moved => OldKeyBuried
<1> SUFFICES ASSUME IndexInv, Moved, NEW x \in index,
                    ~x.deleted, x.start = Micro(x.start),
                    \A y \in index : y.id = x.id /\ y.start = x.start => y.ts <= x.ts,
                    \A c \in Call : x.id \in Ids[c] /\ tx[c] = "committed"
                                    /\ stamp[c] > x.ts => c \in put
             PROVE  Current(x.id) # None /\ Current(x.id).start = x.start
  BY DEF OldKeyBuried
<1> USE DEF IndexInv
<1>1. PICK c \in put : x \in Items(c)
  BY DEF Filed
<1>2. c \in Call /\ tx[c] = "committed"
  BY DEF Filed, IInv, TypeOK
<1>3. /\ x.id \in Ids[c] /\ x.id \in Id /\ x.ts = stamp[c] /\ Kind[c] # "delete"
      /\ x = LiveItem(c, x.id)
  <2>1. /\ x.id \in Ids[c] /\ x.ts = stamp[c]
        /\ Kind[c] # "delete" /\ x = LiveItem(c, x.id)
    BY <1>1, <1>2, ItemsOf
  <2>2. x.id \in Id
    BY <1>2, <2>1, Requests
  <2>3. QED BY <2>1, <2>2
<1>4. x.start = ev[c].start
  <2>1. LiveItem(c, x.id).start = ev[c].start
    BY <1>2, <1>3, LiveFields
  <2>2. x = LiveItem(c, x.id)
    BY <1>3
  <2>3. QED BY <2>1, <2>2, Zenon
<1>5. ASSUME NEW d \in Call, tx[d] = "committed", stamp[d] > stamp[c],
             Leaves(d, x.id, ev[c].start)
      PROVE  FALSE
  <2>1. PICK y \in Items(d) : y.id = x.id /\ y.start = x.start /\ y.ts = stamp[d]
    BY <1>4, <1>5, LeavesItem
  <2>2. d \in put
    BY <1>3, <1>5 DEF Leaves
  <2>3. y \in index
    BY <2>2 DEF Filed
  <2>4. stamp[c] \in Nat /\ stamp[d] \in Nat
    BY <1>2, <1>5 DEF IInv, TypeOK
  <2>5. QED BY <1>3, <1>5, <2>1, <2>3, <2>4
<1>6. QED BY <1>2, <1>3, <1>4, <1>5 DEF Moved

\* A live item in memory that no newer item of its key covers is where its
\* event is: moves and deletes bury the old key, whenever they are put, down
\* to a microsecond (storage.go:460-554, 600-640).
THEOREM OldKeysBuried == Spec => []OldKeyBuried
<1>1. Init => Moved
  BY DEF Init, Moved
<1>2. IndexInv /\ Moved /\ [Next]_vars => (IndexInv /\ Moved)'
  BY IndexStep, MovedStep
<1>3. QED
  BY <1>1, <1>2, InitIndex, MovedImplies, PTL DEF Spec
=============================================================================
