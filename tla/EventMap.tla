------------------------------- MODULE EventMap -------------------------------
(***************************************************************************)
(* What the event service promises its callers: one map of events by id.   *)
(* Each create, update or delete takes effect at most once, at one         *)
(* instant, on the events as they are at that instant.  An answer of       *)
(* success comes after the effect; a refusal means there never will be     *)
(* one; an answer that leaves it open (a lost commit, a cancelled call, a  *)
(* process that died) may come before, after or without it.                *)
(***************************************************************************)
EXTENDS EventRequests

VARIABLES
  events,  \* the map
  took,    \* the calls that have taken effect
  answer   \* what each caller has heard

vars == <<events, took, answer>>

TypeOK ==
  /\ events \in [Id -> Event \cup {None}]
  /\ took \subseteq Call
  /\ answer \in [Call -> {"none", "ok", "failed", "unsure"}]

Init ==
  /\ events = Stored
  /\ took = {}
  /\ answer = [c \in Call |-> "none"]

\* The fields of the mask, and no others, come from the request.
Updated(c, e) ==
  [start |-> IF "start" \in Mask[c] THEN New[c].start ELSE e.start,
   title |-> IF "title" \in Mask[c] THEN New[c].title ELSE e.title]

\* What call c makes of event e, which is None where there is no event.
Outcome(c, e) ==
  CASE Kind[c] = "create" -> New[c]
    [] Kind[c] = "update" -> Updated(c, e)
    [] Kind[c] = "delete" -> None

\* The whole batch at once.  Update and delete need an event to work on.
Take(c) ==
  /\ c \notin took
  /\ answer[c] \in {"none", "unsure"}
  /\ \A i \in Ids[c] : Kind[c] = "create" <=> events[i] = None
  /\ events' = [i \in Id |-> IF i \in Ids[c] THEN Outcome(c, events[i])
                             ELSE events[i]]
  /\ took' = took \cup {c}
  /\ UNCHANGED answer

\* Calls are answered in groups: a process that dies answers all its calls.
Answer ==
  /\ \E S \in SUBSET Call, a \in [Call -> {"ok", "failed", "unsure"}] :
       /\ \A c \in S : answer[c] = "none"
       /\ \A c \in S : a[c] = "ok" => c \in took
       /\ \A c \in S : a[c] = "failed" => c \notin took
       /\ answer' = [c \in Call |-> IF c \in S THEN a[c] ELSE answer[c]]
  /\ UNCHANGED <<events, took>>

Next == Answer \/ \E c \in Call : Take(c)

Spec == Init /\ [][Next]_vars
=============================================================================
