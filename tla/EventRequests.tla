----------------------------- MODULE EventRequests -----------------------------
(***************************************************************************)
(* The calls that change events, as their callers make them: what EventMap *)
(* and EventService have in common.                                        *)
(***************************************************************************)
EXTENDS Integers

CONSTANTS
  Id,      \* event ids
  Time,    \* start times, in fractions of a microsecond
  Title,   \* the rest of an event
  None,    \* no event
  Call,    \* calls of BatchCreateEvents, UpdateEvent and DeleteEvent
  Kind,    \* Kind[c]: "create", "update" or "delete"
  Ids,     \* Ids[c]: the ids of the batch, or the one id of the event
  New,     \* New[c]: the event in the request
  Mask,    \* Mask[c]: the paths of the update mask
  Stored   \* Stored[i]: the event of id i at the beginning, or None

Event == [start : Time, title : Title]

ASSUME RequestAssumption ==
  /\ Time \subseteq Nat
  /\ None \notin Event
  /\ Kind \in [Call -> {"create", "update", "delete"}]
  /\ Ids \in [Call -> SUBSET Id]
  /\ \A c \in Call : Kind[c] # "create" => \E i \in Id : Ids[c] = {i}
  /\ New \in [Call -> Event]
  /\ Mask \in [Call -> SUBSET {"start", "title"}]
  /\ Stored \in [Id -> Event \cup {None}]

\* uuid.NewV7: a create call makes ids no event has and no other call makes.
ASSUME FreshAssumption ==
  \A c \in Call : Kind[c] = "create" =>
    \A i \in Ids[c] :
      /\ Stored[i] = None
      /\ \A d \in Call \ {c} : Kind[d] = "create" => i \notin Ids[d]
=============================================================================
