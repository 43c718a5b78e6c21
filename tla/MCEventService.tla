--------------------------- MODULE MCEventService ---------------------------
(* Instances of EventService for TLC.                                      *)
EXTENDS EventService, TLC

CONSTANTS x1, x2, x3, x4

E(s, t) == [start |-> s, title |-> t]

\* A batch of ids 2 and 3, moves of id 2 there and back (by less than a
\* microsecond in one of them), and its deletion.
MCBatchKind == (x1 :> "create") @@ (x2 :> "update") @@ (x3 :> "update") @@ (x4 :> "delete")
MCBatchIds == (x1 :> {2, 3}) @@ (x2 :> {2}) @@ (x3 :> {2}) @@ (x4 :> {2})
MCBatchNew == (x1 :> E(3, 1)) @@ (x2 :> E(4, 2)) @@ (x3 :> E(2, 3)) @@ (x4 :> E(2, 1))
MCBatchMask == (x1 :> {}) @@ (x2 :> {"start", "title"}) @@ (x3 :> {"start"}) @@ (x4 :> {})
MCBatchStored == (2 :> None) @@ (3 :> None)
=============================================================================
