------------------------------ MODULE MCStorage ------------------------------
(* Instances of Storage for TLC.                                           *)
EXTENDS Storage

CONSTANTS w1, w2, w3, w4, none, rd1

\* Batches of two, one and one items.
MCBatchLen == (w1 :> 2) @@ (w2 :> 1) @@ (w3 :> 1)
\* Batches of two and one items and an endless supply of empty ones.
MCLiveLen == (w1 :> 2) @@ (w2 :> 1) @@ (w4 :> 0)

MCNoTombstone == {}
MCTombstone == {<<w2, 1>>}

\* Limits so low that two items pass level 1, and three reach level 3.
MCLevelLimit == (0 :> 1) @@ (1 :> 2) @@ (2 :> 3)
=============================================================================
