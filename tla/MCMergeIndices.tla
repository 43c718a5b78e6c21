--------------------------- MODULE MCMergeIndices ---------------------------
(* Instances of MergeIndices for TLC.                                      *)
EXTENDS MergeIndices

CONSTANTS go, fast

MCZone == {"UTC", "Local"}
MCKey == [start : {1, 2}, id : {1, 2}, ts : {1}, zone : MCZone]
             \cup [start : {4}, id : {1}, ts : {1, 2}, zone : MCZone]
MCLabels == [k \in Key |-> (IF k.id = 1 THEN {go} ELSE {}) \cup
                           (IF k.start = 1 \/ k.ts = 2 THEN {fast} ELSE {})]

\* The binary digits of n, least significant first.
BinaryOf[n \in Nat] == IF n = 0 THEN <<>> ELSE <<n % 2 = 1>> \o BinaryOf[n \div 2]

MCStartDigits == [k \in Key |-> BinaryOf[k.start]]
MCEndDigits == [k \in Key |-> BinaryOf[5 - k.start + k.id]]
=============================================================================
