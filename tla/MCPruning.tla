---- MODULE MCPruning ----
(* Pruning on instances that TLC can check. *)
EXTENDS Pruning, TLC
CONSTANTS d1, p, q, w1, w2

OneDoc == {d1}
BothPairs == {p, q}
OnlyP == {p}
OneWorker == {w1}
TwoWorkers == {w1, w2}
SharedOrNot == {[d \in Docs |-> Pairs], [d \in Docs |-> {p}]}
Shared == {[d \in Docs |-> Pairs]}
SharedOrOther == {[d \in Docs |-> Pairs], [d \in Docs |-> {q}]}
Recovered == {"lost", "killed", "raised", "refused", "crashed", "unindexed"}
Midway == {"midway"}
Anything == FaultKinds
NoFaults == {}
Symmetry == Permutations(Workers)
============================================================================
