---- MODULE MCDocuments ----
(* DocumentSync on instances that TLC can check. *)
EXTENDS DocumentSync, TLC
CONSTANTS d1, d2, p, q, w1, w2

AllDocs == {d1}
AllPairs == {p, q}
AllWorkers == {w1, w2}
OneWorker == {w1}

\* A document of both pairs, a document of one pair, a document that is yet to come.
Shared == {[d \in Docs |-> Pairs]}
SharedOrNot == {[d \in Docs |-> Pairs], [d \in Docs |-> {p}]}

\* What may go wrong and is made good again ...
Recovered == {"lost", "killed", "raised", "refused", "crashed", "unindexed"}
\* ... and what delivers a task again when its work is done.
Redelivered == {"acknowledged"}
Anything == FaultKinds
Hour == {"hour"}
NoFaults == {}

Symmetry == Permutations(Workers)
============================================================================
