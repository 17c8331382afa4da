---- MODULE MCIndexing ----
(***************************************************************************)
(* Instances of IndexingPipeline for TLC.                                  *)
(***************************************************************************)
EXTENDS IndexingPipeline, TLC

AllPoints == FetchSteps \cup WorkSteps

\* Steps at which a kill loses nothing: the fetcher while it waits or the connector
\* runs, the worker before it has counted its batch.
SafePoints == {"queued", "spawned", "run", "send", "total", "got", "count"}

\* The same for a connector without checkpoints.
PollPoints == SafePoints \ {"total"}

\* The connector cannot be set up.
SetupPoints == {"window"}

\* The worker is killed when its batch is counted and the file still there.
CountedPoints == {"delete"}

\* A reindexing between two attempts: the first attempt succeeds, the second fails with
\* a checkpoint, the third fetches from the beginning and fails.
RunPoints == {"run", "total"}
Reindexed ==
    /\ row[1].status \notin {"FAILED", "CANCELED"} /\ ~ row[1].reindex
    /\ row[2].status # "SUCCESS" /\ ~ row[2].reindex
    /\ row[3].status # "SUCCESS" /\ (row[3].status # "none" => row[3].reindex)
    /\ ~ row[4].reindex
====
