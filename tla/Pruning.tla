---- MODULE Pruning ----
(***************************************************************************)
(* The pruning of a connector credential pair in the Onyx backend, beside  *)
(* the indexing, synchronisation and deletion of DocumentSync.  A          *)
(* generator lists what the source of the pair holds, compares the list    *)
(* with the documents that the pair has, and sends a cleanup task for each *)
(* document that is not listed: the same task that the deletion of a pair  *)
(* sends.  Pruning and deletion keep out of each other's way by their      *)
(* fences, and a deletion stops the pruning that it has waited for.        *)
(***************************************************************************)
EXTENDS DocumentSync

CONSTANTS
    Pruned,     \* pairs that are pruned: a schedule is optional
    MaxEvents,  \* bound on prunings, changes at the sources, indexings and faults together
    Prompt,     \* environment: no deletion overtakes the creation of a pruning, which itself
                \* does not overtake the generator before it
    Patient,    \* environment: what is stopped ends before the deletion is tired of waiting
    Apart       \* environment: a pair is not given documents between listing and comparing

ASSUME PruningAssumption ==
    /\ Pruned \subseteq Pairs /\ MaxEvents \in Nat
    /\ {Prompt, Patient, Apart} \subseteq BOOLEAN

VARIABLES
    source,     \* per pair, what is where its documents come from
    creating,   \* pairs for which try_creating_prune_generator_task has made its checks
    prune,      \* per pair, the fence of its pruning and whether generator_complete is set
    pruneset,   \* ids of the cleanup tasks of prunings that are not known to have ended
    asked,      \* pairs whose generator task is queued
    generator,  \* per pair, its generator at work
    stop,       \* pairs with a stop signal
    moves       \* changes at the sources and prunings so far

pruneVars == <<source, creating, prune, pruneset, asked, generator, stop, moves>>
allVars == <<vars, pruneVars>>

NoPrune     == [fence |-> "down", complete |-> FALSE]
NoGenerator == [pc |-> "idle", listed |-> {}, remove |-> {}]

There(p) == {d \in Docs : source[p][d] = "there"}
PruneIds(p) == {i \in pruneset : i.owner = p}
Queued == {Id(t) : t \in queue}
PruneTasks(p) == {t \in Alive(p) : t.round > MaxRound}

PruneInit ==
    /\ Init
    /\ source \in [Pairs -> [Docs -> {"unborn", "there", "gone"}]]
    /\ \A p \in Pairs, d \in Docs : source[p][d] # (IF p \in refs[d] THEN "unborn" ELSE "gone")
    /\ creating = {}
    /\ prune = [p \in Pairs |-> NoPrune]
    /\ pruneset = {}
    /\ asked = {}
    /\ generator = [p \in Pairs |-> NoGenerator]
    /\ stop = {}
    /\ moves = 0

Budget == moves + changes + faults < MaxEvents
Move == Budget /\ moves' = moves + 1

\* A document comes to be, or is deleted for good, where the pair gets its documents.
SourceChanges(p, d) ==
    /\ status[p] = "active" /\ source[p][d] # "gone" /\ Move
    /\ source' = [source EXCEPT ![p][d] = IF @ = "unborn" THEN "there" ELSE "gone"]
    /\ UNCHANGED <<vars, creating, prune, pruneset, asked, generator, stop>>

----------------------------------------------------------------------------
(* The creation of a pruning *)

\* try_creating_prune_generator_task: one pruning at a time, none beside a deletion.  The beat
\* tries once an hour, a user whenever they like; the lock of a generator is not asked for.
CheckPrune(p) ==
    /\ p \in Pruned /\ \A q \in Pairs : prune[q].fence = "down"
    /\ fence[p] = "down" /\ status[p] = "active" /\ p \notin creating
    /\ Prompt => generator[p].pc = "idle"
    /\ Move
    /\ creating' = creating \cup {p}
    /\ UNCHANGED <<vars, source, prune, pruneset, asked, generator, stop>>

\* The fence is set and the generator task sent.
CreatePrune(p) ==
    /\ p \in creating
    /\ creating' = creating \ {p}
    /\ prune' = [prune EXCEPT ![p] = [fence |-> "up", complete |-> FALSE]]
    /\ pruneset' = pruneset \ PruneIds(p)
    /\ asked' = asked \cup {p}
    /\ UNCHANGED <<vars, source, generator, stop, moves>>

\* The creation ends before the fence has the id of the task, which may have been sent.
CreationStops(p) ==
    /\ p \in creating /\ Fault("crashed")
    /\ creating' = creating \ {p}
    /\ prune' = [prune EXCEPT ![p] = [fence |-> "setup", complete |-> FALSE]]
    /\ pruneset' = pruneset \ PruneIds(p)
    /\ asked' \in {asked, asked \cup {p}}
    /\ UNCHANGED <<docVars, pairVars, indexer, redis, queue, worker, changes,
                   source, generator, stop, moves>>

----------------------------------------------------------------------------
(* connector_pruning_generator_task *)

\* Mutant: the ids of tasks that did not end are left in the task set.
PruneResetFence(p) ==
    /\ prune' = [prune EXCEPT ![p] = NoPrune]
    /\ UNCHANGED pruneset

\* RedisConnectorPrune.reset; the monitor takes away the same keys.
PruneReset(p) ==
    /\ prune' = [prune EXCEPT ![p] = NoPrune]
    /\ pruneset' = pruneset \ PruneIds(p)

\* The task needs a complete fence, the lock of its pair, and the pair.
Begin(p) ==
    /\ p \in asked
    /\ asked' = asked \ {p}
    /\ generator' = IF /\ prune[p].fence = "up" /\ generator[p].pc = "idle"
                       /\ status[p] # "gone"
                    THEN [generator EXCEPT ![p].pc = "list"] ELSE generator
    /\ UNCHANGED <<vars, source, creating, prune, pruneset, stop, moves>>

\* extract_ids_from_runnable_connector, which asks for the stop signal with every batch
Extract(p) ==
    /\ generator[p].pc = "list"
    /\ Apart => indexer[p].pc = "idle"
    /\ IF p \in stop /\ There(p) # {}
       THEN /\ generator' = [generator EXCEPT ![p] = NoGenerator]
            /\ PruneReset(p)
       ELSE /\ generator' = [generator EXCEPT ![p].pc = "compare", ![p].listed = There(p)]
            /\ UNCHANGED <<prune, pruneset>>
    /\ UNCHANGED <<vars, source, creating, asked, stop, moves>>

\* Mutant: the documents of all pairs are compared with the list.
ToRemoveOfAny(p) == Docs \ generator[p].listed

\* "generate list of docs to remove (no longer in the source)"
ToRemove(p) == Referring(p) \ generator[p].listed

\* Mutant: the ids look like those of a deletion.
DeletionRounds == 0 .. MaxRound

\* The prefix tells the tasks of prunings from those of deletions: here, their numbers.
PruneRounds == MaxRound + 1 .. MaxRound + MaxEvents
PruneRound(p, d, n) ==
    LET used == {t.round : t \in {t \in PruneTasks(p) : t.doc = d}}
                \cup {i.round : i \in {i \in PruneIds(p) : i.doc = d}}
    IN  n \notin used /\ MaxRound + 1 .. n - 1 \subseteq used

\* The documents of the pair are compared with the list; a pair that is gone ends the
\* generator and leaves the fence.
Compare(p) ==
    /\ generator[p].pc = "compare"
    /\ generator' = [generator EXCEPT ![p] =
            IF status[p] = "gone" THEN NoGenerator
            ELSE [pc |-> "send", listed |-> {}, remove |-> ToRemove(p)]]
    /\ UNCHANGED <<vars, source, creating, prune, pruneset, asked, stop, moves>>

\* The tasks that may be sent next
NextTasks(p) ==
    {t \in UNION {NewTasks(p, n, generator[p].remove) : n \in PruneRounds} :
        PruneRound(p, t.doc, t.round)}

\* RedisConnectorPrune.generate_tasks: one task after the other
Send(p) ==
    /\ generator[p].pc = "send"
    /\ \E t \in NextTasks(p) :
          /\ queue' = queue \cup {t}
          /\ pruneset' = pruneset \cup {Id(t)}
          /\ generator' = [generator EXCEPT ![p].remove = @ \ {t.doc}]
    /\ UNCHANGED <<docVars, pairVars, indexer, redis, worker, changes, faults,
                   source, creating, prune, asked, stop, moves>>

\* generator_complete is set, and the generator goes on with the nodes of the hierarchy.
Complete(p) ==
    /\ generator[p].pc = "send" /\ generator[p].remove = {}
    /\ generator' = [generator EXCEPT ![p].pc = "tidy"]
    /\ prune' = [prune EXCEPT ![p].complete = TRUE]
    /\ UNCHANGED <<vars, source, creating, pruneset, asked, stop, moves>>

Finish(p) ==
    /\ generator[p].pc = "tidy"
    /\ generator' = [generator EXCEPT ![p] = NoGenerator]
    /\ UNCHANGED <<vars, source, creating, prune, pruneset, asked, stop, moves>>

\* The generator raises, which takes its keys away and leaves the tasks that were sent
\* ("midway", or in the end), or is killed, maybe between the id of a task and the task;
\* the generator's task, acknowledged early, does not come back.
GeneratorStops(p) ==
    /\ \/ /\ generator[p].pc # "idle"
          /\ Fault(IF PruneTasks(p) = {} THEN "raised" ELSE "midway")
          /\ generator' = [generator EXCEPT ![p] = NoGenerator]
          /\ PruneReset(p)
          /\ UNCHANGED asked
       \/ /\ generator[p].pc # "idle" /\ Fault("killed")
          /\ generator' = [generator EXCEPT ![p] = NoGenerator]
          /\ pruneset' \in {pruneset} \cup {pruneset \cup {Id(t)} : t \in NextTasks(p)}
          /\ UNCHANGED <<prune, asked>>
       \/ /\ p \in asked /\ Fault("lost")
          /\ asked' = asked \ {p}
          /\ UNCHANGED <<prune, pruneset, generator>>
    /\ UNCHANGED <<docVars, pairVars, indexer, redis, queue, worker, changes,
                   source, creating, stop, moves>>

----------------------------------------------------------------------------
(* check_for_pruning *)

\* monitor_ccpair_pruning_taskset
MonitorPrune(p) ==
    /\ prune[p].fence # "down" /\ prune[p].complete /\ PruneIds(p) = {}
    /\ PruneReset(p)
    /\ UNCHANGED <<vars, source, creating, asked, generator, stop, moves>>

\* Mutant: only the task set is looked at, as for a deletion.
ValidatePruneTasks(p) ==
    /\ prune[p].fence = "up" /\ PruneIds(p) # {} /\ ~ PruneIds(p) \subseteq Queued
    /\ PruneTasks(p) = {}
    /\ PruneReset(p)
    /\ UNCHANGED <<vars, source, creating, asked, generator, stop, moves>>

\* validate_pruning_fence, once the active signal ran out, which is renewed while the
\* generator is queued or makes progress, or all its tasks are queued.  A fence without the
\* id of a task is left alone.  Two hours are enough for what is at work, or not ("hour").
ValidatePrune(p) ==
    /\ prune[p].fence = "up" /\ p \notin asked
    /\ IF PruneIds(p) = {} THEN ~ prune[p].complete ELSE ~ PruneIds(p) \subseteq Queued
    /\ IF PruneTasks(p) = {} /\ generator[p].pc = "idle" THEN UNCHANGED faults
       ELSE Fault("hour")
    /\ PruneReset(p)
    /\ UNCHANGED <<docVars, pairVars, indexer, redis, queue, worker, changes,
                   source, creating, asked, generator, stop, moves>>

\* FENCE_TTL: seven days
PruneExpires(p) ==
    /\ prune[p].fence = "setup" /\ p \notin asked
    /\ PruneReset(p)
    /\ UNCHANGED <<vars, source, creating, asked, generator, stop, moves>>

----------------------------------------------------------------------------
(* check_for_connector_deletion_task, where it meets the pruning of the pair *)

Blocked(p) == p \in attempts \/ prune[p].fence # "down"
Waits(p) == status[p] = "deleting" /\ fence[p] = "down" /\ Blocked(p)

\* TaskDependencyError: the stop signal is set, and a generator task that has not begun
\* is revoked.
Revoke(p) ==
    /\ Waits(p) /\ p \notin stop
    /\ stop' = stop \cup {p}
    /\ asked' = IF prune[p].fence = "up" THEN asked \ {p} ELSE asked
    /\ UNCHANGED <<vars, source, creating, prune, pruneset, generator, moves>>

\* "Timed out waiting for tasks blocking deletion.  Resetting blocking fences."
ResetBlocking(p) ==
    /\ Waits(p) /\ p \in stop /\ prune[p].fence # "down"
    /\ Patient => /\ p \notin asked /\ generator[p].pc \in {"idle", "tidy"}
                  /\ PruneTasks(p) = {}
    /\ PruneReset(p)
    /\ UNCHANGED <<vars, source, creating, asked, generator, stop, moves>>


\* try_generate_document_cc_pair_cleanup_tasks, after which the stop signal is cleared
Unblocked(p) == prune[p].fence = "down" /\ (Prompt => p \notin creating)
DeleteUnblocked(p) ==
    /\ Unblocked(p) /\ GenerateDeletion(p)
    /\ stop' = stop \ {p}
    /\ UNCHANGED <<source, creating, prune, pruneset, asked, generator, moves>>
DeletionStops(p) ==
    /\ Unblocked(p) /\ GenerationStops(p)
    /\ stop' \in {stop, stop \ {p}}
    /\ UNCHANGED <<source, creating, prune, pruneset, asked, generator, moves>>

----------------------------------------------------------------------------
(* What else goes on *)

IndexListed(p, d) ==
    /\ source[p][d] = "there" /\ (Apart => generator[p].pc # "compare")
    /\ Budget /\ TakeBatch(p, d)
    /\ UNCHANGED pruneVars

\* on_task_postrun knows the task set by the prefix of the id.
AckTask(w) ==
    /\ Ack(w)
    /\ pruneset' = pruneset \ {Id(worker[w].task)}
    /\ UNCHANGED <<source, creating, prune, asked, generator, stop, moves>>

Clean(w) ==
    \/ AckTask(w)
    \/ /\ \/ \E t \in queue : Take(w, t)
          \/ Start(w) \/ Read(w) \/ UpdateIndex(w) \/ MarkSynced(w)
          \/ DeleteIndexed(w) \/ EraseRows(w)
       /\ UNCHANGED pruneVars

DeletionStep(p) ==
    \/ Revoke(p) \/ ResetBlocking(p) \/ DeleteUnblocked(p)
    \/ (DeletionMonitor(p) \/ Validate(p)) /\ UNCHANGED pruneVars

PruneStep(p) ==
    \/ CreatePrune(p) \/ Begin(p) \/ Extract(p) \/ Compare(p)
    \/ Send(p) \/ Complete(p) \/ Finish(p)
    \/ MonitorPrune(p) \/ ValidatePrune(p) \/ PruneExpires(p)

Fails ==
    \/ \E p \in Pairs : CreationStops(p) \/ GeneratorStops(p) \/ DeletionStops(p)
    \/ /\ \/ \E w \in Workers : Raise(w) \/ Refused(w) \/ Kill(w)
          \/ \E t \in queue : Lose(t)
          \/ \E p \in Pairs : IndexFails(p)
          \/ SyncGenerationStops
       /\ UNCHANGED pruneVars

PruneNext ==
    \/ \E p \in Pairs : CheckPrune(p) \/ PruneStep(p) \/ DeletionStep(p)
    \/ \E p \in Pairs, d \in Docs : SourceChanges(p, d) \/ IndexListed(p, d)
    \/ \E p \in Pairs :
          /\ \/ Budget /\ StartAttempt(p)
             \/ MarkDeleting(p) \/ EndAttempt(p) \/ IndexStep(p)
          /\ UNCHANGED pruneVars
    \/ \E w \in Workers : Clean(w)
    \/ SyncStep /\ UNCHANGED pruneVars
    \/ \E d \in Docs : Budget /\ Edit(d) /\ UNCHANGED pruneVars
    \/ Budget /\ Fails

PruneSpec == PruneInit /\ [][PruneNext]_allVars

\* As in DocumentSync; check_for_pruning is one more task of the beat.  A pruning needs
\* neither deletions nor attempts to go on.
FairPruneSpec ==
    /\ PruneSpec
    /\ \A w \in Workers : WF_allVars(Clean(w))
    /\ \A p \in Pairs : WF_allVars(IndexStep(p) /\ UNCHANGED pruneVars)
    /\ \A p \in Pruned : WF_allVars(PruneStep(p))

----------------------------------------------------------------------------
(* Properties *)

\* Whatever is stored has its type, and no task of a pruning has an id of a deletion.
PruneTypeOK ==
    /\ source \in [Pairs -> [Docs -> {"unborn", "there", "gone"}]]
    /\ prune \in [Pairs -> [fence : {"down", "setup", "up"}, complete : BOOLEAN]]
    /\ generator \in [Pairs -> [pc : {"idle", "list", "compare", "send", "tidy"},
                                listed : SUBSET Docs, remove : SUBSET Docs]]
    /\ creating \cup asked \cup stop \subseteq Pairs
    /\ pruneset \subseteq [owner : Pairs, doc : Docs, round : Nat \ Rounds]
    /\ moves \in 0 .. MaxEvents

\* A pruning that has ended leaves nothing in Redis that the next one, or a deletion that
\* waits for it, would take for its own: no generator that is still to send or to report,
\* and no ids.
NothingLeftBehind ==
    \A p \in Pairs : prune[p].fence = "down" =>
        /\ ~ prune[p].complete /\ PruneIds(p) = {}
        /\ generator[p].pc \in {"idle", "tidy"}

\* An active pair keeps the documents that are at its source, and they stay in the index
\* but for an indexing that fails, whatever is pruned or deleted beside it.
SourceKept ==
    [][\A d \in Docs : \A p \in refs[d] :
          status[p] = "active" /\ source[p][d] = "there"
              => /\ p \in refs'[d]
                 /\ index[d].present => index'[d].present \/ FailsToWrite(d)]_allVars

\* A cleanup task that has updated the index has "omit[ted] access for the current cc_pair":
\* a document that nobody is at work on and that is not waiting to be synced grants nothing
\* through a pair that does not have it.
PrunedGrantsNothing ==
    \A d \in Docs : Settled(d) /\ ~ NeedsSync(d) => index[d].access \subseteq refs[d]

\* A pruning ends, whatever was lost on the way.
PruningEnds == \A p \in Pruned : prune[p].fence # "down" ~> prune[p].fence = "down"

============================================================================
