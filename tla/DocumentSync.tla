---- MODULE DocumentSync ----
(***************************************************************************)
(* What happens to documents after indexing in the Onyx backend: the tasks *)
(* that bring the metadata of a document into the index, the deletion of a *)
(* connector credential pair ("pair"), which cleans its documents up one   *)
(* task each, and the indexing of a document by another pair beside them.  *)
(* They share the rows of the documents with the times last_modified and   *)
(* last_synced, the rows that say which pair has which document, the index *)
(* and, in Redis, a fence and a set of task ids per operation.             *)
(*                                                                         *)
(* The metadata of a document are a flag, hidden, that a user may change,  *)
(* and its access: the pairs that have the document and are not being      *)
(* deleted.  Of the two times only their order counts.                     *)
(***************************************************************************)
EXTENDS Integers, FiniteSets

CONSTANTS
    Docs,          \* documents
    Pairs,         \* connector credential pairs
    Workers,       \* threads of the light worker
    Sync,          \* the owner of the tasks that belong to no pair
    Initial,       \* which pairs have which document, to begin with
    MaxRetries,    \* max_retries of both kinds of task
    MaxRound,      \* bound on the tasks of one owner for one document at a time
    MaxChanges,    \* bound on edits and indexings
    MaxFaults,     \* bound on faults
    Faults,        \* kinds of fault that may occur
    Undisturbed    \* environment: nothing else touches a document while a task works on it

Owners == Pairs \cup {Sync}
FaultKinds == {"lost", "killed", "acknowledged", "raised", "refused", "crashed", "unsent",
               "midway", "hour", "unindexed", "abandoned"}

ASSUME SyncAssumption ==
    /\ Sync \notin Pairs /\ IsFiniteSet(Pairs)
    /\ Initial \subseteq [Docs -> SUBSET Pairs] /\ "none" \notin Docs
    /\ {MaxRetries, MaxRound, MaxChanges, MaxFaults} \subseteq Nat
    /\ Faults \subseteq FaultKinds
    /\ Undisturbed \in BOOLEAN

VARIABLES
    row,       \* the table of documents
    refs,      \* per document, the pairs that have it (DocumentByConnectorCredentialPair)
    index,     \* the document index
    status,    \* of the pairs
    attempts,  \* pairs with an index attempt in progress
    failed,    \* per document, the pairs whose last indexing of it failed, which an unresolved
               \* IndexAttemptError tells until the pair goes and takes it along
    indexer,   \* per pair, the docprocessing task at work on a document of it
    fence,     \* per owner, the fence
    taskset,   \* ids of the tasks that are not known to have ended
    queue,     \* tasks in the broker
    worker,    \* per thread, the task it runs
    changes,   \* edits and indexings so far
    faults     \* faults so far

pairVars == <<status, attempts, failed>>
docVars  == <<row, refs, index>>
redis    == <<fence, taskset>>
vars == <<row, refs, index, status, attempts, failed, indexer, fence, taskset, queue, worker,
          changes, faults>>

----------------------------------------------------------------------------
(* Documents *)

NoRow  == [exists |-> FALSE, hidden |-> FALSE, stale |-> FALSE]
Absent == [present |-> FALSE, hidden |-> FALSE, access |-> {}]
Entries == [present : BOOLEAN, hidden : BOOLEAN, access : SUBSET Pairs]
Entry(hidden, access) == [present |-> TRUE, hidden |-> hidden, access |-> access]

\* last_modified > last_synced, or last_synced is null
NeedsSync(d) == row[d].exists /\ row[d].stale

\* get_access_for_document leaves out the pairs that are being deleted.
Access(d) == {p \in refs[d] : status[p] = "active"}
Fields(d) == Entry(row[d].hidden, Access(d))

\* update_single has no effect on a document that is not in the index.
Update(d, fields) == index' = [index EXCEPT ![d] = IF @.present THEN fields ELSE @]

----------------------------------------------------------------------------
(* Tasks *)

Rounds == 0 .. MaxRound
Tasks  == [owner : Owners, doc : Docs, round : Nat, tries : 0 .. MaxRetries]
NoTask   == [owner |-> Sync, doc |-> "none", round |-> 0, tries |-> 0]
NoWork   == [pc |-> "idle", task |-> NoTask, seen |-> Absent]
NoIndex  == [pc |-> "idle", doc |-> "none", seen |-> Absent]

Id(t) == [owner |-> t.owner, doc |-> t.doc, round |-> t.round]
IdsOf(o) == {i \in taskset : i.owner = o}
Running == {worker[w].task : w \in {w \in Workers : worker[w].pc # "idle"}}
Alive(o) == {t \in queue \cup Running : t.owner = o}

\* Every task has an id of its own: its number is the first that no task and no id bears.
Fresh(o, n) ==
    LET used == {t.round : t \in Alive(o)} \cup {i.round : i \in IdsOf(o)}
    IN  n \notin used /\ 0 .. n - 1 \subseteq used
NewTasks(o, n, ds) == {[owner |-> o, doc |-> d, round |-> n, tries |-> 0] : d \in ds}

\* The row of a document is locked by the docprocessing task that writes it,
Locked(d) == \E p \in Pairs : indexer[p].pc \in {"write", "post", "unwritten"}
                              /\ indexer[p].doc = d
\* never by the other tasks, which do not call prepare_to_modify_documents: that nothing
\* comes between their steps is up to the environment.
Held(d) == \E w \in Workers : worker[w].pc \in {"delete", "erase", "read", "update", "mark"}
                              /\ worker[w].task.doc = d
Free(d) == ~ Locked(d) /\ (Undisturbed => ~ Held(d))

Fault(kind) == kind \in Faults /\ faults < MaxFaults /\ faults' = faults + 1

Init ==
    /\ refs \in Initial
    /\ row = [d \in Docs |-> [exists |-> refs[d] # {}, hidden |-> FALSE, stale |-> FALSE]]
    /\ index = [d \in Docs |-> IF refs[d] # {} THEN Entry(FALSE, refs[d]) ELSE Absent]
    /\ status = [p \in Pairs |-> "active"]
    /\ attempts = {}
    /\ failed = [d \in Docs |-> {}]
    /\ indexer = [p \in Pairs |-> NoIndex]
    /\ fence = [o \in Owners |-> "down"]
    /\ taskset = {}
    /\ queue = {}
    /\ worker = [w \in Workers |-> NoWork]
    /\ changes = 0
    /\ faults = 0

----------------------------------------------------------------------------
(* Users *)

\* update_document_hidden: "updating last_modified triggers sync"
Edit(d) ==
    /\ row[d].exists /\ Free(d) /\ changes < MaxChanges
    /\ row' = [row EXCEPT ![d].hidden = ~ @, ![d].stale = TRUE]
    /\ changes' = changes + 1
    /\ UNCHANGED <<refs, index, pairVars, indexer, redis, queue, worker, faults>>

\* create_deletion_attempt_for_connector_id: attempts in progress go on for a while.
MarkDeleting(p) ==
    /\ status[p] = "active"
    /\ status' = [status EXCEPT ![p] = "deleting"]
    /\ UNCHANGED <<docVars, attempts, failed, indexer, redis, queue, worker, changes, faults>>

----------------------------------------------------------------------------
(* Indexing, as far as it touches the metadata of a document *)

StartAttempt(p) ==
    /\ status[p] = "active" /\ p \notin attempts /\ changes < MaxChanges
    /\ attempts' = attempts \cup {p}
    /\ UNCHANGED <<docVars, status, failed, indexer, redis, queue, worker, changes, faults>>

EndAttempt(p) ==
    /\ p \in attempts
    /\ attempts' = attempts \ {p}
    /\ UNCHANGED <<docVars, status, failed, indexer, redis, queue, worker, changes, faults>>

\* A docprocessing task asks for the status of its attempt before it begins.
TakeBatch(p, d) ==
    /\ indexer[p].pc = "idle" /\ p \in attempts /\ changes < MaxChanges
    /\ indexer' = [indexer EXCEPT ![p] = [NoIndex EXCEPT !.pc = "prepare", !.doc = d]]
    /\ changes' = changes + 1
    /\ UNCHANGED <<docVars, pairVars, redis, queue, worker, faults>>

\* index_doc_batch_prepare: the row is created or, with its metadata, overwritten, and
\* committed; then the pair is given the document, which fails if the pair is gone.
Prepare(p) ==
    LET d == indexer[p].doc
        gone == status[p] = "gone"
    IN  /\ indexer[p].pc = "prepare" /\ Free(d)
        /\ row' = [row EXCEPT ![d] = [exists |-> TRUE, hidden |-> FALSE,
                                      stale |-> @.stale \/ ~ @.exists]]
        /\ refs' = IF gone THEN refs ELSE [refs EXCEPT ![d] = @ \cup {p}]
        /\ indexer' = [indexer EXCEPT ![p].pc = IF gone THEN "record" ELSE "lock"]
        /\ UNCHANGED <<index, pairVars, redis, queue, worker, changes, faults>>

\* lock_context, which raises if the row is gone, and build_metadata_aware_chunks
LockRow(p) ==
    LET d == indexer[p].doc
    IN  /\ indexer[p].pc = "lock" /\ Free(d)
        /\ indexer' = [indexer EXCEPT ![p] =
                IF row[d].exists THEN [@ EXCEPT !.pc = "write", !.seen = Entry(FALSE, Access(d))]
                ELSE [@ EXCEPT !.pc = "record"]]
        /\ UNCHANGED <<docVars, pairVars, redis, queue, worker, changes, faults>>

\* write_chunks_to_vector_db_with_backoff
WriteChunks(p) ==
    /\ indexer[p].pc = "write"
    /\ index' = [index EXCEPT ![indexer[p].doc] = indexer[p].seen]
    /\ indexer' = [indexer EXCEPT ![p].pc = "post"]
    /\ UNCHANGED <<row, refs, pairVars, redis, queue, worker, changes, faults>>

\* The document was not embedded, or the index raised for it, before the old chunks were
\* deleted or after the new ones were written: a failure of this document, no exception.
WriteFails(p) ==
    LET d == indexer[p].doc
    IN  /\ indexer[p].pc = "write" /\ Fault("unindexed")
        /\ \E e \in {index[d], Absent, indexer[p].seen} : index' = [index EXCEPT ![d] = e]
        /\ indexer' = [indexer EXCEPT ![p].pc = "unwritten"]
        /\ UNCHANGED <<row, refs, pairVars, redis, queue, worker, changes>>

\* post_index sets last_modified of every document of the batch, written or not, and so
\* "always triggers a final metadata sync".
PostIndex(p) ==
    /\ indexer[p].pc \in {"post", "unwritten"}
    /\ row' = [row EXCEPT ![indexer[p].doc].stale = TRUE]
    /\ indexer' = [indexer EXCEPT ![p].pc = IF @ = "post" THEN "resolve" ELSE "record"]
    /\ UNCHANGED <<refs, index, pairVars, redis, queue, worker, changes, faults>>

\* index_doc_batch_with_handler turns an exception into a failure of each document.
IndexingRaises(p) ==
    /\ indexer[p].pc \in {"prepare", "lock", "write", "unwritten", "post"} /\ Fault("unindexed")
    /\ indexer' = [indexer EXCEPT ![p].pc = "record"]
    /\ UNCHANGED <<docVars, pairVars, redis, queue, worker, changes>>

\* _resolve_indexing_document_errors, or create_index_attempt_error; for a pair that is gone
\* there is nowhere to record it, and the indexing has failed all the same.
Report(p) ==
    LET i == indexer[p]
    IN  /\ i.pc \in {"resolve", "record"}
        /\ failed' = [failed EXCEPT ![i.doc] = IF i.pc = "resolve" THEN @ \ {p} ELSE @ \cup {p}]
        /\ indexer' = [indexer EXCEPT ![p] = NoIndex]
        /\ UNCHANGED <<docVars, status, attempts, redis, queue, worker, changes, faults>>

\* The task is killed, and its attempt over when it is delivered again, or it raises on the
\* way to its report.
Abandon(p) ==
    /\ indexer[p].pc # "idle" /\ Fault("abandoned")
    /\ indexer' = [indexer EXCEPT ![p] = NoIndex]
    /\ UNCHANGED <<docVars, pairVars, redis, queue, worker, changes>>

----------------------------------------------------------------------------
(* The light worker: vespa_metadata_sync_task, document_by_cc_pair_cleanup_task *)

Doc(w) == worker[w].task.doc
Cleans(w) == worker[w].task.owner \in Pairs
Goto(w, pc) == worker' = [worker EXCEPT ![w].pc = pc]
AtWork(w) == worker[w].pc \in {"start", "delete", "erase", "read", "update", "mark"}

Take(w, t) ==
    /\ worker[w].pc = "idle" /\ t \in queue
    /\ queue' = queue \ {t}
    /\ worker' = [worker EXCEPT ![w] = [pc |-> "start", task |-> t, seen |-> Absent]]
    /\ UNCHANGED <<docVars, pairVars, indexer, redis, changes, faults>>

\* Mutant: any document is deleted that another pair has, too.
StartDeletesShared(w) ==
    /\ worker[w].pc = "start"
    /\ Undisturbed => Free(Doc(w))
    /\ Goto(w, IF Cleans(w) /\ refs[Doc(w)] # {} THEN "delete" ELSE "read")
    /\ UNCHANGED <<docVars, pairVars, indexer, redis, queue, changes, faults>>

\* get_document_connector_count decides what a cleanup task does: it counts the
\* references, and does not ask whose they are.
Start(w) ==
    LET count == Cardinality(refs[Doc(w)])
    IN  /\ worker[w].pc = "start"
        /\ Undisturbed => Free(Doc(w))
        /\ Goto(w, CASE ~ Cleans(w) \/ count > 1 -> "read"
                     [] Cleans(w) /\ count = 1   -> "delete"
                     [] OTHER                    -> "ack")
        /\ UNCHANGED <<docVars, pairVars, indexer, redis, queue, changes, faults>>

\* get_document and get_access_for_document
Read(w) ==
    /\ worker[w].pc = "read"
    /\ worker' = [worker EXCEPT ![w] =
            IF row[Doc(w)].exists THEN [@ EXCEPT !.pc = "update", !.seen = Fields(Doc(w))]
            ELSE [@ EXCEPT !.pc = "ack"]]
    /\ UNCHANGED <<docVars, pairVars, indexer, redis, queue, changes, faults>>

UpdateIndex(w) ==
    /\ worker[w].pc = "update"
    /\ Update(Doc(w), worker[w].seen)
    /\ Goto(w, "mark")
    /\ UNCHANGED <<row, refs, pairVars, indexer, redis, queue, changes, faults>>

DeleteIndexed(w) ==
    /\ worker[w].pc = "delete"
    /\ index' = [index EXCEPT ![Doc(w)] = Absent]
    /\ Goto(w, "erase")
    /\ UNCHANGED <<row, refs, pairVars, indexer, redis, queue, changes, faults>>

\* delete_documents_complete__no_commit: the row and every reference to it
EraseRows(w) ==
    /\ worker[w].pc = "erase" /\ ~ Locked(Doc(w))
    /\ row' = [row EXCEPT ![Doc(w)] = NoRow]
    /\ refs' = [refs EXCEPT ![Doc(w)] = {}]
    /\ Goto(w, "ack")
    /\ UNCHANGED <<index, pairVars, indexer, redis, queue, changes, faults>>

\* Mutant: a task may be sent again after its last attempt.
ExceptForEver(w) ==
    /\ queue' = queue \cup {[worker[w].task EXCEPT !.tries = @ + 1]}
    /\ worker' = [worker EXCEPT ![w] = NoWork]
    /\ UNCHANGED docVars

\* Mutant: the reference is given up and the document not marked as modified.
ExceptQuietly(w) ==
    LET t == worker[w].task
    IN  \/ /\ t.tries < MaxRetries
           /\ queue' = queue \cup {[t EXCEPT !.tries = @ + 1]}
           /\ worker' = [worker EXCEPT ![w] = NoWork]
           /\ UNCHANGED docVars
        \/ /\ t.tries = MaxRetries
           /\ refs' = [refs EXCEPT ![t.doc] = @ \ {t.owner}]
           /\ Goto(w, "ack")
           /\ UNCHANGED <<queue, row, index>>

\* A task that raises is sent again; at its last attempt a cleanup task gives up the
\* reference of its pair and leaves the rest to reconciliation.
Except(w) ==
    LET t == worker[w].task
        d == t.doc
    IN  \/ /\ t.tries < MaxRetries
           /\ queue' = queue \cup {[t EXCEPT !.tries = @ + 1]}
           /\ worker' = [worker EXCEPT ![w] = NoWork]
           /\ UNCHANGED docVars
        \/ /\ t.tries = MaxRetries /\ ~ Cleans(w)
           /\ Goto(w, "ack")
           /\ UNCHANGED <<queue, docVars>>
        \/ /\ t.tries = MaxRetries /\ Cleans(w) /\ ~ Locked(d)
           /\ refs' = [refs EXCEPT ![d] = @ \ {t.owner}]
           /\ row' = [row EXCEPT ![d].stale = @ \/ row[d].exists]
           /\ Goto(w, "ack")
           /\ UNCHANGED <<queue, index>>

\* mark_document_as_synced, which raises if the row is gone; a cleanup task takes the
\* reference of its pair away first.
MarkSynced(w) ==
    LET d == Doc(w)
    IN  /\ worker[w].pc = "mark" /\ ~ Locked(d)
        /\ IF ~ row[d].exists THEN Except(w)
           ELSE /\ row' = [row EXCEPT ![d].stale = FALSE]
                /\ refs' = IF Cleans(w) THEN [refs EXCEPT ![d] = @ \ {worker[w].task.owner}]
                           ELSE refs
                /\ Goto(w, "ack")
                /\ UNCHANGED <<index, queue>>
        /\ UNCHANGED <<pairVars, indexer, redis, changes, faults>>

\* The index, or the database, is not to be had.
Raise(w) ==
    /\ worker[w].pc \in {"delete", "erase", "update", "mark"} /\ Fault("raised")
    /\ Except(w)
    /\ UNCHANGED <<pairVars, indexer, redis, changes>>

\* Mutant: an HTTPStatusError of the index is passed over.
RefusedUnnoticed(w) ==
    /\ worker[w].pc \in {"delete", "update"} /\ Fault("refused")
    /\ Goto(w, IF worker[w].pc = "delete" THEN "erase" ELSE "mark")
    /\ UNCHANGED <<docVars, pairVars, indexer, redis, queue, changes>>

\* An HTTPStatusError of the index is not retried.
Refused(w) ==
    /\ worker[w].pc \in {"delete", "update"} /\ Fault("refused")
    /\ Goto(w, "ack")
    /\ UNCHANGED <<docVars, pairVars, indexer, redis, queue, changes>>

\* on_task_postrun takes the task out of its task set; then it is acknowledged.
Ack(w) ==
    /\ worker[w].pc = "ack"
    /\ taskset' = taskset \ {Id(worker[w].task)}
    /\ worker' = [worker EXCEPT ![w] = NoWork]
    /\ UNCHANGED <<docVars, pairVars, indexer, fence, queue, changes, faults>>

\* Tasks are acknowledged late: what a killed worker had is delivered again, after its
\* effect was committed ("acknowledged") or before.
Kill(w) ==
    /\ \/ AtWork(w) /\ Fault("killed")
       \/ worker[w].pc = "ack" /\ Fault("acknowledged")
    /\ queue' = queue \cup {worker[w].task}
    /\ worker' = [worker EXCEPT ![w] = NoWork]
    /\ UNCHANGED <<docVars, pairVars, indexer, redis, changes>>

\* The broker loses a task.
Lose(t) ==
    /\ t \in queue /\ Fault("lost")
    /\ queue' = queue \ {t}
    /\ UNCHANGED <<docVars, pairVars, indexer, redis, worker, changes>>

WorkStep(w) ==
    \/ \E t \in queue : Take(w, t)
    \/ Start(w) \/ Read(w) \/ UpdateIndex(w) \/ MarkSynced(w)
    \/ DeleteIndexed(w) \/ EraseRows(w) \/ Ack(w)

----------------------------------------------------------------------------
(* check_for_connector_deletion_task *)

Referring(p) == {d \in Docs : p \in refs[d]}

\* try_generate_document_cc_pair_cleanup_tasks: one task per document of the pair, once
\* its latest attempt is not in progress
MayDelete(p) == status[p] = "deleting" /\ fence[p] = "down" /\ p \notin attempts

GenerateDeletion(p) ==
    /\ MayDelete(p)
    /\ \E n \in Rounds : LET new == NewTasks(p, n, Referring(p)) IN
          /\ Fresh(p, n)
          /\ queue' = queue \cup new
          /\ taskset' = (taskset \ IdsOf(p)) \cup {Id(t) : t \in new}
    /\ fence' = [fence EXCEPT ![p] = "up"]
    /\ UNCHANGED <<docVars, pairVars, indexer, worker, changes, faults>>

\* Some tasks were sent, and possibly the id of one that was not, when the beat task is
\* killed, which leaves the basic fence, or raises, which takes the fence down.
GenerationStops(p) ==
    /\ MayDelete(p)
    /\ \E n \in Rounds : \E ids \in SUBSET NewTasks(p, n, Referring(p)) : \E sent \in SUBSET ids :
          /\ Fresh(p, n) /\ Cardinality(ids \ sent) <= 1
          /\ queue' = queue \cup sent
          /\ taskset' = (taskset \ IdsOf(p)) \cup {Id(t) : t \in ids}
    /\ \/ Fault("crashed") /\ fence' = [fence EXCEPT ![p] = "setup"]
       \/ Fault("unsent") /\ UNCHANGED fence
    /\ UNCHANGED <<docVars, pairVars, indexer, worker, changes>>

Reset(o) ==
    /\ fence' = [fence EXCEPT ![o] = "down"]
    /\ taskset' = taskset \ IdsOf(o)

\* monitor_connector_deletion_taskset: when all tasks ended the pair goes, unless it
\* still has documents; then the deletion starts again.
DeletionMonitor(p) ==
    /\ fence[p] = "up" /\ IdsOf(p) = {}
    /\ status' = IF Referring(p) = {} THEN [status EXCEPT ![p] = "gone"] ELSE status
    /\ Reset(p)
    /\ UNCHANGED <<docVars, attempts, failed, indexer, queue, worker, changes, faults>>

\* Mutant: a fence that was never completed is left alone.
ValidateComplete(p) ==
    /\ fence[p] = "up" /\ ~ IdsOf(p) \subseteq {Id(t) : t \in queue} /\ Alive(p) = {}
    /\ Reset(p)
    /\ UNCHANGED <<docVars, pairVars, indexer, queue, worker, changes, faults>>

\* validate_connector_deletion_fence, once the active signal ran out, which is renewed
\* only while every task of the set is in the queue.  An hour is enough for all tasks
\* that are not lost, unless there are too many of them ("hour"), and for the monitor.
Validate(p) ==
    /\ fence[p] # "down"
    /\ IdsOf(p) = {} => fence[p] = "setup"
    /\ ~ IdsOf(p) \subseteq {Id(t) : t \in queue} \/ IdsOf(p) = {}
    /\ IF Alive(p) = {} THEN UNCHANGED faults ELSE Fault("hour")
    /\ Reset(p)
    /\ UNCHANGED <<docVars, pairVars, indexer, queue, worker, changes>>

----------------------------------------------------------------------------
(* check_for_vespa_sync_task *)

Stale == {d \in Docs : NeedsSync(d)}

GenerateSync ==
    /\ fence[Sync] = "down" /\ Stale # {}
    /\ \E n \in Rounds : LET new == NewTasks(Sync, n, Stale) IN
          /\ Fresh(Sync, n)
          /\ queue' = queue \cup new
          /\ taskset' = taskset \cup {Id(t) : t \in new}
    /\ fence' = [fence EXCEPT ![Sync] = "up"]
    /\ UNCHANGED <<docVars, pairVars, indexer, worker, changes, faults>>

\* The fence is set last: the tasks that were sent are sent again.
SyncGenerationStops ==
    /\ fence[Sync] = "down" /\ Fault("crashed")
    /\ \E n \in Rounds : \E ids \in SUBSET NewTasks(Sync, n, Stale) : \E sent \in SUBSET ids :
          /\ Fresh(Sync, n) /\ ids # {} /\ Cardinality(ids \ sent) <= 1
          /\ queue' = queue \cup sent
          /\ taskset' = taskset \cup {Id(t) : t \in ids}
    /\ UNCHANGED <<docVars, pairVars, indexer, fence, worker, changes>>

\* monitor_document_sync_taskset
SyncMonitor ==
    /\ fence[Sync] = "up" /\ IdsOf(Sync) = {}
    /\ Reset(Sync)
    /\ UNCHANGED <<docVars, pairVars, indexer, queue, worker, changes, faults>>

\* Mutant: the keys of the sync have no time to live.
SyncNeverExpires == FALSE /\ UNCHANGED vars

\* FENCE_TTL and TASKSET_TTL: nothing but these seven days ends the wait for a lost task.
SyncExpires ==
    /\ fence[Sync] = "up" /\ IdsOf(Sync) # {} /\ Alive(Sync) = {}
    /\ Reset(Sync)
    /\ UNCHANGED <<docVars, pairVars, indexer, queue, worker, changes, faults>>

----------------------------------------------------------------------------
IndexStep(p) == Prepare(p) \/ LockRow(p) \/ WriteChunks(p) \/ PostIndex(p) \/ Report(p)
IndexFails(p) == WriteFails(p) \/ IndexingRaises(p) \/ Abandon(p)
BeatStep(p) == GenerateDeletion(p) \/ DeletionMonitor(p) \/ Validate(p)
SyncStep == GenerateSync \/ SyncMonitor \/ SyncExpires
FaultStep ==
    \/ \E w \in Workers : Raise(w) \/ Refused(w) \/ Kill(w)
    \/ \E t \in queue : Lose(t)
    \/ \E p \in Pairs : IndexFails(p) \/ GenerationStops(p)
    \/ SyncGenerationStops

Next ==
    \/ \E d \in Docs : Edit(d)
    \/ \E p \in Pairs : MarkDeleting(p) \/ StartAttempt(p) \/ EndAttempt(p)
    \/ \E p \in Pairs, d \in Docs : TakeBatch(p, d)
    \/ \E p \in Pairs : IndexStep(p) \/ BeatStep(p)
    \/ \E w \in Workers : WorkStep(w)
    \/ SyncStep
    \/ FaultStep

Spec == Init /\ [][Next]_vars

\* The threads of the workers go on, and the beat starts its tasks again and again; users
\* and the scheduler of attempts need not do anything, but an attempt ends.
FairSpec ==
    /\ Spec
    /\ \A w \in Workers : WF_vars(WorkStep(w))
    /\ \A p \in Pairs : /\ WF_vars(IndexStep(p)) /\ WF_vars(EndAttempt(p))
                        /\ WF_vars(BeatStep(p))
    /\ WF_vars(SyncStep)

----------------------------------------------------------------------------
(* Properties *)

\* Whatever is stored has its type; a task is never sent again after its last attempt.
TypeOK ==
    /\ row \in [Docs -> [exists : BOOLEAN, hidden : BOOLEAN, stale : BOOLEAN]]
    /\ refs \in [Docs -> SUBSET Pairs]
    /\ index \in [Docs -> Entries]
    /\ status \in [Pairs -> {"active", "deleting", "gone"}] /\ attempts \subseteq Pairs
    /\ failed \in [Docs -> SUBSET Pairs]
    /\ indexer \in [Pairs -> [pc : {"idle", "prepare", "lock", "write", "post", "unwritten",
                                    "resolve", "record"},
                              doc : Docs \cup {"none"}, seen : Entries]]
    /\ \A p \in Pairs : indexer[p].pc # "idle" => indexer[p].doc \in Docs
    /\ fence \in [Owners -> {"down", "setup", "up"}]
    /\ taskset \subseteq [owner : Owners, doc : Docs, round : Rounds]
    /\ queue \subseteq Tasks
    /\ worker \in [Workers -> [pc : {"idle", "start", "delete", "erase", "read", "update",
                                     "mark", "ack"},
                               task : Tasks \cup {NoTask}, seen : Entries]]
    /\ \A w \in Workers : worker[w].pc # "idle" => worker[w].task \in Tasks
    /\ {changes, faults} \subseteq Nat

\* Nobody is at work on the document.
Settled(d) ==
    /\ \A p \in Pairs : indexer[p].doc # d
    /\ \A w \in Workers : AtWork(w) => Doc(w) # d

\* A document that is not waiting to be synced, that no task is at work on, and that has
\* pairs none of which is being deleted, is in the index with the metadata of its row, unless
\* the last indexing of it by some pair failed; a document without a row is not in the index:
\* nothing else would bring them together.
IndexAgrees ==
    \A d \in Docs :
        Settled(d) /\ ~ NeedsSync(d) /\ Access(d) = refs[d]
            => /\ refs[d] # {}      => index[d] = Fields(d) \/ failed[d] # {}
               /\ ~ row[d].exists   => index[d] = Absent

\* What a pair that is gone still grants in the index is on its way out: the document is
\* waiting to be synced.
DeletedGrantsNothing ==
    \A d \in Docs : \A p \in index[d].access : status[p] = "gone" => NeedsSync(d)

\* The step that writes the chunks of a document, and fails
FailsToWrite(d) == \E p \in Pairs : /\ indexer[p].doc = d /\ indexer[p].pc = "write"
                                     /\ indexer'[p].pc = "unwritten"

\* The deletion of a pair, with all its tasks, retries and restarts, never takes a
\* document away from a pair that is active: neither its reference nor its chunks, which
\* nothing but an indexing that fails, and reports it, takes out of the index.
SharedDocumentSurvives ==
    [][\A d \in Docs : \A p \in refs[d] :
          status[p] = "active" =>
              /\ p \in refs'[d]
              /\ index[d].present => index'[d].present \/ FailsToWrite(d)]_vars

\* The deletion of a pair ends, whatever was lost on the way.
DeletionEnds == \A p \in Pairs : status[p] = "deleting" ~> status[p] = "gone"

\* A document that waits to be synced is synced.
SyncEnds == \A d \in Docs : NeedsSync(d) ~> ~ NeedsSync(d)

============================================================================
