---- MODULE IndexingPipeline ----
(***************************************************************************)
(* Indexing in the Onyx backend: index attempts, the process that fetches  *)
(* documents in batches, the workers that index the batches, and the       *)
(* periodic task that creates attempts, watches over them and finishes     *)
(* them.  What they share is one row per attempt in the database           *)
(* (db/index_attempt.py, db/indexing_coordination.py), the files of        *)
(* BatchStorage and a queue of tasks that is delivered at least once.      *)
(*                                                                         *)
(* A source has NumBatches batches in every window of time; a document     *)
(* stands for the batch it comes in.  Times are numbers of attempts: the   *)
(* window that attempt a opens ends "at a".                                *)
(***************************************************************************)
EXTENDS BatchStorage

CONSTANTS
    CCPairs,           \* numbers of connector credential pairs
    Settings,          \* search settings: one index is built for each
    Workers,           \* threads of the docprocessing worker
    MaxAttempts,       \* bound on attempts, all cc_pairs together
    NumBatches,        \* batches of one window
    Checkpointed,      \* the connector is a CheckpointedConnector
    Reindexing,        \* values of from_beginning an attempt may be created with
    CandidateLimit,    \* _NUM_RECENT_ATTEMPTS_TO_CONSIDER
    MaxFaults,         \* bound on kills and exceptions
    FaultPoints,       \* steps of fetcher and worker at which a fault may strike
    DocFailures,       \* documents of a batch may fail and be recorded as errors
    MonitorMayFail,    \* check_indexing_completion may raise
    MayPause,          \* an administrator may pause and resume a cc_pair
    MayStall,          \* hours may pass within an attempt
    QuietRestart       \* attempts start only when no process of an earlier one is left

Attempts == 1 .. MaxAttempts
Null == -1
Positions == 0 .. NumBatches

Active     == {"NOT_STARTED", "IN_PROGRESS"}
Successful == {"SUCCESS", "COMPLETED_WITH_ERRORS"}
Terminal   == Successful \cup {"FAILED", "CANCELED"}

FetchSteps == {"queued", "spawned", "window", "list", "rename", "reissue", "recount",
               "save", "run", "send", "total"}
WorkSteps  == {"got", "count", "errors", "delete"}

ASSUME PipelineAssumption ==
    /\ CCPairs \subseteq Nat \ {0} /\ IsFiniteSet(CCPairs)
    /\ MaxAttempts \in Nat \ {0} /\ NumBatches \in Nat \ {0}
    /\ CandidateLimit \in Nat \ {0} /\ MaxFaults \in Nat
    /\ Reindexing \subseteq BOOLEAN /\ FaultPoints \subseteq FetchSteps \cup WorkSteps
    /\ {Checkpointed, DocFailures, MonitorMayFail, MayPause, MayStall, QuietRestart} \subseteq BOOLEAN

VARIABLES
    row,       \* the table of index attempts
    newer,     \* per attempt, those that have ended whose time_updated is later
    fetcher,   \* per attempt, its docfetching process
    files,     \* the batch files
    queue,     \* docprocessing tasks not delivered or returned to the queue
    worker,    \* per worker thread, the task it holds
    monitor,   \* check_for_indexing: what it has read of the attempt it looks at
    indexed,   \* per search settings, the documents in the index
    paused,    \* cc_pairs that are paused
    late,      \* attempts whose last_progress_time is half a stall timeout ago
    faults     \* faults so far

vars == <<row, newer, fetcher, files, queue, worker, monitor, indexed, paused, late, faults>>

----------------------------------------------------------------------------
(* Rows *)

NoRow == [status |-> "none", pair |-> Null, settings |-> Null, reindex |-> FALSE,
          total |-> Null, completed |-> 0, docs |-> FALSE, start |-> Null, upto |-> Null,
          checkpoint |-> Null, cancel |-> FALSE, errors |-> FALSE, tracked |-> Null]

Created == {a \in Attempts : row[a].status # "none"}
SameTarget(a, b) == row[a].pair = row[b].pair /\ row[a].settings = row[b].settings

\* What an attempt has to fetch: the batches of its window.
Doc(a, i) == [pair |-> row[a].pair, start |-> row[a].start, upto |-> row[a].upto, pos |-> i]
WindowDocs(a) == {Doc(a, i) : i \in 1 .. NumBatches}

\* Writing to a row sets its time_updated, which is read of attempts that have ended.
Touch(a) == newer' = [b \in Attempts |-> IF b = a THEN {} ELSE newer[b] \cup {a}]
Write(a, r) ==
    /\ row' = [row EXCEPT ![a] = r]
    /\ IF r.status \in Terminal THEN Touch(a) ELSE UNCHANGED newer
Mark(a, status) == Write(a, [row[a] EXCEPT !.status = status])

Latest(S) == CHOOSE b \in S : newer[b] \cap S = {}

\* get_recent_completed_attempts_for_cc_pair
RecentCompleted(a) ==
    LET done == {b \in Created : SameTarget(a, b) /\ row[b].status \in Terminal}
    IN  {b \in done : Cardinality(newer[b] \cap done) < CandidateLimit}

\* Mutant: Null where there is no success yet.
LastSuccessOrNull(a) ==
    LET ends == {row[b].upto : b \in {b \in Created : SameTarget(a, b)
                                                       /\ row[b].status = "SUCCESS"}}
    IN  IF ends = {} THEN Null ELSE CHOOSE e \in ends : \A f \in ends : f <= e

\* get_last_successful_attempt_poll_range_end
LastSuccess(a) ==
    LET ends == {row[b].upto : b \in {b \in Created : SameTarget(a, b)
                                                       /\ row[b].status = "SUCCESS"}}
    IN  IF ends = {} THEN 0 ELSE CHOOSE e \in ends : \A f \in ends : f <= e

NoProgress(recent) ==
    /\ Cardinality(recent) >= CandidateLimit
    /\ \A b \in recent : ~ row[b].docs /\ row[b].status \notin Successful

\* get_latest_valid_checkpoint: Null stands for "none", the dummy checkpoint is 0
LatestValidCheckpoint(a, start, upto) ==
    LET recent == RecentCompleted(a)
        valid  == {b \in recent : /\ row[b].start = start /\ row[b].upto = upto
                                  /\ row[b].status \in {"FAILED", "CANCELED"}
                                  /\ row[b].checkpoint # Null}
    IN  IF NoProgress(recent) \/ valid = {} THEN Null ELSE row[Latest(valid)].checkpoint

----------------------------------------------------------------------------
(* Processes *)

NoFetcher == [pc |-> "none", num |-> 0, at |-> 0, checkpoint |-> 0, todo |-> {}, old |-> 0]
Gone      == [NoFetcher EXCEPT !.pc = "gone"]
Dead      == [NoFetcher EXCEPT !.pc = "dead"]
NoDoc     == [pair |-> Null, start |-> Null, upto |-> Null, pos |-> Null]
NoTask    == [attempt |-> Null, num |-> Null, kind |-> "none"]
NoWork    == [pc |-> "idle", task |-> NoTask, doc |-> NoDoc]
NoWatch   == [pc |-> "idle", attempt |-> Null, total |-> Null, completed |-> 0, errors |-> FALSE]

Task(a, n, kind) == [attempt |-> a, num |-> n, kind |-> kind]

\* A thread that beats for the attempt (start_heartbeat).
Beating(a) ==
    \/ fetcher[a].pc \in FetchSteps \ {"queued"}
    \/ \E w \in Workers : worker[w].pc # "idle" /\ worker[w].task.attempt = a

\* heartbeat_loop: every beat writes to the row, that of an attempt that has ended too.
Heartbeat(a) ==
    /\ Beating(a) /\ row[a].status \in Terminal /\ newer[a] # {}
    /\ Touch(a)
    /\ UNCHANGED <<row, fetcher, files, queue, worker, monitor, indexed, paused, late, faults>>

Quiet(p) == \A a \in Created : row[a].pair = p =>
                /\ fetcher[a].pc \in {"gone"}
                /\ \A w \in Workers : worker[w].pc # "idle" => worker[w].task.attempt # a

Stopped(a) == row[a].pair \in paused

Init ==
    /\ row = [a \in Attempts |-> NoRow]
    /\ newer = [a \in Attempts |-> {}]
    /\ fetcher = [a \in Attempts |-> NoFetcher]
    /\ files = {}
    /\ queue = {}
    /\ worker = [w \in Workers |-> NoWork]
    /\ monitor = NoWatch
    /\ indexed = [s \in Settings |-> {}]
    /\ paused = {}
    /\ late = {}
    /\ faults = 0

Fault == faults < MaxFaults /\ faults' = faults + 1

----------------------------------------------------------------------------
(* check_for_indexing: one at a time, under the beat lock *)

\* Mutant: an attempt that waits in the queue does not count as active.
FenceOfRunning(p, s) ==
    ~ \E b \in Created : row[b].pair = p /\ row[b].settings = s /\ row[b].status = "IN_PROGRESS"

\* The check for existing active attempts.
Fence(p, s) ==
    ~ \E b \in Created : row[b].pair = p /\ row[b].settings = s /\ row[b].status \in Active

\* _kickoff_indexing_tasks, try_creating_docfetching_task, try_create_index_attempt.
\* sent: the task reached the queue; otherwise the new attempt is marked failed.
CreateAttempt(p, s, reindex, sent) ==
    LET a == Cardinality(Created) + 1
        new == [NoRow EXCEPT !.pair = p, !.settings = s, !.reindex = reindex,
                             !.status = IF sent THEN "NOT_STARTED" ELSE "FAILED"]
    IN  /\ monitor.pc = "idle"
        /\ a \in Attempts
        /\ p \notin paused
        /\ Fence(p, s)
        /\ QuietRestart => Quiet(p)
        /\ Write(a, new)
        /\ fetcher' = [fetcher EXCEPT ![a] = IF sent THEN [NoFetcher EXCEPT !.pc = "queued"] ELSE Gone]
        /\ IF sent THEN UNCHANGED faults ELSE Fault
        /\ UNCHANGED <<files, queue, worker, monitor, indexed, paused, late>>

\* Mutant: attempts that have ended are looked at, too.
HeartbeatTimeoutOfAny(a) ==
    /\ monitor.pc = "idle"
    /\ row[a].status \notin {"none", "NOT_STARTED"} /\ ~ Beating(a)
    /\ Mark(a, "FAILED")
    /\ UNCHANGED <<fetcher, files, queue, worker, monitor, indexed, paused, late, faults>>

\* validate_active_indexing_attempts: nothing has beaten for HEARTBEAT_TIMEOUT_SECONDS.
HeartbeatTimeout(a) ==
    /\ monitor.pc = "idle"
    /\ row[a].status = "IN_PROGRESS" /\ ~ Beating(a)
    /\ Mark(a, "FAILED")
    /\ UNCHANGED <<fetcher, files, queue, worker, monitor, indexed, paused, late, faults>>

\* monitor_indexing_attempt_progress: the coordination status is read here, once.
Watch(a) ==
    /\ monitor.pc = "idle"
    /\ row[a].status \in Active
    /\ IF row[a].cancel
       THEN Mark(a, "CANCELED") /\ UNCHANGED monitor
       ELSE /\ monitor' = [pc |-> "check", attempt |-> a, total |-> row[a].total,
                           completed |-> row[a].completed, errors |-> row[a].errors]
            /\ UNCHANGED <<row, newer>>
    /\ UNCHANGED <<fetcher, files, queue, worker, indexed, paused, late, faults>>

\* Mutant: complete with the last batch in processing.
WatchedIsAlmostComplete == monitor.total # Null /\ monitor.completed + 1 >= monitor.total

WatchedIsComplete == monitor.total # Null /\ monitor.completed >= monitor.total

\* Mutant: an attempt that has not started is taken to have a task.
TaskWasSent(a) == row[a].status = "NOT_STARTED"

\* The docfetching task of a is in the broker or in the hands of a worker.
TaskExists(a) == fetcher[a].pc = "queued"

\* Half a stall timeout passes, an hour and a half or more: while the task waits,
\* the connector runs or the batches are processed, not within a step of the fetcher.
TimePasses(a) ==
    /\ MayStall /\ row[a].status \in Active /\ row[a].tracked # Null /\ a \notin late
    /\ fetcher[a].pc \in {"queued", "run", "gone"}
    /\ late' = late \cup {a}
    /\ UNCHANGED <<row, newer, fetcher, files, queue, worker, monitor, indexed, paused, faults>>

\* check_indexing_completion down to its early return, with update_progress_tracking.
\* A task that waits in the queue for longer than the timeout changes nothing; the
\* time of an attempt that has ended meanwhile starts afresh.  Where no attempt stalls,
\* what is tracked is read by nobody and is left out, but for the time of the write.
CheckProgress ==
    LET a == monitor.attempt
        advanced == \/ row[a].tracked = Null
                    \/ a \in late /\ (monitor.completed > row[a].tracked \/ row[a].status \in Terminal)
        stalled  == ~ advanced /\ a \in late
                    /\ (row[a].status = "IN_PROGRESS" \/ (row[a].status = "NOT_STARTED" /\ ~ TaskExists(a)))
    IN  /\ monitor.pc = "check"
        /\ IF ~ MayStall
           THEN UNCHANGED row /\ (UNCHANGED newer \/ (row[a].status \in Terminal /\ Touch(a)))
           ELSE CASE advanced -> Write(a, [row[a] EXCEPT !.tracked = monitor.completed])
                  [] stalled  -> Mark(a, "FAILED")
                  [] OTHER    -> UNCHANGED <<row, newer>>
        /\ late' = IF advanced THEN late \ {a} ELSE late
        /\ monitor' = IF WatchedIsComplete THEN [monitor EXCEPT !.pc = "finish"] ELSE NoWatch
        /\ UNCHANGED <<fetcher, files, queue, worker, indexed, paused, faults>>

\* mark_attempt_succeeded or mark_attempt_partially_succeeded
Finish ==
    /\ monitor.pc = "finish"
    /\ Mark(monitor.attempt, IF monitor.errors THEN "COMPLETED_WITH_ERRORS" ELSE "SUCCESS")
    /\ monitor' = [monitor EXCEPT !.pc = "cleanup"]
    /\ UNCHANGED <<fetcher, files, queue, worker, indexed, paused, late, faults>>

CleanUp ==
    /\ monitor.pc = "cleanup"
    /\ files' = CleanupAllBatches(files, row[monitor.attempt].pair)
    /\ monitor' = NoWatch
    /\ UNCHANGED <<row, newer, fetcher, queue, worker, indexed, paused, late, faults>>

\* The except branch of monitor_indexing_attempt_progress, which asks for no status:
\* check_indexing_completion may raise after it has committed the success, too, when
\* it reads and writes the cc_pair.
MonitorFails ==
    /\ MonitorMayFail /\ Fault
    /\ monitor.pc \in {"check", "finish", "cleanup"}
    /\ Mark(monitor.attempt, "FAILED")
    /\ files' = CleanupAllBatches(files, row[monitor.attempt].pair)
    /\ monitor' = NoWatch
    /\ UNCHANGED <<fetcher, queue, worker, indexed, paused, late>>

----------------------------------------------------------------------------
(* update_cc_pair_status: an administrator pauses or resumes a cc_pair *)

Pause(p) ==
    LET hit == {a \in Created : row[a].pair = p /\ row[a].status \in Active}
    IN  /\ MayPause /\ p \notin paused /\ Fault
        /\ paused' = paused \cup {p}
        /\ row' = [a \in Attempts |-> IF a \in hit THEN [row[a] EXCEPT !.cancel = TRUE] ELSE row[a]]
        /\ fetcher' = [a \in Attempts |-> IF a \in hit /\ fetcher[a].pc = "queued"
                                          THEN Gone ELSE fetcher[a]]
        /\ UNCHANGED <<newer, files, queue, worker, monitor, indexed, late>>

Resume(p) ==
    /\ p \in paused
    /\ paused' = paused \ {p}
    /\ UNCHANGED <<row, newer, fetcher, files, queue, worker, monitor, indexed, late, faults>>

----------------------------------------------------------------------------
(* docfetching: one process per attempt, with a watchdog *)

SetFetcher(a, f) == fetcher' = [fetcher EXCEPT ![a] = f]
At(a, pc) == fetcher[a].pc = pc

\* docfetching_proxy_task takes the task, which is acknowledged at once, and spawns
\* the process.
Spawn(a) ==
    /\ At(a, "queued")
    /\ SetFetcher(a, [fetcher[a] EXCEPT !.pc = "spawned"])
    /\ UNCHANGED <<row, newer, files, queue, worker, monitor, indexed, paused, late, faults>>

\* _docfetching_task up to transition_attempt_to_in_progress: a stop signal, a
\* finished attempt or a requested cancellation ends the process.
Start(a) ==
    /\ At(a, "spawned")
    /\ IF Stopped(a) \/ row[a].status # "NOT_STARTED" \/ row[a].cancel
       THEN SetFetcher(a, Dead) /\ UNCHANGED <<row, newer>>
       ELSE Mark(a, "IN_PROGRESS") /\ SetFetcher(a, [fetcher[a] EXCEPT !.pc = "window"])
    /\ UNCHANGED <<files, queue, worker, monitor, indexed, paused, late, faults>>

\* The window: from the end of the last successful attempt, up to where an attempt
\* that failed just before wanted to go, or now.
StartOf(a) == IF row[a].reindex THEN 0 ELSE LastSuccess(a)
EndOf(a, recent) ==
    IF /\ recent # {}
       /\ row[Latest(recent)].upto # Null /\ row[Latest(recent)].status \in {"FAILED", "CANCELED"}
    THEN row[Latest(recent)].upto ELSE a
Windowed(a) == [row[a] EXCEPT !.start = StartOf(a), !.upto = EndOf(a, RecentCompleted(a))]

\* Mutant: batches are reissued only for a connector that has finished.
ResumesFinished(recent, valid, begin) ==
    recent # {} /\ row[Latest(recent)].total # Null /\ begin = NumBatches
\* Mutant: batches are reissued only for connectors with checkpoints.
ResumesCheckpoint(recent, valid, begin) == Checkpointed /\ valid # Null

\* A checkpoint is taken up, or the connector had already finished.
Resumes(recent, valid, begin) ==
    \/ Checkpointed /\ valid # Null
    \/ recent # {} /\ row[Latest(recent)].total # Null /\ begin = NumBatches

\* Where to start in the window: afresh, after the batches of an earlier attempt, or,
\* a connector without checkpoints, from its checkpoint alone.  The counter of the
\* most recent attempt is read here and used in Recount.
Begin(a, recent, valid) ==
    LET at == IF valid = Null THEN 0 ELSE valid
    IN  IF row[a].reindex \/ (recent # {} /\ row[Latest(recent)].status \in Successful)
        THEN [NoFetcher EXCEPT !.pc = "save"]
        ELSE IF Resumes(recent, valid, at)
        THEN [NoFetcher EXCEPT !.pc = "list", !.checkpoint = at, !.at = at,
                               !.old = IF recent = {} THEN 0 ELSE row[Latest(recent)].completed]
        ELSE [NoFetcher EXCEPT !.pc = "save", !.checkpoint = at, !.at = at]

\* connector_document_extraction up to the first checkpoint
Window(a) ==
    LET f == Begin(a, RecentCompleted(a),
                   LatestValidCheckpoint(a, Windowed(a).start, Windowed(a).upto))
    IN  /\ At(a, "window")
        /\ Write(a, Windowed(a))
        /\ files' = IF f.pc = "list" THEN files ELSE CleanupAllBatches(files, row[a].pair)
        /\ SetFetcher(a, f)
        /\ UNCHANGED <<queue, worker, monitor, indexed, paused, late, faults>>

\* _get_connector_runner raises after the window is committed: the connector
\* cannot be instantiated or its settings do not validate.
SetupRaises(a) ==
    /\ At(a, "window") /\ "window" \in FaultPoints /\ Fault
    /\ Write(a, Windowed(a))
    /\ SetFetcher(a, Dead)
    /\ UNCHANGED <<files, queue, worker, monitor, indexed, paused, late>>

\* reissue_old_batches, in three steps: list the files, rename them, send the tasks.
List(a) ==
    /\ At(a, "list")
    /\ SetFetcher(a, [fetcher[a] EXCEPT !.pc = "rename", !.todo = AllBatches(files, row[a].pair)])
    /\ UNCHANGED <<row, newer, files, queue, worker, monitor, indexed, paused, late, faults>>

\* A file that was deleted in between raises.
Rename(a) ==
    LET old == fetcher[a].todo
    IN  /\ At(a, "rename")
        /\ IF old \subseteq files
           THEN /\ \E s \in Survivors(old) : files' = MoveBatches(files, old, s, row[a].pair, a)
                /\ SetFetcher(a, [fetcher[a] EXCEPT !.pc = "reissue"])
           ELSE /\ \E part \in SUBSET (old \cap files) : \E s \in Survivors(part) :
                        files' = MoveBatches(files, part, s, row[a].pair, a)
                /\ SetFetcher(a, Dead)
        /\ UNCHANGED <<row, newer, queue, worker, monitor, indexed, paused, late, faults>>

\* A file of another cc_pair in the list raises when its turn comes.
Reissue(a) ==
    LET own == {f \in fetcher[a].todo : f.pair = row[a].pair}
        Sent(s) == queue' = queue \cup {Task(a, f.num, "reissued") : f \in s}
    IN  /\ At(a, "reissue")
        /\ IF own = fetcher[a].todo
           THEN Sent(own) /\ SetFetcher(a, [fetcher[a] EXCEPT !.pc = "recount"])
           ELSE (\E s \in SUBSET own : Sent(s)) /\ SetFetcher(a, Dead)
        /\ UNCHANGED <<row, newer, files, worker, monitor, indexed, paused, late, faults>>

\* Mutant: reissued batches are counted as completed.
RecountReissued(a) ==
    LET f == fetcher[a]
        n == f.old + Cardinality(f.todo)
    IN  /\ At(a, "recount")
        /\ Write(a, [row[a] EXCEPT !.completed = n])
        /\ SetFetcher(a, [f EXCEPT !.pc = "save", !.num = n, !.todo = {}, !.old = 0])
        /\ UNCHANGED <<files, queue, worker, monitor, indexed, paused, late, faults>>

\* Mutant: the batches completed before are left out of the next number.
RecountForgets(a) ==
    LET f == fetcher[a]
    IN  /\ At(a, "recount")
        /\ IF f.old = 0 THEN UNCHANGED <<row, newer>>
           ELSE Write(a, [row[a] EXCEPT !.completed = f.old])
        /\ SetFetcher(a, [f EXCEPT !.pc = "save", !.num = Cardinality(f.todo), !.todo = {}, !.old = 0])
        /\ UNCHANGED <<files, queue, worker, monitor, indexed, paused, late, faults>>

\* last_batch_num = reissued + completed, and the counter of the new attempt; the
\* assignment of a value the row was loaded with writes nothing.
Recount(a) ==
    LET f == fetcher[a]
    IN  /\ At(a, "recount")
        /\ IF f.old = 0 THEN UNCHANGED <<row, newer>>
           ELSE Write(a, [row[a] EXCEPT !.completed = f.old])
        /\ SetFetcher(a, [f EXCEPT !.pc = "save", !.num = Cardinality(f.todo) + f.old,
                                   !.todo = {}, !.old = 0])
        /\ UNCHANGED <<files, queue, worker, monitor, indexed, paused, late, faults>>

\* save_checkpoint, before the first and after every run of the connector
SaveCheckpoint(a) ==
    LET f == fetcher[a]
    IN  /\ At(a, "save")
        /\ Write(a, [row[a] EXCEPT !.checkpoint = f.checkpoint])
        /\ SetFetcher(a, [f EXCEPT !.pc = IF f.checkpoint < NumBatches THEN "run" ELSE "total"])
        /\ UNCHANGED <<files, queue, worker, monitor, indexed, paused, late, faults>>

\* The checks at the head of the extraction loop.
MayGoOn(a) == ~ Stopped(a) /\ row[a].status = "IN_PROGRESS"

\* The connector yields a batch, which is stored under the next number,
Fetch(a) ==
    LET f == fetcher[a]
    IN  /\ At(a, "run") /\ f.at < NumBatches /\ MayGoOn(a)
        /\ files' = StoreBatch(files, BatchFile(row[a].pair, a, f.num, Doc(a, f.at + 1)))
        /\ SetFetcher(a, [f EXCEPT !.pc = "send", !.at = f.at + 1])
        /\ UNCHANGED <<row, newer, queue, worker, monitor, indexed, paused, late, faults>>

\* and its task is sent.
Send(a) ==
    LET f == fetcher[a]
    IN  /\ At(a, "send")
        /\ queue' = queue \cup {Task(a, f.num, "fetched")}
        /\ SetFetcher(a, [f EXCEPT !.pc = "run", !.num = f.num + 1])
        /\ UNCHANGED <<row, newer, files, worker, monitor, indexed, paused, late, faults>>

\* The connector returns the next checkpoint; one without checkpoints returns only
\* at the end.
Return(a) ==
    LET f == fetcher[a]
    IN  /\ At(a, "run") /\ MayGoOn(a)
        /\ f.at > f.checkpoint /\ (Checkpointed \/ f.at = NumBatches)
        /\ SetFetcher(a, [f EXCEPT !.pc = "save", !.checkpoint = f.at])
        /\ UNCHANGED <<row, newer, files, queue, worker, monitor, indexed, paused, late, faults>>

\* A stop signal or a canceled attempt: the attempt is canceled, the process ends.
StopSignal(a) ==
    /\ At(a, "run") /\ (Stopped(a) \/ row[a].status = "CANCELED")
    /\ Mark(a, "CANCELED")
    /\ SetFetcher(a, Gone)
    /\ UNCHANGED <<files, queue, worker, monitor, indexed, paused, late, faults>>

\* The generic except branch: failed and canceled attempts keep their status.
Raise(a) ==
    /\ IF row[a].status \in {"FAILED", "CANCELED"} THEN UNCHANGED <<row, newer>> ELSE Mark(a, "FAILED")
    /\ SetFetcher(a, Dead)
    /\ UNCHANGED <<files, queue, worker, monitor, indexed, paused, late>>

\* The attempt is no longer in progress.
NotRunning(a) ==
    /\ At(a, "run") /\ ~ Stopped(a) /\ row[a].status \notin {"IN_PROGRESS", "CANCELED"}
    /\ Raise(a) /\ UNCHANGED faults

ConnectorRaises(a) ==
    /\ At(a, "run") /\ Fault
    /\ Raise(a)

\* ConnectorValidationError: canceled whatever the status was.
ValidationError(a) ==
    /\ At(a, "run") /\ Fault
    /\ Mark(a, "CANCELED")
    /\ SetFetcher(a, Dead)
    /\ UNCHANGED <<files, queue, worker, monitor, indexed, paused, late>>

\* set_total_batches: nothing asks for the status.
SetTotalBatches(a) ==
    /\ At(a, "total")
    /\ Write(a, [row[a] EXCEPT !.total = fetcher[a].num])
    /\ SetFetcher(a, Gone)
    /\ UNCHANGED <<files, queue, worker, monitor, indexed, paused, late, faults>>

\* The watchdog reports a process that ended with an exception.
Watchdog(a) ==
    /\ At(a, "dead")
    /\ IF row[a].status \notin Terminal /\ row[a].total = Null
       THEN Mark(a, "FAILED") ELSE UNCHANGED <<row, newer>>
    /\ SetFetcher(a, Gone)
    /\ UNCHANGED <<files, queue, worker, monitor, indexed, paused, late, faults>>

\* The pod of process and watchdog is killed, or the broker loses the task.
KillFetcher(a) ==
    /\ fetcher[a].pc \in FaultPoints \cap FetchSteps /\ Fault
    /\ SetFetcher(a, Gone)
    /\ UNCHANGED <<row, newer, files, queue, worker, monitor, indexed, paused, late>>

----------------------------------------------------------------------------
(* docprocessing: a task is acknowledged when it has ended *)

SetWorker(w, v) == worker' = [worker EXCEPT ![w] = v]
Holds(w, pc) == worker[w].pc = pc

\* get_batch and the checks that follow: without a file the task returns, with an
\* attempt that has ended or a stop signal it raises.
Take(w, t) ==
    LET found == GetBatch(files, row[t.attempt].pair, t.attempt, t.num)
    IN  /\ Holds(w, "idle") /\ t \in queue
        /\ queue' = queue \ {t}
        /\ IF found = {} \/ row[t.attempt].status \in Terminal \/ Stopped(t.attempt)
           THEN UNCHANGED worker
           ELSE \E d \in found : SetWorker(w, [pc |-> "got", task |-> t, doc |-> d])
        /\ UNCHANGED <<row, newer, fetcher, files, monitor, indexed, paused, late, faults>>

\* run_indexing_pipeline writes the documents to the index, or gives them up as
\* failures that are recorded later.
Process(w) ==
    LET a == worker[w].task.attempt
    IN  /\ Holds(w, "got")
        /\ \/ /\ indexed' = [indexed EXCEPT ![row[a].settings] = @ \cup {worker[w].doc}]
              /\ SetWorker(w, [worker[w] EXCEPT !.pc = "count", !.doc = NoDoc])
              /\ UNCHANGED faults
           \/ /\ DocFailures /\ Fault
              /\ SetWorker(w, [worker[w] EXCEPT !.pc = "count"])
              /\ UNCHANGED indexed
        /\ UNCHANGED <<row, newer, fetcher, files, queue, monitor, paused, late>>

\* run_indexing_pipeline raises.
ProcessRaises(w) ==
    /\ Holds(w, "got") /\ Fault
    /\ SetWorker(w, NoWork)
    /\ UNCHANGED <<row, newer, fetcher, files, queue, monitor, indexed, paused, late>>

\* update_batch_completion_and_docs, before the failures are recorded
Count(w) ==
    LET a == worker[w].task.attempt
    IN  /\ Holds(w, "count")
        /\ Write(a, [row[a] EXCEPT !.completed = @ + 1, !.docs = @ \/ worker[w].doc = NoDoc])
        /\ SetWorker(w, [worker[w] EXCEPT !.pc = IF worker[w].doc = NoDoc
                                                 THEN "delete" ELSE "errors"])
        /\ UNCHANGED <<fetcher, files, queue, monitor, indexed, paused, late, faults>>

\* create_index_attempt_error; past the threshold _check_failure_threshold raises
\* and the file stays.
RecordErrors(w, raises) ==
    LET a == worker[w].task.attempt
    IN  /\ Holds(w, "errors")
        /\ row' = [row EXCEPT ![a].errors = TRUE] /\ UNCHANGED newer
        /\ SetWorker(w, IF raises THEN NoWork ELSE [worker[w] EXCEPT !.pc = "delete", !.doc = NoDoc])
        /\ UNCHANGED <<fetcher, files, queue, monitor, indexed, paused, late, faults>>

\* delete_batch_by_num, then the task is acknowledged
Delete(w) ==
    LET t == worker[w].task
    IN  /\ Holds(w, "delete")
        /\ files' = DeleteBatch(files, row[t.attempt].pair, t.attempt, t.num)
        /\ SetWorker(w, NoWork)
        /\ UNCHANGED <<row, newer, fetcher, queue, monitor, indexed, paused, late, faults>>

\* A worker is killed: its task, not acknowledged, is delivered again.
KillWorker(w) ==
    /\ worker[w].pc \in FaultPoints \cap WorkSteps /\ Fault
    /\ queue' = queue \cup {worker[w].task}
    /\ SetWorker(w, NoWork)
    /\ UNCHANGED <<row, newer, fetcher, files, monitor, indexed, paused, late>>

----------------------------------------------------------------------------
Monitor ==
    \/ \E p \in CCPairs, s \in Settings, r \in Reindexing, sent \in BOOLEAN : CreateAttempt(p, s, r, sent)
    \/ \E a \in Attempts : HeartbeatTimeout(a) \/ Watch(a)
    \/ CheckProgress \/ Finish \/ CleanUp \/ MonitorFails

FetchStep(a) ==
    \/ Spawn(a) \/ Start(a) \/ Window(a) \/ List(a) \/ Rename(a) \/ Reissue(a) \/ Recount(a)
    \/ SaveCheckpoint(a) \/ Fetch(a) \/ Send(a) \/ Return(a) \/ StopSignal(a) \/ NotRunning(a)
    \/ SetTotalBatches(a) \/ Watchdog(a)

WorkStep(w) ==
    \/ \E t \in queue : Take(w, t)
    \/ Process(w) \/ Count(w) \/ Delete(w)
    \/ \E r \in BOOLEAN : RecordErrors(w, r)

Next ==
    \/ Monitor
    \/ \E p \in CCPairs : Pause(p) \/ Resume(p)
    \/ \E a \in Attempts : FetchStep(a) \/ Heartbeat(a) \/ TimePasses(a) \/ SetupRaises(a)
                            \/ ConnectorRaises(a) \/ ValidationError(a) \/ KillFetcher(a)
    \/ \E w \in Workers : WorkStep(w) \/ ProcessRaises(w) \/ KillWorker(w)

Spec == Init /\ [][Next]_vars

\* The beat comes again and again and goes over every attempt each time, so it
\* meets an attempt that is in the same state at every beat; a worker or a
\* fetcher that is not killed goes on; time passes.
Fairness ==
    /\ \A a \in Attempts : /\ SF_vars(HeartbeatTimeout(a)) /\ SF_vars(Watch(a))
                           /\ WF_vars(FetchStep(a)) /\ WF_vars(TimePasses(a))
    /\ WF_vars(CheckProgress \/ Finish \/ CleanUp)
    /\ \A w \in Workers : WF_vars(WorkStep(w))

FairSpec == Spec /\ Fairness

----------------------------------------------------------------------------
(* Properties *)

RowType ==
    [status : {"none"} \cup Active \cup Terminal, pair : CCPairs \cup {Null},
     settings : Settings \cup {Null}, reindex : BOOLEAN, total : Nat \cup {Null},
     completed : Nat, docs : BOOLEAN, start : Nat \cup {Null}, upto : Nat \cup {Null},
     checkpoint : Positions \cup {Null}, cancel : BOOLEAN, errors : BOOLEAN,
     tracked : Nat \cup {Null}]
DocType  == [pair : CCPairs, start : Nat, upto : Nat, pos : Positions]
FileType == [pair : CCPairs, attempt : Attempts, num : Nat, doc : DocType]
TaskType == [attempt : Attempts, num : Nat, kind : {"fetched", "reissued"}]

\* Rows, files, tasks and processes have the form the code gives them.
TypeOK ==
    /\ row \in [Attempts -> RowType]
    /\ newer \in [Attempts -> SUBSET Attempts]
    /\ \A a \in Attempts :
         fetcher[a] \in [pc : FetchSteps \cup {"none", "gone", "dead"}, num : Nat, at : Positions,
                        checkpoint : Positions, todo : SUBSET FileType, old : Nat]
    /\ files \subseteq FileType
    /\ queue \subseteq TaskType
    /\ \A w \in Workers :
         worker[w] \in [pc : {"idle"} \cup WorkSteps, task : TaskType \cup {NoTask}, doc : DocType \cup {NoDoc}]
    /\ monitor \in [pc : {"idle", "check", "finish", "cleanup"}, attempt : Attempts \cup {Null},
                    total : Nat \cup {Null}, completed : Nat, errors : BOOLEAN]
    /\ \A s \in Settings : indexed[s] \subseteq DocType
    /\ paused \subseteq CCPairs
    /\ late \subseteq Attempts
    /\ faults \in 0 .. MaxFaults

\* At most one attempt of a cc_pair is active for one search setting: the "fence"
\* of try_create_index_attempt, on which everything below relies.
OneActive ==
    \A a, b \in Created : /\ row[a].status \in Active /\ row[b].status \in Active
                          /\ SameTarget(a, b)
                          => a = b

\* An attempt that is marked a success has every document of its window in the
\* index: the next window begins where this one ends, so what is missing now is
\* never fetched again.
SuccessMeansIndexed ==
    \A a \in Created : row[a].status = "SUCCESS" => WindowDocs(a) \subseteq indexed[row[a].settings]

\* What an attempt in progress has put behind it, fetched by itself or by the
\* attempt whose checkpoint it took over, is in the index or in a batch file that
\* a later attempt would find.
BehindIt(a) == IF row[a].total # Null THEN 1 .. NumBatches ELSE 1 .. fetcher[a].at
FetchedIsKept ==
    \A a \in Created : row[a].status = "IN_PROGRESS" =>
        \A i \in BehindIt(a) :
            \/ Doc(a, i) \in indexed[row[a].settings]
            \/ \E f \in AllBatches(files, row[a].pair) : f.doc = Doc(a, i)

\* The next number a fetcher gives is greater than that of every batch that waits
\* in the attempt's files: store_batch would replace one that carries the number.
NumbersAreFresh ==
    \A a \in Created : fetcher[a].pc \in {"save", "run"} =>
        \A f \in files : f.pair = row[a].pair /\ f.attempt = a => f.num < fetcher[a].num

\* No attempt of the target was created after a.
Newest(a) == \A b \in Created : SameTarget(a, b) => b <= a

\* A success is final: the window of the next attempt is computed from it, and no
\* zombie process, late beat, stall check or administrator may take it back.  Only
\* the monitor that has written it may, by raising before it is done with this
\* attempt, and nothing was built on the success by then.
SuccessIsFinal ==
    [][\A a \in Attempts : row[a].status \in Successful =>
         \/ row'[a].status = row[a].status
         \/ /\ monitor.pc = "cleanup" /\ monitor.attempt = a
            /\ row'[a].status = "FAILED"
            /\ Newest(a)]_vars

\* Every attempt ends, whatever is killed or lost on its way: otherwise the
\* cc_pair would never be indexed again, since one active attempt holds off all
\* others.
AttemptsEnd ==
    \A a \in Attempts : row[a].status \in Active ~> row[a].status \in Terminal

\* A batch is counted once: what an attempt has counted and what is still to come
\* never exceeds the total it waits for.
CountedOnce ==
    \A a \in Created : row[a].total # Null => row[a].completed <= row[a].total

\* An attempt that still waits for a docfetching worker is not held to have stalled:
\* a look at it while its task is in the queue starts its time afresh.
WaitingIsNotStalling ==
    [][\A a \in Attempts :
         monitor.pc = "check" /\ monitor' # monitor /\ monitor.attempt = a
         /\ row[a].status = "NOT_STARTED" /\ row'[a].status = "NOT_STARTED" /\ TaskExists(a)
         => a \notin late']_vars
====
