# A formal model of rag-security-platform

TLA+ modules, TLC configurations and TLAPS proofs for three parts of this
repository. The evidence pipeline decides whether a deployment may launch: the
integration adapter (`integration-adapter/integration_adapter/`) turns data of an
Onyx instance into a bundle of evidence files, seals the bundle with an integrity
manifest, evaluates a launch gate over it and deletes old files. The tool router
decides whether a tool may run: `myStarterKit-maindashb-main/tools/` mediates
every tool call of the runtime by delegation, capability, policy, confirmation
and rate limit. The background tasks of Onyx (`onyx-main/backend/onyx/`) bring
documents into the index, keep them in step with the tables, and take them out
again: indexing, synchronisation, deletion and pruning.

Paths below are relative to the repository root; `pipeline.py`,
`integrity.py` and so on are files of `integration-adapter/integration_adapter/`,
and `tools/...`, `policies/...`, `identity/...`, `app/...` are directories of
`myStarterKit-maindashb-main/`. Paths that begin with `background/`, `db/`,
`redis/`, `indexing/`, `file_store/` or `connectors/` are under
`onyx-main/backend/onyx/`; there `tasks/x` is short for
`background/celery/tasks/x/tasks.py`.

## 1. The system

| Part | State it keeps | Operations | Talks to |
|---|---|---|---|
| Artifact writer (`artifact_output.py`, `config.py`) | the files of the artifacts root | one write per family of file, truncating in place | pipeline |
| Generation pipeline (`pipeline.py`) | the payload and paths of one run, in memory | collect, write, except branch, embedded gate, safeguards, seal | all of the adapter |
| Commands (`evidence_pipeline.py`, `ci_smoke.py`, `generate_artifacts.py`, `run_launch_gate.py`, `artifact_retention.py`, `verify_artifact_integrity.py`) | an exit status | one process each | each other, only through the root |
| Integrity (`integrity.py`) | the manifest file | build, verify | writer, gate, retention |
| Launch gate (`launch_gate_evaluator.py`) | report files named after the second | nineteen checks, two reports | reads everything |
| Retention (`artifact_retention.py`) | the outcome file | protect, stat, unlink | reads manifest and reports |
| Safeguards (`env_profiles.py`) | none | decide whether a run may be sealed | pipeline |
| Collection (`exporters.py`, `raw_sources.py`, `translators.py`, `mappers.py`) | diagnostics of each exporter | choose a source, fall back | Onyx |
| Health report, bridge, validation, scenario and report writers | none | read and print | the root |
| Tool router (`tools/router.py`, `capabilities.py`, `rate_limit.py`) | consumed capabilities, a queue of times per tenant, actor and tool | route, mediate and execute, issue | policy engine, registry, sandbox, gateway |
| MCP gateway, sandbox, registry (`tools/`) | none during a call but the attempts left | execute a call, retry it | servers, subprocesses |
| Policy engine and identity (`policies/`, `identity/`) | a loaded policy | evaluate an action, validate a delegation | router, orchestrator |
| Rest of the starter kit | registries, audit sink | orchestrate a request, retrieve, audit, evaluate | its own artifacts |
| Onyx indexing (`tasks/docfetching`, `tasks/docprocessing`, `background/indexing/`, `db/indexing_coordination.py`) | a row per index attempt, batch files, a queue of tasks | create an attempt, fetch, take over, process, watch, finish, cancel | each other through rows, files and the queue |
| Onyx synchronisation and deletion (`tasks/vespa`, `tasks/shared`, `tasks/connector_deletion`) | rows of documents and pairs; per operation a fence and a set of task ids in Redis | sync, clean up, send, monitor, validate | index, indexing, pruning |
| Onyx pruning (`tasks/pruning`, `redis/redis_connector_prune.py`) | a fence, a completion and a set of task ids in Redis | list the source, compare, send cleanup tasks, monitor, validate | deletion, through fences and the stop signal |
| Rest of Onyx: connectors, other tasks, chat, API, user interface | tables of its own | requests around external services | services, models |

What is hard about the adapter is that the commands share a directory and
nothing else. There is no lock, no temporary name with a rename, and no
transaction over the dozen files of a bundle. A run can end between any two
files, inside one, in an `except` branch that writes a file itself, or by a
refusal that comes after the files and before the manifest. The gate runs twice
in a pipeline, reads files of earlier runs, and writes reports under names that
have a resolution of one second. Retention deletes files by age in the same
directory.

What is hard about the router is the order of its guards and their memory. A
capability is spent before the policy, the confirmation and the limiter are
asked; the orchestrator's proposals go through the same limiter as calls; the
limiter drops times while it refuses; policy, delegation and token each have
their own end; and a gateway retries a call that may have had its effect.

What is hard about the Onyx tasks is that nothing holds them together but marks
that each task sets and reads: a status, a counter, a fence, a set of ids, two
times. A task may be lost in the broker, killed, delivered again, or go on after
the operation it belongs to was given up. A beat task looks at the marks every
few seconds, acts on what it has read before, and has to guess from silence that
something died. Batches are taken over from an attempt that failed, with their
numbers and its checkpoint. A document belongs to several pairs, and the task
that removes it from one counts the references without asking whose they are.

What makes each part correct:

- writer and pipeline: what verifies is one run's output, complete, and the run
  was neither refused nor failed;
- integrity: what was just built verifies under the settings it was built with;
- gate: a pass was earned by the evidence of one sealed run, and sound evidence
  passes;
- retention: it never breaks a bundle that verifies, nor loses the newest
  passing report;
- commands: each one ends;
- capabilities: one runs at most once, for whom it was issued, in time, under the
  policy in force;
- limiter: no window, wherever it begins, holds more than the limit;
- execution: a call that was started ends, with a bounded number of attempts;
- indexing: one attempt at a time per pair and search setting; a success means
  that the whole window is indexed, and is final; what was fetched is kept for
  the next attempt; every attempt ends;
- synchronisation and deletion: index and tables agree where nobody is at work, a
  pair that is gone grants nothing, an active pair keeps its documents, and both
  operations end;
- pruning: an active pair keeps what its source has, a pruning leaves no mark
  that a later operation would misread, and it ends.

`PROJECT.json` lists every component with its status and every hazard with the
line where it bites.

## 2. The modules

| Module | What it is | Source |
|---|---|---|
| `ArtifactStore` | a store of files: names, contents, cut-off forms, put and unlink | `artifact_output.py` |
| `Integrity` | building and verifying the manifest, as operators | `integrity.py` |
| `LaunchGate` | the nineteen checks, as operators | `launch_gate_evaluator.py` |
| `Retention` | rules and protected set, as operators | `artifact_retention.py` |
| `EvidencePipeline` | the state machine that composes the four, and all properties | `pipeline.py`, commands, `env_profiles.py` |
| `BundleLedger` | the abstract specification that it implements | |
| `ToolRouter` | the state machine of mediated tool calls, and its properties | `tools/router.py`, `capabilities.py`, `rate_limit.py`, `mcp_security.py`, `registry.py`, `sandbox.py`, decisions of `policies/engine.py`, `identity/models.py` |
| `BatchStorage` | batch files by name, as operators | `file_store/document_batch_storage.py` |
| `IndexingPipeline` | the state machine of index attempts, EXTENDS `BatchStorage` | `tasks/docfetching`, `tasks/docprocessing`, `background/indexing/run_docfetching.py`, `checkpointing_utils.py`, `db/indexing_coordination.py`, `db/index_attempt.py` |
| `DocumentSync` | the state machine of documents: sync, deletion, and indexing beside them | `tasks/vespa`, `tasks/shared`, `tasks/connector_deletion`, `redis/redis_connector_delete.py`, `db/document.py` |
| `Pruning` | composes pruning with `DocumentSync`, which it EXTENDS | `tasks/pruning`, `redis/redis_connector_prune.py`, `tasks/connector_deletion` |
| `MCEvidence`, `MCTools`, `MCIndexing`, `MCDocuments`, `MCPruning` | instances for TLC | |
| `EvidenceTypes` | type correctness: inductive invariant and proof; whose files a process writes, step by step; what a sealed prod-like run was given | |
| `EvidenceSafety` | EXTENDS it: a verifying bundle is one run, failed runs spoil it, a generation that succeeds verifies, retention spares it | |
| `EvidenceVerdict` | EXTENDS it: no evaluation is a go, sealed reports, earned verdicts, no false alarms, the refinement of the ledger | |
| `ToolRouterSafety` | the limiter's loop, types, windows, single use, authorisation, high-risk runs | |
| `IndexingSafety` | one active attempt, final success, types: invariants and proofs | |
| `IndexingTakeOver` | EXTENDS it: what is fetched is kept and counted once, a success is complete, over any number of attempts that take over from each other | |
| `DocumentSafety` | about `DocumentSync`: types, grants of a pair that is gone, shared documents, index and rows | |
| `PruningSafety` | about `Pruning`, EXTENDS `DocumentSafety`: types, what a pruning leaves behind, what it keeps | |

### State

`fs` maps the files that exist to `[stamp, form, data]`. `stamp` is the run whose
`generated_at`, or freshly made event ids, the bytes carry; two runs over equal
data write equal bytes into a file that has no such field, and the model keeps
that, because hashes compare bytes. `form` is `whole`, or what a cut-off write
leaves: JSON that does not parse, and for files of JSON lines also an empty file
or a prefix that parses. `data` is the evidence, reduced to what a check tells
apart (`Payload`): a percentage of missing values instead of rows, `passing` or
`failing` instead of scenarios. A manifest's data maps file names to the contents
it hashed, so equal digests mean equal contents.

`mtime` and `clock` count seconds, `runs` is the list of commands started so far
with how each ended, and `proc` says for each process slot which phase it is in
and which files are still to write. `sealed`, `judged` and `verdict` of a run are
history: no guard reads them.

### Actions

Every command is a process. `StartGenerator` and `StartBlocked` are the two ways
that `generate_artifacts` leaves `_raise_on_blocked_compatibility`; `Open` and
`Close` are the truncation of a file and its completion, for every file in the
order of `Plan`; `EventRejected` and `WriteFails` enter the `except` branch
(`Fail`), which writes a summary and raises again (`FailureReported`);
`BundleWritten`, `Evaluate` (one check), `Evaluated` and the two report files are
the gate; `SafeguardsRefuse` or `SafeguardsAllow` follow; the manifest is one
more file, or `SealRefused`; `Generated` or `GateAgain` and `GateDone` end the
command. Retention fixes its protected set and its candidates at the start
(`StartRetention`), then takes one `stat` at a time: `VisitGone`, `Skip`,
`Delete`, and at the end writes its outcome file.

`Crash` ends a process at any step. It stands for a kill and for any exception
that no handler catches, for instance a failed write of the health summary or of
a report.

### Abstractions to know about

- One check of the gate reads the root in one step, and so do the glob and the
  protected set of retention; between two checks anything may happen.
- The files that one phase writes fall into one second: `Tick` is enabled when
  processes are idle or about to begin an evaluation. That is where the second
  matters, since reports are named after it and ages are taken from it.
- The safeguards' forced demo has synthetic runtime evidence, which the same
  operator refuses.
- `ensure_dirs` has no action: empty directories make no difference to any check.
- A gate that finds a file gone between its glob and its read raises; that is a
  `Crash`.

### The tool router

A call of the code is one step: the kit is synchronous and handles one call at a
time. `Mediate` is `mediate_and_execute` up to the executor and `Propose` is
`route` as the orchestrator calls it. Both go through `Route`, whose guards are
the predicates `Acceptable`, `Authorised`, `Approved`, `Confirmed` and
`WithinLimit` in the order of the code. What a rejected call changes depends on
how far it came: nothing before the validator, its capability after it
(`Spends`), the queue of its key once the limiter is asked (`Counted`). An
admitted call is in `call` until its executor ends it: `Returns` and `Raises`
for a local executor or the sandbox, `GatewayRefuses`, `Answered`,
`AnsweredBadly`, `TransportFails` and `GivesUp` for the gateway, `NoExecutor`
for a registry without one. `Restart` is a new process, perhaps with another
policy: it forgets consumed capabilities and queues, while the tokens stay with
their holders. `admitted` and `ran` are history; no guard reads `admitted`, and
`ran` only bounds the behaviours.

A call presents a token that was issued, one that nobody issued (`Forged`), or
none. The validator parses JSON and compares fields (`TokenFits`), so it cannot
tell the first two apart, and `RunsAreAuthorised` promises fields that fit, not
that the issuer has made them. `docs/evidence_pack/residual_risks.md:56` of the kit
lists this: "Capability tokens are currently JSON payloads validated structurally".
`capabilities` has two such tokens, one of them under the id of an issued one;
what holds where callers make none up is the theorem `IssuedCorrect`.

Abstractions of the router:

- The clock stands still during one decision; it ticks between decisions and
  while a call is executed. It does not step back.
- An invocation takes actor and tenant from its identity, as all callers in the
  kit do, so the policy engine's comparison of tenants holds. Names and arguments
  that do not parse are one case (`wellFormed`); a token that does not parse is
  rejected like none (`NoToken`).
- The operations of a capability are a set; the list of the code may repeat one,
  which only makes it larger for the over-scope guard.
- Names contain no colon, so that the limiter's key is a triple.
- One version stands for the policy, the issuer and the validator of a process.
- Audit events of route and issue are left out; a sink that fails during a call
  of the gateway is part of `TransportFails` and `GatewayRefuses`.

### Indexing

`row` is the table of index attempts and `newer` ranks those that have ended by
`time_updated`, which every write to a row moves, a heartbeat of a process that
outlives its attempt included; the code looks for "the most recent attempt" in
that order, and only among attempts that have ended. An attempt goes from `CreateAttempt` (fence,
row and task in one step, under the lock of `check_for_indexing`) through
`Spawn` and `Start` to `Window`, where its window and checkpoint are settled;
`List`, `Rename`, `Reissue` and `Recount` take over the batches of an earlier
attempt, one of the writes of `reissue_old_batches` each; then `SaveCheckpoint`,
`Fetch` (a batch is stored), `Send` (its task is sent) and `Return` go round
until `SetTotalBatches`. A worker has `Take`, `Process`, `Count`, `RecordErrors`
and `Delete`, the commits of `_docprocessing_task`. The beat task looks at an
attempt in three steps (`Watch`, `CheckProgress` or `Finish`, `CleanUp`) and
acts on what the first of them has read; `HeartbeatTimeout` is its other half.
`MonitorFails` is its `except` branch, also after `Finish` has committed the status.
`KillFetcher`, `KillWorker`, `Raise` and `MonitorFails` are faults, `Watchdog`
notices a dead process, `Pause` and `Resume` are the administrator.

Abstractions: a document stands for the batch it comes in; a window of time is a
pair of numbers of attempts; a source has the same number of batches in every
window; heartbeats are their effect on `time_updated` and the fact that a process
beats. `TimePasses` lets half a stall timeout go by where `MayStall` allows it;
where it does not, nobody reads what `update_progress_tracking` wrote, and
`CheckProgress` keeps of that write only that it may move the row in `newer`.

Two parameters name what the environment does. `FaultPoints` are the steps at
which a fault may strike: `SafePoints` are those after which the code recovers;
at the others it does not, as the list below shows. `QuietRestart` says that an
attempt starts only when the processes of the one before have gone.

### Documents

`row`, `refs` and `index` say of a document what the tables and the index have:
its flag `hidden`, whether it is waiting to be synced (`stale`: only the order of
`last_modified` and `last_synced` counts), its pairs, and in the index its
metadata, of which access stands for all. `fence` and `taskset` are the keys in
Redis, `queue` the broker, `worker` a thread of the light worker. A task goes
`Take`, `Start` (it counts the references), then `DeleteIndexed` and `EraseRows`
for the last one, or `Read`, `UpdateIndex` and `MarkSynced`, then `Ack`, which
takes its id away: each is one transaction or one call of the code, and anything
may come between two. The beat has `GenerateDeletion`, `DeletionMonitor` and
`Validate` for a pair, `GenerateSync` and `SyncMonitor` for synchronisation.
`TakeBatch` to `Report` is indexing as far as it writes metadata, with the
lock that it takes on the row and the others do not. A document that is not
embedded or not written is a failure of this document and no exception
(`WriteFails`): `PostIndex` marks it like the others, and `Report` records it.
`IndexingRaises` is the exception that `index_doc_batch_with_handler` turns into
such failures. `failed` says whose last indexing of a document failed; the
`IndexAttemptError` that tells so lives as long as the pair. The call of the task has
`ignore_time_skip=True` (`tasks/docprocessing:1477`), so no document is skipped as up
to date.

Faults are chosen by name (`Faults`): a task lost in the broker, killed, killed
between its commit and the acknowledgement, raising until its last attempt,
refused by the index; a beat task that dies while it sends, or between an id and
its task; an hour that passes while tasks wait (`ACTIVE_TTL`); a document that
fails to be indexed (`unindexed`); a docprocessing task that ends without its report
(`abandoned`); and, of a pruning, a generator that raises while tasks of its pair
are alive (`midway`). A soft time limit counts as refused. `Undisturbed` says
that nothing else touches a document between the first and the last step of a
task on it, which the code does not enforce.

### Pruning

A pruning is `CheckPrune` and `CreatePrune`, the checks and the fence of
`try_creating_prune_generator_task`, apart from each other, as a deletion may
begin between them; the generator, which goes through `Begin`, `Extract`,
`Compare`, one `Send` per task, `Complete` (it sets `generator_complete`) and
`Finish`, the end of the code for hierarchy nodes, up to which it holds its lock;
cleanup tasks, which are those of `DocumentSync` with numbers of their own where the
code gives their ids a prefix; and `MonitorPrune`, `ValidatePrune` and `PruneExpires`.
`GeneratorStops` is a generator that raises or is killed at any of its steps: raising
resets the keys, whatever was sent.
A deletion that meets the fence sends the stop signal (`Revoke`), resets the fence
when it has waited long enough (`ResetBlocking`), and goes on as in
`DocumentSync` (`DeleteUnblocked`). `source` says what there is where a pair
gets its documents: not yet, there, or gone for good. A listing is a snapshot of
it.

Three parameters name the environment: `Prompt`, no deletion overtakes the
creation of a pruning, and no new pruning the generator that still tidies up after
the last one (the check asks for the fence, not for the lock); `Patient`, what was
stopped has ended when the deletion is
tired of waiting (five minutes); `Apart`, a pair is not given documents between
its listing and the comparison. The code enforces none of them. `MaxEvents`
bounds prunings, changes at the sources, indexings and faults together. A second
generator task of one pair in the queue is not told from the first (`asked` is a
set).

## 3. What is checked

There are twelve runs; further instances lie beside them and are named below. The
first five use `MCEvidence`, the next two `MCTools`. Every run of `MCEvidence`
ends with an operator who issues no more commands, and a run of the Onyx modules
when the bounds are used up, therefore deadlock is not checked there; that what
was started can always proceed is the subject of the liveness properties.

| Run | Instance | Shows |
|---|---|---|
| `faults` | two generating or gate commands in turn, three kinds of evidence, up to two of them killed, failing or rejected at every possible step | `TypeOK`, `SealedBundleIsOneRun`, `NoBundleOutlivesAFailedRun`, `SealedReportIsNoGo`, `PassingVerdictIsEarned`, `KeepsLedger` |
| `profiles` | two commands, eight kinds of evidence, five environments (dev, signed prod-like, signed without a key, drifted and incompatible schemas) | `ProdLikeBundleIsObserved`, `GoIsUnreachable`, `GenerateOkIsVerifiable`, `SoundPipelinePasses` |
| `retention` | four commands in turn over three seconds, TTL 1 and TTL 0 | `NewestPassingReportSurvives` |
| `overlap` | three commands in two slots; gates and retentions overlap each other; weak fairness | `RetentionKeepsBundleVerifiable`, `KeepsLedger`, `EveryRunEnds` |
| `overwrite` | one pipeline, both gates in one second | violates `CompletedPipelineVerifies` |
| `capabilities` | a user and a delegated agent whose grant ends, a sensitive tool behind a gateway, two tokens and two that nobody issued, calls with any of them, two policy versions, restarts; weak fairness | `TypeOK`, `TokenRunsOnce`, `RunsAreAuthorised`, `EveryCallEnds` |
| `limits` | proposals, calls with limit 2, high-risk calls, five kinds of unacceptable calls, window 2, five instants, a policy with its kill switch on | `LimiterRemembers`, `WindowRespected`, `HighRiskRunsApart` |
| `indexing` | two cc_pairs with two attempts between them, of one pair in turn or of both at once, a checkpointed connector, windows of two batches, one pause or one fault at a step where the code recovers | `SuccessMeansIndexed`, `FetchedIsKept`, `CountedOnce`, `NumbersAreFresh` (2.3 million states) |
| `indexing_ends` | two attempts, one batch, a fault at any step, failing documents, a monitor that raises at any of its steps, pausing, stalls; fairness | `TypeOK`, `OneActive`, `SuccessIsFinal`, `AttemptsEnd` (181 thousand states) |
| `documents` | a document of one pair or of two, two threads, one edit or indexing, two faults of the kinds the code recovers from or reports, nothing else at a document that a task works on | `TypeOK`, `IndexAgrees`, `DeletedGrantsNothing`, `SharedDocumentSurvives` (2.4 million states) |
| `documents_ends` | the same with one thread, one fault of any kind, and edits and indexing at any time; fairness | `DeletionEnds`, `SyncEnds` (312 thousand states) |
| `pruning` | a document of both pairs or of the other one, one pair pruned, either deleted, sources that change, one fault (a generator may raise before it sends, or be killed at any step), two events; fairness | `PruneTypeOK`, `NothingLeftBehind`, `SourceKept`, `PruningEnds` (1.3 million states) |

A further instance that passes is `indexing_poll` (a connector without
checkpoints). Every other configuration that is not in the table ends in a violation
that section "What the model shows to differ" explains.

Why the bounds suffice to be interesting. Two runs are needed for a mixture of
runs, and two faults let both fail; a third run adds nothing that the second does
not see, since a run sees of the past only the files that are left. Retention
needs a passing report, a failing report that is newer, and an older file to
expire, which takes four commands and three seconds (`MaxClock = 2`). One trace
is enough, as replays are read only by counting them. The payloads sit on the
thresholds of the checks (`Clean`, `Tolerated`) and one beyond (`Gapped`).
`MaxRuns`, `MaxFaults` and `MaxClock` bound the behaviours and nothing else.
`ProcSymmetry` permutes slots in `overlap`, whose properties name none.

For the router, two actors and two tokens let one be tried in the other's place;
four instants with a lifetime of one and a grant that ends at two let each
expire alone; two runs let a token be used twice. A window of two over five
instants has admissions that leave the queue one by one, at the boundary and
after it, and three runs besides unlimited proposals exceed either limit if the
limiter errs. `MaxClock`, `MaxTokens` and `MaxRuns` bound the behaviours; a
process may always restart, so that deadlock is checked in these runs.

For the Onyx modules, two attempts are what a take-over needs, and two batches let
one be done and one be left; with a second pair the two attempts share the worker,
the monitor, the queue and the files, and one runs on while the other has ended. Two pairs and one document are what sharing needs: no
step looks at two documents together, apart from the rounds of sending, where each
has its own task; that a round may stop with some tasks sent and others not is
covered for more documents by the theorems only. Three numbers of tasks (`MaxRound`) let a deletion be restarted
while tasks of its first round wait. A pruning beside a deletion needs a pair for
each, and with the second pair the owner who must not lose the document; two
events let a pruning meet a change at the source, an indexing, a fault or another
pruning. `MaxAttempts`, `MaxRound`, `MaxChanges`,
`MaxEvents` and `MaxFaults` bound the behaviours and nothing else.

`Exclusive = TRUE` states that generating commands run alone, while gates and
retentions may overlap each other. The `Makefile` and `.github/workflows/ci.yml`
run the commands one after another; the code itself does not enforce it. It is a
condition of use: the hash check cannot tell the mixture that two generating
runs may leave from the bundle of one, so no run drops it, and of the theorems
only the types, `GoNeverReached` and `ProdLikeObserved`, which speaks of what the
sealing run was given and not of the files, hold without it.
`NewestReportSurvives` assumes one process, like its run: two retentions at once
may each count a report that the other is about to delete.

Fairness (`FairSpec`) is weak fairness of each process's own steps: the operating
system schedules a process that was started. There is none for starting commands,
for failures, for kills or for the clock. No step of a command waits for another
command. The router's fairness is weak fairness of `Execute`: a call in progress
is carried on by the thread that made it. Executors return or raise, as the
sandbox and the transport have timeouts; for a local executor this is an
assumption.

For the Onyx modules: the beat runs every few seconds and goes through all attempts
and fences, so its steps are fair. `Watch` and `HeartbeatTimeout` are strongly
fair, since the beat returns to an attempt that is now and then busy; the steps of
a fetcher, a worker, a task and a generator are weakly fair, since celery threads
go on unless killed, and so is the passing of time. In `pruning` the workers,
indexing and the steps of a pruning are fair, deletion and synchronisation are not:
a pruning ends without them. Creating attempts, edits,
pausing, faults and the wishes of administrators are not fair. An indexing that a
deletion waits for is assumed to end (`EndAttempt`), which is what `indexing_ends`
checks of it.

The abstract specification `BundleLedger` has three variables: the bundle that
verifies, the runs that ever sealed one, and the passes given. `KeepsLedger`
(`Ledger!Spec` under the mapping at the end of `EvidencePipeline`) says that every
step of the commands publishes the newest bundle, spoils it, passes the newest
one, or changes nothing that a reader can tell. In particular a bundle that no
longer verifies never verifies again, although runs over equal data rewrite most
of its files with equal bytes: contract and health summary carry a time, which
the mutant of this property takes away.

### What the model shows to differ from the documents

1. `overwrite`. `evidence_pipeline` and `ci_smoke` hash the embedded gate's report
   into the manifest (`pipeline.py:419`) and then run the gate again. Within one
   second the second report has the name of the first
   (`launch_gate_evaluator.py:140`) and replaces it. The bundle of a command that
   succeeded then fails `verify_artifact_integrity`, whose success signal in the
   runbook is `"ok": true` (`integration-adapter/README.md:236`).
2. `refused.cfg`. A run that is refused by the safeguards or has no signing key raises
   after its health summary was written; the summary keeps saying
   `degraded_success`, where `docs/adapter-health.md:57` says `failed_run`.
3. `success.cfg`. The summary is written before the gate with `launch_gate_status`
   `not_run` and never again, so no run is ever a `success` in the sense of
   `docs/adapter-health.md:55`. `GoIsUnreachable` is the same fact seen from the
   gate: `adapter_health_summary` always warns and no evaluation is a `go`.
4. `allowlist.cfg`. `route()` never reads the flag `allowed` of a descriptor, so a
   registered tool with `allowed=False` is executed when the policy names it.
   `docs/architecture_diagrams.md:179` of the starter kit has "tool registered +
   allowlisted?" as the router's first question about a tool, and
   `docs/architecture.md:48` lists the allowlist right after registration.

The first is a listed finding with a run of its own. The others can be reproduced
with `tlc -config X.cfg` and the MC module of the component. In Onyx:

5. `indexing_renumbered.cfg`: `run_docfetching.py:954` says of the next batch number
   that it "should be one more than the last batch created"; if the most recent
   attempt failed while its connector was set up, its counter is 0 and a number is
   given that a waiting file carries. `store_batch` replaces the file.
6. `indexing_finished.cfg`: a connector without checkpoints that dies between its
   last checkpoint and `set_total_batches` leaves a checkpoint that says finished.
   The next attempt throws the batches away (`run_docfetching.py:508`: "because
   we'll be getting those documents again anyways"), fetches none and succeeds.
7. `indexing_cleaned.cfg`, `indexing_prefix.cfg`: `cleanup_all_batches` ("for this
   index attempt", `document_batch_storage.py:215`) removes by the prefix of the
   pair, without the search settings and without a separator: also the batches of
   another setting, and for pair 1 those of pair 10.
8. `indexing_monitor.cfg`: an exception in the monitor deletes batches that the
   checkpoint has put behind it, where `run_docfetching.py:826` says "Do NOT clean
   up batches on failure".
9. `indexing_recounted.cfg`: a worker killed between counting a batch and its
   acknowledgement counts it again, and the attempt is complete with a batch that
   nobody has indexed.
10. `indexing_docfail.cfg`: a batch is counted before the documents that failed in
   it are recorded; an attempt finished in between is a SUCCESS.
11. `indexing_waiting.cfg`: `tasks/docprocessing:492`, "Update last progress time so
   we won't time out again", is not reached by an attempt that waits with a task id.
12. `documents_edited.cfg`: an edit between reading the metadata and marking the
   document as synced is never brought into the index.
13. `documents_redelivered.cfg`, `documents_hour.cfg`: a cleanup task that runs twice
   for one document, because it was delivered again or because a deletion of more
   than an hour was restarted beside its tasks, counts the one reference that is
   left as its own and deletes the document of an active pair. The fault `unsent`, a
   deletion whose sending raises with tasks in the queue and is begun again, has the
   same effect.
14. A document that is not embedded, or not written to the index, is returned as a
   failure (`indexing_pipeline.py:715` and `760`, `vector_db_insertion.py:78`), not
   raised; `post_index` (`:810`) marks it like the others as modified, the sync calls
   an update that has no effect on a document that is not there, and marks it synced.
   The row then has no entry in the index, or an older one, and only an unresolved
   `IndexAttemptError` tells, which goes with its pair. `IndexAgrees` therefore leaves
   out a document whose last indexing by some pair failed; without that disjunct
   `documents` ends in a violation of this kind. With the fault `abandoned` (a docprocessing task
   that is killed, and finds its attempt over when it is delivered again) there is no
   error either.
15. `pruning_access.cfg`: `tasks/shared:147` says that the updated access "will
   correctly omit access for the current cc_pair". That holds of a pair that is
   being deleted, whose status `get_access_for_document` looks at. The cleanup of a
   pruning reads the access while the active pair still has its reference, writes it
   to the index, removes the reference and marks the document synced: the index goes
   on granting what the pair granted, until something else changes the document.
16. `pruning_overtaken.cfg` (`Prompt` FALSE), `pruning_impatient.cfg` (`Patient`
   FALSE): a pruning and a deletion of one pair each send a cleanup task for a
   document, with the effect of 13. `pruning_raised.cfg` (the fault `midway`): a
   generator that raises between two tasks, or after the last one in the code for
   hierarchy nodes (`tasks/pruning:682` to `711`), resets its keys with tasks in the
   queue (`:725`); the pruning that follows, which is due at once, or a deletion sends
   them again, with the same effect.
17. `pruning_indexed.cfg` (`Apart` FALSE): a document that is indexed between the
   listing and the comparison is not on the list and is removed, though
   `tasks/pruning:654` says "no longer in the source". The next pruning does not
   bring it back; indexing does when the document changes.

18. A batch that reaches docprocessing when its pair is already deleted overwrites the
   metadata of the rows, without marking them as modified, and only then fails for
   want of the pair (`Prepare`); if the document is shared, the index keeps the older
   metadata until something else changes it, and there is no attempt left to record an
   error of. For `IndexAgrees` this is one more indexing that failed.
19. `indexing_lost_count.cfg`: `reissue_old_batches` reads the counter of the most
   recent attempt and sends the tasks of its batches; the caller then assigns the
   counter to the new attempt (`run_docfetching.py:504`). A worker that has counted
   one of those batches in between is overwritten. The attempt waits for a total that
   it never reaches, until it has stalled; its successor continues from the lower
   counter and gives a number that a waiting file carries, as in 5. With two
   attempts, as in `indexing`, this has no effect on a batch yet; with three it does.
20. `indexing_reindexed.cfg`: an attempt from the beginning throws the batch files of
   its pair away. If it fails, the next attempt begins where the last success ended
   and may take up the checkpoint of an attempt from before the reindexing, whose
   batches are gone. `checkpointing_utils.py:133` "assumes latest checkpoint is the
   furthest along".
21. `indexing.cfg` with `QuietRestart = FALSE` and one pair, which lets an attempt start
   while a process of the last one goes on. A worker that ends its batch after the
   successor has read the counter and before it lists the files is in neither number,
   and a number is given again, as in 5 (`NumbersAreFresh`). A process that was
   canceled through a pause before its window is settled goes on and throws away the
   files of the attempt that was created after the pause (`FetchedIsKept`).
22. `check_indexing_completion` commits the success of an attempt (`tasks/docprocessing:515`)
   and may raise after it (to `:564`; `:528` raises by itself if the pair is gone). Its
   caller then calls `mark_attempt_failed` without asking for the status (`:361`). The
   documents are indexed, the attempt says FAILED, and the next one starts from the
   success before. `MonitorFails` has this, and `SuccessIsFinal` says that it is the
   only way: no other step takes a success back, and this one only while no later
   attempt of the pair and its search setting exists.

The model has two more states of this kind that no property here rules out. When
the last attempt of a cleanup gives up after the index refused it, the row and the
index entry of a document may stay without any pair. And a pruning whose creation
is cut short before its fence has the id of a task is passed over by the
validation (`tasks/pruning:884`): it holds off all other prunings until the fence
expires after seven days, which is `PruneExpires` in the model.

That a restarted process accepts a token again is no divergence:
`docs/evidence_pack/residual_risks.md:57` says that replay protection is
process-local, and `TokenRunsOnce` is stated for one process.

`SealedReportIsNoGo` states another consequence of that order: the report that a
manifest certifies was written when the manifest was an older one or none, and is
a `no_go` however good the evidence.

## 4. What is proved

TLAPS proves the following for all values of the constants, from
`StoreAssumption` (traces and clock bound are numbers), `PipelineAssumption`
(evidence and environments have their types) and, for the router,
`ToolAssumption` (registry, identities, policies, calls and bounds have their
types); for Onyx, from `PipelineAssumption` of `IndexingPipeline`, `SyncAssumption`
and `PruningAssumption`, which say the same of their parameters. All modules are
free of recursive operators.

- `TypeCorrect` (`EvidenceTypes`): `Spec => []TypeOK`. `TypeOK` is not inductive:
  that a process writes a content of the right type into the file at the head of
  its list depends on which files a phase works through and on which runs have a
  payload. `WellTyped` adds both (`TodoOK`, `RunsOK`). One lemma per action; the
  lemma `ContentType` shows that every content a phase computes fits its file.
- `SealedBundleCorrect` (`EvidenceSafety`): if `Exclusive`, then
  `Spec => []SealedBundleIsOneRun`. The invariant `Safe` has three parts. While a
  run writes, each file of its plan is either still to do or in the store as that
  run writes it (`SafeProc`); a manifest that parses lists every file of its run
  as that run wrote it, and the run is sealed (`ManifestGood`); a generating
  process has no company (`Exclusion`), which is what keeps the first part true
  between its steps. It is the manifest's lists being empty that then carries the
  entries over to the files. Gates and retentions may overlap without limit.
- `ProdLikeObserved` (`EvidenceTypes`): `Spec => []ProdLikeBundleIsObserved`, without
  `Exclusive`: the run that sealed the bundle, if prod-like, was given observed
  evidence. The invariant `Assigned`: two processes never work on one run, a
  process writes only what its run is entitled to, and a run is sealed only if its
  profile let it (`Sealable`). That the files are that run's, and so carry that
  evidence, needs `Exclusive`: `ProdLikeFilesObserved` (`EvidenceSafety`) joins it to
  `SealedBundleCorrect`.
- `FailedRunSpoilsOlderBundle`, `GenerateVerifies`, `RetentionKeepsBundle`
  (`EvidenceSafety`, under `Exclusive`). `Sound` extends `Safe` from the newest bundle
  to all runs: what each process has still to do and which of the newest run's files
  retention may touch (`Tracked`), and which files of which contents a run that has
  ended left in the store, however it ended (`Left`).
- `NewestReportSurvives` (`EvidenceSafety`): if there is one process, retention with
  `keep > 0` never deletes the newest passing report. `NewestSpared`: it is not among
  the files chosen.
- `GoNeverReached` (`EvidenceVerdict`): `Spec => []GoIsUnreachable`, without
  `Exclusive`. The invariant `NoGoAhead`: no summary, in the store or in a draft,
  says success, and a process past the health check has not seen only passes.
- `SealedReportObjects` and `VerdictsAreEarned` (`EvidenceVerdict`, under
  `Exclusive`): the report that a manifest lists is a `no_go`, and a run that passed
  had judged a bundle whose evidence supports it. `Judged` says, per process, what its
  evaluation so far rests on (`Judging`) and that a contract is written before what
  depends on it (`ContractFirst`); per manifest, that its report objects; and that no
  run after the newest manifest has one of its own.
- `RootKeepsLedger` (`EvidenceVerdict`, under `Exclusive`): `Spec => KeepsLedger`, the
  refinement: the initial root maps to an empty ledger, and every step publishes,
  spoils, passes or stutters (`LedgerStep`). `NewestVerifies` draws the conclusion
  that the ledger was written for: `Spec => []Ledger!CurrentIsNewest`, the bundle that
  verifies is the newest one published.
- `SoundEvidencePasses` (`EvidenceVerdict`, under `Exclusive`):
  `Spec => []SoundPipelinePasses`, the converse of `VerdictsAreEarned`: sound and fresh
  evidence is never blocked, whatever earlier runs left in the root and whatever
  gates and retentions did between them. The invariant `Unalarmed`: the files of a
  generating command get the date of its contract (`Dated`); from the seal to the
  second report they lie there as written and the manifest verifies (`Intact`); and
  the evaluation has met no failure yet that sound evidence could not have caused
  (`Calm`), because nobody else runs and the clock moves only before the first check.
  `ChecksPass` then goes through the nineteen checks. That a step dates at most the
  file that it opens is `StepTakesNoTime`. The files of a run being of one second is the
  bound of `Tick`; where they take longer, the contract is the oldest of them, so
  that the others are younger than what the property asks of it.

  The property has the condition that the root holds no evaluation of the other
  collection mode, and the attempt to prove it showed that the rows alone are not
  enough. A run in the other mode is killed with rows and summary written, a
  retention deletes the rows and is killed before it gets to the summary: nothing
  lists the summary, no later run replaces it, and once it is older than the
  threshold `evidence_freshness` fails every gate until the next retention, for it takes
  each `evals/*.summary.json` for critical (`launch_gate_evaluator.py:458`). The property
  therefore speaks of both kinds of file; in turn it no longer asks whether the bundle
  verifies or which run was judged, which the proof shows.

For the router:

- `TypeCorrect` (`ToolRouterSafety`): `TypeOK` is inductive as it stands, with the
  attempts and effects of the call in progress adding up to at most
  `RetryLimit + 1`. `OutdatedExists` shows that the limiter's loop has an end to
  stop at, from the well-foundedness of the natural numbers.
- `WindowCorrect` (`ToolRouterSafety`): `WindowRespected` is not inductive, as the
  limiter counts its queue and not the past. `LimiterRemembers` relates the two:
  the queue is a tail of the admissions and what was dropped is older than the
  window (`CurrentIsTail`, `AdmittedRemembers`). An admission with room in the
  queue then leaves only the newest `n - 1` within a window (`AdmittedSpaced`).
- `TokenRunsOnceCorrect`, `AuthorisedCorrect`, `HighRiskCorrect`: `RunsInv` adds
  that the token of a run is spent, and that a high-risk run was admitted at its
  time, which carries the limiter's promise over to what is executed. The first two
  hold for any set of forged tokens. `IssuedCorrect` assumes `Forged = {}`: then the
  capability of a sensitive execution is one that the issuer returned for this actor,
  tenant, tool and operation. No code justifies the assumption, as
  `residual_risks.md:56` says; it tells what signing the tokens would buy.

For Onyx:

- `OneActiveCorrect` and `SuccessIsFinalCorrect` (`IndexingSafety`): at most one
  attempt of a pair is active for a search setting, and only the monitor that wrote a
  success takes it back (22), for all
  sources, workers, bounds and faults, with the processes of failed attempts running
  on. `OneActive` alone does not carry the second. `SafetyInv` adds `Life`:
  a total is set by the last step of a fetcher, a success has a total, and the attempt
  that the monitor looks at is no success before the monitor makes it one; and
  `Numbered`, that attempts are numbered as they were created.
- `TypeCorrect` (`IndexingSafety`): `Spec => []TypeOK`. `TypeInv` adds what the code
  takes for granted where it uses a value: a process has a row with a target, and from
  its window on a window (`Fits`); `newer` is an order (`Ranked`), so that the latest
  attempt and the end of the last success exist whenever they are looked for
  (`LatestExists`, `LastSuccessIsEnd`, from the finiteness of the attempts); there are
  finitely many files, so that numbers computed from them are numbers.
- `SuccessCorrect`, `FetchedCorrect`, `CountedCorrect` and `NumbersCorrect`
  (`IndexingTakeOver`): if `Recoverable`, then `Spec /\ []Uncounted` implies
  `[]SuccessMeansIndexed`, `[]FetchedIsKept`, `[]CountedOnce` and `[]NumbersAreFresh`,
  for any number of pairs, workers, attempts, batches, pauses, stalls and faults.

  The conditions are there because of the counterexamples 5 to 10 and 19 to 21.
  `Recoverable` speaks of the constants: one search setting and no pair whose number
  begins with that of another (7), no attempt from the beginning (20), no failing
  documents (10), no exception of the monitor (8), attempts that start when the
  processes of the one before have gone (21), and faults at the steps `queued`,
  `spawned`, `run`, `send`, `total` (with checkpoints only, 6), `got` and `count`:
  not between the commit of the window and the first checkpoint (5), nor after a
  batch was counted (9). Exceptions of the connector and of a batch are
  unrestricted. `Uncounted` speaks of the behaviour: no worker counts a reissued
  batch before the counter is assigned (19). In `indexing` every condition on the
  constants holds, and two attempts are too few for 19 to have an effect, so the run
  does without `Uncounted`.

  The four are nowhere near inductive, since they do not say what a successor finds.
  `KeepInv` does, in twelve parts. An attempt that has a successor is over
  (`Succession`), and of two that have ended the later one was written to last
  (`Ordered`), so that the most recent
  attempt by `time_updated` is the one whose files are there; windows begin where the
  last success ended (`Starts`). For the newest attempt of a pair that has a window,
  `Store` says which files carry whose name, and that the next number is the number of
  batches counted plus the number of files that nobody has counted yet; a worker that
  has counted its batch and not deleted the file is the difference between the two
  (`CountedFile`). `KeptDocs` is `FetchedIsKept` for an attempt in any status, relative
  to its checkpoint once its process has gone. No two files of a pair have one number
  (`Distinct`), a batch has one task in queue and workers together (`OneTask`), tasks
  have numbers below the next one (`Sends`), and a worker past `Process` has its batch
  in the index (`Holding`). What the monitor read has only grown since (`Notes`). A
  complete count then leaves no file that waits, so that all batches up to the
  checkpoint, which is the last, are in the index: `NothingWaits`, which carries the
  step `Finish`. The other large steps are `Window`, where a new attempt takes over
  checkpoint and files (`TakenStore`), and `Count`, where the batch changes from a file
  that waits to one that is counted.
- `TypeCorrect` and `GrantsCorrect` (`DocumentSafety`): types, and
  `Undisturbed => (Spec => []DeletedGrantsNothing)`, under faults of every kind. The
  invariant `GrantsInv`: an entry of the index grants only pairs that still have
  the document, none of which is gone, or the document is waiting to be synced
  (`Sound`); cleanup tasks belong to pairs that are no longer active (`Owned`); a
  document is in the hands of one task (`Alone`); what a task or an indexing is about
  to write, or has written, grants no more than the rows will (`AtHand`, `Writing`).
  `Owned` is what a pruning does not keep, which is why 15 above is possible.
- `SharedSurvives` (`DocumentSafety`): a document that an active pair shares with a
  pair that is being deleted stays, if nothing disturbs a document in a task's hands
  (`Undisturbed`) and no task runs twice (`Once`: without the faults behind 13 above).
  `CleanInv`: of a pair there is at most one task alive for a document (`OneEach`); the
  set by which a deletion waits has every task that is alive (`Pending`); a task that
  is about to delete the document has counted no other pair. The proof needs the
  number of pairs to be finite, because the code counts them.
- `IndexAgreesCorrect` (`DocumentSafety`): under the same conditions, and without the
  fault `abandoned`, `Spec => []IndexAgrees`: a document that nobody is at work on,
  that is not waiting to be synced, whose pairs are all active and whose last indexing
  by no pair failed is in the index with the metadata of its row. Documents may fail to
  be embedded and written, and indexing may raise, at every step (14, 18).
  `AgreeInv`: between its steps, what a task or an indexing holds is what the rows say
  or will be written again, or an indexing of the document has failed or is about to
  say so (`Shown`, `UpToHand`, `Failing`).
- `PruneTypeCorrect` (`PruningSafety`): `PruneSpec => [](TypeOK /\ PruneTypeOK)`.
- `NothingLeftBehindCorrect` (`PruningSafety`):
  `PruneSpec => []NothingLeftBehind`, for the composition of pruning,
  deletion, synchronisation and indexing, if `Patient` and without the fault `hour`.
  `PruneInv` (`Fenced` of every pair) adds when a fence may be raised and that
  nothing is complete while a generator is queued or has not got that far. The
  conditions are needed: a deletion, or a validation, that resets a fence while the
  generator works leaves a generator that sets its completion on a pruning that is
  over.
- `SourceIsKept` (`PruningSafety`): a pruning takes no document from an active pair
  whose source has it, under `Undisturbed`, `Once`, `Patient`, `Prompt` and `Apart`
  (16 and 17 say what happens without the last three). `Once` here excludes the fault
  `midway`, too: a generator may raise at any step where no task of its pair is alive,
  be killed at any step, and send any number of tasks one by one, but one that raises
  over tasks in the queue makes the next pruning duplicate them (16). `KeepInv` joins
  `CleanInv` to `Guarded` of every pair: before it has compared a pruning has no tasks,
  and the prunings' set has every task alive (`PruneTracked`); a document that is still
  to be sent has no task (`Unsent`); a pair is not pruned and deleted at once
  (`FencesApart`); and what is on a list to be removed, or in a task, is gone from the
  source (`Doomed`, `Listed`).

Only model-checked:

- `CompletedPipelineVerifies`, which does not hold;
- `SuccessMeansIndexed` and `FetchedIsKept` where an attempt from the beginning comes
  before or after another, which `indexing_poll` has for two attempts;
- liveness (`EveryRunEnds`, `EveryCallEnds`, `AttemptsEnd`, `DeletionEnds`, `SyncEnds`,
  `PruningEnds`), which is out of the provers' reach, and `WaitingIsNotStalling`,
  which does not hold.

What a recursive definition computes for all inputs is proved nowhere, as there is
none. The limiter's loop is a choice of the number of times to drop, which
`OutdatedExists` shows to exist.

## 5. What is not modelled

Of the adapter: collection, translators and mappers (their result is the payload),
the comparison of versions (its three outcomes are in the environment), texts of
details and scorecards, the health report, the bridge, configuration validation,
scenario and report writers. The environment variables that a library caller could
keep from an earlier profile (`pipeline.py:305`) are outside: every command of the
model is a fresh process.

Of the starter kit: retrieval, model and egress decisions, loading of policies,
parsing of identities, the call-site guard of the registry, audit and replay,
evaluation runner, its own launch gate and its user interface.

Of Onyx indexing: the FILE_SYSTEM mode, hierarchy nodes, failures that the connector
itself reports, usage limits, the clean-up of old checkpoints, INVALID pairs after
repeated validation errors, the switch to a secondary index. Of documents: document
sets and user groups, permission synchronisation, chunks and the knowledge graph.
Of pruning: hierarchy nodes and tags, the fence of permission synchronisation, the
setting that allows several prunings at once.

The rest of Onyx is most of the repository's lines: connectors, each speaking to a
service of its own; chat, tools and language models around external models;
accounts and an API of one transaction per request; a user interface. It keeps
little state between requests that its own code coordinates, and what it computes
depends on services that are not here. The modules therefore cover a small share of
the lines, and most of the code where several processes share state by hand.

## 6. Plan

Done: the operators of the evidence pipeline, its commands, ledger and theorems; the
tool router with theorems for its safety properties; indexing, documents and pruning
of Onyx with their theorems. To come, in this order:

1. Permission synchronisation (`tasks/doc_permission_syncing`,
   `tasks/external_group_syncing`), which shares fences, stop signal and documents
   with `Pruning`, and document sets and user groups (`tasks/vespa`).
2. In `IndexingTakeOver`, attempts from the beginning as far as 20 leaves them, and
   kills between the counter and the first checkpoint, after which the most recent
   attempt and the one with the latest checkpoint are no longer the same.
3. An abstract index that is eventually what the tables say, which `DocumentSync`
   implements where nothing interrupts a task.
4. The order of audit events around the router, and what their replay reconstructs.
5. Collection, versions, policy engine and retrieval as operators against references;
   the starter kit's own launch gate and the bridge between the two.
