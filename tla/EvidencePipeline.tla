-------------------------- MODULE EvidencePipeline --------------------------
(***************************************************************************)
(* The commands of the integration adapter over one artifacts root:        *)
(*                                                                         *)
(*   generate   generate_artifacts: collect, write the bundle, evaluate    *)
(*              the launch gate, check the profile safeguards, seal the    *)
(*              bundle with an integrity manifest;                         *)
(*   pipeline   evidence_pipeline and ci_smoke: generate, evaluate the     *)
(*              gate again, look for the expected outputs;                 *)
(*   gate       run_launch_gate;                                           *)
(*   retention  artifact_retention --apply, and --dry-run.                 *)
(*                                                                         *)
(* Each command is an operating system process of its own.  The root has   *)
(* no lock: the Makefile and the CI workflow run the commands one after    *)
(* another, which Exclusive states; without it any of them may overlap.    *)
(* A process may be killed between any two of its steps, and in the middle *)
(* of writing a file.                                                      *)
(***************************************************************************)
EXTENDS Retention

CONSTANTS
    Procs,         \* process slots: at most so many commands run at a time
    Payloads,      \* what collect_from_onyx may return
    NoPayload,     \* the payload of a command that collects nothing
    Environments,  \* profiles with the environment variables in force
    Exclusive,     \* generating commands run alone
    Commands,      \* the commands that the operator uses
    MaxRuns,       \* bound: commands started in a behaviour
    MaxFaults      \* bound: runs that fail or are killed

VARIABLES
    fs,      \* the artifacts root
    mtime,   \* modification time of each file
    clock,   \* UTC second
    runs,    \* every command started so far, with how it ended
    proc     \* what each process is doing

vars == <<fs, mtime, clock, runs, proc>>

(***************************************************************************)
(* A payload, reduced to what the gate and the safeguards tell apart.      *)
(***************************************************************************)
SourceModes == {"live", "db_backed", "file_backed", "fixture_backed", "synthetic"}
Percent == 0..100

Payload == [
    mode       : Modes,
    connectors : BOOLEAN,                              \* any connector rows
    tools      : {"empty", "unclassified", "classified"},
    mcp        : {"empty", "unknown", "known"},
    evals      : {"none", "passing", "failing"},
    mapping    : {"mapped", "partly", "unmapped"},     \* scenarios in the threat map
    events     : {"none", "incomplete", "complete", "unsupported"},
    identityGap : Percent, provenanceGap : Percent,
    criticalGap : Percent, derivedCritical : Percent,
    sources    : {"observed", "fixture_backed", "synthetic"},
    runtime    : SourceModes,                          \* of runtime_events
    parseFailures : Nat, fallbacks : Nat, warnings : Nat,
    traces     : Seq(Traces)]

Profiles == {"demo", "dev", "ci", "prod_like"}

Environment == [
    profile  : Profiles,
    critical : Nat, warning : Nat,                     \* freshness thresholds
    ttl      : [{RetentionFamilies[i] : i \in 1..5} -> Nat],
    keep     : Nat,
    compat   : {Allowed, WarnOnly, Blocked},           \* source, normalized, bundle
    gateCompat : {Allowed, WarnOnly, Blocked},         \* launch_gate_schema
    mode     : {NoMode, HashOnly, SignedManifest},
    key      : Nat]

Generators == {"generate", "pipeline"}
Kinds == Generators \cup {"gate", "retention", "retention_dry_run"}

ASSUME PipelineAssumption ==
    /\ Payloads \subseteq Payload
    /\ NoPayload \notin Payloads
    /\ Environments \subseteq Environment
    /\ Exclusive \in BOOLEAN
    /\ Commands \subseteq Kinds
    /\ MaxRuns \in Nat
    /\ MaxFaults \in Nat

\* Mutant: the writer does not read the integrity mode.
AlwaysHashOnly(env) == HashOnly

\* AdapterConfig defaults the mode of a manifest; the gate reads the variable.
BuildMode(env) == IF env.mode = NoMode THEN HashOnly ELSE env.mode

(***************************************************************************)
(* The files of a run.                                                     *)
(***************************************************************************)
\* In the order generate_artifacts writes them.
Plan(pl) ==
    <<Contract, Connectors, Tools, McpServers, Evals, Audit>>
    \o [i \in DOMAIN pl.traces |-> Replay(pl.traces[i])]
    \o <<EvalRows(pl.mode), EvalSummary(pl.mode), Health>>

\* What generate_artifacts hands to write_integrity_manifest.
Listed(pl, second) ==
    RequiredPaths
    \cup {EvalRows(pl.mode), EvalSummary(pl.mode), GateJson(second)}
    \cup {Replay(pl.traces[i]) : i \in DOMAIN pl.traces}

\* Mutant: neither contract nor summary carries generated_at.
NothingIsStamped(f, pl) == f[1] \in {"audit", "replay"} /\ pl.mode = Demo

\* Demo rows carry neither event ids nor times, so every run invents them.
HasStamp(f, pl) ==
    \/ f \in {Contract, Health}
    \/ f[1] \in {"audit", "replay"} /\ pl.mode = Demo

\* Mutant: a gate that has not run counts as no objection.
RunStatusIgnoresPendingGate(pl, compat, writeFailed, gateStatus) ==
    IF compat = Blocked \/ writeFailed THEN "failed_run"
    ELSE IF \/ compat = WarnOnly
            \/ pl.fallbacks > 0
            \/ pl.parseFailures > 0
            \/ pl.warnings > 0
            \/ gateStatus \notin {GO, "not_run"}
         THEN "degraded_success"
         ELSE "success"

\* _build_health_summary.
RunStatus(pl, compat, writeFailed, gateStatus) ==
    IF compat = Blocked \/ writeFailed THEN "failed_run"
    ELSE IF \/ compat = WarnOnly
            \/ pl.fallbacks > 0
            \/ pl.parseFailures > 0
            \/ pl.warnings > 0
            \/ gateStatus # GO
         THEN "degraded_success"
         ELSE "success"

HealthSummary(pl, env, writeFailed, gateStatus) ==
    [runStatus     |-> RunStatus(pl, env.compat, writeFailed, gateStatus),
     parseFailures |-> pl.parseFailures,
     fallbacks     |-> pl.fallbacks,
     warnings      |-> pl.warnings]

\* The text run r writes into a bundle file; the gate has not run yet.
BundleContent(f, r, pl, env) ==
    [stamp |-> IF HasStamp(f, pl) THEN r ELSE NoStamp,
     form  |-> "whole",
     data  |-> IF f = Health THEN HealthSummary(pl, env, FALSE, "not_run") ELSE pl]

FailureSummary(r, pl, env) ==
    [stamp |-> r, form |-> "whole", data |-> HealthSummary(pl, env, TRUE, "not_run")]

GateReport(r, worst, embedded) ==
    [stamp |-> r, form |-> "whole",
     data  |-> [status |-> StatusOf(worst), embedded |-> embedded]]

(***************************************************************************)
(* validate_profile_safeguards.  A forced demo has synthetic runtime       *)
(* evidence and so needs no case of its own.                               *)
(***************************************************************************)
AllowedSourceModes(profile) ==
    CASE profile \in {"demo", "dev"} -> SourceModes
      [] profile = "ci"              -> SourceModes \ {"live"}
      [] profile = "prod_like"       -> {"live", "db_backed", "file_backed"}

\* Mutant: only the source of the runtime events is looked at.
SafeguardsForgetFallbacks(env, pl, freshness) ==
    pl.runtime \notin AllowedSourceModes(env.profile)

SafeguardsBlock(env, pl, freshness) ==
    \/ pl.runtime \notin AllowedSourceModes(env.profile)
    \/ /\ env.profile = "prod_like"
       /\ \/ pl.runtime = "synthetic"
          \/ pl.events = "none"
          \/ pl.fallbacks > 0
          \/ freshness = FAIL

(***************************************************************************)
(* Processes.                                                              *)
(***************************************************************************)
\* Phases in which a process works through a list of files to write.
WritingPhases == {"bundle", "failing", "report", "seal", "log"}
Phases == WritingPhases \cup {"idle", "check", "retain"}

NoContent == [stamp |-> NoStamp, form |-> "empty", data |-> NoPayload]

Idle == [phase |-> "idle", run |-> 0, todo |-> <<>>, open |-> FALSE,
         draft |-> NoContent, next |-> 1, worst |-> PASS, fresh |-> PASS,
         embedded |-> FALSE, second |-> 0, queue |-> {}]

IsIdle(p) == proc[p].phase = "idle"
RunOf(p) == runs[proc[p].run]

Busy == {p \in Procs : ~ IsIdle(p)}

CanStart(kind) ==
    /\ kind \in Commands
    /\ Len(runs) < MaxRuns
    /\ Exclusive => \A q \in Busy : {kind, RunOf(q).kind} \cap Generators = {}

Init ==
    /\ fs = [f \in {} |-> NoContent]
    /\ mtime = [f \in File |-> 0]
    /\ clock = 0
    /\ runs = <<>>
    /\ proc = [p \in Procs |-> Idle]

-----------------------------------------------------------------------------
(***************************************************************************)
(* Starting a command.  Three fields of a run are history that no step of  *)
(* the code depends on: sealed, that its manifest was written; judged, the *)
(* run whose bundle the integrity check of its gate verified; verdict, the *)
(* status of its last evaluation.                                          *)
(***************************************************************************)
Started(kind, pl, env, outcome) ==
    [kind |-> kind, payload |-> pl, env |-> env, outcome |-> outcome,
     sealed |-> FALSE, judged |-> 0, verdict |-> "none"]

Begin(p, kind, pl, env, state) ==
    /\ IsIdle(p)
    /\ CanStart(kind)
    /\ runs' = Append(runs, Started(kind, pl, env, "running"))
    /\ proc' = [proc EXCEPT ![p] = [state EXCEPT !.run = Len(runs) + 1]]
    /\ UNCHANGED <<fs, mtime, clock>>

StartGenerator(p) ==
    \E kind \in Generators, pl \in Payloads, env \in Environments :
        /\ env.compat # Blocked
        /\ Begin(p, kind, pl, env,
                 [Idle EXCEPT !.phase = "bundle", !.todo = Plan(pl)])

\* _raise_on_blocked_compatibility: collected, nothing written.
StartBlocked(p) ==
    \E kind \in Generators, pl \in Payloads, env \in Environments :
        /\ env.compat = Blocked
        /\ IsIdle(p)
        /\ CanStart(kind)
        /\ runs' = Append(runs, Started(kind, pl, env, "blocked"))
        /\ UNCHANGED <<fs, mtime, clock, proc>>

StartGate(p) ==
    \E env \in Environments :
        Begin(p, "gate", NoPayload, env, [Idle EXCEPT !.phase = "check"])

\* The protected set and the candidates are fixed before the first unlink.
StartRetention(p) ==
    \E kind \in {"retention", "retention_dry_run"}, env \in Environments :
        Begin(p, kind, NoPayload, env,
              [Idle EXCEPT !.phase  = "retain",
                           !.second = clock,
                           !.queue  = FamilyFiles(fs) \ Protected(fs, env.keep)])

(***************************************************************************)
(* Ending one.                                                             *)
(***************************************************************************)
End(p, outcome) ==
    /\ runs' = [runs EXCEPT ![proc[p].run].outcome = outcome]
    /\ proc' = [proc EXCEPT ![p] = Idle]

\* Runs that a fault has ended or is about to end.
Faulty ==
    {r \in DOMAIN runs :
        \/ runs[r].outcome \in {"failed", "crashed"}
        \/ \E p \in Busy : proc[p].run = r /\ proc[p].phase = "failing"}

\* Killed, or ended by an exception that no handler of the adapter catches.
Crash(p) ==
    /\ ~ IsIdle(p)
    /\ Cardinality(Faulty) < MaxFaults
    /\ End(p, "crashed")
    /\ UNCHANGED <<fs, mtime, clock>>

(***************************************************************************)
(* Writing a file: the open truncates, the close completes.  The content   *)
(* is computed before the open; a manifest hashes the files at that time.  *)
(***************************************************************************)
Content(p, f) ==
    LET r  == proc[p].run
        pl == runs[r].payload
        env == runs[r].env
    IN  CASE proc[p].phase = "bundle"  -> BundleContent(f, r, pl, env)
          [] proc[p].phase = "failing" -> FailureSummary(r, pl, env)
          [] proc[p].phase = "report"  ->
                 GateReport(r, proc[p].worst, proc[p].embedded)
          [] proc[p].phase = "seal"    ->
                 BuildManifest(fs, Listed(pl, proc[p].second),
                               BuildMode(env), env.key, r)
          [] proc[p].phase = "log"     ->
                 [stamp |-> r, form |-> "whole", data |-> NoPayload]

MayWrite(p) ==
    /\ proc[p].phase \in WritingPhases
    /\ proc[p].todo # <<>>
    /\ proc[p].phase = "seal" => CanBuild(BuildMode(RunOf(p).env), RunOf(p).env.key)

\* A file of JSON lines that gets no line is complete once it is opened.
HasRows(f, pl) ==
    CASE f = Audit           -> pl.events # "none"
      [] f[1] = "eval_rows"  -> pl.evals # "none"
      [] OTHER               -> TRUE

OpenForms(f, pl) == IF HasRows(f, pl) THEN TornForms(f) ELSE {"whole"}

Open(p) ==
    /\ MayWrite(p)
    /\ ~ proc[p].open
    /\ LET f == Head(proc[p].todo)
            c == Content(p, f)
       IN  /\ \E form \in OpenForms(f, RunOf(p).payload) :
                  fs' = Put(fs, f, [c EXCEPT !.form = form])
           /\ mtime' = [mtime EXCEPT ![f] = clock]
           /\ proc' = [proc EXCEPT ![p].open = TRUE, ![p].draft = c]
    /\ UNCHANGED <<clock, runs>>

\* validate() raises at an event of unknown type, with the audit file open.
Rejects(p) ==
    /\ proc[p].phase = "bundle"
    /\ Head(proc[p].todo) = Audit
    /\ RunOf(p).payload.events = "unsupported"

Close(p) ==
    /\ proc[p].open
    /\ ~ Rejects(p)
    /\ fs' = Put(fs, Head(proc[p].todo), proc[p].draft)
    /\ proc' = [proc EXCEPT ![p].open = FALSE,
                            ![p].draft = NoContent,
                            ![p].todo = Tail(@)]
    /\ runs' = [runs EXCEPT ![proc[p].run].sealed = @ \/ proc[p].phase = "seal"]
    /\ UNCHANGED <<mtime, clock>>

(***************************************************************************)
(* The except branch of generate_artifacts: whatever raises while the      *)
(* bundle is written ends in a failure summary and a second raise.  The    *)
(* file being written is left as it was.                                   *)
(***************************************************************************)
\* Mutant: the handler forgets that a file is open.
FailLeavesFileOpen(p) ==
    /\ proc' = [proc EXCEPT ![p].phase = "failing", ![p].todo = <<Health>>]
    /\ UNCHANGED <<mtime, clock, runs>>

\* Mutant: the handler raises again without a failure summary.
FailWithoutSummary(p) ==
    /\ proc' = [proc EXCEPT ![p].phase = "failing", ![p].todo = <<>>,
                            ![p].open = FALSE, ![p].draft = NoContent]
    /\ UNCHANGED <<mtime, clock, runs>>

Fail(p) ==
    /\ proc' = [proc EXCEPT ![p].phase = "failing",
                            ![p].todo = <<Health>>,
                            ![p].open = FALSE,
                            ![p].draft = NoContent]
    /\ UNCHANGED <<mtime, clock, runs>>

\* Mutant: a rejected event ends the file, and the next one is written.
EventDropped(p) ==
    /\ proc[p].open
    /\ Rejects(p)
    /\ \E form \in {"empty", "prefix"} :
           fs' = Put(fs, Audit, [proc[p].draft EXCEPT !.form = form])
    /\ proc' = [proc EXCEPT ![p].open = FALSE, ![p].draft = NoContent,
                            ![p].todo = Tail(@)]
    /\ UNCHANGED <<mtime, clock, runs>>

\* The lines before the rejected event are flushed as the file is closed.
EventRejected(p) ==
    /\ proc[p].open
    /\ Rejects(p)
    /\ \E form \in {"empty", "prefix"} :
           fs' = Put(fs, Audit, [proc[p].draft EXCEPT !.form = form])
    /\ Fail(p)

\* Any other exception, a full disk for one; Health is written after the try.
WriteFails(p) ==
    /\ Cardinality(Faulty) < MaxFaults
    /\ proc[p].phase = "bundle"
    /\ proc[p].todo # <<>>
    /\ Head(proc[p].todo) # Health
    /\ ~ Rejects(p)
    /\ UNCHANGED fs
    /\ Fail(p)

FailureReported(p) ==
    /\ proc[p].phase = "failing"
    /\ proc[p].todo = <<>>
    /\ End(p, "failed")
    /\ UNCHANGED <<fs, mtime, clock>>

(***************************************************************************)
(* The launch gate.                                                        *)
(***************************************************************************)
BundleWritten(p) ==
    /\ proc[p].phase = "bundle"
    /\ proc[p].todo = <<>>
    /\ proc' = [proc EXCEPT ![p].phase = "check", ![p].embedded = TRUE]
    /\ UNCHANGED <<fs, mtime, clock, runs>>

\* One check of evaluate().
Evaluate(p) ==
    /\ proc[p].phase = "check"
    /\ proc[p].next <= LastCheck
    /\ LET i == proc[p].next
            verdict == Check(i, fs, mtime, clock, RunOf(p).env)
       IN  /\ proc' = [proc EXCEPT ![p].next = i + 1,
                                   ![p].worst = Worse(@, verdict),
                                   ![p].fresh = IF i = FreshnessCheck THEN verdict ELSE @]
           /\ runs' = [runs EXCEPT ![proc[p].run].judged =
                          IF i = IntegrityCheck /\ verdict = PASS
                          THEN fs[Manifest].stamp ELSE @]
    /\ UNCHANGED <<fs, mtime, clock>>

\* write_outputs names the reports after the second it is called in.
Evaluated(p) ==
    /\ proc[p].phase = "check"
    /\ proc[p].next > LastCheck
    /\ proc' = [proc EXCEPT ![p].phase = "report",
                            ![p].second = clock,
                            ![p].todo = <<GateJson(clock), GateMd(clock)>>]
    /\ runs' = [runs EXCEPT ![proc[p].run].verdict = StatusOf(proc[p].worst)]
    /\ UNCHANGED <<fs, mtime, clock>>

Reported(p) == proc[p].phase = "report" /\ proc[p].todo = <<>>

SafeguardsRefuse(p) ==
    /\ Reported(p)
    /\ proc[p].embedded
    /\ SafeguardsBlock(RunOf(p).env, RunOf(p).payload, proc[p].fresh)
    /\ End(p, "refused")
    /\ UNCHANGED <<fs, mtime, clock>>

SafeguardsAllow(p) ==
    /\ Reported(p)
    /\ proc[p].embedded
    /\ ~ SafeguardsBlock(RunOf(p).env, RunOf(p).payload, proc[p].fresh)
    /\ proc' = [proc EXCEPT ![p].phase = "seal", ![p].todo = <<Manifest>>]
    /\ UNCHANGED <<fs, mtime, clock, runs>>

(***************************************************************************)
(* The integrity manifest, and what follows it.                            *)
(***************************************************************************)
SealRefused(p) ==
    /\ proc[p].phase = "seal"
    /\ proc[p].todo # <<>>
    /\ ~ CanBuild(BuildMode(RunOf(p).env), RunOf(p).env.key)
    /\ End(p, "failed")
    /\ UNCHANGED <<fs, mtime, clock>>

Sealed(p) == proc[p].phase = "seal" /\ proc[p].todo = <<>>

Generated(p) ==
    /\ Sealed(p)
    /\ RunOf(p).kind = "generate"
    /\ End(p, "ok")
    /\ UNCHANGED <<fs, mtime, clock>>

\* evidence_pipeline and ci_smoke call run_launch_gate over the sealed bundle.
GateAgain(p) ==
    /\ Sealed(p)
    /\ RunOf(p).kind = "pipeline"
    /\ proc' = [proc EXCEPT ![p] = [Idle EXCEPT !.phase = "check",
                                              !.run = proc[p].run]]
    /\ UNCHANGED <<fs, mtime, clock, runs>>

\* Bundle, replay and report files that evidence_pipeline looks for last.
ExpectedOutputs ==
    {Contract, Manifest, Health, Audit, Connectors, Tools, McpServers}

OutputsMissing ==
    \/ \E f \in ExpectedOutputs : ~ Exists(fs, f)
    \/ Glob(fs, "replay") = {}
    \/ Glob(fs, "gate_json") = {}

GateDone(p) ==
    /\ Reported(p)
    /\ ~ proc[p].embedded
    /\ End(p, IF RunOf(p).kind = "pipeline" /\ OutputsMissing
               THEN "missing_outputs" ELSE "ok")
    /\ UNCHANGED <<fs, mtime, clock>>

(***************************************************************************)
(* Retention.  The files of a rule come before those of the next; stat()   *)
(* raises at a file that another command has removed in the meantime.      *)
(***************************************************************************)
Upcoming(p) ==
    {f \in proc[p].queue :
        \A g \in proc[p].queue : RuleOf(f) <= RuleOf(g)}

Expired(p, f) ==
    proc[p].second - mtime[f] >= RunOf(p).env.ttl[RetentionFamilies[RuleOf(f)]]

VisitGone(p) ==
    /\ proc[p].phase = "retain"
    /\ \E f \in Upcoming(p) : ~ Exists(fs, f)
    /\ End(p, "failed")
    /\ UNCHANGED <<fs, mtime, clock>>

\* Mutant: a young file is waited for.
SkipForgetsToAdvance(p) ==
    /\ proc[p].phase = "retain"
    /\ \E f \in Upcoming(p) : Exists(fs, f) /\ ~ Expired(p, f)
    /\ UNCHANGED vars

Skip(p) ==
    /\ proc[p].phase = "retain"
    /\ \E f \in Upcoming(p) :
           /\ Exists(fs, f)
           /\ ~ Expired(p, f) \/ RunOf(p).kind = "retention_dry_run"
           /\ proc' = [proc EXCEPT ![p].queue = @ \ {f}]
    /\ UNCHANGED <<fs, mtime, clock, runs>>

Delete(p) ==
    /\ proc[p].phase = "retain"
    /\ \E f \in Upcoming(p) :
           /\ Exists(fs, f)
           /\ Expired(p, f) /\ RunOf(p).kind = "retention"
           /\ fs' = Unlink(fs, f)
           /\ proc' = [proc EXCEPT ![p].queue = @ \ {f}]
    /\ UNCHANGED <<mtime, clock, runs>>

Retained(p) ==
    /\ proc[p].phase = "retain"
    /\ proc[p].queue = {}
    /\ proc' = [proc EXCEPT ![p].phase = "log", ![p].todo = <<RetentionLog>>]
    /\ UNCHANGED <<fs, mtime, clock, runs>>

Logged(p) ==
    /\ proc[p].phase = "log"
    /\ proc[p].todo = <<>>
    /\ End(p, "ok")
    /\ UNCHANGED <<fs, mtime, clock>>

(***************************************************************************)
(* Time.  Bound: the files that one phase writes fall in one second, and   *)
(* the clock moves only between commands and before an evaluation.         *)
(***************************************************************************)
Paused(p) == IsIdle(p) \/ (proc[p].phase = "check" /\ proc[p].next = 1)

Tick ==
    /\ clock < MaxClock
    /\ \A p \in Procs : Paused(p)
    /\ clock' = clock + 1
    /\ UNCHANGED <<fs, mtime, runs, proc>>

-----------------------------------------------------------------------------
Start(p) ==
    \/ StartGenerator(p)
    \/ StartBlocked(p)
    \/ StartGate(p)
    \/ StartRetention(p)

Write(p) == Open(p) \/ Close(p)

\* The steps of a running command that its own code takes.
Advance(p) ==
    \/ Write(p)
    \/ EventRejected(p)
    \/ FailureReported(p)
    \/ BundleWritten(p)
    \/ Evaluate(p)
    \/ Evaluated(p)
    \/ SafeguardsRefuse(p)
    \/ SafeguardsAllow(p)
    \/ SealRefused(p)
    \/ Generated(p)
    \/ GateAgain(p)
    \/ GateDone(p)
    \/ VisitGone(p)
    \/ Skip(p)
    \/ Delete(p)
    \/ Retained(p)
    \/ Logged(p)

Next ==
    \/ \E p \in Procs : Start(p) \/ Advance(p) \/ WriteFails(p) \/ Crash(p)
    \/ Tick

Spec == Init /\ [][Next]_vars

\* A command that was started is scheduled until it ends.  Nothing makes an
\* operator start one, a write fail, or a process die.
FairSpec == Spec /\ \A p \in Procs : WF_vars(Advance(p))

-----------------------------------------------------------------------------
(***************************************************************************)
(* Types.                                                                  *)
(***************************************************************************)
Stamps == 0..MaxRuns
Grades == {PASS, WARN, FAIL}
Statuses == {GO, CONDITIONAL_GO, NO_GO}
Outcomes == {"running", "ok", "failed", "refused", "blocked", "crashed",
             "missing_outputs"}

Run == [kind : Kinds, payload : Payloads \cup {NoPayload}, env : Environments,
        outcome : Outcomes, sealed : BOOLEAN, judged : Stamps,
        verdict : Statuses \cup {"none"}]

HealthRecord == [runStatus : {"success", "degraded_success", "failed_run"},
                 parseFailures : Nat, fallbacks : Nat, warnings : Nat]

GateRecord == [status : Statuses, embedded : BOOLEAN]

EvidenceData(f) ==
    CASE f = Health                           -> HealthRecord
      [] f[1] \in {"gate_json", "gate_md"}    -> GateRecord
      [] f = RetentionLog                     -> {NoPayload}
      [] OTHER                                -> Payloads

EvidenceFile(f) == [stamp : Stamps, form : Forms, data : EvidenceData(f)]

ManifestFile(c) ==
    /\ DOMAIN c = {"stamp", "form", "data"}
    /\ c.stamp \in Stamps
    /\ c.form \in Forms
    /\ c.data.mode \in {HashOnly, SignedManifest}
    /\ c.data.signature \in Nat
    /\ DOMAIN c.data.entries \subseteq File \ {Manifest}
    /\ \A f \in DOMAIN c.data.entries : c.data.entries[f] \in EvidenceFile(f)

Fits(f, c) == IF f = Manifest THEN ManifestFile(c) ELSE c \in EvidenceFile(f)

ProcType(s) ==
    /\ DOMAIN s = DOMAIN Idle
    /\ s.phase \in Phases
    /\ s.run \in Stamps
    /\ s.todo \in Seq(File)
    /\ s.open \in BOOLEAN
    /\ IF s.open THEN s.todo # <<>> /\ Fits(Head(s.todo), s.draft)
                 ELSE s.draft = NoContent
    /\ s.next \in 1..(LastCheck + 1)
    /\ s.worst \in Grades
    /\ s.fresh \in Grades
    /\ s.embedded \in BOOLEAN
    /\ s.second \in 0..MaxClock
    /\ s.queue \subseteq File

\* The type invariant.  A manifest never lists itself, a draft fits the file
\* that is open, and a process that is not idle works for a run.
TypeOK ==
    /\ DOMAIN fs \subseteq File
    /\ \A f \in DOMAIN fs : Fits(f, fs[f])
    /\ mtime \in [File -> 0..MaxClock]
    /\ clock \in 0..MaxClock
    /\ runs \in Seq(Run)
    /\ Len(runs) <= MaxRuns
    /\ DOMAIN proc = Procs
    /\ \A p \in Procs : ProcType(proc[p]) /\ (IsIdle(p) \/ proc[p].run \in DOMAIN runs)

-----------------------------------------------------------------------------
(***************************************************************************)
(* Safety.                                                                 *)
(***************************************************************************)
Owner == fs[Manifest].stamp

\* A bundle whose hashes verify is, file by file, the output of the one run
\* that sealed it: no crash, failed write, rejected event, refusal or later
\* command leaves a mixture of runs, or a cut-off file, that still verifies.
SealedBundleIsOneRun ==
    HashesConsistent(fs) =>
        /\ runs[Owner].sealed
        /\ LET pl == runs[Owner].payload
           IN  \A i \in DOMAIN Plan(pl) :
                  /\ Exists(fs, Plan(pl)[i])
                  /\ fs[Plan(pl)[i]] =
                         BundleContent(Plan(pl)[i], Owner, pl, runs[Owner].env)

\* A generating run that fails, or that the safeguards refuse after its files
\* are written, leaves no older bundle that still verifies in its place.
NoBundleOutlivesAFailedRun ==
    HashesConsistent(fs) =>
        \A r \in DOMAIN runs :
            r > Owner /\ runs[r].kind \in Generators
                => runs[r].outcome \in {"running", "blocked", "crashed"}

\* The report that a manifest certifies is the one of the evaluation before
\* the seal, which reads the manifest of an earlier run or none: whatever the
\* evidence is worth, a bundle that verifies certifies a no_go.
SealedReportIsNoGo ==
    HashesConsistent(fs) =>
        \E f \in DOMAIN Entries(fs) :
            /\ f[1] = "gate_json"
            /\ fs[f].data = [status |-> NO_GO, embedded |-> TRUE]

Passed(r) == runs[r].verdict \in {GO, CONDITIONAL_GO}

\* A passing verdict was earned by the evidence of one sealed run, although
\* the gate reads a directory in which other runs have left files.
PassingVerdictIsEarned ==
    \A r \in DOMAIN runs : Passed(r) =>
        /\ runs[r].judged \in DOMAIN runs
        /\ LET sealed == runs[runs[r].judged]
           IN  /\ sealed.sealed
               /\ sealed.payload.connectors
               /\ sealed.payload.tools # "empty"
               /\ sealed.payload.events = "complete"
               /\ sealed.payload.evals # "failing"
               /\ sealed.payload.identityGap <= 50
               /\ sealed.payload.criticalGap <= 20
               /\ sealed.env.compat # Blocked

\* The run that sealed a bundle that verifies, if it ran under prod_like, was given observed
\* runtime evidence and no fallback: the safeguards come after the files but before the
\* seal.  That the files are its own is SealedBundleIsOneRun.
ProdLikeBundleIsObserved ==
    HashesConsistent(fs) /\ runs[Owner].env.profile = "prod_like" =>
        LET pl == runs[Owner].payload
        IN  /\ pl.runtime \in {"live", "db_backed", "file_backed"}
            /\ pl.events # "none"
            /\ pl.fallbacks = 0

\* The health summary is written before the gate has run, so no summary says
\* success, adapter_health_summary always warns, and no evaluation is a go.
GoIsUnreachable ==
    /\ \A r \in DOMAIN runs : runs[r].verdict # GO
    /\ Readable(fs, Health) => fs[Health].data.runStatus # "success"

LastRun == runs[Len(runs)]

\* What generate_artifacts returned verifies under the environment it ran in.
GenerateOkIsVerifiable ==
    runs # <<>> /\ LastRun.kind = "generate" /\ LastRun.outcome = "ok" =>
        VerifyOk(fs, LastRun.env.mode, LastRun.env.key)

Unblemished(pl) ==
    /\ pl.connectors /\ pl.tools # "empty"
    /\ pl.events = "complete" /\ pl.evals = "passing" /\ pl.mapping # "unmapped"
    /\ pl.identityGap <= 50 /\ pl.criticalGap <= 20 /\ pl.parseFailures < 3

\* No false alarm: if its evidence is sound and fresh and the root has no
\* evaluation file of the other mode, neither rows nor summary, the second gate
\* of a pipeline run finds the bundle verifying and does not block.
SoundPipelinePasses ==
    \A p \in Busy :
        LET pl == RunOf(p).payload
        IN  /\ proc[p].phase = "report" /\ ~ proc[p].embedded
            /\ RunOf(p).kind = "pipeline"
            /\ Unblemished(pl)
            /\ RunOf(p).env.gateCompat # Blocked
            /\ proc[p].second - mtime[Contract] <= RunOf(p).env.critical
            /\ Glob(fs, "eval_rows") = {EvalRows(pl.mode)}
            /\ Glob(fs, "eval_summary") = {EvalSummary(pl.mode)}
            => proc[p].worst = WARN

(***************************************************************************)
(* What the documents say and the code does not do.                        *)
(***************************************************************************)
\* README of the adapter, runbook: run the pipeline, then verify integrity,
\* expected "ok": true.  The second gate of the command may fall in the second
\* of the first one and then overwrites the report that the manifest hashes.
CompletedPipelineVerifies ==
    runs # <<>> /\ LastRun.kind = "pipeline" /\ LastRun.outcome = "ok" =>
        VerifyOk(fs, LastRun.env.mode, LastRun.env.key)

\* docs/adapter-health.md: failed_run means that generation failed before it
\* completed a normal path.  A run that the safeguards refuse, or that has no
\* signing key, raises after the summary that calls it degraded_success.
GenerateFailureIsFailedRun ==
    /\ runs # <<>> /\ Busy = {}
    /\ LastRun.kind \in Generators /\ LastRun.outcome \in {"failed", "refused"}
    => Readable(fs, Health) /\ fs[Health].data.runStatus = "failed_run"

Pristine(pl) ==
    /\ Unblemished(pl)
    /\ pl.tools = "classified" /\ pl.mcp = "known" /\ pl.mapping = "mapped"
    /\ pl.sources = "observed" /\ pl.traces # <<>>
    /\ {pl.identityGap, pl.provenanceGap, pl.criticalGap, pl.derivedCritical,
        pl.parseFailures, pl.fallbacks, pl.warnings} = {0}

\* docs/adapter-health.md: success means no significant degradation and no gate
\* blocker in the latest run.  No run is ever good enough (GoIsUnreachable).
PristineRunIsSuccess ==
    /\ runs # <<>> /\ LastRun.kind = "pipeline" /\ LastRun.outcome = "ok"
    /\ Pristine(LastRun.payload) /\ LastRun.env.compat = Allowed /\ Passed(Len(runs))
    => fs[Health].data.runStatus = "success"

(***************************************************************************)
(* Steps.                                                                  *)
(***************************************************************************)
\* However small the TTLs, retention leaves a bundle that verifies verifying.
RetentionKeepsBundleVerifiable ==
    [][HashesConsistent(fs) /\ (\E p \in Procs : Delete(p))
          => HashesConsistent(fs')]_vars

NewestPassing ==
    {f \in PassingReports(fs) : \A g \in PassingReports(fs) : g[2] <= f[2]}

\* Retention never deletes the newest passing report, if told to keep one,
\* whatever reports that do not pass are newer.
NewestPassingReportSurvives ==
    [][\A p \in Procs :
          Delete(p) /\ RunOf(p).env.keep > 0
              => NewestPassing \subseteq DOMAIN fs']_vars

\* Every command that is not killed ends, whatever it finds.
EveryRunEnds ==
    \A p \in Procs : ~ IsIdle(p) ~> IsIdle(p)

(***************************************************************************)
(* The root as a ledger of bundles.                                        *)
(***************************************************************************)
Current == IF HashesConsistent(fs) THEN Owner ELSE 0
Published == {r \in DOMAIN runs : runs[r].sealed}
PassedBundles == {<<r, runs[r].judged>> : r \in {q \in DOMAIN runs : Passed(q)}}

Ledger == INSTANCE BundleLedger
    WITH Bundles <- 1..MaxRuns, current <- Current, published <- Published,
         passed <- PassedBundles

\* Used one at a time, or with gates and retention overlapping each other,
\* the commands keep what the ledger promises.
KeepsLedger == Ledger!Spec
=============================================================================
