----------------------------- MODULE LaunchGate -----------------------------
(***************************************************************************)
(* The launch gate (integration_adapter/launch_gate_evaluator.py): the     *)
(* nineteen checks over the artifacts root, in the order evaluate() makes  *)
(* them, and the status they add up to.                                    *)
(*                                                                         *)
(* Evidence rows are abstracted to what a check tells apart (Payload in    *)
(* module EvidencePipeline): a file's data field is the payload its rows   *)
(* were mapped from.  A line file cut off at a line boundary ("prefix") is *)
(* judged as leniently as its rows allow: a prefix of an audit stream may  *)
(* hold every required event, and a prefix of an evaluation may end before *)
(* the row that failed.                                                    *)
(***************************************************************************)
EXTENDS Integrity

PASS == "pass"
WARN == "warn"
FAIL == "fail"

GO == "go"
CONDITIONAL_GO == "conditional_go"
NO_GO == "no_go"

\* Compatibility decisions of evaluate_compatibility, by severity.
Allowed  == "allowed"
WarnOnly == "warn_only"
Blocked  == "blocked"

Grade(fails, warns) == IF fails THEN FAIL ELSE IF warns THEN WARN ELSE PASS

(***************************************************************************)
(* Inventories.                                                            *)
(***************************************************************************)
ConnectorInventoryPresent(fs) ==
    Grade(~ Readable(fs, Connectors) \/ ~ fs[Connectors].data.connectors, FALSE)

ToolInventoryClassified(fs) ==
    Grade(~ Readable(fs, Tools) \/ fs[Tools].data.tools = "empty",
          fs[Tools].data.tools = "unclassified")

McpInventoryClassified(fs) ==
    Grade(~ Readable(fs, McpServers), fs[McpServers].data.mcp # "known")

InventoryRows(fs, f) ==
    /\ Readable(fs, f)
    /\ CASE f = Connectors -> fs[f].data.connectors
         [] f = Tools      -> fs[f].data.tools # "empty"
         [] f = McpServers -> fs[f].data.mcp # "empty"
         [] f = Evals      -> fs[f].data.evals # "none"

SourceModeQuality(fs) ==
    LET sourced == {f \in {Connectors, Tools, McpServers, Evals} : InventoryRows(fs, f)}
    IN  Grade(FALSE, \/ sourced = {}
                     \/ \E f \in sourced : fs[f].data.sources # "observed")

(***************************************************************************)
(* The audit stream.                                                       *)
(***************************************************************************)
HasAuditRows(fs) ==
    /\ Readable(fs, Audit)
    /\ fs[Audit].form # "empty"
    /\ fs[Audit].data.events # "none"

RequiredAuditEventsPresent(fs) ==
    Grade(\/ ~ Readable(fs, Audit)
          \/ fs[Audit].form = "empty"
          \/ fs[Audit].data.events \in {"none", "incomplete"}, FALSE)

\* Percentages of missing values: more than a half fails, a fifth warns.
IdentityAuthzEvidencePresence(fs) ==
    Grade(~ HasAuditRows(fs) \/ fs[Audit].data.identityGap > 50,
          fs[Audit].data.identityGap > 20)

\* Mutant: >= for > at the failing threshold.
ProvenanceOffByOne(fs) ==
    Grade(~ HasAuditRows(fs) \/ fs[Audit].data.criticalGap >= 20,
          \/ fs[Audit].data.provenanceGap > 15
          \/ fs[Audit].data.criticalGap > 0
          \/ fs[Audit].data.derivedCritical > 70)

IdentityAuthzProvenanceQuality(fs) ==
    Grade(~ HasAuditRows(fs) \/ fs[Audit].data.criticalGap > 20,
          \/ fs[Audit].data.provenanceGap > 15
          \/ fs[Audit].data.criticalGap > 0
          \/ fs[Audit].data.derivedCritical > 70)

(***************************************************************************)
(* Evaluation results: every evals/*.jsonl counts, whichever run wrote it. *)
(***************************************************************************)
EvalRowFiles(fs) == Glob(fs, "eval_rows")

HasEvalRows(fs, f) ==
    /\ Readable(fs, f)
    /\ fs[f].form # "empty"
    /\ fs[f].data.evals # "none"

EvalResultsPresent(fs) ==
    Grade(\/ EvalRowFiles(fs) = {}
          \/ Glob(fs, "eval_summary") = {}
          \/ \E f \in EvalRowFiles(fs) : ~ Readable(fs, f)
          \/ \A f \in EvalRowFiles(fs) : ~ HasEvalRows(fs, f), FALSE)

ThreatControlMappingCompleteness(fs) ==
    LET filled == {f \in EvalRowFiles(fs) : HasEvalRows(fs, f)}
    IN  Grade(\A f \in filled : fs[f].data.mapping = "unmapped",
              \E f \in filled : fs[f].data.mapping # "mapped")

ShowsFailure(fs, f) == fs[f].form = "whole" /\ fs[f].data.evals = "failing"

CriticalFailuresOrBlockers(fs) ==
    Grade(\E f \in EvalRowFiles(fs) : ~ Readable(fs, f) \/ ShowsFailure(fs, f), FALSE)

(***************************************************************************)
(* Freshness: ages are taken from modification times when the check runs.  *)
(***************************************************************************)
Age(mtime, now, f) == now - mtime[f]

EvidenceFreshness(fs, mtime, now, env) ==
    LET summaries == Glob(fs, "eval_summary")
        critical  == {Contract, Audit} \cup summaries
        secondary == {Connectors, Tools, McpServers, Health}
    IN  Grade(\/ summaries = {}
              \/ \E f \in critical :
                     ~ Exists(fs, f) \/ Age(mtime, now, f) > env.critical,
              \E f \in secondary :
                     Exists(fs, f) /\ Age(mtime, now, f) > env.warning)

(***************************************************************************)
(* Contract, health, completeness, integrity.                              *)
(***************************************************************************)
ArtifactContractVersions(fs, env) ==
    Grade(~ Readable(fs, Contract) \/ Blocked \in {env.compat, env.gateCompat},
          WarnOnly \in {env.compat, env.gateCompat})

ExporterDegradation(fs) ==
    Grade(/\ Exists(fs, Health)
          /\ ~ Readable(fs, Health) \/ fs[Health].data.parseFailures >= 3,
          \/ ~ Exists(fs, Health)
          \/ fs[Health].data.parseFailures > 0
          \/ fs[Health].data.fallbacks > 0
          \/ fs[Health].data.warnings > 0)

AdapterHealthSummary(fs) ==
    Grade(/\ Exists(fs, Health)
          /\ ~ Readable(fs, Health) \/ fs[Health].data.runStatus = "failed_run",
          \/ ~ Exists(fs, Health)
          \/ fs[Health].data.runStatus = "degraded_success"
          \/ fs[Health].data.parseFailures > 0
          \/ fs[Health].data.warnings > 0)

\* The directories it also requires are made by ensure_dirs before any check.
ArtifactCompleteness(fs) ==
    Grade(~ {Contract, Audit, Connectors, Tools} \subseteq DOMAIN fs, FALSE)

OptionalArtifactDegradation(fs) ==
    Grade(FALSE, \/ ~ {McpServers, Health} \subseteq DOMAIN fs
                 \/ Glob(fs, "replay") = {})

ArtifactSchemaValidity(fs) ==
    Grade(\/ ~ Readable(fs, Connectors)
          \/ ~ Readable(fs, Tools)
          \/ \E f \in ({McpServers, Audit} \cap DOMAIN fs) \cup EvalRowFiles(fs) :
                 ~ Readable(fs, f), FALSE)

\* Mutant: a manifest that is not there yet is only a degradation.
IntegrityOptional(fs, env) ==
    Grade(Exists(fs, Manifest) /\ ~ VerifyOk(fs, env.mode, env.key),
          ~ Exists(fs, Manifest))

ArtifactIntegrityManifest(fs, env) ==
    Grade(~ VerifyOk(fs, env.mode, env.key), FALSE)

EvidenceTamperingSignals(fs) ==
    Grade(~ Readable(fs, Contract) \/ ~ Readable(fs, Audit), FALSE)

(***************************************************************************)
(* evaluate(): one check after the other, each reading the files anew.     *)
(***************************************************************************)
IntegrityCheck == 17
FreshnessCheck == 6
LastCheck == 19

Check(i, fs, mtime, now, env) ==
    CASE i = 1  -> ConnectorInventoryPresent(fs)
      [] i = 2  -> ToolInventoryClassified(fs)
      [] i = 3  -> McpInventoryClassified(fs)
      [] i = 4  -> RequiredAuditEventsPresent(fs)
      [] i = 5  -> EvalResultsPresent(fs)
      [] i = FreshnessCheck -> EvidenceFreshness(fs, mtime, now, env)
      [] i = 7  -> ArtifactContractVersions(fs, env)
      [] i = 8  -> SourceModeQuality(fs)
      [] i = 9  -> ExporterDegradation(fs)
      [] i = 10 -> IdentityAuthzEvidencePresence(fs)
      [] i = 11 -> IdentityAuthzProvenanceQuality(fs)
      [] i = 12 -> ThreatControlMappingCompleteness(fs)
      [] i = 13 -> AdapterHealthSummary(fs)
      [] i = 14 -> ArtifactCompleteness(fs)
      [] i = 15 -> OptionalArtifactDegradation(fs)
      [] i = 16 -> ArtifactSchemaValidity(fs)
      [] i = IntegrityCheck -> ArtifactIntegrityManifest(fs, env)
      [] i = 18 -> EvidenceTamperingSignals(fs)
      [] i = LastCheck -> CriticalFailuresOrBlockers(fs)

\* Mutant: the last check decides.
WorseIsLatest(a, b) == b

\* The worse of what has been seen so far and one more check.
Worse(a, b) == Grade(FAIL \in {a, b}, WARN \in {a, b})

StatusOf(worst) ==
    CASE worst = FAIL -> NO_GO
      [] worst = WARN -> CONDITIONAL_GO
      [] worst = PASS -> GO
=============================================================================
