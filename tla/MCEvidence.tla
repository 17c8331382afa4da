------------------------------ MODULE MCEvidence ------------------------------
(***************************************************************************)
(* Instances of EvidencePipeline for TLC: payloads, environments.          *)
(***************************************************************************)
EXTENDS EvidencePipeline

\* Live evidence that only just earns a pass: every gap is at its threshold.
Clean == [
    mode |-> Live, connectors |-> TRUE, tools |-> "classified", mcp |-> "known",
    evals |-> "passing", mapping |-> "mapped", events |-> "complete",
    identityGap |-> 20, provenanceGap |-> 15, criticalGap |-> 0,
    derivedCritical |-> 70, sources |-> "observed", runtime |-> "db_backed",
    parseFailures |-> 0, fallbacks |-> 0, warnings |-> 0, traces |-> <<1>>]

\* Live evidence without a blemish.
Flawless == [Clean EXCEPT !.identityGap = 0, !.provenanceGap = 0,
                          !.derivedCritical = 0]

\* One evaluation scenario failed.
Regressed == [Clean EXCEPT !.evals = "failing"]

\* Live evidence at the last tolerated gap, with one exporter fallen back.
Tolerated == [Clean EXCEPT !.identityGap = 50, !.criticalGap = 20, !.fallbacks = 1]

\* The deterministic payload of --demo, its failing scenario included.
DemoPayload == [
    mode |-> Demo, connectors |-> TRUE, tools |-> "classified", mcp |-> "known",
    evals |-> "failing", mapping |-> "mapped", events |-> "complete",
    identityGap |-> 50, provenanceGap |-> 0, criticalGap |-> 42,
    derivedCritical |-> 17, sources |-> "synthetic", runtime |-> "synthetic",
    parseFailures |-> 0, fallbacks |-> 5, warnings |-> 5, traces |-> <<1>>]

\* Inventories only: no events, no evaluations.
Silent == [Clean EXCEPT !.events = "none", !.evals = "none", !.traces = <<>>,
                        !.identityGap = 0, !.provenanceGap = 0,
                        !.derivedCritical = 0]

\* An event of unknown type among valid ones.
Rejected == [Clean EXCEPT !.events = "unsupported"]

\* Audit evidence beyond a threshold.
Gapped == [Clean EXCEPT !.criticalGap = 21]

TtlOf(n) == [family \in {RetentionFamilies[i] : i \in 1..5} |-> n]

Dev == [profile |-> "dev", critical |-> 1, warning |-> 1, ttl |-> TtlOf(1),
        keep |-> 1, compat |-> Allowed, gateCompat |-> Allowed,
        mode |-> NoMode, key |-> NoKey]

ProdLike == [Dev EXCEPT !.profile = "prod_like", !.critical = 0,
                        !.mode = SignedManifest, !.key = 1]

\* Signed manifests asked for, and no key configured.
Keyless == [Dev EXCEPT !.mode = SignedManifest]

\* The operator sets every TTL to zero.
Eager == [Dev EXCEPT !.ttl = TtlOf(0)]

Drifted == [Dev EXCEPT !.compat = WarnOnly]

Incompatible == [Dev EXCEPT !.compat = Blocked]

-----------------------------------------------------------------------------
\* The operator's commands in each run.
AllCommands == Kinds
Generating == {"generate", "pipeline", "gate"}
Keeping == {"pipeline", "gate", "retention"}
Maintaining == {"pipeline", "gate", "retention", "retention_dry_run"}
OnlyGenerate == {"generate"}
OnlyPipeline == {"pipeline"}

\* Its evidence.
FaultPayloads == {Clean, Regressed, Rejected}
AllPayloads == {Clean, Flawless, Regressed, Tolerated, DemoPayload, Silent,
                Rejected, Gapped}
CleanPayloads == {Clean}
RejectedPayloads == {Clean, Rejected}
FlawlessPayloads == {Flawless}
DemoPayloads == {DemoPayload}

\* And its settings.
DevOnly == {Dev}
EagerOnly == {Eager}
AllProfiles == {Dev, ProdLike, Keyless, Drifted, Incompatible}
Cleaning == {Dev, Eager}
Refusing == {Dev, ProdLike}
=============================================================================
