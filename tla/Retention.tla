------------------------------ MODULE Retention ------------------------------
(***************************************************************************)
(* What the retention policy protects and what it may delete               *)
(* (integration_adapter/artifact_retention.py).                            *)
(***************************************************************************)
EXTENDS LaunchGate

(***************************************************************************)
(* The rules of a profile, in the order they are applied, and the family   *)
(* whose patterns match a file.  Contract, inventories and replays match   *)
(* none, so no retention command ever deletes them.                        *)
(***************************************************************************)
RetentionFamilies ==
    <<"audit_logs", "eval_outputs", "launch_gate_outputs", "adapter_health",
      "integrity_manifests">>

FamilyMembers(family) ==
    CASE family = "audit_logs"          -> {"audit"}
      [] family = "eval_outputs"        -> {"eval_rows", "eval_summary"}
      [] family = "launch_gate_outputs" -> {"gate_json", "gate_md"}
      [] family = "adapter_health"      -> {"health", "retention"}
      [] family = "integrity_manifests" -> {"manifest"}

IsMember(f, family) == f[1] \in FamilyMembers(family)

FamilyFiles(fs) ==
    {f \in DOMAIN fs : \E i \in DOMAIN RetentionFamilies :
                            IsMember(f, RetentionFamilies[i])}

\* The position of the rule that matches f.
RuleOf(f) == CHOOSE i \in DOMAIN RetentionFamilies : IsMember(f, RetentionFamilies[i])

(***************************************************************************)
(* Protected files.                                                        *)
(***************************************************************************)
RequiredProtected == RequiredPaths \cup {Manifest}

\* An absent manifest, and one that does not parse, protect nothing.
ManifestPaths(fs) == IF ManifestParses(fs) THEN DOMAIN Entries(fs) ELSE {}

\* A report that parses and whose status is go or conditional_go.
IsPassing(fs, f) ==
    /\ f[1] = "gate_json"
    /\ Readable(fs, f)
    /\ fs[f].data.status \in {GO, CONDITIONAL_GO}

PassingReports(fs) == {f \in DOMAIN fs : IsPassing(fs, f)}

\* Reports are ranked by generated_at, which orders them as their names do.
LatestSuccessful(fs, keep) ==
    LET newest == {f \in PassingReports(fs) :
                      Cardinality({g \in PassingReports(fs) : g[2] > f[2]}) < keep}
    IN  newest \cup {GateMd(f[2]) : f \in newest}

\* Mutant: the files that the manifest lists are not protected.
ProtectedWithoutManifest(fs, keep) == RequiredProtected \cup LatestSuccessful(fs, keep)

\* Mutant: passing reports are not protected.
ProtectedWithoutReports(fs, keep) == RequiredProtected \cup ManifestPaths(fs)

Protected(fs, keep) ==
    RequiredProtected \cup ManifestPaths(fs) \cup LatestSuccessful(fs, keep)
=============================================================================
