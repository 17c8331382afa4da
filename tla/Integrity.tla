------------------------------ MODULE Integrity ------------------------------
(***************************************************************************)
(* The integrity manifest of a bundle (integration_adapter/integrity.py):  *)
(* how it is built over the files of a run, and how it is verified by the  *)
(* launch gate, by verify_artifact_integrity and by the health report.     *)
(*                                                                         *)
(* The SHA-256 of a file is modelled by its content: equal digests mean    *)
(* equal bytes.  The HMAC of a manifest is modelled by the key it was      *)
(* computed with: no command of the repository rewrites part of a          *)
(* manifest, so its body is the one that was signed.                       *)
(***************************************************************************)
EXTENDS ArtifactStore

NoKey == 0     \* no signing secret configured

HashOnly == "hash_only"
SignedManifest == "signed_manifest"
NoMode == "unset"   \* the reader was given no mode and follows the manifest

\* INTEGRITY_REQUIRED_PATHS of the launch gate, REQUIRED_PATHS of the CLI.
RequiredPaths == {Contract, Audit, Connectors, Tools, McpServers, Evals, Health}

(***************************************************************************)
(* build_integrity_manifest.  Listed files that do not exist are skipped.  *)
(* CanBuild is false where the code raises: signed mode without a key.     *)
(***************************************************************************)
CanBuild(mode, key) == mode = SignedManifest => key # NoKey

BuildManifest(fs, listed, mode, key, stamp) ==
    LET entries == [f \in listed \cap DOMAIN fs |-> fs[f]]
    IN  [stamp |-> stamp,
         form  |-> "whole",
         data  |-> [mode      |-> mode,
                    entries   |-> entries,
                    signature |-> IF mode = SignedManifest THEN key ELSE NoKey]]

(***************************************************************************)
(* verify_integrity_manifest: the lists of its result, and ok.             *)
(***************************************************************************)
ManifestParses(fs) == Readable(fs, Manifest)

Entries(fs) == fs[Manifest].data.entries

MissingRequired(fs) ==
    {f \in RequiredPaths : ~ Exists(fs, f)}
    \cup IF ~ Exists(fs, Manifest) THEN {Manifest}
         ELSE IF ManifestParses(fs)
              THEN {f \in DOMAIN Entries(fs) : ~ Exists(fs, f)}
              ELSE {}

MissingManifestEntries(fs) ==
    IF ManifestParses(fs) THEN RequiredPaths \ DOMAIN Entries(fs)
    ELSE IF Exists(fs, Manifest) THEN {Manifest} ELSE {}

HashMismatches(fs) ==
    IF ManifestParses(fs)
    THEN {f \in DOMAIN Entries(fs) : Exists(fs, f) /\ fs[f] # Entries(fs)[f]}
    ELSE {}

SelectedMode(fs, mode) == IF mode = NoMode THEN fs[Manifest].data.mode ELSE mode

SignatureVerifies(fs, key) ==
    key # NoKey /\ fs[Manifest].data.signature = key

HasSignatureErrors(fs, mode, key) ==
    /\ ManifestParses(fs)
    /\ \/ SelectedMode(fs, mode) # fs[Manifest].data.mode
       \/ /\ SelectedMode(fs, mode) = SignedManifest
          /\ ~ SignatureVerifies(fs, key)

\* The part of the verification that reads files: no list of paths is filled.
HashesConsistent(fs) ==
    /\ MissingRequired(fs) = {}
    /\ MissingManifestEntries(fs) = {}
    /\ HashMismatches(fs) = {}

VerifyOk(fs, mode, key) ==
    HashesConsistent(fs) /\ ~ HasSignatureErrors(fs, mode, key)
=============================================================================
