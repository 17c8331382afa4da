---------------------------- MODULE ArtifactStore ----------------------------
(***************************************************************************)
(* The artifacts root of the integration adapter: the directory that every *)
(* adapter command reads and writes, and the only state they share.        *)
(*                                                                         *)
(* A store is a function from the files that exist to their contents.  A   *)
(* file is a pair <<family, key>>: the key tells apart the evaluation      *)
(* files of the two collection modes, the replays of the traces and the    *)
(* launch gate reports of the UTC seconds; other families have one file.   *)
(*                                                                         *)
(* A content is [stamp, form, data].  stamp stands for the fields that     *)
(* differ between any two runs (generated_at, fresh event ids); it is      *)
(* NoStamp in a file that has none, so that two runs over equal data write *)
(* equal bytes.  form says whether the file is whole: write_text and       *)
(* open("w") truncate a file before they fill it, and nothing in the       *)
(* adapter writes to a temporary name and renames.                         *)
(***************************************************************************)
EXTENDS Integers, Sequences, FiniteSets, TLC

CONSTANTS
    Traces,     \* trace ids that runtime events carry
    MaxClock    \* bound: the UTC seconds of a behaviour are 0..MaxClock

ASSUME StoreAssumption == Traces \subseteq Nat /\ MaxClock \in Nat

Live == 0
Demo == 1
Modes == {Live, Demo}

Contract   == <<"contract", 0>>     \* artifact_bundle.contract.json
Audit      == <<"audit", 0>>        \* audit.jsonl
Connectors == <<"connectors", 0>>   \* connectors.inventory.json
Tools      == <<"tools", 0>>        \* tools.inventory.json
McpServers == <<"mcp_servers", 0>>  \* mcp_servers.inventory.json
Evals      == <<"evals", 0>>        \* evals.inventory.json
Health     == <<"health", 0>>       \* adapter_health/adapter_run_summary.json
RetentionLog == <<"retention", 0>>  \* adapter_health/retention_last_run.json
Manifest   == <<"manifest", 0>>     \* artifact_integrity.manifest.json
EvalRows(m)    == <<"eval_rows", m>>     \* evals/<mode>-security.jsonl
EvalSummary(m) == <<"eval_summary", m>>  \* evals/<mode>-security.summary.json
Replay(t)  == <<"replay", t>>       \* replay/<trace>.replay.json
GateJson(s) == <<"gate_json", s>>   \* launch_gate/security-readiness-<s>.json
GateMd(s)   == <<"gate_md", s>>     \* launch_gate/security-readiness-<s>.md

File ==
    {Contract, Audit, Connectors, Tools, McpServers, Evals, Health,
     RetentionLog, Manifest}
    \cup ({"eval_rows", "eval_summary"} \X Modes)
    \cup ({"replay"} \X Traces)
    \cup ({"gate_json", "gate_md"} \X (0..MaxClock))

NoStamp == 0

(***************************************************************************)
(* What a cut-off write can leave.  A JSON document that is cut off does   *)
(* not parse.  A file of JSON lines may also be empty, or end at a line    *)
(* boundary and parse.                                                     *)
(***************************************************************************)
LineFamilies == {"audit", "eval_rows"}

TornForms(f) ==
    IF f[1] \in LineFamilies THEN {"empty", "prefix", "malformed"}
                             ELSE {"malformed"}

Forms == {"whole", "empty", "prefix", "malformed"}

(***************************************************************************)
(* Reading and writing.                                                    *)
(***************************************************************************)
Exists(fs, f) == f \in DOMAIN fs

\* The file exists and its text parses.
Readable(fs, f) == Exists(fs, f) /\ fs[f].form # "malformed"

Glob(fs, family) == {f \in DOMAIN fs : f[1] = family}

Put(fs, f, c) == [g \in DOMAIN fs \cup {f} |-> IF g = f THEN c ELSE fs[g]]

Unlink(fs, f) == [g \in DOMAIN fs \ {f} |-> fs[g]]
=============================================================================
