---------------------------- MODULE EvidenceTypes ----------------------------
(***************************************************************************)
(* Type correctness of EvidencePipeline, for all values of its constants,  *)
(* and the lemmas on files and contents that the other proofs use.  Then   *)
(* its steps, field by field: what each changes of the process that takes  *)
(* it, of that process's run and of the artifacts root.  The invariants of *)
(* the other proof modules are carried over these, one case per shape; the *)
(* first of them, and the theorem about prod_like bundles that follows     *)
(* from it, are here.                                                      *)
(***************************************************************************)
EXTENDS EvidencePipeline, SequenceTheorems, TLAPS

-----------------------------------------------------------------------------
(***************************************************************************)
(* Files.                                                                  *)
(***************************************************************************)
LEMMA FilesAreFiles ==
    /\ {Contract, Audit, Connectors, Tools, McpServers, Evals, Health,
        RetentionLog, Manifest} \subseteq File
    /\ \A m \in Modes : EvalRows(m) \in File /\ EvalSummary(m) \in File
    /\ \A t \in Traces : Replay(t) \in File
    /\ \A s \in 0..MaxClock : GateJson(s) \in File /\ GateMd(s) \in File
  BY DEF File, Contract, Audit, Connectors, Tools, McpServers, Evals, Health,
         RetentionLog, Manifest, EvalRows, EvalSummary, Replay, GateJson, GateMd

\* The files that generate_artifacts writes before the gate.
BundleFiles(pl) ==
    RequiredPaths \cup {EvalRows(pl.mode), EvalSummary(pl.mode)}
    \cup {Replay(pl.traces[i]) : i \in DOMAIN pl.traces}

LEMMA BundleFilesAreFiles ==
    ASSUME NEW pl \in Payloads
    PROVE  /\ BundleFiles(pl) \subseteq File
           /\ pl.traces \in Seq(Traces)
           /\ pl.mode \in Modes
<1>1. pl \in Payload
  BY PipelineAssumption
<1>2. pl.traces \in Seq(Traces) /\ pl.mode \in Modes
  BY <1>1 DEF Payload
<1>3. \A i \in DOMAIN pl.traces : pl.traces[i] \in Traces
  BY <1>2
<1>4. RequiredPaths \subseteq File
  BY FilesAreFiles DEF RequiredPaths
<1> QED
  BY <1>2, <1>3, <1>4, FilesAreFiles DEF BundleFiles

LEMMA ConcatHead ==
    ASSUME NEW S, NEW s \in Seq(S), NEW t \in Seq(S), s # <<>>
    PROVE  /\ s \o t \in Seq(S)
           /\ s \o t # <<>>
           /\ (s \o t)[1] = s[1]
  BY ConcatProperties

\* The plan of a run names the bundle files and no other.
LEMMA PlanListsBundleFiles ==
    ASSUME NEW pl \in Payloads
    PROVE  /\ Plan(pl) \in Seq(File)
           /\ \A i \in DOMAIN Plan(pl) : Plan(pl)[i] \in BundleFiles(pl)
           /\ Plan(pl) # <<>>
           /\ Plan(pl)[1] = Contract
<1> DEFINE B == BundleFiles(pl)
           front == <<Contract, Connectors, Tools, McpServers, Evals, Audit>>
           middle == [i \in DOMAIN pl.traces |-> Replay(pl.traces[i])]
           back == <<EvalRows(pl.mode), EvalSummary(pl.mode), Health>>
<1>1. B \subseteq File /\ pl.traces \in Seq(Traces)
  BY BundleFilesAreFiles
<1>2. front \in Seq(B) /\ Len(front) = 6 /\ front[1] = Contract
  <2>1. {Contract, Connectors, Tools, McpServers, Evals, Audit} \subseteq B
    BY DEF BundleFiles, RequiredPaths
  <2> HIDE DEF B
  <2> QED BY <2>1
<1>3. middle \in Seq(B)
  <2>1. DOMAIN pl.traces = 1..Len(pl.traces) /\ Len(pl.traces) \in Nat
    BY <1>1
  <2>2. \A i \in DOMAIN pl.traces : Replay(pl.traces[i]) \in B
    BY DEF BundleFiles
  <2> HIDE DEF B
  <2> QED BY <2>1, <2>2, IsASeq
<1>4. back \in Seq(B)
  <2>1. {EvalRows(pl.mode), EvalSummary(pl.mode), Health} \subseteq B
    BY DEF BundleFiles, RequiredPaths
  <2> HIDE DEF B
  <2> QED BY <2>1
<1>5. Plan(pl) = front \o middle \o back
  BY DEF Plan
<1> HIDE DEF B, front, middle, back
<1>6. front # <<>>
  BY <1>2
<1>7. /\ front \o middle \in Seq(B)
      /\ front \o middle # <<>>
      /\ (front \o middle)[1] = Contract
  BY <1>2, <1>3, <1>6, ConcatHead
<1>8. /\ Plan(pl) \in Seq(B)
      /\ Plan(pl) # <<>>
      /\ Plan(pl)[1] = Contract
  BY <1>4, <1>5, <1>7, ConcatHead
<1>9. \A i \in DOMAIN Plan(pl) : Plan(pl)[i] \in B
  BY <1>8
<1>10. Plan(pl) \in Seq(File)
  BY <1>1, <1>8
<1> QED
  BY <1>8, <1>9, <1>10 DEF B

-----------------------------------------------------------------------------
(***************************************************************************)
(* Grades.                                                                 *)
(***************************************************************************)
LEMMA GradeIsGrade ==
    ASSUME NEW fails, NEW warns
    PROVE  Grade(fails, warns) \in Grades
  BY DEF Grade, Grades

LEMMA CheckIsGrade ==
    ASSUME NEW i \in 1..LastCheck, NEW s, NEW m, NEW now, NEW env
    PROVE  Check(i, s, m, now, env) \in Grades
<1>1. ConnectorInventoryPresent(s) \in Grades
  BY GradeIsGrade DEF ConnectorInventoryPresent
<1>2. ToolInventoryClassified(s) \in Grades
  BY GradeIsGrade DEF ToolInventoryClassified
<1>3. McpInventoryClassified(s) \in Grades
  BY GradeIsGrade DEF McpInventoryClassified
<1>4. RequiredAuditEventsPresent(s) \in Grades
  BY GradeIsGrade DEF RequiredAuditEventsPresent
<1>5. EvalResultsPresent(s) \in Grades
  BY GradeIsGrade DEF EvalResultsPresent
<1>6. EvidenceFreshness(s, m, now, env) \in Grades
  BY GradeIsGrade DEF EvidenceFreshness
<1>7. ArtifactContractVersions(s, env) \in Grades
  BY GradeIsGrade DEF ArtifactContractVersions
<1>8. SourceModeQuality(s) \in Grades
  BY GradeIsGrade DEF SourceModeQuality
<1>9. ExporterDegradation(s) \in Grades
  BY GradeIsGrade DEF ExporterDegradation
<1>10. IdentityAuthzEvidencePresence(s) \in Grades
  BY GradeIsGrade DEF IdentityAuthzEvidencePresence
<1>11. IdentityAuthzProvenanceQuality(s) \in Grades
  BY GradeIsGrade DEF IdentityAuthzProvenanceQuality
<1>12. ThreatControlMappingCompleteness(s) \in Grades
  BY GradeIsGrade DEF ThreatControlMappingCompleteness
<1>13. AdapterHealthSummary(s) \in Grades
  BY GradeIsGrade DEF AdapterHealthSummary
<1>14. ArtifactCompleteness(s) \in Grades
  BY GradeIsGrade DEF ArtifactCompleteness
<1>15. OptionalArtifactDegradation(s) \in Grades
  BY GradeIsGrade DEF OptionalArtifactDegradation
<1>16. ArtifactSchemaValidity(s) \in Grades
  BY GradeIsGrade DEF ArtifactSchemaValidity
<1>17. ArtifactIntegrityManifest(s, env) \in Grades
  BY GradeIsGrade DEF ArtifactIntegrityManifest
<1>18. EvidenceTamperingSignals(s) \in Grades
  BY GradeIsGrade DEF EvidenceTamperingSignals
<1>19. CriticalFailuresOrBlockers(s) \in Grades
  BY GradeIsGrade DEF CriticalFailuresOrBlockers
<1>20. i \in 1..10 => Check(i, s, m, now, env) \in Grades
  BY <1>1, <1>2, <1>3, <1>4, <1>5, <1>6, <1>7, <1>8, <1>9, <1>10
     DEF Check, FreshnessCheck, IntegrityCheck, LastCheck
<1>21. i \in 11..19 => Check(i, s, m, now, env) \in Grades
  BY <1>11, <1>12, <1>13, <1>14, <1>15, <1>16, <1>17, <1>18, <1>19
     DEF Check, FreshnessCheck, IntegrityCheck, LastCheck
<1> QED
  BY <1>20, <1>21 DEF LastCheck

LEMMA StatusIsStatus ==
    ASSUME NEW g \in Grades
    PROVE  StatusOf(g) \in Statuses
  BY DEF Grades, Statuses, StatusOf, PASS, WARN, FAIL, GO, CONDITIONAL_GO, NO_GO

(***************************************************************************)
(* Contents.                                                               *)
(***************************************************************************)
LEMMA BundleFileKinds ==
    ASSUME NEW pl \in Payloads, NEW f \in BundleFiles(pl)
    PROVE  /\ f \in File
           /\ f # Manifest /\ f # RetentionLog
           /\ f[1] \notin {"gate_json", "gate_md"}
  BY BundleFilesAreFiles
     DEF BundleFiles, RequiredPaths, EvalRows, EvalSummary, Replay, Contract,
         Audit, Connectors, Tools, McpServers, Evals, Health, Manifest,
         RetentionLog

LEMMA HealthSummaryType ==
    ASSUME NEW pl \in Payloads, NEW env, NEW failed, NEW status
    PROVE  HealthSummary(pl, env, failed, status) \in HealthRecord
<1>1. pl \in Payload
  BY PipelineAssumption
<1>2. RunStatus(pl, env.compat, failed, status)
        \in {"success", "degraded_success", "failed_run"}
  BY DEF RunStatus
<1> QED
  BY <1>1, <1>2 DEF HealthSummary, HealthRecord, Payload

LEMMA BundleContentType ==
    ASSUME NEW pl \in Payloads, NEW f \in BundleFiles(pl), NEW env,
           NEW r \in Stamps
    PROVE  /\ BundleContent(f, r, pl, env) \in EvidenceFile(f)
           /\ Fits(f, BundleContent(f, r, pl, env))
<1>1. f # Manifest /\ f # RetentionLog /\ f[1] \notin {"gate_json", "gate_md"}
  BY BundleFileKinds
<1>2. NoStamp \in Stamps
  BY PipelineAssumption DEF NoStamp, Stamps
<1>3. CASE f = Health
  BY <1>1, <1>2, <1>3, HealthSummaryType
     DEF BundleContent, EvidenceFile, EvidenceData, Fits, Forms
<1>4. CASE f # Health
  BY <1>1, <1>2, <1>4 DEF BundleContent, EvidenceFile, EvidenceData, Fits, Forms
<1> QED
  BY <1>3, <1>4

LEMMA FailureSummaryType ==
    ASSUME NEW pl \in Payloads, NEW env, NEW r \in Stamps
    PROVE  Fits(Health, FailureSummary(r, pl, env))
<1>1. /\ Health # Manifest /\ Health # RetentionLog
      /\ Health[1] \notin {"gate_json", "gate_md"}
  BY DEF Health, Manifest, RetentionLog
<1> QED
  BY <1>1, HealthSummaryType
     DEF FailureSummary, EvidenceFile, EvidenceData, Fits, Forms

LEMMA GateReportType ==
    ASSUME NEW f, f[1] \in {"gate_json", "gate_md"},
           NEW r \in Stamps, NEW w \in Grades, NEW e \in BOOLEAN
    PROVE  Fits(f, GateReport(r, w, e))
<1>1. f # Manifest /\ f # Health /\ f # RetentionLog
  BY DEF Health, Manifest, RetentionLog
<1> QED
  BY <1>1, StatusIsStatus
     DEF GateReport, GateRecord, EvidenceFile, EvidenceData, Fits, Forms

LEMMA ListedFiles ==
    ASSUME NEW pl \in Payloads, NEW s \in 0..MaxClock
    PROVE  Listed(pl, s) = BundleFiles(pl) \cup {GateJson(s)}
  BY DEF Listed, BundleFiles

LEMMA ManifestType ==
    ASSUME NEW s, NEW listed, NEW mode \in {HashOnly, SignedManifest},
           NEW key \in Nat, NEW r \in Stamps,
           listed \subseteq File \ {Manifest},
           \A f \in DOMAIN s : Fits(f, s[f])
    PROVE  Fits(Manifest, BuildManifest(s, listed, mode, key, r))
<1>1. \A f \in listed \cap DOMAIN s : s[f] \in EvidenceFile(f)
  BY DEF Fits
<1> QED
  BY <1>1 DEF BuildManifest, ManifestFile, Fits, Forms, NoKey

LEMMA LogType ==
    ASSUME NEW r \in Stamps
    PROVE  Fits(RetentionLog, [stamp |-> r, form |-> "whole", data |-> NoPayload])
  BY DEF Fits, RetentionLog, Manifest, Health, EvidenceFile, EvidenceData, Forms

\* A file keeps its type however it is cut off.
LEMMA TornType ==
    ASSUME NEW f, NEW c, NEW form \in Forms, Fits(f, c)
    PROVE  Fits(f, [c EXCEPT !.form = form])
<1>1. CASE f = Manifest
  BY <1>1 DEF Fits, ManifestFile
<1>2. CASE f # Manifest
  BY <1>2 DEF Fits, EvidenceFile
<1> QED
  BY <1>1, <1>2

LEMMA PutType ==
    ASSUME NEW s, NEW f \in File, NEW c, Fits(f, c),
           DOMAIN s \subseteq File, \A g \in DOMAIN s : Fits(g, s[g])
    PROVE  /\ DOMAIN Put(s, f, c) \subseteq File
           /\ \A g \in DOMAIN Put(s, f, c) : Fits(g, Put(s, f, c)[g])
  BY DEF Put

-----------------------------------------------------------------------------
(***************************************************************************)
(* The inductive invariant.  TypeOK alone is not inductive: that the file  *)
(* about to be written gets a content of its type depends on which files   *)
(* a phase works through, and on which commands have collected a payload.  *)
(***************************************************************************)
HasPayload(rs, r) == rs[r].kind \in Generators /\ rs[r].payload \in Payloads

TodoOK(s, rs) ==
    /\ s.open => s.phase \in WritingPhases
    /\ s.embedded \/ s.phase \in {"bundle", "failing", "seal"} => HasPayload(rs, s.run)
    /\ \A i \in DOMAIN s.todo :
          /\ s.phase = "bundle"  => s.todo[i] \in BundleFiles(rs[s.run].payload)
          /\ s.phase = "failing" => s.todo[i] = Health
          /\ s.phase = "report"  => s.todo[i][1] \in {"gate_json", "gate_md"}
          /\ s.phase = "seal"    => s.todo[i] = Manifest
          /\ s.phase = "log"     => s.todo[i] = RetentionLog

ProcOK(s, rs) ==
    /\ ProcType(s)
    /\ s = Idle \/ (s.phase # "idle" /\ s.run \in DOMAIN rs)
    /\ TodoOK(s, rs)

RunsOK(rs) ==
    /\ rs \in Seq(Run)
    /\ Len(rs) <= MaxRuns
    /\ \A r \in DOMAIN rs : rs[r].kind \in Generators => rs[r].payload \in Payloads

StoreOK(s) == DOMAIN s \subseteq File /\ \A f \in DOMAIN s : Fits(f, s[f])

ClockOK(m, now) == m \in [File -> 0..MaxClock] /\ now \in 0..MaxClock

WellTyped ==
    /\ StoreOK(fs)
    /\ ClockOK(mtime, clock)
    /\ RunsOK(runs)
    /\ DOMAIN proc = Procs
    /\ \A p \in Procs : ProcOK(proc[p], runs)

\* Every earlier run stays what it was started as.
RunsKept(rs, rt) ==
    /\ DOMAIN rs \subseteq DOMAIN rt
    /\ \A r \in DOMAIN rs : /\ rt[r].kind = rs[r].kind
                             /\ rt[r].payload = rs[r].payload
                             /\ rt[r].env = rs[r].env

LEMMA ProcKept ==
    ASSUME NEW s, NEW rs, NEW rt, ProcOK(s, rs), RunsKept(rs, rt)
    PROVE  ProcOK(s, rt)
<1>1. CASE s = Idle
  BY <1>1 DEF ProcOK, TodoOK, Idle
<1>2. CASE s.phase # "idle" /\ s.run \in DOMAIN rs
  BY <1>2 DEF ProcOK, TodoOK, RunsKept, HasPayload
<1> QED
  BY <1>1, <1>2 DEF ProcOK

LEMMA IdleOK ==
    ASSUME NEW rs
    PROVE  ProcOK(Idle, rs)
<1>1. 0 \in Stamps /\ 0 \in 0..MaxClock
  BY PipelineAssumption, StoreAssumption DEF Stamps
<1>2. <<>> \in Seq(File)
  OBVIOUS
<1> QED
  BY <1>1, <1>2
     DEF ProcOK, ProcType, TodoOK, Idle, NoContent, Phases, WritingPhases, Grades,
         LastCheck, PASS, WARN, FAIL

\* A step of one process.
LEMMA ProcStep ==
    ASSUME WellTyped, NEW p \in Procs, NEW s, RunsKept(runs, runs'),
           proc' = [proc EXCEPT ![p] = s], ProcOK(s, runs')
    PROVE  /\ DOMAIN proc' = Procs
           /\ \A q \in Procs : ProcOK(proc'[q], runs')
  BY ProcKept DEF WellTyped

LEMMA WellTypedImpliesTypeOK == WellTyped => TypeOK
  BY DEF WellTyped, TypeOK, StoreOK, ClockOK, RunsOK, ProcOK, IsIdle, Idle

LEMMA WellTypedInit == Init => WellTyped
<1> SUFFICES ASSUME Init PROVE WellTyped
  OBVIOUS
<1>1. StoreOK(fs)
  BY DEF Init, StoreOK
<1>2. ClockOK(mtime, clock)
  BY StoreAssumption DEF Init, ClockOK
<1>3. RunsOK(runs)
  BY PipelineAssumption DEF Init, RunsOK
<1>4. DOMAIN proc = Procs /\ \A p \in Procs : ProcOK(proc[p], runs)
  BY IdleOK DEF Init
<1> QED
  BY <1>1, <1>2, <1>3, <1>4 DEF WellTyped

-----------------------------------------------------------------------------
(***************************************************************************)
(* Steps.                                                                  *)
(***************************************************************************)
\* A run that is rewritten stays what it was started as.
LEMMA RunRewritten ==
    ASSUME RunsOK(runs), NEW r \in DOMAIN runs, NEW x \in Run,
           x.kind = runs[r].kind, x.payload = runs[r].payload, x.env = runs[r].env,
           runs' = [runs EXCEPT ![r] = x]
    PROVE  /\ RunsOK(runs')
           /\ RunsKept(runs, runs')
           /\ DOMAIN runs' = DOMAIN runs
<1>1. DOMAIN runs' = DOMAIN runs
  OBVIOUS
<1>2. runs' \in Seq(Run) /\ Len(runs') = Len(runs)
  BY DEF RunsOK
<1>3. \A q \in DOMAIN runs : /\ runs'[q].kind = runs[q].kind
                               /\ runs'[q].payload = runs[q].payload
                               /\ runs'[q].env = runs[q].env
  OBVIOUS
<1> QED
  BY <1>1, <1>2, <1>3 DEF RunsOK, RunsKept

LEMMA SameRuns ==
    ASSUME RunsOK(runs), UNCHANGED runs
    PROVE  RunsOK(runs') /\ RunsKept(runs, runs')
  BY DEF RunsOK, RunsKept

\* What a process that is not idle knows about its run.
LEMMA BusyRun ==
    ASSUME WellTyped, NEW p \in Procs, ~ IsIdle(p)
    PROVE  /\ proc[p].run \in DOMAIN runs
           /\ proc[p].run \in Stamps
           /\ runs[proc[p].run] \in Run
           /\ ProcType(proc[p])
           /\ TodoOK(proc[p], runs)
<1>1. ProcOK(proc[p], runs) /\ RunsOK(runs)
  BY DEF WellTyped
<1>2. proc[p].run \in DOMAIN runs
  BY <1>1 DEF ProcOK, IsIdle, Idle
<1> QED
  BY <1>1, <1>2 DEF ProcOK, RunsOK, ProcType

LEMMA EndStep ==
    ASSUME WellTyped, NEW p \in Procs, ~ IsIdle(p), NEW o \in Outcomes,
           End(p, o), UNCHANGED <<fs, mtime, clock>>
    PROVE  WellTyped'
<1> DEFINE r == proc[p].run
           x == [runs[r] EXCEPT !.outcome = o]
<1>1. r \in DOMAIN runs /\ runs[r] \in Run
  BY BusyRun
<1>2. x \in Run /\ x.kind = runs[r].kind /\ x.payload = runs[r].payload
      /\ x.env = runs[r].env
  BY <1>1 DEF Run
<1>3. runs' = [runs EXCEPT ![r] = x]
  BY DEF End
<1>4. RunsOK(runs)
  BY DEF WellTyped
<1> HIDE DEF x, r
<1>5. RunsOK(runs') /\ RunsKept(runs, runs')
  BY <1>1, <1>2, <1>3, <1>4, RunRewritten
<1>6. DOMAIN proc' = Procs /\ \A q \in Procs : ProcOK(proc'[q], runs')
  BY <1>5, IdleOK, ProcStep DEF End
<1> QED
  BY <1>5, <1>6 DEF WellTyped

LEMMA BeginStep ==
    ASSUME WellTyped, NEW p \in Procs, NEW kind \in Kinds,
           NEW pl \in Payloads \cup {NoPayload}, NEW env \in Environments,
           NEW o \in Outcomes, kind \in Generators => pl \in Payloads,
           Len(runs) < MaxRuns,
           runs' = Append(runs, Started(kind, pl, env, o))
    PROVE  /\ RunsOK(runs')
           /\ RunsKept(runs, runs')
           /\ Len(runs) + 1 \in DOMAIN runs' \cap Stamps
           /\ runs'[Len(runs) + 1] = Started(kind, pl, env, o)
<1> DEFINE x == Started(kind, pl, env, o)
<1>1. RunsOK(runs) /\ MaxRuns \in Nat
  BY PipelineAssumption DEF WellTyped
<1>2. x \in Run /\ x.kind = kind /\ x.payload = pl
  BY <1>1 DEF Started, Run, Stamps
<1> HIDE DEF x
<1>3. runs \in Seq(Run) /\ runs' = Append(runs, x)
  BY <1>1 DEF RunsOK, x
<1>4. /\ runs' \in Seq(Run)
      /\ Len(runs') = Len(runs) + 1
      /\ DOMAIN runs = 1..Len(runs) /\ DOMAIN runs' = 1..(Len(runs) + 1)
      /\ \A q \in DOMAIN runs : runs'[q] = runs[q]
      /\ runs'[Len(runs) + 1] = x
      /\ Len(runs) \in Nat
  BY <1>2, <1>3
<1>5. RunsOK(runs')
  BY <1>1, <1>2, <1>4 DEF RunsOK
<1>6. Len(runs) + 1 \in DOMAIN runs' \cap Stamps
  BY <1>1, <1>4 DEF Stamps
<1> QED
  BY <1>4, <1>5, <1>6 DEF RunsKept, x

\* Commands start.
LEMMA StartGeneratorStep ==
    ASSUME WellTyped, NEW p \in Procs, StartGenerator(p)
    PROVE  WellTyped'
<1> PICK kind \in Generators, pl \in Payloads, env \in Environments :
        Begin(p, kind, pl, env, [Idle EXCEPT !.phase = "bundle", !.todo = Plan(pl)])
  BY DEF StartGenerator
<1> DEFINE s == [[Idle EXCEPT !.phase = "bundle", !.todo = Plan(pl)]
                    EXCEPT !.run = Len(runs) + 1]
<1>1. /\ RunsOK(runs') /\ RunsKept(runs, runs')
      /\ Len(runs) + 1 \in DOMAIN runs' \cap Stamps
      /\ runs'[Len(runs) + 1] = Started(kind, pl, env, "running")
  BY BeginStep DEF Begin, CanStart, Kinds, Outcomes
<1>2. ProcType(Idle)
  BY IdleOK DEF ProcOK
<1>3. /\ Plan(pl) \in Seq(File)
      /\ \A i \in DOMAIN Plan(pl) : Plan(pl)[i] \in BundleFiles(pl)
  BY PlanListsBundleFiles
<1>4. ProcType(s)
  BY <1>1, <1>2, <1>3 DEF ProcType, Idle, Phases, WritingPhases
<1>5. ProcOK(s, runs')
  BY <1>1, <1>3, <1>4 DEF ProcOK, TodoOK, HasPayload, Started, Idle
<1>6. proc' = [proc EXCEPT ![p] = s]
  BY DEF Begin
<1> QED
  BY <1>1, <1>5, <1>6, ProcStep DEF WellTyped, Begin

LEMMA StartBlockedStep ==
    ASSUME WellTyped, NEW p \in Procs, StartBlocked(p)
    PROVE  WellTyped'
<1> PICK kind \in Generators, pl \in Payloads, env \in Environments :
        /\ CanStart(kind)
        /\ runs' = Append(runs, Started(kind, pl, env, "blocked"))
        /\ UNCHANGED <<fs, mtime, clock, proc>>
  BY DEF StartBlocked
<1>1. RunsOK(runs') /\ RunsKept(runs, runs')
  BY BeginStep DEF CanStart, Kinds, Outcomes
<1> QED
  BY <1>1, ProcKept DEF WellTyped

LEMMA StartGateStep ==
    ASSUME WellTyped, NEW p \in Procs, StartGate(p)
    PROVE  WellTyped'
<1> PICK env \in Environments :
        Begin(p, "gate", NoPayload, env, [Idle EXCEPT !.phase = "check"])
  BY DEF StartGate
<1> DEFINE s == [[Idle EXCEPT !.phase = "check"] EXCEPT !.run = Len(runs) + 1]
<1>1. /\ RunsOK(runs') /\ RunsKept(runs, runs')
      /\ Len(runs) + 1 \in DOMAIN runs' \cap Stamps
  BY BeginStep DEF Begin, CanStart, Kinds, Outcomes, Generators
<1>2. ProcType(Idle)
  BY IdleOK DEF ProcOK
<1>3. ProcType(s)
  BY <1>1, <1>2 DEF ProcType, Idle, Phases, WritingPhases
<1>4. ProcOK(s, runs')
  BY <1>1, <1>3 DEF ProcOK, TodoOK, Idle
<1>5. proc' = [proc EXCEPT ![p] = s]
  BY DEF Begin
<1> QED
  BY <1>1, <1>4, <1>5, ProcStep DEF WellTyped, Begin

LEMMA StartRetentionStep ==
    ASSUME WellTyped, NEW p \in Procs, StartRetention(p)
    PROVE  WellTyped'
<1> PICK kind \in {"retention", "retention_dry_run"}, env \in Environments :
        Begin(p, kind, NoPayload, env,
              [Idle EXCEPT !.phase  = "retain",
                           !.second = clock,
                           !.queue  = FamilyFiles(fs) \ Protected(fs, env.keep)])
  BY DEF StartRetention
<1> DEFINE Q == FamilyFiles(fs) \ Protected(fs, env.keep)
           s == [[Idle EXCEPT !.phase = "retain", !.second = clock, !.queue = Q]
                    EXCEPT !.run = Len(runs) + 1]
<1>1. /\ RunsOK(runs') /\ RunsKept(runs, runs')
      /\ Len(runs) + 1 \in DOMAIN runs' \cap Stamps
  BY BeginStep DEF Begin, CanStart, Kinds, Outcomes, Generators
<1>2. ProcType(Idle)
  BY IdleOK DEF ProcOK
<1>3. Q \subseteq File /\ clock \in 0..MaxClock
  BY DEF WellTyped, StoreOK, ClockOK, FamilyFiles
<1>4. proc' = [proc EXCEPT ![p] = s]
  BY DEF Begin
<1> HIDE DEF Q
<1>5. ProcType(s)
  BY <1>1, <1>2, <1>3 DEF ProcType, Idle, Phases, WritingPhases
<1>6. ProcOK(s, runs')
  BY <1>1, <1>5 DEF ProcOK, TodoOK, Idle
<1> QED
  BY <1>1, <1>4, <1>6, ProcStep DEF WellTyped, Begin

\* Files are written.
LEMMA ContentType ==
    ASSUME WellTyped, NEW p \in Procs, ~ IsIdle(p),
           proc[p].phase \in WritingPhases, proc[p].todo # <<>>
    PROVE  /\ Head(proc[p].todo) \in File
           /\ Fits(Head(proc[p].todo), Content(p, Head(proc[p].todo)))
<1> DEFINE f == Head(proc[p].todo)
           r == proc[p].run
           pl == runs[r].payload
           env == runs[r].env
<1>1. /\ r \in DOMAIN runs /\ r \in Stamps
      /\ runs[r] \in Run
      /\ ProcType(proc[p])
      /\ TodoOK(proc[p], runs)
  BY BusyRun
<1>2. proc[p].todo \in Seq(File)
  BY <1>1 DEF ProcType
<1>3. f \in File /\ 1 \in DOMAIN proc[p].todo /\ f = proc[p].todo[1]
  BY <1>2
<1>4. CASE proc[p].phase = "bundle"
  <2>1. pl \in Payloads /\ f \in BundleFiles(pl)
    BY <1>1, <1>3, <1>4 DEF TodoOK, HasPayload
  <2>2. Content(p, f) = BundleContent(f, r, pl, env)
    BY <1>4 DEF Content
  <2> QED
    BY <1>1, <1>3, <2>1, <2>2, BundleContentType
<1>5. CASE proc[p].phase = "failing"
  <2>1. pl \in Payloads /\ f = Health
    BY <1>1, <1>3, <1>5 DEF TodoOK, HasPayload
  <2>2. Content(p, f) = FailureSummary(r, pl, env)
    BY <1>5 DEF Content
  <2> QED
    BY <1>1, <1>3, <2>1, <2>2, FailureSummaryType
<1>6. CASE proc[p].phase = "report"
  <2>1. f[1] \in {"gate_json", "gate_md"}
    BY <1>1, <1>3, <1>6 DEF TodoOK
  <2>2. proc[p].worst \in Grades /\ proc[p].embedded \in BOOLEAN
    BY <1>1 DEF ProcType
  <2>3. Content(p, f) = GateReport(r, proc[p].worst, proc[p].embedded)
    BY <1>6 DEF Content
  <2> QED
    BY <1>1, <1>3, <2>1, <2>2, <2>3, GateReportType
<1>7. CASE proc[p].phase = "seal"
  <2>1. pl \in Payloads /\ f = Manifest
    BY <1>1, <1>3, <1>7 DEF TodoOK, HasPayload
  <2>2. env \in Environment
    BY <1>1, PipelineAssumption DEF Run
  <2>3. env.key \in Nat /\ BuildMode(env) \in {HashOnly, SignedManifest}
    BY <2>2 DEF Environment, BuildMode
  <2>4. proc[p].second \in 0..MaxClock
    BY <1>1 DEF ProcType
  <2>5. Listed(pl, proc[p].second) = BundleFiles(pl) \cup {GateJson(proc[p].second)}
    BY <2>1, <2>4, ListedFiles
  <2>6. GateJson(proc[p].second) \in File \ {Manifest}
    BY <2>4, FilesAreFiles DEF GateJson, Manifest
  <2>7. Listed(pl, proc[p].second) \subseteq File \ {Manifest}
    BY <2>1, <2>5, <2>6, BundleFileKinds
  <2>8. \A g \in DOMAIN fs : Fits(g, fs[g])
    BY DEF WellTyped, StoreOK
  <2>9. Content(p, f) = BuildManifest(fs, Listed(pl, proc[p].second),
                                      BuildMode(env), env.key, r)
    BY <1>7 DEF Content
  <2> HIDE DEF f, r, pl, env
  <2>10. Fits(Manifest, BuildManifest(fs, Listed(pl, proc[p].second),
                                      BuildMode(env), env.key, r))
    BY <1>1, <2>3, <2>7, <2>8, ManifestType
  <2> QED
    BY <1>3, <2>1, <2>9, <2>10 DEF f
<1>8. CASE proc[p].phase = "log"
  <2>1. f = RetentionLog
    BY <1>1, <1>3, <1>8 DEF TodoOK
  <2>2. Content(p, f) = [stamp |-> r, form |-> "whole", data |-> NoPayload]
    BY <1>8 DEF Content
  <2> QED
    BY <1>1, <1>3, <2>1, <2>2, LogType
<1> QED
  BY <1>4, <1>5, <1>6, <1>7, <1>8 DEF WritingPhases

LEMMA OpenStep ==
    ASSUME WellTyped, NEW p \in Procs, Open(p)
    PROVE  WellTyped'
<1> DEFINE f == Head(proc[p].todo)
           c == Content(p, f)
           s == [proc[p] EXCEPT !.open = TRUE, !.draft = c]
<1>1. /\ ~ IsIdle(p)
      /\ proc[p].phase \in WritingPhases
      /\ proc[p].todo # <<>>
  BY DEF Open, MayWrite, IsIdle, WritingPhases
<1>2. f \in File /\ Fits(f, c)
  BY <1>1, ContentType
<1>3. PICK form \in Forms : fs' = Put(fs, f, [c EXCEPT !.form = form])
  BY DEF Open, OpenForms, TornForms, Forms
<1>4. /\ mtime' = [mtime EXCEPT ![f] = clock]
      /\ proc' = [proc EXCEPT ![p].open = TRUE, ![p].draft = c]
      /\ UNCHANGED <<clock, runs>>
  BY DEF Open
<1>5. ProcOK(proc[p], runs) /\ RunsOK(runs) /\ StoreOK(fs) /\ ClockOK(mtime, clock)
      /\ DOMAIN proc = Procs
  BY DEF WellTyped
<1> HIDE DEF c
<1>6. StoreOK(fs')
  BY <1>2, <1>3, <1>5, TornType, PutType DEF StoreOK
<1>7. ClockOK(mtime', clock')
  BY <1>2, <1>4, <1>5 DEF ClockOK
<1>8. RunsOK(runs') /\ RunsKept(runs, runs')
  BY <1>4, <1>5, SameRuns
<1>9. proc' = [proc EXCEPT ![p] = s]
  BY <1>4
<1>10. ProcType(s)
  BY <1>1, <1>2, <1>5 DEF ProcOK, ProcType, Idle
<1>11. ProcOK(s, runs)
  BY <1>1, <1>5, <1>10, BusyRun DEF ProcOK, ProcType, TodoOK, Idle, IsIdle
<1>12. DOMAIN proc' = Procs /\ \A q \in Procs : ProcOK(proc'[q], runs')
  BY <1>4, <1>8, <1>9, <1>11, ProcStep
<1> QED
  BY <1>6, <1>7, <1>8, <1>12 DEF WellTyped

LEMMA CloseStep ==
    ASSUME WellTyped, NEW p \in Procs, Close(p)
    PROVE  WellTyped'
<1> DEFINE f == Head(proc[p].todo)
           r == proc[p].run
           x == [runs[r] EXCEPT !.sealed = @ \/ proc[p].phase = "seal"]
           s == [proc[p] EXCEPT !.open = FALSE, !.draft = NoContent, !.todo = Tail(@)]
<1>1. /\ proc[p].open
      /\ fs' = Put(fs, f, proc[p].draft)
      /\ proc' = [proc EXCEPT ![p] = s]
      /\ runs' = [runs EXCEPT ![r] = x]
      /\ UNCHANGED <<mtime, clock>>
  BY DEF Close
<1>2. ~ IsIdle(p)
  BY <1>1 DEF WellTyped, ProcOK, TodoOK, WritingPhases, IsIdle
<1>3. /\ r \in DOMAIN runs /\ runs[r] \in Run
      /\ ProcType(proc[p])
      /\ TodoOK(proc[p], runs)
  BY <1>2, BusyRun
<1>4. proc[p].todo \in Seq(File) /\ proc[p].todo # <<>> /\ Fits(f, proc[p].draft)
  BY <1>1, <1>3 DEF ProcType
<1>5. f \in File /\ Tail(proc[p].todo) \in Seq(File)
      /\ \A i \in DOMAIN Tail(proc[p].todo) :
             /\ i + 1 \in DOMAIN proc[p].todo
             /\ Tail(proc[p].todo)[i] = proc[p].todo[i + 1]
  BY <1>4
<1>6. /\ StoreOK(fs) /\ ClockOK(mtime, clock) /\ RunsOK(runs)
  BY DEF WellTyped
<1>7. x \in Run /\ x.kind = runs[r].kind /\ x.payload = runs[r].payload
      /\ x.env = runs[r].env
  BY <1>3 DEF Run
<1>8. StoreOK(fs')
  <2> HIDE DEF f
  <2> QED BY <1>1, <1>4, <1>5, <1>6, PutType DEF StoreOK
<1>9. ClockOK(mtime', clock')
  BY <1>1, <1>6 DEF ClockOK
<1>10. RunsOK(runs') /\ RunsKept(runs, runs')
  <2> HIDE DEF x
  <2> QED BY <1>1, <1>3, <1>6, <1>7, RunRewritten
<1>11. ProcType(s)
  BY <1>3, <1>5 DEF ProcType, Idle
<1>12. TodoOK(s, runs)
  BY <1>3, <1>5 DEF TodoOK, ProcType, Idle
<1>13. ProcOK(s, runs)
  BY <1>2, <1>3, <1>11, <1>12 DEF ProcOK, IsIdle, ProcType, Idle
<1>14. ProcOK(s, runs')
  <2> HIDE DEF s
  <2> QED BY <1>10, <1>13, ProcKept
<1>15. DOMAIN proc' = Procs /\ \A q \in Procs : ProcOK(proc'[q], runs')
  <2> HIDE DEF s
  <2> QED BY <1>1, <1>10, <1>14, ProcStep
<1> QED
  BY <1>8, <1>9, <1>10, <1>15 DEF WellTyped

\* The except branch.
LEMMA FailKeepsTypes ==
    ASSUME WellTyped, NEW p \in Procs, proc[p].phase = "bundle", Fail(p), StoreOK(fs')
    PROVE  WellTyped'
<1> DEFINE s == [proc[p] EXCEPT !.phase = "failing", !.todo = <<Health>>,
                                !.open = FALSE, !.draft = NoContent]
<1>1. ~ IsIdle(p)
  BY DEF IsIdle
<1>2. /\ proc[p].run \in DOMAIN runs
      /\ ProcType(proc[p])
      /\ TodoOK(proc[p], runs)
  BY <1>1, BusyRun
<1>3. ClockOK(mtime', clock') /\ RunsOK(runs') /\ RunsKept(runs, runs')
      /\ UNCHANGED runs
  BY SameRuns DEF Fail, WellTyped, ClockOK
<1>4. <<Health>> \in Seq(File)
  BY FilesAreFiles
<1>5. ProcType(s)
  BY <1>2, <1>4 DEF ProcType, Idle, Phases, WritingPhases
<1>6. ProcOK(s, runs)
  BY <1>2, <1>5 DEF ProcOK, TodoOK, ProcType, Idle, WritingPhases, HasPayload
<1>7. proc' = [proc EXCEPT ![p] = s]
  BY DEF Fail
<1>8. DOMAIN proc' = Procs /\ \A q \in Procs : ProcOK(proc'[q], runs')
  <2> HIDE DEF s
  <2> QED BY <1>3, <1>6, <1>7, ProcStep
<1> QED
  BY <1>3, <1>8 DEF WellTyped

LEMMA EventRejectedStep ==
    ASSUME WellTyped, NEW p \in Procs, EventRejected(p)
    PROVE  WellTyped'
<1>1. PICK form \in {"empty", "prefix"} :
          fs' = Put(fs, Audit, [proc[p].draft EXCEPT !.form = form])
  BY DEF EventRejected
<1>2. proc[p].open /\ proc[p].phase = "bundle" /\ Head(proc[p].todo) = Audit /\ Fail(p)
  BY DEF EventRejected, Rejects
<1>3. Fits(Audit, proc[p].draft) /\ Audit \in File
  BY <1>2, FilesAreFiles DEF WellTyped, ProcOK, ProcType
<1>4. Fits(Audit, [proc[p].draft EXCEPT !.form = form])
  BY <1>3, TornType DEF Forms
<1>5. StoreOK(fs')
  BY <1>1, <1>3, <1>4, PutType DEF StoreOK, WellTyped
<1> QED
  BY <1>2, <1>5, FailKeepsTypes

LEMMA WriteFailsStep ==
    ASSUME WellTyped, NEW p \in Procs, WriteFails(p)
    PROVE  WellTyped'
  BY FailKeepsTypes DEF WriteFails, WellTyped, StoreOK

\* A process changes its own state and nothing else.
LEMMA ProcOnlyStep ==
    ASSUME WellTyped, NEW p \in Procs, NEW s, ProcOK(s, runs),
           proc' = [proc EXCEPT ![p] = s], UNCHANGED <<fs, mtime, clock, runs>>
    PROVE  WellTyped'
<1>1. RunsOK(runs') /\ RunsKept(runs, runs')
  BY SameRuns DEF WellTyped
<1>2. DOMAIN proc' = Procs /\ \A q \in Procs : ProcOK(proc'[q], runs')
  BY <1>1, ProcStep
<1> QED
  BY <1>1, <1>2 DEF WellTyped

LEMMA BundleWrittenStep ==
    ASSUME WellTyped, NEW p \in Procs, BundleWritten(p)
    PROVE  WellTyped'
<1> DEFINE s == [proc[p] EXCEPT !.phase = "check", !.embedded = TRUE]
<1>1. ~ IsIdle(p) /\ proc[p].phase = "bundle" /\ proc[p].todo = <<>>
      /\ proc' = [proc EXCEPT ![p] = s] /\ UNCHANGED <<fs, mtime, clock, runs>>
  BY DEF BundleWritten, IsIdle
<1>2. proc[p].run \in DOMAIN runs /\ ProcType(proc[p]) /\ TodoOK(proc[p], runs)
  BY <1>1, BusyRun
<1>3. ~ proc[p].open
  BY <1>1, <1>2 DEF ProcType
<1>4. ProcType(s)
  BY <1>2, <1>3 DEF ProcType, Idle, Phases
<1>5. ProcOK(s, runs)
  BY <1>1, <1>2, <1>3, <1>4 DEF ProcOK, TodoOK, ProcType, Idle, HasPayload
<1> HIDE DEF s
<1> QED
  BY <1>1, <1>5, ProcOnlyStep

LEMMA EvaluateStep ==
    ASSUME WellTyped, NEW p \in Procs, Evaluate(p)
    PROVE  WellTyped'
<1> DEFINE r == proc[p].run
           i == proc[p].next
           verdict == Check(i, fs, mtime, clock, RunOf(p).env)
           j == IF i = IntegrityCheck /\ verdict = PASS
                  THEN fs[Manifest].stamp ELSE runs[r].judged
           x == [runs[r] EXCEPT !.judged = j]
           s == [proc[p] EXCEPT !.next = i + 1, !.worst = Worse(@, verdict),
                                !.fresh = IF i = FreshnessCheck THEN verdict ELSE @]
<1>1. /\ proc[p].phase = "check" /\ i <= LastCheck
      /\ proc' = [proc EXCEPT ![p] = s]
      /\ runs' = [runs EXCEPT ![r] = x]
      /\ UNCHANGED <<fs, mtime, clock>>
  BY DEF Evaluate
<1>2. /\ ~ IsIdle(p) /\ r \in DOMAIN runs /\ runs[r] \in Run
      /\ ProcType(proc[p])
      /\ TodoOK(proc[p], runs)
  BY <1>1, BusyRun DEF IsIdle
<1>3. i \in 1..LastCheck
  BY <1>1, <1>2 DEF ProcType, LastCheck
<1>4. verdict \in Grades
  BY <1>3, CheckIsGrade
<1>5. j \in Stamps
  <2>1. CASE i = IntegrityCheck /\ verdict = PASS
    <3>1. verdict = ArtifactIntegrityManifest(fs, RunOf(p).env)
      BY <2>1 DEF Check, IntegrityCheck, FreshnessCheck, LastCheck
    <3>2. VerifyOk(fs, RunOf(p).env.mode, RunOf(p).env.key)
      BY <2>1, <3>1 DEF ArtifactIntegrityManifest, Grade, PASS, FAIL
    <3>3. Exists(fs, Manifest)
      BY <3>2 DEF VerifyOk, HashesConsistent, MissingRequired
    <3> QED
      BY <2>1, <3>3 DEF WellTyped, StoreOK, Exists, Fits, ManifestFile
  <2>2. CASE ~ (i = IntegrityCheck /\ verdict = PASS)
    BY <1>2, <2>2 DEF Run
  <2> QED BY <2>1, <2>2
<1> HIDE DEF verdict, j
<1>6. x \in Run /\ x.kind = runs[r].kind /\ x.payload = runs[r].payload
      /\ x.env = runs[r].env
  BY <1>2, <1>5 DEF Run
<1>7. RunsOK(runs') /\ RunsKept(runs, runs')
  <2> HIDE DEF x
  <2> QED BY <1>1, <1>2, <1>6, RunRewritten DEF WellTyped
<1>8. Worse(proc[p].worst, verdict) \in Grades
  BY GradeIsGrade DEF Worse
<1>9. ProcType(s)
  <2>1. DOMAIN proc[p] = DOMAIN Idle
    BY <1>2 DEF ProcType
  <2>2. s.next = i + 1 /\ i + 1 \in 1..(LastCheck + 1)
    BY <1>3, <2>1 DEF Idle, LastCheck
  <2>3. s.worst \in Grades /\ s.fresh \in Grades
    BY <1>2, <1>4, <1>8, <2>1 DEF ProcType, Idle
  <2> QED
    BY <1>2, <2>1, <2>2, <2>3 DEF ProcType, Idle
<1>10. ProcOK(s, runs)
  BY <1>1, <1>2, <1>9 DEF ProcOK, TodoOK, ProcType, Idle, HasPayload
<1>11. ProcOK(s, runs')
  <2> HIDE DEF s
  <2> QED BY <1>7, <1>10, ProcKept
<1>12. DOMAIN proc' = Procs /\ \A q \in Procs : ProcOK(proc'[q], runs')
  <2> HIDE DEF s
  <2> QED BY <1>1, <1>7, <1>11, ProcStep
<1> QED
  BY <1>1, <1>7, <1>12 DEF WellTyped

LEMMA EvaluatedStep ==
    ASSUME WellTyped, NEW p \in Procs, Evaluated(p)
    PROVE  WellTyped'
<1> DEFINE r == proc[p].run
           x == [runs[r] EXCEPT !.verdict = StatusOf(proc[p].worst)]
           todo == <<GateJson(clock), GateMd(clock)>>
           s == [proc[p] EXCEPT !.phase = "report", !.second = clock, !.todo = todo]
<1>1. /\ proc[p].phase = "check"
      /\ proc' = [proc EXCEPT ![p] = s]
      /\ runs' = [runs EXCEPT ![r] = x]
      /\ UNCHANGED <<fs, mtime, clock>>
  BY DEF Evaluated
<1>2. /\ ~ IsIdle(p) /\ r \in DOMAIN runs /\ runs[r] \in Run
      /\ ProcType(proc[p])
      /\ TodoOK(proc[p], runs)
  BY <1>1, BusyRun DEF IsIdle
<1>3. clock \in 0..MaxClock
  BY DEF WellTyped, ClockOK
<1>4. todo \in Seq(File)
  BY <1>3, FilesAreFiles
<1>5. ~ proc[p].open
  BY <1>1, <1>2 DEF TodoOK, WritingPhases
<1>6. x \in Run /\ x.kind = runs[r].kind /\ x.payload = runs[r].payload
      /\ x.env = runs[r].env
  <2>1. StatusOf(proc[p].worst) \in Statuses
    BY <1>2, StatusIsStatus DEF ProcType
  <2> QED BY <1>2, <2>1 DEF Run
<1>7. RunsOK(runs') /\ RunsKept(runs, runs')
  <2> HIDE DEF x
  <2> QED BY <1>1, <1>2, <1>6, RunRewritten DEF WellTyped
<1>8. \A i \in DOMAIN todo : todo[i][1] \in {"gate_json", "gate_md"}
  BY DEF GateJson, GateMd
<1> HIDE DEF todo
<1>9. ProcType(s)
  BY <1>2, <1>3, <1>4, <1>5 DEF ProcType, Idle, Phases, WritingPhases
<1>10. ProcOK(s, runs)
  BY <1>1, <1>2, <1>5, <1>8, <1>9 DEF ProcOK, TodoOK, ProcType, Idle, HasPayload
<1>11. ProcOK(s, runs')
  <2> HIDE DEF s
  <2> QED BY <1>7, <1>10, ProcKept
<1>12. DOMAIN proc' = Procs /\ \A q \in Procs : ProcOK(proc'[q], runs')
  <2> HIDE DEF s
  <2> QED BY <1>1, <1>7, <1>11, ProcStep
<1> QED
  BY <1>1, <1>7, <1>12 DEF WellTyped

LEMMA SafeguardsAllowStep ==
    ASSUME WellTyped, NEW p \in Procs, SafeguardsAllow(p)
    PROVE  WellTyped'
<1> DEFINE s == [proc[p] EXCEPT !.phase = "seal", !.todo = <<Manifest>>]
<1>1. /\ ~ IsIdle(p) /\ proc[p].phase = "report" /\ proc[p].todo = <<>>
      /\ proc[p].embedded
      /\ proc' = [proc EXCEPT ![p] = s] /\ UNCHANGED <<fs, mtime, clock, runs>>
  BY DEF SafeguardsAllow, Reported, IsIdle
<1>2. proc[p].run \in DOMAIN runs /\ ProcType(proc[p]) /\ TodoOK(proc[p], runs)
  BY <1>1, BusyRun
<1>3. ~ proc[p].open
  BY <1>1, <1>2 DEF ProcType
<1>4. <<Manifest>> \in Seq(File)
  BY FilesAreFiles
<1>5. ProcType(s)
  BY <1>2, <1>3, <1>4 DEF ProcType, Idle, Phases, WritingPhases
<1>6. ProcOK(s, runs)
  BY <1>1, <1>2, <1>3, <1>5 DEF ProcOK, TodoOK, ProcType, Idle, HasPayload
<1> HIDE DEF s
<1> QED
  BY <1>1, <1>6, ProcOnlyStep

LEMMA GateAgainStep ==
    ASSUME WellTyped, NEW p \in Procs, GateAgain(p)
    PROVE  WellTyped'
<1> DEFINE s == [Idle EXCEPT !.phase = "check", !.run = proc[p].run]
<1>1. /\ ~ IsIdle(p)
      /\ proc' = [proc EXCEPT ![p] = s] /\ UNCHANGED <<fs, mtime, clock, runs>>
  BY DEF GateAgain, Sealed, IsIdle
<1>2. proc[p].run \in DOMAIN runs /\ proc[p].run \in Stamps
  BY <1>1, BusyRun
<1>3. ProcType(Idle)
  BY IdleOK DEF ProcOK
<1>4. ProcType(s)
  BY <1>2, <1>3 DEF ProcType, Idle, Phases
<1>5. ProcOK(s, runs)
  BY <1>2, <1>4 DEF ProcOK, TodoOK, Idle
<1> HIDE DEF s
<1> QED
  BY <1>1, <1>5, ProcOnlyStep

\* Retention.
LEMMA QueueStep ==
    ASSUME WellTyped, NEW p \in Procs, proc[p].phase = "retain", NEW f
    PROVE  ProcOK([proc[p] EXCEPT !.queue = @ \ {f}], runs)
<1>1. ~ IsIdle(p)
  BY DEF IsIdle
<1>2. proc[p].run \in DOMAIN runs /\ ProcType(proc[p]) /\ TodoOK(proc[p], runs)
  BY <1>1, BusyRun
<1> QED
  BY <1>2 DEF ProcOK, ProcType, TodoOK, Idle, HasPayload

LEMMA SkipStep ==
    ASSUME WellTyped, NEW p \in Procs, Skip(p)
    PROVE  WellTyped'
<1>1. PICK f : proc' = [proc EXCEPT ![p] = [proc[p] EXCEPT !.queue = @ \ {f}]]
  BY DEF Skip
<1>2. ProcOK([proc[p] EXCEPT !.queue = @ \ {f}], runs)
  BY QueueStep DEF Skip
<1> QED
  BY <1>1, <1>2, ProcOnlyStep DEF Skip

LEMMA DeleteStep ==
    ASSUME WellTyped, NEW p \in Procs, Delete(p)
    PROVE  WellTyped'
<1>1. PICK f : /\ proc' = [proc EXCEPT ![p] = [proc[p] EXCEPT !.queue = @ \ {f}]]
               /\ fs' = Unlink(fs, f)
  BY DEF Delete
<1>2. proc[p].phase = "retain" /\ UNCHANGED <<mtime, clock, runs>>
  BY DEF Delete
<1>3. ProcOK([proc[p] EXCEPT !.queue = @ \ {f}], runs)
  BY <1>2, QueueStep
<1>4. StoreOK(fs')
  BY <1>1 DEF StoreOK, Unlink, WellTyped
<1>5. RunsOK(runs') /\ RunsKept(runs, runs')
  BY <1>2, SameRuns DEF WellTyped
<1>6. DOMAIN proc' = Procs /\ \A q \in Procs : ProcOK(proc'[q], runs')
  BY <1>1, <1>2, <1>3, <1>5, ProcStep
<1> QED
  BY <1>2, <1>4, <1>5, <1>6 DEF WellTyped, ClockOK

LEMMA RetainedStep ==
    ASSUME WellTyped, NEW p \in Procs, Retained(p)
    PROVE  WellTyped'
<1> DEFINE s == [proc[p] EXCEPT !.phase = "log", !.todo = <<RetentionLog>>]
<1>1. /\ ~ IsIdle(p) /\ proc[p].phase = "retain"
      /\ proc' = [proc EXCEPT ![p] = s] /\ UNCHANGED <<fs, mtime, clock, runs>>
  BY DEF Retained, IsIdle
<1>2. proc[p].run \in DOMAIN runs /\ ProcType(proc[p]) /\ TodoOK(proc[p], runs)
  BY <1>1, BusyRun
<1>3. ~ proc[p].open
  BY <1>1, <1>2 DEF TodoOK, WritingPhases
<1>4. <<RetentionLog>> \in Seq(File)
  BY FilesAreFiles
<1>5. ProcType(s)
  BY <1>2, <1>3, <1>4 DEF ProcType, Idle, Phases, WritingPhases
<1>6. ProcOK(s, runs)
  BY <1>1, <1>2, <1>3, <1>5 DEF ProcOK, TodoOK, ProcType, Idle, HasPayload
<1> HIDE DEF s
<1> QED
  BY <1>1, <1>6, ProcOnlyStep

LEMMA TickStep ==
    ASSUME WellTyped, Tick
    PROVE  WellTyped'
<1>1. ClockOK(mtime', clock')
  BY StoreAssumption DEF Tick, WellTyped, ClockOK
<1> QED
  BY <1>1 DEF Tick, WellTyped

-----------------------------------------------------------------------------
(***************************************************************************)
(* The theorem.                                                            *)
(***************************************************************************)
LEMMA AdvanceStep ==
    ASSUME WellTyped, NEW p \in Procs, Advance(p)
    PROVE  WellTyped'
<1>1. CASE Write(p)
  BY <1>1, OpenStep, CloseStep DEF Write
<1>2. CASE EventRejected(p)
  BY <1>2, EventRejectedStep
<1>3. CASE FailureReported(p)
  BY <1>3, EndStep DEF FailureReported, IsIdle, Outcomes
<1>4. CASE BundleWritten(p)
  BY <1>4, BundleWrittenStep
<1>5. CASE Evaluate(p)
  BY <1>5, EvaluateStep
<1>6. CASE Evaluated(p)
  BY <1>6, EvaluatedStep
<1>7. CASE SafeguardsRefuse(p)
  BY <1>7, EndStep DEF SafeguardsRefuse, Reported, IsIdle, Outcomes
<1>8. CASE SafeguardsAllow(p)
  BY <1>8, SafeguardsAllowStep
<1>9. CASE SealRefused(p)
  BY <1>9, EndStep DEF SealRefused, IsIdle, Outcomes
<1>10. CASE Generated(p)
  BY <1>10, EndStep DEF Generated, Sealed, IsIdle, Outcomes
<1>11. CASE GateAgain(p)
  BY <1>11, GateAgainStep
<1>12. CASE GateDone(p)
  BY <1>12, EndStep DEF GateDone, Reported, IsIdle, Outcomes
<1>13. CASE VisitGone(p)
  BY <1>13, EndStep DEF VisitGone, IsIdle, Outcomes
<1>14. CASE Skip(p)
  BY <1>14, SkipStep
<1>15. CASE Delete(p)
  BY <1>15, DeleteStep
<1>16. CASE Retained(p)
  BY <1>16, RetainedStep
<1>17. CASE Logged(p)
  BY <1>17, EndStep DEF Logged, IsIdle, Outcomes
<1> QED
  BY <1>1, <1>2, <1>3, <1>4, <1>5, <1>6, <1>7, <1>8, <1>9, <1>10, <1>11, <1>12,
     <1>13, <1>14, <1>15, <1>16, <1>17 DEF Advance

LEMMA WellTypedStep == WellTyped /\ [Next]_vars => WellTyped'
<1> SUFFICES ASSUME WellTyped, [Next]_vars PROVE WellTyped'
  OBVIOUS
<1>1. CASE UNCHANGED vars
  BY <1>1 DEF vars, WellTyped
<1>2. ASSUME NEW p \in Procs, Start(p) PROVE WellTyped'
  BY <1>2, StartGeneratorStep, StartBlockedStep, StartGateStep, StartRetentionStep
     DEF Start
<1>3. ASSUME NEW p \in Procs, Crash(p) PROVE WellTyped'
  BY <1>3, EndStep DEF Crash, Outcomes
<1> QED
  BY <1>1, <1>2, <1>3, AdvanceStep, WriteFailsStep, TickStep DEF Next

\* What a file holds is always of the kind that its name promises, whatever
\* fails or overlaps: readers never meet another shape of data.
THEOREM AlwaysWellTyped == Spec => []WellTyped
  BY WellTypedInit, WellTypedStep, PTL DEF Spec

\* The type invariant holds for any commands, evidence and number of runs.
THEOREM TypeCorrect == Spec => []TypeOK
  BY AlwaysWellTyped, WellTypedImpliesTypeOK, PTL

-----------------------------------------------------------------------------
(***************************************************************************)
(* Shapes.  The step of process p leaves it in state b and its run as y.   *)
(***************************************************************************)
SameJob(a, b) ==
    /\ b.run = a.run /\ b.embedded = a.embedded /\ b.second = a.second
    /\ b.next = a.next /\ b.worst = a.worst /\ b.queue = a.queue

SameRun(x, y) == y.kind = x.kind /\ y.payload = x.payload /\ y.env = x.env

Opening(p, b, y) ==
    LET f == Head(proc[p].todo)
    IN  /\ MayWrite(p) /\ ~ proc[p].open
        /\ \E form \in OpenForms(f, RunOf(p).payload) :
               fs' = Put(fs, f, [Content(p, f) EXCEPT !.form = form])
        /\ SameJob(proc[p], b) /\ b.phase = proc[p].phase /\ b.todo = proc[p].todo
        /\ b.open /\ b.draft = Content(p, f)
        /\ y = RunOf(p)

Closing(p, b, y) ==
    /\ proc[p].phase \in WritingPhases /\ proc[p].todo # <<>>
    /\ proc[p].open /\ ~ Rejects(p)
    /\ fs' = Put(fs, Head(proc[p].todo), proc[p].draft)
    /\ SameJob(proc[p], b) /\ b.phase = proc[p].phase /\ b.todo = Tail(proc[p].todo)
    /\ ~ b.open
    /\ y.sealed = (RunOf(p).sealed \/ proc[p].phase = "seal")
    /\ y.outcome = RunOf(p).outcome /\ y.judged = RunOf(p).judged
    /\ y.verdict = RunOf(p).verdict

\* How a run ends, and where.
EndsWith(a, x, outcome) ==
    \/ outcome = "crashed"
    \/ outcome = "failed" /\ a.phase = "failing" /\ a.todo = <<>>
    \/ outcome = "failed" /\ a.phase = "seal"
    \/ outcome = "failed" /\ a.phase = "retain"
    \/ outcome = "refused" /\ a.phase = "report" /\ a.embedded
    \/ outcome = "ok" /\ a.phase = "seal" /\ a.todo = <<>> /\ x.kind = "generate"
    \/ outcome \in {"ok", "missing_outputs"} /\ a.phase = "report" /\ ~ a.embedded
    \/ outcome = "ok" /\ a.phase = "log"

Ending(p, b, y) ==
    /\ EndsWith(proc[p], RunOf(p), y.outcome)
    /\ UNCHANGED fs /\ b = Idle
    /\ y.sealed = RunOf(p).sealed /\ y.judged = RunOf(p).judged
    /\ y.verdict = RunOf(p).verdict

Failing(p, b, y) ==
    /\ proc[p].phase = "bundle"
    /\ \/ UNCHANGED fs
       \/ /\ proc[p].todo # <<>> /\ Head(proc[p].todo) = Audit
          /\ \E c : fs' = Put(fs, Audit, c)
    /\ SameJob(proc[p], b) /\ b.phase = "failing" /\ b.todo = <<Health>>
    /\ ~ b.open
    /\ y = RunOf(p)

Handing(p, b, y) ==
    /\ proc[p].phase = "bundle" /\ proc[p].todo = <<>>
    /\ UNCHANGED fs
    /\ SameJob([proc[p] EXCEPT !.embedded = TRUE], b)
    /\ b.phase = "check" /\ b.todo = <<>> /\ ~ b.open
    /\ y = RunOf(p)

Checking(p, b, y) ==
    LET i == proc[p].next
        verdict == Check(i, fs, mtime, clock, RunOf(p).env)
    IN  /\ proc[p].phase = "check" /\ i \in 1..LastCheck
        /\ UNCHANGED fs
        /\ b.run = proc[p].run /\ b.embedded = proc[p].embedded
        /\ b.queue = proc[p].queue /\ b.second = proc[p].second
        /\ b.next = i + 1 /\ b.worst = Worse(proc[p].worst, verdict)
        /\ b.phase = "check" /\ b.todo = proc[p].todo /\ ~ b.open
        /\ y.judged = IF i = IntegrityCheck /\ verdict = PASS
                      THEN fs[Manifest].stamp ELSE RunOf(p).judged
        /\ y.sealed = RunOf(p).sealed /\ y.outcome = RunOf(p).outcome
        /\ y.verdict = RunOf(p).verdict

Concluding(p, b, y) ==
    /\ proc[p].phase = "check" /\ proc[p].next > LastCheck
    /\ UNCHANGED fs
    /\ b.run = proc[p].run /\ b.embedded = proc[p].embedded
    /\ b.next = proc[p].next /\ b.worst = proc[p].worst /\ b.queue = proc[p].queue
    /\ b.second = clock /\ b.todo = <<GateJson(clock), GateMd(clock)>>
    /\ b.phase = "report" /\ ~ b.open
    /\ y.verdict = StatusOf(proc[p].worst)
    /\ y.sealed = RunOf(p).sealed /\ y.outcome = RunOf(p).outcome
    /\ y.judged = RunOf(p).judged

Allowing(p, b, y) ==
    /\ proc[p].phase = "report" /\ proc[p].todo = <<>> /\ proc[p].embedded
    /\ ~ SafeguardsBlock(RunOf(p).env, RunOf(p).payload, proc[p].fresh)
    /\ UNCHANGED fs
    /\ SameJob(proc[p], b) /\ b.phase = "seal" /\ b.todo = <<Manifest>> /\ ~ b.open
    /\ y = RunOf(p)

Regating(p, b, y) ==
    /\ proc[p].phase = "seal" /\ proc[p].todo = <<>> /\ RunOf(p).kind = "pipeline"
    /\ UNCHANGED fs
    /\ b.run = proc[p].run /\ b.phase = "check" /\ b.todo = <<>> /\ ~ b.open
    /\ ~ b.embedded /\ b.next = 1 /\ b.worst = PASS /\ b.queue = {}
    /\ y = RunOf(p)

Retaining(p, b, y) ==
    /\ proc[p].phase = "retain"
    /\ \/ UNCHANGED fs
       \/ \E f \in proc[p].queue : fs' = Unlink(fs, f)
    /\ b.run = proc[p].run /\ b.embedded = proc[p].embedded
    /\ b.next = proc[p].next /\ b.worst = proc[p].worst
    /\ b.queue \subseteq proc[p].queue
    /\ b.phase = "retain" /\ b.todo = proc[p].todo /\ ~ b.open
    /\ y = RunOf(p)

Logging(p, b, y) ==
    /\ proc[p].phase = "retain"
    /\ UNCHANGED fs
    /\ SameJob(proc[p], b) /\ b.phase = "log" /\ b.todo = <<RetentionLog>> /\ ~ b.open
    /\ y = RunOf(p)

Shape(p, b, y) ==
    \/ Opening(p, b, y) \/ Closing(p, b, y) \/ Ending(p, b, y) \/ Failing(p, b, y)
    \/ Handing(p, b, y) \/ Checking(p, b, y) \/ Concluding(p, b, y)
    \/ Allowing(p, b, y) \/ Regating(p, b, y) \/ Retaining(p, b, y)
    \/ Logging(p, b, y)

\* The step of p, and nothing but its record and its run's are changed.
Step(p, b, y) ==
    /\ ~ IsIdle(p) /\ proc[p].run \in DOMAIN runs
    /\ proc' = [proc EXCEPT ![p] = b]
    /\ runs' = [runs EXCEPT ![proc[p].run] = y]
    /\ SameRun(RunOf(p), y)
    /\ Shape(p, b, y)

-----------------------------------------------------------------------------
LEMMA RunsUntouched ==
    ASSUME WellTyped, NEW r, UNCHANGED runs
    PROVE  runs' = [runs EXCEPT ![r] = runs[r]]
<1>1. runs \in Seq(Run)
  BY DEF WellTyped, RunsOK
<1> QED
  BY <1>1

\* A process that has no file open stays so unless it opens one.
LEMMA NotOpen ==
    ASSUME WellTyped, NEW p \in Procs,
           proc[p].todo = <<>> \/ proc[p].phase \notin WritingPhases
    PROVE  ~ proc[p].open
<1>1. ProcType(proc[p]) /\ TodoOK(proc[p], runs)
  BY DEF WellTyped, ProcOK
<1> QED
  BY <1>1 DEF ProcType, TodoOK

LEMMA OpenShape ==
    ASSUME WellTyped, NEW p \in Procs, Open(p)
    PROVE  \E b, y : Step(p, b, y)
<1> DEFINE b == [proc[p] EXCEPT !.open = TRUE, !.draft = Content(p, Head(proc[p].todo))]
<1>1. ~ IsIdle(p) /\ proc' = [proc EXCEPT ![p] = b] /\ UNCHANGED runs
  BY DEF Open, MayWrite, WritingPhases, IsIdle
<1>2. DOMAIN proc[p] = DOMAIN Idle /\ proc[p].run \in DOMAIN runs
  BY <1>1, BusyRun DEF ProcType
<1>3. runs' = [runs EXCEPT ![proc[p].run] = RunOf(p)]
  BY <1>1, RunsUntouched DEF RunOf
<1>4. SameJob(proc[p], b) /\ b.phase = proc[p].phase /\ b.todo = proc[p].todo
      /\ b.open /\ b.draft = Content(p, Head(proc[p].todo))
  BY <1>2 DEF Idle, SameJob
<1> HIDE DEF b
<1>5. Opening(p, b, RunOf(p))
  BY <1>4 DEF Opening, Open
<1> QED
  BY <1>1, <1>2, <1>3, <1>5 DEF Step, Shape, SameRun

LEMMA CloseShape ==
    ASSUME WellTyped, NEW p \in Procs, Close(p)
    PROVE  \E b, y : Step(p, b, y)
<1> DEFINE b == [proc[p] EXCEPT !.open = FALSE, !.draft = NoContent, !.todo = Tail(@)]
           y == [RunOf(p) EXCEPT !.sealed = @ \/ proc[p].phase = "seal"]
<1>1. /\ proc[p].open /\ ~ Rejects(p)
      /\ fs' = Put(fs, Head(proc[p].todo), proc[p].draft)
      /\ proc' = [proc EXCEPT ![p] = b] /\ runs' = [runs EXCEPT ![proc[p].run] = y]
  BY DEF Close, RunOf
<1>2. proc[p].phase \in WritingPhases /\ proc[p].todo # <<>>
  BY <1>1, NotOpen
<1>3. ~ IsIdle(p)
  BY <1>2 DEF IsIdle, WritingPhases
<1>4. DOMAIN proc[p] = DOMAIN Idle /\ proc[p].run \in DOMAIN runs /\ RunOf(p) \in Run
  BY <1>3, BusyRun DEF ProcType, RunOf
<1>5. /\ SameJob(proc[p], b) /\ b.phase = proc[p].phase /\ ~ b.open
      /\ b.todo = Tail(proc[p].todo)
  BY <1>4 DEF Idle, SameJob
<1>6. /\ y.sealed = (RunOf(p).sealed \/ proc[p].phase = "seal")
      /\ y.outcome = RunOf(p).outcome /\ y.judged = RunOf(p).judged
      /\ y.verdict = RunOf(p).verdict /\ SameRun(RunOf(p), y)
  BY <1>4 DEF Run, SameRun
<1> HIDE DEF b, y
<1>7. Closing(p, b, y)
  BY <1>1, <1>2, <1>5, <1>6 DEF Closing
<1> QED
  BY <1>1, <1>3, <1>4, <1>6, <1>7 DEF Step, Shape

LEMMA EndShape ==
    ASSUME WellTyped, NEW p \in Procs, ~ IsIdle(p), NEW o, End(p, o), UNCHANGED fs,
           EndsWith(proc[p], RunOf(p), o)
    PROVE  \E b, y : Step(p, b, y)
<1> DEFINE y == [RunOf(p) EXCEPT !.outcome = o]
<1>1. proc' = [proc EXCEPT ![p] = Idle] /\ runs' = [runs EXCEPT ![proc[p].run] = y]
  BY DEF End, RunOf
<1>2. proc[p].run \in DOMAIN runs /\ RunOf(p) \in Run
  BY BusyRun DEF RunOf
<1>3. /\ y.outcome = o /\ y.sealed = RunOf(p).sealed /\ y.judged = RunOf(p).judged
      /\ y.verdict = RunOf(p).verdict /\ SameRun(RunOf(p), y)
  BY <1>2 DEF Run, SameRun
<1> HIDE DEF y
<1>4. Ending(p, Idle, y)
  BY <1>3 DEF Ending
<1> QED
  BY <1>1, <1>2, <1>3, <1>4 DEF Step, Shape

LEMMA FailShape ==
    ASSUME WellTyped, NEW p \in Procs, EventRejected(p) \/ WriteFails(p)
    PROVE  \E b, y : Step(p, b, y)
<1> DEFINE b == [proc[p] EXCEPT !.phase = "failing", !.todo = <<Health>>,
                                !.open = FALSE, !.draft = NoContent]
<1>1. /\ proc' = [proc EXCEPT ![p] = b] /\ UNCHANGED runs
      /\ proc[p].phase = "bundle"
  BY DEF EventRejected, WriteFails, Fail, Rejects
<1>2. ~ IsIdle(p)
  BY <1>1 DEF IsIdle
<1>3. DOMAIN proc[p] = DOMAIN Idle /\ proc[p].run \in DOMAIN runs
  BY <1>2, BusyRun DEF ProcType
<1>4. runs' = [runs EXCEPT ![proc[p].run] = RunOf(p)]
  BY <1>1, RunsUntouched DEF RunOf
<1>5. SameJob(proc[p], b) /\ b.phase = "failing" /\ b.todo = <<Health>> /\ ~ b.open
  BY <1>3 DEF Idle, SameJob
<1>6. \/ UNCHANGED fs
      \/ /\ proc[p].todo # <<>> /\ Head(proc[p].todo) = Audit
         /\ \E c : fs' = Put(fs, Audit, c)
  BY NotOpen DEF EventRejected, WriteFails, Rejects
<1> HIDE DEF b
<1>7. Failing(p, b, RunOf(p))
  BY <1>1, <1>5, <1>6 DEF Failing
<1> QED
  BY <1>1, <1>2, <1>3, <1>4, <1>7 DEF Step, Shape, SameRun

LEMMA EvaluateShape ==
    ASSUME WellTyped, NEW p \in Procs, Evaluate(p)
    PROVE  \E b, y : Step(p, b, y)
<1> DEFINE i == proc[p].next
           verdict == Check(i, fs, mtime, clock, RunOf(p).env)
           fresh == IF i = FreshnessCheck THEN verdict ELSE proc[p].fresh
           judged == IF i = IntegrityCheck /\ verdict = PASS
                     THEN fs[Manifest].stamp ELSE RunOf(p).judged
           b == [proc[p] EXCEPT !.next = i + 1, !.worst = Worse(@, verdict),
                                !.fresh = fresh]
           y == [RunOf(p) EXCEPT !.judged = judged]
<1>1. /\ proc' = [proc EXCEPT ![p] = b] /\ runs' = [runs EXCEPT ![proc[p].run] = y]
      /\ proc[p].phase = "check" /\ i <= LastCheck /\ UNCHANGED fs
  BY DEF Evaluate, RunOf
<1>2. ~ IsIdle(p) /\ ~ proc[p].open
  BY <1>1, NotOpen DEF IsIdle, WritingPhases
<1>3. /\ DOMAIN proc[p] = DOMAIN Idle /\ proc[p].run \in DOMAIN runs
      /\ RunOf(p) \in Run /\ i \in 1..(LastCheck + 1)
  BY <1>2, BusyRun DEF ProcType, RunOf
<1>4. i \in 1..LastCheck
  BY <1>1, <1>3 DEF LastCheck
<1> HIDE DEF verdict, fresh, judged
<1>5. /\ b.run = proc[p].run /\ b.embedded = proc[p].embedded
      /\ b.queue = proc[p].queue /\ b.second = proc[p].second
      /\ b.next = i + 1 /\ b.worst = Worse(proc[p].worst, verdict)
      /\ b.phase = "check" /\ b.todo = proc[p].todo /\ ~ b.open
  BY <1>1, <1>2, <1>3 DEF Idle
<1>6. /\ y.judged = judged /\ y.sealed = RunOf(p).sealed
      /\ y.outcome = RunOf(p).outcome /\ y.verdict = RunOf(p).verdict
      /\ SameRun(RunOf(p), y)
  BY <1>3 DEF Run, SameRun
<1> HIDE DEF b, y
<1>7. Checking(p, b, y)
  BY <1>1, <1>4, <1>5, <1>6 DEF Checking, verdict, judged
<1> QED
  BY <1>1, <1>2, <1>3, <1>6, <1>7 DEF Step, Shape

LEMMA EvaluatedShape ==
    ASSUME WellTyped, NEW p \in Procs, Evaluated(p)
    PROVE  \E b, y : Step(p, b, y)
<1> DEFINE b == [proc[p] EXCEPT !.phase = "report", !.second = clock,
                                !.todo = <<GateJson(clock), GateMd(clock)>>]
           y == [RunOf(p) EXCEPT !.verdict = StatusOf(proc[p].worst)]
<1>1. /\ proc' = [proc EXCEPT ![p] = b] /\ runs' = [runs EXCEPT ![proc[p].run] = y]
      /\ proc[p].phase = "check" /\ proc[p].next > LastCheck /\ UNCHANGED fs
  BY DEF Evaluated, RunOf
<1>2. ~ IsIdle(p) /\ ~ proc[p].open
  BY <1>1, NotOpen DEF IsIdle, WritingPhases
<1>3. DOMAIN proc[p] = DOMAIN Idle /\ proc[p].run \in DOMAIN runs /\ RunOf(p) \in Run
  BY <1>2, BusyRun DEF ProcType, RunOf
<1>4. /\ b.run = proc[p].run /\ b.embedded = proc[p].embedded
      /\ b.next = proc[p].next /\ b.worst = proc[p].worst /\ b.queue = proc[p].queue
      /\ b.second = clock /\ b.todo = <<GateJson(clock), GateMd(clock)>>
      /\ b.phase = "report" /\ ~ b.open
  BY <1>2, <1>3 DEF Idle
<1>5. /\ y.verdict = StatusOf(proc[p].worst) /\ y.sealed = RunOf(p).sealed
      /\ y.outcome = RunOf(p).outcome /\ y.judged = RunOf(p).judged
      /\ SameRun(RunOf(p), y)
  BY <1>3 DEF Run, SameRun
<1> HIDE DEF b, y
<1>6. Concluding(p, b, y)
  BY <1>1, <1>4, <1>5 DEF Concluding
<1> QED
  BY <1>1, <1>2, <1>3, <1>5, <1>6 DEF Step, Shape

LEMMA HandShape ==
    ASSUME WellTyped, NEW p \in Procs, BundleWritten(p)
    PROVE  \E b, y : Step(p, b, y)
<1> DEFINE b == [proc[p] EXCEPT !.phase = "check", !.embedded = TRUE]
<1>1. /\ proc' = [proc EXCEPT ![p] = b] /\ UNCHANGED <<fs, runs>>
      /\ proc[p].phase = "bundle" /\ proc[p].todo = <<>>
  BY DEF BundleWritten
<1>2. ~ IsIdle(p) /\ ~ proc[p].open
  BY <1>1, NotOpen DEF IsIdle
<1>3. DOMAIN proc[p] = DOMAIN Idle /\ proc[p].run \in DOMAIN runs
  BY <1>2, BusyRun DEF ProcType
<1>4. runs' = [runs EXCEPT ![proc[p].run] = RunOf(p)]
  BY <1>1, RunsUntouched DEF RunOf
<1>5. /\ SameJob([proc[p] EXCEPT !.embedded = TRUE], b)
      /\ b.phase = "check" /\ b.todo = <<>> /\ ~ b.open
  BY <1>1, <1>2, <1>3 DEF Idle, SameJob
<1> HIDE DEF b
<1>6. Handing(p, b, RunOf(p))
  BY <1>1, <1>5 DEF Handing
<1> QED
  BY <1>1, <1>2, <1>3, <1>4, <1>6 DEF Step, Shape, SameRun

LEMMA AllowShape ==
    ASSUME WellTyped, NEW p \in Procs, SafeguardsAllow(p)
    PROVE  \E b, y : Step(p, b, y)
<1> DEFINE b == [proc[p] EXCEPT !.phase = "seal", !.todo = <<Manifest>>]
<1>1. /\ proc' = [proc EXCEPT ![p] = b] /\ UNCHANGED <<fs, runs>>
      /\ proc[p].phase = "report" /\ proc[p].todo = <<>>
  BY DEF SafeguardsAllow, Reported
<1>2. ~ IsIdle(p) /\ ~ proc[p].open
  BY <1>1, NotOpen DEF IsIdle
<1>3. DOMAIN proc[p] = DOMAIN Idle /\ proc[p].run \in DOMAIN runs
  BY <1>2, BusyRun DEF ProcType
<1>4. runs' = [runs EXCEPT ![proc[p].run] = RunOf(p)]
  BY <1>1, RunsUntouched DEF RunOf
<1>5. SameJob(proc[p], b) /\ b.phase = "seal" /\ b.todo = <<Manifest>> /\ ~ b.open
  BY <1>2, <1>3 DEF Idle, SameJob
<1> HIDE DEF b
<1>6. Allowing(p, b, RunOf(p))
  BY <1>1, <1>5 DEF Allowing, SafeguardsAllow
<1> QED
  BY <1>1, <1>2, <1>3, <1>4, <1>6 DEF Step, Shape, SameRun

LEMMA RegateShape ==
    ASSUME WellTyped, NEW p \in Procs, GateAgain(p)
    PROVE  \E b, y : Step(p, b, y)
<1> DEFINE b == [Idle EXCEPT !.phase = "check", !.run = proc[p].run]
<1>1. /\ proc' = [proc EXCEPT ![p] = b] /\ UNCHANGED <<fs, runs>>
      /\ proc[p].phase = "seal" /\ proc[p].todo = <<>> /\ RunOf(p).kind = "pipeline"
  BY DEF GateAgain, Sealed
<1>2. ~ IsIdle(p)
  BY <1>1 DEF IsIdle
<1>3. proc[p].run \in DOMAIN runs
  BY <1>2, BusyRun
<1>4. runs' = [runs EXCEPT ![proc[p].run] = RunOf(p)]
  BY <1>1, RunsUntouched DEF RunOf
<1>5. /\ b.run = proc[p].run /\ b.phase = "check" /\ b.todo = <<>> /\ ~ b.open
      /\ ~ b.embedded /\ b.next = 1 /\ b.worst = PASS /\ b.queue = {}
  BY DEF Idle
<1> HIDE DEF b
<1>6. Regating(p, b, RunOf(p))
  BY <1>1, <1>5 DEF Regating
<1> QED
  BY <1>1, <1>2, <1>3, <1>4, <1>6 DEF Step, Shape, SameRun

LEMMA RetainShape ==
    ASSUME WellTyped, NEW p \in Procs, Skip(p) \/ Delete(p)
    PROVE  \E b, y : Step(p, b, y)
<1>1. PICK f : proc' = [proc EXCEPT ![p] = [proc[p] EXCEPT !.queue = @ \ {f}]]
  BY DEF Skip, Delete
<1> DEFINE b == [proc[p] EXCEPT !.queue = @ \ {f}]
<1>2. /\ UNCHANGED runs /\ proc[p].phase = "retain"
      /\ UNCHANGED fs \/ \E g \in proc[p].queue : fs' = Unlink(fs, g)
  BY DEF Skip, Delete, Upcoming
<1>3. ~ IsIdle(p) /\ ~ proc[p].open
  BY <1>2, NotOpen DEF IsIdle, WritingPhases
<1>4. DOMAIN proc[p] = DOMAIN Idle /\ proc[p].run \in DOMAIN runs
  BY <1>3, BusyRun DEF ProcType
<1>5. runs' = [runs EXCEPT ![proc[p].run] = RunOf(p)]
  BY <1>2, RunsUntouched DEF RunOf
<1>6. /\ b.run = proc[p].run /\ b.embedded = proc[p].embedded
      /\ b.next = proc[p].next /\ b.worst = proc[p].worst
      /\ b.queue \subseteq proc[p].queue
      /\ b.phase = "retain" /\ b.todo = proc[p].todo /\ ~ b.open
  BY <1>2, <1>3, <1>4 DEF Idle
<1>7. proc' = [proc EXCEPT ![p] = b]
  BY <1>1
<1> HIDE DEF b
<1>8. Retaining(p, b, RunOf(p))
  BY <1>2, <1>6 DEF Retaining
<1> QED
  BY <1>3, <1>4, <1>5, <1>7, <1>8 DEF Step, Shape, SameRun

LEMMA LogShape ==
    ASSUME WellTyped, NEW p \in Procs, Retained(p)
    PROVE  \E b, y : Step(p, b, y)
<1> DEFINE b == [proc[p] EXCEPT !.phase = "log", !.todo = <<RetentionLog>>]
<1>1. /\ proc' = [proc EXCEPT ![p] = b] /\ UNCHANGED <<fs, runs>>
      /\ proc[p].phase = "retain"
  BY DEF Retained
<1>2. ~ IsIdle(p) /\ ~ proc[p].open
  BY <1>1, NotOpen DEF IsIdle, WritingPhases
<1>3. DOMAIN proc[p] = DOMAIN Idle /\ proc[p].run \in DOMAIN runs
  BY <1>2, BusyRun DEF ProcType
<1>4. runs' = [runs EXCEPT ![proc[p].run] = RunOf(p)]
  BY <1>1, RunsUntouched DEF RunOf
<1>5. SameJob(proc[p], b) /\ b.phase = "log" /\ b.todo = <<RetentionLog>> /\ ~ b.open
  BY <1>2, <1>3 DEF Idle, SameJob
<1> HIDE DEF b
<1>6. Logging(p, b, RunOf(p))
  BY <1>1, <1>5 DEF Logging
<1> QED
  BY <1>1, <1>2, <1>3, <1>4, <1>6 DEF Step, Shape, SameRun

\* Every step of a running command has one of the shapes.
LEMMA StepShape ==
    ASSUME WellTyped, NEW p \in Procs, Advance(p) \/ WriteFails(p) \/ Crash(p)
    PROVE  \E b, y : Step(p, b, y)
<1>1. CASE \/ FailureReported(p) \/ SafeguardsRefuse(p) \/ SealRefused(p)
           \/ Generated(p) \/ GateDone(p) \/ VisitGone(p) \/ Logged(p) \/ Crash(p)
  <2>1. PICK o : End(p, o) /\ UNCHANGED fs /\ ~ IsIdle(p)
                 /\ EndsWith(proc[p], RunOf(p), o)
    <3>1. CASE FailureReported(p) \/ VisitGone(p) \/ SealRefused(p)
      BY <3>1 DEF FailureReported, VisitGone, SealRefused, IsIdle, EndsWith
    <3>2. CASE SafeguardsRefuse(p)
      BY <3>2 DEF SafeguardsRefuse, Reported, IsIdle, EndsWith
    <3>3. CASE Generated(p)
      BY <3>3 DEF Generated, Sealed, IsIdle, EndsWith
    <3>4. CASE GateDone(p)
      BY <3>4 DEF GateDone, Reported, IsIdle, EndsWith
    <3>5. CASE Logged(p) \/ Crash(p)
      BY <3>5 DEF Logged, Crash, IsIdle, EndsWith
    <3> QED
      BY <1>1, <3>1, <3>2, <3>3, <3>4, <3>5
  <2> QED
    BY <2>1, EndShape
<1> QED
  BY <1>1, OpenShape, CloseShape, FailShape, EvaluateShape, EvaluatedShape, HandShape,
     AllowShape, RegateShape, RetainShape, LogShape
     DEF Advance, Write

\* The files that the step of p may write or delete.
Touches(p) ==
    IF proc[p].phase = "retain" THEN proc[p].queue
    ELSE IF proc[p].todo # <<>> THEN {Head(proc[p].todo)} ELSE {}

LEMMA Elsewhere ==
    ASSUME NEW p \in Procs, NEW b, NEW y, Step(p, b, y), NEW g, g \notin Touches(p)
    PROVE  /\ g \in DOMAIN fs' <=> g \in DOMAIN fs
           /\ g \in DOMAIN fs => fs'[g] = fs[g]
<1>1. CASE UNCHANGED fs
  BY <1>1
<1>2. CASE Retaining(p, b, y)
  BY <1>2 DEF Retaining, Touches, Unlink
<1>3. CASE Opening(p, b, y) \/ Closing(p, b, y)
  <2>1. proc[p].phase # "retain" /\ proc[p].todo # <<>>
    BY <1>3 DEF Opening, Closing, MayWrite, WritingPhases
  <2>2. \E c : fs' = Put(fs, Head(proc[p].todo), c)
    BY <1>3 DEF Opening, Closing
  <2> QED
    BY <2>1, <2>2 DEF Touches, Put
<1>4. CASE Failing(p, b, y)
  BY <1>4 DEF Failing, Touches, Put
<1> QED
  BY <1>1, <1>2, <1>3, <1>4
     DEF Step, Shape, Ending, Handing, Checking, Concluding, Allowing, Regating, Logging

-----------------------------------------------------------------------------
(***************************************************************************)
(* The start of a command, which leaves the root alone.                    *)
(***************************************************************************)
Fresh(b) ==
    /\ b.run = Len(runs) + 1 /\ ~ b.open /\ ~ b.embedded
    /\ b.next = 1 /\ b.worst = PASS

BeginsGenerator(p, b, x) ==
    /\ x.kind \in Generators /\ x.payload \in Payloads /\ x.env.compat # Blocked
    /\ IsIdle(p) /\ proc' = [proc EXCEPT ![p] = b] /\ x.outcome = "running"
    /\ Fresh(b) /\ b.phase = "bundle" /\ b.todo = Plan(x.payload) /\ b.queue = {}

BeginsBlocked(x) ==
    /\ x.kind \in Generators /\ UNCHANGED proc /\ x.outcome = "blocked"

BeginsGate(p, b, x) ==
    /\ x.kind = "gate" /\ x.outcome = "running"
    /\ IsIdle(p) /\ proc' = [proc EXCEPT ![p] = b]
    /\ Fresh(b) /\ b.phase = "check" /\ b.todo = <<>> /\ b.queue = {}

BeginsRetention(p, b, x) ==
    /\ x.kind \in {"retention", "retention_dry_run"} /\ x.outcome = "running"
    /\ IsIdle(p) /\ proc' = [proc EXCEPT ![p] = b]
    /\ Fresh(b) /\ b.phase = "retain" /\ b.todo = <<>>
    /\ b.queue = FamilyFiles(fs) \ Protected(fs, x.env.keep)

\* A run x is added, and p works for it unless it is blocked at once.
Beginning(p, b, x) ==
    /\ CanStart(x.kind) /\ x.env \in Environments
    /\ UNCHANGED fs
    /\ runs' = Append(runs, x)
    /\ ~ x.sealed /\ x.judged = 0 /\ x.verdict = "none"
    /\ \/ BeginsGenerator(p, b, x) \/ BeginsBlocked(x)
       \/ BeginsGate(p, b, x) \/ BeginsRetention(p, b, x)

LEMMA StartShape ==
    ASSUME NEW p \in Procs, Start(p)
    PROVE  \E b, x : Beginning(p, b, x)
<1>1. CASE StartGenerator(p)
  <2> PICK kind \in Generators, pl \in Payloads, env \in Environments :
          /\ env.compat # Blocked
          /\ Begin(p, kind, pl, env, [Idle EXCEPT !.phase = "bundle", !.todo = Plan(pl)])
    BY <1>1 DEF StartGenerator
  <2> DEFINE b == [[Idle EXCEPT !.phase = "bundle", !.todo = Plan(pl)]
                      EXCEPT !.run = Len(runs) + 1]
             x == Started(kind, pl, env, "running")
  <2>1. Fresh(b) /\ b.phase = "bundle" /\ b.todo = Plan(pl) /\ b.queue = {}
    BY DEF Fresh, Idle
  <2>2. /\ x.kind = kind /\ x.payload = pl /\ x.env = env /\ x.outcome = "running"
        /\ ~ x.sealed /\ x.judged = 0 /\ x.verdict = "none"
    BY DEF Started
  <2>3. /\ IsIdle(p) /\ CanStart(kind) /\ UNCHANGED fs
        /\ proc' = [proc EXCEPT ![p] = b] /\ runs' = Append(runs, x)
    BY DEF Begin
  <2> HIDE DEF b, x
  <2> QED
    BY <2>1, <2>2, <2>3 DEF Beginning, BeginsGenerator
<1>2. CASE StartBlocked(p)
  <2> PICK kind \in Generators, pl \in Payloads, env \in Environments :
          /\ CanStart(kind) /\ UNCHANGED <<fs, proc>>
          /\ runs' = Append(runs, Started(kind, pl, env, "blocked"))
    BY <1>2 DEF StartBlocked
  <2> DEFINE x == Started(kind, pl, env, "blocked")
  <2>1. /\ x.kind = kind /\ x.env = env /\ x.outcome = "blocked"
        /\ ~ x.sealed /\ x.judged = 0 /\ x.verdict = "none"
    BY DEF Started
  <2> HIDE DEF x
  <2> QED
    BY <2>1 DEF Beginning, BeginsBlocked, x
<1>3. CASE StartGate(p)
  <2> PICK env \in Environments :
          Begin(p, "gate", NoPayload, env, [Idle EXCEPT !.phase = "check"])
    BY <1>3 DEF StartGate
  <2> DEFINE b == [[Idle EXCEPT !.phase = "check"] EXCEPT !.run = Len(runs) + 1]
             x == Started("gate", NoPayload, env, "running")
  <2>1. Fresh(b) /\ b.phase = "check" /\ b.todo = <<>> /\ b.queue = {}
    BY DEF Fresh, Idle
  <2>2. /\ x.kind = "gate" /\ x.env = env /\ x.outcome = "running"
        /\ ~ x.sealed /\ x.judged = 0 /\ x.verdict = "none"
    BY DEF Started
  <2>3. /\ IsIdle(p) /\ CanStart("gate") /\ UNCHANGED fs
        /\ proc' = [proc EXCEPT ![p] = b] /\ runs' = Append(runs, x)
    BY DEF Begin
  <2> HIDE DEF b, x
  <2> QED
    BY <2>1, <2>2, <2>3 DEF Beginning, BeginsGate
<1>4. CASE StartRetention(p)
  <2> PICK kind \in {"retention", "retention_dry_run"}, env \in Environments :
          Begin(p, kind, NoPayload, env,
                [Idle EXCEPT !.phase  = "retain",
                             !.second = clock,
                             !.queue  = FamilyFiles(fs) \ Protected(fs, env.keep)])
    BY <1>4 DEF StartRetention
  <2> DEFINE Q == FamilyFiles(fs) \ Protected(fs, env.keep)
             b == [[Idle EXCEPT !.phase = "retain", !.second = clock, !.queue = Q]
                      EXCEPT !.run = Len(runs) + 1]
             x == Started(kind, NoPayload, env, "running")
  <2>1. Fresh(b) /\ b.phase = "retain" /\ b.todo = <<>> /\ b.queue = Q
    BY DEF Fresh, Idle
  <2>2. /\ x.kind = kind /\ x.env = env /\ x.outcome = "running"
        /\ ~ x.sealed /\ x.judged = 0 /\ x.verdict = "none"
    BY DEF Started
  <2>3. /\ IsIdle(p) /\ CanStart(kind) /\ UNCHANGED fs
        /\ proc' = [proc EXCEPT ![p] = b] /\ runs' = Append(runs, x)
    BY DEF Begin
  <2> HIDE DEF b, x
  <2> QED
    BY <2>1, <2>2, <2>3 DEF Beginning, BeginsRetention
<1> QED
  BY <1>1, <1>2, <1>3, <1>4 DEF Start

-----------------------------------------------------------------------------
(***************************************************************************)
(* What a running command may be in the middle of, given its run x.  None  *)
(* of it needs commands to exclude each other.                             *)
(***************************************************************************)
Observed(x) ==
    x.env.profile = "prod_like" =>
        /\ x.payload.runtime \in {"live", "db_backed", "file_backed"}
        /\ x.payload.events # "none"
        /\ x.payload.fallbacks = 0

\* Something is an element of a sequence.
Has(s, x) == \E i \in DOMAIN s : s[i] = x

Writable(x) == x.env.compat # Blocked /\ x.payload.events # "unsupported"

Sealable(x) == x.kind \in Generators /\ Writable(x) /\ Observed(x)

Working(s, x) ==
    /\ x.outcome = "running"
    /\ s.embedded => s.phase \in {"check", "report", "seal"} /\ Writable(x)
    /\ s.phase = "seal" =>
          s.embedded /\ Observed(x) /\ s.todo \in {<<>>, <<Manifest>>}
    /\ s.phase = "bundle" =>
          /\ x.env.compat # Blocked
          /\ x.payload.events = "unsupported" => Has(s.todo, Audit)
          /\ s.next = 1
    /\ s.phase \in {"retain", "log"} => x.kind \notin Generators
    /\ s.open /\ s.phase = "seal" => s.draft.stamp = s.run
    /\ x.sealed => IF s.phase = "seal" THEN s.todo = <<>>
                   ELSE s.phase \in {"check", "report"} /\ ~ s.embedded

ManifestOwned(store, rs) ==
    ManifestParses(store) =>
        store[Manifest].stamp \in DOMAIN rs /\ rs[store[Manifest].stamp].sealed

\* Every running command has a run of its own, and no run seals a bundle that
\* its safeguards would have refused.
Assigned ==
    /\ \A p \in Procs : ~ IsIdle(p) => Working(proc[p], RunOf(p))
    /\ \A p, q \in Procs : p # q /\ ~ IsIdle(p) /\ ~ IsIdle(q)
                              => proc[p].run # proc[q].run
    /\ \A r \in DOMAIN runs : runs[r].sealed => Sealable(runs[r])
    /\ ManifestOwned(fs, runs)

-----------------------------------------------------------------------------
\* A concatenation has the elements of both sequences.
LEMMA ConcatKeeps ==
    ASSUME NEW S, NEW s \in Seq(S), NEW t \in Seq(S), NEW x,
           Has(s, x) \/ Has(t, x)
    PROVE  s \o t \in Seq(S) /\ Has(s \o t, x)
<1> DEFINE n == Len(s) + Len(t)
<1>1. /\ s \o t \in Seq(S) /\ Len(s \o t) = n
      /\ \A i \in 1..n : (s \o t)[i] = IF i <= Len(s) THEN s[i] ELSE t[i - Len(s)]
  BY ConcatProperties
<1>2. /\ Len(s) \in Nat /\ Len(t) \in Nat
      /\ DOMAIN s = 1..Len(s) /\ DOMAIN t = 1..Len(t)
  OBVIOUS
<1>3. DOMAIN (s \o t) = 1..n
  BY <1>1
<1>4. ASSUME NEW i \in DOMAIN s, s[i] = x
      PROVE  i \in 1..n /\ (s \o t)[i] = x
  BY <1>1, <1>2, <1>4
<1>5. ASSUME NEW i \in DOMAIN t, t[i] = x
      PROVE  Len(s) + i \in 1..n /\ (s \o t)[Len(s) + i] = x
  BY <1>1, <1>2, <1>5
<1> QED
  BY <1>1, <1>3, <1>4, <1>5 DEF Has

LEMMA PlanHas ==
    ASSUME NEW pl \in Payloads,
           NEW f \in RequiredPaths \cup {EvalRows(pl.mode), EvalSummary(pl.mode)}
    PROVE  Has(Plan(pl), f)
<1> DEFINE front == <<Contract, Connectors, Tools, McpServers, Evals, Audit>>
           middle == [i \in DOMAIN pl.traces |-> Replay(pl.traces[i])]
           back == <<EvalRows(pl.mode), EvalSummary(pl.mode), Health>>
           U == {front[i] : i \in 1..6} \cup {back[i] : i \in 1..3}
                   \cup {Replay(pl.traces[i]) : i \in DOMAIN pl.traces}
<1>1. pl.traces \in Seq(Traces)
  BY BundleFilesAreFiles
<1>2. Len(pl.traces) \in Nat /\ DOMAIN pl.traces = 1..Len(pl.traces)
  BY <1>1
<1>3. middle \in Seq(U)
  <2>1. \A i \in DOMAIN pl.traces : Replay(pl.traces[i]) \in U
    OBVIOUS
  <2> HIDE DEF U
  <2> QED
    BY <1>2, <2>1, IsASeq
<1>4. /\ front \in Seq(U) /\ back \in Seq(U)
      /\ DOMAIN front = 1..6 /\ DOMAIN back = 1..3
  OBVIOUS
<1>5. /\ front[1] = Contract /\ front[2] = Connectors /\ front[3] = Tools
      /\ front[4] = McpServers /\ front[5] = Evals /\ front[6] = Audit
      /\ back[1] = EvalRows(pl.mode) /\ back[2] = EvalSummary(pl.mode)
      /\ back[3] = Health
  OBVIOUS
<1>6. Plan(pl) = front \o middle \o back
  BY DEF Plan
<1> HIDE DEF front, back, middle, U
<1>7. Has(front, f) \/ Has(back, f)
  <2>1. \/ f = front[1] \/ f = front[2] \/ f = front[3] \/ f = front[4]
        \/ f = front[5] \/ f = front[6] \/ f = back[1] \/ f = back[2] \/ f = back[3]
    BY <1>5 DEF RequiredPaths
  <2>2. /\ 1 \in 1..6 /\ 2 \in 1..6 /\ 3 \in 1..6 /\ 4 \in 1..6 /\ 5 \in 1..6
        /\ 6 \in 1..6 /\ 1 \in 1..3 /\ 2 \in 1..3 /\ 3 \in 1..3
    OBVIOUS
  <2> QED
    BY <1>4, <2>1, <2>2, Zenon DEF Has
<1> DEFINE fm == front \o middle
<1>8. /\ fm \in Seq(U)
      /\ Has(front, f) => Has(fm, f)
  <2>1. front \in Seq(U) /\ middle \in Seq(U)
    BY <1>3, <1>4
  <2>2. front \o middle \in Seq(U)
    BY <2>1, ConcatProperties
  <2> QED
    BY <2>1, <2>2, ConcatKeeps
<1> HIDE DEF fm
<1>9. Has(fm \o back, f)
  <2>1. fm \in Seq(U) /\ back \in Seq(U)
    BY <1>4, <1>8
  <2>2. Has(fm, f) \/ Has(back, f)
    BY <1>7, <1>8
  <2> QED
    BY <2>1, <2>2, ConcatKeeps
<1> QED
  BY <1>6, <1>9 DEF fm

LEMMA TailKeeps ==
    ASSUME NEW S, NEW s \in Seq(S), s # <<>>, NEW x, Has(s, x), x # Head(s)
    PROVE  Has(Tail(s), x)
<1>1. PICK j \in DOMAIN s : s[j] = x
  BY DEF Has
<1>2. j # 1 /\ j \in 1..Len(s) /\ Len(s) \in Nat
  BY <1>1
<1>3. j - 1 \in DOMAIN Tail(s) /\ Tail(s)[j - 1] = s[j]
  BY <1>2
<1> QED
  BY <1>1, <1>3 DEF Has

-----------------------------------------------------------------------------
(***************************************************************************)
(* Assigned is kept.                                                       *)
(***************************************************************************)
LEMMA OpenHasDraft ==
    ASSUME WellTyped, NEW p \in Procs
    PROVE  /\ proc[p].todo \in Seq(File)
           /\ ProcType(proc[p]) /\ TodoOK(proc[p], runs)
  BY DEF WellTyped, ProcOK, ProcType

\* What a step of p leaves to prove: the part of p, of its run, of the manifest.
LEMMA AssignedFrame ==
    ASSUME WellTyped, Assigned, NEW p \in Procs, NEW b, NEW y, Step(p, b, y),
           b.phase # "idle" => b.run = proc[p].run /\ Working(b, y),
           RunOf(p).sealed => y.sealed,
           y.sealed => Sealable(y),
           ManifestOwned(fs', runs')
    PROVE  Assigned'
<1>1. /\ DOMAIN proc = Procs
      /\ DOMAIN runs' = DOMAIN runs
      /\ proc'[p] = b /\ runs'[proc[p].run] = y
      /\ \A q \in Procs : q # p => proc'[q] = proc[q]
      /\ \A r \in DOMAIN runs : r # proc[p].run => runs'[r] = runs[r]
  BY DEF WellTyped, Step
<1>2. ASSUME NEW q \in Procs, ~ IsIdle(q)'
      PROVE  Working(proc[q], RunOf(q))'
  <2>1. CASE q = p
    BY <1>1, <1>2, <2>1 DEF IsIdle, RunOf
  <2>2. CASE q # p
    <3>1. ~ IsIdle(q) /\ proc[q].run # proc[p].run /\ proc[q].run \in DOMAIN runs
      BY <1>1, <1>2, <2>2, BusyRun DEF Assigned, IsIdle, Step
    <3> QED
      BY <1>1, <2>2, <3>1 DEF Assigned, RunOf
  <2> QED
    BY <2>1, <2>2
<1>3. \A q, q2 \in Procs : q # q2 /\ ~ IsIdle(q)' /\ ~ IsIdle(q2)'
                           => proc'[q].run # proc'[q2].run
  BY <1>1 DEF Assigned, IsIdle, Step
<1>4. \A r \in DOMAIN runs' : runs'[r].sealed => Sealable(runs'[r])
  BY <1>1 DEF Assigned
<1> QED
  BY <1>2, <1>3, <1>4 DEF Assigned

\* The manifest still belongs to a sealed run if it did, or is still the same.
LEMMA OwnedElsewhere ==
    ASSUME Assigned, NEW p \in Procs, NEW b, NEW y, Step(p, b, y),
           RunOf(p).sealed => y.sealed,
           Exists(fs', Manifest) =>
               Exists(fs, Manifest) /\ fs'[Manifest] = fs[Manifest]
    PROVE  ManifestOwned(fs', runs')
<1>1. \A r \in DOMAIN runs : r \in DOMAIN runs' /\ (runs[r].sealed => runs'[r].sealed)
  BY DEF Step, RunOf
<1> QED
  BY <1>1 DEF Assigned, ManifestOwned, ManifestParses, Readable

\* The file that a process writes next.
LEMMA NextOfPhase ==
    ASSUME WellTyped, NEW p \in Procs, ~ IsIdle(p), proc[p].todo # <<>>
    PROVE  LET f == Head(proc[p].todo)
           IN  /\ f = proc[p].todo[1] /\ 1 \in DOMAIN proc[p].todo
               /\ proc[p].phase = "bundle"  => f \in BundleFiles(RunOf(p).payload)
               /\ proc[p].phase = "failing" => f = Health
               /\ proc[p].phase = "log"     => f = RetentionLog
               /\ proc[p].phase = "seal"    => f = Manifest
               /\ proc[p].phase = "report"  => f[1] \in {"gate_json", "gate_md"}
               /\ proc[p].phase \in WritingPhases \ {"seal"} => f # Manifest
<1> DEFINE f == Head(proc[p].todo)
<1>1. TodoOK(proc[p], runs) /\ proc[p].todo \in Seq(File)
  BY OpenHasDraft
<1>2. 1 \in DOMAIN proc[p].todo /\ f = proc[p].todo[1]
  BY <1>1
<1>3. /\ proc[p].phase = "bundle"  => f \in BundleFiles(RunOf(p).payload)
                                       /\ RunOf(p).payload \in Payloads
      /\ proc[p].phase = "failing" => f = Health
      /\ proc[p].phase = "log"     => f = RetentionLog
      /\ proc[p].phase = "seal"    => f = Manifest
      /\ proc[p].phase = "report"  => f[1] \in {"gate_json", "gate_md"}
  BY <1>1, <1>2 DEF TodoOK, HasPayload, RunOf
<1>4. proc[p].phase = "bundle" => f # Manifest
  BY <1>3, BundleFileKinds
<1>5. proc[p].phase \in WritingPhases \ {"seal"} => f # Manifest
  BY <1>3, <1>4 DEF WritingPhases, Manifest, Health, RetentionLog
<1> QED
  BY <1>2, <1>3, <1>5

LEMMA OpeningAssigned ==
    ASSUME WellTyped, Assigned, NEW p \in Procs, NEW b, NEW y, Step(p, b, y),
           Opening(p, b, y)
    PROVE  Assigned'
<1> DEFINE f == Head(proc[p].todo)
           c == Content(p, f)
<1>1. /\ ~ IsIdle(p) /\ proc[p].phase \in WritingPhases /\ proc[p].todo # <<>>
      /\ Working(proc[p], RunOf(p)) /\ y = RunOf(p)
      /\ SameJob(proc[p], b) /\ b.phase = proc[p].phase /\ b.todo = proc[p].todo
      /\ b.draft = c
  BY DEF Step, Opening, MayWrite, Assigned
<1>2. PICK form \in OpenForms(f, RunOf(p).payload) :
          fs' = Put(fs, f, [c EXCEPT !.form = form])
  BY DEF Opening
<1>3. ManifestOwned(fs', runs')
  <2>1. CASE proc[p].phase = "seal"
    <3>1. f = Manifest
      BY <1>1, <2>1, NextOfPhase
    <3>2. form = "malformed"
      BY <3>1 DEF OpenForms, HasRows, TornForms, Manifest, Audit, LineFamilies
    <3>3. DOMAIN c = {"stamp", "form", "data"}
      BY <1>1, <3>1, ContentType DEF Fits, ManifestFile
    <3>4. fs'[Manifest].form = "malformed"
      BY <1>2, <3>1, <3>2, <3>3 DEF Put
    <3> QED
      BY <3>4 DEF ManifestOwned, ManifestParses, Readable
  <2>2. CASE proc[p].phase # "seal"
    <3>1. f # Manifest
      BY <1>1, <2>2, NextOfPhase
    <3> HIDE DEF f, c
    <3> QED
      BY <1>1, <1>2, <3>1, OwnedElsewhere DEF Put, Exists
  <2> QED
    BY <2>1, <2>2
<1>4. b.phase = "seal" => b.draft.stamp = b.run
  BY <1>1 DEF Content, BuildManifest, SameJob
<1>5. Working(b, y)
  <2> HIDE DEF c, f
  <2> QED
    BY <1>1, <1>4 DEF Working, SameJob
<1>6. y.sealed => Sealable(y)
  BY <1>1 DEF Assigned, RunOf, Step
<1> QED
  BY <1>1, <1>3, <1>5, <1>6, AssignedFrame DEF SameJob

LEMMA ClosingAssigned ==
    ASSUME WellTyped, Assigned, NEW p \in Procs, NEW b, NEW y, Step(p, b, y),
           Closing(p, b, y)
    PROVE  Assigned'
<1> DEFINE f == Head(proc[p].todo)
<1>1. /\ ~ IsIdle(p) /\ proc[p].phase \in WritingPhases /\ proc[p].todo # <<>>
      /\ proc[p].open /\ ~ Rejects(p)
      /\ Working(proc[p], RunOf(p)) /\ SameRun(RunOf(p), y)
      /\ SameJob(proc[p], b) /\ b.phase = proc[p].phase
      /\ b.todo = Tail(proc[p].todo) /\ ~ b.open
      /\ fs' = Put(fs, f, proc[p].draft)
      /\ y.sealed = (RunOf(p).sealed \/ proc[p].phase = "seal")
      /\ y.outcome = RunOf(p).outcome
      /\ proc[p].todo \in Seq(File) /\ TodoOK(proc[p], runs)
  BY OpenHasDraft DEF Step, Closing, Assigned
<1>2. CASE proc[p].phase = "seal"
  <2>1. f = Manifest /\ proc[p].draft.stamp = proc[p].run
    BY <1>1, <1>2, NextOfPhase DEF Working
  <2>2. ManifestOwned(fs', runs')
    <3>1. fs'[Manifest].stamp = proc[p].run
      BY <1>1, <2>1 DEF Put
    <3>2. proc[p].run \in DOMAIN runs' /\ runs'[proc[p].run].sealed
      BY <1>1, <1>2 DEF Step
    <3> QED
      BY <3>1, <3>2 DEF ManifestOwned
  <2>3. b.todo = <<>>
    <3>1. proc[p].todo = <<Manifest>>
      BY <1>1, <1>2 DEF Working
    <3>2. Tail(<<Manifest>>) = <<>>
      OBVIOUS
    <3> QED
      BY <1>1, <3>1, <3>2
  <2>4. Sealable(y)
    <3>1. Writable(RunOf(p)) /\ Observed(RunOf(p))
      BY <1>1, <1>2 DEF Working
    <3>2. RunOf(p).kind \in Generators
      BY <1>1, <1>2 DEF TodoOK, HasPayload, RunOf
    <3> QED
      BY <1>1, <3>1, <3>2 DEF Sealable, SameRun, Writable, Observed
  <2>5. Working(b, y)
    <3>1. Writable(y) /\ Observed(y)
      BY <2>4 DEF Sealable
    <3> QED
      BY <1>1, <1>2, <2>3, <3>1 DEF Working, SameJob
  <2> QED
    BY <1>1, <2>2, <2>4, <2>5, AssignedFrame DEF SameJob
<1>3. CASE proc[p].phase # "seal"
  <2>1. f # Manifest
    BY <1>1, <1>3, NextOfPhase
  <2>2. ManifestOwned(fs', runs')
    <3> HIDE DEF f
    <3> QED
      BY <1>1, <2>1, OwnedElsewhere DEF Put, Exists
  <2>3. b.phase = "bundle" /\ y.payload.events = "unsupported" => Has(b.todo, Audit)
    <3> SUFFICES ASSUME b.phase = "bundle", y.payload.events = "unsupported"
                 PROVE  Has(Tail(proc[p].todo), Audit)
      BY <1>1
    <3>1. Has(proc[p].todo, Audit) /\ RunOf(p).payload.events = "unsupported"
      BY <1>1 DEF Working, SameRun
    <3>2. f # Audit
      BY <1>1, <3>1 DEF Rejects
    <3> QED
      BY <1>1, <3>1, <3>2, TailKeeps
  <2>4. Working(b, y)
    BY <1>1, <1>3, <2>3 DEF Working, SameJob, SameRun, Writable, WritingPhases
  <2>5. y.sealed => Sealable(y)
    BY <1>1, <1>3 DEF Assigned, RunOf, Step, Sealable, SameRun, Writable, Observed
  <2> QED
    BY <1>1, <2>2, <2>4, <2>5, AssignedFrame DEF SameJob
<1> QED
  BY <1>2, <1>3

\* A step that leaves the manifest alone and seals no run.
LEMMA PlainAssigned ==
    ASSUME WellTyped, Assigned, NEW p \in Procs, NEW b, NEW y, Step(p, b, y),
           y.sealed = RunOf(p).sealed,
           b.phase # "idle" => b.run = proc[p].run /\ Working(b, y),
           Exists(fs', Manifest) =>
               Exists(fs, Manifest) /\ fs'[Manifest] = fs[Manifest]
    PROVE  Assigned'
<1>1. ManifestOwned(fs', runs')
  BY OwnedElsewhere
<1>2. y.sealed => Sealable(y)
  BY DEF Assigned, RunOf, Step, Sealable, SameRun, Writable, Observed
<1> QED
  BY <1>1, <1>2, AssignedFrame

LEMMA QuietAssigned ==
    ASSUME WellTyped, Assigned, NEW p \in Procs, NEW b, NEW y, Step(p, b, y),
           \/ Ending(p, b, y) \/ Handing(p, b, y) \/ Checking(p, b, y)
           \/ Concluding(p, b, y) \/ Allowing(p, b, y) \/ Regating(p, b, y)
           \/ Logging(p, b, y)
    PROVE  Assigned'
<1>1. ~ IsIdle(p) /\ Working(proc[p], RunOf(p)) /\ SameRun(RunOf(p), y)
  BY DEF Step, Assigned
<1>2. UNCHANGED fs /\ y.sealed = RunOf(p).sealed
  BY DEF Ending, Handing, Checking, Concluding, Allowing, Regating, Logging
<1>3. b.phase # "idle" => b.run = proc[p].run /\ Working(b, y)
  <2>1. CASE Ending(p, b, y)
    BY <2>1 DEF Ending, Idle
  <2>2. CASE Handing(p, b, y)
    <3>1. ~ Has(proc[p].todo, Audit) /\ DOMAIN proc[p] = DOMAIN Idle
      BY <1>1, <2>2, OpenHasDraft DEF Handing, Has, ProcType
    <3>2. b.embedded /\ b.run = proc[p].run
      BY <2>2, <3>1 DEF Handing, SameJob, Idle
    <3>3. RunOf(p).env.compat # Blocked /\ RunOf(p).payload.events # "unsupported"
      BY <1>1, <2>2, <3>1 DEF Handing, Working
    <3> QED
      BY <1>1, <2>2, <3>2, <3>3 DEF Handing, Working, Writable
  <2>3. CASE Checking(p, b, y)
    <3> HIDE DEF Writable, Observed
    <3> QED
      BY <1>1, <2>3 DEF Checking, Working, SameRun, Writable
  <2>4. CASE Concluding(p, b, y)
    BY <1>1, <2>4 DEF Concluding, Working, SameRun, Writable
  <2>5. CASE Allowing(p, b, y)
    <3>1. Observed(RunOf(p))
      <4> DEFINE x == RunOf(p)
      <4>1. x.payload \in Payload
        BY <1>1, <2>5, OpenHasDraft, PipelineAssumption
           DEF Allowing, TodoOK, HasPayload, RunOf
      <4>2. x.payload.fallbacks \in Nat
        BY <4>1 DEF Payload
      <4>3. ~ SafeguardsBlock(x.env, x.payload, proc[p].fresh)
        BY <2>5 DEF Allowing
      <4> HIDE DEF x
      <4>4. ASSUME x.env.profile = "prod_like"
            PROVE  /\ x.payload.runtime \in {"live", "db_backed", "file_backed"}
                   /\ x.payload.events # "none" /\ x.payload.fallbacks = 0
        BY <4>2, <4>3, <4>4 DEF SafeguardsBlock, AllowedSourceModes
      <4> QED
        BY <4>4 DEF Observed, x
    <3> QED
      BY <1>1, <2>5, <3>1 DEF Allowing, Working, SameJob
  <2>6. CASE Regating(p, b, y)
    BY <1>1, <2>6 DEF Regating, Working
  <2>7. CASE Logging(p, b, y)
    BY <1>1, <2>7 DEF Logging, Working, SameJob
  <2> QED
    BY <2>1, <2>2, <2>3, <2>4, <2>5, <2>6, <2>7
<1> QED
  BY <1>2, <1>3, PlainAssigned

LEMMA FailingAssigned ==
    ASSUME WellTyped, Assigned, NEW p \in Procs, NEW b, NEW y, Step(p, b, y),
           Failing(p, b, y)
    PROVE  Assigned'
<1>1. Working(proc[p], RunOf(p))
  BY DEF Step, Assigned
<1>2. Working(b, y) /\ b.run = proc[p].run /\ y.sealed = RunOf(p).sealed
  BY <1>1 DEF Failing, SameJob, Working
<1>3. Exists(fs', Manifest) => Exists(fs, Manifest) /\ fs'[Manifest] = fs[Manifest]
  <2>1. Audit # Manifest
    BY DEF Audit, Manifest
  <2> QED
    BY <2>1 DEF Failing, Put, Exists
<1> QED
  BY <1>2, <1>3, PlainAssigned

LEMMA RetainingAssigned ==
    ASSUME WellTyped, Assigned, NEW p \in Procs, NEW b, NEW y, Step(p, b, y),
           Retaining(p, b, y)
    PROVE  Assigned'
<1>1. Working(proc[p], RunOf(p))
  BY DEF Step, Assigned
<1>2. Working(b, y) /\ b.run = proc[p].run /\ y.sealed = RunOf(p).sealed
  BY <1>1 DEF Retaining, Working
<1>3. Exists(fs', Manifest) => Exists(fs, Manifest) /\ fs'[Manifest] = fs[Manifest]
  BY DEF Retaining, Unlink, Exists
<1> QED
  BY <1>2, <1>3, PlainAssigned

LEMMA BeginningAssigned ==
    ASSUME WellTyped, Assigned, NEW p \in Procs, NEW b, NEW x, Beginning(p, b, x)
    PROVE  Assigned'
<1> DEFINE n == Len(runs) + 1
<1>1. /\ DOMAIN proc = Procs /\ runs \in Seq(Run) /\ Len(runs) \in Nat
      /\ DOMAIN runs = 1..Len(runs) /\ DOMAIN runs' = 1..n
      /\ runs' = Append(runs, x) /\ runs'[n] = x
      /\ \A r \in DOMAIN runs : r # n /\ r \in DOMAIN runs' /\ runs'[r] = runs[r]
      /\ UNCHANGED fs /\ ~ x.sealed
  BY DEF WellTyped, RunsOK, Beginning
<1>2. \A q \in Procs : ~ IsIdle(q) => proc[q].run \in DOMAIN runs
  BY BusyRun
<1>3. UNCHANGED proc \/ (/\ IsIdle(p) /\ proc' = [proc EXCEPT ![p] = b]
                         /\ b.run = n /\ Working(b, x))
  <2>1. CASE BeginsGenerator(p, b, x)
    <3>1. Has(b.todo, Audit)
      BY <2>1, PlanHas DEF BeginsGenerator, RequiredPaths
    <3> QED
      BY <1>1, <2>1, <3>1 DEF BeginsGenerator, Fresh, Working
  <2>2. CASE BeginsBlocked(x)
    BY <2>2 DEF BeginsBlocked
  <2>3. CASE BeginsGate(p, b, x)
    BY <1>1, <2>3 DEF BeginsGate, Fresh, Working
  <2>4. CASE BeginsRetention(p, b, x)
    BY <1>1, <2>4 DEF BeginsRetention, Fresh, Working, Generators
  <2> QED
    BY <2>1, <2>2, <2>3, <2>4 DEF Beginning
<1>4. \A q \in Procs : \/ proc'[q] = proc[q]
                       \/ q = p /\ IsIdle(p) /\ proc'[q].run = n /\ Working(proc'[q], x)
  BY <1>1, <1>3
<1>5. \A q \in Procs : ~ IsIdle(q)' => Working(proc[q], RunOf(q))'
  BY <1>1, <1>2, <1>4 DEF Assigned, IsIdle, RunOf
<1>6. \A q, q2 \in Procs : q # q2 /\ ~ IsIdle(q)' /\ ~ IsIdle(q2)'
                           => proc'[q].run # proc'[q2].run
  <2> SUFFICES ASSUME NEW q \in Procs, NEW q2 \in Procs, q # q2,
                      ~ IsIdle(q)', ~ IsIdle(q2)'
               PROVE  proc'[q].run # proc'[q2].run
    OBVIOUS
  <2>1. CASE proc'[q] = proc[q] /\ proc'[q2] = proc[q2]
    BY <2>1 DEF Assigned, IsIdle
  <2>2. CASE q = p /\ proc'[q].run = n /\ proc'[q2] = proc[q2]
    BY <1>1, <1>2, <2>2 DEF IsIdle
  <2>3. CASE q2 = p /\ proc'[q2].run = n /\ proc'[q] = proc[q]
    BY <1>1, <1>2, <2>3 DEF IsIdle
  <2> QED
    BY <1>4, <2>1, <2>2, <2>3
<1>7. \A r \in DOMAIN runs' : runs'[r].sealed => Sealable(runs'[r])
  <2> SUFFICES ASSUME NEW r \in DOMAIN runs', runs'[r].sealed
               PROVE  Sealable(runs'[r])
    OBVIOUS
  <2>1. r # n /\ r \in DOMAIN runs
    BY <1>1
  <2> QED
    BY <1>1, <2>1 DEF Assigned
<1>8. ManifestOwned(fs', runs')
  BY <1>1 DEF Assigned, ManifestOwned
<1> QED
  BY <1>5, <1>6, <1>7, <1>8 DEF Assigned

LEMMA AssignedInit == Init => Assigned
<1> SUFFICES ASSUME Init
             PROVE  Assigned
  OBVIOUS
<1>1. \A p \in Procs : IsIdle(p)
  BY DEF Init, IsIdle, Idle
<1>2. DOMAIN runs = {} /\ DOMAIN fs = {}
  BY DEF Init
<1> QED
  BY <1>1, <1>2 DEF Assigned, ManifestOwned, ManifestParses, Readable, Exists

LEMMA AssignedStep == WellTyped /\ Assigned /\ [Next]_vars => Assigned'
<1> SUFFICES ASSUME WellTyped, Assigned, [Next]_vars
             PROVE  Assigned'
  OBVIOUS
<1>1. CASE UNCHANGED <<fs, runs, proc>>
  BY <1>1 DEF Assigned, ManifestOwned, IsIdle, RunOf
<1>2. ASSUME NEW p \in Procs, Advance(p) \/ WriteFails(p) \/ Crash(p)
      PROVE  Assigned'
  <2> PICK b, y : Step(p, b, y)
    BY <1>2, StepShape
  <2> QED
    BY OpeningAssigned, ClosingAssigned, QuietAssigned, FailingAssigned,
       RetainingAssigned DEF Step, Shape
<1>3. ASSUME NEW p \in Procs, Start(p)
      PROVE  Assigned'
  BY <1>3, StartShape, BeginningAssigned
<1> QED
  BY <1>1, <1>2, <1>3 DEF Next, Tick, vars

LEMMA AlwaysAssigned == Spec => []Assigned
<1>1. Spec => []WellTyped
  BY AlwaysWellTyped
<1> QED
  BY <1>1, AssignedInit, AssignedStep, PTL DEF Spec

\* Whatever overlaps: the run that sealed a bundle that verifies, if under prod_like, was
\* given observed evidence and no fallback, because validate_profile_safeguards stands
\* between the files and the manifest of generate_artifacts.  It says nothing of files
\* that another run may have written over its own.
THEOREM ProdLikeObserved == Spec => []ProdLikeBundleIsObserved
<1>1. Assigned => ProdLikeBundleIsObserved
  <2> SUFFICES ASSUME Assigned, HashesConsistent(fs),
                      runs[Owner].env.profile = "prod_like"
               PROVE  /\ runs[Owner].payload.runtime \in {"live", "db_backed", "file_backed"}
                      /\ runs[Owner].payload.events # "none"
                      /\ runs[Owner].payload.fallbacks = 0
    BY DEF ProdLikeBundleIsObserved
  <2>1. ManifestParses(fs)
    BY DEF HashesConsistent, MissingRequired, MissingManifestEntries, ManifestParses,
           Readable
  <2> QED
    BY <2>1 DEF Assigned, ManifestOwned, Sealable, Observed, Owner
<1> QED
  BY <1>1, AlwaysAssigned, PTL
=============================================================================
