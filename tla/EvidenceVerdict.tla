---------------------------- MODULE EvidenceVerdict ----------------------------
(***************************************************************************)
(* What the launch gate answers.  No evaluation is a go: GoIsUnreachable   *)
(* for all values of the constants, with or without a lock.  Where         *)
(* generating commands run alone, a verdict that does not block was earned *)
(* by one sealed run, a manifest seals the no_go of the gate before it,    *)
(* the artifacts root implements the ledger of bundles, and the second     *)
(* gate of a pipeline does not block on sound evidence.                    *)
(***************************************************************************)
EXTENDS EvidenceSafety

(***************************************************************************)
(* The inductive invariant.  The health summary is written while the gate  *)
(* is pending, so it never says success, in the store or in a draft; the   *)
(* health check therefore warns or fails; and a verdict never gets better. *)
(***************************************************************************)
HealthCheck == 13

Pending(c) == c.data.runStatus # "success"

NotYetPassed(s) ==
    /\ s.open /\ Head(s.todo) = Health => Pending(s.draft)
    /\ s.next > HealthCheck => s.worst # PASS

NoGoAhead ==
    /\ Health \in DOMAIN fs => Pending(fs[Health])
    /\ \A p \in Procs : NotYetPassed(proc[p])
    /\ \A r \in DOMAIN runs : runs[r].verdict # GO

-----------------------------------------------------------------------------
LEMMA SummaryIsPending ==
    ASSUME NEW pl, NEW env, NEW failed
    PROVE  HealthSummary(pl, env, failed, "not_run").runStatus # "success"
  BY DEF HealthSummary, RunStatus, GO

LEMMA HealthCheckObjects ==
    ASSUME WellTyped, NoGoAhead
    PROVE  AdapterHealthSummary(fs) # PASS
<1>1. CASE ~ Exists(fs, Health)
  BY <1>1 DEF AdapterHealthSummary, Grade, PASS, WARN, FAIL
<1>2. CASE Exists(fs, Health)
  <2>1. fs[Health].data \in HealthRecord
    BY <1>2 DEF WellTyped, StoreOK, Exists, Fits, Health, Manifest, RetentionLog,
                EvidenceFile, EvidenceData
  <2>2. fs[Health].data.runStatus \in {"degraded_success", "failed_run"}
    BY <1>2, <2>1 DEF NoGoAhead, Pending, Exists, HealthRecord
  <2> QED
    BY <1>2, <2>2 DEF AdapterHealthSummary, Grade, PASS, WARN, FAIL
<1> QED
  BY <1>1, <1>2

LEMMA WorseNeverImproves ==
    ASSUME NEW a \in Grades, NEW b \in Grades, a # PASS \/ b # PASS
    PROVE  Worse(a, b) # PASS
  BY DEF Worse, Grade, Grades, PASS, WARN, FAIL

LEMMA IdleNotYetPassed == NotYetPassed(Idle)
  BY DEF NotYetPassed, Idle, HealthCheck

LEMMA ProcessStep ==
    ASSUME WellTyped, NoGoAhead, NEW p \in Procs, NEW s,
           proc' = [proc EXCEPT ![p] = s], NotYetPassed(s),
           Health \in DOMAIN fs' => Pending(fs'[Health]),
           \A r \in DOMAIN runs' : runs'[r].verdict # GO
    PROVE  NoGoAhead'
<1>1. \A q \in Procs : NotYetPassed(proc'[q])
  BY DEF WellTyped, NoGoAhead
<1> QED
  BY <1>1 DEF NoGoAhead, NotYetPassed, Pending

-----------------------------------------------------------------------------
LEMMA VerdictsOfNewRun ==
    ASSUME WellTyped, NoGoAhead, NEW kind, NEW pl, NEW env, NEW o,
           runs' = Append(runs, Started(kind, pl, env, o))
    PROVE  \A r \in DOMAIN runs' : runs'[r].verdict # GO
<1>1. runs \in Seq(Run)
  BY DEF WellTyped, RunsOK
<1>2. \A r \in DOMAIN runs' : \/ r \in DOMAIN runs /\ runs'[r] = runs[r]
                              \/ runs'[r] = Started(kind, pl, env, o)
  BY <1>1
<1> QED
  BY <1>2 DEF NoGoAhead, Started, GO

LEMMA StartKeepsNoGo ==
    ASSUME WellTyped, NoGoAhead, NEW p \in Procs, Start(p)
    PROVE  NoGoAhead'
<1>1. UNCHANGED fs /\ \A r \in DOMAIN runs' : runs'[r].verdict # GO
  BY VerdictsOfNewRun
     DEF Start, StartGenerator, StartBlocked, StartGate, StartRetention, Begin
<1>2. CASE StartBlocked(p)
  BY <1>1, <1>2 DEF StartBlocked, NoGoAhead, NotYetPassed, Pending
<1>3. ASSUME NEW s, s.next = 1, ~ s.open,
             proc' = [proc EXCEPT ![p] = s], UNCHANGED fs
      PROVE  NoGoAhead'
  <2>1. NotYetPassed(s)
    BY <1>3 DEF NotYetPassed, HealthCheck
  <2> QED
    BY <1>1, <1>3, <2>1, ProcessStep DEF NoGoAhead
<1>4. CASE StartGenerator(p)
  <2>1. PICK pl : proc' = [proc EXCEPT ![p] =
                     [[Idle EXCEPT !.phase = "bundle", !.todo = Plan(pl)]
                         EXCEPT !.run = Len(runs) + 1]]
    BY <1>4 DEF StartGenerator, Begin
  <2> DEFINE s == [[Idle EXCEPT !.phase = "bundle", !.todo = Plan(pl)]
                      EXCEPT !.run = Len(runs) + 1]
  <2>2. s.next = 1 /\ ~ s.open
    BY DEF Idle
  <2> HIDE DEF s
  <2> QED
    BY <1>1, <1>3, <2>1, <2>2 DEF s
<1>5. CASE StartGate(p)
  <2> DEFINE s == [[Idle EXCEPT !.phase = "check"] EXCEPT !.run = Len(runs) + 1]
  <2>1. proc' = [proc EXCEPT ![p] = s]
    BY <1>5 DEF StartGate, Begin
  <2>2. s.next = 1 /\ ~ s.open
    BY DEF Idle
  <2> HIDE DEF s
  <2> QED
    BY <1>1, <1>3, <2>1, <2>2
<1>6. CASE StartRetention(p)
  <2>1. PICK Q : proc' = [proc EXCEPT ![p] =
                    [[Idle EXCEPT !.phase = "retain", !.second = clock, !.queue = Q]
                        EXCEPT !.run = Len(runs) + 1]]
    BY <1>6 DEF StartRetention, Begin
  <2> DEFINE s == [[Idle EXCEPT !.phase = "retain", !.second = clock, !.queue = Q]
                      EXCEPT !.run = Len(runs) + 1]
  <2>2. s.next = 1 /\ ~ s.open
    BY DEF Idle
  <2> HIDE DEF s
  <2> QED
    BY <1>1, <1>3, <2>1, <2>2 DEF s
<1> QED
  BY <1>2, <1>4, <1>5, <1>6 DEF Start

LEMMA WriteKeepsNoGo ==
    ASSUME WellTyped, NoGoAhead, NEW p \in Procs, Write(p)
    PROVE  NoGoAhead'
<1> DEFINE f == Head(proc[p].todo)
<1>1. CASE Open(p)
  <2> DEFINE c == Content(p, f)
             s == [proc[p] EXCEPT !.open = TRUE, !.draft = c]
  <2>1. /\ ~ IsIdle(p) /\ proc[p].phase \in WritingPhases /\ proc[p].todo # <<>>
        /\ proc' = [proc EXCEPT ![p] = s] /\ UNCHANGED runs
    BY <1>1 DEF Open, MayWrite, IsIdle, WritingPhases
  <2>2. PICK form : fs' = Put(fs, f, [c EXCEPT !.form = form])
    BY <1>1 DEF Open
  <2>3. DOMAIN proc[p] = DOMAIN Idle /\ TodoOK(proc[p], runs) /\ NotYetPassed(proc[p])
        /\ proc[p].todo \in Seq(File)
    BY <2>1, BusyRun DEF ProcType, NoGoAhead
  <2>4. f = Health => Pending(c) /\ DOMAIN c = {"stamp", "form", "data"}
    <3> SUFFICES ASSUME f = Health
                 PROVE  Pending(c) /\ DOMAIN c = {"stamp", "form", "data"}
      OBVIOUS
    <3>1. 1 \in DOMAIN proc[p].todo /\ proc[p].todo[1] = Health
      BY <2>1, <2>3
    <3>2. proc[p].phase \in {"bundle", "failing"}
      BY <2>1, <2>3, <3>1 DEF TodoOK, WritingPhases, Health, Manifest, RetentionLog
    <3> QED
      BY <3>2, SummaryIsPending DEF Content, BundleContent, FailureSummary, Pending
  <2> HIDE DEF c
  <2>5. NotYetPassed(s)
    BY <2>3, <2>4 DEF NotYetPassed, Idle
  <2>6. Health \in DOMAIN fs' => Pending(fs'[Health])
    <3>1. f = Health => Pending([c EXCEPT !.form = form])
      BY <2>4 DEF Pending
    <3> HIDE DEF f
    <3> QED
      BY <2>2, <3>1 DEF Put, NoGoAhead
  <2> HIDE DEF s
  <2> QED
    BY <2>1, <2>5, <2>6, ProcessStep DEF NoGoAhead
<1>2. CASE Close(p)
  <2> DEFINE s == [proc[p] EXCEPT !.open = FALSE, !.draft = NoContent, !.todo = Tail(@)]
  <2>1. /\ proc[p].open /\ proc' = [proc EXCEPT ![p] = s]
        /\ fs' = Put(fs, f, proc[p].draft)
        /\ runs' = [runs EXCEPT ![proc[p].run].sealed = @ \/ proc[p].phase = "seal"]
    BY <1>2 DEF Close
  <2>2. DOMAIN proc[p] = DOMAIN Idle /\ NotYetPassed(proc[p])
    BY DEF WellTyped, ProcOK, ProcType, NoGoAhead
  <2>3. NotYetPassed(s)
    BY <2>2 DEF NotYetPassed, Idle
  <2>4. Health \in DOMAIN fs' => Pending(fs'[Health])
    BY <2>1, <2>2 DEF Put, NotYetPassed, NoGoAhead
  <2>5. \A r \in DOMAIN runs' : runs'[r].verdict # GO
    BY <2>1 DEF WellTyped, RunsOK, Run, NoGoAhead
  <2> HIDE DEF s
  <2> QED
    BY <2>1, <2>3, <2>4, <2>5, ProcessStep
<1> QED
  BY <1>1, <1>2 DEF Write

LEMMA EvaluateKeepsNoGo ==
    ASSUME WellTyped, NoGoAhead, NEW p \in Procs, Evaluate(p)
    PROVE  NoGoAhead'
<1> DEFINE i == proc[p].next
           verdict == Check(i, fs, mtime, clock, RunOf(p).env)
<1>1. PICK fr, j :
        /\ proc' = [proc EXCEPT ![p] = [proc[p] EXCEPT
                      !.next = i + 1, !.worst = Worse(@, verdict), !.fresh = fr]]
        /\ runs' = [runs EXCEPT ![proc[p].run].judged = j]
        /\ UNCHANGED fs /\ proc[p].phase = "check" /\ i <= LastCheck
  BY DEF Evaluate
<1> DEFINE s == [proc[p] EXCEPT !.next = i + 1, !.worst = Worse(@, verdict), !.fresh = fr]
<1>2. ProcType(proc[p]) /\ TodoOK(proc[p], runs) /\ NotYetPassed(proc[p])
  BY <1>1, BusyRun DEF NoGoAhead, IsIdle
<1>3. DOMAIN proc[p] = DOMAIN Idle /\ i \in 1..LastCheck /\ ~ proc[p].open
      /\ proc[p].worst \in Grades
  BY <1>1, <1>2 DEF ProcType, TodoOK, WritingPhases, LastCheck
<1>4. verdict \in Grades
  BY <1>3, CheckIsGrade
<1>5. i = HealthCheck => verdict # PASS
  BY HealthCheckObjects
     DEF HealthCheck, Check, FreshnessCheck, IntegrityCheck, LastCheck
<1>6. i + 1 > HealthCheck => i = HealthCheck \/ i > HealthCheck
  BY <1>3 DEF HealthCheck, LastCheck
<1>7. i + 1 > HealthCheck => Worse(proc[p].worst, verdict) # PASS
  BY <1>2, <1>3, <1>4, <1>5, <1>6, WorseNeverImproves DEF NotYetPassed
<1> HIDE DEF verdict
<1>8. s.next = i + 1 /\ s.worst = Worse(proc[p].worst, verdict) /\ ~ s.open
  BY <1>3 DEF Idle
<1>9. NotYetPassed(s)
  BY <1>7, <1>8 DEF NotYetPassed
<1>10. \A r \in DOMAIN runs' : runs'[r].verdict # GO
  BY <1>1 DEF WellTyped, RunsOK, Run, NoGoAhead
<1> HIDE DEF s
<1> QED
  BY <1>1, <1>9, <1>10, ProcessStep DEF NoGoAhead, s

LEMMA EvaluatedKeepsNoGo ==
    ASSUME WellTyped, NoGoAhead, NEW p \in Procs, Evaluated(p)
    PROVE  NoGoAhead'
<1>1. PICK todo : /\ proc' = [proc EXCEPT ![p] = [proc[p] EXCEPT
                                !.phase = "report", !.second = clock, !.todo = todo]]
                  /\ runs' = [runs EXCEPT ![proc[p].run].verdict = StatusOf(proc[p].worst)]
                  /\ UNCHANGED fs /\ proc[p].phase = "check" /\ proc[p].next > LastCheck
  BY DEF Evaluated
<1> DEFINE s == [proc[p] EXCEPT !.phase = "report", !.second = clock, !.todo = todo]
<1>2. ProcType(proc[p]) /\ TodoOK(proc[p], runs) /\ NotYetPassed(proc[p])
      /\ proc[p].run \in DOMAIN runs
  BY <1>1, BusyRun DEF NoGoAhead, IsIdle
<1>3. /\ DOMAIN proc[p] = DOMAIN Idle /\ ~ proc[p].open
      /\ proc[p].worst \in Grades /\ proc[p].worst # PASS
  <2>1. DOMAIN proc[p] = DOMAIN Idle /\ proc[p].worst \in Grades /\ ~ proc[p].open
    BY <1>1, <1>2 DEF ProcType, TodoOK, WritingPhases
  <2>2. proc[p].next > LastCheck /\ proc[p].next \in Nat
    BY <1>2 DEF Evaluated, ProcType
  <2>3. proc[p].next > HealthCheck
    BY <2>2 DEF LastCheck, HealthCheck
  <2> QED
    BY <1>2, <2>1, <2>3 DEF NotYetPassed
<1>4. StatusOf(proc[p].worst) # GO
  BY <1>3 DEF StatusOf, Grades, GO, NO_GO, CONDITIONAL_GO, PASS, WARN, FAIL
<1>5. NotYetPassed(s)
  BY <1>2, <1>3 DEF NotYetPassed, Idle
<1>6. \A r \in DOMAIN runs' : runs'[r].verdict # GO
  BY <1>1, <1>4 DEF WellTyped, RunsOK, Run, NoGoAhead
<1> HIDE DEF s
<1> QED
  BY <1>1, <1>5, <1>6, ProcessStep DEF NoGoAhead, s

\* Every other step keeps the verdicts, and the verdict in the making or less.
LEMMA OtherKeepsNoGo ==
    ASSUME WellTyped, NoGoAhead, NEW p \in Procs, NEW s,
           proc' = [proc EXCEPT ![p] = s],
           \/ s.open = FALSE
           \/ /\ s.open = proc[p].open
              /\ s.todo = proc[p].todo
              /\ s.draft = proc[p].draft,
           \/ s.next = 1
           \/ s.next = proc[p].next /\ s.worst = proc[p].worst,
           Health \in DOMAIN fs' => Health \in DOMAIN fs /\ fs'[Health] = fs[Health],
           UNCHANGED runs \/ \E o : runs' = [runs EXCEPT ![proc[p].run].outcome = o]
    PROVE  NoGoAhead'
<1>1. NotYetPassed(s)
  BY DEF NotYetPassed, NoGoAhead, HealthCheck
<1>2. \A r \in DOMAIN runs' : runs'[r].verdict # GO
  <2>1. CASE UNCHANGED runs
    BY <2>1 DEF NoGoAhead
  <2>2. ASSUME NEW o, runs' = [runs EXCEPT ![proc[p].run].outcome = o]
        PROVE  \A r \in DOMAIN runs' : runs'[r].verdict # GO
    BY <2>2 DEF WellTyped, RunsOK, Run, NoGoAhead
  <2> QED
    BY <2>1, <2>2
<1> QED
  BY <1>1, <1>2, ProcessStep DEF NoGoAhead

LEMMA RestKeepsNoGo ==
    ASSUME WellTyped, NoGoAhead, NEW p \in Procs,
           Advance(p) \/ WriteFails(p) \/ Crash(p)
    PROVE  NoGoAhead'
<1>1. DOMAIN proc[p] = DOMAIN Idle
  BY DEF WellTyped, ProcOK, ProcType
<1>2. CASE Write(p)
  BY <1>2, WriteKeepsNoGo
<1>3. CASE Evaluate(p) \/ Evaluated(p)
  BY <1>3, EvaluateKeepsNoGo, EvaluatedKeepsNoGo
<1>4. CASE \/ FailureReported(p) \/ SafeguardsRefuse(p) \/ SealRefused(p)
           \/ Generated(p) \/ GateDone(p) \/ VisitGone(p) \/ Logged(p) \/ Crash(p)
  <2>1. PICK o : End(p, o) /\ UNCHANGED fs
    BY <1>4 DEF FailureReported, SafeguardsRefuse, SealRefused, Generated, GateDone,
                VisitGone, Logged, Crash
  <2>2. Idle.open = FALSE /\ Idle.next = 1
    BY DEF Idle
  <2>3. /\ proc' = [proc EXCEPT ![p] = Idle]
        /\ runs' = [runs EXCEPT ![proc[p].run].outcome = o]
    BY <2>1 DEF End
  <2> QED
    BY <2>1, <2>2, <2>3, OtherKeepsNoGo
<1>5. CASE EventRejected(p) \/ WriteFails(p)
  <2> DEFINE s == [proc[p] EXCEPT !.phase = "failing", !.todo = <<Health>>,
                                  !.open = FALSE, !.draft = NoContent]
  <2>1. proc' = [proc EXCEPT ![p] = s] /\ UNCHANGED runs
    BY <1>5 DEF EventRejected, WriteFails, Fail
  <2>2. Health \in DOMAIN fs' => Health \in DOMAIN fs /\ fs'[Health] = fs[Health]
    BY <1>5 DEF EventRejected, WriteFails, Put, Health, Audit
  <2>3. s.open = FALSE /\ s.next = proc[p].next /\ s.worst = proc[p].worst
    BY <1>1 DEF Idle
  <2> HIDE DEF s
  <2> QED
    BY <2>1, <2>2, <2>3, OtherKeepsNoGo
<1>6. CASE BundleWritten(p) \/ SafeguardsAllow(p) \/ GateAgain(p) \/ Retained(p)
  <2>1. UNCHANGED <<fs, runs>>
    BY <1>6 DEF BundleWritten, SafeguardsAllow, GateAgain, Retained
  <2>2. proc[p].open = FALSE
    <3>1. ~ IsIdle(p)
      BY <1>6 DEF BundleWritten, SafeguardsAllow, GateAgain, Retained, IsIdle,
                  Reported, Sealed
    <3>2. ProcType(proc[p]) /\ TodoOK(proc[p], runs)
      BY <3>1, BusyRun
    <3> QED
      BY <1>6, <3>2 DEF BundleWritten, SafeguardsAllow, GateAgain, Retained,
                        Reported, Sealed, ProcType, TodoOK, WritingPhases
  <2>3. CASE BundleWritten(p)
    <3> DEFINE s == [proc[p] EXCEPT !.phase = "check", !.embedded = TRUE]
    <3>1. proc' = [proc EXCEPT ![p] = s]
      BY <2>3 DEF BundleWritten
    <3>2. s.open = FALSE /\ s.next = proc[p].next /\ s.worst = proc[p].worst
      BY <1>1, <2>2 DEF Idle
    <3> HIDE DEF s
    <3> QED
      BY <2>1, <3>1, <3>2, OtherKeepsNoGo
  <2>4. CASE SafeguardsAllow(p)
    <3> DEFINE s == [proc[p] EXCEPT !.phase = "seal", !.todo = <<Manifest>>]
    <3>1. proc' = [proc EXCEPT ![p] = s]
      BY <2>4 DEF SafeguardsAllow
    <3>2. s.open = FALSE /\ s.next = proc[p].next /\ s.worst = proc[p].worst
      BY <1>1, <2>2 DEF Idle
    <3> HIDE DEF s
    <3> QED
      BY <2>1, <3>1, <3>2, OtherKeepsNoGo
  <2>5. CASE GateAgain(p)
    <3> DEFINE s == [Idle EXCEPT !.phase = "check", !.run = proc[p].run]
    <3>1. proc' = [proc EXCEPT ![p] = s]
      BY <2>5 DEF GateAgain
    <3>2. s.open = FALSE /\ s.next = 1
      BY DEF Idle
    <3> HIDE DEF s
    <3> QED
      BY <2>1, <3>1, <3>2, OtherKeepsNoGo
  <2>6. CASE Retained(p)
    <3> DEFINE s == [proc[p] EXCEPT !.phase = "log", !.todo = <<RetentionLog>>]
    <3>1. proc' = [proc EXCEPT ![p] = s]
      BY <2>6 DEF Retained
    <3>2. s.open = FALSE /\ s.next = proc[p].next /\ s.worst = proc[p].worst
      BY <1>1, <2>2 DEF Idle
    <3> HIDE DEF s
    <3> QED
      BY <2>1, <3>1, <3>2, OtherKeepsNoGo
  <2> QED
    BY <1>6, <2>3, <2>4, <2>5, <2>6
<1>7. CASE Skip(p) \/ Delete(p)
  <2>1. PICK f : /\ proc' = [proc EXCEPT ![p] = [proc[p] EXCEPT !.queue = @ \ {f}]]
                 /\ UNCHANGED runs
                 /\ UNCHANGED fs \/ fs' = Unlink(fs, f)
    BY <1>7 DEF Skip, Delete
  <2> DEFINE s == [proc[p] EXCEPT !.queue = @ \ {f}]
  <2>2. /\ s.open = proc[p].open /\ s.todo = proc[p].todo /\ s.draft = proc[p].draft
        /\ s.next = proc[p].next /\ s.worst = proc[p].worst
    BY <1>1 DEF Idle
  <2>3. Health \in DOMAIN fs' => Health \in DOMAIN fs /\ fs'[Health] = fs[Health]
    BY <2>1 DEF Unlink
  <2> HIDE DEF s
  <2> QED
    BY <2>1, <2>2, <2>3, OtherKeepsNoGo DEF s
<1> QED
  BY <1>2, <1>3, <1>4, <1>5, <1>6, <1>7 DEF Advance

-----------------------------------------------------------------------------
LEMMA NoGoInit == Init => NoGoAhead
<1> SUFFICES ASSUME Init PROVE NoGoAhead
  OBVIOUS
<1>1. \A p \in Procs : NotYetPassed(proc[p])
  BY IdleNotYetPassed DEF Init
<1> QED
  BY <1>1 DEF Init, NoGoAhead

LEMMA NoGoStep == WellTyped /\ NoGoAhead /\ [Next]_vars => NoGoAhead'
<1> SUFFICES ASSUME WellTyped, NoGoAhead, [Next]_vars PROVE NoGoAhead'
  OBVIOUS
<1>1. CASE UNCHANGED <<fs, runs, proc>>
  BY <1>1 DEF NoGoAhead, NotYetPassed, Pending
<1> QED
  BY <1>1, StartKeepsNoGo, RestKeepsNoGo DEF Next, Tick, vars

\* Whatever the evidence and however the commands interleave, crash or clean
\* up, the best that run_launch_gate can answer is conditional_go, and no
\* health summary says success.
THEOREM GoNeverReached == Spec => []GoIsUnreachable
<1>1. NoGoAhead => GoIsUnreachable
  BY DEF NoGoAhead, GoIsUnreachable, Pending, Readable, Exists
<1> QED
  BY AlwaysWellTyped, NoGoInit, NoGoStep, <1>1, PTL DEF Spec

-----------------------------------------------------------------------------
(***************************************************************************)
(* What a manifest certifies and what a passing verdict stands for, while  *)
(* generating commands run alone.                                          *)
(***************************************************************************)
NoGoReport == [status |-> NO_GO, embedded |-> TRUE]

IsReport(f) == f[1] \in {"gate_json", "gate_md"}

CertifiesNoGo(c) ==
    LET entries == c.data.entries
    IN  /\ \E f \in DOMAIN entries : f[1] = "gate_json" /\ entries[f].data = NoGoReport
        /\ \A f \in DOMAIN entries : IsReport(f) => entries[f].data.embedded
        /\ RetentionLog \notin DOMAIN entries

Objected(store, second) ==
    GateJson(second) \in DOMAIN store /\ store[GateJson(second)].data = NoGoReport

\* The gate inside generate_artifacts runs over files of its own run and a
\* manifest of another, or none: the integrity check fails it.
Reporting(s, store) ==
    /\ s.embedded /\ s.next > IntegrityCheck => s.worst = FAIL
    /\ s.phase \in {"report", "seal"} => s.next > LastCheck
    /\ s.open /\ s.phase = "report" =>
          s.draft.data = [status |-> StatusOf(s.worst), embedded |-> s.embedded]
    /\ s.embedded /\ s.phase = "report" =>
          Has(s.todo, GateJson(s.second)) \/ Objected(store, s.second)
    /\ s.phase = "seal" => Objected(store, s.second)
    /\ s.open /\ s.phase = "seal" => CertifiesNoGo(s.draft)

\* The manifest is the one of run r, and what the gate reads is what r wrote.
Stands(r, store, rs) ==
    /\ ManifestParses(store) /\ store[Manifest].stamp = r
    /\ \A f \in RequiredPaths \cup {EvalRows(rs[r].payload.mode)} : Holds(store, f, r, rs)

\* What the checks made so far have seen, if none of them failed.
Seen(s, x, store, rs) ==
    /\ s.next > 1  => Exists(store, Connectors) /\ store[Connectors].data.connectors
    /\ s.next > 2  => Exists(store, Tools) /\ store[Tools].data.tools # "empty"
    /\ s.next > 4  => Exists(store, Audit)
                      /\ store[Audit].data.events \notin {"none", "incomplete"}
    /\ s.next > 10 => Exists(store, Audit) /\ store[Audit].data.identityGap <= 50
    /\ s.next > 11 => Exists(store, Audit) /\ store[Audit].data.criticalGap <= 20
    /\ s.next > IntegrityCheck => Stands(x.judged, store, rs)
    /\ s.next > LastCheck => rs[x.judged].payload.evals # "failing"

Judging(s, x, store, rs) ==
    /\ s.phase = "check" /\ ~ s.embedded /\ s.worst # FAIL => Seen(s, x, store, rs)
    /\ x.verdict \in {GO, CONDITIONAL_GO} => s.phase = "report" /\ ~ s.embedded

\* The contract is the first file of a run that is written.
ContractFirst(s, x, store) ==
    s.phase = "bundle" =>
        \/ s.todo = Plan(x.payload)
        \/ Contract \in DOMAIN store /\ store[Contract].stamp = s.run

NewestManifest(store, rs) ==
    ManifestParses(store) =>
        \A r \in DOMAIN rs : rs[r].sealed => r <= store[Manifest].stamp

Earned(r, rs) ==
    /\ r \in DOMAIN rs
    /\ rs[r].sealed
    /\ rs[r].payload.connectors
    /\ rs[r].payload.tools # "empty"
    /\ rs[r].payload.events = "complete"
    /\ rs[r].payload.evals # "failing"
    /\ rs[r].payload.identityGap <= 50
    /\ rs[r].payload.criticalGap <= 20
    /\ rs[r].env.compat # Blocked

Judged ==
    /\ \A p \in Procs : ~ IsIdle(p) =>
          /\ Reporting(proc[p], fs)
          /\ Judging(proc[p], RunOf(p), fs, runs)
          /\ ContractFirst(proc[p], RunOf(p), fs)
    /\ ManifestParses(fs) => CertifiesNoGo(fs[Manifest])
    /\ NewestManifest(fs, runs)
    /\ \A r \in DOMAIN runs : Passed(r) => Earned(runs[r].judged, runs)

Lawful == WellTyped /\ Assigned /\ Safe /\ Sound

-----------------------------------------------------------------------------
(***************************************************************************)
(* What a gate relies on stays while it runs.                              *)
(***************************************************************************)
\* Neither a gate nor a retention touches what the gate reads of a bundle.
LEMMA BundleUntouched ==
    ASSUME Lawful, NEW p \in Procs, NEW b, NEW y, Step(p, b, y),
           proc[p].phase \notin {"bundle", "failing"},
           NEW f, \/ f \in RequiredPaths
                  \/ f \in ManifestPaths(fs) /\ f[1] = "eval_rows"
                  \/ f = Manifest /\ proc[p].phase # "seal"
    PROVE  /\ Exists(fs', f) <=> Exists(fs, f)
           /\ Exists(fs, f) => fs'[f] = fs[f]
<1>1. ~ IsIdle(p) /\ Tracked(proc[p], RunOf(p), fs)
  BY DEF Step, Lawful, Sound
<1>2. f \in Kept(fs)
  BY DEF Kept, RequiredProtected
<1>3. /\ f # RetentionLog /\ f[1] \notin {"gate_json", "gate_md"}
      /\ f = Manifest => proc[p].phase # "seal"
  BY DEF RequiredPaths, Contract, Audit, Connectors, Tools, McpServers, Evals, Health,
         Manifest, RetentionLog
<1>4. CASE UNCHANGED fs
  BY <1>4
<1>5. CASE proc[p].phase = "retain"
  <2>1. f \notin Touches(p)
    BY <1>1, <1>2, <1>5 DEF Touches, Tracked
  <2> QED
    BY <2>1, Elsewhere DEF Exists
<1>6. CASE proc[p].phase \in {"report", "seal", "log"}
  <2>1. f \notin Touches(p)
    BY <1>1, <1>3, <1>6, NextOfPhase DEF Touches, Lawful
  <2> QED
    BY <2>1, Elsewhere DEF Exists
<1>7. UNCHANGED fs \/ proc[p].phase \in {"retain", "report", "seal", "log"}
  BY DEF Step, Shape, Opening, Closing, Ending, Failing, Handing, Checking, Concluding,
         Allowing, Regating, Retaining, Logging, MayWrite, WritingPhases
<1> QED
  BY <1>4, <1>5, <1>6, <1>7

\* A manifest that parses is of a sealed run, whose files it lists.
LEMMA ManifestRun ==
    ASSUME Lawful, ManifestParses(fs)
    PROVE  /\ Owner \in DOMAIN runs /\ runs[Owner].sealed /\ Sealable(runs[Owner])
           /\ runs[Owner].payload \in Payloads
           /\ Certifies(fs[Manifest], Owner, runs)
           /\ RequiredPaths \cup {EvalRows(runs[Owner].payload.mode)} \subseteq ManifestPaths(fs)
<1>1. Owner \in DOMAIN runs /\ runs[Owner].sealed /\ Certifies(fs[Manifest], Owner, runs)
  BY DEF Lawful, Safe, ManifestGood, Owner
<1>2. Sealable(runs[Owner]) /\ runs[Owner].payload \in Payloads
  BY <1>1 DEF Lawful, Assigned, Sealable, WellTyped, RunsOK
<1> QED
  BY <1>1, <1>2, RequiredInPlan DEF Certifies, ManifestPaths, Entries

\* A bundle that verifies is there as its run wrote it.
LEMMA ConsistentStands ==
    ASSUME Lawful, HashesConsistent(fs)
    PROVE  Stands(Owner, fs, runs) /\ fs[Contract].stamp = Owner
<1>1. /\ ManifestParses(fs)
      /\ \A f \in DOMAIN Entries(fs) : f \in DOMAIN fs /\ fs[f] = Entries(fs)[f]
  BY HashesMeaning
<1>2. \A f \in RequiredPaths \cup {EvalRows(runs[Owner].payload.mode)} :
          Holds(fs, f, Owner, runs)
  BY <1>1, ManifestRun, RequiredInPlan
     DEF Certifies, Holds, Exists, Entries, ManifestPaths
<1>3. fs[Contract] = BundleContent(Contract, Owner, runs[Owner].payload, runs[Owner].env)
  BY <1>2 DEF RequiredPaths, Holds
<1>4. fs[Contract].stamp = Owner
  BY <1>3 DEF BundleContent, HasStamp
<1> QED
  BY <1>1, <1>2, <1>4 DEF Stands, Owner

LEMMA StandsKept ==
    ASSUME Lawful, NEW p \in Procs, NEW b, NEW y, Step(p, b, y),
           proc[p].phase \notin {"bundle", "failing", "seal"},
           NEW r, Stands(r, fs, runs)
    PROVE  Stands(r, fs', runs') /\ runs'[r].payload = runs[r].payload
<1>1. ManifestParses(fs) /\ r = Owner
  BY DEF Stands, Owner
<1>2. r \in DOMAIN runs
  BY <1>1, ManifestRun
<1>3. runs'[r].payload = runs[r].payload /\ runs'[r].env = runs[r].env
  BY <1>2 DEF Step, SameRun, RunOf
<1>4. ManifestParses(fs') /\ fs'[Manifest].stamp = r
  BY <1>1, BundleUntouched DEF ManifestParses, Readable, Owner
<1>5. \A f \in RequiredPaths \cup {EvalRows(runs[r].payload.mode)} :
          Exists(fs, f) => Exists(fs', f) /\ fs'[f] = fs[f]
  <2>1. EvalRows(runs[r].payload.mode) \in ManifestPaths(fs)
    BY <1>1, ManifestRun
  <2> QED
    BY <2>1, BundleUntouched DEF EvalRows
<1> QED
  BY <1>3, <1>4, <1>5 DEF Stands, Holds

-----------------------------------------------------------------------------
(***************************************************************************)
(* What the checks that do not fail have seen.                             *)
(***************************************************************************)
LEMMA GradeNotFail ==
    ASSUME NEW fails, NEW warns, Grade(fails, warns) # FAIL
    PROVE  ~ fails
  BY DEF Grade

LEMMA WorseNotFail ==
    ASSUME NEW a \in Grades, NEW c \in Grades, Worse(a, c) # FAIL
    PROVE  a # FAIL /\ c # FAIL
  BY DEF Worse, Grade

LEMMA InventoryChecks ==
    ASSUME NEW store, NEW m, NEW now, NEW env
    PROVE  /\ Check(1, store, m, now, env) # FAIL =>
                  Exists(store, Connectors) /\ store[Connectors].data.connectors
           /\ Check(2, store, m, now, env) # FAIL =>
                  Exists(store, Tools) /\ store[Tools].data.tools # "empty"
<1>1. /\ Check(1, store, m, now, env) = ConnectorInventoryPresent(store)
      /\ Check(2, store, m, now, env) = ToolInventoryClassified(store)
  BY DEF Check, FreshnessCheck, IntegrityCheck, LastCheck
<1>2. ConnectorInventoryPresent(store) # FAIL =>
          Readable(store, Connectors) /\ store[Connectors].data.connectors
  BY GradeNotFail, Zenon DEF ConnectorInventoryPresent
<1>3. ToolInventoryClassified(store) # FAIL =>
          Readable(store, Tools) /\ store[Tools].data.tools # "empty"
  BY GradeNotFail, Zenon DEF ToolInventoryClassified
<1> QED
  BY <1>1, <1>2, <1>3 DEF Readable

LEMMA AuditChecks ==
    ASSUME NEW store, NEW m, NEW now, NEW env,
           Exists(store, Audit) => store[Audit].data \in Payload
    PROVE  /\ Check(4, store, m, now, env) # FAIL =>
                  Exists(store, Audit) /\ store[Audit].data.events \notin {"none", "incomplete"}
           /\ Check(10, store, m, now, env) # FAIL =>
                  Exists(store, Audit) /\ store[Audit].data.identityGap <= 50
           /\ Check(11, store, m, now, env) # FAIL =>
                  Exists(store, Audit) /\ store[Audit].data.criticalGap <= 20
<1>1. ASSUME NEW pl \in Payload
      PROVE  pl.identityGap \in Int /\ pl.criticalGap \in Int
  <2>1. pl.identityGap \in Percent /\ pl.criticalGap \in Percent
    BY DEF Payload
  <2> QED
    BY <2>1 DEF Percent
<1>2. Check(4, store, m, now, env) = RequiredAuditEventsPresent(store)
  BY DEF Check, FreshnessCheck, IntegrityCheck, LastCheck
<1>3. Check(10, store, m, now, env) = IdentityAuthzEvidencePresence(store)
  BY DEF Check, FreshnessCheck, IntegrityCheck, LastCheck
<1>4. Check(11, store, m, now, env) = IdentityAuthzProvenanceQuality(store)
  BY DEF Check, FreshnessCheck, IntegrityCheck, LastCheck
<1>5. RequiredAuditEventsPresent(store) # FAIL =>
          Exists(store, Audit) /\ store[Audit].data.events \notin {"none", "incomplete"}
  BY GradeNotFail DEF RequiredAuditEventsPresent, Readable
<1>6. IdentityAuthzEvidencePresence(store) # FAIL =>
          Exists(store, Audit) /\ store[Audit].data.identityGap <= 50
  <2>1. IdentityAuthzEvidencePresence(store) # FAIL =>
            HasAuditRows(store) /\ ~ store[Audit].data.identityGap > 50
    BY GradeNotFail, Zenon DEF IdentityAuthzEvidencePresence
  <2> QED
    BY <1>1, <2>1 DEF HasAuditRows, Readable
<1>7. IdentityAuthzProvenanceQuality(store) # FAIL =>
          Exists(store, Audit) /\ store[Audit].data.criticalGap <= 20
  <2>1. IdentityAuthzProvenanceQuality(store) # FAIL =>
            HasAuditRows(store) /\ ~ store[Audit].data.criticalGap > 20
    BY GradeNotFail, Zenon DEF IdentityAuthzProvenanceQuality
  <2> QED
    BY <1>1, <2>1 DEF HasAuditRows, Readable
<1> QED
  BY <1>2, <1>3, <1>4, <1>5, <1>6, <1>7

LEMMA IntegrityVerdict ==
    ASSUME NEW m, NEW now, NEW env, Check(IntegrityCheck, fs, m, now, env) # FAIL
    PROVE  HashesConsistent(fs) /\ Check(IntegrityCheck, fs, m, now, env) = PASS
<1>1. Check(IntegrityCheck, fs, m, now, env) = ArtifactIntegrityManifest(fs, env)
  BY DEF Check, FreshnessCheck, IntegrityCheck, LastCheck
<1>2. VerifyOk(fs, env.mode, env.key)
  BY <1>1, GradeNotFail DEF ArtifactIntegrityManifest
<1> QED
  BY <1>1, <1>2 DEF ArtifactIntegrityManifest, Grade, VerifyOk

LEMMA EvaluationVerdict ==
    ASSUME NEW m, NEW now, NEW env, Check(LastCheck, fs, m, now, env) # FAIL,
           NEW r, Stands(r, fs, runs)
    PROVE  runs[r].payload.evals # "failing"
<1> DEFINE f == EvalRows(runs[r].payload.mode)
<1>1. Check(LastCheck, fs, m, now, env) = CriticalFailuresOrBlockers(fs)
  BY DEF Check, FreshnessCheck, IntegrityCheck, LastCheck
<1>2. \A g \in EvalRowFiles(fs) : ~ ShowsFailure(fs, g)
  BY <1>1, GradeNotFail DEF CriticalFailuresOrBlockers
<1>3. f \in DOMAIN fs /\ fs[f] = BundleContent(f, r, runs[r].payload, runs[r].env)
  BY DEF Stands, Holds, Exists
<1>4. f \in EvalRowFiles(fs) /\ f # Health
  BY <1>3 DEF EvalRowFiles, Glob, EvalRows, Health
<1>5. fs[f].form = "whole" /\ fs[f].data = runs[r].payload
  BY <1>3, <1>4 DEF BundleContent
<1> QED
  BY <1>2, <1>4, <1>5 DEF ShowsFailure

\* The gate of generate_artifacts itself meets the manifest of another run.
LEMMA EmbeddedGateFails ==
    ASSUME Lawful, NEW p \in Procs, ~ IsIdle(p), proc[p].embedded,
           proc[p].phase = "check", NEW m, NEW now, NEW env
    PROVE  Check(IntegrityCheck, fs, m, now, env) = FAIL
<1>1. SUFFICES ASSUME HashesConsistent(fs)
               PROVE  FALSE
  BY IntegrityVerdict
<1>2. Holds(fs, Contract, proc[p].run, runs)
  BY BundleInPlace DEF Lawful, RequiredPaths
<1>3. fs[Contract].stamp = proc[p].run
  BY <1>2 DEF Holds, BundleContent, HasStamp
<1>4. proc[p].run = Owner /\ ManifestParses(fs)
  BY <1>1, <1>3, ConsistentStands DEF Stands
<1>5. RunOf(p).sealed
  BY <1>4, ManifestRun DEF RunOf
<1> QED
  BY <1>5 DEF Lawful, Assigned, Working

\* One more check of a gate that has not failed yet.
LEMMA SeenStep ==
    ASSUME Lawful, NEW p \in Procs, NEW b, NEW y, Step(p, b, y), Checking(p, b, y),
           b.worst # FAIL,
           proc[p].worst # FAIL => Seen(proc[p], RunOf(p), fs, runs)
    PROVE  Seen(b, y, fs', runs')
<1> DEFINE s == proc[p]
           x == RunOf(p)
           i == proc[p].next
           verdict == Check(i, fs, mtime, clock, RunOf(p).env)
           j == y.judged
<1>1. /\ s.phase = "check" /\ i \in 1..LastCheck /\ UNCHANGED fs /\ b.next = i + 1
      /\ b.worst = Worse(s.worst, verdict)
      /\ j = IF i = IntegrityCheck /\ verdict = PASS THEN Owner ELSE x.judged
  BY DEF Checking, Owner
<1>2. s.worst \in Grades /\ verdict \in Grades
  BY <1>1, CheckIsGrade, OpenHasDraft DEF Lawful, ProcType
<1>3. s.worst # FAIL /\ verdict # FAIL
  BY <1>1, <1>2, WorseNotFail
<1>4. Seen(s, x, fs, runs)
  BY <1>3
<1>5. Exists(fs, Audit) => fs[Audit].data \in Payload
  BY PipelineAssumption
     DEF Lawful, WellTyped, StoreOK, Exists, Fits, EvidenceFile, EvidenceData, Audit,
         Manifest, Health, RetentionLog
<1> DEFINE V(k) == Check(k, fs, mtime, clock, RunOf(p).env)
<1>6. i \in 1..19 /\ verdict = V(i)
  BY <1>1 DEF LastCheck
<1> HIDE DEF verdict, V
<1>7. i >= 1  => Exists(fs, Connectors) /\ fs[Connectors].data.connectors
  <2>1. i = 1 => Exists(fs, Connectors) /\ fs[Connectors].data.connectors
    BY <1>3, <1>6, InventoryChecks DEF V
  <2> QED
    BY <1>4, <1>6, <2>1 DEF Seen
<1>8. i >= 2  => Exists(fs, Tools) /\ fs[Tools].data.tools # "empty"
  <2>1. i = 2 => Exists(fs, Tools) /\ fs[Tools].data.tools # "empty"
    BY <1>3, <1>6, InventoryChecks DEF V
  <2> QED
    BY <1>4, <1>6, <2>1 DEF Seen
<1>9. /\ i = 4 => Exists(fs, Audit) /\ fs[Audit].data.events \notin {"none", "incomplete"}
      /\ i = 10 => Exists(fs, Audit) /\ fs[Audit].data.identityGap <= 50
      /\ i = 11 => Exists(fs, Audit) /\ fs[Audit].data.criticalGap <= 20
  BY <1>3, <1>5, <1>6, AuditChecks DEF V
<1>10. i >= 4  => Exists(fs, Audit) /\ fs[Audit].data.events \notin {"none", "incomplete"}
  BY <1>4, <1>6, <1>9 DEF Seen
<1>11. i >= 10 => Exists(fs, Audit) /\ fs[Audit].data.identityGap <= 50
  BY <1>4, <1>6, <1>9 DEF Seen
<1>12. i >= 11 => Exists(fs, Audit) /\ fs[Audit].data.criticalGap <= 20
  BY <1>4, <1>6, <1>9 DEF Seen
<1>13. i >= IntegrityCheck => Stands(j, fs, runs)
  <2>1. CASE i = IntegrityCheck
    <3>1. verdict = PASS /\ Stands(Owner, fs, runs)
      BY <1>3, <2>1, IntegrityVerdict, ConsistentStands DEF verdict
    <3> QED
      BY <1>1, <2>1, <3>1
  <2>2. CASE i > IntegrityCheck
    <3>1. j = x.judged
      BY <1>1, <2>2 DEF IntegrityCheck
    <3> QED
      BY <1>4, <2>2, <3>1 DEF Seen
  <2> QED
    BY <1>6, <2>1, <2>2 DEF IntegrityCheck
<1>14. i >= LastCheck => runs[j].payload.evals # "failing"
  <2> SUFFICES ASSUME i >= LastCheck
               PROVE  runs[j].payload.evals # "failing"
    OBVIOUS
  <2>1. i = LastCheck /\ Stands(j, fs, runs)
    BY <1>1, <1>13 DEF LastCheck, IntegrityCheck
  <2> QED
    BY <1>3, <2>1, EvaluationVerdict DEF verdict
<1>15. i >= IntegrityCheck =>
           Stands(j, fs', runs') /\ runs'[j].payload = runs[j].payload
  BY <1>1, <1>13, StandsKept
<1> HIDE DEF i, j
<1> QED
  BY <1>1, <1>6, <1>7, <1>8, <1>10, <1>11, <1>12, <1>14, <1>15
     DEF Seen, LastCheck, IntegrityCheck, j

\* A gate that a step of another command interrupts has still seen it all.
LEMMA SeenKept ==
    ASSUME Lawful, NEW p \in Procs, NEW b, NEW y, Step(p, b, y),
           proc[p].phase \notin {"bundle", "failing", "seal"},
           NEW s, NEW x, Seen(s, x, fs, runs), s.next \in Nat
    PROVE  Seen(s, x, fs', runs')
<1>1. \A f \in {Connectors, Tools, Audit} :
          Exists(fs, f) => Exists(fs', f) /\ fs'[f] = fs[f]
  BY BundleUntouched DEF RequiredPaths
<1>2. s.next > IntegrityCheck =>
          Stands(x.judged, fs', runs') /\ runs'[x.judged].payload = runs[x.judged].payload
  BY StandsKept DEF Seen
<1>3. s.next > LastCheck => s.next > IntegrityCheck
  BY DEF LastCheck, IntegrityCheck
<1> QED
  BY <1>1, <1>2, <1>3 DEF Seen

\* The verdict of a gate that has made all its checks and failed none.
LEMMA SeenIsEarned ==
    ASSUME Lawful, NEW s, NEW x, Seen(s, x, fs, runs),
           s.next \in Nat, s.next > LastCheck
    PROVE  Earned(x.judged, runs)
<1> DEFINE r == x.judged
           pl == runs[r].payload
<1>1. Stands(r, fs, runs) /\ pl.evals # "failing"
  BY DEF Seen, LastCheck, IntegrityCheck
<1>2. r = Owner /\ ManifestParses(fs)
  BY <1>1 DEF Stands, Owner
<1>3. /\ r \in DOMAIN runs /\ runs[r].sealed /\ Sealable(runs[r])
      /\ pl \in Payload
  BY <1>2, ManifestRun, PipelineAssumption
<1>4. \A f \in {Connectors, Tools, Audit} : fs[f].data = pl
  BY <1>1 DEF Stands, Holds, BundleContent, RequiredPaths, Connectors, Tools, Audit, Health
<1>5. /\ fs[Connectors].data.connectors
      /\ fs[Tools].data.tools # "empty"
      /\ fs[Audit].data.events \notin {"none", "incomplete"}
      /\ fs[Audit].data.identityGap <= 50
      /\ fs[Audit].data.criticalGap <= 20
  BY DEF Seen, LastCheck
<1>6. pl.events \in {"none", "incomplete", "complete", "unsupported"}
  BY <1>3 DEF Payload
<1>7. pl.events # "unsupported" /\ runs[r].env.compat # Blocked
  BY <1>3 DEF Sealable, Writable
<1> QED
  BY <1>1, <1>3, <1>4, <1>5, <1>6, <1>7 DEF Earned

LEMMA EarnedKept ==
    ASSUME Lawful, NEW p \in Procs, NEW b, NEW y, Step(p, b, y), NEW r, Earned(r, runs)
    PROVE  Earned(r, runs')
<1>1. RunOf(p).sealed => y.sealed
  BY DEF Step, Shape, Opening, Closing, Ending, Failing, Handing, Checking, Concluding,
         Allowing, Regating, Retaining, Logging
<1>2. /\ r \in DOMAIN runs' /\ SameRun(runs[r], runs'[r])
      /\ runs[r].sealed => runs'[r].sealed
  BY <1>1 DEF Step, RunOf, SameRun, Earned
<1> QED
  BY <1>2 DEF Earned, SameRun

\* What a step of p leaves to prove: the part of p, of its run, of the manifest.
LEMMA JudgedFrame ==
    ASSUME Lawful, Judged, NEW p \in Procs, NEW b, NEW y, Step(p, b, y),
           b.phase # "idle" => /\ b.run = proc[p].run
                               /\ Reporting(b, fs')
                               /\ Judging(b, y, fs', runs')
                               /\ ContractFirst(b, y, fs'),
           ManifestParses(fs') => CertifiesNoGo(fs'[Manifest]),
           NewestManifest(fs', runs'),
           y.verdict \in {GO, CONDITIONAL_GO} => Earned(y.judged, runs')
    PROVE  Judged'
<1>1. /\ DOMAIN proc = Procs /\ ~ IsIdle(p) /\ proc[p].run \in DOMAIN runs
      /\ DOMAIN runs' = DOMAIN runs
      /\ proc'[p] = b /\ runs'[proc[p].run] = y
      /\ \A q \in Procs : q # p => proc'[q] = proc[q]
      /\ \A r \in DOMAIN runs : r # proc[p].run => runs'[r] = runs[r]
  BY DEF Lawful, WellTyped, Step
<1>2. ASSUME NEW q \in Procs, q # p, ~ IsIdle(q)
      PROVE  /\ Reporting(proc[q], fs')
             /\ Judging(proc[q], runs[proc[q].run], fs', runs')
             /\ ContractFirst(proc[q], runs[proc[q].run], fs')
             /\ runs'[proc[q].run] = runs[proc[q].run]
  <2>1. RunOf(q).kind \notin Generators /\ RunOf(p).kind \notin Generators
    BY <1>1, <1>2 DEF Lawful, Safe, Exclusion
  <2>2. /\ TodoOK(proc[p], runs) /\ TodoOK(proc[q], runs)
        /\ proc[q].next \in Nat /\ proc[q].run \in DOMAIN runs
    BY <1>2, OpenHasDraft, BusyRun DEF ProcType, Lawful
  <2>3. /\ proc[p].phase \notin {"bundle", "failing", "seal"}
        /\ proc[q].phase \notin {"bundle", "failing", "seal"}
        /\ ~ proc[q].embedded
    BY <2>1, <2>2 DEF TodoOK, HasPayload, RunOf
  <2>4. /\ Reporting(proc[q], fs) /\ Judging(proc[q], runs[proc[q].run], fs, runs)
    BY <1>2 DEF Judged, RunOf
  <2>5. Reporting(proc[q], fs') /\ ContractFirst(proc[q], runs[proc[q].run], fs')
    BY <2>3, <2>4 DEF Reporting, ContractFirst
  <2>6. Judging(proc[q], runs[proc[q].run], fs', runs')
    BY <2>2, <2>3, <2>4, SeenKept DEF Judging
  <2>7. runs'[proc[q].run] = runs[proc[q].run]
    BY <1>1, <1>2, <2>2 DEF Lawful, Assigned
  <2> QED
    BY <2>5, <2>6, <2>7
<1>3. ASSUME NEW q \in Procs, ~ IsIdle(q)'
      PROVE  (/\ Reporting(proc[q], fs)
              /\ Judging(proc[q], RunOf(q), fs, runs)
              /\ ContractFirst(proc[q], RunOf(q), fs))'
  <2>1. CASE q = p
    BY <1>1, <1>3, <2>1 DEF IsIdle, RunOf
  <2>2. CASE q # p
    BY <1>1, <1>2, <1>3, <2>2 DEF IsIdle, RunOf
  <2> QED
    BY <2>1, <2>2
<1>4. \A r \in DOMAIN runs' : Passed(r)' => Earned(runs'[r].judged, runs')
  <2> SUFFICES ASSUME NEW r \in DOMAIN runs, Passed(r)'
               PROVE  Earned(runs'[r].judged, runs')
    BY <1>1
  <2>1. CASE r = proc[p].run
    BY <1>1, <2>1 DEF Passed
  <2>2. CASE r # proc[p].run
    BY <1>1, <2>2, EarnedKept DEF Passed, Judged
  <2> QED
    BY <2>1, <2>2
<1> QED
  BY <1>3, <1>4 DEF Judged

-----------------------------------------------------------------------------
(***************************************************************************)
(* Judged is kept.                                                         *)
(***************************************************************************)
LEMMA CertifiedKept ==
    ASSUME Lawful, Judged, NEW p \in Procs, NEW b, NEW y, Step(p, b, y),
           y.sealed = RunOf(p).sealed,
           proc[p].phase # "seal" \/ UNCHANGED fs
    PROVE  /\ ManifestParses(fs') => CertifiesNoGo(fs'[Manifest])
           /\ NewestManifest(fs', runs')
<1>1. Exists(fs', Manifest) => Exists(fs, Manifest) /\ fs'[Manifest] = fs[Manifest]
  BY ManifestStays DEF Lawful
<1>2. ManifestParses(fs') => ManifestParses(fs) /\ fs'[Manifest] = fs[Manifest]
  BY <1>1 DEF ManifestParses, Readable
<1>3. \A r \in DOMAIN runs' : r \in DOMAIN runs /\ runs'[r].sealed = runs[r].sealed
  BY DEF Step, RunOf
<1> QED
  BY <1>2, <1>3 DEF Judged, NewestManifest

\* A step that leaves the verdict and what it stands for.
LEMMA VerdictKept ==
    ASSUME Lawful, Judged, NEW p \in Procs, NEW b, NEW y, Step(p, b, y),
           y.verdict = RunOf(p).verdict, y.judged = RunOf(p).judged
    PROVE  y.verdict \in {GO, CONDITIONAL_GO} => Earned(y.judged, runs')
<1>1. RunOf(p).verdict \in {GO, CONDITIONAL_GO} => Earned(RunOf(p).judged, runs)
  BY DEF Judged, Passed, Step, RunOf
<1> QED
  BY <1>1, EarnedKept

LEMMA OpeningJudged ==
    ASSUME Lawful, Judged, NEW p \in Procs, NEW b, NEW y, Step(p, b, y), Opening(p, b, y)
    PROVE  Judged'
<1> DEFINE f == Head(proc[p].todo)
           c == Content(p, f)
           s == proc[p]
           x == RunOf(p)
<1>1. /\ ~ IsIdle(p) /\ s.phase \in WritingPhases /\ s.todo # <<>>
      /\ SameJob(s, b) /\ b.phase = s.phase /\ b.todo = s.todo
      /\ b.draft = c /\ y = x
      /\ ProcType(s) /\ TodoOK(s, runs)
      /\ Reporting(s, fs) /\ Judging(s, x, fs, runs) /\ ContractFirst(s, x, fs)
  BY OpenHasDraft DEF Step, Opening, MayWrite, Judged, Lawful
<1>2. PICK form \in OpenForms(f, x.payload) : fs' = Put(fs, f, [c EXCEPT !.form = form])
  BY DEF Opening
<1>3. \A g \in DOMAIN fs : g # f => g \in DOMAIN fs' /\ fs'[g] = fs[g]
  BY <1>2 DEF Put
<1>4. Objected(fs, s.second) /\ f # GateJson(s.second) => Objected(fs', s.second)
  BY <1>3 DEF Objected
<1>5. s.phase = "report" => c.data = [status |-> StatusOf(s.worst), embedded |-> s.embedded]
  BY DEF Content, GateReport
<1>6. s.phase = "report" /\ s.embedded =>
          Has(s.todo, GateJson(s.second)) \/ Objected(fs', s.second)
  <2>1. f = GateJson(s.second) => Has(s.todo, GateJson(s.second))
    BY <1>1, NextOfPhase DEF Has, Lawful
  <2> QED
    BY <1>1, <1>4, <2>1 DEF Reporting
<1>7. s.phase = "seal" => Objected(fs', s.second)
  <2>1. s.phase = "seal" => f # GateJson(s.second)
    BY <1>1, NextOfPhase DEF Lawful, Manifest, GateJson
  <2> QED
    BY <1>1, <1>4, <2>1 DEF Reporting
<1>8. s.phase = "seal" => CertifiesNoGo(c)
  <2> SUFFICES ASSUME s.phase = "seal"
               PROVE  CertifiesNoGo(c)
    OBVIOUS
  <2> DEFINE L == Listed(x.payload, s.second)
             g == GateJson(s.second)
  <2>1. x.payload \in Payloads /\ s.second \in 0..MaxClock
    BY <1>1 DEF TodoOK, HasPayload, RunOf, ProcType
  <2>2. /\ DOMAIN c.data.entries = L \cap DOMAIN fs
        /\ \A h \in L \cap DOMAIN fs : c.data.entries[h] = fs[h]
    BY DEF Content, BuildManifest, RunOf
  <2>3. g \in L /\ g \in DOMAIN fs /\ fs[g].data = NoGoReport
    BY <1>1 DEF Listed, Reporting, Objected
  <2>4. \A h \in L : h = g \/ h \in BundleFiles(x.payload)
    BY DEF Listed, BundleFiles
  <2>5. \A h \in BundleFiles(x.payload) : ~ IsReport(h) /\ h # RetentionLog
    BY DEF BundleFiles, RequiredPaths, IsReport, Contract, Audit, Connectors, Tools,
           McpServers, Evals, Health, EvalRows, EvalSummary, Replay, RetentionLog
  <2>6. g[1] = "gate_json" /\ g # RetentionLog
    BY DEF GateJson, RetentionLog
  <2>7. NoGoReport.embedded
    BY DEF NoGoReport
  <2> HIDE DEF L, g, c
  <2> QED
    BY <2>2, <2>3, <2>4, <2>5, <2>6, <2>7 DEF CertifiesNoGo
<1>9. Reporting(b, fs')
  <2> HIDE DEF c, f
  <2> QED
    BY <1>1, <1>5, <1>6, <1>7, <1>8 DEF Reporting, SameJob
<1>10. Judging(b, y, fs', runs')
  BY <1>1 DEF Judging, SameJob, WritingPhases
<1>11. ContractFirst(b, y, fs')
  <2>1. s.phase = "bundle" => c.stamp = s.run \/ f # Contract
    BY DEF Content, BundleContent, HasStamp
  <2>2. s.phase = "bundle" => DOMAIN c = {"stamp", "form", "data"}
    BY DEF Content, BundleContent
  <2> HIDE DEF c, f
  <2>3. s.phase = "bundle" =>
            \/ s.todo = Plan(x.payload)
            \/ Contract \in DOMAIN fs' /\ fs'[Contract].stamp = s.run
    BY <1>1, <1>2, <2>1, <2>2 DEF Put, ContractFirst
  <2> QED
    BY <1>1, <2>3 DEF ContractFirst, SameJob
<1>12. (ManifestParses(fs') => CertifiesNoGo(fs'[Manifest])) /\ NewestManifest(fs', runs')
  <2>1. CASE s.phase = "seal"
    <3>1. f = Manifest
      BY <1>1, <2>1, NextOfPhase DEF Lawful
    <3>2. form = "malformed"
      BY <3>1 DEF OpenForms, HasRows, TornForms, Manifest, Audit, LineFamilies
    <3>3. DOMAIN c = {"stamp", "form", "data"}
      BY <2>1 DEF Content, BuildManifest
    <3>4. fs'[Manifest].form = "malformed"
      BY <1>2, <3>1, <3>2, <3>3 DEF Put
    <3> QED
      BY <3>4 DEF ManifestParses, Readable, NewestManifest
  <2>2. CASE s.phase # "seal"
    BY <1>1, <2>2, CertifiedKept
  <2> QED
    BY <2>1, <2>2
<1>13. y.verdict \in {GO, CONDITIONAL_GO} => Earned(y.judged, runs')
  BY <1>1, VerdictKept
<1> QED
  BY <1>1, <1>9, <1>10, <1>11, <1>12, <1>13, JudgedFrame DEF SameJob

LEMMA ClosingJudged ==
    ASSUME Lawful, Judged, NEW p \in Procs, NEW b, NEW y, Step(p, b, y), Closing(p, b, y)
    PROVE  Judged'
<1> DEFINE f == Head(proc[p].todo)
           d == proc[p].draft
           s == proc[p]
           x == RunOf(p)
           g == GateJson(s.second)
<1>1. /\ ~ IsIdle(p) /\ s.phase \in WritingPhases /\ s.todo # <<>>
      /\ s.open /\ fs' = Put(fs, f, d)
      /\ SameJob(s, b) /\ b.phase = s.phase /\ ~ b.open
      /\ b.todo = Tail(s.todo)
      /\ y.judged = x.judged /\ y.verdict = x.verdict /\ SameRun(x, y)
      /\ y.sealed = (x.sealed \/ s.phase = "seal")
      /\ s.todo \in Seq(File) /\ s.run \in DOMAIN runs
      /\ Reporting(s, fs) /\ Judging(s, x, fs, runs) /\ ContractFirst(s, x, fs)
  BY OpenHasDraft DEF Step, Closing, Judged, Lawful
<1>2. \A h \in DOMAIN fs : h # f => h \in DOMAIN fs' /\ fs'[h] = fs[h]
  BY <1>1 DEF Put
<1>3. f \in DOMAIN fs' /\ fs'[f] = d
  BY <1>1 DEF Put
<1>4. Objected(fs, s.second) /\ f # g => Objected(fs', s.second)
  BY <1>2 DEF Objected
<1>5. s.phase = "report" /\ s.embedded =>
          Has(Tail(s.todo), g) \/ Objected(fs', s.second)
  <2> SUFFICES ASSUME s.phase = "report", s.embedded
               PROVE  Has(Tail(s.todo), g) \/ Objected(fs', s.second)
    OBVIOUS
  <2>1. CASE f = g
    <3>1. s.worst = FAIL
      <4>1. s.next \in Nat /\ s.next > LastCheck
        BY <1>1, OpenHasDraft DEF Lawful, ProcType, Reporting
      <4>2. s.next > IntegrityCheck
        BY <4>1 DEF LastCheck, IntegrityCheck
      <4> QED
        BY <1>1, <4>2 DEF Reporting
    <3>2. d.data = [status |-> StatusOf(s.worst), embedded |-> s.embedded]
      BY <1>1 DEF Reporting
    <3>3. s.embedded = TRUE
      BY OpenHasDraft DEF Lawful, ProcType
    <3>4. d.data = NoGoReport
      BY <3>1, <3>2, <3>3 DEF StatusOf, NoGoReport, PASS, WARN, FAIL
    <3> QED
      BY <1>3, <2>1, <3>4 DEF Objected
  <2>2. CASE f # g
    <3>1. CASE Has(s.todo, g)
      BY <1>1, <2>2, <3>1, TailKeeps
    <3>2. CASE Objected(fs, s.second)
      BY <1>4, <2>2, <3>2
    <3> QED
      BY <1>1, <3>1, <3>2 DEF Reporting
  <2> QED
    BY <2>1, <2>2
<1>6. s.phase = "seal" => f = Manifest /\ Objected(fs', s.second)
  <2>1. s.phase = "seal" => f = Manifest
    BY <1>1, NextOfPhase DEF Lawful
  <2>2. Manifest # g
    BY DEF Manifest, GateJson
  <2> QED
    BY <1>1, <1>4, <2>1, <2>2 DEF Reporting
<1>7. Reporting(b, fs')
  <2> HIDE DEF f, d
  <2> QED
    BY <1>1, <1>5, <1>6 DEF Reporting, SameJob
<1>8. Judging(b, y, fs', runs')
  BY <1>1 DEF Judging, SameJob, WritingPhases
<1>9. ContractFirst(b, y, fs')
  <2> SUFFICES ASSUME s.phase = "bundle"
               PROVE  Contract \in DOMAIN fs' /\ fs'[Contract].stamp = s.run
    BY <1>1 DEF ContractFirst, SameJob
  <2>1. CASE f = Contract
    <3>1. d = BundleContent(Contract, s.run, x.payload, x.env)
      BY <1>1, <2>1 DEF Lawful, Safe, SafeProc, RunOf
    <3>2. d.stamp = s.run
      BY <3>1 DEF BundleContent, HasStamp
    <3> QED
      BY <1>3, <2>1, <3>2
  <2>2. CASE f # Contract
    <3>1. x.payload \in Payloads
      BY OpenHasDraft DEF Lawful, TodoOK, HasPayload, RunOf
    <3>2. s.todo # Plan(x.payload)
      BY <1>1, <2>2, <3>1, NextOfPhase, PlanListsBundleFiles DEF Lawful
    <3> QED
      BY <1>1, <1>2, <2>2, <3>2 DEF ContractFirst
  <2> QED
    BY <2>1, <2>2
<1>10. (ManifestParses(fs') => CertifiesNoGo(fs'[Manifest])) /\ NewestManifest(fs', runs')
  <2>1. CASE s.phase = "seal"
    <3>1. CertifiesNoGo(d) /\ d.stamp = s.run /\ fs'[Manifest] = d
      BY <1>1, <1>3, <1>6, <2>1 DEF Reporting, Lawful, Assigned, Working
    <3>2. x.kind \in Generators
      BY <2>1, OpenHasDraft DEF Lawful, TodoOK, HasPayload, RunOf
    <3>3. s.run = Len(runs) /\ DOMAIN runs = 1..Len(runs) /\ Len(runs) \in Nat
      BY <1>1, <3>2, RunIsLast DEF Lawful
    <3>4. DOMAIN runs' = DOMAIN runs
      BY DEF Step
    <3> QED
      BY <3>1, <3>3, <3>4 DEF NewestManifest
  <2>2. CASE s.phase # "seal"
    <3>1. x.sealed \in BOOLEAN
      BY <1>1, BusyRun DEF Lawful, Run, RunOf
    <3>2. y.sealed = x.sealed
      BY <1>1, <2>2, <3>1
    <3> QED
      BY <2>2, <3>2, CertifiedKept
  <2> QED
    BY <2>1, <2>2
<1>11. y.verdict \in {GO, CONDITIONAL_GO} => Earned(y.judged, runs')
  BY <1>1, VerdictKept
<1> QED
  BY <1>1, <1>7, <1>8, <1>9, <1>10, <1>11, JudgedFrame DEF SameJob

LEMMA FailingJudged ==
    ASSUME Lawful, Judged, NEW p \in Procs, NEW b, NEW y, Step(p, b, y), Failing(p, b, y)
    PROVE  Judged'
<1>1. Reporting(proc[p], fs) /\ Judging(proc[p], RunOf(p), fs, runs)
      /\ proc[p].next = 1 /\ y = RunOf(p)
  BY DEF Step, Judged, Failing, Lawful, Assigned, Working
<1>2. /\ Reporting(b, fs') /\ Judging(b, y, fs', runs') /\ ContractFirst(b, y, fs')
      /\ b.run = proc[p].run
  BY <1>1 DEF Failing, SameJob, Reporting, Judging, ContractFirst, IntegrityCheck, LastCheck
<1>3. (ManifestParses(fs') => CertifiesNoGo(fs'[Manifest])) /\ NewestManifest(fs', runs')
  BY <1>1, CertifiedKept DEF Failing
<1>4. y.verdict \in {GO, CONDITIONAL_GO} => Earned(y.judged, runs')
  BY <1>1, VerdictKept
<1> QED
  BY <1>2, <1>3, <1>4, JudgedFrame

LEMMA CheckingJudged ==
    ASSUME Lawful, Judged, NEW p \in Procs, NEW b, NEW y, Step(p, b, y), Checking(p, b, y)
    PROVE  Judged'
<1> DEFINE s == proc[p]
           x == RunOf(p)
           i == proc[p].next
           verdict == Check(i, fs, mtime, clock, x.env)
<1>1. /\ ~ IsIdle(p) /\ s.phase = "check" /\ i \in 1..LastCheck /\ UNCHANGED fs
      /\ b.run = s.run /\ b.embedded = s.embedded /\ b.next = i + 1 /\ b.phase = "check"
      /\ b.worst = Worse(s.worst, verdict) /\ ~ b.open
      /\ y.verdict = x.verdict /\ y.sealed = x.sealed
      /\ s.worst \in Grades
      /\ Reporting(s, fs) /\ Judging(s, x, fs, runs)
  BY OpenHasDraft DEF Step, Checking, Judged, Lawful, ProcType
<1>2. b.embedded /\ b.next > IntegrityCheck => b.worst = FAIL
  <2> SUFFICES ASSUME s.embedded, i + 1 > IntegrityCheck
               PROVE  Worse(s.worst, verdict) = FAIL
    BY <1>1
  <2>1. CASE i = IntegrityCheck
    <3>1. verdict = FAIL
      BY <1>1, <2>1, EmbeddedGateFails
    <3> QED
      BY <3>1 DEF Worse, Grade
  <2>2. CASE i > IntegrityCheck
    <3>1. s.worst = FAIL
      BY <1>1, <2>2 DEF Reporting
    <3> QED
      BY <3>1 DEF Worse, Grade
  <2> QED
    BY <1>1, <2>1, <2>2 DEF IntegrityCheck, LastCheck
<1>3. Reporting(b, fs')
  BY <1>1, <1>2 DEF Reporting
<1>4. y.verdict \notin {GO, CONDITIONAL_GO}
  BY <1>1 DEF Judging
<1>5. Judging(b, y, fs', runs')
  BY <1>1, <1>4, SeenStep DEF Judging
<1>6. ContractFirst(b, y, fs')
  BY <1>1 DEF ContractFirst
<1>7. (ManifestParses(fs') => CertifiesNoGo(fs'[Manifest])) /\ NewestManifest(fs', runs')
  BY <1>1, CertifiedKept
<1> QED
  BY <1>1, <1>3, <1>4, <1>5, <1>6, <1>7, JudgedFrame

LEMMA ConcludingJudged ==
    ASSUME Lawful, Judged, NEW p \in Procs, NEW b, NEW y, Step(p, b, y),
           Concluding(p, b, y)
    PROVE  /\ Judged'
           /\ y.verdict \in {GO, CONDITIONAL_GO} => Seen(proc[p], RunOf(p), fs, runs)
<1> DEFINE s == proc[p]
           x == RunOf(p)
<1>1. /\ ~ IsIdle(p) /\ s.phase = "check" /\ s.next > LastCheck /\ UNCHANGED fs
      /\ b.run = s.run /\ b.embedded = s.embedded /\ b.next = s.next
      /\ b.worst = s.worst /\ b.second = clock /\ b.phase = "report" /\ ~ b.open
      /\ b.todo = <<GateJson(clock), GateMd(clock)>>
      /\ y.verdict = StatusOf(s.worst) /\ y.sealed = x.sealed /\ y.judged = x.judged
      /\ s.worst \in Grades /\ s.next \in Nat
      /\ Reporting(s, fs) /\ Judging(s, x, fs, runs)
  BY OpenHasDraft DEF Step, Concluding, Judged, Lawful, ProcType
<1>2. s.next > IntegrityCheck
  BY <1>1 DEF LastCheck, IntegrityCheck
<1>3. y.verdict \in {GO, CONDITIONAL_GO} =>
          ~ s.embedded /\ Seen(s, x, fs, runs) /\ Earned(x.judged, runs)
  <2> SUFFICES ASSUME y.verdict \in {GO, CONDITIONAL_GO}
               PROVE  ~ s.embedded /\ Seen(s, x, fs, runs) /\ Earned(x.judged, runs)
    OBVIOUS
  <2>1. s.worst # FAIL
    BY <1>1 DEF StatusOf, PASS, WARN, FAIL, GO, CONDITIONAL_GO, NO_GO
  <2>2. ~ s.embedded
    BY <1>1, <1>2, <2>1 DEF Reporting
  <2>3. Seen(s, x, fs, runs)
    BY <1>1, <2>1, <2>2 DEF Judging
  <2> QED
    BY <1>1, <2>2, <2>3, SeenIsEarned
<1>4. Has(b.todo, GateJson(b.second))
  BY <1>1 DEF Has
<1>5. Reporting(b, fs')
  BY <1>1, <1>2, <1>4 DEF Reporting
<1>6. Judging(b, y, fs', runs') /\ ContractFirst(b, y, fs')
  BY <1>1, <1>3 DEF Judging, ContractFirst
<1>7. (ManifestParses(fs') => CertifiesNoGo(fs'[Manifest])) /\ NewestManifest(fs', runs')
  BY <1>1, CertifiedKept
<1>8. y.verdict \in {GO, CONDITIONAL_GO} => Earned(y.judged, runs')
  BY <1>1, <1>3, EarnedKept
<1>9. Judged'
  BY <1>1, <1>5, <1>6, <1>7, <1>8, JudgedFrame
<1> QED
  BY <1>3, <1>9

\* The steps that hand a command from one of its parts to the next, or end it.
LEMMA QuietJudged ==
    ASSUME Lawful, Judged, NEW p \in Procs, NEW b, NEW y, Step(p, b, y),
           \/ Ending(p, b, y) \/ Handing(p, b, y) \/ Allowing(p, b, y)
           \/ Regating(p, b, y) \/ Retaining(p, b, y) \/ Logging(p, b, y)
    PROVE  Judged'
<1>1. /\ ~ IsIdle(p) /\ Reporting(proc[p], fs) /\ Judging(proc[p], RunOf(p), fs, runs)
      /\ Working(proc[p], RunOf(p))
      /\ y.verdict = RunOf(p).verdict /\ y.judged = RunOf(p).judged
      /\ y.sealed = RunOf(p).sealed
      /\ proc[p].phase # "seal" \/ UNCHANGED fs
  BY DEF Step, Judged, Lawful, Assigned, Ending, Handing, Allowing, Regating, Retaining,
         Logging
<1>2. b.phase # "idle" => /\ b.run = proc[p].run /\ Reporting(b, fs')
                          /\ Judging(b, y, fs', runs') /\ ContractFirst(b, y, fs')
  <2>1. CASE Ending(p, b, y)
    BY <2>1 DEF Ending, Idle
  <2>2. CASE Handing(p, b, y)
    <3>1. proc[p].next = 1 /\ DOMAIN proc[p] = DOMAIN Idle
      BY <1>1, <2>2, OpenHasDraft DEF Handing, Working, Lawful, ProcType
    <3>2. b.run = proc[p].run /\ b.embedded /\ b.next = 1
      BY <2>2, <3>1 DEF Handing, SameJob, Idle
    <3> QED
      BY <1>1, <2>2, <3>2 DEF Handing, Reporting, Judging, ContractFirst, IntegrityCheck
  <2>3. CASE Allowing(p, b, y)
    <3>1. ~ Has(<<>>, GateJson(proc[p].second))
      BY DEF Has
    <3> QED
      BY <1>1, <2>3, <3>1 DEF Allowing, SameJob, Reporting, Judging, ContractFirst
  <2>4. CASE Regating(p, b, y)
    BY <1>1, <2>4
       DEF Regating, Reporting, Judging, Seen, ContractFirst, IntegrityCheck, LastCheck
  <2>5. CASE Retaining(p, b, y)
    BY <1>1, <2>5 DEF Retaining, Reporting, Judging, ContractFirst, Working
  <2>6. CASE Logging(p, b, y)
    BY <1>1, <2>6 DEF Logging, SameJob, Reporting, Judging, ContractFirst, Working
  <2> QED
    BY <2>1, <2>2, <2>3, <2>4, <2>5, <2>6
<1>3. (ManifestParses(fs') => CertifiesNoGo(fs'[Manifest])) /\ NewestManifest(fs', runs')
  BY <1>1, CertifiedKept
<1>4. y.verdict \in {GO, CONDITIONAL_GO} => Earned(y.judged, runs')
  BY <1>1, VerdictKept
<1> QED
  BY <1>2, <1>3, <1>4, JudgedFrame

LEMMA BeginningJudged ==
    ASSUME Lawful, Judged, NEW p \in Procs, NEW b, NEW x, Beginning(p, b, x)
    PROVE  Judged'
<1> DEFINE n == Len(runs) + 1
<1>1. /\ DOMAIN proc = Procs /\ n \notin DOMAIN runs
      /\ DOMAIN runs' = DOMAIN runs \cup {n} /\ runs'[n] = x
      /\ \A r \in DOMAIN runs : runs'[r] = runs[r]
      /\ UNCHANGED fs
      /\ ~ x.sealed /\ x.verdict = "none"
  <2>1. runs \in Seq(Run) /\ DOMAIN proc = Procs
    BY DEF Lawful, WellTyped, RunsOK
  <2>2. runs' = Append(runs, x) /\ UNCHANGED fs /\ ~ x.sealed /\ x.verdict = "none"
    BY DEF Beginning
  <2> QED
    BY <2>1, <2>2
<1>2. \A q \in Procs : ~ IsIdle(q) => proc[q].run \in DOMAIN runs /\ proc[q].next \in Nat
  BY BusyRun DEF Lawful, ProcType
<1>3. UNCHANGED proc \/ (/\ proc' = [proc EXCEPT ![p] = b] /\ b.run = n
                         /\ Reporting(b, fs) /\ ContractFirst(b, x, fs)
                         /\ \A rs : Judging(b, x, fs, rs))
  <2>1. CASE BeginsGenerator(p, b, x)
    BY <1>1, <2>1 DEF BeginsGenerator, Fresh, Reporting, ContractFirst, Judging, GO,
                      CONDITIONAL_GO
  <2>2. CASE BeginsBlocked(x)
    BY <2>2 DEF BeginsBlocked
  <2>3. CASE BeginsGate(p, b, x)
    BY <1>1, <2>3 DEF BeginsGate, Fresh, Reporting, ContractFirst, Judging, Seen, GO,
                      CONDITIONAL_GO, IntegrityCheck, LastCheck
  <2>4. CASE BeginsRetention(p, b, x)
    BY <1>1, <2>4 DEF BeginsRetention, Fresh, Reporting, ContractFirst, Judging, GO,
                      CONDITIONAL_GO
  <2> QED
    BY <2>1, <2>2, <2>3, <2>4 DEF Beginning
<1>4. ASSUME NEW s, NEW z, s.next \in Nat, Judging(s, z, fs, runs)
      PROVE  Judging(s, z, fs, runs')
  <2>1. ASSUME Seen(s, z, fs, runs)
        PROVE  Seen(s, z, fs, runs')
    <3>1. s.next > IntegrityCheck => z.judged \in DOMAIN runs /\ Stands(z.judged, fs, runs)
      BY <2>1, ManifestRun DEF Seen, Stands, Owner
    <3>2. s.next > IntegrityCheck =>
              Stands(z.judged, fs, runs') /\ runs'[z.judged] = runs[z.judged]
      BY <1>1, <3>1 DEF Stands, Holds
    <3>3. s.next > LastCheck => s.next > IntegrityCheck
      BY <1>4 DEF LastCheck, IntegrityCheck
    <3> QED
      BY <2>1, <3>2, <3>3 DEF Seen
  <2> QED
    BY <1>4, <2>1 DEF Judging
<1>5. \A q \in Procs : ~ IsIdle(q)' =>
          \/ ~ IsIdle(q) /\ proc'[q] = proc[q] /\ RunOf(q)' = RunOf(q)
          \/ /\ RunOf(q)' = x
             /\ Reporting(proc'[q], fs) /\ ContractFirst(proc'[q], x, fs)
             /\ Judging(proc'[q], x, fs, runs')
  BY <1>1, <1>2, <1>3 DEF IsIdle, RunOf
<1>6. ASSUME NEW q \in Procs, ~ IsIdle(q)'
      PROVE  (/\ Reporting(proc[q], fs)
              /\ Judging(proc[q], RunOf(q), fs, runs)
              /\ ContractFirst(proc[q], RunOf(q), fs))'
  <2>1. CASE ~ IsIdle(q) /\ proc'[q] = proc[q] /\ RunOf(q)' = RunOf(q)
    BY <1>1, <1>2, <1>4, <2>1 DEF Judged
  <2> QED
    BY <1>1, <1>5, <1>6, <2>1
<1>7. NewestManifest(fs', runs')
  <2>1. \A r \in DOMAIN runs' : runs'[r].sealed => r \in DOMAIN runs /\ runs[r].sealed
    BY <1>1
  <2> QED
    BY <1>1, <2>1 DEF Judged, NewestManifest
<1>8. \A r \in DOMAIN runs' : Passed(r)' => Earned(runs'[r].judged, runs')
  <2> SUFFICES ASSUME NEW r \in DOMAIN runs', Passed(r)'
               PROVE  Earned(runs'[r].judged, runs')
    OBVIOUS
  <2>1. r \in DOMAIN runs /\ runs'[r] = runs[r]
    BY <1>1 DEF Passed, GO, CONDITIONAL_GO
  <2>2. Earned(runs[r].judged, runs)
    BY <2>1 DEF Passed, Judged
  <2> QED
    BY <1>1, <2>1, <2>2 DEF Earned
<1> QED
  BY <1>1, <1>6, <1>7, <1>8 DEF Judged

LEMMA JudgedInit == Init => Judged
<1> SUFFICES ASSUME Init
             PROVE  Judged
  OBVIOUS
<1>1. \A p \in Procs : IsIdle(p)
  BY DEF Init, IsIdle, Idle
<1>2. DOMAIN runs = {} /\ DOMAIN fs = {}
  BY DEF Init
<1> QED
  BY <1>1, <1>2 DEF Judged, ManifestParses, Readable, Exists, NewestManifest

LEMMA JudgedStep ==
    ASSUME Lawful, Judged, [Next]_vars
    PROVE  Judged'
<1>1. CASE UNCHANGED <<fs, runs, proc>>
  BY <1>1 DEF Judged, IsIdle, RunOf, Passed
<1>2. ASSUME NEW p \in Procs, Advance(p) \/ WriteFails(p) \/ Crash(p)
      PROVE  Judged'
  <2> PICK b, y : Step(p, b, y)
    BY <1>2, StepShape DEF Lawful
  <2> QED
    BY OpeningJudged, ClosingJudged, FailingJudged, CheckingJudged, ConcludingJudged,
       QuietJudged
       DEF Step, Shape
<1>3. ASSUME NEW p \in Procs, Start(p)
      PROVE  Judged'
  BY <1>3, StartShape, BeginningJudged
<1> QED
  BY <1>1, <1>2, <1>3 DEF Next, Tick, vars

LEMMA AlwaysJudged ==
    ASSUME Exclusive
    PROVE  Spec => [](Lawful /\ Judged)
<1>1. Spec => []Lawful
  BY AlwaysSound, PTL DEF Lawful
<1> QED
  BY <1>1, JudgedInit, JudgedStep, PTL DEF Spec

\* Whatever the evidence is worth, a bundle that verifies certifies the no_go
\* of the gate inside generate_artifacts, which ran before there was a manifest
\* of its own run to verify.
THEOREM SealedReportObjects ==
    ASSUME Exclusive
    PROVE  Spec => []SealedReportIsNoGo
<1>1. Lawful /\ Judged => SealedReportIsNoGo
  <2> SUFFICES ASSUME Judged, HashesConsistent(fs)
               PROVE  \E f \in DOMAIN Entries(fs) :
                          f[1] = "gate_json" /\ fs[f].data = NoGoReport
    BY DEF SealedReportIsNoGo, NoGoReport
  <2>1. /\ CertifiesNoGo(fs[Manifest])
        /\ \A f \in DOMAIN Entries(fs) : fs[f] = Entries(fs)[f]
    BY HashesMeaning DEF Judged
  <2> QED
    BY <2>1 DEF CertifiesNoGo, Entries
<1> QED
  BY <1>1, AlwaysJudged, PTL

\* A verdict that does not block was earned by the evidence of one sealed run:
\* no check read one run's file and another check the next run's, although
\* between two of them anything but a generating command may have run.
THEOREM VerdictsAreEarned ==
    ASSUME Exclusive
    PROVE  Spec => []PassingVerdictIsEarned
<1>1. Lawful /\ Judged => PassingVerdictIsEarned
  BY DEF Judged, Earned, PassingVerdictIsEarned
<1> QED
  BY <1>1, AlwaysJudged, PTL

-----------------------------------------------------------------------------
(***************************************************************************)
(* The artifacts root implements the ledger of bundles.  Publish is the    *)
(* close of the manifest, Pass the end of an evaluation that does not      *)
(* block, and Spoil any write or deletion that makes a hash differ; that   *)
(* no write makes the hashes agree again is what needs proof.              *)
(***************************************************************************)
Publishing(p, b, y) == Closing(p, b, y) /\ proc[p].phase = "seal"

\* A running command has sealed nothing, unless its gate runs once more.
LEMMA OwnRunUnsealed ==
    ASSUME Lawful, NEW p \in Procs, ~ IsIdle(p),
           \/ proc[p].phase \in {"bundle", "failing"}
           \/ proc[p].phase = "report" /\ proc[p].embedded,
           ManifestParses(fs)
    PROVE  Owner # proc[p].run
  BY ManifestRun DEF Lawful, Assigned, Working, RunOf

\* After the first write of a run the contract is its own.
LEMMA ContractIsOwn ==
    ASSUME Lawful, Judged, NEW p \in Procs, NEW b, NEW y, Step(p, b, y),
           proc[p].phase = "bundle"
    PROVE  UNCHANGED fs \/ fs'[Contract].stamp = proc[p].run
<1> DEFINE f == Head(proc[p].todo)
           s == proc[p]
           x == RunOf(p)
<1>1. /\ ~ IsIdle(p) /\ ContractFirst(s, x, fs) /\ x.payload \in Payloads
      /\ SafeProc(s, fs, runs)
  BY OpenHasDraft DEF Step, Judged, Lawful, Safe, TodoOK, HasPayload, RunOf
<1>2. s.todo = Plan(x.payload) => s.todo # <<>> /\ f = Contract
  BY <1>1, PlanListsBundleFiles, NextOfPhase DEF Lawful
<1>3. f # Contract => Contract \in DOMAIN fs /\ fs[Contract].stamp = s.run
  BY <1>1, <1>2 DEF ContractFirst
<1>4. CASE Opening(p, b, y)
  <2> DEFINE c == Content(p, f)
  <2>1. PICK form : fs' = Put(fs, f, [c EXCEPT !.form = form])
    BY <1>4 DEF Opening
  <2>2. f = Contract => c.stamp = s.run /\ DOMAIN c = {"stamp", "form", "data"}
    BY DEF Content, BundleContent, HasStamp
  <2> HIDE DEF c, f
  <2> QED
    BY <1>3, <2>1, <2>2 DEF Put
<1>5. CASE Closing(p, b, y)
  <2>1. fs' = Put(fs, f, s.draft) /\ s.open
    BY <1>5 DEF Closing
  <2>2. f = Contract => s.draft.stamp = s.run
    BY <1>1, <2>1 DEF SafeProc, BundleContent, HasStamp
  <2> HIDE DEF f
  <2> QED
    BY <1>3, <2>1, <2>2 DEF Put
<1>6. CASE Failing(p, b, y)
  <2>1. CASE f = Audit
    <3>1. Audit # Contract
      BY DEF Audit, Contract
    <3> QED
      BY <1>3, <1>6, <2>1, <3>1 DEF Failing, Put
  <2>2. CASE f # Audit
    BY <1>6, <2>2 DEF Failing
  <2> QED
    BY <2>1, <2>2
<1> QED
  BY <1>4, <1>5, <1>6
     DEF Step, Shape, Ending, Handing, Checking, Concluding, Allowing, Regating,
         Retaining, Logging

\* Nothing but the close of a manifest makes a bundle verify.
LEMMA NeverRestored ==
    ASSUME Lawful, Judged, NEW p \in Procs, NEW b, NEW y, Step(p, b, y),
           ~ Publishing(p, b, y), HashesConsistent(fs')
    PROVE  HashesConsistent(fs) /\ fs'[Manifest] = fs[Manifest]
<1> DEFINE s == proc[p]
           E == Entries(fs)
<1>1. /\ ~ IsIdle(p) /\ ManifestParses(fs')
      /\ RequiredPaths \subseteq DOMAIN Entries(fs')
      /\ \A f \in DOMAIN Entries(fs') : f \in DOMAIN fs' /\ fs'[f] = Entries(fs')[f]
  BY HashesMeaning DEF Step
<1>2. Exists(fs, Manifest) /\ fs'[Manifest] = fs[Manifest]
  <2>1. CASE s.phase # "seal"
    BY <1>1, <2>1, ManifestStays DEF Lawful, ManifestParses, Readable
  <2>2. CASE s.phase = "seal" /\ Opening(p, b, y)
    <3> DEFINE f == Head(s.todo)
               c == Content(p, f)
    <3>1. PICK form \in OpenForms(f, RunOf(p).payload) :
              fs' = Put(fs, f, [c EXCEPT !.form = form])
      BY <2>2 DEF Opening
    <3>2. f = Manifest
      BY <1>1, <2>2, NextOfPhase DEF Lawful, Opening, MayWrite
    <3>3. form = "malformed"
      BY <3>2 DEF OpenForms, HasRows, TornForms, Manifest, Audit, LineFamilies
    <3>4. DOMAIN c = {"stamp", "form", "data"}
      BY <2>2 DEF Content, BuildManifest
    <3>5. fs'[Manifest].form = "malformed"
      BY <3>1, <3>2, <3>3, <3>4 DEF Put
    <3> QED
      BY <1>1, <3>5 DEF ManifestParses, Readable
  <2>3. CASE UNCHANGED fs
    BY <1>1, <2>3 DEF ManifestParses, Readable
  <2> QED
    BY <2>1, <2>2, <2>3
       DEF Publishing, Step, Shape, Ending, Failing, Handing, Checking, Concluding,
           Allowing, Regating, Retaining, Logging
<1>3. ManifestParses(fs) /\ Entries(fs') = E
  BY <1>1, <1>2 DEF ManifestParses, Readable, Entries
<1>4. /\ Owner \in DOMAIN runs
      /\ \A f \in {Contract, Health} : fs'[f].stamp = Owner
      /\ CertifiesNoGo(fs[Manifest])
  <2>1. {Contract, Health} \subseteq DOMAIN E /\ \A f \in {Contract, Health} : fs'[f] = E[f]
    BY <1>1, <1>3 DEF RequiredPaths
  <2>2. \A f \in {Contract, Health} : E[f] =
            BundleContent(f, Owner, runs[Owner].payload, runs[Owner].env)
    BY <1>3, ManifestRun, RequiredInPlan DEF Certifies, Entries, RequiredPaths
  <2>3. \A f \in {Contract, Health} : fs'[f].stamp = Owner
    BY <2>1, <2>2 DEF BundleContent, HasStamp
  <2> QED
    BY <1>3, <2>3, ManifestRun DEF Judged
<1>5. \A f \in DOMAIN E : f \in DOMAIN fs /\ fs[f] = fs'[f]
  <2> SUFFICES ASSUME NEW f \in DOMAIN E, f \in Touches(p), fs' # fs
               PROVE  f \in DOMAIN fs /\ fs[f] = fs'[f]
    BY <1>1, <1>3, Elsewhere
  <2>1. CASE s.phase = "bundle"
    BY <1>1, <1>3, <1>4, <2>1, ContractIsOwn, OwnRunUnsealed
  <2>2. CASE s.phase = "failing"
    <3>1. f = Health
      BY <1>1, <2>2, NextOfPhase DEF Touches, Lawful
    <3>2. f \in DOMAIN fs'
      BY <1>1, <1>3
    <3> QED
      BY <1>1, <1>3, <1>4, <2>2, <3>1, <3>2, HealthStep, OwnRunUnsealed DEF Lawful
  <2>3. CASE s.phase = "report"
    <3>1. s.todo # <<>> /\ f = Head(s.todo) /\ IsReport(f)
      BY <1>1, <2>3, NextOfPhase DEF Touches, Lawful, IsReport
    <3>2. CASE s.embedded
      <4>1. Holds(fs, Contract, s.run, runs)
        BY <1>1, <3>2, BundleInPlace DEF Lawful, RequiredPaths
      <4>2. fs[Contract].stamp = s.run /\ Exists(fs, Contract)
        BY <4>1 DEF Holds, BundleContent, HasStamp
      <4>3. fs'[Contract] = fs[Contract]
        BY <2>3, <4>2, BundleUntouched DEF RequiredPaths
      <4> QED
        BY <1>1, <1>3, <1>4, <2>3, <3>2, <4>2, <4>3, OwnRunUnsealed
    <3>3. CASE ~ s.embedded
      <4>1. fs'[f].data.embedded
        BY <1>1, <1>3, <1>4, <3>1 DEF CertifiesNoGo, Entries
      <4>2. CASE Opening(p, b, y)
        <5> DEFINE c == Content(p, f)
        <5>1. PICK form : fs' = Put(fs, f, [c EXCEPT !.form = form])
          BY <3>1, <4>2 DEF Opening
        <5>2. DOMAIN c = {"stamp", "form", "data"} /\ c.data.embedded = s.embedded
          BY <2>3 DEF Content, GateReport
        <5> HIDE DEF c
        <5>3. fs'[f].data.embedded = s.embedded
          BY <5>1, <5>2 DEF Put
        <5> QED
          BY <3>3, <4>1, <5>3
      <4>3. CASE Closing(p, b, y)
        <5>1. fs'[f] = s.draft /\ s.open
          BY <3>1, <4>3 DEF Closing, Put
        <5>2. s.draft.data = [status |-> StatusOf(s.worst), embedded |-> s.embedded]
          BY <1>1, <2>3, <5>1 DEF Judged, Reporting
        <5> QED
          BY <3>3, <4>1, <5>1, <5>2
      <4> QED
        BY <2>3, <4>2, <4>3
           DEF Step, Shape, Ending, Failing, Handing, Checking, Concluding, Allowing,
               Regating, Retaining, Logging
    <3> QED
      BY <3>2, <3>3
  <2>4. CASE s.phase = "log"
    <3>1. f = RetentionLog
      BY <1>1, <2>4, NextOfPhase DEF Touches, Lawful
    <3> QED
      BY <1>4, <3>1 DEF CertifiesNoGo, Entries
  <2>5. CASE s.phase = "retain"
    <3>1. UNCHANGED fs \/ \E g : fs' = Unlink(fs, g)
      BY <2>5 DEF Step, Shape, Opening, Closing, Ending, Failing, Handing, Checking,
                  Concluding, Allowing, Regating, Retaining, Logging, MayWrite,
                  WritingPhases
    <3> QED
      BY <1>1, <1>3, <3>1 DEF Unlink
  <2>6. CASE s.phase = "seal"
    <3>1. f = Manifest
      BY <1>1, <2>6, NextOfPhase DEF Touches, Lawful
    <3> QED
      BY <1>2, <3>1 DEF Exists
  <2>7. s.phase \in {"bundle", "failing", "report", "log", "retain", "seal"}
    BY DEF Step, Shape, Opening, Closing, Ending, Failing, Handing, Checking, Concluding,
           Allowing, Regating, Retaining, Logging, MayWrite, WritingPhases
  <2> QED
    BY <2>1, <2>2, <2>3, <2>4, <2>5, <2>6, <2>7
<1>6. HashesConsistent(fs)
  BY <1>1, <1>3, <1>5, HashesMeaning
<1> QED
  BY <1>2, <1>6

-----------------------------------------------------------------------------
LEMMA LedgerInit == Init => Ledger!Init
<1> SUFFICES ASSUME Init
             PROVE  Ledger!Init
  OBVIOUS
<1>1. DOMAIN runs = {} /\ DOMAIN fs = {}
  BY DEF Init
<1>2. ~ HashesConsistent(fs)
  BY <1>1, HashesMeaning DEF ManifestParses, Readable, Exists
<1>3. Current = 0 /\ Published = {} /\ PassedBundles = {}
  BY <1>1, <1>2 DEF Current, Published, PassedBundles
<1> QED
  BY <1>3 DEF Ledger!Init, Ledger!None

\* A bundle that verifies has a number of its own.
LEMMA CurrentIsRun ==
    ASSUME Lawful, HashesConsistent(fs)
    PROVE  Current = Owner /\ Owner # 0
<1>1. Owner \in DOMAIN runs
  BY HashesMeaning, ManifestRun
<1>2. runs \in Seq(Run)
  BY DEF Lawful, WellTyped, RunsOK
<1> QED
  BY <1>1, <1>2 DEF Current

\* The root loses its bundle or keeps it; nothing is published or passed.
LEMMA SpoilOrKeep ==
    ASSUME Lawful, UNCHANGED <<Published, PassedBundles>>,
           HashesConsistent(fs') => HashesConsistent(fs) /\ fs'[Manifest] = fs[Manifest]
    PROVE  [Ledger!Next]_(Ledger!ledger)
<1>1. CASE HashesConsistent(fs')
  BY <1>1 DEF Current, Owner, Ledger!ledger
<1>2. CASE ~ HashesConsistent(fs') /\ ~ HashesConsistent(fs)
  BY <1>2 DEF Current, Ledger!ledger
<1>3. CASE ~ HashesConsistent(fs') /\ HashesConsistent(fs)
  <2>1. Current # 0 /\ Current' = 0
    BY <1>3, CurrentIsRun DEF Current
  <2> QED
    BY <2>1 DEF Ledger!Next, Ledger!Spoil, Ledger!None
<1> QED
  BY <1>1, <1>2, <1>3

LEMMA HistoryKept ==
    ASSUME Lawful, NEW p \in Procs, NEW b, NEW y, Step(p, b, y)
    PROVE  /\ y.sealed = RunOf(p).sealed => UNCHANGED Published
           /\ /\ y.verdict = RunOf(p).verdict
              /\ \/ y.judged = RunOf(p).judged
                 \/ y.verdict \notin {GO, CONDITIONAL_GO}
              => UNCHANGED PassedBundles
<1>1. /\ DOMAIN runs' = DOMAIN runs /\ proc[p].run \in DOMAIN runs
      /\ runs'[proc[p].run] = y
      /\ \A r \in DOMAIN runs : r # proc[p].run => runs'[r] = runs[r]
  BY DEF Step
<1>2. ASSUME y.sealed = RunOf(p).sealed
      PROVE  UNCHANGED Published
  BY <1>1, <1>2 DEF Published, RunOf
<1>3. ASSUME y.verdict = RunOf(p).verdict,
             \/ y.judged = RunOf(p).judged
             \/ y.verdict \notin {GO, CONDITIONAL_GO}
      PROVE  UNCHANGED PassedBundles
  <2>1. \A r \in DOMAIN runs :
            /\ Passed(r)' <=> Passed(r)
            /\ Passed(r) => runs'[r].judged = runs[r].judged
    BY <1>1, <1>3 DEF Passed, RunOf
  <2> QED
    BY <1>1, <2>1 DEF PassedBundles
<1> QED
  BY <1>2, <1>3

\* The close of a manifest publishes the bundle of the newest run.
LEMMA PublishStep ==
    ASSUME Lawful, NEW p \in Procs, NEW b, NEW y, Step(p, b, y), Publishing(p, b, y)
    PROVE  Ledger!Next
<1> DEFINE r == proc[p].run
           d == proc[p].draft
<1>1. /\ ~ IsIdle(p) /\ proc[p].phase = "seal" /\ proc[p].todo # <<>> /\ proc[p].open
      /\ fs' = Put(fs, Head(proc[p].todo), d)
      /\ y.sealed /\ y.judged = RunOf(p).judged /\ y.verdict = RunOf(p).verdict
      /\ Working(proc[p], RunOf(p)) /\ Tracked(proc[p], RunOf(p), fs)
      /\ RunOf(p).env \in Environments
  BY BusyRun DEF Step, Publishing, Closing, Lawful, Assigned, Sound, RunOf, Run
<1>2. Head(proc[p].todo) = Manifest /\ d.stamp = r /\ ~ RunOf(p).sealed
  BY <1>1, NextOfPhase DEF Lawful, Working
<1>3. RunOf(p).kind \in Generators
  BY <1>1, OpenHasDraft DEF Lawful, TodoOK, HasPayload, RunOf
<1>4. /\ r \in DOMAIN runs /\ r = Len(runs) /\ DOMAIN runs = 1..Len(runs)
      /\ Len(runs) \in Nat /\ Len(runs) <= MaxRuns /\ MaxRuns \in Nat
  BY <1>1, <1>3, RunIsLast, PipelineAssumption DEF Lawful, WellTyped, RunsOK
<1>5. VerifyOk(fs', RunOf(p).env.mode, RunOf(p).env.key)
  BY <1>1, <1>2, MatchVerifies DEF Tracked
<1>6. fs'[Manifest] = d
  BY <1>1, <1>2 DEF Put
<1> HIDE DEF r, d
<1>7. Current' = r
  BY <1>2, <1>5, <1>6 DEF Current, Owner, VerifyOk
<1>8. /\ DOMAIN runs' = DOMAIN runs /\ runs'[r] = y
      /\ \A q \in DOMAIN runs : q # r => runs'[q] = runs[q]
  BY <1>4 DEF Step, r
<1>9. Published' = Published \cup {r}
  BY <1>1, <1>4, <1>8 DEF Published
<1>10. \A c \in Published : c < r
  <2>1. r \notin Published
    BY <1>2 DEF Published, RunOf, r
  <2> QED
    BY <1>4, <2>1 DEF Published
<1>11. UNCHANGED PassedBundles
  BY <1>1, HistoryKept
<1>12. r \in 1..MaxRuns
  BY <1>4
<1> QED
  BY <1>7, <1>9, <1>10, <1>11, <1>12 DEF Ledger!Next, Ledger!Publish

\* A verdict that does not block passes the bundle that was published last.
LEMMA PassStep ==
    ASSUME Lawful, Judged, NEW p \in Procs, NEW b, NEW y, Step(p, b, y),
           Concluding(p, b, y), y.verdict \in {GO, CONDITIONAL_GO}
    PROVE  Ledger!Next
<1> DEFINE r == proc[p].run
           j == RunOf(p).judged
<1>1. /\ UNCHANGED fs /\ y.sealed = RunOf(p).sealed /\ y.judged = j
      /\ proc[p].next > LastCheck /\ proc[p].phase = "check"
      /\ ~ IsIdle(p) /\ proc[p].next \in Nat
      /\ Judging(proc[p], RunOf(p), fs, runs)
  BY OpenHasDraft DEF Concluding, Step, Judged, Lawful, ProcType
<1>2. Seen(proc[p], RunOf(p), fs, runs)
  BY ConcludingJudged
<1>3. Stands(j, fs, runs)
  BY <1>1, <1>2 DEF Seen, LastCheck, IntegrityCheck
<1>4. j = Owner /\ ManifestParses(fs)
  BY <1>3 DEF Stands, Owner
<1>5. j \in DOMAIN runs /\ runs[j].sealed /\ \A q \in DOMAIN runs : runs[q].sealed => q <= j
  BY <1>4, ManifestRun DEF Judged, NewestManifest, Owner
<1>6. Ledger!Newest(j)
  BY <1>5 DEF Ledger!Newest, Published
<1>7. /\ DOMAIN runs' = DOMAIN runs /\ r \in DOMAIN runs /\ runs'[r] = y
      /\ \A q \in DOMAIN runs : q # r => runs'[q] = runs[q]
  BY DEF Step
<1>8. ~ Passed(r)
  BY <1>1 DEF Judging, Passed, RunOf
<1>9. UNCHANGED <<Current, Published>>
  BY <1>1, HistoryKept DEF Current, Owner
<1> HIDE DEF j, r
<1>10. PassedBundles' = PassedBundles \cup {<<r, j>>}
  <2>1. \A q \in DOMAIN runs :
            /\ Passed(q)' <=> (Passed(q) \/ q = r)
            /\ runs'[q].judged = IF q = r THEN j ELSE runs[q].judged
    BY <1>1, <1>7 DEF Passed
  <2>2. \A z : z \in PassedBundles' <=>
                  \E q \in DOMAIN runs : Passed(q)' /\ z = <<q, runs'[q].judged>>
    BY <1>7 DEF PassedBundles
  <2>3. \A z : z \in PassedBundles <=>
                  \E q \in DOMAIN runs : Passed(q) /\ z = <<q, runs[q].judged>>
    BY DEF PassedBundles
  <2>4. \A z : z \in PassedBundles' <=> z \in PassedBundles \/ z = <<r, j>>
    BY <1>7, <1>8, <2>1, <2>2, <2>3
  <2> QED
    BY <2>4
<1>11. r \in 1..MaxRuns /\ j \in 1..MaxRuns
  <2>1. runs \in Seq(Run) /\ Len(runs) <= MaxRuns /\ MaxRuns \in Nat
    BY PipelineAssumption DEF Lawful, WellTyped, RunsOK
  <2> QED
    BY <1>5, <1>7, <2>1
<1> QED
  BY <1>6, <1>9, <1>10, <1>11 DEF Ledger!Next, Ledger!Pass

LEMMA StepKeepsLedger ==
    ASSUME Lawful, Judged, NEW p \in Procs, NEW b, NEW y, Step(p, b, y)
    PROVE  [Ledger!Next]_(Ledger!ledger)
<1>1. CASE Publishing(p, b, y)
  BY <1>1, PublishStep
<1>2. CASE Concluding(p, b, y) /\ y.verdict \in {GO, CONDITIONAL_GO}
  BY <1>2, PassStep
<1>3. CASE /\ ~ Publishing(p, b, y)
           /\ ~ (Concluding(p, b, y) /\ y.verdict \in {GO, CONDITIONAL_GO})
  <2>1. HashesConsistent(fs') => HashesConsistent(fs) /\ fs'[Manifest] = fs[Manifest]
    BY <1>3, NeverRestored
  <2>2. UNCHANGED Published
    <3>1. RunOf(p).sealed \in BOOLEAN
      BY BusyRun DEF Step, Lawful, RunOf, Run
    <3>2. y.sealed = RunOf(p).sealed
      BY <1>3, <3>1
         DEF Publishing, Step, Shape, Opening, Closing, Ending, Failing, Handing,
             Checking, Concluding, Allowing, Regating, Retaining, Logging
    <3> QED
      BY <3>2, HistoryKept
  <2>3. UNCHANGED PassedBundles
    <3>1. Judging(proc[p], RunOf(p), fs, runs)
      BY DEF Step, Judged
    <3>2. CASE Concluding(p, b, y)
      <4>1. /\ y.verdict \notin {GO, CONDITIONAL_GO}
            /\ runs[proc[p].run].verdict \notin {GO, CONDITIONAL_GO}
        BY <1>3, <3>1, <3>2 DEF Concluding, Judging, RunOf
      <4>2. /\ DOMAIN runs' = DOMAIN runs /\ runs'[proc[p].run] = y
            /\ \A q \in DOMAIN runs : q # proc[p].run => runs'[q] = runs[q]
        BY DEF Step
      <4>3. \A q \in DOMAIN runs : /\ Passed(q)' <=> Passed(q)
                                   /\ Passed(q) => runs'[q].judged = runs[q].judged
        BY <4>1, <4>2 DEF Passed
      <4> QED
        BY <4>2, <4>3 DEF PassedBundles
    <3>3. CASE Checking(p, b, y)
      BY <3>1, <3>3, HistoryKept DEF Checking, Judging
    <3>4. CASE ~ Concluding(p, b, y) /\ ~ Checking(p, b, y)
      <4>1. y.verdict = RunOf(p).verdict /\ y.judged = RunOf(p).judged
        BY <3>4 DEF Step, Shape, Opening, Closing, Ending, Failing, Handing, Allowing,
                    Regating, Retaining, Logging
      <4> QED
        BY <4>1, HistoryKept
    <3> QED
      BY <3>2, <3>3, <3>4
  <2> QED
    BY <2>1, <2>2, <2>3, SpoilOrKeep
<1> QED
  BY <1>1, <1>2, <1>3

LEMMA StartKeepsLedger ==
    ASSUME Lawful, NEW p \in Procs, NEW b, NEW x, Beginning(p, b, x)
    PROVE  [Ledger!Next]_(Ledger!ledger)
<1>1. /\ UNCHANGED fs /\ DOMAIN runs' = DOMAIN runs \cup {Len(runs) + 1}
      /\ Len(runs) + 1 \notin DOMAIN runs
      /\ runs'[Len(runs) + 1] = x
      /\ \A r \in DOMAIN runs : runs'[r] = runs[r]
      /\ ~ x.sealed /\ x.verdict = "none"
  <2>1. runs \in Seq(Run)
    BY DEF Lawful, WellTyped, RunsOK
  <2>2. runs' = Append(runs, x) /\ UNCHANGED fs /\ ~ x.sealed /\ x.verdict = "none"
    BY DEF Beginning
  <2> QED
    BY <2>1, <2>2
<1>2. UNCHANGED Published
  BY <1>1 DEF Published
<1>3. UNCHANGED PassedBundles
  <2>1. \A r \in DOMAIN runs' : Passed(r)' <=> r \in DOMAIN runs /\ Passed(r)
    BY <1>1 DEF Passed, GO, CONDITIONAL_GO
  <2> QED
    BY <1>1, <2>1 DEF PassedBundles
<1> QED
  BY <1>1, <1>2, <1>3, SpoilOrKeep

LEMMA LedgerStep ==
    ASSUME Lawful, Judged, [Next]_vars
    PROVE  [Ledger!Next]_(Ledger!ledger)
<1>1. CASE UNCHANGED <<fs, runs>>
  BY <1>1 DEF Ledger!ledger, Current, Owner, Published, PassedBundles, Passed
<1>2. ASSUME NEW p \in Procs, Advance(p) \/ WriteFails(p) \/ Crash(p)
      PROVE  [Ledger!Next]_(Ledger!ledger)
  <2> PICK b, y : Step(p, b, y)
    BY <1>2, StepShape DEF Lawful
  <2> QED
    BY StepKeepsLedger
<1>3. ASSUME NEW p \in Procs, Start(p)
      PROVE  [Ledger!Next]_(Ledger!ledger)
  <2> PICK b, x : Beginning(p, b, x)
    BY <1>3, StartShape
  <2> QED
    BY StartKeepsLedger
<1> QED
  BY <1>1, <1>2, <1>3 DEF Next, Tick, vars

\* The artifacts root keeps what the ledger promises: it shows the bundle of
\* one run at a time, bundles are published in the order of their runs, one
\* that is spoiled never verifies again, and a gate passes the newest or none.
THEOREM RootKeepsLedger ==
    ASSUME Exclusive
    PROVE  Spec => KeepsLedger
<1>1. Lawful /\ Judged /\ [Next]_vars => [Ledger!Next]_(Ledger!ledger)
  BY LedgerStep
<1> QED
  BY <1>1, AlwaysJudged, LedgerInit, PTL DEF Spec, KeepsLedger, Ledger!Spec

\* An older bundle never takes the place of a newer one: what verifies is the
\* last bundle that was published, and once it is spoiled nothing does until
\* the next one.
THEOREM NewestVerifies ==
    ASSUME Exclusive
    PROVE  Spec => []Ledger!CurrentIsNewest
<1> DEFINE Inv == Published \subseteq Nat /\ Ledger!CurrentIsNewest
<1>1. Ledger!Init => Inv
  BY DEF Ledger!Init, Ledger!None, Ledger!CurrentIsNewest
<1>2. Inv /\ [Ledger!Next]_(Ledger!ledger) => Inv'
  <2> SUFFICES ASSUME Inv, [Ledger!Next]_(Ledger!ledger) PROVE Inv'
    OBVIOUS
  <2>1. CASE UNCHANGED Ledger!ledger
    BY <2>1 DEF Ledger!ledger, Ledger!CurrentIsNewest, Ledger!Newest
  <2>2. ASSUME NEW b \in 1..MaxRuns, Ledger!Publish(b) PROVE Inv'
    <3>1. \A c \in Published : c \in Nat /\ b \in Nat /\ c < b
      BY <2>2 DEF Ledger!Publish
    <3>2. Ledger!Newest(b)'
      BY <2>2, <3>1 DEF Ledger!Publish, Ledger!Newest
    <3> QED
      BY <2>2, <3>1, <3>2 DEF Ledger!Publish, Ledger!CurrentIsNewest, Ledger!Newest
  <2>3. CASE Ledger!Spoil
    BY <2>3 DEF Ledger!Spoil, Ledger!CurrentIsNewest, Ledger!Newest
  <2>4. ASSUME NEW g \in 1..MaxRuns, NEW b \in 1..MaxRuns, Ledger!Pass(g, b) PROVE Inv'
    BY <2>4 DEF Ledger!Pass, Ledger!CurrentIsNewest, Ledger!Newest
  <2> QED
    BY <2>1, <2>2, <2>3, <2>4 DEF Ledger!Next
<1>3. Inv => Ledger!CurrentIsNewest
  OBVIOUS
<1> QED
  BY <1>1, <1>2, <1>3, RootKeepsLedger, PTL DEF KeepsLedger, Ledger!Spec

-----------------------------------------------------------------------------
(***************************************************************************)
(* No false alarm.  While a pipeline runs nobody else writes, so its       *)
(* second gate reads the files as their run wrote them, all in one second; *)
(* from the first check to the last the clock stands still.  Sound         *)
(* evidence of one second then fails none of the nineteen checks.          *)
(***************************************************************************)
\* The second gate of a pipeline.
Regated(s, x) == x.kind = "pipeline" /\ s.phase \in {"check", "report"} /\ ~ s.embedded

\* The files of a generating command are all written in one second.
Dated(s, x, m, now) ==
    LET files == PlanFiles(x.payload)
    IN  /\ s.phase = "bundle" =>
               /\ \A f \in files : Has(s.todo, f) \/ m[f] = now
               /\ s.open => m[Head(s.todo)] = now
        /\ s.phase \in {"check", "report", "seal"} =>
               \A f \in files : m[f] = m[Contract]

\* There is nothing that a gate at second t could object to.
Blameless(x, store, m, t) ==
    /\ Unblemished(x.payload) /\ x.env.gateCompat # Blocked
    /\ t - m[Contract] <= x.env.critical
    /\ Glob(store, "eval_rows") = {EvalRows(x.payload.mode)}
    /\ Glob(store, "eval_summary") = {EvalSummary(x.payload.mode)}

Intact(s, x, store, rs) ==
    /\ x.env.compat # Blocked
    /\ \A f \in PlanFiles(x.payload) : Holds(store, f, s.run, rs)
    /\ s.phase = "check" => VerifyOk(store, x.env.mode, x.env.key)

Calm(s, x, store, m, now) ==
    /\ s.phase = "check" /\ s.next = 1 => s.worst = PASS
    /\ s.phase = "check" /\ Blameless(x, store, m, now) => s.worst # FAIL
    /\ s.phase = "report" /\ Blameless(x, store, m, s.second) => s.worst # FAIL

AtEase(s, x, store, m, now, rs) ==
    /\ Dated(s, x, m, now)
    /\ Regated(s, x) => Intact(s, x, store, rs) /\ Calm(s, x, store, m, now)

Unalarmed ==
    \A p \in Procs : ~ IsIdle(p) /\ RunOf(p).kind \in Generators =>
        AtEase(proc[p], RunOf(p), fs, mtime, clock, runs)

-----------------------------------------------------------------------------
\* When files are dated: a step takes no time, and opening a file dates it.
Timed(p) ==
    /\ clock' = clock
    /\ proc[p].open \/ ~ proc'[p].open => mtime' = mtime
    /\ ~ proc[p].open /\ proc'[p].open =>
           mtime' = [mtime EXCEPT ![Head(proc[p].todo)] = clock]

LEMMA StepTakesNoTime ==
    ASSUME WellTyped, NEW p \in Procs, Advance(p) \/ WriteFails(p) \/ Crash(p)
    PROVE  Timed(p)
<1>1. /\ DOMAIN proc = Procs /\ DOMAIN proc[p] = DOMAIN Idle
      /\ "open" \in DOMAIN Idle /\ ~ Idle.open
      /\ proc[p].phase \notin WritingPhases => ~ proc[p].open
  BY OpenHasDraft, NotOpen DEF WellTyped, ProcType, Idle
<1>2. CASE Open(p)
  BY <1>1, <1>2 DEF Open, Timed
<1>3. CASE Close(p) \/ EventRejected(p) \/ WriteFails(p)
  <2>1. ~ proc'[p].open /\ UNCHANGED <<mtime, clock>>
    BY <1>1, <1>3 DEF Close, EventRejected, WriteFails, Fail
  <2> QED
    BY <2>1 DEF Timed
<1>4. CASE \/ FailureReported(p) \/ SafeguardsRefuse(p) \/ SealRefused(p) \/ Generated(p)
           \/ GateDone(p) \/ VisitGone(p) \/ Logged(p) \/ Crash(p)
  <2>1. proc' = [proc EXCEPT ![p] = Idle] /\ UNCHANGED <<mtime, clock>>
    BY <1>4 DEF FailureReported, SafeguardsRefuse, SealRefused, Generated, GateDone,
                VisitGone, Logged, Crash, End
  <2> QED
    BY <1>1, <2>1 DEF Timed
<1>5. CASE \/ BundleWritten(p) \/ Evaluate(p) \/ Evaluated(p) \/ SafeguardsAllow(p)
           \/ GateAgain(p) \/ Skip(p) \/ Delete(p) \/ Retained(p)
  <2>1. proc'[p].open = proc[p].open \/ proc'[p].open = Idle.open
    <3>1. ASSUME NEW i, NEW v, NEW w,
                 proc' = [proc EXCEPT ![p].next = i, ![p].worst = v, ![p].fresh = w]
          PROVE  proc'[p].open = proc[p].open
      BY <1>1, <3>1
    <3>2. CASE Evaluate(p)
      BY <3>1, <3>2 DEF Evaluate
    <3>3. CASE BundleWritten(p)
      BY <1>1, <3>3 DEF BundleWritten
    <3>4. CASE Evaluated(p)
      BY <1>1, <3>4 DEF Evaluated
    <3>5. CASE SafeguardsAllow(p)
      BY <1>1, <3>5 DEF SafeguardsAllow
    <3>6. CASE GateAgain(p)
      BY <1>1, <3>6 DEF GateAgain, Idle
    <3>7. CASE Retained(p)
      BY <1>1, <3>7 DEF Retained
    <3>8. CASE Skip(p) \/ Delete(p)
      BY <1>1, <3>8 DEF Skip, Delete
    <3> QED
      BY <1>5, <3>2, <3>3, <3>4, <3>5, <3>6, <3>7, <3>8
  <2>2. UNCHANGED <<mtime, clock>>
    BY <1>5 DEF BundleWritten, Evaluate, Evaluated, SafeguardsAllow, GateAgain, Skip,
                Delete, Retained
  <2> QED
    BY <1>1, <2>1, <2>2 DEF Timed
<1> QED
  BY <1>2, <1>3, <1>4, <1>5 DEF Advance, Write

LEMMA StartTakesNoTime ==
    ASSUME NEW p \in Procs, Start(p)
    PROVE  UNCHANGED <<mtime, clock>>
  BY DEF Start, StartGenerator, StartBlocked, StartGate, StartRetention, Begin

\* Only the command itself moves while it generates.
LEMMA GeneratesAlone ==
    ASSUME Lawful, NEW p \in Procs, NEW b, NEW y, Step(p, b, y), NEW q \in Procs,
           ~ IsIdle(q)', RunOf(q)'.kind \in Generators
    PROVE  q = p /\ proc'[q] = b /\ RunOf(q)' = runs'[b.run]
<1>1. /\ DOMAIN proc = Procs /\ ~ IsIdle(p) /\ proc' = [proc EXCEPT ![p] = b]
      /\ runs' = [runs EXCEPT ![proc[p].run] = y] /\ proc[p].run \in DOMAIN runs
      /\ SameRun(RunOf(p), y)
  BY DEF Step, Lawful, WellTyped
<1>2. SUFFICES ASSUME q # p
               PROVE  FALSE
  BY <1>1 DEF RunOf
<1>3. proc'[q] = proc[q] /\ ~ IsIdle(q)
  BY <1>1, <1>2 DEF IsIdle
<1>4. proc[q].run # proc[p].run
  BY <1>1, <1>2, <1>3 DEF Lawful, Assigned
<1>5. RunOf(q)' = RunOf(q)
  BY <1>1, <1>3, <1>4, BusyRun DEF RunOf, Lawful
<1> QED
  BY <1>1, <1>2, <1>3, <1>5 DEF Lawful, Safe, Exclusion

\* The files of a run are neither reports nor the manifest.
LEMMA PlanFileKinds ==
    ASSUME NEW pl \in Payloads, NEW f \in PlanFiles(pl)
    PROVE  /\ f \in File /\ f # Manifest
           /\ f[1] \notin {"gate_json", "gate_md"}
  BY PlanFilesAreBundleFiles, BundleFileKinds

LEMMA ContractInPlan ==
    ASSUME NEW pl \in Payloads
    PROVE  Contract \in PlanFiles(pl)
  BY RequiredInPlan DEF RequiredPaths

-----------------------------------------------------------------------------
(***************************************************************************)
(* Sound evidence fails no check.                                          *)
(***************************************************************************)
\* What a gate reads of the files of run x.
Placed(x, store) ==
    \A f \in RequiredPaths \cup {EvalRows(x.payload.mode), EvalSummary(x.payload.mode)} :
        /\ f \in DOMAIN store /\ store[f].form = "whole"
        /\ f # Health => store[f].data = x.payload
        /\ f = Health => store[f].data = HealthSummary(x.payload, x.env, FALSE, "not_run")

LEMMA GradeOfNone ==
    ASSUME NEW fails, NEW warns, ~ fails
    PROVE  Grade(fails, warns) # FAIL
  BY DEF Grade, PASS, WARN, FAIL

LEMMA IntactIsPlaced ==
    ASSUME NEW s, NEW rs, NEW store, Intact(s, rs[s.run], store, rs),
           rs[s.run].payload \in Payloads
    PROVE  Placed(rs[s.run], store)
<1> DEFINE x == rs[s.run]
<1>1. ASSUME NEW f \in RequiredPaths \cup {EvalRows(x.payload.mode), EvalSummary(x.payload.mode)}
      PROVE  f \in DOMAIN store /\ store[f] = BundleContent(f, s.run, x.payload, x.env)
  BY RequiredInPlan DEF Intact, Holds, Exists
<1>2. ASSUME NEW f
      PROVE  /\ BundleContent(f, s.run, x.payload, x.env).form = "whole"
             /\ f # Health => BundleContent(f, s.run, x.payload, x.env).data = x.payload
             /\ f = Health => BundleContent(f, s.run, x.payload, x.env).data
                                 = HealthSummary(x.payload, x.env, FALSE, "not_run")
  BY DEF BundleContent
<1> HIDE DEF x
<1>3. Placed(x, store)
  BY <1>1, <1>2 DEF Placed
<1> QED
  BY <1>3 DEF x

LEMMA EvidencePasses ==
    ASSUME NEW x, x.payload \in Payloads, NEW store, Placed(x, store),
           Unblemished(x.payload), NEW m, NEW now
    PROVE  /\ ConnectorInventoryPresent(store) # FAIL
           /\ ToolInventoryClassified(store) # FAIL
           /\ McpInventoryClassified(store) # FAIL
           /\ RequiredAuditEventsPresent(store) # FAIL
           /\ IdentityAuthzEvidencePresence(store) # FAIL
           /\ IdentityAuthzProvenanceQuality(store) # FAIL
           /\ ArtifactCompleteness(store) # FAIL
           /\ EvidenceTamperingSignals(store) # FAIL
           /\ SourceModeQuality(store) # FAIL
           /\ OptionalArtifactDegradation(store) # FAIL
<1> DEFINE pl == x.payload
<1>1. \A f \in {Contract, Connectors, Tools, McpServers, Audit} :
          Readable(store, f) /\ Exists(store, f) /\ store[f].form # "empty"
          /\ store[f].data = pl
  BY DEF Placed, RequiredPaths, Readable, Exists, Contract, Connectors, Tools, McpServers,
         Audit, Health
<1>2. /\ pl.connectors /\ pl.tools # "empty" /\ pl.events = "complete"
      /\ ~ pl.identityGap > 50 /\ ~ pl.criticalGap > 20
  <2>1. pl.identityGap \in 0..100 /\ pl.criticalGap \in 0..100
    BY PipelineAssumption DEF Payload, Percent
  <2> QED
    BY <2>1 DEF Unblemished
<1> HIDE DEF pl
<1>3. ConnectorInventoryPresent(store) # FAIL
  BY <1>1, <1>2, GradeOfNone, Zenon DEF ConnectorInventoryPresent
<1>4. ToolInventoryClassified(store) # FAIL
  BY <1>1, <1>2, GradeOfNone, Zenon DEF ToolInventoryClassified
<1>5. McpInventoryClassified(store) # FAIL
  BY <1>1, GradeOfNone, Zenon DEF McpInventoryClassified
<1>6. RequiredAuditEventsPresent(store) # FAIL
  <2>1. pl.events \notin {"none", "incomplete"}
    BY <1>2
  <2> QED
    BY <1>1, <2>1, GradeOfNone, Zenon DEF RequiredAuditEventsPresent
<1>7. HasAuditRows(store)
  BY <1>1, <1>2 DEF HasAuditRows
<1>8. IdentityAuthzEvidencePresence(store) # FAIL
  BY <1>1, <1>2, <1>7, GradeOfNone, Zenon DEF IdentityAuthzEvidencePresence
<1>9. IdentityAuthzProvenanceQuality(store) # FAIL
  BY <1>1, <1>2, <1>7, GradeOfNone, Zenon DEF IdentityAuthzProvenanceQuality
<1>10. ArtifactCompleteness(store) # FAIL
  <2>1. {Contract, Audit, Connectors, Tools} \subseteq DOMAIN store
    BY <1>1 DEF Exists
  <2> QED
    BY <2>1, GradeOfNone, Zenon DEF ArtifactCompleteness
<1>11. EvidenceTamperingSignals(store) # FAIL
  BY <1>1, GradeOfNone, Zenon DEF EvidenceTamperingSignals
<1>12. SourceModeQuality(store) # FAIL /\ OptionalArtifactDegradation(store) # FAIL
  BY GradeOfNone DEF SourceModeQuality, OptionalArtifactDegradation
<1> QED
  BY <1>3, <1>4, <1>5, <1>6, <1>8, <1>9, <1>10, <1>11, <1>12

LEMMA HealthPasses ==
    ASSUME NEW x, x.payload \in Payloads, x.env.compat # Blocked, NEW store,
           Placed(x, store), Unblemished(x.payload)
    PROVE  ExporterDegradation(store) # FAIL /\ AdapterHealthSummary(store) # FAIL
<1> DEFINE h == HealthSummary(x.payload, x.env, FALSE, "not_run")
<1>1. Readable(store, Health) /\ store[Health].data = h
  BY DEF Placed, RequiredPaths, Readable, Exists
<1>2. h.parseFailures = x.payload.parseFailures /\ h.runStatus # "failed_run"
  BY DEF HealthSummary, RunStatus
<1>3. x.payload.parseFailures \in Nat
  BY PipelineAssumption DEF Payload
<1>4. x.payload.parseFailures < 3
  BY DEF Unblemished
<1> HIDE DEF h
<1>5. ~ h.parseFailures >= 3
  BY <1>2, <1>3, <1>4
<1>6. ExporterDegradation(store) # FAIL
  BY <1>1, <1>5, GradeOfNone, Zenon DEF ExporterDegradation
<1>7. AdapterHealthSummary(store) # FAIL
  BY <1>1, <1>2, GradeOfNone, Zenon DEF AdapterHealthSummary
<1> QED
  BY <1>6, <1>7

LEMMA EvaluationPasses ==
    ASSUME NEW x, x.payload \in Payloads, NEW store, Placed(x, store),
           Unblemished(x.payload),
           Glob(store, "eval_rows") = {EvalRows(x.payload.mode)},
           Glob(store, "eval_summary") = {EvalSummary(x.payload.mode)}
    PROVE  /\ EvalResultsPresent(store) # FAIL
           /\ ThreatControlMappingCompleteness(store) # FAIL
           /\ ArtifactSchemaValidity(store) # FAIL
           /\ CriticalFailuresOrBlockers(store) # FAIL
<1> DEFINE pl == x.payload
           f == EvalRows(pl.mode)
<1>1. f \in DOMAIN store /\ store[f].form = "whole" /\ store[f].data = pl
  <2>1. f # Health
    BY DEF EvalRows, Health
  <2> QED
    BY <2>1 DEF Placed
<1>2. pl.evals = "passing" /\ pl.mapping # "unmapped"
  BY DEF Unblemished
<1>3. EvalRowFiles(store) = {f} /\ Glob(store, "eval_summary") # {}
  BY DEF EvalRowFiles
<1>4. \A g \in {Connectors, Tools, McpServers, Audit} : Readable(store, g)
  BY DEF Placed, RequiredPaths, Readable, Exists
<1> HIDE DEF f, pl
<1>5. Readable(store, f) /\ HasEvalRows(store, f) /\ ~ ShowsFailure(store, f)
  BY <1>1, <1>2 DEF Readable, Exists, HasEvalRows, ShowsFailure
<1>6. EvalResultsPresent(store) # FAIL
  <2>1. EvalRowFiles(store) # {} /\ f \in EvalRowFiles(store)
        /\ \A g \in EvalRowFiles(store) : Readable(store, g)
    BY <1>3, <1>5
  <2> QED
    BY <1>3, <1>5, <2>1, GradeOfNone, Zenon DEF EvalResultsPresent
<1>7. ThreatControlMappingCompleteness(store) # FAIL
  <2> DEFINE filled == {g \in EvalRowFiles(store) : HasEvalRows(store, g)}
  <2>1. ~ \A g \in filled : store[g].data.mapping = "unmapped"
    BY <1>1, <1>2, <1>3, <1>5
  <2> HIDE DEF filled
  <2>2. Grade(\A g \in filled : store[g].data.mapping = "unmapped",
              \E g \in filled : store[g].data.mapping # "mapped") # FAIL
    BY <2>1, GradeOfNone, Zenon
  <2> QED
    BY <2>2 DEF ThreatControlMappingCompleteness, filled
<1>8. ArtifactSchemaValidity(store) # FAIL
  <2>1. \A g \in ({McpServers, Audit} \cap DOMAIN store) \cup EvalRowFiles(store) :
            Readable(store, g)
    BY <1>3, <1>4, <1>5
  <2> QED
    BY <1>4, <2>1, GradeOfNone, Zenon DEF ArtifactSchemaValidity
<1>9. CriticalFailuresOrBlockers(store) # FAIL
  <2>1. \A g \in EvalRowFiles(store) : Readable(store, g) /\ ~ ShowsFailure(store, g)
    BY <1>3, <1>5
  <2> QED
    BY <2>1, GradeOfNone, Zenon DEF CriticalFailuresOrBlockers
<1> QED
  BY <1>6, <1>7, <1>8, <1>9

LEMMA FreshnessPasses ==
    ASSUME NEW x, NEW store, Placed(x, store), NEW m, NEW now,
           m[Audit] = m[Contract], m[EvalSummary(x.payload.mode)] = m[Contract],
           now - m[Contract] <= x.env.critical,
           m[Contract] \in Int, now \in Int, x.env.critical \in Int,
           Glob(store, "eval_summary") = {EvalSummary(x.payload.mode)}
    PROVE  EvidenceFreshness(store, m, now, x.env) # FAIL
<1> DEFINE g == EvalSummary(x.payload.mode)
           summaries == Glob(store, "eval_summary")
           critical == {Contract, Audit} \cup summaries
           stale == {f \in critical : ~ Exists(store, f) \/ Age(m, now, f) > x.env.critical}
<1>1. \A f \in {Contract, Audit, g} : Exists(store, f)
  BY DEF Placed, RequiredPaths, Exists
<1>2. \A f \in {Contract, Audit, g} : Age(m, now, f) = now - m[Contract]
  BY DEF Age
<1>3. ~ now - m[Contract] > x.env.critical
  OBVIOUS
<1>4. critical = {Contract, Audit, g} /\ summaries # {}
  OBVIOUS
<1> HIDE DEF g, summaries
<1>5. stale = {}
  BY <1>1, <1>2, <1>3, <1>4
<1>6. ~ (\/ summaries = {}
         \/ \E f \in critical : ~ Exists(store, f) \/ Age(m, now, f) > x.env.critical)
  BY <1>4, <1>5
<1> HIDE DEF critical
<1>7. \A w : Grade(\/ summaries = {}
                   \/ \E f \in critical :
                          ~ Exists(store, f) \/ Age(m, now, f) > x.env.critical, w) # FAIL
  BY <1>6, GradeOfNone, Zenon
<1> QED
  BY <1>7 DEF EvidenceFreshness, critical, summaries

LEMMA BundlePasses ==
    ASSUME NEW x, NEW store, Placed(x, store),
           x.env.compat # Blocked, x.env.gateCompat # Blocked,
           VerifyOk(store, x.env.mode, x.env.key)
    PROVE  /\ ArtifactContractVersions(store, x.env) # FAIL
           /\ ArtifactIntegrityManifest(store, x.env) # FAIL
<1>1. ~ (~ Readable(store, Contract) \/ Blocked \in {x.env.compat, x.env.gateCompat})
  BY DEF Placed, RequiredPaths, Readable, Exists
<1>2. ArtifactContractVersions(store, x.env) # FAIL
  BY <1>1, GradeOfNone, Zenon DEF ArtifactContractVersions
<1>3. ArtifactIntegrityManifest(store, x.env) # FAIL
  BY GradeOfNone, Zenon DEF ArtifactIntegrityManifest
<1> QED
  BY <1>2, <1>3

\* The second gate of a pipeline has nothing to object to in sound evidence.
LEMMA ChecksPass ==
    ASSUME WellTyped, NEW s, NEW r \in DOMAIN runs, s.run = r, s.phase = "check",
           runs[r].payload \in Payloads,
           Dated(s, runs[r], mtime, clock), Intact(s, runs[r], fs, runs),
           Blameless(runs[r], fs, mtime, clock),
           NEW i \in 1..LastCheck
    PROVE  Check(i, fs, mtime, clock, runs[r].env) # FAIL
<1> DEFINE x == runs[r]
<1>1. Placed(x, fs)
  BY IntactIsPlaced
<1>2. /\ mtime[Contract] \in Int /\ clock \in Int /\ x.env.critical \in Int
  <2>1. x \in Run /\ x.env \in Environments
    <3>1. x \in Run
      BY DEF WellTyped, RunsOK
    <3> QED
      BY <3>1 DEF Run
  <2>2. x.env.critical \in Nat
    BY <2>1, PipelineAssumption DEF Environment
  <2>3. MaxClock \in Nat /\ Contract \in File
    BY PlanFileKinds, ContractInPlan, StoreAssumption
  <2>4. mtime[Contract] \in 0..MaxClock /\ clock \in 0..MaxClock
    BY <2>3 DEF WellTyped, ClockOK
  <2> QED
    BY <2>2, <2>3, <2>4
<1>3. mtime[Audit] = mtime[Contract] /\ mtime[EvalSummary(x.payload.mode)] = mtime[Contract]
  BY RequiredInPlan DEF Dated, RequiredPaths
<1> HIDE DEF x
<1>4. EvidenceFreshness(fs, mtime, clock, x.env) # FAIL
  BY <1>1, <1>2, <1>3, FreshnessPasses DEF x, Blameless
<1>5. /\ ArtifactContractVersions(fs, x.env) # FAIL
      /\ ArtifactIntegrityManifest(fs, x.env) # FAIL
  BY <1>1, BundlePasses DEF x, Blameless, Intact
<1>6. Unblemished(x.payload) /\ x.payload \in Payloads /\ x.env.compat # Blocked
      /\ Glob(fs, "eval_rows") = {EvalRows(x.payload.mode)}
      /\ Glob(fs, "eval_summary") = {EvalSummary(x.payload.mode)}
  BY DEF x, Blameless, Intact
<1>7. /\ ConnectorInventoryPresent(fs) # FAIL
      /\ ToolInventoryClassified(fs) # FAIL
      /\ McpInventoryClassified(fs) # FAIL
      /\ RequiredAuditEventsPresent(fs) # FAIL
      /\ IdentityAuthzEvidencePresence(fs) # FAIL
      /\ IdentityAuthzProvenanceQuality(fs) # FAIL
      /\ ArtifactCompleteness(fs) # FAIL
      /\ EvidenceTamperingSignals(fs) # FAIL
      /\ SourceModeQuality(fs) # FAIL
      /\ OptionalArtifactDegradation(fs) # FAIL
  BY <1>1, <1>6, EvidencePasses
<1>8. ExporterDegradation(fs) # FAIL /\ AdapterHealthSummary(fs) # FAIL
  BY <1>1, <1>6, HealthPasses
<1>9. /\ EvalResultsPresent(fs) # FAIL
      /\ ThreatControlMappingCompleteness(fs) # FAIL
      /\ ArtifactSchemaValidity(fs) # FAIL
      /\ CriticalFailuresOrBlockers(fs) # FAIL
  BY <1>1, <1>6, EvaluationPasses
<1>10. i \in 1..19
  BY DEF LastCheck
<1> QED
  BY <1>4, <1>5, <1>7, <1>8, <1>9, <1>10
     DEF x, Check, FreshnessCheck, IntegrityCheck, LastCheck

-----------------------------------------------------------------------------
(***************************************************************************)
(* Unalarmed is kept.                                                      *)
(***************************************************************************)
\* What is known of a generating command that takes a step.
LEMMA InHand ==
    ASSUME Lawful, Unalarmed, NEW p \in Procs, NEW b, NEW y, Step(p, b, y),
           y.kind \in Generators
    PROVE  /\ AtEase(proc[p], RunOf(p), fs, mtime, clock, runs)
           /\ RunOf(p).payload \in Payloads /\ SameRun(RunOf(p), y)
           /\ RunOf(p) = runs[proc[p].run] /\ proc[p].run \in DOMAIN runs
           /\ runs'[proc[p].run] = y /\ proc'[p] = b
           /\ ProcType(proc[p]) /\ proc[p].todo \in Seq(File)
           /\ Working(proc[p], RunOf(p)) /\ SafeProc(proc[p], fs, runs)
           /\ Tracked(proc[p], RunOf(p), fs)
<1>1. /\ ~ IsIdle(p) /\ proc[p].run \in DOMAIN runs /\ DOMAIN proc = Procs
      /\ proc' = [proc EXCEPT ![p] = b] /\ runs' = [runs EXCEPT ![proc[p].run] = y]
      /\ SameRun(RunOf(p), y)
  BY DEF Step, Lawful, WellTyped
<1>2. RunOf(p).kind \in Generators
  BY <1>1 DEF SameRun
<1>3. RunOf(p).payload \in Payloads
  BY <1>1, <1>2 DEF RunOf, Lawful, WellTyped, RunsOK
<1>4. /\ Working(proc[p], RunOf(p)) /\ SafeProc(proc[p], fs, runs)
      /\ Tracked(proc[p], RunOf(p), fs)
  BY <1>1 DEF Lawful, Assigned, Safe, Sound
<1>5. ProcType(proc[p]) /\ proc[p].todo \in Seq(File)
  BY OpenHasDraft DEF Lawful
<1> QED
  BY <1>1, <1>2, <1>3, <1>4, <1>5 DEF Unalarmed, RunOf

\* What a step of p leaves to prove: the part of p, if it generates.
LEMMA UnalarmedFrame ==
    ASSUME Lawful, NEW p \in Procs, NEW b, NEW y, Step(p, b, y),
           b.phase # "idle" => b.run = proc[p].run,
           b.phase # "idle" /\ y.kind \in Generators
               => AtEase(b, y, fs', mtime', clock', runs')
    PROVE  Unalarmed'
<1> SUFFICES ASSUME NEW q \in Procs, ~ IsIdle(q)', RunOf(q)'.kind \in Generators
             PROVE  AtEase(proc'[q], RunOf(q)', fs', mtime', clock', runs')
  BY DEF Unalarmed
<1>1. q = p /\ proc'[q] = b /\ RunOf(q)' = runs'[b.run]
  BY GeneratesAlone
<1>2. b.phase # "idle"
  BY <1>1 DEF IsIdle
<1>3. runs'[b.run] = y
  BY <1>2 DEF Step
<1> QED
  BY <1>1, <1>2, <1>3

\* A report or a manifest is none of the files that a gate reads of a run.
LEMMA ElsewhereAtEase ==
    ASSUME Lawful, Unalarmed, NEW p \in Procs, NEW b, NEW y, Step(p, b, y),
           y.kind \in Generators, SameJob(proc[p], b), b.phase = proc[p].phase,
           proc[p].phase \in {"report", "seal"}, proc[p].todo # <<>>,
           NEW c, fs' = Put(fs, Head(proc[p].todo), c),
           clock' = clock,
           \/ mtime' = mtime
           \/ mtime' = [mtime EXCEPT ![Head(proc[p].todo)] = clock]
    PROVE  AtEase(b, y, fs', mtime', clock', runs')
<1> DEFINE f == Head(proc[p].todo)
           x == RunOf(p)
<1>1. /\ AtEase(proc[p], x, fs, mtime, clock, runs) /\ x.payload \in Payloads
      /\ SameRun(x, y) /\ runs[proc[p].run] = x /\ runs'[proc[p].run] = y
  BY InHand
<1>2. f = Manifest \/ f[1] \in {"gate_json", "gate_md"}
  BY NextOfPhase DEF Step, Lawful
<1>3. f[1] \notin {"eval_rows", "eval_summary"}
  BY <1>2 DEF Manifest
<1> HIDE DEF f
<1>4. f \notin PlanFiles(x.payload)
  BY <1>1, <1>2, PlanFileKinds
<1>5. DOMAIN mtime = File
  BY DEF Lawful, WellTyped, ClockOK
<1>6. \A g \in PlanFiles(x.payload) :
          /\ mtime'[g] = mtime[g]
          /\ Exists(fs, g) => Exists(fs', g) /\ fs'[g] = fs[g]
  <2> SUFFICES ASSUME NEW g \in PlanFiles(x.payload)
               PROVE  /\ mtime'[g] = mtime[g]
                      /\ Exists(fs, g) => Exists(fs', g) /\ fs'[g] = fs[g]
    OBVIOUS
  <2>1. g # f /\ g \in File
    BY <1>1, <1>4, PlanFileKinds
  <2>2. mtime'[g] = mtime[g]
    BY <1>5, <2>1 DEF f
  <2>3. Exists(fs, g) => Exists(fs', g) /\ fs'[g] = fs[g]
    BY <2>1 DEF f, Put, Exists
  <2> QED
    BY <2>2, <2>3
<1>7. fs' = Put(fs, f, c)
  BY DEF f
<1>8. /\ Glob(fs', "eval_rows") = Glob(fs, "eval_rows")
      /\ Glob(fs', "eval_summary") = Glob(fs, "eval_summary")
  BY <1>3, <1>7 DEF Glob, Put
<1>9. /\ b.run = proc[p].run /\ b.embedded = proc[p].embedded
      /\ b.next = proc[p].next /\ b.worst = proc[p].worst /\ b.second = proc[p].second
  BY DEF SameJob
<1>10. y.payload = x.payload /\ y.env = x.env /\ y.kind = x.kind
  BY <1>1 DEF SameRun
<1>11. mtime'[Contract] = mtime[Contract]
  BY <1>1, <1>6, ContractInPlan
<1> HIDE DEF x
<1>12. Dated(b, y, mtime', clock')
  BY <1>1, <1>6, <1>10, <1>11 DEF AtEase, Dated
<1>13. ASSUME Regated(b, y)
       PROVE  Intact(b, y, fs', runs') /\ Calm(b, y, fs', mtime', clock')
  <2>1. Intact(proc[p], x, fs, runs) /\ Calm(proc[p], x, fs, mtime, clock)
    BY <1>1, <1>9, <1>10, <1>13 DEF Regated, AtEase
  <2>2. \A g \in PlanFiles(y.payload) : Holds(fs', g, b.run, runs')
    BY <1>1, <1>6, <1>9, <1>10, <2>1 DEF Intact, Holds
  <2>3. Intact(b, y, fs', runs')
    BY <1>10, <2>1, <2>2 DEF Intact
  <2>4. \A u : Blameless(y, fs', mtime', u) => Blameless(x, fs, mtime, u)
    BY <1>8, <1>10, <1>11 DEF Blameless
  <2>5. Calm(b, y, fs', mtime', clock')
    BY <1>9, <2>1, <2>4 DEF Calm
  <2> QED
    BY <2>3, <2>5
<1> QED
  BY <1>12, <1>13 DEF AtEase

LEMMA OpeningUnalarmed ==
    ASSUME Lawful, Unalarmed, NEW p \in Procs, NEW b, NEW y, Step(p, b, y), Timed(p),
           Opening(p, b, y)
    PROVE  Unalarmed'
<1> DEFINE f == Head(proc[p].todo)
           x == RunOf(p)
<1>1. /\ proc[p].phase \in WritingPhases /\ proc[p].todo # <<>>
      /\ \E c : fs' = Put(fs, f, c)
      /\ SameJob(proc[p], b) /\ b.phase = proc[p].phase /\ b.todo = proc[p].todo
  BY DEF Opening, MayWrite
<1>2. clock' = clock /\ mtime' = [mtime EXCEPT ![f] = clock]
  <2>1. proc'[p] = b
    BY DEF Step, Lawful, WellTyped
  <2> QED
    BY <2>1 DEF Timed, Opening
<1>3. ASSUME y.kind \in Generators
      PROVE  AtEase(b, y, fs', mtime', clock', runs')
  <2>1. CASE b.phase = "bundle"
    <3>1. /\ Dated(proc[p], x, mtime, clock) /\ y.payload = x.payload
          /\ x.payload \in Payloads
      BY <1>3, InHand DEF AtEase, SameRun
    <3>2. DOMAIN mtime = File
      BY DEF Lawful, WellTyped, ClockOK
    <3>3. f \in BundleFiles(x.payload)
      BY <1>1, <2>1, NextOfPhase DEF Step, Lawful
    <3>4. f \in File
      BY <3>1, <3>3, BundleFileKinds
    <3> HIDE DEF f
    <3>5. mtime'[f] = clock
      BY <1>2, <3>2, <3>4
    <3>6. ASSUME NEW g \in PlanFiles(x.payload)
          PROVE  Has(b.todo, g) \/ mtime'[g] = clock
      <4>1. Has(proc[p].todo, g) \/ mtime[g] = clock
        BY <1>1, <2>1, <3>1 DEF Dated
      <4>2. g \in File
        BY <3>1, PlanFileKinds
      <4>3. CASE g = f
        BY <3>5, <4>3
      <4>4. CASE g # f
        <5>1. mtime'[g] = mtime[g]
          BY <1>2, <3>2, <4>2, <4>4
        <5> QED
          BY <1>1, <4>1, <5>1
      <4> QED
        BY <4>3, <4>4
    <3>7. Dated(b, y, mtime', clock')
      BY <1>1, <1>2, <2>1, <3>1, <3>5, <3>6 DEF Dated, f
    <3> QED
      BY <2>1, <3>7 DEF AtEase, Regated
  <2>2. CASE b.phase \in {"report", "seal"}
    BY <1>1, <1>2, <1>3, <2>2, ElsewhereAtEase
  <2>3. CASE b.phase \in {"failing", "log"}
    BY <2>3 DEF AtEase, Dated, Regated
  <2> QED
    BY <1>1, <2>1, <2>2, <2>3 DEF WritingPhases
<1> QED
  BY <1>1, <1>3, UnalarmedFrame DEF SameJob

LEMMA ClosingUnalarmed ==
    ASSUME Lawful, Unalarmed, NEW p \in Procs, NEW b, NEW y, Step(p, b, y), Timed(p),
           Closing(p, b, y)
    PROVE  Unalarmed'
<1> DEFINE f == Head(proc[p].todo)
           x == RunOf(p)
<1>1. /\ proc[p].phase \in WritingPhases /\ proc[p].todo # <<>> /\ proc[p].open
      /\ \E c : fs' = Put(fs, f, c) /\ ~ b.open
      /\ SameJob(proc[p], b) /\ b.phase = proc[p].phase /\ b.todo = Tail(proc[p].todo)
  BY DEF Closing
<1>2. clock' = clock /\ mtime' = mtime
  BY <1>1 DEF Timed
<1>3. ASSUME y.kind \in Generators
      PROVE  AtEase(b, y, fs', mtime', clock', runs')
  <2>1. CASE b.phase = "bundle"
    <3>1. /\ Dated(proc[p], x, mtime, clock) /\ y.payload = x.payload
          /\ proc[p].todo \in Seq(File)
      BY <1>3, InHand DEF AtEase, SameRun
    <3>2. ASSUME NEW g \in PlanFiles(x.payload)
          PROVE  Has(b.todo, g) \/ mtime[g] = clock
      <4>1. Has(proc[p].todo, g) \/ mtime[g] = clock
        BY <1>1, <2>1, <3>1 DEF Dated
      <4>2. mtime[f] = clock
        BY <1>1, <2>1, <3>1 DEF Dated
      <4>3. Has(proc[p].todo, g) /\ g # f => Has(b.todo, g)
        BY <1>1, <3>1, TailKeeps
      <4> QED
        BY <4>1, <4>2, <4>3
    <3>3. Dated(b, y, mtime', clock')
      BY <1>1, <1>2, <2>1, <3>1, <3>2 DEF Dated
    <3> QED
      BY <2>1, <3>3 DEF AtEase, Regated
  <2>2. CASE b.phase \in {"report", "seal"}
    BY <1>1, <1>2, <1>3, <2>2, ElsewhereAtEase
  <2>3. CASE b.phase \in {"failing", "log"}
    BY <2>3 DEF AtEase, Dated, Regated
  <2> QED
    BY <1>1, <2>1, <2>2, <2>3 DEF WritingPhases
<1> QED
  BY <1>1, <1>3, UnalarmedFrame DEF SameJob

\* A check of sound evidence leaves the worst grade short of fail.
LEMMA CheckingUnalarmed ==
    ASSUME Lawful, Unalarmed, NEW p \in Procs, NEW b, NEW y, Step(p, b, y), Timed(p),
           Checking(p, b, y)
    PROVE  Unalarmed'
<1> DEFINE i == proc[p].next
           x == RunOf(p)
           verdict == Check(i, fs, mtime, clock, x.env)
<1>1. /\ proc[p].phase = "check" /\ i \in 1..LastCheck /\ UNCHANGED fs
      /\ b.run = proc[p].run /\ b.embedded = proc[p].embedded /\ ~ b.open
      /\ b.next = i + 1 /\ b.worst = Worse(proc[p].worst, verdict) /\ b.phase = "check"
  BY DEF Checking
<1>2. clock' = clock /\ mtime' = mtime
  <2>1. proc'[p] = b
    BY DEF Step, Lawful, WellTyped
  <2> QED
    BY <1>1, <2>1 DEF Timed
<1>3. ASSUME y.kind \in Generators
      PROVE  AtEase(b, y, fs', mtime', clock', runs')
  <2>1. /\ AtEase(proc[p], x, fs, mtime, clock, runs) /\ x.payload \in Payloads
        /\ SameRun(x, y) /\ x = runs[proc[p].run] /\ proc[p].run \in DOMAIN runs
        /\ runs'[proc[p].run] = y /\ proc[p].worst \in Grades
    BY <1>3, InHand DEF ProcType
  <2>2. y.payload = x.payload /\ y.env = x.env /\ y.kind = x.kind
    BY <2>1 DEF SameRun
  <2> HIDE DEF x, verdict, i
  <2>3. Dated(b, y, mtime', clock')
    BY <1>1, <1>2, <2>1, <2>2 DEF AtEase, Dated
  <2>4. ASSUME Regated(b, y)
        PROVE  Intact(b, y, fs', runs') /\ Calm(b, y, fs', mtime', clock')
    <3>1. Intact(proc[p], x, fs, runs) /\ Calm(proc[p], x, fs, mtime, clock)
      BY <1>1, <2>1, <2>2, <2>4 DEF Regated, AtEase
    <3>2. \A g \in PlanFiles(y.payload) : Holds(fs', g, b.run, runs')
      BY <1>1, <2>1, <2>2, <3>1 DEF Intact, Holds
    <3>3. Intact(b, y, fs', runs')
      BY <1>1, <2>2, <3>1, <3>2 DEF Intact
    <3>4. i + 1 # 1
      BY <1>1 DEF LastCheck
    <3>5. ASSUME Blameless(y, fs', mtime', clock')
          PROVE  b.worst # FAIL
      <4>1. Blameless(x, fs, mtime, clock)
        BY <1>1, <1>2, <2>2, <3>5 DEF Blameless
      <4>2. proc[p].worst # FAIL
        BY <1>1, <3>1, <4>1 DEF Calm
      <4>3. verdict # FAIL
        BY <1>1, <2>1, <3>1, <4>1, ChecksPass DEF AtEase, Lawful, verdict, x
      <4> QED
        BY <1>1, <4>2, <4>3, GradeOfNone DEF Worse
    <3>6. Calm(b, y, fs', mtime', clock')
      BY <1>1, <3>4, <3>5 DEF Calm
    <3> QED
      BY <3>3, <3>6
  <2> QED
    BY <2>3, <2>4 DEF AtEase
<1> QED
  BY <1>1, <1>3, UnalarmedFrame

LEMMA ConcludingUnalarmed ==
    ASSUME Lawful, Unalarmed, NEW p \in Procs, NEW b, NEW y, Step(p, b, y), Timed(p),
           Concluding(p, b, y)
    PROVE  Unalarmed'
<1> DEFINE x == RunOf(p)
<1>1. /\ proc[p].phase = "check" /\ UNCHANGED fs
      /\ b.run = proc[p].run /\ b.embedded = proc[p].embedded /\ ~ b.open
      /\ b.second = clock /\ b.worst = proc[p].worst /\ b.phase = "report"
  BY DEF Concluding
<1>2. clock' = clock /\ mtime' = mtime
  <2>1. proc'[p] = b
    BY DEF Step, Lawful, WellTyped
  <2> QED
    BY <1>1, <2>1 DEF Timed
<1>3. ASSUME y.kind \in Generators
      PROVE  AtEase(b, y, fs', mtime', clock', runs')
  <2>1. /\ AtEase(proc[p], x, fs, mtime, clock, runs) /\ SameRun(x, y)
        /\ x = runs[proc[p].run] /\ runs'[proc[p].run] = y
    BY <1>3, InHand
  <2>2. y.payload = x.payload /\ y.env = x.env /\ y.kind = x.kind
    BY <2>1 DEF SameRun
  <2> HIDE DEF x
  <2>3. Dated(b, y, mtime', clock')
    BY <1>1, <1>2, <2>1, <2>2 DEF AtEase, Dated
  <2>4. ASSUME Regated(b, y)
        PROVE  Intact(b, y, fs', runs') /\ Calm(b, y, fs', mtime', clock')
    <3>1. Intact(proc[p], x, fs, runs) /\ Calm(proc[p], x, fs, mtime, clock)
      BY <1>1, <2>1, <2>2, <2>4 DEF Regated, AtEase
    <3>2. \A g \in PlanFiles(y.payload) : Holds(fs', g, b.run, runs')
      BY <1>1, <2>1, <2>2, <3>1 DEF Intact, Holds
    <3>3. Intact(b, y, fs', runs')
      BY <1>1, <2>2, <3>1, <3>2 DEF Intact
    <3>4. Blameless(y, fs', mtime', b.second) => Blameless(x, fs, mtime, clock)
      BY <1>1, <1>2, <2>2 DEF Blameless
    <3>5. Calm(b, y, fs', mtime', clock')
      BY <1>1, <3>1, <3>4 DEF Calm
    <3> QED
      BY <3>3, <3>5
  <2> QED
    BY <2>3, <2>4 DEF AtEase
<1> QED
  BY <1>1, <1>3, UnalarmedFrame

\* The second gate starts over the bundle that the run has just sealed.
LEMMA RegatingUnalarmed ==
    ASSUME Lawful, Unalarmed, NEW p \in Procs, NEW b, NEW y, Step(p, b, y), Timed(p),
           Regating(p, b, y)
    PROVE  Unalarmed'
<1> DEFINE x == RunOf(p)
<1>1. /\ proc[p].phase = "seal" /\ proc[p].todo = <<>> /\ UNCHANGED fs
      /\ b.run = proc[p].run /\ ~ b.open /\ b.phase = "check" /\ b.worst = PASS
  BY DEF Regating
<1>2. clock' = clock /\ mtime' = mtime
  <2>1. proc'[p] = b
    BY DEF Step, Lawful, WellTyped
  <2> QED
    BY <1>1, <2>1 DEF Timed
<1>3. ASSUME y.kind \in Generators
      PROVE  AtEase(b, y, fs', mtime', clock', runs')
  <2>1. /\ AtEase(proc[p], x, fs, mtime, clock, runs) /\ SameRun(x, y)
        /\ x = runs[proc[p].run] /\ runs'[proc[p].run] = y
        /\ Working(proc[p], x) /\ SafeProc(proc[p], fs, runs) /\ Tracked(proc[p], x, fs)
    BY <1>3, InHand
  <2>2. y.payload = x.payload /\ y.env = x.env /\ y.kind = x.kind
    BY <2>1 DEF SameRun
  <2> HIDE DEF x
  <2>3. Dated(b, y, mtime', clock')
    BY <1>1, <1>2, <2>1, <2>2 DEF AtEase, Dated
  <2>4. proc[p].embedded /\ x.env.compat # Blocked
    BY <1>1, <2>1 DEF Working, Writable
  <2>5. \A g \in PlanFiles(x.payload) : Holds(fs, g, proc[p].run, runs)
    BY <2>1, <2>4 DEF SafeProc
  <2>6. \A g \in PlanFiles(y.payload) : Holds(fs', g, b.run, runs')
    BY <1>1, <2>1, <2>2, <2>5 DEF Holds
  <2>7. VerifyOk(fs', y.env.mode, y.env.key)
    BY <1>1, <2>1, <2>2 DEF Tracked
  <2>8. Intact(b, y, fs', runs')
    BY <2>2, <2>4, <2>6, <2>7 DEF Intact
  <2>9. Calm(b, y, fs', mtime', clock')
    BY <1>1 DEF Calm, PASS, FAIL
  <2> QED
    BY <2>3, <2>8, <2>9 DEF AtEase
<1> QED
  BY <1>1, <1>3, UnalarmedFrame

\* No other step leads to a second gate or is one of a generating command.
LEMMA QuietUnalarmed ==
    ASSUME Lawful, Unalarmed, NEW p \in Procs, NEW b, NEW y, Step(p, b, y), Timed(p),
           \/ Ending(p, b, y) \/ Failing(p, b, y) \/ Handing(p, b, y)
           \/ Allowing(p, b, y) \/ Retaining(p, b, y) \/ Logging(p, b, y)
    PROVE  Unalarmed'
<1> DEFINE x == RunOf(p)
<1>1. CASE Ending(p, b, y)
  <2>1. b.phase = "idle"
    BY <1>1 DEF Ending, Idle
  <2> QED
    BY <2>1, UnalarmedFrame
<1>2. CASE Failing(p, b, y)
  <2>1. b.phase = "failing" /\ b.run = proc[p].run
    BY <1>2 DEF Failing, SameJob
  <2>2. AtEase(b, y, fs', mtime', clock', runs')
    BY <2>1 DEF AtEase, Dated, Regated
  <2> QED
    BY <2>1, <2>2, UnalarmedFrame
<1>3. CASE Handing(p, b, y)
  <2>1. /\ proc[p].phase = "bundle" /\ proc[p].todo = <<>> /\ b.phase = "check" /\ ~ b.open
    BY <1>3 DEF Handing
  <2>2. b.run = proc[p].run /\ b.embedded
    <3>1. DOMAIN proc[p] = DOMAIN Idle
      BY OpenHasDraft DEF Lawful, ProcType
    <3> QED
      BY <1>3, <3>1 DEF Handing, SameJob, Idle
  <2>3. ASSUME y.kind \in Generators
        PROVE  AtEase(b, y, fs', mtime', clock', runs')
    <3>1. /\ Dated(proc[p], x, mtime, clock) /\ x.payload \in Payloads
          /\ y.payload = x.payload /\ proc'[p] = b
      BY <2>3, InHand DEF AtEase, SameRun
    <3>2. mtime' = mtime
      BY <2>1, <3>1 DEF Timed
    <3>3. \A g \in PlanFiles(x.payload) : mtime[g] = clock
      BY <2>1, <3>1 DEF Dated, Has
    <3>4. mtime[Contract] = clock
      BY <3>1, <3>3, ContractInPlan
    <3>5. Dated(b, y, mtime', clock')
      BY <2>1, <3>1, <3>2, <3>3, <3>4 DEF Dated
    <3> QED
      BY <2>2, <3>5 DEF AtEase, Regated
  <2> QED
    BY <2>2, <2>3, UnalarmedFrame
<1>4. CASE Allowing(p, b, y)
  <2>1. proc[p].phase = "report" /\ b.phase = "seal" /\ ~ b.open /\ b.run = proc[p].run
    BY <1>4 DEF Allowing, SameJob
  <2>2. ASSUME y.kind \in Generators
        PROVE  AtEase(b, y, fs', mtime', clock', runs')
    <3>1. Dated(proc[p], x, mtime, clock) /\ y.payload = x.payload /\ proc'[p] = b
      BY <2>2, InHand DEF AtEase, SameRun
    <3>2. mtime' = mtime
      BY <2>1, <3>1 DEF Timed
    <3>3. Dated(b, y, mtime', clock')
      BY <2>1, <3>1, <3>2 DEF Dated
    <3> QED
      BY <2>1, <3>3 DEF AtEase, Regated
  <2> QED
    BY <2>1, <2>2, UnalarmedFrame
<1>5. CASE Retaining(p, b, y) \/ Logging(p, b, y)
  <2>1. proc[p].phase = "retain" /\ b.run = proc[p].run
    BY <1>5 DEF Retaining, Logging, SameJob
  <2>2. y.kind \notin Generators
    <3>1. SUFFICES ASSUME y.kind \in Generators PROVE FALSE
      OBVIOUS
    <3>2. Working(proc[p], x) /\ x.kind = y.kind
      BY <3>1, InHand DEF SameRun
    <3> QED
      BY <2>1, <3>1, <3>2 DEF Working
  <2> QED
    BY <2>1, <2>2, UnalarmedFrame
<1> QED
  BY <1>1, <1>2, <1>3, <1>4, <1>5

LEMMA BeginningUnalarmed ==
    ASSUME Lawful, Unalarmed, NEW p \in Procs, Start(p)
    PROVE  Unalarmed'
<1> PICK b, x : Beginning(p, b, x)
  BY StartShape
<1>1. /\ runs' = Append(runs, x) /\ UNCHANGED fs /\ DOMAIN proc = Procs
      /\ UNCHANGED <<mtime, clock>>
  BY StartTakesNoTime DEF Beginning, Lawful, WellTyped
<1>2. runs'[Len(runs) + 1] = x /\ \A r \in DOMAIN runs : runs'[r] = runs[r]
  <2>1. runs \in Seq(Run)
    BY DEF Lawful, WellTyped, RunsOK
  <2> QED
    BY <1>1, <2>1
<1> SUFFICES ASSUME NEW q \in Procs, ~ IsIdle(q)', RunOf(q)'.kind \in Generators
             PROVE  AtEase(proc'[q], RunOf(q)', fs', mtime', clock', runs')
  BY DEF Unalarmed
<1>3. CASE proc'[q] = proc[q]
  <2>1. ~ IsIdle(q) /\ proc[q].run \in DOMAIN runs
    BY <1>3, BusyRun DEF IsIdle, Lawful
  <2>2. RunOf(q)' = RunOf(q) /\ runs'[proc[q].run] = runs[proc[q].run]
    BY <1>2, <1>3, <2>1 DEF RunOf
  <2>3. AtEase(proc[q], RunOf(q), fs, mtime, clock, runs)
    BY <2>1, <2>2 DEF Unalarmed
  <2>4. Intact(proc[q], RunOf(q), fs, runs) => Intact(proc[q], RunOf(q), fs, runs')
    BY <2>2 DEF Intact, Holds
  <2>5. AtEase(proc[q], RunOf(q), fs, mtime, clock, runs')
    BY <2>3, <2>4 DEF AtEase
  <2> QED
    BY <1>1, <1>3, <2>2, <2>5
<1>4. CASE proc'[q] # proc[q]
  <2>1. /\ q = p /\ proc'[q] = b /\ b.run = Len(runs) + 1
        /\ BeginsGenerator(p, b, x) \/ BeginsGate(p, b, x) \/ BeginsRetention(p, b, x)
    BY <1>1, <1>4
       DEF Beginning, BeginsGenerator, BeginsBlocked, BeginsGate, BeginsRetention, Fresh
  <2>2. RunOf(q)' = x
    BY <1>2, <2>1 DEF RunOf
  <2>3. BeginsGenerator(p, b, x)
    BY <2>1, <2>2 DEF BeginsGate, BeginsRetention, Generators
  <2>4. b.phase = "bundle" /\ b.todo = Plan(x.payload) /\ ~ b.open
    BY <2>3 DEF BeginsGenerator, Fresh
  <2>5. \A f \in PlanFiles(x.payload) : Has(b.todo, f)
    BY <2>4 DEF PlanFiles, Has
  <2>6. Dated(b, x, mtime', clock')
    BY <2>4, <2>5 DEF Dated
  <2>7. AtEase(b, x, fs', mtime', clock', runs')
    BY <2>4, <2>6 DEF AtEase, Regated
  <2> QED
    BY <2>1, <2>2, <2>7
<1> QED
  BY <1>3, <1>4

\* The clock moves between commands, and before the first check of a gate.
LEMMA TickUnalarmed ==
    ASSUME Unalarmed, Tick
    PROVE  Unalarmed'
<1> SUFFICES ASSUME NEW p \in Procs, ~ IsIdle(p)', RunOf(p)'.kind \in Generators
             PROVE  AtEase(proc[p], RunOf(p), fs, mtime, clock', runs)
  BY DEF Unalarmed, Tick, RunOf
<1>1. ~ IsIdle(p) /\ AtEase(proc[p], RunOf(p), fs, mtime, clock, runs)
  BY DEF Unalarmed, Tick, RunOf, IsIdle
<1>2. proc[p].phase = "check" /\ proc[p].next = 1
  BY <1>1 DEF Tick, Paused
<1>3. Dated(proc[p], RunOf(p), mtime, clock')
  BY <1>1, <1>2 DEF AtEase, Dated
<1>4. Calm(proc[p], RunOf(p), fs, mtime, clock)
          => Calm(proc[p], RunOf(p), fs, mtime, clock')
  BY <1>2 DEF Calm, PASS, FAIL
<1> QED
  BY <1>1, <1>3, <1>4 DEF AtEase

LEMMA UnalarmedStep ==
    ASSUME Lawful, Unalarmed, [Next]_vars
    PROVE  Unalarmed'
<1>1. CASE UNCHANGED vars
  BY <1>1 DEF Unalarmed, IsIdle, RunOf, vars
<1>2. ASSUME NEW p \in Procs, Advance(p) \/ WriteFails(p) \/ Crash(p)
      PROVE  Unalarmed'
  <2>1. Timed(p)
    BY <1>2, StepTakesNoTime DEF Lawful
  <2> PICK b, y : Step(p, b, y)
    BY <1>2, StepShape DEF Lawful
  <2> QED
    BY <2>1, OpeningUnalarmed, ClosingUnalarmed, CheckingUnalarmed, ConcludingUnalarmed,
       RegatingUnalarmed, QuietUnalarmed
       DEF Step, Shape
<1> QED
  BY <1>1, <1>2, BeginningUnalarmed, TickUnalarmed DEF Next

LEMMA UnalarmedInit == Init => Unalarmed
  BY DEF Init, Unalarmed, IsIdle, Idle

\* A report is not written before the last check has been made.
LEMMA SoundReportWarns ==
    ASSUME Lawful, Judged, NoGoAhead, Unalarmed
    PROVE  SoundPipelinePasses
<1> SUFFICES ASSUME NEW p \in Procs, ~ IsIdle(p),
                    proc[p].phase = "report", ~ proc[p].embedded,
                    RunOf(p).kind = "pipeline",
                    Blameless(RunOf(p), fs, mtime, proc[p].second)
             PROVE  proc[p].worst = WARN
  BY DEF SoundPipelinePasses, Blameless, Busy
<1>1. AtEase(proc[p], RunOf(p), fs, mtime, clock, runs)
  BY DEF Unalarmed, Generators
<1>2. proc[p].worst # FAIL
  BY <1>1 DEF AtEase, Regated, Calm
<1>3. proc[p].next > LastCheck /\ proc[p].next \in Nat /\ proc[p].worst \in Grades
  <2>1. proc[p].next > LastCheck
    BY DEF Judged, Reporting
  <2>2. ProcType(proc[p])
    BY OpenHasDraft DEF Lawful
  <2>3. proc[p].next \in 1..(LastCheck + 1) /\ proc[p].worst \in Grades
    BY <2>2 DEF ProcType
  <2> QED
    BY <2>1, <2>3 DEF LastCheck
<1>4. proc[p].next > HealthCheck
  BY <1>3 DEF LastCheck, HealthCheck
<1>5. proc[p].worst # PASS
  BY <1>4 DEF NoGoAhead, NotYetPassed
<1> QED
  BY <1>2, <1>3, <1>5 DEF Grades

\* No false alarm: whatever ran before and was left in the root, and whatever
\* is killed, the second gate of a pipeline does not block on sound and fresh
\* evidence if there is no evaluation of the other mode.
THEOREM SoundEvidencePasses ==
    ASSUME Exclusive
    PROVE  Spec => []SoundPipelinePasses
<1>1. Spec => [](Lawful /\ Judged)
  BY AlwaysJudged
<1>2. Spec => []NoGoAhead
  BY AlwaysWellTyped, NoGoInit, NoGoStep, PTL DEF Spec
<1>3. Spec => []Unalarmed
  BY <1>1, UnalarmedInit, UnalarmedStep, PTL DEF Spec
<1> QED
  BY <1>1, <1>2, <1>3, SoundReportWarns, PTL
=============================================================================
