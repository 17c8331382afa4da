---------------------------- MODULE EvidenceSafety ----------------------------
(***************************************************************************)
(* A bundle that verifies is the output of one run, and stays so: for all  *)
(* values of the constants under which generating commands run alone,      *)
(* SealedBundleIsOneRun, NoBundleOutlivesAFailedRun,                       *)
(* GenerateOkIsVerifiable and RetentionKeepsBundleVerifiable.  Any number  *)
(* of gates and retentions may overlap each other, and any number of runs  *)
(* may fail, be refused or be killed.  NewestPassingReportSurvives holds   *)
(* where no two commands overlap.                                          *)
(***************************************************************************)
EXTENDS EvidenceTypes, FiniteSetTheorems, WellFoundedInduction

PlanFiles(pl) == {Plan(pl)[i] : i \in DOMAIN Plan(pl)}

\* The store has f as run r writes it.
Holds(store, f, r, rs) ==
    /\ Exists(store, f)
    /\ store[f] = BundleContent(f, r, rs[r].payload, rs[r].env)

\* Manifest c is the one of run r, and lists every file as r wrote it.
Certifies(c, r, rs) ==
    /\ c.stamp = r
    /\ \A f \in PlanFiles(rs[r].payload) :
          /\ f \in DOMAIN c.data.entries
          /\ c.data.entries[f] = BundleContent(f, r, rs[r].payload, rs[r].env)

(***************************************************************************)
(* The inductive invariant.  A manifest is right because all files of its  *)
(* run were in place when it was built; they were, because each file is    *)
(* written or still to do in every state in between; and nobody takes one  *)
(* away meanwhile, because a generating run has no company.                *)
(***************************************************************************)
Exclusion ==
    \A p, q \in Procs :
        p # q /\ ~ IsIdle(p) /\ ~ IsIdle(q) => RunOf(p).kind \notin Generators

SafeProc(s, store, rs) ==
    /\ s.embedded => s.phase \in {"check", "report", "seal"}
    /\ s.phase = "seal" => s.embedded
    /\ s.phase = "bundle" =>
          \A f \in PlanFiles(rs[s.run].payload) :
              (\E j \in DOMAIN s.todo : s.todo[j] = f) \/ Holds(store, f, s.run, rs)
    /\ s.embedded =>
          \A f \in PlanFiles(rs[s.run].payload) : Holds(store, f, s.run, rs)
    /\ s.open /\ s.phase = "bundle" =>
          s.draft = BundleContent(Head(s.todo), s.run, rs[s.run].payload, rs[s.run].env)
    /\ s.open /\ s.phase = "seal" => Certifies(s.draft, s.run, rs)

ManifestGood(store, rs) ==
    ManifestParses(store) =>
        LET c == store[Manifest]
        IN  c.stamp \in DOMAIN rs /\ rs[c.stamp].sealed /\ Certifies(c, c.stamp, rs)

Safe ==
    /\ Exclusion
    /\ \A p \in Procs : SafeProc(proc[p], fs, runs)
    /\ ManifestGood(fs, runs)

\* Runs are only added, and a sealed run stays sealed.
Grown(rs, rt) ==
    RunsKept(rs, rt) /\ \A r \in DOMAIN rs : rs[r].sealed => rt[r].sealed

-----------------------------------------------------------------------------
LEMMA PlanFilesAreBundleFiles ==
    ASSUME NEW pl \in Payloads
    PROVE  PlanFiles(pl) \subseteq BundleFiles(pl)
  BY PlanListsBundleFiles DEF PlanFiles

LEMMA SafeIdle == ASSUME NEW store, NEW rs PROVE SafeProc(Idle, store, rs)
  BY DEF SafeProc, Idle

LEMMA SafeKept ==
    ASSUME NEW s, NEW store, NEW rs, NEW rt,
           SafeProc(s, store, rs), ProcOK(s, rs), Grown(rs, rt)
    PROVE  SafeProc(s, store, rt)
<1>1. CASE s = Idle
  BY <1>1, SafeIdle
<1>2. CASE s.run \in DOMAIN rs
  <2>1. rt[s.run].payload = rs[s.run].payload /\ rt[s.run].env = rs[s.run].env
    BY <1>2 DEF Grown, RunsKept
  <2> QED
    BY <2>1 DEF SafeProc, Holds, Certifies
<1> QED
  BY <1>1, <1>2 DEF ProcOK

LEMMA ManifestKept ==
    ASSUME NEW store, NEW rs, NEW rt, ManifestGood(store, rs), Grown(rs, rt)
    PROVE  ManifestGood(store, rt)
  BY DEF ManifestGood, Grown, RunsKept, Certifies

\* A change of the store that is not at the manifest.
LEMMA ManifestElsewhere ==
    ASSUME NEW store, NEW store2, NEW rs, ManifestGood(store, rs),
           Exists(store2, Manifest) =>
               Exists(store, Manifest) /\ store2[Manifest] = store[Manifest]
    PROVE  ManifestGood(store2, rs)
  BY DEF ManifestGood, ManifestParses, Readable

\* While one process writes or deletes, no other has a bundle in the making.
LEMMA OthersSafe ==
    ASSUME WellTyped, Exclusion, NEW p \in Procs, ~ IsIdle(p),
           NEW q \in Procs, q # p, NEW store, NEW rs
    PROVE  SafeProc(proc[q], store, rs)
<1>1. CASE IsIdle(q)
  <2>1. proc[q] = Idle
    BY <1>1 DEF WellTyped, ProcOK, IsIdle
  <2> QED
    BY <2>1, SafeIdle
<1>2. CASE ~ IsIdle(q)
  <2>1. RunOf(q).kind \notin Generators
    BY <1>2 DEF Exclusion
  <2>2. TodoOK(proc[q], runs)
    BY <1>2, BusyRun
  <2>3. proc[q].phase \notin {"bundle", "seal"} /\ ~ proc[q].embedded
    BY <2>1, <2>2 DEF TodoOK, HasPayload, RunOf
  <2> QED
    BY <2>3 DEF SafeProc
<1> QED
  BY <1>1, <1>2

\* A step of a running command.
LEMMA BusyStep ==
    ASSUME WellTyped, Safe, Grown(runs, runs'), NEW p \in Procs, ~ IsIdle(p), NEW s,
           proc' = [proc EXCEPT ![p] = s],
           s.phase = "idle" \/ s.run = proc[p].run,
           SafeProc(s, fs', runs'), ManifestGood(fs', runs')
    PROVE  Safe'
<1>1. DOMAIN proc = Procs
  BY DEF WellTyped
<1>2. \A q \in Procs : SafeProc(proc'[q], fs', runs')
  BY <1>1, OthersSafe DEF Safe
<1>3. Exclusion'
  <2> SUFFICES ASSUME NEW q \in Procs, NEW q2 \in Procs, q # q2,
                      ~ IsIdle(q)', ~ IsIdle(q2)'
               PROVE  RunOf(q).kind' \notin Generators
    BY DEF Exclusion
  <2>1. /\ ~ IsIdle(q) /\ ~ IsIdle(q2)
        /\ proc'[q].run = proc[q].run
    BY <1>1 DEF IsIdle
  <2>2. proc[q].run \in DOMAIN runs
    BY <2>1, BusyRun
  <2> QED
    BY <2>1, <2>2 DEF Safe, Exclusion, RunOf, Grown, RunsKept
<1> QED
  BY <1>2, <1>3 DEF Safe

\* The history of the runs.
LEMMA RunsGrow ==
    ASSUME WellTyped, [Next]_vars
    PROVE  Grown(runs, runs')
<1>1. CASE UNCHANGED runs
  BY <1>1 DEF Grown, RunsKept
<1>2. ASSUME NEW x, runs' = Append(runs, x)
      PROVE  Grown(runs, runs')
  <2>1. runs \in Seq(Run)
    BY DEF WellTyped, RunsOK
  <2>2. /\ DOMAIN runs = 1..Len(runs) /\ Len(runs) \in Nat
        /\ DOMAIN runs' = 1..(Len(runs) + 1)
        /\ \A r \in DOMAIN runs : runs'[r] = runs[r]
    BY <1>2, <2>1
  <2> QED
    BY <2>2 DEF Grown, RunsKept
<1>3. ASSUME NEW p \in Procs, NEW o, End(p, o)
      PROVE  Grown(runs, runs')
  BY <1>3 DEF End, Grown, RunsKept
<1>4. ASSUME NEW p \in Procs, Close(p) \/ Evaluate(p) \/ Evaluated(p)
      PROVE  Grown(runs, runs')
  <2>1. \A r \in DOMAIN runs : runs[r] \in Run
    BY DEF WellTyped, RunsOK
  <2>2. CASE Close(p)
    BY <2>1, <2>2 DEF Close, Grown, RunsKept, Run
  <2>3. CASE Evaluate(p)
    BY <2>1, <2>3 DEF Evaluate, Grown, RunsKept, Run
  <2>4. CASE Evaluated(p)
    BY <2>1, <2>4 DEF Evaluated, Grown, RunsKept, Run
  <2> QED
    BY <1>4, <2>2, <2>3, <2>4
<1>5. ASSUME NEW p \in Procs, Start(p)
      PROVE  Grown(runs, runs')
  BY <1>2, <1>5 DEF Start, StartGenerator, StartBlocked, StartGate, StartRetention, Begin
<1>6. ASSUME NEW p \in Procs, Advance(p) \/ WriteFails(p) \/ Crash(p)
      PROVE  Grown(runs, runs')
  BY <1>1, <1>3, <1>4, <1>6
     DEF Advance, Write, WriteFails, Crash, Open, EventRejected, Fail,
         FailureReported, BundleWritten, SafeguardsRefuse, SafeguardsAllow,
         SealRefused, Generated, GateAgain, GateDone, VisitGone, Skip, Delete,
         Retained, Logged
<1> QED
  BY <1>1, <1>5, <1>6 DEF Next, Tick, vars

-----------------------------------------------------------------------------
(***************************************************************************)
(* Commands start.                                                         *)
(***************************************************************************)
LEMMA BeginSafe ==
    ASSUME WellTyped, Safe, Grown(runs, runs'), Exclusive,
           NEW p \in Procs, NEW kind, NEW pl, NEW env,
           NEW s, DOMAIN s = DOMAIN Idle,
           Begin(p, kind, pl, env, s),
           SafeProc([s EXCEPT !.run = Len(runs) + 1], fs, runs')
    PROVE  Safe'
<1> DEFINE t == [s EXCEPT !.run = Len(runs) + 1]
           n == Len(runs) + 1
<1>1. /\ DOMAIN proc = Procs /\ IsIdle(p) /\ UNCHANGED fs
      /\ proc' = [proc EXCEPT ![p] = t]
      /\ runs' = Append(runs, Started(kind, pl, env, "running"))
      /\ \A q \in Procs : ~ IsIdle(q) =>
             kind \notin Generators /\ RunOf(q).kind \notin Generators
  BY DEF WellTyped, Begin, CanStart, Busy
<1>2. \A q \in Procs : SafeProc(proc'[q], fs', runs')
  <2>1. \A q \in Procs : q # p => SafeProc(proc[q], fs, runs')
    BY SafeKept DEF Safe, WellTyped
  <2> HIDE DEF t
  <2> QED
    BY <1>1, <2>1 DEF t
<1>3. ManifestGood(fs', runs')
  BY <1>1, ManifestKept DEF Safe
<1>4. runs \in Seq(Run) /\ Len(runs) \in Nat
  BY DEF WellTyped, RunsOK
<1>5. runs'[n] = Started(kind, pl, env, "running")
  BY <1>1, <1>4
<1>6. Exclusion'
  <2> SUFFICES ASSUME NEW q \in Procs, NEW q2 \in Procs, q # q2,
                      ~ IsIdle(q)', ~ IsIdle(q2)'
               PROVE  RunOf(q).kind' \notin Generators
    BY DEF Exclusion
  <2> HIDE DEF n
  <2>1. CASE q = p
    <3>1. ~ IsIdle(q2)
      BY <1>1, <2>1 DEF IsIdle
    <3>2. kind \notin Generators
      BY <1>1, <3>1
    <3>3. proc'[p].run = n
      BY <1>1 DEF n, Idle
    <3> QED
      BY <1>5, <2>1, <3>2, <3>3 DEF RunOf, Started
  <2>2. CASE q # p
    <3>1. ~ IsIdle(q) /\ proc'[q] = proc[q]
      BY <1>1, <2>2 DEF IsIdle
    <3>2. RunOf(q).kind \notin Generators /\ proc[q].run \in DOMAIN runs
      BY <1>1, <3>1, BusyRun
    <3> QED
      BY <3>1, <3>2 DEF RunOf, Grown, RunsKept
  <2> QED
    BY <2>1, <2>2
<1> QED
  BY <1>2, <1>3, <1>6 DEF Safe

LEMMA StartSafe ==
    ASSUME WellTyped, Safe, Grown(runs, runs'), Exclusive, NEW p \in Procs, Start(p)
    PROVE  Safe'
<1>1. CASE StartGenerator(p)
  <2> PICK kind \in Generators, pl \in Payloads, env \in Environments :
          Begin(p, kind, pl, env, [Idle EXCEPT !.phase = "bundle", !.todo = Plan(pl)])
    BY <1>1 DEF StartGenerator
  <2> DEFINE s == [Idle EXCEPT !.phase = "bundle", !.todo = Plan(pl)]
             t == [s EXCEPT !.run = Len(runs) + 1]
  <2>1. runs \in Seq(Run)
    BY DEF WellTyped, RunsOK
  <2>2. runs'[Len(runs) + 1] = Started(kind, pl, env, "running")
    BY <2>1 DEF Begin
  <2>3. runs'[Len(runs) + 1].payload = pl
    BY <2>2 DEF Started
  <2>4. SafeProc(t, fs, runs')
    BY <2>3 DEF SafeProc, Idle, PlanFiles
  <2> QED
    BY <2>4, BeginSafe DEF Idle
<1>2. CASE StartBlocked(p)
  <2>1. UNCHANGED <<fs, proc>> /\ \A q \in Procs : ProcOK(proc[q], runs)
    BY <1>2 DEF StartBlocked, WellTyped
  <2>2. \A q \in Procs : SafeProc(proc[q], fs, runs')
    BY <2>1, SafeKept DEF Safe
  <2>3. ManifestGood(fs, runs')
    BY ManifestKept DEF Safe
  <2>4. Exclusion'
    BY <2>1, BusyRun DEF Safe, Exclusion, IsIdle, RunOf, Grown, RunsKept
  <2> QED
    BY <2>1, <2>2, <2>3, <2>4 DEF Safe
<1>3. CASE StartGate(p)
  <2> PICK env \in Environments :
          Begin(p, "gate", NoPayload, env, [Idle EXCEPT !.phase = "check"])
    BY <1>3 DEF StartGate
  <2>1. SafeProc([[Idle EXCEPT !.phase = "check"] EXCEPT !.run = Len(runs) + 1], fs, runs')
    BY DEF SafeProc, Idle
  <2> QED
    BY <2>1, BeginSafe DEF Idle
<1>4. CASE StartRetention(p)
  <2> PICK kind \in {"retention", "retention_dry_run"}, env \in Environments :
          Begin(p, kind, NoPayload, env,
                [Idle EXCEPT !.phase  = "retain",
                             !.second = clock,
                             !.queue  = FamilyFiles(fs) \ Protected(fs, env.keep)])
    BY <1>4 DEF StartRetention
  <2>1. \A Q : SafeProc([[Idle EXCEPT !.phase = "retain", !.second = clock, !.queue = Q]
                          EXCEPT !.run = Len(runs) + 1], fs, runs')
    BY DEF SafeProc, Idle
  <2> QED
    BY <2>1, BeginSafe DEF Idle
<1> QED
  BY <1>1, <1>2, <1>3, <1>4 DEF Start

-----------------------------------------------------------------------------
(***************************************************************************)
(* Files are written.                                                      *)
(***************************************************************************)
\* The file that a process writes next, by phase.
LEMMA NextFile ==
    ASSUME WellTyped, NEW p \in Procs, ~ IsIdle(p), proc[p].todo # <<>>
    PROVE  LET f == Head(proc[p].todo)
           IN  /\ f = proc[p].todo[1] /\ 1 \in DOMAIN proc[p].todo
               /\ proc[p].phase = "bundle"  => f # Manifest
               /\ proc[p].phase = "failing" => f # Manifest
               /\ proc[p].phase = "log"     => f # Manifest
               /\ proc[p].phase = "seal"    => f = Manifest
               /\ proc[p].phase = "report"  => f # Manifest
               /\ proc[p].embedded /\ proc[p].phase \in {"report", "seal"} =>
                      f \notin PlanFiles(RunOf(p).payload)
<1> DEFINE f == Head(proc[p].todo)
<1>1. TodoOK(proc[p], runs) /\ proc[p].todo \in Seq(File)
  BY BusyRun DEF ProcType
<1>2. 1 \in DOMAIN proc[p].todo /\ f = proc[p].todo[1]
  BY <1>1
<1>3. proc[p].phase = "bundle" => f # Manifest
  BY <1>1, <1>2, BundleFileKinds DEF TodoOK, HasPayload
<1>4. /\ proc[p].phase = "failing" => f # Manifest
      /\ proc[p].phase = "log"     => f # Manifest
      /\ proc[p].phase = "report"  => f # Manifest /\ f[1] \in {"gate_json", "gate_md"}
      /\ proc[p].phase = "seal"    => f = Manifest
  BY <1>1, <1>2 DEF TodoOK, Manifest, Health, RetentionLog
<1>5. ASSUME proc[p].embedded, proc[p].phase \in {"report", "seal"}
      PROVE  f \notin PlanFiles(RunOf(p).payload)
  <2>1. RunOf(p).payload \in Payloads
    BY <1>1, <1>5 DEF TodoOK, HasPayload, RunOf
  <2>2. \A g \in PlanFiles(RunOf(p).payload) :
            g # Manifest /\ g[1] \notin {"gate_json", "gate_md"}
    BY <2>1, PlanFilesAreBundleFiles, BundleFileKinds
  <2> QED
    BY <1>4, <1>5, <2>2
<1> QED
  BY <1>2, <1>3, <1>4, <1>5

LEMMA OpenSafe ==
    ASSUME WellTyped, Safe, Grown(runs, runs'), NEW p \in Procs, Open(p)
    PROVE  Safe'
<1> DEFINE f == Head(proc[p].todo)
           c == Content(p, f)
           r == proc[p].run
           pl == runs[r].payload
           env == runs[r].env
           s == [proc[p] EXCEPT !.open = TRUE, !.draft = c]
<1>1. /\ ~ IsIdle(p) /\ proc[p].phase \in WritingPhases /\ proc[p].todo # <<>>
      /\ proc' = [proc EXCEPT ![p] = s]
      /\ UNCHANGED runs
  BY DEF Open, MayWrite, IsIdle, WritingPhases
<1>2. PICK form \in OpenForms(f, pl) : fs' = Put(fs, f, [c EXCEPT !.form = form])
  BY DEF Open, RunOf
<1>3. /\ DOMAIN proc[p] = DOMAIN Idle
      /\ SafeProc(proc[p], fs, runs)
      /\ ManifestGood(fs, runs)
      /\ TodoOK(proc[p], runs)
  BY <1>1, BusyRun DEF Safe, ProcType
<1>4. /\ s.phase = proc[p].phase /\ s.run = r /\ s.todo = proc[p].todo
      /\ s.embedded = proc[p].embedded /\ s.open = TRUE /\ s.draft = c
  BY <1>3 DEF Idle
<1>5. \A g : g # f => (Exists(fs', g) <=> Exists(fs, g))
                     /\ (Exists(fs, g) => fs'[g] = fs[g])
  BY <1>2 DEF Exists, Put
<1>6. ManifestGood(fs', runs')
  <2>1. CASE proc[p].phase = "seal"
    <3>1. f = Manifest
      BY <1>1, <2>1, NextFile
    <3>2. form = "malformed"
      BY <3>1 DEF OpenForms, HasRows, TornForms, Manifest, Audit, LineFamilies
    <3>3. DOMAIN c = {"stamp", "form", "data"}
      BY <1>1, <3>1, ContentType DEF Fits, ManifestFile
    <3>4. [c EXCEPT !.form = form].form = "malformed"
      BY <3>2, <3>3
    <3>5. fs'[Manifest].form = "malformed"
      <4> HIDE DEF c, f
      <4> QED BY <1>2, <3>1, <3>4 DEF Put
    <3> QED
      BY <3>5 DEF ManifestGood, ManifestParses, Readable
  <2>2. CASE proc[p].phase # "seal"
    <3>1. f # Manifest
      BY <1>1, <2>2, NextFile DEF WritingPhases
    <3> QED
      BY <1>1, <1>3, <1>5, <3>1, ManifestElsewhere
  <2> QED
    BY <2>1, <2>2
<1>7. SafeProc(s, fs', runs)
  <2>1. s.phase = "bundle" =>
          \A g \in PlanFiles(pl) :
              (\E j \in DOMAIN s.todo : s.todo[j] = g) \/ Holds(fs', g, r, runs)
    <3> SUFFICES ASSUME proc[p].phase = "bundle", NEW g \in PlanFiles(pl)
                 PROVE  \/ \E j \in DOMAIN proc[p].todo : proc[p].todo[j] = g
                        \/ Holds(fs', g, r, runs)
      BY <1>4
    <3>1. CASE g = f
      BY <1>1, <3>1, NextFile
    <3>2. CASE g # f
      BY <1>3, <1>5, <3>2 DEF SafeProc, Holds
    <3> QED
      BY <3>1, <3>2
  <2>2. s.embedded => \A g \in PlanFiles(pl) : Holds(fs, g, r, runs) /\ g # f
    BY <1>1, <1>3, <1>4, NextFile DEF SafeProc, RunOf, WritingPhases
  <2>3. s.embedded => \A g \in PlanFiles(pl) : Holds(fs', g, r, runs)
    BY <1>5, <2>2 DEF Holds
  <2>4. s.phase = "bundle" => c = BundleContent(f, r, pl, env)
    BY <1>4 DEF Content
  <2>5. s.phase = "seal" => Certifies(c, r, runs)
    <3> SUFFICES ASSUME proc[p].phase = "seal" PROVE Certifies(c, r, runs)
      BY <1>4
    <3> DEFINE L == Listed(pl, proc[p].second)
    <3>1. c = BuildManifest(fs, L, BuildMode(env), env.key, r)
      BY DEF Content
    <3>2. pl \in Payloads
      BY <1>3 DEF TodoOK, HasPayload
    <3>3. \A g \in PlanFiles(pl) : g \in L /\ Holds(fs, g, r, runs)
      BY <1>3, <1>4, <2>2, <3>2, PlanFilesAreBundleFiles
         DEF SafeProc, BundleFiles, Listed
    <3> HIDE DEF L, c, pl, env
    <3>4. \A g \in L \cap DOMAIN fs :
              g \in DOMAIN c.data.entries /\ c.data.entries[g] = fs[g]
      BY <3>1 DEF BuildManifest
    <3>5. c.stamp = r
      BY <3>1 DEF BuildManifest
    <3> QED
      BY <3>3, <3>4, <3>5 DEF Certifies, Holds, Exists, pl, env
  <2> HIDE DEF s, c, f
  <2> QED
    BY <1>3, <1>4, <2>1, <2>3, <2>4, <2>5 DEF SafeProc, f
<1> HIDE DEF s
<1> QED
  BY <1>1, <1>4, <1>6, <1>7, BusyStep

LEMMA CloseSafe ==
    ASSUME WellTyped, Safe, Grown(runs, runs'), NEW p \in Procs, Close(p)
    PROVE  Safe'
<1> DEFINE f == Head(proc[p].todo)
           d == proc[p].draft
           r == proc[p].run
           pl == runs[r].payload
           env == runs[r].env
           s == [proc[p] EXCEPT !.open = FALSE, !.draft = NoContent, !.todo = Tail(@)]
<1>1. /\ proc[p].open
      /\ fs' = Put(fs, f, d)
      /\ proc' = [proc EXCEPT ![p] = s]
      /\ runs' = [runs EXCEPT ![r].sealed = @ \/ proc[p].phase = "seal"]
  BY DEF Close
<1>2. ~ IsIdle(p) /\ proc[p].phase \in WritingPhases
  BY <1>1 DEF WellTyped, ProcOK, TodoOK, WritingPhases, IsIdle
<1>3. /\ DOMAIN proc[p] = DOMAIN Idle
      /\ SafeProc(proc[p], fs, runs)
      /\ ManifestGood(fs, runs)
      /\ r \in DOMAIN runs /\ runs[r] \in Run
      /\ proc[p].todo # <<>> /\ proc[p].todo \in Seq(File)
  BY <1>1, <1>2, BusyRun DEF Safe, ProcType
<1>4. /\ s.phase = proc[p].phase /\ s.run = r /\ s.todo = Tail(proc[p].todo)
      /\ s.embedded = proc[p].embedded /\ ~ s.open
  BY <1>3 DEF Idle
<1>5. \A g : g # f => (Exists(fs', g) <=> Exists(fs, g))
                     /\ (Exists(fs, g) => fs'[g] = fs[g])
  BY <1>1 DEF Exists, Put
<1>6. Exists(fs', f) /\ fs'[f] = d
  BY <1>1 DEF Exists, Put
<1>7. /\ r \in DOMAIN runs'
      /\ runs'[r].payload = pl /\ runs'[r].env = env
      /\ proc[p].phase = "seal" => runs'[r].sealed
  BY <1>1, <1>3 DEF Run
<1>8. ManifestGood(fs', runs')
  <2>1. CASE proc[p].phase = "seal"
    <3>1. f = Manifest
      BY <1>2, <1>3, <2>1, NextFile
    <3>2. Certifies(d, r, runs)
      BY <1>1, <1>3, <2>1 DEF SafeProc
    <3>3. Certifies(d, r, runs')
      BY <1>7, <3>2 DEF Certifies
    <3>4. d.stamp = r
      BY <3>2 DEF Certifies
    <3> QED
      BY <1>6, <1>7, <2>1, <3>1, <3>3, <3>4 DEF ManifestGood
  <2>2. CASE proc[p].phase # "seal"
    <3>1. f # Manifest
      BY <1>2, <1>3, <2>2, NextFile DEF WritingPhases
    <3>2. ManifestGood(fs', runs)
      BY <1>3, <1>5, <3>1, ManifestElsewhere
    <3> QED
      BY <3>2, ManifestKept
  <2> QED
    BY <2>1, <2>2
<1>9. SafeProc(s, fs', runs')
  <2>1. s.phase = "bundle" =>
          \A g \in PlanFiles(pl) :
              (\E j \in DOMAIN s.todo : s.todo[j] = g) \/ Holds(fs', g, r, runs')
    <3> SUFFICES ASSUME proc[p].phase = "bundle", NEW g \in PlanFiles(pl)
                 PROVE  \/ \E j \in DOMAIN Tail(proc[p].todo) : Tail(proc[p].todo)[j] = g
                        \/ Holds(fs', g, r, runs')
      BY <1>4
    <3>1. CASE g = f
      <4>1. d = BundleContent(f, r, pl, env)
        BY <1>1, <1>3 DEF SafeProc
      <4> QED
        BY <1>6, <1>7, <3>1, <4>1 DEF Holds
    <3>2. CASE g # f /\ Holds(fs, g, r, runs)
      BY <1>5, <1>7, <3>2 DEF Holds
    <3>3. ASSUME g # f, NEW j \in DOMAIN proc[p].todo, proc[p].todo[j] = g
          PROVE  \E k \in DOMAIN Tail(proc[p].todo) : Tail(proc[p].todo)[k] = g
      <4>1. j # 1 /\ j \in 1..Len(proc[p].todo)
        BY <1>3, <3>3
      <4>2. j - 1 \in DOMAIN Tail(proc[p].todo) /\ Tail(proc[p].todo)[j - 1] = g
        BY <1>3, <3>3, <4>1
      <4> QED
        BY <4>2
    <3> QED
      BY <1>3, <3>1, <3>2, <3>3 DEF SafeProc
  <2>2. s.embedded => \A g \in PlanFiles(pl) : Holds(fs, g, r, runs) /\ g # f
    BY <1>2, <1>3, <1>4, NextFile DEF SafeProc, RunOf, WritingPhases
  <2>3. s.embedded => \A g \in PlanFiles(pl) : Holds(fs', g, r, runs')
    BY <1>5, <1>7, <2>2 DEF Holds
  <2> HIDE DEF s
  <2> QED
    BY <1>3, <1>4, <1>7, <2>1, <2>3 DEF SafeProc
<1> HIDE DEF s
<1> QED
  BY <1>1, <1>2, <1>4, <1>8, <1>9, BusyStep

(***************************************************************************)
(* The other steps of a running command.                                   *)
(***************************************************************************)
\* One that leaves the store alone and neither opens nor writes a file.
LEMMA QuietSafe ==
    ASSUME WellTyped, Safe, Grown(runs, runs'), NEW p \in Procs, ~ IsIdle(p), NEW s,
           proc' = [proc EXCEPT ![p] = s], UNCHANGED fs,
           s = Idle \/ s.run = proc[p].run, ~ s.open, s.phase # "bundle",
           s.embedded => s.phase \in {"check", "report", "seal"},
           s.phase = "seal" => s.embedded,
           s.embedded => proc[p].embedded \/ (proc[p].phase = "bundle" /\ proc[p].todo = <<>>)
    PROVE  Safe'
<1>1. SafeProc(proc[p], fs, runs') /\ ManifestGood(fs', runs')
  BY SafeKept, ManifestKept DEF Safe, WellTyped
<1>2. s = Idle => s.phase = "idle"
  BY DEF Idle
<1>3. SafeProc(s, fs', runs')
  <2>1. CASE ~ s.embedded
    BY <2>1 DEF SafeProc
  <2>2. CASE s.embedded
    <3>1. s.run = proc[p].run
      BY <2>2 DEF Idle
    <3>2. \A f \in PlanFiles(runs'[s.run].payload) : Holds(fs, f, s.run, runs')
      BY <1>1, <2>2, <3>1 DEF SafeProc
    <3> QED
      BY <2>2, <3>2 DEF SafeProc
  <2> QED
    BY <2>1, <2>2
<1> QED
  BY <1>1, <1>2, <1>3, BusyStep

LEMMA EndSafe ==
    ASSUME WellTyped, Safe, Grown(runs, runs'), NEW p \in Procs, ~ IsIdle(p),
           NEW o, End(p, o), UNCHANGED fs
    PROVE  Safe'
<1>1. proc' = [proc EXCEPT ![p] = Idle]
  BY DEF End
<1>2. ~ Idle.open /\ Idle.phase = "idle" /\ ~ Idle.embedded
  BY DEF Idle
<1> QED
  BY <1>1, <1>2, QuietSafe

LEMMA FailSafe ==
    ASSUME WellTyped, Safe, Grown(runs, runs'), NEW p \in Procs,
           proc[p].phase = "bundle", Fail(p), ManifestGood(fs', runs')
    PROVE  Safe'
<1> DEFINE s == [proc[p] EXCEPT !.phase = "failing", !.todo = <<Health>>,
                                !.open = FALSE, !.draft = NoContent]
<1>1. ~ IsIdle(p) /\ proc' = [proc EXCEPT ![p] = s]
  BY DEF Fail, IsIdle
<1>2. DOMAIN proc[p] = DOMAIN Idle /\ ~ proc[p].embedded
  BY <1>1, BusyRun DEF Safe, SafeProc, ProcType
<1>3. s.phase = "failing" /\ s.run = proc[p].run /\ ~ s.open /\ ~ s.embedded
  BY <1>2 DEF Idle
<1>4. SafeProc(s, fs', runs')
  BY <1>3 DEF SafeProc
<1> HIDE DEF s
<1> QED
  BY <1>1, <1>3, <1>4, BusyStep

LEMMA GateSafe ==
    ASSUME WellTyped, Safe, Grown(runs, runs'), NEW p \in Procs,
           \/ BundleWritten(p) \/ Evaluate(p) \/ Evaluated(p)
           \/ SafeguardsAllow(p) \/ GateAgain(p)
    PROVE  Safe'
<1>1. ~ IsIdle(p) /\ UNCHANGED fs
  BY DEF BundleWritten, Evaluate, Evaluated, SafeguardsAllow, Reported, GateAgain,
         Sealed, IsIdle
<1>2. DOMAIN proc[p] = DOMAIN Idle /\ SafeProc(proc[p], fs, runs)
      /\ TodoOK(proc[p], runs) /\ ProcType(proc[p])
  BY <1>1, BusyRun DEF Safe, ProcType
<1>3. CASE BundleWritten(p)
  <2> DEFINE s == [proc[p] EXCEPT !.phase = "check", !.embedded = TRUE]
  <2>1. /\ proc' = [proc EXCEPT ![p] = s]
        /\ proc[p].phase = "bundle" /\ proc[p].todo = <<>>
    BY <1>3 DEF BundleWritten
  <2>2. /\ s.run = proc[p].run /\ s.phase = "check" /\ ~ s.open
    BY <1>2, <2>1 DEF Idle, ProcType
  <2> HIDE DEF s
  <2> QED
    BY <1>1, <2>1, <2>2, QuietSafe
<1>4. CASE Evaluate(p)
  <2>1. PICK n, w, fr :
          proc' = [proc EXCEPT ![p] = [proc[p] EXCEPT !.next = n, !.worst = w, !.fresh = fr]]
    BY <1>4 DEF Evaluate
  <2> DEFINE s == [proc[p] EXCEPT !.next = n, !.worst = w, !.fresh = fr]
  <2>2. proc[p].phase = "check" /\ ~ proc[p].open
    BY <1>2, <1>4 DEF Evaluate, TodoOK, WritingPhases
  <2>3. /\ s.run = proc[p].run /\ s.phase = "check" /\ ~ s.open
        /\ s.embedded = proc[p].embedded
    BY <1>2, <2>2 DEF Idle
  <2> HIDE DEF s
  <2> QED
    BY <1>1, <2>1, <2>3, QuietSafe DEF s
<1>5. CASE Evaluated(p)
  <2> DEFINE todo == <<GateJson(clock), GateMd(clock)>>
             s == [proc[p] EXCEPT !.phase = "report", !.second = clock, !.todo = todo]
  <2>1. proc' = [proc EXCEPT ![p] = s] /\ proc[p].phase = "check"
    BY <1>5 DEF Evaluated
  <2>2. ~ proc[p].open
    BY <1>2, <2>1 DEF TodoOK, WritingPhases
  <2>3. /\ s.run = proc[p].run /\ s.phase = "report" /\ ~ s.open
        /\ s.embedded = proc[p].embedded
    BY <1>2, <2>2 DEF Idle
  <2> HIDE DEF s
  <2> QED
    BY <1>1, <2>1, <2>3, QuietSafe
<1>6. CASE SafeguardsAllow(p)
  <2> DEFINE s == [proc[p] EXCEPT !.phase = "seal", !.todo = <<Manifest>>]
  <2>1. /\ proc' = [proc EXCEPT ![p] = s] /\ proc[p].embedded /\ proc[p].todo = <<>>
    BY <1>6 DEF SafeguardsAllow, Reported
  <2>2. /\ s.run = proc[p].run /\ s.phase = "seal" /\ ~ s.open
        /\ s.embedded = proc[p].embedded
    BY <1>2, <2>1 DEF Idle, ProcType
  <2> HIDE DEF s
  <2> QED
    BY <1>1, <2>1, <2>2, QuietSafe
<1>7. CASE GateAgain(p)
  <2> DEFINE s == [Idle EXCEPT !.phase = "check", !.run = proc[p].run]
  <2>1. proc' = [proc EXCEPT ![p] = s]
    BY <1>7 DEF GateAgain
  <2>2. s.run = proc[p].run /\ s.phase = "check" /\ ~ s.open /\ ~ s.embedded
    BY DEF Idle
  <2> HIDE DEF s
  <2> QED
    BY <1>1, <2>1, <2>2, QuietSafe
<1> QED
  BY <1>3, <1>4, <1>5, <1>6, <1>7

LEMMA RetentionSafe ==
    ASSUME WellTyped, Safe, Grown(runs, runs'), NEW p \in Procs,
           Skip(p) \/ Delete(p) \/ Retained(p)
    PROVE  Safe'
<1>1. ~ IsIdle(p) /\ proc[p].phase = "retain"
  BY DEF Skip, Delete, Retained, IsIdle
<1>2. DOMAIN proc[p] = DOMAIN Idle /\ SafeProc(proc[p], fs, runs)
      /\ TodoOK(proc[p], runs)
  BY <1>1, BusyRun DEF Safe, ProcType
<1>3. ~ proc[p].embedded /\ ~ proc[p].open
  BY <1>1, <1>2 DEF SafeProc, TodoOK, WritingPhases
<1>4. ManifestGood(fs', runs')
  <2>1. UNCHANGED fs \/ \E f : fs' = Unlink(fs, f)
    BY DEF Skip, Delete, Retained
  <2>2. Exists(fs', Manifest) => Exists(fs, Manifest) /\ fs'[Manifest] = fs[Manifest]
    BY <2>1 DEF Unlink, Exists
  <2>3. ManifestGood(fs', runs)
    BY <2>2, ManifestElsewhere DEF Safe
  <2> QED
    BY <2>3, ManifestKept
<1>5. CASE Skip(p) \/ Delete(p)
  <2>1. PICK f : proc' = [proc EXCEPT ![p] = [proc[p] EXCEPT !.queue = @ \ {f}]]
    BY <1>5 DEF Skip, Delete
  <2> DEFINE s == [proc[p] EXCEPT !.queue = @ \ {f}]
  <2>2. /\ s.run = proc[p].run /\ s.phase = "retain" /\ ~ s.open /\ ~ s.embedded
    BY <1>1, <1>2, <1>3 DEF Idle
  <2>3. SafeProc(s, fs', runs')
    <3> HIDE DEF s
    <3> QED BY <2>2 DEF SafeProc
  <2> HIDE DEF s
  <2> QED
    BY <1>1, <1>4, <2>1, <2>2, <2>3, BusyStep DEF s
<1>6. CASE Retained(p)
  <2> DEFINE s == [proc[p] EXCEPT !.phase = "log", !.todo = <<RetentionLog>>]
  <2>1. proc' = [proc EXCEPT ![p] = s]
    BY <1>6 DEF Retained
  <2>2. /\ s.run = proc[p].run /\ s.phase = "log" /\ ~ s.open /\ ~ s.embedded
    BY <1>2, <1>3 DEF Idle
  <2>3. SafeProc(s, fs', runs')
    <3> HIDE DEF s
    <3> QED BY <2>2 DEF SafeProc
  <2> HIDE DEF s
  <2> QED
    BY <1>1, <1>4, <2>1, <2>2, <2>3, BusyStep
<1> QED
  BY <1>5, <1>6

-----------------------------------------------------------------------------
(***************************************************************************)
(* The theorem.                                                            *)
(***************************************************************************)
LEMMA AdvanceSafe ==
    ASSUME WellTyped, Safe, Grown(runs, runs'), NEW p \in Procs,
           Advance(p) \/ WriteFails(p) \/ Crash(p)
    PROVE  Safe'
<1>1. CASE Write(p)
  BY <1>1, OpenSafe, CloseSafe DEF Write
<1>2. CASE EventRejected(p)
  <2>1. PICK c : fs' = Put(fs, Audit, c)
    BY <1>2 DEF EventRejected
  <2>2. Exists(fs', Manifest) => Exists(fs, Manifest) /\ fs'[Manifest] = fs[Manifest]
    BY <2>1 DEF Put, Exists, Audit, Manifest
  <2>3. ManifestGood(fs', runs')
    BY <2>2, ManifestElsewhere, ManifestKept DEF Safe
  <2> QED
    BY <1>2, <2>3, FailSafe DEF EventRejected, Rejects
<1>3. CASE WriteFails(p)
  <2>1. ManifestGood(fs', runs')
    BY <1>3, ManifestKept DEF WriteFails, Safe
  <2> QED
    BY <1>3, <2>1, FailSafe DEF WriteFails
<1>4. CASE \/ FailureReported(p) \/ SafeguardsRefuse(p) \/ SealRefused(p)
           \/ Generated(p) \/ GateDone(p) \/ VisitGone(p) \/ Logged(p) \/ Crash(p)
  <2>1. ~ IsIdle(p) /\ UNCHANGED fs /\ \E o : End(p, o)
    BY <1>4 DEF FailureReported, SafeguardsRefuse, SealRefused, Generated, GateDone,
                VisitGone, Logged, Crash, Reported, Sealed, IsIdle
  <2> QED
    BY <2>1, EndSafe
<1>5. CASE \/ BundleWritten(p) \/ Evaluate(p) \/ Evaluated(p)
           \/ SafeguardsAllow(p) \/ GateAgain(p)
  BY <1>5, GateSafe
<1>6. CASE Skip(p) \/ Delete(p) \/ Retained(p)
  BY <1>6, RetentionSafe
<1> QED
  BY <1>1, <1>2, <1>3, <1>4, <1>5, <1>6 DEF Advance

LEMMA SafeInit == Init => Safe
<1> SUFFICES ASSUME Init PROVE Safe
  OBVIOUS
<1>1. \A p \in Procs : IsIdle(p) /\ SafeProc(proc[p], fs, runs)
  BY SafeIdle DEF Init, IsIdle, Idle
<1>2. ManifestGood(fs, runs)
  BY DEF Init, ManifestGood, ManifestParses, Readable, Exists
<1> QED
  BY <1>1, <1>2 DEF Safe, Exclusion

LEMMA SafeStep ==
    ASSUME Exclusive, WellTyped, Safe, [Next]_vars
    PROVE  Safe'
<1>1. Grown(runs, runs')
  BY RunsGrow
<1>2. CASE UNCHANGED <<fs, runs, proc>>
  BY <1>2 DEF Safe, Exclusion, IsIdle, RunOf
<1> QED
  BY <1>1, <1>2, StartSafe, AdvanceSafe DEF Next, Tick, vars

LEMMA SafeImpliesOneRun == Safe => SealedBundleIsOneRun
<1> SUFFICES ASSUME Safe, HashesConsistent(fs)
             PROVE  /\ runs[Owner].sealed
                    /\ \A i \in DOMAIN Plan(runs[Owner].payload) :
                          Holds(fs, Plan(runs[Owner].payload)[i], Owner, runs)
  BY DEF SealedBundleIsOneRun, Holds
<1>1. ManifestParses(fs)
  BY DEF HashesConsistent, MissingRequired, MissingManifestEntries
<1>2. runs[Owner].sealed /\ Certifies(fs[Manifest], Owner, runs)
  BY <1>1 DEF Safe, ManifestGood, Owner
<1>3. \A f \in DOMAIN Entries(fs) : Exists(fs, f) /\ fs[f] = Entries(fs)[f]
  BY <1>1 DEF HashesConsistent, MissingRequired, HashMismatches, ManifestParses, Readable
<1> QED
  BY <1>2, <1>3 DEF Certifies, Entries, PlanFiles, Holds

\* Whatever the evidence, the settings and the number of runs, and whichever
\* of them fail or are killed at whichever step: if generating commands run
\* alone, files that verify are the whole output of the run that sealed them.
THEOREM SealedBundleCorrect ==
    ASSUME Exclusive
    PROVE  Spec => []SealedBundleIsOneRun
<1>1. WellTyped /\ Safe /\ [Next]_vars => Safe'
  BY SafeStep
<1> QED
  BY AlwaysWellTyped, SafeInit, <1>1, SafeImpliesOneRun, PTL DEF Spec

\* The evidence that file f of the store carries was observed, and nothing replaces it.
CarriesObserved(f) ==
    /\ fs[f].data.runtime \in {"live", "db_backed", "file_backed"}
    /\ fs[f].data.events # "none"
    /\ fs[f].data.fallbacks = 0

ProdLikeFilesAreObserved ==
    HashesConsistent(fs) /\ runs[Owner].env.profile = "prod_like" =>
        \A i \in DOMAIN Plan(runs[Owner].payload) :
            LET f == Plan(runs[Owner].payload)[i]
            IN  Exists(fs, f) /\ (f # Health => CarriesObserved(f))

\* ProdLikeObserved carried over to the files: if generating commands run alone, every file
\* of evidence in a bundle that verifies and was sealed under prod_like has passed
\* validate_profile_safeguards, whatever other runs have written there before.
THEOREM ProdLikeFilesObserved ==
    ASSUME Exclusive
    PROVE  Spec => []ProdLikeFilesAreObserved
<1>1. SealedBundleIsOneRun /\ ProdLikeBundleIsObserved => ProdLikeFilesAreObserved
  <2> SUFFICES ASSUME SealedBundleIsOneRun, ProdLikeBundleIsObserved, HashesConsistent(fs),
                      runs[Owner].env.profile = "prod_like",
                      NEW i \in DOMAIN Plan(runs[Owner].payload)
               PROVE  LET f == Plan(runs[Owner].payload)[i]
                      IN  Exists(fs, f) /\ (f # Health => CarriesObserved(f))
    BY DEF ProdLikeFilesAreObserved
  <2> DEFINE pl == runs[Owner].payload
             f == Plan(pl)[i]
  <2>1. Exists(fs, f) /\ fs[f] = BundleContent(f, Owner, pl, runs[Owner].env)
    BY DEF SealedBundleIsOneRun
  <2>2. f # Health => fs[f].data = pl
    BY <2>1 DEF BundleContent
  <2>3. /\ pl.runtime \in {"live", "db_backed", "file_backed"}
        /\ pl.events # "none"
        /\ pl.fallbacks = 0
    BY DEF ProdLikeBundleIsObserved
  <2> QED
    BY <2>1, <2>2, <2>3 DEF CarriesObserved
<1> QED
  BY <1>1, SealedBundleCorrect, ProdLikeObserved, PTL

-----------------------------------------------------------------------------
(***************************************************************************)
(* What running commands and finished runs leave in the root.              *)
(***************************************************************************)
\* The health summary, if there is one, is of run r or of a later one.
HealthSince(store, r) == Health \in DOMAIN store => store[Health].stamp >= r

\* Draft c describes the store as it is and is signed as env asks.
Matches(c, store, env) ==
    /\ c.form = "whole"
    /\ c.data.mode = BuildMode(env)
    /\ c.data.signature = IF BuildMode(env) = SignedManifest THEN env.key ELSE NoKey
    /\ CanBuild(BuildMode(env), env.key)
    /\ RequiredPaths \subseteq DOMAIN c.data.entries
    /\ \A f \in DOMAIN c.data.entries :
          f # Manifest /\ f \in DOMAIN store /\ store[f] = c.data.entries[f]

\* What no candidate of a retention may be.
Kept(store) == RequiredProtected \cup ManifestPaths(store)

Tracked(s, x, store) ==
    /\ x.kind \in Generators =>
          \/ s.phase \notin {"check", "report", "failing"}
          \/ s.phase = "failing" /\ s.todo # <<>>
          \/ HealthSince(store, s.run)
    /\ x.kind = "generate" /\ s.phase \in {"check", "report"} => s.embedded
    /\ s.open /\ s.phase = "failing" => s.draft.stamp = s.run
    /\ s.open /\ s.phase = "seal" => Matches(s.draft, store, x.env)
    /\ s.phase = "seal" /\ s.todo = <<>> => VerifyOk(store, x.env.mode, x.env.key)
    /\ s.phase = "retain" => s.queue \cap Kept(store) = {}

\* What a run that ended by itself leaves behind.
Left(r, x, store, last) ==
    x.kind \in Generators =>
        /\ x.outcome \in {"ok", "failed", "refused", "missing_outputs"}
               => HealthSince(store, r)
        /\ r = last /\ x.kind = "generate" /\ x.outcome = "ok"
               => VerifyOk(store, x.env.mode, x.env.key)

\* A generating command is the last that was started, and so is whatever runs
\* while the last one was a generating command.
Alone ==
    \A p \in Procs : ~ IsIdle(p) =>
        (RunOf(p).kind \in Generators \/ LastRun.kind \in Generators
            => proc[p].run = Len(runs))

Sound ==
    /\ Alone
    /\ \A p \in Procs : ~ IsIdle(p) => Tracked(proc[p], RunOf(p), fs)
    /\ \A r \in DOMAIN runs : Left(r, runs[r], fs, Len(runs))

-----------------------------------------------------------------------------
\* What it takes that all hashes of a manifest agree.
LEMMA HashesMeaning ==
    ASSUME NEW store
    PROVE  HashesConsistent(store) <=>
               /\ ManifestParses(store)
               /\ RequiredPaths \subseteq DOMAIN store
               /\ RequiredPaths \subseteq DOMAIN Entries(store)
               /\ \A f \in DOMAIN Entries(store) :
                      f \in DOMAIN store /\ store[f] = Entries(store)[f]
<1>1. RequiredPaths # {}
  BY DEF RequiredPaths
<1> QED
  BY <1>1 DEF HashesConsistent, MissingRequired, MissingManifestEntries,
              HashMismatches, ManifestParses, Readable, Exists

LEMMA RequiredInPlan ==
    ASSUME NEW pl \in Payloads
    PROVE  RequiredPaths \cup {EvalRows(pl.mode), EvalSummary(pl.mode)} \subseteq PlanFiles(pl)
  BY PlanHas DEF PlanFiles, Has

\* A run whose files are all in place has all that a manifest must list.
LEMMA BundleInPlace ==
    ASSUME WellTyped, Safe, NEW p \in Procs, ~ IsIdle(p),
           \/ proc[p].embedded
           \/ proc[p].phase = "seal"
           \/ proc[p].phase = "bundle" /\ proc[p].todo = <<>>
    PROVE  /\ \A f \in RequiredPaths : Holds(fs, f, proc[p].run, runs)
           /\ HealthSince(fs, proc[p].run)
<1>1. SafeProc(proc[p], fs, runs) /\ TodoOK(proc[p], runs) /\ proc[p].run \in Nat
  BY BusyRun, OpenHasDraft, PipelineAssumption DEF Safe, ProcType, Stamps
<1>2. RunOf(p).payload \in Payloads
  BY <1>1 DEF SafeProc, TodoOK, HasPayload, RunOf
<1>3. \A f \in PlanFiles(RunOf(p).payload) : Holds(fs, f, proc[p].run, runs)
  BY <1>1 DEF SafeProc, RunOf
<1>4. \A f \in RequiredPaths : Holds(fs, f, proc[p].run, runs)
  BY <1>2, <1>3, RequiredInPlan
<1>5. Health \in RequiredPaths
  BY DEF RequiredPaths
<1>6. Holds(fs, Health, proc[p].run, runs)
  BY <1>4, <1>5
<1>7. fs[Health].stamp = proc[p].run
  BY <1>6 DEF Holds, BundleContent, HasStamp
<1> QED
  BY <1>1, <1>4, <1>7 DEF HealthSince

\* A manifest that matches the store verifies once it is written.
LEMMA MatchVerifies ==
    ASSUME NEW store, NEW c, NEW env \in Environments, Matches(c, store, env)
    PROVE  VerifyOk(Put(store, Manifest, c), env.mode, env.key)
<1> DEFINE s == Put(store, Manifest, c)
<1>1. /\ Manifest \in DOMAIN s /\ s[Manifest] = c
      /\ \A f \in DOMAIN store : f # Manifest => f \in DOMAIN s /\ s[f] = store[f]
  BY DEF Put
<1> HIDE DEF s
<1>2. ManifestParses(s) /\ Entries(s) = c.data.entries
  BY <1>1 DEF ManifestParses, Readable, Exists, Entries, Matches
<1>3. HashesConsistent(s)
  BY <1>1, <1>2, HashesMeaning DEF Matches
<1>4. ~ HasSignatureErrors(s, env.mode, env.key)
  BY <1>1 DEF HasSignatureErrors, SelectedMode, SignatureVerifies, Matches, BuildMode,
              CanBuild, HashOnly, SignedManifest, NoMode
<1> QED
  BY <1>3, <1>4 DEF VerifyOk, s

\* Outside of a seal the manifest stays as it is or goes.
LEMMA ManifestStays ==
    ASSUME WellTyped, NEW p \in Procs, NEW b, NEW y, Step(p, b, y),
           proc[p].phase # "seal"
    PROVE  /\ Exists(fs', Manifest) =>
                  Exists(fs, Manifest) /\ fs'[Manifest] = fs[Manifest]
           /\ Kept(fs') \subseteq Kept(fs)
<1>1. Exists(fs', Manifest) => Exists(fs, Manifest) /\ fs'[Manifest] = fs[Manifest]
  <2>1. CASE Manifest \notin Touches(p)
    BY <2>1, Elsewhere DEF Exists
  <2>2. CASE proc[p].phase = "retain"
    <3>1. UNCHANGED fs \/ \E f : fs' = Unlink(fs, f)
      BY <2>2 DEF Step, Shape, Opening, Closing, Ending, Failing, Handing, Checking,
                  Concluding, Allowing, Regating, Retaining, Logging, MayWrite,
                  WritingPhases
    <3> QED
      BY <3>1 DEF Exists, Unlink
  <2>3. CASE proc[p].phase # "retain" /\ Manifest \in Touches(p)
    <3>1. proc[p].todo # <<>> /\ Head(proc[p].todo) = Manifest
      BY <2>3 DEF Touches
    <3>2. proc[p].phase \notin WritingPhases \ {"seal"}
      BY <3>1, NextOfPhase DEF Step
    <3>3. UNCHANGED fs
      BY <2>3, <3>2 DEF Step, Shape, Opening, Closing, Ending, Failing, Handing, Checking,
                  Concluding, Allowing, Regating, Retaining, Logging, MayWrite,
                  WritingPhases
    <3> QED
      BY <3>3
  <2> QED
    BY <2>1, <2>2, <2>3
<1> QED
  BY <1>1 DEF Kept, ManifestPaths, ManifestParses, Readable, Entries

\* A step of p as the other processes see it.
LEMMA OthersTracked ==
    ASSUME WellTyped, Safe, NEW p \in Procs, NEW b, NEW y, Step(p, b, y),
           NEW q \in Procs, q # p, ~ IsIdle(q), Tracked(proc[q], RunOf(q), fs)
    PROVE  Tracked(proc[q], RunOf(q), fs')
<1>1. RunOf(q).kind \notin Generators /\ RunOf(p).kind \notin Generators
  BY DEF Safe, Exclusion, Step
<1>2. /\ proc[q].phase \notin {"failing", "seal"}
      /\ proc[p].phase # "seal"
  BY <1>1, OpenHasDraft DEF TodoOK, HasPayload, RunOf
<1>3. Kept(fs') \subseteq Kept(fs)
  BY <1>2, ManifestStays
<1> QED
  BY <1>1, <1>2, <1>3 DEF Tracked, Generators

\* A generating command that is running is the last one.
LEMMA RunIsLast ==
    ASSUME WellTyped, Sound, NEW p \in Procs, ~ IsIdle(p)
    PROVE  /\ proc[p].run \in DOMAIN runs /\ DOMAIN runs = 1..Len(runs)
           /\ Len(runs) \in Nat
           /\ RunOf(p).kind \in Generators \/ LastRun.kind \in Generators
                 => proc[p].run = Len(runs)
<1>1. runs \in Seq(Run)
  BY DEF WellTyped, RunsOK
<1> QED
  BY <1>1, BusyRun DEF Sound, Alone

LEMMA HealthStep ==
    ASSUME WellTyped, Safe, Sound, NEW p \in Procs, NEW b, NEW y,
           Step(p, b, y), Health \in DOMAIN fs'
    PROVE  \/ Health \in DOMAIN fs /\ fs'[Health] = fs[Health]
           \/ RunOf(p).kind \in Generators /\ fs'[Health].stamp = proc[p].run
<1>1. ~ IsIdle(p) /\ TodoOK(proc[p], runs)
  BY OpenHasDraft DEF Step
<1>2. CASE Health \notin Touches(p)
  BY <1>2, Elsewhere
<1>3. CASE proc[p].phase = "retain"
  <2>1. UNCHANGED fs \/ \E f : fs' = Unlink(fs, f)
    BY <1>3 DEF Step, Shape, Opening, Closing, Ending, Failing, Handing, Checking,
                Concluding, Allowing, Regating, Retaining, Logging, MayWrite,
                WritingPhases
  <2> QED
    BY <2>1 DEF Unlink
<1>4. CASE UNCHANGED fs
  BY <1>4
<1>5. CASE proc[p].phase # "retain" /\ Health \in Touches(p) /\ fs' # fs
  <2>1. proc[p].todo # <<>> /\ Head(proc[p].todo) = Health
    BY <1>5 DEF Touches
  <2>2. Opening(p, b, y) \/ Closing(p, b, y)
    BY <1>5, <2>1 DEF Step, Shape, Ending, Failing, Handing, Checking, Concluding,
                      Allowing, Regating, Retaining, Logging, Audit, Health
  <2>3. proc[p].phase \in {"bundle", "failing"}
    <3>1. proc[p].phase \in WritingPhases
      BY <2>2 DEF Opening, Closing, MayWrite
    <3> QED
      BY <1>1, <2>1, <3>1, NextOfPhase DEF WritingPhases, Health, Manifest, RetentionLog
  <2>4. RunOf(p).kind \in Generators
    BY <1>1, <2>3 DEF TodoOK, HasPayload, RunOf
  <2>5. CASE Opening(p, b, y)
    <3> DEFINE c == Content(p, Health)
    <3>1. PICK form : fs' = Put(fs, Health, [c EXCEPT !.form = form])
      BY <2>1, <2>5 DEF Opening
    <3>2. c.stamp = proc[p].run /\ DOMAIN c = {"stamp", "form", "data"}
      BY <2>3 DEF Content, BundleContent, FailureSummary, HasStamp
    <3> HIDE DEF c
    <3>3. fs'[Health] = [c EXCEPT !.form = form]
      BY <3>1 DEF Put
    <3> QED
      BY <2>4, <3>2, <3>3
  <2>6. CASE Closing(p, b, y)
    <3>1. fs'[Health] = proc[p].draft /\ proc[p].open
      BY <2>1, <2>6 DEF Closing, Put
    <3>2. proc[p].draft.stamp = proc[p].run
      <4>1. SafeProc(proc[p], fs, runs) /\ Tracked(proc[p], RunOf(p), fs)
        BY <1>1 DEF Safe, Sound
      <4>2. CASE proc[p].phase = "bundle"
        <5>1. proc[p].draft = BundleContent(Health, proc[p].run, RunOf(p).payload,
                                            RunOf(p).env)
          BY <2>1, <3>1, <4>1, <4>2 DEF SafeProc, RunOf
        <5> QED
          BY <5>1 DEF BundleContent, HasStamp
      <4>3. CASE proc[p].phase = "failing"
        BY <3>1, <4>1, <4>3 DEF Tracked
      <4> QED
        BY <2>3, <4>2, <4>3
    <3> QED
      BY <2>4, <3>1, <3>2
  <2> QED
    BY <2>2, <2>5, <2>6
<1> QED
  BY <1>2, <1>3, <1>4, <1>5

\* Runs are numbered in the order in which they write their summaries.
LEMMA HealthKept ==
    ASSUME WellTyped, Safe, Sound, NEW p \in Procs, NEW b, NEW y, Step(p, b, y),
           NEW r \in DOMAIN runs, HealthSince(fs, r)
    PROVE  HealthSince(fs', r)
<1>1. /\ r <= Len(runs) /\ r \in Nat
      /\ RunOf(p).kind \in Generators => proc[p].run = Len(runs) /\ Len(runs) \in Nat
  BY RunIsLast DEF Step
<1> QED
  BY <1>1, HealthStep DEF HealthSince

\* What a step of p leaves to prove: the part of p, and of its run if it ends.
LEMMA SoundFrame ==
    ASSUME WellTyped, Assigned, Safe, Sound, NEW p \in Procs, NEW b, NEW y,
           Step(p, b, y),
           b.phase # "idle" => b.run = proc[p].run /\ Tracked(b, y, fs'),
           y.outcome = RunOf(p).outcome \/ Left(proc[p].run, y, fs', Len(runs))
    PROVE  Sound'
<1>1. /\ DOMAIN proc = Procs /\ ~ IsIdle(p) /\ proc[p].run \in DOMAIN runs
      /\ DOMAIN runs' = DOMAIN runs /\ Len(runs') = Len(runs)
      /\ proc'[p] = b /\ runs'[proc[p].run] = y /\ SameRun(RunOf(p), y)
      /\ \A q \in Procs : q # p => proc'[q] = proc[q]
      /\ \A r \in DOMAIN runs : r # proc[p].run => runs'[r] = runs[r]
  <2>1. runs \in Seq(Run) /\ DOMAIN proc = Procs
    BY DEF WellTyped, RunsOK
  <2>2. runs' = [runs EXCEPT ![proc[p].run] = y] /\ proc[p].run \in DOMAIN runs
    BY DEF Step
  <2>3. DOMAIN runs' = DOMAIN runs /\ Len(runs') = Len(runs)
    BY <2>1, <2>2
  <2> QED
    BY <2>1, <2>2, <2>3 DEF Step
<1>2. \A q \in Procs : ~ IsIdle(q)' =>
          /\ ~ IsIdle(q) /\ proc'[q].run = proc[q].run /\ proc[q].run \in DOMAIN runs
          /\ RunOf(q)'.kind = RunOf(q).kind
          /\ q # p => RunOf(q)' = RunOf(q)
  <2> SUFFICES ASSUME NEW q \in Procs, ~ IsIdle(q)'
               PROVE  /\ ~ IsIdle(q) /\ proc'[q].run = proc[q].run
                      /\ proc[q].run \in DOMAIN runs
                      /\ RunOf(q)'.kind = RunOf(q).kind
                      /\ q # p => RunOf(q)' = RunOf(q)
    OBVIOUS
  <2>1. CASE q = p
    BY <1>1, <2>1 DEF IsIdle, RunOf, SameRun
  <2>2. CASE q # p
    BY <1>1, <2>2, BusyRun DEF IsIdle, RunOf, Assigned
  <2> QED
    BY <2>1, <2>2
<1>3. Alone'
  <2>1. LastRun.kind' = LastRun.kind \/ Len(runs) \notin DOMAIN runs
    BY <1>1 DEF LastRun, SameRun, RunOf
  <2>2. Len(runs) \in DOMAIN runs
    BY <1>1, RunIsLast
  <2> QED
    BY <1>1, <1>2, <2>1, <2>2 DEF Alone, Sound
<1>4. \A q \in Procs : ~ IsIdle(q)' => Tracked(proc[q], RunOf(q), fs)'
  <2> SUFFICES ASSUME NEW q \in Procs, ~ IsIdle(q)'
               PROVE  Tracked(proc'[q], RunOf(q)', fs')
    OBVIOUS
  <2>1. CASE q = p
    BY <1>1, <2>1 DEF IsIdle, RunOf
  <2>2. CASE q # p
    BY <1>1, <1>2, <2>2, OthersTracked DEF Sound
  <2> QED
    BY <2>1, <2>2
<1>5. \A r \in DOMAIN runs' : Left(r, runs'[r], fs', Len(runs'))
  <2> SUFFICES ASSUME NEW r \in DOMAIN runs
               PROVE  Left(r, runs'[r], fs', Len(runs))
    BY <1>1
  <2>1. CASE r = proc[p].run
    <3>1. RunOf(p).outcome = "running"
      BY <1>1 DEF Assigned, Working
    <3> QED
      BY <1>1, <2>1, <3>1 DEF Left
  <2>2. CASE r # proc[p].run
    <3>1. runs'[r] = runs[r] /\ Left(r, runs[r], fs, Len(runs))
      BY <1>1, <2>2 DEF Sound
    <3>2. r = Len(runs) => runs[r].kind \notin Generators
      BY <1>1, <2>2, RunIsLast DEF LastRun
    <3> QED
      BY <3>1, <3>2, HealthKept DEF Left
  <2> QED
    BY <2>1, <2>2
<1> QED
  BY <1>3, <1>4, <1>5 DEF Sound

LEMMA OpeningSound ==
    ASSUME WellTyped, Assigned, Safe, Sound, NEW p \in Procs, NEW b, NEW y,
           Step(p, b, y), Opening(p, b, y)
    PROVE  Sound'
<1> DEFINE f == Head(proc[p].todo)
           c == Content(p, f)
           r == proc[p].run
           env == RunOf(p).env
<1>1. /\ ~ IsIdle(p) /\ proc[p].phase \in WritingPhases /\ proc[p].todo # <<>>
      /\ SameJob(proc[p], b) /\ b.phase = proc[p].phase /\ b.todo = proc[p].todo
      /\ b.draft = c /\ y = RunOf(p) /\ r \in DOMAIN runs
      /\ TodoOK(proc[p], runs) /\ ProcType(proc[p])
      /\ Tracked(proc[p], RunOf(p), fs)
  BY OpenHasDraft DEF Step, Opening, MayWrite, Sound
<1>2. y.kind \in Generators /\ b.phase = "report" => HealthSince(fs', b.run)
  BY <1>1, HealthKept DEF Tracked, SameJob
<1>3. b.phase = "failing" => b.draft.stamp = b.run
  BY <1>1 DEF Content, FailureSummary, SameJob
<1>4. b.phase = "seal" => Matches(c, fs', env)
  <2> SUFFICES ASSUME proc[p].phase = "seal"
               PROVE  Matches(c, fs', env)
    BY <1>1
  <2> DEFINE L == Listed(RunOf(p).payload, proc[p].second)
  <2>1. f = Manifest /\ CanBuild(BuildMode(env), env.key)
    BY <1>1, NextOfPhase DEF Opening, MayWrite
  <2>2. \A g \in DOMAIN fs : g # Manifest => g \in DOMAIN fs' /\ fs'[g] = fs[g]
    BY <2>1 DEF Opening, Put
  <2>3. RequiredPaths \subseteq DOMAIN fs /\ RequiredPaths \subseteq L
    BY <1>1, BundleInPlace DEF Holds, Exists, Listed
  <2>4. Manifest \notin L
    <3>1. RunOf(p).payload \in Payloads /\ proc[p].second \in 0..MaxClock
      BY <1>1 DEF TodoOK, HasPayload, RunOf, ProcType
    <3>2. Manifest # GateJson(proc[p].second)
      BY DEF Manifest, GateJson
    <3> QED
      BY <3>1, <3>2, ListedFiles, BundleFileKinds
  <2>5. c = BuildManifest(fs, L, BuildMode(env), env.key, r)
    BY DEF Content, RunOf
  <2> HIDE DEF L, c, env
  <2>6. /\ c.form = "whole" /\ c.data.mode = BuildMode(env)
        /\ c.data.signature = IF BuildMode(env) = SignedManifest THEN env.key ELSE NoKey
        /\ DOMAIN c.data.entries = L \cap DOMAIN fs
        /\ \A g \in L \cap DOMAIN fs : c.data.entries[g] = fs[g]
    BY <2>5 DEF BuildManifest
  <2> QED
    BY <2>1, <2>2, <2>3, <2>4, <2>6 DEF Matches, env
<1>5. Tracked(b, y, fs')
  <2> HIDE DEF c, f
  <2>1. b.phase # "retain" /\ b.phase # "check" /\ b.todo # <<>>
    BY <1>1 DEF WritingPhases
  <2>2. y.kind = "generate" /\ b.phase = "report" => b.embedded
    BY <1>1 DEF Tracked, SameJob
  <2> QED
    BY <1>1, <1>2, <1>3, <1>4, <2>1, <2>2 DEF Tracked
<1> QED
  BY <1>1, <1>5, SoundFrame DEF SameJob

LEMMA ClosingSound ==
    ASSUME WellTyped, Assigned, Safe, Sound, NEW p \in Procs, NEW b, NEW y,
           Step(p, b, y), Closing(p, b, y)
    PROVE  Sound'
<1> DEFINE f == Head(proc[p].todo)
           d == proc[p].draft
           r == proc[p].run
<1>1. /\ ~ IsIdle(p) /\ proc[p].phase \in WritingPhases /\ proc[p].todo # <<>>
      /\ proc[p].open /\ fs' = Put(fs, f, d)
      /\ SameJob(proc[p], b) /\ b.phase = proc[p].phase /\ ~ b.open
      /\ y.outcome = RunOf(p).outcome /\ SameRun(RunOf(p), y) /\ r \in DOMAIN runs
      /\ Tracked(proc[p], RunOf(p), fs) /\ RunOf(p).env \in Environments
  BY BusyRun DEF Step, Closing, Sound, RunOf, WellTyped, RunsOK, Run
<1>2. y.kind \in Generators /\ b.phase = "report" => HealthSince(fs', b.run)
  BY <1>1, HealthKept DEF Tracked, SameJob, SameRun
<1>3. b.phase = "failing" => HealthSince(fs', b.run)
  <2> SUFFICES ASSUME proc[p].phase = "failing"
               PROVE  HealthSince(fs', r)
    BY <1>1 DEF SameJob
  <2>1. f = Health /\ d.stamp = r
    BY <1>1, NextOfPhase DEF Tracked
  <2>2. r \in Nat
    BY <1>1, RunIsLast
  <2> HIDE DEF d, r, f
  <2>3. fs'[Health].stamp = r
    BY <1>1, <2>1 DEF Put
  <2> QED
    BY <2>2, <2>3 DEF HealthSince
<1>4. b.phase = "seal" => VerifyOk(fs', y.env.mode, y.env.key)
  <2> SUFFICES ASSUME proc[p].phase = "seal"
               PROVE  VerifyOk(fs', RunOf(p).env.mode, RunOf(p).env.key)
    BY <1>1 DEF SameRun
  <2>1. f = Manifest /\ Matches(d, fs, RunOf(p).env)
    BY <1>1, NextOfPhase DEF Tracked
  <2> QED
    BY <1>1, <2>1, MatchVerifies
<1>5. Tracked(b, y, fs')
  <2> HIDE DEF d, f
  <2>1. b.phase # "retain" /\ b.phase # "check"
    BY <1>1 DEF WritingPhases
  <2>2. y.kind = "generate" /\ b.phase = "report" => b.embedded
    BY <1>1 DEF Tracked, SameJob, SameRun
  <2> QED
    BY <1>1, <1>2, <1>3, <1>4, <2>1, <2>2 DEF Tracked
<1> QED
  BY <1>1, <1>5, SoundFrame DEF SameJob

LEMMA EndingSound ==
    ASSUME WellTyped, Assigned, Safe, Sound, NEW p \in Procs, NEW b, NEW y,
           Step(p, b, y), Ending(p, b, y)
    PROVE  Sound'
<1>1. /\ ~ IsIdle(p) /\ UNCHANGED fs /\ b.phase = "idle"
      /\ EndsWith(proc[p], RunOf(p), y.outcome) /\ SameRun(RunOf(p), y)
      /\ Tracked(proc[p], RunOf(p), fs) /\ Working(proc[p], RunOf(p))
  BY DEF Step, Ending, Idle, Sound, Assigned
<1>2. y.kind \in Generators /\ y.outcome # "crashed" => HealthSince(fs, proc[p].run)
  <2> SUFFICES ASSUME RunOf(p).kind \in Generators, y.outcome # "crashed"
               PROVE  HealthSince(fs, proc[p].run)
    BY <1>1 DEF SameRun
  <2>1. CASE proc[p].embedded \/ proc[p].phase = "seal"
    BY <1>1, <2>1, BundleInPlace
  <2>2. CASE ~ proc[p].embedded /\ proc[p].phase # "seal"
    BY <1>1, <2>2 DEF EndsWith, Tracked, Working
  <2> QED
    BY <2>1, <2>2
<1>3. y.kind = "generate" /\ y.outcome = "ok"
          => VerifyOk(fs, y.env.mode, y.env.key)
  BY <1>1 DEF EndsWith, Tracked, Working, SameRun, Generators
<1>4. Left(proc[p].run, y, fs', Len(runs))
  BY <1>1, <1>2, <1>3 DEF Left
<1> QED
  BY <1>1, <1>4, SoundFrame

LEMMA QuietSound ==
    ASSUME WellTyped, Assigned, Safe, Sound, NEW p \in Procs, NEW b, NEW y,
           Step(p, b, y),
           \/ Failing(p, b, y) \/ Handing(p, b, y) \/ Checking(p, b, y)
           \/ Concluding(p, b, y) \/ Allowing(p, b, y) \/ Regating(p, b, y)
           \/ Retaining(p, b, y) \/ Logging(p, b, y)
    PROVE  Sound'
<1>1. /\ ~ IsIdle(p) /\ Tracked(proc[p], RunOf(p), fs) /\ SameRun(RunOf(p), y)
      /\ y.outcome = RunOf(p).outcome
  BY DEF Step, Sound, Failing, Handing, Checking, Concluding, Allowing, Regating,
         Retaining, Logging
<1>2. b.run = proc[p].run /\ Tracked(b, y, fs')
  <2>1. CASE Failing(p, b, y)
    BY <2>1 DEF Failing, SameJob, Tracked
  <2>2. CASE Handing(p, b, y)
    <3>1. HealthSince(fs, proc[p].run)
      BY <1>1, <2>2, BundleInPlace DEF Handing
    <3>2. b.run = proc[p].run /\ b.embedded
      <4>1. DOMAIN proc[p] = DOMAIN Idle
        BY OpenHasDraft DEF ProcType
      <4> QED
        BY <2>2, <4>1 DEF Handing, SameJob, Idle
    <3> QED
      BY <2>2, <3>1, <3>2 DEF Handing, Tracked
  <2>3. CASE Checking(p, b, y)
    BY <1>1, <2>3 DEF Checking, Tracked, SameRun
  <2>4. CASE Concluding(p, b, y)
    BY <1>1, <2>4 DEF Concluding, Tracked, SameRun
  <2>5. CASE Allowing(p, b, y)
    BY <2>5 DEF Allowing, SameJob, Tracked
  <2>6. CASE Regating(p, b, y)
    <3>1. HealthSince(fs, proc[p].run)
      BY <1>1, <2>6, BundleInPlace DEF Regating
    <3> QED
      BY <2>6, <3>1 DEF Regating, Tracked
  <2>7. CASE Retaining(p, b, y)
    <3>1. Kept(fs') \subseteq Kept(fs)
      BY <2>7, ManifestStays DEF Retaining
    <3> QED
      BY <1>1, <2>7, <3>1 DEF Retaining, Tracked
  <2>8. CASE Logging(p, b, y)
    BY <2>8 DEF Logging, SameJob, Tracked
  <2> QED
    BY <2>1, <2>2, <2>3, <2>4, <2>5, <2>6, <2>7, <2>8
<1> QED
  BY <1>1, <1>2, SoundFrame

LEMMA BeginningSound ==
    ASSUME WellTyped, Sound, Exclusive, NEW p \in Procs, NEW b, NEW x,
           Beginning(p, b, x)
    PROVE  Sound'
<1> DEFINE n == Len(runs) + 1
<1>1. /\ DOMAIN proc = Procs /\ Len(runs) \in Nat /\ DOMAIN runs = 1..Len(runs)
      /\ DOMAIN runs' = 1..n /\ Len(runs') = n /\ runs'[n] = x
      /\ \A r \in DOMAIN runs : r # n /\ runs'[r] = runs[r]
      /\ UNCHANGED fs
      /\ \A q \in Procs : ~ IsIdle(q) =>
             x.kind \notin Generators /\ RunOf(q).kind \notin Generators
  <2>1. runs \in Seq(Run) /\ DOMAIN proc = Procs
    BY DEF WellTyped, RunsOK
  <2>2. runs' = Append(runs, x) /\ CanStart(x.kind) /\ UNCHANGED fs
    BY DEF Beginning
  <2> QED
    BY <2>1, <2>2 DEF CanStart, Busy
<1>2. \A q \in Procs : ~ IsIdle(q) => proc[q].run \in DOMAIN runs
  BY BusyRun
<1>3. /\ UNCHANGED proc \/ (proc' = [proc EXCEPT ![p] = b] /\ b.run = n /\ Tracked(b, x, fs))
      /\ x.outcome \in {"running", "blocked"}
  <2>1. CASE BeginsGenerator(p, b, x)
    BY <2>1 DEF BeginsGenerator, Fresh, Tracked
  <2>2. CASE BeginsBlocked(x)
    BY <2>2 DEF BeginsBlocked
  <2>3. CASE BeginsGate(p, b, x)
    BY <2>3 DEF BeginsGate, Fresh, Tracked, Generators
  <2>4. CASE BeginsRetention(p, b, x)
    <3>1. b.queue \cap Kept(fs) = {}
      BY <2>4 DEF BeginsRetention, Kept, Protected
    <3> QED
      BY <2>4, <3>1 DEF BeginsRetention, Fresh, Tracked, Generators
  <2> QED
    BY <2>1, <2>2, <2>3, <2>4 DEF Beginning
<1>4. \A q \in Procs : ~ IsIdle(q)' =>
          \/ ~ IsIdle(q) /\ proc'[q] = proc[q] /\ RunOf(q)' = RunOf(q)
          \/ proc'[q].run = n /\ RunOf(q)' = x /\ Tracked(proc'[q], x, fs)
  BY <1>1, <1>2, <1>3 DEF IsIdle, RunOf
<1>5. Alone'
  BY <1>1, <1>4 DEF Alone, LastRun
<1>6. \A q \in Procs : ~ IsIdle(q)' => Tracked(proc[q], RunOf(q), fs)'
  BY <1>1, <1>4 DEF Sound
<1>7. \A r \in DOMAIN runs' : Left(r, runs'[r], fs', Len(runs'))
  <2> SUFFICES ASSUME NEW r \in DOMAIN runs'
               PROVE  Left(r, runs'[r], fs, n)
    BY <1>1
  <2>1. CASE r = n
    BY <1>1, <1>3, <2>1 DEF Left
  <2>2. CASE r # n
    BY <1>1, <2>2 DEF Left, Sound
  <2> QED
    BY <2>1, <2>2
<1> QED
  BY <1>5, <1>6, <1>7 DEF Sound

LEMMA SoundInit == Init => Sound
<1> SUFFICES ASSUME Init
             PROVE  Sound
  OBVIOUS
<1>1. \A p \in Procs : IsIdle(p)
  BY DEF Init, IsIdle, Idle
<1>2. DOMAIN runs = {}
  BY DEF Init
<1> QED
  BY <1>1, <1>2 DEF Sound, Alone

LEMMA SoundStep ==
    ASSUME Exclusive, WellTyped, Assigned, Safe, Sound, [Next]_vars
    PROVE  Sound'
<1>1. CASE UNCHANGED <<fs, runs, proc>>
  BY <1>1 DEF Sound, Alone, IsIdle, RunOf, LastRun
<1>2. ASSUME NEW p \in Procs, Advance(p) \/ WriteFails(p) \/ Crash(p)
      PROVE  Sound'
  <2> PICK b, y : Step(p, b, y)
    BY <1>2, StepShape
  <2> QED
    BY OpeningSound, ClosingSound, EndingSound, QuietSound DEF Step, Shape
<1>3. ASSUME NEW p \in Procs, Start(p)
      PROVE  Sound'
  BY <1>3, StartShape, BeginningSound
<1> QED
  BY <1>1, <1>2, <1>3 DEF Next, Tick, vars

\* Everything that holds while generating commands run alone.
LEMMA AlwaysSound ==
    ASSUME Exclusive
    PROVE  Spec => [](WellTyped /\ Assigned /\ Safe /\ Sound)
<1>1. WellTyped /\ Assigned /\ Safe /\ Sound /\ [Next]_vars => Safe' /\ Sound'
  BY SafeStep, SoundStep
<1>2. Spec => []WellTyped /\ []Assigned
  BY AlwaysWellTyped, AlwaysAssigned, PTL
<1> QED
  BY <1>1, <1>2, SafeInit, SoundInit, PTL DEF Spec

\* A verifying bundle holds the summary of the run that sealed it; every later
\* run that failed or was refused has written a newer one over it first.
THEOREM FailedRunSpoilsOlderBundle ==
    ASSUME Exclusive
    PROVE  Spec => []NoBundleOutlivesAFailedRun
<1>1. WellTyped /\ Assigned /\ Safe /\ Sound => NoBundleOutlivesAFailedRun
  <2> SUFFICES ASSUME WellTyped, Assigned, Safe, Sound, HashesConsistent(fs),
                      NEW r \in DOMAIN runs, r > Owner, runs[r].kind \in Generators
               PROVE  runs[r].outcome \in {"running", "blocked", "crashed"}
    BY DEF NoBundleOutlivesAFailedRun
  <2>1. ManifestParses(fs) /\ Health \in DOMAIN fs
        /\ Health \in DOMAIN Entries(fs) /\ fs[Health] = Entries(fs)[Health]
    BY HashesMeaning DEF RequiredPaths
  <2>2. Owner \in DOMAIN runs /\ runs[Owner].sealed /\ Certifies(fs[Manifest], Owner, runs)
    BY <2>1 DEF Safe, ManifestGood, Owner
  <2>3. r \in Nat /\ Owner \in Nat /\ runs[r] \in Run
    BY <2>2 DEF WellTyped, RunsOK
  <2>4. fs[Health].stamp = Owner
    <3>1. runs[Owner].payload \in Payloads
      BY <2>2 DEF Assigned, Sealable, WellTyped, RunsOK
    <3>2. Health \in PlanFiles(runs[Owner].payload)
      BY <3>1, RequiredInPlan DEF RequiredPaths
    <3>3. fs[Health] = BundleContent(Health, Owner, runs[Owner].payload, runs[Owner].env)
      BY <2>1, <2>2, <3>2 DEF Certifies, Entries
    <3> QED
      BY <3>3 DEF BundleContent, HasStamp
  <2>5. ~ HealthSince(fs, r)
    BY <2>1, <2>3, <2>4 DEF HealthSince
  <2> QED
    BY <2>3, <2>5 DEF Sound, Left, Run, Outcomes
<1> QED
  BY <1>1, AlwaysSound, PTL

\* What generate_artifacts has just returned verifies under the settings it
\* ran with: the manifest lists the files as they lie there, all that the
\* verifier requires among them, and is signed in the mode it asks for.
THEOREM GenerateVerifies ==
    ASSUME Exclusive
    PROVE  Spec => []GenerateOkIsVerifiable
<1>1. WellTyped /\ Sound => GenerateOkIsVerifiable
  <2> SUFFICES ASSUME WellTyped, Sound, runs # <<>>, LastRun.kind = "generate",
                      LastRun.outcome = "ok"
               PROVE  VerifyOk(fs, LastRun.env.mode, LastRun.env.key)
    BY DEF GenerateOkIsVerifiable
  <2>1. runs \in Seq(Run)
    BY DEF WellTyped, RunsOK
  <2>2. Len(runs) \in DOMAIN runs
    BY <2>1
  <2> QED
    BY <2>2 DEF Sound, Left, LastRun, Generators
<1> QED
  BY <1>1, AlwaysSound, PTL

LEMMA UnlinkKeepsHashes ==
    ASSUME NEW store, HashesConsistent(store), NEW f, f \notin Kept(store)
    PROVE  HashesConsistent(Unlink(store, f))
<1> DEFINE s == Unlink(store, f)
<1>1. ManifestParses(store) /\ f # Manifest /\ f \notin RequiredPaths
      /\ f \notin DOMAIN Entries(store)
  BY HashesMeaning DEF Kept, RequiredProtected, ManifestPaths
<1>2. \A g : g # f => /\ g \in DOMAIN s <=> g \in DOMAIN store
                      /\ g \in DOMAIN store => s[g] = store[g]
  BY DEF Unlink
<1> HIDE DEF s
<1>3. ManifestParses(s) /\ Entries(s) = Entries(store)
  BY <1>1, <1>2 DEF ManifestParses, Readable, Exists, Entries
<1> QED
  BY <1>1, <1>2, <1>3, HashesMeaning DEF s

\* Whatever the TTLs, and whichever gates or retentions run at the same time:
\* the candidates of apply_retention never include a file that a verifying
\* manifest lists, because no manifest is written while retention runs.
THEOREM RetentionKeepsBundle ==
    ASSUME Exclusive
    PROVE  Spec => RetentionKeepsBundleVerifiable
<1>1. WellTyped /\ Sound /\ [Next]_vars =>
          [HashesConsistent(fs) /\ (\E p \in Procs : Delete(p))
              => HashesConsistent(fs')]_vars
  <2> SUFFICES ASSUME Sound, HashesConsistent(fs), NEW p \in Procs, Delete(p)
               PROVE  HashesConsistent(fs')
    OBVIOUS
  <2>1. PICK f \in proc[p].queue : fs' = Unlink(fs, f)
    BY DEF Delete, Upcoming
  <2>2. ~ IsIdle(p) /\ proc[p].phase = "retain"
    BY DEF Delete, IsIdle
  <2>3. f \notin Kept(fs)
    BY <2>2 DEF Sound, Tracked
  <2> QED
    BY <2>1, <2>3, UnlinkKeepsHashes
<1> QED
  BY <1>1, AlwaysSound, PTL DEF Spec, RetentionKeepsBundleVerifiable

-----------------------------------------------------------------------------
(***************************************************************************)
(* The newest passing report.  With one process, what retention finds when *)
(* it chooses its candidates stays as it is but for what it deletes.       *)
(***************************************************************************)
OneAtATime == \A p, q \in Procs : p = q

NewestSpared ==
    \A p \in Procs :
        proc[p].phase = "retain" /\ RunOf(p).env.keep > 0
            => proc[p].queue \cap NewestPassing = {}

LEMMA ReportSecond ==
    ASSUME WellTyped, NEW f \in PassingReports(fs)
    PROVE  f[2] \in 0..MaxClock
<1>1. f \in File /\ f[1] = "gate_json"
  BY DEF PassingReports, IsPassing, WellTyped, StoreOK
<1> QED
  BY <1>1 DEF File, Contract, Audit, Connectors, Tools, McpServers, Evals, Health,
              RetentionLog, Manifest

LEMMA SomeReportIsNewest ==
    ASSUME WellTyped, PassingReports(fs) # {}
    PROVE  NewestPassing # {}
<1> DEFINE Less == OpToRel(<, Nat)
           gap(f) == MaxClock - f[2]
           T == {gap(f) : f \in PassingReports(fs)}
<1>1. \A f \in PassingReports(fs) : f[2] \in 0..MaxClock
  BY ReportSecond
<1>2. MaxClock \in Nat
  BY StoreAssumption
<1>3. T \subseteq Nat /\ T # {}
  BY <1>1, <1>2
<1>4. PICK x \in T : \A y \in T : ~ (<<y, x>> \in Less)
  <2>1. IsWellFoundedOn(Less, Nat)
    BY NatLessThanWellFounded
  <2> HIDE DEF Less, T
  <2> QED
    BY <1>3, <2>1, WFMin, Zenon
<1>5. PICK f \in PassingReports(fs) : x = gap(f)
  BY <1>4
<1>6. ASSUME NEW g \in PassingReports(fs)
      PROVE  g[2] <= f[2]
  <2>1. gap(g) \in T
    OBVIOUS
  <2>2. ~ (<<gap(g), x>> \in {ss \in Nat \X Nat : ss[1] < ss[2]})
    BY <1>4, <2>1 DEF OpToRel
  <2>3. gap(g) \in Nat /\ x \in Nat
    BY <1>3, <1>4, <2>1
  <2>4. ~ gap(g) < x
    BY <2>2, <2>3
  <2> QED
    BY <1>1, <1>2, <1>5, <2>4
<1> QED
  BY <1>6 DEF NewestPassing

\* What is not the newest report takes nothing from the newest ones.
LEMMA NewestAfterUnlink ==
    ASSUME WellTyped, NEW f, f \notin NewestPassing, fs' = Unlink(fs, f)
    PROVE  NewestPassing' \subseteq NewestPassing
<1>1. PassingReports(fs') \subseteq PassingReports(fs)
  BY DEF PassingReports, IsPassing, Readable, Exists, Unlink
<1>2. CASE PassingReports(fs) = {}
  BY <1>1, <1>2 DEF NewestPassing
<1>3. CASE PassingReports(fs) # {}
  <2>1. PICK h : h \in NewestPassing
    BY <1>3, SomeReportIsNewest
  <2>2. h \in PassingReports(fs')
    BY <2>1 DEF NewestPassing, PassingReports, IsPassing, Readable, Exists, Unlink
  <2>3. MaxClock \in Nat /\ \A g \in PassingReports(fs) : g[2] \in 0..MaxClock
    BY ReportSecond, StoreAssumption
  <2> QED
    BY <1>1, <2>1, <2>2, <2>3 DEF NewestPassing
<1> QED
  BY <1>2, <1>3

\* latest_successful keeps it, however few reports it is told to keep.
LEMMA NewestIsProtected ==
    ASSUME WellTyped, NEW keep \in Nat, keep > 0
    PROVE  NewestPassing \subseteq Protected(fs, keep)
<1> SUFFICES ASSUME NEW f \in NewestPassing
             PROVE  f \in LatestSuccessful(fs, keep)
  BY DEF Protected
<1>1. \A g \in PassingReports(fs) : ~ g[2] > f[2]
  <2>1. \A g \in PassingReports(fs) : g[2] \in 0..MaxClock /\ g[2] <= f[2]
    BY ReportSecond DEF NewestPassing
  <2>2. f \in PassingReports(fs) /\ MaxClock \in Nat
    BY StoreAssumption DEF NewestPassing
  <2> QED
    BY <2>1, <2>2
<1>2. {g \in PassingReports(fs) : g[2] > f[2]} = {}
  BY <1>1
<1>3. Cardinality({g \in PassingReports(fs) : g[2] > f[2]}) < keep
  BY <1>2, FS_EmptySet
<1> QED
  BY <1>3 DEF LatestSuccessful, NewestPassing

LEMMA NewestSparedStep ==
    ASSUME OneAtATime, WellTyped, NewestSpared, [Next]_vars
    PROVE  NewestSpared'
<1>1. CASE UNCHANGED <<fs, runs, proc>>
  <2>1. NewestPassing' = NewestPassing
    BY <1>1 DEF NewestPassing
  <2> QED
    BY <1>1, <2>1 DEF NewestSpared, RunOf
<1>2. ASSUME NEW p \in Procs, Advance(p) \/ WriteFails(p) \/ Crash(p)
      PROVE  NewestSpared'
  <2> PICK b, y : Step(p, b, y)
    BY <1>2, StepShape
  <2>1. /\ \A q \in Procs : q = p
        /\ proc'[p] = b /\ proc[p].run \in DOMAIN runs
        /\ runs'[proc[p].run] = y /\ y.env = RunOf(p).env
    BY DEF OneAtATime, WellTyped, Step, SameRun
  <2>2. b.phase = "retain" => Retaining(p, b, y)
    BY DEF Step, Shape, Opening, Closing, Ending, Failing, Handing, Checking, Concluding,
           Allowing, Regating, Logging, MayWrite, WritingPhases, Idle
  <2>3. ASSUME Retaining(p, b, y), RunOf(p).env.keep > 0
        PROVE  b.queue \cap NewestPassing' = {}
    <3>1. proc[p].queue \cap NewestPassing = {} /\ b.queue \subseteq proc[p].queue
      BY <2>3 DEF Retaining, NewestSpared
    <3>2. NewestPassing' \subseteq NewestPassing
      <4>1. CASE UNCHANGED fs
        BY <4>1 DEF NewestPassing
      <4>2. CASE \E f \in proc[p].queue : fs' = Unlink(fs, f)
        BY <3>1, <4>2, NewestAfterUnlink
      <4> QED
        BY <2>3, <4>1, <4>2 DEF Retaining
    <3> QED
      BY <3>1, <3>2
  <2>4. Retaining(p, b, y) => b.run = proc[p].run
    BY DEF Retaining
  <2> QED
    BY <2>1, <2>2, <2>3, <2>4 DEF NewestSpared, RunOf
<1>3. ASSUME NEW p \in Procs, Start(p)
      PROVE  NewestSpared'
  <2> PICK b, x : Beginning(p, b, x)
    BY <1>3, StartShape
  <2>1. /\ \A q \in Procs : q = p /\ Len(runs) \in Nat /\ runs'[Len(runs) + 1] = x
        /\ DOMAIN proc = Procs /\ UNCHANGED fs /\ x.env \in Environments
        /\ \A r \in DOMAIN runs : runs'[r] = runs[r]
    BY DEF OneAtATime, WellTyped, RunsOK, Beginning
  <2>2. NewestPassing' = NewestPassing
    BY <2>1 DEF NewestPassing
  <2>3. CASE UNCHANGED proc
    <3>1. \A q \in Procs : proc[q].phase = "retain" => proc[q].run \in DOMAIN runs
      BY BusyRun DEF IsIdle
    <3> QED
      BY <2>1, <2>2, <2>3, <3>1 DEF NewestSpared, RunOf
  <2>4. CASE proc' = [proc EXCEPT ![p] = b] /\ b.phase # "retain"
    BY <2>1, <2>4 DEF NewestSpared
  <2>5. CASE BeginsRetention(p, b, x)
    <3>1. proc'[p] = b /\ b.run = Len(runs) + 1
      BY <2>1, <2>5 DEF BeginsRetention, Fresh
    <3>2. b.queue = FamilyFiles(fs) \ Protected(fs, x.env.keep)
      BY <2>5 DEF BeginsRetention
    <3>3. x.env.keep \in Nat
      BY <2>1, PipelineAssumption DEF Environment
    <3>4. x.env.keep > 0 => b.queue \cap NewestPassing = {}
      BY <3>2, <3>3, NewestIsProtected
    <3> QED
      BY <2>1, <2>2, <3>1, <3>4 DEF NewestSpared, RunOf
  <2> QED
    BY <2>3, <2>4, <2>5 DEF Beginning, BeginsGenerator, BeginsBlocked, BeginsGate
<1> QED
  BY <1>1, <1>2, <1>3 DEF Next, Tick, vars

\* Used by itself, and told to keep one, retention never deletes the newest
\* passing report: latest_successful ranks the reports before the first unlink
\* and nothing that is deleted afterwards changes the rank of the newest.
THEOREM NewestReportSurvives ==
    ASSUME OneAtATime
    PROVE  Spec => NewestPassingReportSurvives
<1>1. Init => NewestSpared
  BY DEF Init, NewestSpared, Idle
<1>2. WellTyped /\ NewestSpared /\ [Next]_vars => NewestSpared'
  BY NewestSparedStep
<1>3. WellTyped /\ NewestSpared /\ [Next]_vars =>
          [\A p \in Procs : Delete(p) /\ RunOf(p).env.keep > 0
               => NewestPassing \subseteq DOMAIN fs']_vars
  <2> SUFFICES ASSUME WellTyped, NewestSpared, NEW p \in Procs, Delete(p),
                      RunOf(p).env.keep > 0
               PROVE  NewestPassing \subseteq DOMAIN fs'
    OBVIOUS
  <2>1. PICK f \in proc[p].queue : fs' = Unlink(fs, f)
    BY DEF Delete, Upcoming
  <2>2. f \notin NewestPassing
    BY DEF Delete, NewestSpared
  <2> QED
    BY <2>1, <2>2 DEF NewestPassing, PassingReports, Unlink
<1> QED
  BY <1>1, <1>2, <1>3, AlwaysWellTyped, PTL DEF Spec, NewestPassingReportSurvives
=============================================================================
