---- MODULE PruningSafety ----
(***************************************************************************)
(* What a pruning leaves behind, and what it leaves to an active pair:     *)
(* proofs about Pruning for any number of documents, pairs, threads,       *)
(* prunings and changes.                                                   *)
(***************************************************************************)
EXTENDS Pruning, DocumentSafety

----------------------------------------------------------------------------
(* Types *)

Prunes == [fence : {"down", "setup", "up"}, complete : BOOLEAN]
Generators == [pc : {"idle", "list", "compare", "send", "tidy"},
               listed : SUBSET Docs, remove : SUBSET Docs]
PruneTyped == prune \in [Pairs -> Prunes] /\ generator \in [Pairs -> Generators]
SourceTyped == source \in [Pairs -> [Docs -> {"unborn", "there", "gone"}]]
PruneIdSet == [owner : Pairs, doc : Docs, round : Nat \ Rounds]
KeysTyped == creating \cup asked \cup stop \subseteq Pairs /\ pruneset \subseteq PruneIdSet

LEMMA PruneTypeParts ==
    PruneTypeOK <=> PruneTyped /\ SourceTyped /\ KeysTyped /\ moves \in 0 .. MaxEvents
BY DEF PruneTypeOK, PruneTyped, SourceTyped, KeysTyped, PruneIdSet, Prunes, Generators

LEMMA PruneTypePartsPrimed ==
    PruneTypeOK' <=> PruneTyped' /\ SourceTyped' /\ KeysTyped' /\ moves' \in 0 .. MaxEvents
BY DEF PruneTypeOK, PruneTyped, SourceTyped, KeysTyped, PruneIdSet, Prunes, Generators

LEMMA TypeStutters == TypeOK /\ UNCHANGED vars => TypeOK'
BY DEF TypeOK, vars, Entries, Tasks

LEMMA TypeFaults ==
    ASSUME TypeOK, NEW kind, Fault(kind),
           UNCHANGED <<docVars, pairVars, indexer, redis, queue, worker, changes>>
    PROVE  TypeOK'
BY DEF TypeOK, Fault, docVars, pairVars, redis, Entries, Tasks

\* The records that the keys of a pruning, and its generator, begin and end with
LEMMA NothingYet == NoPrune \in Prunes /\ NoGenerator \in Generators
BY DEF NoPrune, Prunes, NoGenerator, Generators

\* What a generator sends next are tasks of its pair, with ids that no deletion gives.
LEMMA NextTasksTyped ==
    ASSUME SyncAssumption, PruningAssumption, PruneTyped, NEW p \in Pairs, NEW t \in NextTasks(p)
    PROVE  /\ t \in Tasks /\ Id(t) \in PruneIdSet /\ t.owner = p /\ t.round \notin Rounds
           /\ t.doc \in generator[p].remove
           /\ t \in NewTasks(p, t.round, generator[p].remove)
<1>1. PICK n \in PruneRounds : t \in NewTasks(p, n, generator[p].remove)
  BY DEF NextTasks
<1>2. n \in Nat \ Rounds /\ p \in Owners
  BY DEF PruneRounds, Rounds, SyncAssumption, PruningAssumption, Owners
<1>3. generator[p].remove \in SUBSET Docs
  BY DEF PruneTyped, Generators
<1>4. t \in Tasks
  BY <1>1, <1>2, <1>3, NewTasksTyped
<1>5. t.owner = p /\ t.round = n /\ t.doc \in generator[p].remove
  BY <1>1 DEF NewTasks
<1>6. Id(t) \in PruneIdSet
  BY <1>2, <1>3, <1>5 DEF Id, PruneIdSet
<1> QED BY <1>1, <1>2, <1>4, <1>5, <1>6

\* What the steps of a generator make of it
GeneratorWorks(p) ==
    Begin(p) \/ Extract(p) \/ Compare(p) \/ Send(p) \/ Complete(p) \/ Finish(p) \/ GeneratorStops(p)

LEMMA GeneratorTurns ==
    ASSUME PruneTyped, NEW p \in Pairs, GeneratorWorks(p)
    PROVE  /\ generator' \in [Pairs -> Generators]
           /\ \A q \in Pairs : q # p => generator'[q] = generator[q]
           /\ \/ generator'[p] = generator[p]
              \/ generator'[p] = NoGenerator
              \/ Begin(p) /\ generator'[p] = [generator[p] EXCEPT !.pc = "list"]
              \/ Extract(p) /\ generator'[p] = [generator[p] EXCEPT !.pc = "compare", !.listed = There(p)]
              \/ Compare(p) /\ generator'[p] = [pc |-> "send", listed |-> {}, remove |-> ToRemove(p)]
              \/ \E d \in Docs : /\ Send(p)
                                 /\ generator'[p] = [generator[p] EXCEPT !.remove = @ \ {d}]
              \/ Complete(p) /\ generator'[p] = [generator[p] EXCEPT !.pc = "tidy"]
<1> DEFINE i == generator[p]
<1>0. i \in Generators /\ generator \in [Pairs -> Generators] /\ NoGenerator \in Generators
  BY NothingYet DEF PruneTyped
<1>t. ASSUME NEW g \in Generators, generator' = [generator EXCEPT ![p] = g]
      PROVE  /\ generator' \in [Pairs -> Generators] /\ generator'[p] = g
             /\ \A q \in Pairs : q # p => generator'[q] = generator[q]
  BY <1>0, <1>t
<1>1. CASE UNCHANGED generator
  BY <1>0, <1>1
<1>2. CASE generator' = [generator EXCEPT ![p] = NoGenerator]
  BY <1>0, <1>2, <1>t
<1>3. CASE Begin(p) /\ ~ UNCHANGED generator
  <2> DEFINE g == [i EXCEPT !.pc = "list"]
  <2>1. g \in Generators
    BY <1>0 DEF Generators
  <2>2. generator' = [generator EXCEPT ![p] = g]
    BY <1>3 DEF Begin
  <2> HIDE DEF g
  <2>3. generator' \in [Pairs -> Generators] /\ generator'[p] = g
        /\ \A q \in Pairs : q # p => generator'[q] = generator[q]
    BY <2>1, <2>2, <1>t
  <2> QED BY <1>3, <2>3 DEF g
<1>4. CASE Extract(p) /\ generator' # [generator EXCEPT ![p] = NoGenerator]
  <2> DEFINE g == [i EXCEPT !.pc = "compare", !.listed = There(p)]
  <2>1. g \in Generators
    BY <1>0 DEF Generators, There
  <2>2. generator' = [generator EXCEPT ![p] = g]
    BY <1>0, <1>4 DEF Extract, Generators
  <2> HIDE DEF g
  <2>3. generator' \in [Pairs -> Generators] /\ generator'[p] = g
        /\ \A q \in Pairs : q # p => generator'[q] = generator[q]
    BY <2>1, <2>2, <1>t
  <2> QED BY <1>4, <2>3 DEF g
<1>5. CASE Compare(p) /\ generator' # [generator EXCEPT ![p] = NoGenerator]
  <2> DEFINE g == [pc |-> "send", listed |-> {}, remove |-> ToRemove(p)]
  <2>1. g \in Generators
    BY DEF Generators, ToRemove, Referring
  <2>2. generator' = [generator EXCEPT ![p] = g]
    BY <1>5 DEF Compare
  <2> HIDE DEF g
  <2>3. generator' \in [Pairs -> Generators] /\ generator'[p] = g
        /\ \A q \in Pairs : q # p => generator'[q] = generator[q]
    BY <2>1, <2>2, <1>t
  <2> QED BY <1>5, <2>3 DEF g
<1>6. CASE Send(p)
  <2>0. PICK t \in NextTasks(p) : generator' = [generator EXCEPT ![p].remove = @ \ {t.doc}]
    BY <1>6 DEF Send
  <2> DEFINE g == [i EXCEPT !.remove = @ \ {t.doc}]
  <2>1. g \in Generators
    BY <1>0 DEF Generators
  <2>2. generator' = [generator EXCEPT ![p] = g]
    BY <2>0
  <2>4. t.doc \in Docs
    <3>1. PICK n \in PruneRounds : t \in NewTasks(p, n, generator[p].remove)
      BY DEF NextTasks
    <3>2. generator[p].remove \subseteq Docs
      BY <1>0 DEF Generators
    <3> QED BY <3>1, <3>2 DEF NewTasks
  <2>5. g = [i EXCEPT !.remove = @ \ {t.doc}]
    OBVIOUS
  <2> HIDE DEF g
  <2>3. generator' \in [Pairs -> Generators] /\ generator'[p] = g
        /\ \A q \in Pairs : q # p => generator'[q] = generator[q]
    BY <2>1, <2>2, <1>t
  <2> QED BY <1>6, <2>3, <2>4, <2>5
<1>7. CASE Complete(p)
  <2> DEFINE g == [i EXCEPT !.pc = "tidy"]
  <2>1. g \in Generators
    BY <1>0 DEF Generators
  <2>2. generator' = [generator EXCEPT ![p] = g]
    BY <1>7 DEF Complete
  <2> HIDE DEF g
  <2>3. generator' \in [Pairs -> Generators] /\ generator'[p] = g
        /\ \A q \in Pairs : q # p => generator'[q] = generator[q]
    BY <2>1, <2>2, <1>t
  <2> QED BY <1>7, <2>3 DEF g
<1>8. CASE Finish(p) \/ GeneratorStops(p)
  BY <1>1, <1>2, <1>8 DEF Finish, GeneratorStops
<1> QED BY <1>1, <1>2, <1>3, <1>4, <1>5, <1>6, <1>7, <1>8 DEF GeneratorWorks

\* What the other steps of a pruning, and a deletion, do to its keys
LEMMA KeysTurn ==
    ASSUME PruneTyped, NEW p \in Pairs,
           \/ CheckPrune(p) \/ PruneStep(p) \/ CreationStops(p) \/ GeneratorStops(p)
           \/ DeletionStep(p) \/ DeletionStops(p)
    PROVE  /\ PruneTyped'
           /\ \A q \in Pairs : q # p => prune'[q] = prune[q] /\ generator'[q] = generator[q]
           /\ \/ pruneset' \in {pruneset, pruneset \ PruneIds(p)}
              \/ \E t \in NextTasks(p) : pruneset' = pruneset \cup {Id(t)}
<1>1. /\ generator' \in [Pairs -> Generators]
      /\ \A q \in Pairs : q # p => generator'[q] = generator[q]
  <2>1. CASE GeneratorWorks(p)
    BY <2>1, GeneratorTurns
  <2>2. CASE ~ GeneratorWorks(p)
    <3>1. UNCHANGED generator
      BY <2>2 DEF GeneratorWorks, CheckPrune, PruneStep, CreatePrune, MonitorPrune, ValidatePrune, PruneExpires,
                  CreationStops, DeletionStep, DeletionStops, Revoke, ResetBlocking, DeleteUnblocked, pruneVars
    <3> QED BY <3>1 DEF PruneTyped
  <2> QED BY <2>1, <2>2
<1>2. \/ prune' = prune
      \/ \E r \in Prunes : prune' = [prune EXCEPT ![p] = r]
  <2>1. CASE CreatePrune(p) \/ CreationStops(p)
    BY <2>1 DEF CreatePrune, CreationStops, Prunes
  <2>2. CASE Complete(p)
    <3>1. prune' = [prune EXCEPT ![p] = [prune[p] EXCEPT !.complete = TRUE]]
      BY <2>2 DEF Complete
    <3>2. [prune[p] EXCEPT !.complete = TRUE] \in Prunes
      BY DEF PruneTyped, Prunes
    <3> QED BY <3>1, <3>2
  <2>3. CASE PruneReset(p)
    BY <2>3, NothingYet DEF PruneReset
  <2> QED BY <2>1, <2>2, <2>3
          DEF CheckPrune, PruneStep, Begin, Extract, Compare, Send, Finish, MonitorPrune, ValidatePrune,
              PruneExpires, GeneratorStops, DeletionStep, DeletionStops, Revoke, ResetBlocking,
              DeleteUnblocked, pruneVars
<1>3. \/ pruneset' \in {pruneset, pruneset \ PruneIds(p)}
      \/ \E t \in NextTasks(p) : pruneset' = pruneset \cup {Id(t)}
  BY DEF CheckPrune, PruneStep, CreatePrune, Begin, Extract, Compare, Send, Complete, Finish, MonitorPrune,
         ValidatePrune, PruneExpires, CreationStops, GeneratorStops, DeletionStep, DeletionStops, Revoke,
         ResetBlocking, DeleteUnblocked, PruneReset, pruneVars
<1> QED BY <1>1, <1>2, <1>3 DEF PruneTyped

LEMMA PruneTypeGenerators ==
    ASSUME SyncAssumption, PruningAssumption, TypeOK, PruneTypeOK, NEW p \in Pairs,
           PruneStep(p) \/ CreationStops(p) \/ GeneratorStops(p)
    PROVE  TypeOK' /\ PruneTypeOK'
<1>0. PruneTyped /\ SourceTyped /\ KeysTyped /\ moves \in 0 .. MaxEvents
  BY PruneTypeParts
<1>1. UNCHANGED <<source, moves>>
  BY DEF PruneStep, CreatePrune, Begin, Extract, Compare, Send, Complete, Finish, MonitorPrune,
         ValidatePrune, PruneExpires, CreationStops, GeneratorStops
<1>2. TypeOK'
  <2>1. CASE Send(p)
    <3>1. PICK t \in NextTasks(p) : queue' = queue \cup {t}
      BY <2>1 DEF Send
    <3>2. t \in Tasks
      BY <1>0, NextTasksTyped
    <3>3. DocsTyped' /\ PairsTyped' /\ IndexersTyped' /\ WorkersTyped'
      BY <2>1, TypeParts DEF Send, DocsTyped, PairsTyped, IndexersTyped, WorkersTyped, docVars,
                             pairVars, redis
    <3>4. TasksTyped'
      BY <2>1, <3>1, <3>2, TypeParts DEF Send, TasksTyped, redis
    <3> QED BY <3>3, <3>4, TypePartsPrimed
  <2>2. CASE CreationStops(p) \/ GeneratorStops(p)
    BY <2>2, TypeFaults DEF CreationStops, GeneratorStops
  <2>3. CASE ValidatePrune(p)
    <3>1. UNCHANGED <<docVars, pairVars, indexer, redis, queue, worker, changes>>
      BY <2>3 DEF ValidatePrune
    <3>2. UNCHANGED faults \/ Fault("hour")
      BY <2>3 DEF ValidatePrune
    <3> QED BY <3>1, <3>2, TypeFaults, TypeStutters DEF vars, docVars, pairVars, redis
  <2>4. CASE UNCHANGED vars
    BY <2>4, TypeStutters
  <2> QED BY <2>1, <2>2, <2>3, <2>4
          DEF PruneStep, CreatePrune, Begin, Extract, Compare, Complete, Finish, MonitorPrune, PruneExpires
<1>3. PruneTyped'
  BY <1>0, KeysTurn
<1>4. KeysTyped'
  <2>1. pruneset' \subseteq PruneIdSet
    BY <1>0, KeysTurn, NextTasksTyped DEF KeysTyped
  <2>2. creating' \subseteq creating \cup {p} /\ asked' \subseteq asked \cup {p} /\ stop' = stop
    BY DEF PruneStep, CreatePrune, Begin, Extract, Compare, Send, Complete, Finish, MonitorPrune,
           ValidatePrune, PruneExpires, CreationStops, GeneratorStops
  <2> QED BY <1>0, <2>1, <2>2 DEF KeysTyped
<1> QED BY <1>0, <1>1, <1>2, <1>3, <1>4, PruneTypePartsPrimed DEF SourceTyped

LEMMA PruneTypeDeletions ==
    ASSUME SyncAssumption, PruningAssumption, TypeOK, PruneTypeOK, NEW p \in Pairs,
           DeletionStep(p) \/ DeletionStops(p)
    PROVE  TypeOK' /\ PruneTypeOK'
<1>0. PruneTyped /\ SourceTyped /\ KeysTyped /\ moves \in 0 .. MaxEvents
  BY PruneTypeParts
<1>1. TypeOK'
  BY TypeBeat, TypeStutters DEF DeletionStep, DeletionStops, Revoke, ResetBlocking, DeleteUnblocked, BeatStep
<1>2. UNCHANGED <<source, moves, creating>>
  BY DEF DeletionStep, DeletionStops, Revoke, ResetBlocking, DeleteUnblocked, pruneVars
<1>3. PruneTyped'
  BY <1>0, KeysTurn
<1>4. pruneset' \subseteq PruneIdSet
  BY <1>0, KeysTurn, NextTasksTyped DEF KeysTyped
<1>5. asked' \subseteq asked /\ stop' \subseteq stop \cup {p}
  BY DEF DeletionStep, DeletionStops, Revoke, ResetBlocking, DeleteUnblocked, pruneVars
<1> QED BY <1>0, <1>1, <1>2, <1>3, <1>4, <1>5, PruneTypePartsPrimed DEF KeysTyped, SourceTyped

LEMMA PruneTypeStep ==
    ASSUME SyncAssumption, PruningAssumption, TypeOK, PruneTypeOK, [PruneNext]_allVars
    PROVE  TypeOK' /\ PruneTypeOK'
<1>0. PruneTyped /\ SourceTyped /\ KeysTyped /\ moves \in 0 .. MaxEvents
  BY PruneTypeParts
<1>s. UNCHANGED pruneVars => PruneTypeOK'
  BY <1>0, PruneTypePartsPrimed DEF pruneVars, PruneTyped, SourceTyped, KeysTyped
<1>b. Move => moves' \in 0 .. MaxEvents
  BY <1>0, TypeParts DEF Move, Budget, PairsTyped, PruningAssumption
<1>1. CASE UNCHANGED allVars
  BY <1>1, <1>s, TypeStutters DEF allVars
<1>2. ASSUME NEW p \in Pairs, CheckPrune(p) PROVE TypeOK' /\ PruneTypeOK'
  BY <1>0, <1>b, <1>2, TypeStutters, PruneTypePartsPrimed
     DEF CheckPrune, PruneTyped, SourceTyped, KeysTyped
<1>3. ASSUME NEW p \in Pairs, NEW d \in Docs, SourceChanges(p, d) PROVE TypeOK' /\ PruneTypeOK'
  <2>1. SourceTyped'
    BY <1>0, <1>3 DEF SourceChanges, SourceTyped
  <2> QED BY <1>0, <1>b, <1>3, <2>1, TypeStutters, PruneTypePartsPrimed
             DEF SourceChanges, PruneTyped, KeysTyped
<1>4. ASSUME NEW p \in Pairs, NEW d \in Docs, IndexListed(p, d) PROVE TypeOK' /\ PruneTypeOK'
  BY <1>4, <1>s, TypeIndexing DEF IndexListed
<1>5. ASSUME NEW w \in Workers, AckTask(w) PROVE TypeOK' /\ PruneTypeOK'
  <2>1. TypeOK'
    BY <1>5, TypeWorkers DEF AckTask, WorkStep
  <2> QED BY <1>0, <1>5, <2>1, PruneTypePartsPrimed DEF AckTask, PruneTyped, SourceTyped, KeysTyped
<1>6. ASSUME UNCHANGED pruneVars,
             \/ \E w \in Workers : WorkStep(w) \/ Raise(w) \/ Refused(w) \/ Kill(w)
             \/ \E p \in Pairs : \/ StartAttempt(p) \/ MarkDeleting(p) \/ EndAttempt(p)
                                 \/ IndexStep(p) \/ IndexFails(p)
             \/ \E d \in Docs : Edit(d)
             \/ SyncStep \/ SyncGenerationStops \/ \E t \in queue : Lose(t)
      PROVE  TypeOK' /\ PruneTypeOK'
  BY <1>6, <1>s, TypeWorkers, TypeIndexing, TypeUsers, TypeBeat
<1>7. CASE \E w \in Workers : Clean(w)
  BY <1>5, <1>6, <1>7 DEF Clean, WorkStep
<1>8. CASE Fails
  BY <1>6, <1>8, PruneTypeGenerators, PruneTypeDeletions DEF Fails
<1> QED BY <1>1, <1>2, <1>3, <1>4, <1>6, <1>7, <1>8, PruneTypeGenerators, PruneTypeDeletions DEF PruneNext

\* Whatever prunings, deletions, indexing and synchronisation store has its type; the ids of
\* the tasks of a pruning are none that a deletion gives.
THEOREM PruneTypeCorrect == PruneSpec => [](TypeOK /\ PruneTypeOK)
<1>1. PruneInit => TypeOK /\ PruneTypeOK
  <2> SUFFICES ASSUME PruneInit PROVE TypeOK /\ PruneTypeOK
    OBVIOUS
  <2>1. TypeOK
    BY SyncAssumption, TypeInit DEF PruneInit
  <2>2. PruneTyped /\ SourceTyped /\ KeysTyped /\ moves \in 0 .. MaxEvents
    BY PruningAssumption
       DEF PruneInit, PruneTyped, SourceTyped, KeysTyped, NoPrune, NoGenerator, PruningAssumption, Prunes, Generators
  <2> QED BY <2>1, <2>2, PruneTypeParts
<1>2. TypeOK /\ PruneTypeOK /\ [PruneNext]_allVars => (TypeOK /\ PruneTypeOK)'
  BY SyncAssumption, PruningAssumption, PruneTypeStep
<1> QED BY <1>1, <1>2, PTL DEF PruneSpec

----------------------------------------------------------------------------
(* What a pruning leaves behind *)

\* A fence is raised where nothing is left; while a generator is to send, it stands and says
\* that nothing is complete; and until it is complete it has no ids of tasks.
Fenced(p) ==
    /\ p \in creating => prune[p].fence = "down"
    /\ prune[p].fence # "up" => /\ PruneIds(p) = {} /\ ~ prune[p].complete
                                /\ generator[p].pc \in {"idle", "tidy"}
    /\ generator[p].pc \in {"list", "compare", "send"} => ~ prune[p].complete
    /\ p \in asked => ~ prune[p].complete /\ generator[p].pc \in {"idle", "tidy"}
    /\ generator[p].pc # "send" => generator[p].remove = {}

PruneInv == \A p \in Pairs : Fenced(p)

LEMMA FencedSame ==
    ASSUME NEW q \in Pairs, Fenced(q), prune'[q] = prune[q], generator'[q] = generator[q],
           PruneIds(q)' \subseteq PruneIds(q), q \in creating' => q \in creating,
           q \in asked' => q \in asked
    PROVE  Fenced(q)'
BY DEF Fenced

LEMMA PruneStutters == PruneInv /\ UNCHANGED pruneVars => PruneInv'
BY DEF PruneInv, Fenced, PruneIds, pruneVars

\* A step of a pruning, or of a deletion, disturbs no other pair.
LEMMA FencesBut ==
    ASSUME PruneInv, PruneTyped, NEW p \in Pairs, Fenced(p)',
           \/ CheckPrune(p) \/ PruneStep(p) \/ CreationStops(p) \/ GeneratorStops(p)
           \/ DeletionStep(p) \/ DeletionStops(p)
    PROVE  PruneInv'
<1> SUFFICES ASSUME NEW q \in Pairs, q # p PROVE Fenced(q)'
  BY DEF PruneInv
<1>1. prune'[q] = prune[q] /\ generator'[q] = generator[q]
  BY KeysTurn
<1>2. PruneIds(q)' \subseteq PruneIds(q)
  <2>1. \A t \in NextTasks(p) : Id(t).owner = p
    BY DEF NextTasks, NewTasks, Id
  <2> QED BY <2>1, KeysTurn DEF PruneIds
<1>3. (q \in creating' => q \in creating) /\ (q \in asked' => q \in asked)
  BY DEF CheckPrune, PruneStep, CreatePrune, Begin, Extract, Compare, Send, Complete, Finish, MonitorPrune,
         ValidatePrune, PruneExpires, CreationStops, GeneratorStops, DeletionStep, DeletionStops, Revoke,
         ResetBlocking, DeleteUnblocked, pruneVars
<1> QED BY <1>1, <1>2, <1>3, FencedSame DEF PruneInv

\* Wherever the keys are taken away, the generator has no more to send, or goes with them.
LEMMA ResetFences ==
    ASSUME PruneTyped, NEW p \in Pairs, Fenced(p), PruneReset(p), UNCHANGED <<creating, asked>>,
           \/ generator'[p] = generator[p] /\ generator[p].pc \in {"idle", "tidy"}
           \/ generator'[p] = NoGenerator
    PROVE  Fenced(p)'
<1>1. prune'[p] = NoPrune /\ PruneIds(p)' = {}
  BY DEF PruneTyped, PruneReset, PruneIds
<1>2. generator'[p].pc \in {"idle", "tidy"} /\ generator'[p].remove = {}
  BY DEF Fenced, NoGenerator
<1> QED BY <1>1, <1>2 DEF Fenced, NoPrune

\* The creation, the generator and the beat task of the pruning of a pair
LEMMA PruneStepFences ==
    ASSUME PruneTyped, "hour" \notin Faults, NEW p \in Pairs, Fenced(p),
           PruneStep(p) \/ CreationStops(p) \/ GeneratorStops(p)
    PROVE  Fenced(p)'
<1>g. GeneratorWorks(p) => generator'[p] \in Generators
  BY GeneratorTurns
<1>1. CASE CreatePrune(p) \/ CreationStops(p)
  <2>1. /\ prune'[p].fence \in {"up", "setup"} /\ ~ prune'[p].complete /\ PruneIds(p)' = {}
        /\ p \notin creating' /\ UNCHANGED generator
    BY <1>1 DEF CreatePrune, CreationStops, PruneTyped, PruneIds
  <2>2. generator[p].pc \in {"idle", "tidy"}
    BY <1>1 DEF CreatePrune, CreationStops, Fenced
  <2> QED BY <2>1, <2>2 DEF Fenced
<1>2. CASE Begin(p)
  <2>1. p \in asked /\ p \notin asked' /\ UNCHANGED <<creating, prune, pruneset>>
    BY <1>2 DEF Begin
  <2>2. \/ UNCHANGED generator
        \/ /\ prune[p].fence = "up" /\ generator[p].pc = "idle"
           /\ generator'[p].pc = "list" /\ generator'[p].remove = generator[p].remove
    BY <1>2 DEF Begin, PruneTyped, Generators
  <2>3. PruneIds(p)' = PruneIds(p)
    BY <2>1 DEF PruneIds
  <2> QED BY <2>1, <2>2, <2>3 DEF Fenced
<1>3. CASE Extract(p)
  <2>1. generator[p].pc = "list" /\ UNCHANGED <<creating, asked>>
    BY <1>3 DEF Extract
  <2>2. CASE PruneReset(p) /\ generator'[p] = NoGenerator
    BY <2>1, <2>2, ResetFences
  <2>3. CASE /\ UNCHANGED <<prune, pruneset>> /\ generator'[p].pc = "compare"
             /\ generator'[p].remove = generator[p].remove
    BY <2>1, <2>3 DEF Fenced, PruneIds
  <2> QED BY <1>3, <2>2, <2>3 DEF Extract, PruneTyped, Generators
<1>4. CASE Compare(p)
  <2>1. generator[p].pc = "compare" /\ UNCHANGED <<creating, asked, prune, pruneset>>
    BY <1>4 DEF Compare
  <2>2. generator'[p].pc = "send" \/ (generator'[p].pc = "idle" /\ generator'[p].remove = {})
    BY <1>4 DEF Compare, PruneTyped, NoGenerator
  <2> QED BY <2>1, <2>2 DEF Fenced, PruneIds
<1>5. CASE Send(p)
  <2>1. generator[p].pc = "send" /\ UNCHANGED <<creating, asked, prune>>
    BY <1>5 DEF Send
  <2>2. generator'[p].pc = "send"
    BY <1>5, <2>1 DEF Send, PruneTyped, Generators
  <2> QED BY <2>1, <2>2 DEF Fenced
<1>6. CASE Complete(p)
  <2>1. generator[p].pc = "send" /\ generator[p].remove = {} /\ UNCHANGED <<creating, asked>>
    BY <1>6 DEF Complete
  <2>2. generator'[p].pc = "tidy" /\ generator'[p].remove = {}
    BY <1>6, <2>1 DEF Complete, PruneTyped, Generators
  <2>3. prune[p].fence = "up" /\ prune'[p].fence = "up"
    BY <1>6, <2>1 DEF Complete, PruneTyped, Prunes, Fenced
  <2> QED BY <2>1, <2>2, <2>3 DEF Fenced
<1>7. CASE Finish(p)
  <2>1. generator'[p].pc = "idle" /\ generator'[p].remove = {} /\ UNCHANGED <<creating, asked, prune, pruneset>>
    BY <1>7 DEF Finish, PruneTyped, NoGenerator
  <2> QED BY <2>1 DEF Fenced, PruneIds
<1>8. CASE MonitorPrune(p) \/ ValidatePrune(p) \/ PruneExpires(p)
  <2>1. PruneReset(p) /\ UNCHANGED <<creating, asked, generator>>
    BY <1>8 DEF MonitorPrune, ValidatePrune, PruneExpires
  <2>2. generator[p].pc \in {"idle", "tidy"}
    <3>1. CASE MonitorPrune(p)
      <4>1. generator[p].pc \in {"idle", "list", "compare", "send", "tidy"}
        BY DEF PruneTyped, Generators
      <4> QED BY <3>1, <4>1 DEF MonitorPrune, Fenced
    <3>2. CASE ValidatePrune(p)
      BY <3>2 DEF ValidatePrune, Fault
    <3>3. CASE PruneExpires(p)
      BY <3>3 DEF PruneExpires, Fenced
    <3> QED BY <1>8, <3>1, <3>2, <3>3
  <2> QED BY <2>1, <2>2, ResetFences
<1>9. CASE GeneratorStops(p)
  <2>1. CASE /\ generator[p].pc # "idle" /\ PruneReset(p) /\ UNCHANGED asked
             /\ generator' = [generator EXCEPT ![p] = NoGenerator]
    <3>1. generator'[p] = NoGenerator /\ UNCHANGED creating
      BY <1>9, <2>1 DEF GeneratorStops, PruneTyped
    <3> QED BY <2>1, <3>1, ResetFences
  <2>2. CASE /\ generator[p].pc # "idle" /\ generator' = [generator EXCEPT ![p] = NoGenerator]
             /\ pruneset' \in {pruneset} \cup {pruneset \cup {Id(t)} : t \in NextTasks(p)}
             /\ UNCHANGED <<prune, asked>>
    <3>1. generator'[p].pc = "idle" /\ generator'[p].remove = {} /\ UNCHANGED <<creating, prune, asked>>
      BY <1>9, <2>2 DEF GeneratorStops, PruneTyped, NoGenerator
    <3>2. prune[p].fence # "up" => NextTasks(p) = {}
      BY DEF Fenced, NextTasks, NewTasks
    <3>3. prune[p].fence # "up" => PruneIds(p)' = {}
      BY <2>2, <3>2 DEF Fenced, PruneIds
    <3> QED BY <3>1, <3>3 DEF Fenced
  <2>3. CASE asked' = asked \ {p} /\ UNCHANGED <<prune, pruneset, generator>>
    <3>1. UNCHANGED creating
      BY <1>9 DEF GeneratorStops
    <3> QED BY <2>3, <3>1 DEF Fenced, PruneIds
  <2> QED BY <1>9, <2>1, <2>2, <2>3 DEF GeneratorStops
<1> QED BY <1>1, <1>2, <1>3, <1>4, <1>5, <1>6, <1>7, <1>8, <1>9 DEF PruneStep

\* The deletion of a pair, patient with its pruning
LEMMA DeletionFences ==
    ASSUME PruneTyped, Patient, NEW p \in Pairs, Fenced(p), DeletionStep(p) \/ DeletionStops(p)
    PROVE  Fenced(p)'
<1>1. CASE ResetBlocking(p)
  BY <1>1, ResetFences DEF ResetBlocking
<1>2. CASE ~ ResetBlocking(p)
  <2>1. UNCHANGED <<creating, prune, pruneset, generator>> /\ asked' \subseteq asked
    BY <1>2 DEF DeletionStep, DeletionStops, Revoke, DeleteUnblocked, pruneVars
  <2> QED BY <2>1 DEF Fenced, PruneIds
<1> QED BY <1>1, <1>2

LEMMA PruneNextFences ==
    ASSUME PruneInv, PruneTypeOK, Patient, "hour" \notin Faults, [PruneNext]_allVars
    PROVE  PruneInv'
<1>0. PruneTyped
  BY PruneTypeParts
<1>1. ASSUME NEW p \in Pairs, \/ PruneStep(p) \/ CreationStops(p) \/ GeneratorStops(p)
                              \/ DeletionStep(p) \/ DeletionStops(p)
      PROVE  PruneInv'
  <2>1. Fenced(p)
    BY DEF PruneInv
  <2>2. Fenced(p)'
    BY <1>0, <1>1, <2>1, PruneStepFences, DeletionFences
  <2> QED BY <1>0, <1>1, <2>2, FencesBut
<1>2. ASSUME NEW p \in Pairs, CheckPrune(p) PROVE PruneInv'
  <2>1. /\ creating' = creating \cup {p} /\ prune[p].fence = "down"
        /\ UNCHANGED <<prune, pruneset, asked, generator>>
    BY <1>2 DEF CheckPrune
  <2> QED BY <2>1 DEF PruneInv, Fenced, PruneIds
<1>3. CASE \E p \in Pairs, d \in Docs : SourceChanges(p, d)
  <2>1. UNCHANGED <<creating, prune, pruneset, asked, generator>>
    BY <1>3 DEF SourceChanges
  <2> QED BY <2>1 DEF PruneInv, Fenced, PruneIds
<1>4. ASSUME NEW w \in Workers, AckTask(w) PROVE PruneInv'
  <2>1. pruneset' \subseteq pruneset /\ UNCHANGED <<creating, prune, asked, generator>>
    BY <1>4 DEF AckTask
  <2> QED BY <2>1 DEF PruneInv, Fenced, PruneIds
<1>5. CASE UNCHANGED pruneVars
  BY <1>5, PruneStutters
<1> QED BY <1>1, <1>2, <1>3, <1>4, <1>5 DEF PruneNext, Fails, Clean, IndexListed, allVars

\* A pruning that has ended leaves nothing in Redis that the next one would take for its
\* own, whatever its generator met with, as long as neither a deletion nor the validation
\* takes the keys away while the generator, or a task of the pruning, goes on.
THEOREM NothingLeftBehindCorrect ==
    ASSUME Patient, "hour" \notin Faults
    PROVE  PruneSpec => []NothingLeftBehind
<1>1. PruneInit => PruneInv
  BY DEF PruneInit, PruneInv, Fenced, PruneIds, NoPrune, NoGenerator
<1>2. PruneTypeOK /\ PruneInv /\ [PruneNext]_allVars => PruneInv'
  BY PruneNextFences
<1>3. PruneInv => NothingLeftBehind
  BY DEF PruneInv, Fenced, NothingLeftBehind
<1> QED BY <1>1, <1>2, <1>3, PruneTypeCorrect, PTL DEF PruneSpec

----------------------------------------------------------------------------
(* What an active pair keeps *)

\* A pruning that has yet to compare has no tasks, and all that it has bear an id of its set.
Early(p) == p \in asked \/ generator[p].pc \in {"list", "compare"}
PruneTracked(p) ==
    /\ Early(p) => PruneTasks(p) = {}
    /\ \A t \in PruneTasks(p) : Id(t) \in pruneset

\* No deletion is under way beside a pruning of the pair.
FencesApart(p) == p \in creating \/ prune[p].fence # "down" => fence[p] = "down"

\* A document that is to be taken from a pair is gone at its source, or the pair is on its way out.
Doomed(p) == \A t \in Alive(p) : status[p] # "active" \/ source[p][t.doc] = "gone"

\* A pair has, and is given, only documents that are or were at its source.
Born(p) ==
    \A d \in Docs : p \in refs[d] \/ (indexer[p].doc = d /\ indexer[p].pc = "prepare")
                        => source[p][d] # "unborn"

\* What a list that is being compared does not have is gone.
Listed(p) ==
    generator[p].pc = "compare" =>
        /\ indexer[p].pc = "idle"
        /\ \A d \in Docs : p \in refs[d] /\ d \notin generator[p].listed => source[p][d] = "gone"

\* What is still to be sent is for documents that the pair has, that are gone, and that no
\* task of the pair is about.
Unsent(p) ==
    generator[p].pc = "send" =>
        \A d \in generator[p].remove : /\ p \in refs[d] /\ source[p][d] = "gone"
                                       /\ \A t \in Alive(p) : t.doc # d

Guarded(p) == /\ Tracked(p) /\ PruneTracked(p) /\ FencesApart(p)
              /\ Doomed(p) /\ Born(p) /\ Listed(p) /\ Unsent(p)

KeepInv == CleanInv /\ \A p \in Pairs : Guarded(p)

LEMMA GuardedKept ==
    ASSUME SyncAssumption, NEW p \in Pairs, Guarded(p), TypeOK,
           Tracked(p)', FencesApart(p)', Born(p)', Listed(p)', Unsent(p)',
           \A t \in Alive(p)' : \/ \E u \in Alive(p) : Id(u) = Id(t)
                                \/ t.round \in Rounds /\ status'[p] # "active",
           \A t \in Alive(p)' : Id(t) \in pruneset => Id(t) \in pruneset',
           status'[p] = "active" => status[p] = "active",
           Early(p)' => PruneTasks(p) = {},
           \A d \in Docs : source[p][d] = "gone" => source'[p][d] = "gone"
    PROVE  Guarded(p)'
<1>1. \A u, t : Id(u) = Id(t) => u.owner = t.owner /\ u.doc = t.doc /\ u.round = t.round
  BY DEF Id
<1>2. \A u \in Alive(p) : u.doc \in Docs /\ u.round \in Nat /\ u.owner = p
  BY TypeParts, AliveMeans DEF TasksTyped, WorkersTyped, Tasks, Busy
<1>3. MaxRound \in Nat /\ \A n \in Rounds : ~ n > MaxRound
  BY DEF SyncAssumption, Rounds
<1>4. \A t \in PruneTasks(p)' : t \in Alive(p)' /\ t.round > MaxRound
  BY DEF PruneTasks
<1>5. ASSUME NEW t \in PruneTasks(p)'
      PROVE  PruneTasks(p) # {} /\ Id(t) \in pruneset'
  <2>1. PICK u \in Alive(p) : Id(u) = Id(t)
    BY <1>3, <1>4
  <2>2. u \in PruneTasks(p)
    BY <1>1, <1>4, <2>1 DEF PruneTasks
  <2> QED BY <1>4, <2>1, <2>2 DEF Guarded, PruneTracked
<1>6. PruneTracked(p)'
  BY <1>5 DEF PruneTracked
<1>7. Doomed(p)'
  <2> SUFFICES ASSUME NEW t \in Alive(p)', status'[p] = "active"
               PROVE  source'[p][t.doc] = "gone"
    BY DEF Doomed
  <2>1. PICK u \in Alive(p) : Id(u) = Id(t)
    OBVIOUS
  <2> QED BY <1>1, <1>2, <2>1 DEF Guarded, Doomed
<1> QED BY <1>6, <1>7 DEF Guarded

LEMMA UnsentKept ==
    ASSUME NEW p \in Pairs, Unsent(p), PruneTyped,
           generator'[p] = generator[p] \/ generator'[p].pc # "send",
           generator[p].pc = "send" => /\ \A t \in Alive(p)' : \E u \in Alive(p) : Id(u) = Id(t)
                                       /\ \A d \in generator[p].remove : p \in refs'[d],
           \A d \in Docs : source[p][d] = "gone" => source'[p][d] = "gone"
    PROVE  Unsent(p)'
<1> SUFFICES ASSUME generator'[p].pc = "send", NEW d \in generator'[p].remove
             PROVE  /\ p \in refs'[d] /\ source'[p][d] = "gone"
                    /\ \A t \in Alive(p)' : t.doc # d
  BY DEF Unsent
<1>1. generator[p].pc = "send" /\ d \in generator[p].remove /\ d \in Docs
  BY DEF PruneTyped, Generators
<1>2. \A u, t : Id(u) = Id(t) => u.doc = t.doc
  BY DEF Id
<1> QED BY <1>1, <1>2 DEF Unsent

LEMMA BornKept ==
    ASSUME NEW p \in Pairs, Born(p), Listed(p), \A d \in Docs : p \in refs'[d] => p \in refs[d],
           indexer'[p] = indexer[p], source' = source,
           generator'[p] = generator[p] \/ generator'[p].pc # "compare"
    PROVE  Born(p)' /\ Listed(p)'
BY DEF Born, Listed

\* The tasks of the light worker take documents from pairs and give them none.
LEMMA WorkersShrink ==
    ASSUME TypeOK, NEW w \in Workers, WorkStep(w) \/ Raise(w) \/ Refused(w) \/ Kill(w), NEW d \in Docs
    PROVE  refs'[d] \subseteq refs[d]
<1>0. DocsTyped /\ WorkersTyped
  BY TypeParts
<1>1. UNCHANGED refs \/ Except(w) \/ MarkSynced(w) \/ EraseRows(w)
  BY DEF WorkStep, Take, Start, Read, UpdateIndex, DeleteIndexed, Ack, Raise, Refused, Kill, docVars
<1>2. CASE Except(w)
  <2>1. UNCHANGED refs \/ refs' = [refs EXCEPT ![Doc(w)] = @ \ {worker[w].task.owner}]
    BY <1>2 DEF Except, docVars, Doc
  <2> QED BY <1>0, <2>1 DEF DocsTyped
<1>3. CASE MarkSynced(w) /\ ~ Except(w)
  BY <1>0, <1>3 DEF MarkSynced, DocsTyped
<1>4. CASE EraseRows(w)
  BY <1>0, <1>4 DEF EraseRows, DocsTyped
<1> QED BY <1>1, <1>2, <1>3, <1>4

LEMMA KeepWorkers ==
    ASSUME SyncAssumption, Undisturbed, KeepInv, TypeOK, PruneTyped, NEW w \in Workers,
           \/ WorkStep(w) \/ Raise(w) \/ Refused(w)
           \/ Kill(w) /\ AtWork(w),
           \/ UNCHANGED pruneVars
           \/ AckTask(w)
    PROVE  KeepInv'
<1>1. CleanInv' /\ SameTasks
  BY CleanWorkers DEF KeepInv
<1>2. UNCHANGED <<indexer, status, fence, source, creating, prune, asked, generator>>
  BY DEF WorkStep, Take, Start, Read, UpdateIndex, MarkSynced, DeleteIndexed, EraseRows, Ack, Raise,
         Refused, Kill, AckTask, pairVars, redis, pruneVars
<1> SUFFICES ASSUME NEW p \in Pairs PROVE Guarded(p)'
  BY <1>1 DEF KeepInv
<1>3. Guarded(p) /\ CleanInv
  BY DEF KeepInv
<1>4. Tracked(p)'
  BY <1>1, <1>3, TrackedWorkers DEF Guarded
<1>5. FencesApart(p)'
  BY <1>2, <1>3 DEF Guarded, FencesApart
<1>6. Born(p)' /\ Listed(p)'
  BY <1>2, <1>3, WorkersShrink, BornKept DEF Guarded
<1>7. ASSUME NEW t \in Alive(p)', Id(t) \in pruneset
      PROVE  Id(t) \in pruneset'
  <2>1. CASE AckTask(w)
    BY <1>3, <1>7, <2>1, AckEnds DEF AckTask
  <2>2. CASE UNCHANGED pruneVars
    BY <1>7, <2>2 DEF pruneVars
  <2> QED BY <2>1, <2>2
<1>8. Early(p)' => PruneTasks(p) = {}
  BY <1>2, <1>3 DEF Guarded, PruneTracked, Early
<1>9. Unsent(p)'
  <2>1. ASSUME generator[p].pc = "send", NEW d \in generator[p].remove
        PROVE  p \in refs'[d]
    <3>1. p \in refs[d] /\ d \in Docs /\ \A t \in Alive(p) : t.doc # d
      BY <1>3, <2>1 DEF Guarded, Unsent, PruneTyped, Generators
    <3>2. ~ (Busy(w) /\ worker[w].task.owner = p /\ Doc(w) = d)
      BY <3>1, AliveMeans DEF Doc
    <3>3. WorkStep(w) \/ Raise(w) \/ Refused(w) \/ Kill(w)
      BY DEF AckTask, WorkStep
    <3>4. Survives(p, d)
      BY <1>3, <3>1, <3>2, <3>3, WorkersTake
    <3> QED BY <3>4 DEF Survives
  <2> QED BY <1>1, <1>2, <1>3, <2>1, UnsentKept DEF Guarded, SameTasks
<1> QED BY <1>1, <1>2, <1>3, <1>4, <1>5, <1>6, <1>7, <1>8, <1>9, GuardedKept DEF SameTasks

\* Steps after which the same tasks are alive, and no key of a pruning has changed.
LEMMA KeepSame ==
    ASSUME SyncAssumption, KeepInv, TypeOK, PruneTyped, CleanInv', \A p \in Pairs : Tracked(p)',
           \A p \in Pairs : \A t \in Alive(p)' : t \in Alive(p),
           UNCHANGED <<refs, indexer, source, creating, prune, pruneset, asked, generator>>,
           \A p \in Pairs : fence'[p] = fence[p] /\ (status'[p] = "active" => status[p] = "active")
    PROVE  KeepInv'
<1> SUFFICES ASSUME NEW p \in Pairs PROVE Guarded(p)'
  BY DEF KeepInv
<1>1. Guarded(p)
  BY DEF KeepInv
<1>2. FencesApart(p)' /\ Born(p)' /\ Listed(p)'
  BY <1>1, BornKept DEF Guarded, FencesApart
<1>3. Early(p)' => PruneTasks(p) = {}
  BY <1>1 DEF Guarded, PruneTracked, Early
<1>4. Unsent(p)'
  BY <1>1, UnsentKept DEF Guarded, Unsent
<1> QED BY <1>1, <1>2, <1>3, <1>4, GuardedKept

LEMMA KeepSync ==
    ASSUME SyncAssumption, KeepInv, TypeOK, PruneTyped, UNCHANGED pruneVars,
           \/ SyncStep \/ SyncGenerationStops \/ \E t \in queue : Lose(t)
           \/ \E p \in Pairs : StartAttempt(p) \/ MarkDeleting(p) \/ EndAttempt(p)
           \/ \E d \in Docs : Edit(d)
           \/ UNCHANGED vars
    PROVE  KeepInv'
<1>0. CleanInv /\ \A p \in Pairs : Tracked(p)
  BY DEF KeepInv, Guarded
<1>1. CASE SyncStep \/ SyncGenerationStops \/ \E t \in queue : Lose(t)
  <2>1. /\ CleanInv' /\ (\A p \in Pairs : Tracked(p)')
        /\ \A p \in Pairs : \A t \in Alive(p)' : t \in Alive(p)
    BY <1>0, <1>1, CleanSync
  <2>2. UNCHANGED <<refs, indexer, status>> /\ \A p \in Pairs : fence'[p] = fence[p]
    BY <1>1, TypeParts
       DEF SyncStep, GenerateSync, SyncMonitor, SyncExpires, SyncGenerationStops, Lose, Reset, docVars,
           pairVars, redis, PairsTyped, Owners, SyncAssumption
  <2> QED BY <2>1, <2>2, KeepSame DEF pruneVars
<1>2. CASE UNCHANGED <<refs, indexer, queue, worker, fence, taskset>>
           /\ \A p \in Pairs : status'[p] = "active" => status[p] = "active"
  <2>1. CleanInv'
    BY <1>0, <1>2, CleanSame
  <2>2. \A p \in Pairs : Tracked(p)' /\ \A t \in Alive(p)' : t \in Alive(p)
    BY <1>0, <1>2, TrackedElsewhere DEF IdsOf
  <2> QED BY <1>2, <2>1, <2>2, KeepSame DEF pruneVars
<1>3. CASE UNCHANGED vars \/ (\E d \in Docs : Edit(d))
           \/ \E p \in Pairs : StartAttempt(p) \/ MarkDeleting(p) \/ EndAttempt(p)
  <2>1. UNCHANGED <<refs, indexer, queue, worker, fence, taskset>>
    BY <1>3 DEF vars, Edit, StartAttempt, MarkDeleting, EndAttempt, docVars, redis
  <2>2. \A p \in Pairs : status'[p] = "active" => status[p] = "active"
    BY <1>3, TypeParts DEF vars, Edit, StartAttempt, MarkDeleting, EndAttempt, pairVars, PairsTyped
  <2> QED BY <1>2, <2>1, <2>2
<1> QED BY <1>1, <1>3

LEMMA KeepIndexers ==
    ASSUME SyncAssumption, Undisturbed, Apart, KeepInv, TypeOK, PruneTyped, NEW q \in Pairs,
           \/ (IndexStep(q) \/ IndexFails(q)) /\ UNCHANGED pruneVars
           \/ \E d \in Docs : IndexListed(q, d)
    PROVE  KeepInv'
<1>0. CleanInv /\ DocsTyped /\ IndexersTyped
  BY TypeParts DEF KeepInv
<1>1. IndexStep(q) \/ IndexFails(q) \/ \E d \in Docs : TakeBatch(q, d)
  BY DEF IndexListed
<1>2. CleanInv' /\ UNCHANGED <<queue, worker, fence, taskset>>
  BY <1>0, <1>1, CleanIndexers
<1>3. UNCHANGED <<status, source, creating, prune, pruneset, asked, generator>>
  BY DEF IndexStep, Prepare, LockRow, WriteChunks, PostIndex, Report, IndexFails, IndexingRaises, WriteFails,
         Abandon, IndexListed, TakeBatch, pairVars, pruneVars
<1>4. ASSUME NEW p \in Pairs
      PROVE  Guarded(p)'
  <2>1. Guarded(p)
    BY DEF KeepInv
  <2>2. Tracked(p)' /\ \A t \in Alive(p)' : t \in Alive(p)
    BY <1>2, <2>1, TrackedElsewhere DEF IdsOf, Guarded
  <2>3. FencesApart(p)'
    BY <1>2, <1>3, <2>1 DEF Guarded, FencesApart
  <2>4. Early(p)' => PruneTasks(p) = {}
    BY <1>3, <2>1 DEF Guarded, PruneTracked, Early
  <2>u. Unsent(p)'
    <3>1. ASSUME generator[p].pc = "send", NEW d \in generator[p].remove
          PROVE  p \in refs'[d]
      <4>1. p \in refs[d] /\ d \in Docs
        BY <2>1, <3>1 DEF Guarded, Unsent, PruneTyped, Generators
      <4>2. Survives(p, d)
        BY <1>0, <1>1, <4>1, IndexersTake
      <4> QED BY <4>2 DEF Survives
    <3> QED BY <1>3, <2>1, <2>2, <3>1, UnsentKept DEF Guarded
  <2>5. CASE p # q
    <3>1. indexer'[p] = indexer[p] /\ \A d \in Docs : p \in refs'[d] => p \in refs[d]
      <4>1. \E i : indexer' = [indexer EXCEPT ![q] = i]
        BY <1>1 DEF IndexStep, Prepare, LockRow, WriteChunks, PostIndex, Report, IndexFails, IndexingRaises,
                    WriteFails, Abandon, TakeBatch
      <4>2. refs' = refs \/ \E d : refs' = [refs EXCEPT ![d] = @ \cup {q}]
        BY <1>1 DEF IndexStep, Prepare, LockRow, WriteChunks, PostIndex, Report, IndexFails, IndexingRaises,
                    WriteFails, Abandon, TakeBatch, docVars
      <4>3. indexer'[p] = indexer[p]
        BY <1>0, <2>5, <4>1 DEF IndexersTyped
      <4> QED BY <1>0, <2>5, <4>2, <4>3 DEF DocsTyped
    <3>2. Born(p)' /\ Listed(p)'
      BY <1>3, <2>1, <3>1, BornKept DEF Guarded
    <3> QED BY <1>3, <2>1, <2>2, <2>3, <2>4, <2>u, <3>2, GuardedKept
  <2>6. CASE p = q
    <3>1. generator[p].pc # "compare"
      <4>1. CASE \E d \in Docs : IndexListed(q, d)
        BY <2>6, <4>1 DEF IndexListed
      <4>2. CASE IndexStep(q) \/ IndexFails(q)
        BY <2>1, <2>6, <4>2
           DEF Guarded, Listed, IndexStep, Prepare, LockRow, WriteChunks, PostIndex, Report, IndexFails,
               IndexingRaises, WriteFails, Abandon
      <4> QED BY <4>1, <4>2
    <3>2. Listed(p)'
      BY <1>3, <3>1 DEF Listed
    <3>3. Born(p)'
      <4>1. CASE Prepare(q)
        <5>1. indexer'[p].pc # "prepare" /\ indexer[p].pc = "prepare"
          BY <1>0, <2>6, <4>1 DEF Prepare, IndexersTyped, Indexers, NoIndex
        <5>2. \A d \in Docs : p \in refs'[d] => p \in refs[d] \/ d = indexer[p].doc
          BY <1>0, <2>6, <4>1 DEF Prepare, DocsTyped
        <5> QED BY <1>3, <2>1, <5>1, <5>2 DEF Guarded, Born
      <4>2. CASE LockRow(q) \/ WriteChunks(q) \/ PostIndex(q) \/ Report(q) \/ IndexFails(q)
        <5>1. refs' = refs
          BY <4>2 DEF LockRow, WriteChunks, PostIndex, Report, IndexFails, IndexingRaises, WriteFails, Abandon,
                      docVars
        <5>2. indexer'[p].pc # "prepare"
          <6>1. CASE LockRow(q)
            BY <1>0, <2>6, <6>1 DEF LockRow, IndexersTyped, Indexers
          <6>2. CASE WriteChunks(q) \/ WriteFails(q) \/ IndexingRaises(q)
            BY <1>0, <2>6, <6>2 DEF WriteChunks, WriteFails, IndexingRaises, IndexersTyped, Indexers
          <6>3. CASE PostIndex(q)
            BY <1>0, <2>6, <6>3 DEF PostIndex, IndexersTyped, Indexers
          <6>4. CASE Report(q) \/ Abandon(q)
            BY <1>0, <2>6, <6>4 DEF Report, Abandon, IndexersTyped, NoIndex
          <6> QED BY <4>2, <6>1, <6>2, <6>3, <6>4 DEF IndexFails
        <5> QED BY <1>3, <2>1, <5>1, <5>2 DEF Guarded, Born
      <4>3. ASSUME NEW d \in Docs, IndexListed(q, d) PROVE Born(p)'
        <5>1. source[p][d] = "there" /\ refs' = refs /\ indexer'[p].doc = d
          BY <1>0, <2>6, <4>3 DEF IndexListed, TakeBatch, docVars, IndexersTyped, NoIndex
        <5> QED BY <1>3, <2>1, <5>1 DEF Guarded, Born
      <4> QED BY <4>1, <4>2, <4>3 DEF IndexStep
    <3> QED BY <1>3, <2>1, <2>2, <2>3, <2>4, <2>u, <3>2, <3>3, GuardedKept
  <2> QED BY <2>5, <2>6
<1> QED BY <1>2, <1>4 DEF KeepInv

LEMMA KeepSources ==
    ASSUME SyncAssumption, KeepInv, TypeOK, PruneTypeOK, NEW q \in Pairs, NEW e \in Docs, SourceChanges(q, e)
    PROVE  KeepInv'
<1>1. UNCHANGED <<refs, indexer, queue, worker, fence, taskset, status, creating, prune, pruneset, asked, generator>>
  BY DEF SourceChanges, vars
<1>2. CleanInv'
  BY <1>1, CleanSame DEF KeepInv
<1>3. ASSUME NEW p \in Pairs, NEW d \in Docs
      PROVE  /\ source[p][d] = "gone" => source'[p][d] = "gone"
             /\ source[p][d] # "unborn" => source'[p][d] # "unborn"
  BY PruneTypeParts DEF SourceChanges, SourceTyped
<1>4. ASSUME NEW p \in Pairs
      PROVE  Guarded(p)'
  <2>1. Guarded(p)
    BY DEF KeepInv
  <2>2. Tracked(p)' /\ \A t \in Alive(p)' : t \in Alive(p)
    BY <1>1, <2>1, TrackedElsewhere DEF IdsOf, Guarded
  <2>3. FencesApart(p)' /\ Born(p)' /\ Listed(p)'
    BY <1>1, <1>3, <2>1 DEF Guarded, FencesApart, Born, Listed
  <2>4. Early(p)' => PruneTasks(p) = {}
    BY <1>1, <2>1 DEF Guarded, PruneTracked, Early
  <2>5. Unsent(p)'
    BY <1>1, <1>3, <2>1, <2>2, UnsentKept, PruneTypeParts DEF Guarded, Unsent
  <2> QED BY <1>1, <1>3, <2>1, <2>2, <2>3, <2>4, <2>5, GuardedKept
<1> QED BY <1>2, <1>4 DEF KeepInv

\* Steps of a pruning that leave the queue alone: a fence is raised beside no deletion, the
\* ids go when no task is left.
LEMMA KeepKeys ==
    ASSUME SyncAssumption, KeepInv, TypeOK, PruneTypeOK, NEW q \in Pairs,
           UNCHANGED <<refs, indexer, queue, worker, fence, taskset, status, source>>,
           creating' \subseteq creating \cup {q}, asked' \subseteq asked \cup {q},
           q \in creating' \/ prune'[q].fence # "down" => fence[q] = "down",
           \A i \in pruneset \ pruneset' : PruneTasks(q) = {} /\ i.owner = q,
           \A p \in Pairs : p # q => prune'[p] = prune[p] /\ generator'[p] = generator[p],
           Early(q)' => PruneTasks(q) = {}, Listed(q)', Unsent(q)'
    PROVE  KeepInv'
<1>1. CleanInv'
  BY CleanSame DEF KeepInv
<1>2. ASSUME NEW p \in Pairs
      PROVE  Guarded(p)'
  <2>1. Guarded(p) /\ PruneTyped
    BY PruneTypeParts DEF KeepInv
  <2>2. Tracked(p)' /\ \A t \in Alive(p)' : t \in Alive(p)
    BY <2>1, TrackedElsewhere DEF IdsOf, Guarded
  <2>3. FencesApart(p)'
    BY <2>1 DEF Guarded, FencesApart
  <2>4. Born(p)'
    BY <2>1 DEF Guarded, Born
  <2>5. p # q => Listed(p)'
    BY <2>1 DEF Guarded, Listed
  <2>6. p # q => Unsent(p)'
    BY <2>1, <2>2, UnsentKept DEF Guarded, Unsent
  <2>7. Early(p)' => PruneTasks(p) = {}
    BY <2>1 DEF Guarded, PruneTracked, Early
  <2>8. ASSUME NEW t \in Alive(p)', Id(t) \in pruneset
        PROVE  Id(t) \in pruneset'
    <3> SUFFICES ASSUME Id(t) \notin pruneset' PROVE FALSE
      OBVIOUS
    <3>1. t \in Alive(p) /\ t.owner = p
      BY <2>2, <2>8 DEF Alive
    <3>2. PruneTasks(q) = {} /\ p = q
      BY <2>8, <3>1 DEF Id
    <3>3. Id(t).round \in Nat \ Rounds
      BY <2>8, PruneTypeParts DEF KeysTyped, PruneIdSet
    <3>4. t.round > MaxRound
      BY <3>3 DEF Id, Rounds, SyncAssumption
    <3> QED BY <3>1, <3>2, <3>4 DEF PruneTasks
  <2> QED BY <2>1, <2>2, <2>3, <2>4, <2>5, <2>6, <2>7, <2>8, GuardedKept
<1> QED BY <1>1, <1>2 DEF KeepInv

\* A pruning has no tasks until it has compared, and once all its ids have gone.
LEMMA NoPruneTasks ==
    ASSUME KeepInv, NEW q \in Pairs, Early(q) \/ PruneIds(q) = {}
    PROVE  PruneTasks(q) = {}
<1>1. PruneTracked(q) /\ \A t \in PruneTasks(q) : Id(t).owner = q
  BY AliveMeans DEF KeepInv, Guarded, PruneTasks, Id
<1> QED BY <1>1 DEF PruneTracked, PruneIds

\* Beside a pruning there are no tasks of a deletion, so before one has sent there are none.
LEMMA NoTasks ==
    ASSUME SyncAssumption, KeepInv, TypeOK, NEW q \in Pairs, PruneTasks(q) = {}, fence[q] = "down"
    PROVE  Alive(q) = {}
<1>1. \A t \in Alive(q) : t.round \in Nat
  BY TypeParts, AliveMeans DEF TasksTyped, WorkersTyped, Tasks, Busy
<1>2. \A t \in Alive(q) : ~ t.round > MaxRound /\ t.round \notin Rounds
  BY DEF PruneTasks, KeepInv, Guarded, Tracked
<1> QED BY <1>1, <1>2 DEF Rounds, SyncAssumption

LEMMA KeepPrunings ==
    ASSUME SyncAssumption, Apart, Patient, {"hour", "midway"} \cap Faults = {},
           KeepInv, PruneInv, TypeOK, PruneTypeOK, NEW q \in Pairs, ~ Send(q),
           \/ CheckPrune(q) \/ PruneStep(q) \/ CreationStops(q) \/ GeneratorStops(q)
           \/ Revoke(q) \/ ResetBlocking(q)
    PROVE  KeepInv'
<1>0. Guarded(q) /\ Fenced(q) /\ PruneTyped /\ SourceTyped
  BY PruneTypeParts DEF KeepInv, PruneInv
<1>1. UNCHANGED <<refs, indexer, queue, worker, fence, taskset, status, source>>
  BY DEF CheckPrune, PruneStep, CreatePrune, Begin, Extract, Compare, Complete, Finish, MonitorPrune,
         ValidatePrune, PruneExpires, CreationStops, GeneratorStops, Revoke, ResetBlocking, vars, docVars,
         pairVars, redis
<1>2. /\ creating' \subseteq creating \cup {q} /\ asked' \subseteq asked \cup {q}
      /\ q \in creating' => fence[q] = "down"
  BY <1>0 DEF CheckPrune, PruneStep, CreatePrune, Begin, Extract, Compare, Complete, Finish, MonitorPrune,
         ValidatePrune, PruneExpires, CreationStops, GeneratorStops, Revoke, ResetBlocking, Guarded, FencesApart
<1>3. PruneTyped' /\ \A p \in Pairs : p # q => prune'[p] = prune[p] /\ generator'[p] = generator[p]
  BY <1>0, KeysTurn DEF DeletionStep
<1>4. ASSUME CreatePrune(q) \/ CreationStops(q) \/ PruneReset(q)
      PROVE  PruneTasks(q) = {}
  <2>1. CASE CreatePrune(q) \/ CreationStops(q)
    BY <1>0, <2>1, NoPruneTasks DEF CreatePrune, CreationStops, Fenced
  <2>2. CASE MonitorPrune(q)
    BY <2>2, NoPruneTasks DEF MonitorPrune
  <2>3. CASE ValidatePrune(q) \/ ResetBlocking(q)
    BY <2>3 DEF ValidatePrune, ResetBlocking, Fault
  <2>4. CASE Extract(q)
    BY <2>4, NoPruneTasks DEF Extract, Early
  <2>5. CASE PruneExpires(q)
    BY <1>0, <2>5, NoPruneTasks DEF PruneExpires, Fenced
  <2>6. CASE GeneratorStops(q)
    <3>1. CASE generator[q].pc # "idle" /\ Fault(IF PruneTasks(q) = {} THEN "raised" ELSE "midway")
      BY <3>1 DEF Fault
    <3>2. CASE pruneset' \in {pruneset} \cup {pruneset \cup {Id(t)} : t \in NextTasks(q)}
      <4>1. PruneIds(q) = {}
        BY <1>4, <3>2, <2>6 DEF PruneReset, PruneIds, GeneratorStops, CreatePrune, CreationStops
      <4> QED BY <4>1, NoPruneTasks
    <3> QED BY <2>6, <3>1, <3>2 DEF GeneratorStops
  <2>7. CASE PruneIds(q) = {}
    BY <2>7, NoPruneTasks
  <2>8. CASE CheckPrune(q) \/ Begin(q) \/ Compare(q) \/ Complete(q) \/ Finish(q) \/ Revoke(q)
    BY <1>4, <2>7, <2>8
       DEF CheckPrune, Begin, Compare, Complete, Finish, Revoke, PruneReset, PruneIds, CreatePrune, CreationStops
  <2> QED BY <2>1, <2>2, <2>3, <2>4, <2>5, <2>6, <2>8 DEF PruneStep
<1>5. \/ UNCHANGED <<prune, pruneset>>
      \/ CreatePrune(q) \/ CreationStops(q) \/ PruneReset(q)
      \/ Complete(q) /\ pruneset' = pruneset
      \/ prune' = prune /\ pruneset \subseteq pruneset'
  BY DEF CheckPrune, PruneStep, Begin, Extract, Compare, Complete, Finish, MonitorPrune,
         ValidatePrune, PruneExpires, GeneratorStops, Revoke, ResetBlocking
<1>6. \A i \in pruneset \ pruneset' : PruneTasks(q) = {} /\ i.owner = q
  BY <1>4, <1>5 DEF CreatePrune, CreationStops, PruneReset, PruneIds
<1>7. prune'[q].fence # "down" => fence[q] = "down"
  <2>1. CASE prune' = prune
    BY <1>0, <2>1 DEF Guarded, FencesApart
  <2>2. CASE CreatePrune(q) \/ CreationStops(q)
    BY <1>0, <2>2 DEF CreatePrune, CreationStops, Guarded, FencesApart
  <2>3. CASE PruneReset(q)
    BY <1>0, <2>3 DEF PruneReset, NoPrune, PruneTyped
  <2>4. CASE Complete(q)
    BY <1>0, <2>4 DEF Complete, PruneTyped, Prunes, Guarded, FencesApart
  <2> QED BY <1>5, <2>1, <2>2, <2>3, <2>4
<1>8. \/ generator'[q] = generator[q]
      \/ generator'[q].pc \notin {"list", "compare", "send"}
      \/ Begin(q) /\ generator'[q].pc = "list"
      \/ Extract(q) /\ generator'[q].pc = "compare" /\ generator'[q].listed = There(q)
      \/ Compare(q) /\ generator'[q].pc = "send" /\ generator'[q].remove = ToRemove(q)
  <2>1. CASE GeneratorWorks(q)
    <3>1. \/ generator'[q] = generator[q]
          \/ generator'[q] = NoGenerator
          \/ Begin(q) /\ generator'[q] = [generator[q] EXCEPT !.pc = "list"]
          \/ Extract(q) /\ generator'[q] = [generator[q] EXCEPT !.pc = "compare", !.listed = There(q)]
          \/ Compare(q) /\ generator'[q] = [pc |-> "send", listed |-> {}, remove |-> ToRemove(q)]
          \/ Complete(q) /\ generator'[q] = [generator[q] EXCEPT !.pc = "tidy"]
      BY <1>0, <2>1, GeneratorTurns
    <3>2. generator[q] \in Generators
      BY <1>0 DEF PruneTyped
    <3>3. /\ NoGenerator.pc = "idle"
          /\ [generator[q] EXCEPT !.pc = "list"].pc = "list"
          /\ [generator[q] EXCEPT !.pc = "tidy"].pc = "tidy"
      BY <3>2 DEF Generators, NoGenerator
    <3>4. /\ [generator[q] EXCEPT !.pc = "compare", !.listed = There(q)].pc = "compare"
          /\ [generator[q] EXCEPT !.pc = "compare", !.listed = There(q)].listed = There(q)
      BY <3>2 DEF Generators
    <3>5. /\ [pc |-> "send", listed |-> {}, remove |-> ToRemove(q)].pc = "send"
          /\ [pc |-> "send", listed |-> {}, remove |-> ToRemove(q)].remove = ToRemove(q)
      OBVIOUS
    <3> QED BY <3>1, <3>3, <3>4, <3>5
  <2>2. CASE ~ GeneratorWorks(q)
    BY <2>2 DEF GeneratorWorks, CheckPrune, PruneStep, CreatePrune, MonitorPrune, ValidatePrune, PruneExpires,
                CreationStops, Revoke, ResetBlocking
  <2> QED BY <2>1, <2>2
<1>9. Early(q)' => PruneTasks(q) = {}
  <2>1. Begin(q) \/ Extract(q) => Early(q)
    BY DEF Begin, Extract, Early
  <2>2. q \in asked' => q \in asked \/ CreatePrune(q) \/ CreationStops(q)
    BY DEF CheckPrune, PruneStep, Begin, Extract, Compare, Complete, Finish, MonitorPrune,
           ValidatePrune, PruneExpires, GeneratorStops, Revoke, ResetBlocking
  <2>3. Early(q)' => Early(q) \/ CreatePrune(q) \/ CreationStops(q)
    BY <1>8, <2>1, <2>2 DEF Early
  <2> QED BY <1>4, <2>3, NoPruneTasks
<1>10. Listed(q)'
  <2>1. CASE generator'[q] = generator[q]
    BY <1>0, <1>1, <2>1 DEF Guarded, Listed
  <2>2. CASE generator'[q].pc # "compare"
    BY <2>2 DEF Listed
  <2>3. CASE Extract(q) /\ generator'[q].listed = There(q)
    <3>1. indexer[q].pc = "idle"
      BY <2>3 DEF Extract
    <3>2. ASSUME NEW d \in Docs, q \in refs[d], d \notin There(q)
          PROVE  source[q][d] = "gone"
      <4>1. source[q][d] \in {"unborn", "there", "gone"}
        BY <1>0 DEF SourceTyped
      <4> QED BY <1>0, <3>2, <4>1 DEF Guarded, Born, There
    <3> QED BY <1>1, <2>3, <3>1, <3>2 DEF Listed
  <2> QED BY <1>8, <2>1, <2>2, <2>3
<1>11. Unsent(q)'
  <2>0. \A t \in Alive(q)' : t \in Alive(q)
    BY <1>1, AliveMeans, AliveMeansPrimed DEF Busy
  <2>1. CASE generator'[q] = generator[q] \/ generator'[q].pc # "send"
    BY <1>0, <1>1, <2>0, <2>1, UnsentKept DEF Guarded, Unsent
  <2>2. CASE Compare(q) /\ generator'[q].remove = ToRemove(q)
    <3>1. generator[q].pc = "compare"
      BY <2>2 DEF Compare
    <3>2. PruneTasks(q) = {} /\ fence[q] = "down"
      BY <1>0, <3>1, NoPruneTasks DEF Early, Fenced, Guarded, FencesApart
    <3>3. Alive(q) = {}
      BY <3>2, NoTasks
    <3>4. \A d \in ToRemove(q) : q \in refs[d] /\ source[q][d] = "gone"
      BY <1>0, <3>1 DEF ToRemove, Referring, Guarded, Listed
    <3> QED BY <1>1, <2>0, <2>2, <3>3, <3>4 DEF Unsent
  <2> QED BY <1>8, <2>1, <2>2
<1> QED BY <1>1, <1>2, <1>3, <1>6, <1>7, <1>9, <1>10, <1>11, KeepKeys

\* The tasks that a pruning sends are for documents that are gone at their source.
LEMMA KeepSend ==
    ASSUME SyncAssumption, PruningAssumption, KeepInv, PruneInv, TypeOK, PruneTypeOK,
           NEW q \in Pairs, Send(q)
    PROVE  KeepInv'
<1>0. Guarded(q) /\ Fenced(q) /\ PruneTyped /\ generator[q].pc = "send"
  BY PruneTypeParts DEF KeepInv, PruneInv, Send
<1>1. PICK t \in NextTasks(q) :
          /\ queue' = queue \cup {t}
          /\ pruneset' = pruneset \cup {Id(t)}
          /\ generator' = [generator EXCEPT ![q].remove = @ \ {t.doc}]
  BY DEF Send
<1>u. UNCHANGED <<refs, indexer, worker, fence, taskset, status, source, creating, prune, asked>>
  BY DEF Send, docVars, pairVars, redis
<1>g. /\ generator'[q] = [generator[q] EXCEPT !.remove = @ \ {t.doc}]
      /\ \A p \in Pairs : p # q => generator'[p] = generator[p]
  BY <1>0, <1>1 DEF PruneTyped
<1>h. generator'[q].pc = "send" /\ generator'[q].remove = generator[q].remove \ {t.doc}
  BY <1>0, <1>g DEF PruneTyped, Generators
<1>n. /\ t.owner = q /\ t.round \notin Rounds /\ t.doc \in generator[q].remove
      /\ t \in NewTasks(q, t.round, generator[q].remove)
  BY <1>0, NextTasksTyped
<1>2. /\ q \in refs[t.doc] /\ source[q][t.doc] = "gone" /\ t.doc \in Docs
      /\ \A u \in Alive(q) : u.doc # t.doc
  BY <1>0, <1>n DEF Guarded, Unsent, PruneTyped, Generators
<1>3. CleanInv'
  <2>1. {t} \in SUBSET NewTasks(q, t.round, {t.doc})
    BY <1>n DEF NewTasks
  <2>2. {t.doc} \subseteq Referring(q) /\ CleanInv
    BY <1>2 DEF Referring, KeepInv
  <2> QED BY <1>1, <1>2, <1>u, <2>1, <2>2, CleanSends
<1>4. ASSUME NEW p \in Pairs, p # q
      PROVE  Guarded(p)'
  <2>1. Guarded(p)
    BY DEF KeepInv
  <2>2. Tracked(p)' /\ \A u \in Alive(p)' : u \in Alive(p)
    BY <1>1, <1>4, <1>n, <1>u, <2>1, TrackedElsewhere DEF IdsOf, Guarded
  <2>3. generator'[p] = generator[p]
    BY <1>4, <1>g
  <2>4. FencesApart(p)' /\ Born(p)' /\ Listed(p)'
    BY <1>u, <2>1, <2>3, BornKept DEF Guarded, FencesApart
  <2>5. Early(p)' => PruneTasks(p) = {}
    BY <1>u, <2>1, <2>3 DEF Guarded, PruneTracked, Early
  <2>6. Unsent(p)'
    BY <1>0, <1>u, <2>1, <2>2, <2>3, UnsentKept DEF Guarded, Unsent
  <2> QED BY <1>1, <1>u, <2>1, <2>2, <2>4, <2>5, <2>6, GuardedKept
<1>5. Guarded(q)'
  <2>1. \A u \in Alive(q)' : u \in Alive(q) \/ u = t
    BY <1>1, <1>u, AliveMeans, AliveMeansPrimed DEF Busy
  <2>2. Tracked(q)'
    BY <1>0, <1>n, <1>u, <2>1 DEF Tracked, Rounds, Guarded
  <2>3. PruneTracked(q)'
    <3>1. ~ Early(q)'
      BY <1>0, <1>h, <1>u DEF Early, Fenced
    <3>2. \A u \in PruneTasks(q)' : u \in PruneTasks(q) \/ u = t
      BY <2>1 DEF PruneTasks
    <3> QED BY <1>0, <1>1, <3>1, <3>2 DEF PruneTracked, Guarded
  <2>4. FencesApart(q)' /\ Born(q)' /\ Listed(q)'
    BY <1>0, <1>h, <1>u, BornKept DEF Guarded, FencesApart
  <2>5. Doomed(q)'
    BY <1>0, <1>2, <1>u, <2>1 DEF Doomed, Guarded
  <2>6. Unsent(q)'
    BY <1>0, <1>h, <1>u, <2>1 DEF Unsent, Guarded
  <2> QED BY <2>2, <2>3, <2>4, <2>5, <2>6 DEF Guarded
<1> QED BY <1>3, <1>4, <1>5 DEF KeepInv

\* A deletion begins where no pruning is under way, and its tasks are for a pair that is
\* no longer active.
LEMMA KeepDeletions ==
    ASSUME SyncAssumption, Prompt, Once, KeepInv, PruneInv, TypeOK, PruneTyped, NEW q \in Pairs,
           \/ DeleteUnblocked(q) \/ DeletionStops(q)
           \/ (DeletionMonitor(q) \/ Validate(q)) /\ UNCHANGED pruneVars
    PROVE  KeepInv'
<1>0. CleanInv /\ (\A p \in Pairs : Guarded(p) /\ Tracked(p)) /\ PairsTyped /\ Fenced(q)
  BY TypeParts DEF KeepInv, Guarded, PruneInv
<1>f. "unsent" \notin Faults /\ "hour" \notin Faults
  BY DEF Once
<1>1. /\ UNCHANGED <<source, creating, prune, pruneset, asked, generator>>
      /\ \/ (GenerateDeletion(q) \/ GenerationStops(q)) /\ Unblocked(q)
         \/ DeletionMonitor(q) \/ Validate(q)
  BY DEF DeleteUnblocked, DeletionStops, pruneVars
<1>2. GenerateDeletion(q) \/ GenerationStops(q) => Alive(q) = {}
  <2> SUFFICES ASSUME GenerateDeletion(q) \/ GenerationStops(q) PROVE Alive(q) = {}
    OBVIOUS
  <2>1. Unblocked(q) /\ fence[q] = "down"
    BY <1>1 DEF GenerateDeletion, GenerationStops, MayDelete, DeletionMonitor, Validate
  <2>2. PruneTasks(q) = {}
    BY <1>0, <2>1, NoPruneTasks DEF Unblocked, Fenced
  <2> QED BY <2>1, <2>2, NoTasks
<1>3. /\ CleanInv' /\ (\A p \in Pairs : Tracked(p)') /\ OldOrDeletes
      /\ UNCHANGED <<docVars, indexer, worker>>
  BY <1>0, <1>1, <1>2, <1>f, CleanDeletion
<1>4. ASSUME NEW p \in Pairs
      PROVE  /\ status'[p] = "active" => status[p] = "active"
             /\ status[p] = "deleting" => status'[p] # "active"
  BY <1>0, <1>1, <1>4 DEF PairsTyped, GenerateDeletion, GenerationStops, DeletionMonitor, Validate, pairVars
<1>5. ASSUME NEW p \in Pairs
      PROVE  FencesApart(p)'
  <2>1. CASE p # q \/ DeletionMonitor(q) \/ Validate(q)
    <3>1. fence'[p] = "down" \/ fence'[p] = fence[p]
      BY <1>0, <1>1, <2>1
         DEF PairsTyped, GenerateDeletion, GenerationStops, DeletionMonitor, Validate, Reset, Owners
    <3> QED BY <1>0, <1>1, <3>1 DEF Guarded, FencesApart
  <2>2. CASE p = q /\ Unblocked(q)
    BY <1>1, <2>2, Prompt DEF Unblocked, FencesApart
  <2> QED BY <1>1, <2>1, <2>2
<1>6. ASSUME NEW p \in Pairs
      PROVE  Guarded(p)'
  <2>1. Guarded(p)
    BY <1>0
  <2>2. Born(p)' /\ Listed(p)'
    BY <1>1, <1>3, <2>1, BornKept DEF Guarded, docVars
  <2>3. Early(p)' => PruneTasks(p) = {}
    BY <1>1, <2>1 DEF Guarded, PruneTracked, Early
  <2>7. Unsent(p)'
    <3>1. ASSUME generator[p].pc = "send", NEW t \in Alive(p)'
          PROVE  \E u \in Alive(p) : Id(u) = Id(t)
      <4>1. prune'[p].fence = "up"
        BY <1>1, <3>1 DEF PruneInv, Fenced
      <4>2. fence'[p] = "down"
        BY <1>5, <4>1 DEF FencesApart
      <4>3. t.round \notin Rounds
        BY <1>3, <3>1, <4>2 DEF Tracked, Rounds
      <4> QED BY <1>3, <3>1, <4>3 DEF OldOrDeletes
    <3>2. UNCHANGED <<refs, generator, source>>
      BY <1>1, <1>3 DEF docVars
    <3> QED BY <2>1, <3>1, <3>2, UnsentKept DEF Guarded, Unsent
  <2>4. \A t \in Alive(p)' : \/ \E u \in Alive(p) : Id(u) = Id(t)
                             \/ t.round \in Rounds /\ status'[p] # "active"
    BY <1>3, <1>4 DEF OldOrDeletes
  <2>5. \A t \in Alive(p)' : Id(t) \in pruneset => Id(t) \in pruneset'
    BY <1>1
  <2>6. \A d \in Docs : source[p][d] = "gone" => source'[p][d] = "gone"
    BY <1>1
  <2> QED BY <1>3, <1>4, <1>5, <2>1, <2>2, <2>3, <2>4, <2>5, <2>6, <2>7, GuardedKept
<1> QED BY <1>3, <1>6 DEF KeepInv

LEMMA KeepStep ==
    ASSUME SyncAssumption, PruningAssumption, Undisturbed, Patient, Prompt, Apart, Once,
           KeepInv, PruneInv, TypeOK, PruneTypeOK, [PruneNext]_allVars
    PROVE  KeepInv'
<1>0. PruneTyped
  BY PruneTypeParts
<1>f. {"hour", "midway"} \cap Faults = {} /\ \A w \in Workers : Kill(w) => AtWork(w)
  BY DEF Once, Kill, Fault
<1>1. CASE UNCHANGED allVars
  BY <1>0, <1>1, KeepSync DEF allVars
<1>2. ASSUME NEW q \in Pairs, CheckPrune(q) \/ PruneStep(q) \/ DeletionStep(q)
      PROVE  KeepInv'
  <2>1. CASE Send(q)
    BY <2>1, KeepSend
  <2>2. CASE \/ DeleteUnblocked(q)
             \/ (DeletionMonitor(q) \/ Validate(q)) /\ UNCHANGED pruneVars
    BY <1>0, <2>2, KeepDeletions
  <2>3. CASE ~ Send(q) /\ (CheckPrune(q) \/ PruneStep(q) \/ Revoke(q) \/ ResetBlocking(q))
    BY <1>f, <2>3, KeepPrunings
  <2> QED BY <1>2, <2>1, <2>2, <2>3 DEF DeletionStep
<1>3. CASE \E q \in Pairs, d \in Docs : SourceChanges(q, d) \/ IndexListed(q, d)
  BY <1>0, <1>3, KeepSources, KeepIndexers
<1>4. CASE /\ UNCHANGED pruneVars
           /\ \/ SyncStep \/ SyncGenerationStops \/ \E t \in queue : Lose(t)
              \/ \E p \in Pairs : StartAttempt(p) \/ MarkDeleting(p) \/ EndAttempt(p)
              \/ \E d \in Docs : Edit(d)
  BY <1>0, <1>4, KeepSync
<1>5. CASE UNCHANGED pruneVars /\ \E q \in Pairs : IndexStep(q) \/ IndexFails(q)
  BY <1>0, <1>5, KeepIndexers
<1>6. ASSUME NEW w \in Workers, \/ Clean(w)
                                \/ UNCHANGED pruneVars /\ (Raise(w) \/ Refused(w) \/ Kill(w))
      PROVE  KeepInv'
  <2>1. WorkStep(w) \/ Raise(w) \/ Refused(w) \/ (Kill(w) /\ AtWork(w))
    BY <1>6, <1>f DEF Clean, AckTask, WorkStep
  <2>2. UNCHANGED pruneVars \/ AckTask(w)
    BY <1>6 DEF Clean
  <2> QED BY <1>0, <2>1, <2>2, KeepWorkers
<1>7. ASSUME NEW q \in Pairs, CreationStops(q) \/ GeneratorStops(q)
      PROVE  KeepInv'
  <2>1. CASE Send(q)
    BY <2>1, KeepSend
  <2>2. CASE ~ Send(q)
    BY <1>7, <1>f, <2>2, KeepPrunings
  <2> QED BY <2>1, <2>2
<1>8. CASE Fails
  BY <1>0, <1>4, <1>5, <1>6, <1>7, <1>8, KeepDeletions DEF Fails
<1> QED BY <1>1, <1>2, <1>3, <1>4, <1>5, <1>6, <1>8 DEF PruneNext

LEMMA AlwaysKept ==
    ASSUME Undisturbed, Patient, Prompt, Apart, Once
    PROVE  PruneSpec => [](TypeOK /\ PruneTypeOK /\ PruneInv /\ KeepInv)
<1>1. PruneInit => PruneInv
  BY DEF PruneInit, PruneInv, Fenced, PruneIds, NoPrune, NoGenerator
<1>2. PruneInit => KeepInv
  <2> SUFFICES ASSUME PruneInit PROVE KeepInv
    OBVIOUS
  <2>1. (\A w \in Workers : worker[w].pc = "idle") /\ queue = {}
    BY DEF PruneInit, Init, NoWork
  <2>2. \A p \in Pairs : indexer[p].pc = "idle"
    BY DEF PruneInit, Init, NoIndex
  <2>3. \A p \in Pairs : Alive(p) = {}
    BY <2>1, AliveMeans DEF Busy
  <2>4. CleanInv
    BY <2>1, <2>2 DEF CleanInv, Alone, OneEach, Pending, Made, HeldPcs, Busy, AtDoc
  <2>5. ASSUME NEW p \in Pairs PROVE Guarded(p)
    <3>1. Tracked(p) /\ PruneTracked(p) /\ Doomed(p)
      BY <2>3 DEF Tracked, PruneTracked, PruneTasks, Doomed
    <3>2. FencesApart(p) /\ Listed(p) /\ Unsent(p)
      BY DEF PruneInit, Init, FencesApart, Listed, Unsent, NoGenerator, Owners
    <3>3. Born(p)
      BY <2>2 DEF PruneInit, Born
    <3> QED BY <3>1, <3>2, <3>3 DEF Guarded
  <2> QED BY <2>4, <2>5 DEF KeepInv
<1>3. PruneTypeOK /\ PruneInv /\ [PruneNext]_allVars => PruneInv'
  BY PruneNextFences DEF Once
<1>4. TypeOK /\ PruneTypeOK /\ PruneInv /\ KeepInv /\ [PruneNext]_allVars => KeepInv'
  BY SyncAssumption, PruningAssumption, KeepStep
<1> QED BY <1>1, <1>2, <1>3, <1>4, PruneTypeCorrect, PTL DEF PruneSpec

\* An active pair keeps the documents that are at its source, and they stay in the index but
\* for an indexing that fails, whatever is pruned or deleted beside it, as long as nothing
\* touches a document while a task works on it, neither a deletion nor a pruning overtakes
\* what was to end before it, a pair is not given documents while its list is compared, and
\* no task is sent, or runs, twice: in particular no generator raises with tasks sent.
THEOREM SourceIsKept ==
    ASSUME Undisturbed, Patient, Prompt, Apart, Once
    PROVE  PruneSpec => SourceKept
<1> DEFINE Kept == \A d \in Docs : \A p \in refs[d] :
                       status[p] = "active" /\ source[p][d] = "there"
                           => /\ p \in refs'[d]
                              /\ index[d].present => index'[d].present \/ FailsToWrite(d)
<1>1. TypeOK /\ PruneTypeOK /\ PruneInv /\ KeepInv /\ [PruneNext]_allVars => [Kept]_allVars
  <2> SUFFICES ASSUME TypeOK, KeepInv, PruneNext, NEW d \in Docs, NEW p \in refs[d],
                      status[p] = "active", source[p][d] = "there"
               PROVE  Survives(p, d)
    BY DEF Survives
  <2>0. CleanInv /\ p \in Pairs /\ Doomed(p)
    BY TypeParts DEF KeepInv, Guarded, DocsTyped
  <2>1. CASE UNCHANGED docVars
    BY <2>1 DEF Survives, docVars
  <2>2. ASSUME NEW w \in Workers, WorkStep(w) \/ Raise(w) \/ Refused(w) \/ Kill(w)
        PROVE  Survives(p, d)
    <3>1. Busy(w) /\ worker[w].task.owner = p => worker[w].task \in Alive(p)
      BY AliveMeans
    <3> QED BY <2>0, <2>2, <3>1, WorkersTake DEF Doomed, Doc
  <2>3. ASSUME NEW q \in Pairs, IndexStep(q) \/ IndexFails(q) \/ \E e \in Docs : TakeBatch(q, e)
        PROVE  Survives(p, d)
    BY <2>0, <2>3, IndexersTake
  <2>4. ASSUME NEW q \in Pairs, CheckPrune(q) \/ PruneStep(q) \/ CreationStops(q) \/ GeneratorStops(q)
        PROVE  UNCHANGED docVars
    BY <2>4 DEF CheckPrune, PruneStep, CreatePrune, Begin, Extract, Compare, Send, Complete, Finish,
                MonitorPrune, ValidatePrune, PruneExpires, CreationStops, GeneratorStops, vars, docVars
  <2>5. ASSUME NEW q \in Pairs, DeletionStep(q) \/ DeletionStops(q)
        PROVE  UNCHANGED docVars
    BY <2>5 DEF DeletionStep, DeletionStops, Revoke, ResetBlocking, DeleteUnblocked, GenerateDeletion,
                GenerationStops, DeletionMonitor, Validate, vars, docVars
  <2>6. CASE SyncStep \/ SyncGenerationStops \/ \E t \in queue : Lose(t)
    BY <2>1, <2>6 DEF SyncStep, GenerateSync, SyncMonitor, SyncExpires, SyncGenerationStops, Lose
  <2>7. CASE \E q \in Pairs : MarkDeleting(q) \/ StartAttempt(q) \/ EndAttempt(q)
    BY <2>1, <2>7 DEF MarkDeleting, StartAttempt, EndAttempt
  <2>8. CASE \E e \in Docs : Edit(e)
    BY <2>8 DEF Edit, Survives
  <2>9. CASE \E q \in Pairs, e \in Docs : SourceChanges(q, e)
    BY <2>1, <2>9 DEF SourceChanges, vars, docVars
  <2>10. ASSUME NEW w \in Workers, Clean(w) PROVE WorkStep(w)
    BY <2>10 DEF Clean, AckTask, WorkStep
  <2> QED BY <2>1, <2>2, <2>3, <2>4, <2>5, <2>6, <2>7, <2>8, <2>9, <2>10 DEF PruneNext, Fails, IndexListed
<1> QED BY <1>1, AlwaysKept, PTL DEF PruneSpec, SourceKept
====
