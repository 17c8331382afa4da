---- MODULE DocumentSafety ----
(***************************************************************************)
(* What a pair that is gone grants, what an active pair keeps, and where   *)
(* the index agrees with the tables: proofs about DocumentSync for any     *)
(* number of documents, pairs, threads, retries, changes and faults.       *)
(***************************************************************************)
EXTENDS DocumentSync, FiniteSetTheorems, TLAPS

----------------------------------------------------------------------------
(* Types *)

Rows == [exists : BOOLEAN, hidden : BOOLEAN, stale : BOOLEAN]
WorkPcs == {"idle", "start", "delete", "erase", "read", "update", "mark", "ack"}
Works == [pc : WorkPcs, task : Tasks \cup {NoTask}, seen : Entries]
IndexPcs == {"idle", "prepare", "lock", "write", "post", "unwritten", "resolve", "record"}
Indexers == [pc : IndexPcs, doc : Docs \cup {"none"}, seen : Entries]
Ids == [owner : Owners, doc : Docs, round : Rounds]

DocsTyped ==
    /\ row \in [Docs -> Rows]
    /\ refs \in [Docs -> SUBSET Pairs]
    /\ index \in [Docs -> Entries]
PairsTyped ==
    /\ status \in [Pairs -> {"active", "deleting", "gone"}] /\ attempts \subseteq Pairs
    /\ failed \in [Docs -> SUBSET Pairs]
    /\ fence \in [Owners -> {"down", "setup", "up"}]
    /\ {changes, faults} \subseteq Nat
IndexersTyped ==
    /\ indexer \in [Pairs -> Indexers]
    /\ \A p \in Pairs : indexer[p].pc # "idle" => indexer[p].doc \in Docs
TasksTyped == taskset \subseteq Ids /\ queue \subseteq Tasks
WorkersTyped ==
    /\ worker \in [Workers -> Works]
    /\ \A w \in Workers : worker[w].pc # "idle" => worker[w].task \in Tasks

LEMMA TypeParts ==
    TypeOK <=> DocsTyped /\ PairsTyped /\ IndexersTyped /\ TasksTyped /\ WorkersTyped
BY DEF TypeOK, DocsTyped, PairsTyped, IndexersTyped, TasksTyped, WorkersTyped, Rows, Works,
       WorkPcs, Indexers, IndexPcs, Ids

LEMMA TypePartsPrimed ==
    TypeOK' <=> DocsTyped' /\ PairsTyped' /\ IndexersTyped' /\ TasksTyped' /\ WorkersTyped'
BY DEF TypeOK, DocsTyped, PairsTyped, IndexersTyped, TasksTyped, WorkersTyped, Rows, Works,
       WorkPcs, Indexers, IndexPcs, Ids

LEMMA EntriesMade ==
    /\ Absent \in Entries
    /\ \A h \in BOOLEAN, a \in SUBSET Pairs : Entry(h, a) \in Entries
    /\ DocsTyped => \A d \in Docs : Fields(d) \in Entries /\ Access(d) \subseteq refs[d]
    /\ NoWork \in Works /\ NoIndex \in Indexers /\ NoRow \in Rows
BY DEF Absent, Entries, Entry, Fields, Access, DocsTyped, Rows, NoWork, Works, WorkPcs, NoIndex,
       Indexers, IndexPcs, NoRow

\* A thread goes from one step to the next.
LEMMA Moved ==
    ASSUME WorkersTyped, NEW w \in Workers, NEW k \in Works,
           k.pc # "idle" => k.task \in Tasks, worker' = [worker EXCEPT ![w] = k]
    PROVE  WorkersTyped'
BY DEF WorkersTyped

LEMMA Gone ==
    ASSUME WorkersTyped, NEW w \in Workers, NEW pc \in WorkPcs, worker[w].pc # "idle", Goto(w, pc)
    PROVE  WorkersTyped'
<1> DEFINE k == [worker[w] EXCEPT !.pc = pc]
<1>1. k \in Works /\ k.task = worker[w].task
      BY DEF WorkersTyped, Works
<1>2. worker' = [worker EXCEPT ![w] = k]
      BY DEF Goto
<1> QED BY <1>1, <1>2, Moved DEF WorkersTyped

\* What a round of sending makes are tasks, and their ids are ids.
LEMMA NewTasksTyped ==
    ASSUME SyncAssumption, NEW o \in Owners, NEW n \in Nat, NEW ds \in SUBSET Docs
    PROVE  /\ NewTasks(o, n, ds) \subseteq Tasks
           /\ n \in Rounds => \A t \in NewTasks(o, n, ds) : Id(t) \in Ids
BY DEF NewTasks, Tasks, Id, Ids, SyncAssumption

\* What raising does to the tables, the queue and the thread.
LEMMA ExceptTyped ==
    ASSUME SyncAssumption, TypeOK, NEW w \in Workers, worker[w].pc \notin {"idle"}, Except(w)
    PROVE  DocsTyped' /\ WorkersTyped' /\ queue' \subseteq Tasks
<1> DEFINE t == worker[w].task
<1>0. DocsTyped /\ TasksTyped /\ WorkersTyped /\ t \in Tasks /\ t.doc \in Docs
      BY TypeParts DEF WorkersTyped, Tasks
<1>1. CASE /\ t.tries < MaxRetries
           /\ queue' = queue \cup {[t EXCEPT !.tries = @ + 1]}
           /\ worker' = [worker EXCEPT ![w] = NoWork]
           /\ UNCHANGED docVars
  <2>1. [t EXCEPT !.tries = @ + 1] \in Tasks
        BY <1>0, <1>1 DEF Tasks, SyncAssumption
  <2>2. WorkersTyped'
        BY <1>0, <1>1, Moved, EntriesMade DEF NoWork
  <2> QED BY <1>0, <1>1, <2>1, <2>2 DEF TasksTyped, DocsTyped, docVars
<1>2. CASE /\ t.tries = MaxRetries /\ ~ Cleans(w)
           /\ Goto(w, "ack")
           /\ UNCHANGED <<queue, docVars>>
  <2>1. WorkersTyped'
        BY <1>0, <1>2, Gone DEF WorkPcs
  <2> QED BY <1>0, <1>2, <2>1 DEF TasksTyped, DocsTyped, docVars
<1>3. CASE /\ t.tries = MaxRetries /\ Cleans(w) /\ ~ Locked(t.doc)
           /\ refs' = [refs EXCEPT ![t.doc] = @ \ {t.owner}]
           /\ row' = [row EXCEPT ![t.doc].stale = @ \/ row[t.doc].exists]
           /\ Goto(w, "ack")
           /\ UNCHANGED <<queue, index>>
  <2>1. WorkersTyped'
        BY <1>0, <1>3, Gone DEF WorkPcs
  <2>2. row[t.doc] \in Rows /\ row[t.doc].stale \in BOOLEAN /\ row[t.doc].exists \in BOOLEAN
        BY <1>0 DEF DocsTyped, Rows
  <2>3. (row[t.doc].stale \/ row[t.doc].exists) \in BOOLEAN
        OBVIOUS
  <2>4. [row[t.doc] EXCEPT !.stale = @ \/ row[t.doc].exists] \in Rows
        BY <2>2, <2>3 DEF Rows
  <2>5. row' \in [Docs -> Rows]
        BY <1>0, <1>3, <2>4 DEF DocsTyped
  <2>6. refs' \in [Docs -> SUBSET Pairs]
        BY <1>0, <1>3 DEF DocsTyped
  <2> QED BY <1>0, <1>3, <2>1, <2>5, <2>6 DEF TasksTyped, DocsTyped
<1> QED BY <1>1, <1>2, <1>3 DEF Except

----------------------------------------------------------------------------
(* Every step keeps the types *)

LEMMA TypeInit ==
    ASSUME SyncAssumption, Init
    PROVE  TypeOK
<1>1. DocsTyped
      BY DEF Init, SyncAssumption, DocsTyped, Rows, Entries, Entry, Absent
<1>2. PairsTyped
      BY DEF Init, PairsTyped
<1>3. IndexersTyped /\ WorkersTyped
      BY EntriesMade DEF Init, IndexersTyped, WorkersTyped, NoIndex, NoWork
<1>4. TasksTyped
      BY DEF Init, TasksTyped
<1> QED BY <1>1, <1>2, <1>3, <1>4, TypeParts

LEMMA TypeUsers ==
    ASSUME SyncAssumption, TypeOK,
           \/ \E d \in Docs : Edit(d)
           \/ \E p \in Pairs : MarkDeleting(p) \/ StartAttempt(p) \/ EndAttempt(p)
    PROVE  TypeOK'
<1>0. DocsTyped /\ PairsTyped /\ IndexersTyped /\ TasksTyped /\ WorkersTyped
      BY TypeParts
<1>1. CASE \E d \in Docs : Edit(d)
  <2>1. PICK d \in Docs : Edit(d)
        BY <1>1
  <2>2. row[d].hidden \in BOOLEAN /\ row[d] \in Rows
        BY <1>0 DEF DocsTyped, Rows
  <2>3. (~ row[d].hidden) \in BOOLEAN
        OBVIOUS
  <2>4. [row[d] EXCEPT !.hidden = ~ @, !.stale = TRUE] \in Rows
        BY <2>2, <2>3 DEF Rows
  <2>5. row' = [row EXCEPT ![d] = [row[d] EXCEPT !.hidden = ~ @, !.stale = TRUE]]
        BY <2>1 DEF Edit
  <2>6. DocsTyped'
        BY <1>0, <2>1, <2>4, <2>5 DEF Edit, DocsTyped
  <2> QED BY <1>0, <2>1, <2>6, TypePartsPrimed DEF Edit, PairsTyped, IndexersTyped, TasksTyped,
                 WorkersTyped, pairVars, redis
<1>2. CASE \E p \in Pairs : MarkDeleting(p) \/ StartAttempt(p) \/ EndAttempt(p)
  <2>1. DocsTyped' /\ IndexersTyped' /\ TasksTyped' /\ WorkersTyped'
        BY <1>0, <1>2 DEF MarkDeleting, StartAttempt, EndAttempt, DocsTyped, IndexersTyped,
              TasksTyped, WorkersTyped, docVars, redis
  <2>2. PairsTyped'
        BY <1>0, <1>2 DEF MarkDeleting, StartAttempt, EndAttempt, PairsTyped, redis
  <2> QED BY <2>1, <2>2, TypePartsPrimed
<1> QED BY <1>1, <1>2

\* An indexing task goes from one step to the next.
LEMMA IndexerMoved ==
    ASSUME IndexersTyped, NEW p \in Pairs, NEW k \in Indexers,
           k.pc # "idle" => k.doc \in Docs, indexer' = [indexer EXCEPT ![p] = k]
    PROVE  IndexersTyped'
BY DEF IndexersTyped

\* It keeps its document when it goes on, and nothing when it ends.
LEMMA Turned ==
    ASSUME IndexersTyped, NEW p \in Pairs
    PROVE  /\ \A pc \in IndexPcs : indexer' = [indexer EXCEPT ![p].pc = pc] =>
                 /\ indexer'[p].pc = pc /\ indexer'[p].doc = indexer[p].doc
                 /\ indexer'[p].seen = indexer[p].seen
                 /\ \A q \in Pairs : q # p => indexer'[q] = indexer[q]
           /\ indexer' = [indexer EXCEPT ![p] = NoIndex] =>
                 /\ indexer'[p].pc = "idle"
                 /\ \A q \in Pairs : q # p => indexer'[q] = indexer[q]
BY DEF IndexersTyped, Indexers, NoIndex

LEMMA TypeIndexing ==
    ASSUME SyncAssumption, TypeOK, NEW p \in Pairs,
           IndexStep(p) \/ IndexFails(p) \/ \E d \in Docs : TakeBatch(p, d)
    PROVE  TypeOK'
<1> DEFINE i == indexer[p]
           d == i.doc
<1>0. /\ DocsTyped /\ PairsTyped /\ IndexersTyped /\ TasksTyped /\ WorkersTyped
      /\ i \in Indexers
      BY TypeParts DEF IndexersTyped
<1>t. ASSUME UNCHANGED <<pairVars, redis, queue, worker>>, {changes', faults'} \subseteq Nat
      PROVE  PairsTyped' /\ TasksTyped' /\ WorkersTyped'
      BY <1>0, <1>t DEF PairsTyped, TasksTyped, WorkersTyped, pairVars, redis
<1>p. ASSUME NEW pc \in IndexPcs, i.pc # "idle", indexer' = [indexer EXCEPT ![p].pc = pc]
      PROVE  IndexersTyped'
  <2> DEFINE k == [i EXCEPT !.pc = pc]
  <2>1. k \in Indexers /\ k.doc \in Docs
        BY <1>0, <1>p DEF Indexers, IndexersTyped
  <2>2. indexer' = [indexer EXCEPT ![p] = k]
        BY <1>p
  <2> QED BY <1>0, <2>1, <2>2, IndexerMoved
<1>1. CASE Prepare(p)
  <2>1. d \in Docs /\ row[d] \in Rows /\ refs[d] \in SUBSET Pairs
        BY <1>0, <1>1 DEF Prepare, IndexersTyped, DocsTyped
  <2>2. refs' \in [Docs -> SUBSET Pairs]
        BY <1>0, <1>1, <2>1 DEF Prepare, DocsTyped
  <2>3. (row[d].stale \/ ~ row[d].exists) \in BOOLEAN
        OBVIOUS
  <2>4. [exists |-> TRUE, hidden |-> FALSE, stale |-> row[d].stale \/ ~ row[d].exists] \in Rows
        BY <2>3 DEF Rows
  <2>5. row' = [row EXCEPT ![d] = [exists |-> TRUE, hidden |-> FALSE,
                                   stale |-> row[d].stale \/ ~ row[d].exists]]
        BY <1>1 DEF Prepare
  <2>6. DocsTyped'
    <3>1. UNCHANGED index
          BY <1>1 DEF Prepare
    <3>2. row' \in [Docs -> Rows]
          BY <1>0, <2>4, <2>5 DEF DocsTyped
    <3> QED BY <1>0, <2>2, <3>1, <3>2 DEF DocsTyped
  <2>8. \E pc \in {"record", "lock"} : indexer' = [indexer EXCEPT ![p].pc = pc]
        BY <1>1 DEF Prepare
  <2>9. IndexersTyped'
        BY <1>1, <1>p, <2>8 DEF Prepare, IndexPcs
  <2> QED BY <1>0, <1>1, <1>t, <2>6, <2>9, TypePartsPrimed DEF Prepare, PairsTyped
<1>2. CASE LockRow(p)
  <2>1. d \in Docs
        BY <1>0, <1>2 DEF LockRow, IndexersTyped
  <2> DEFINE k == [i EXCEPT !.pc = "write", !.seen = Entry(FALSE, Access(d))]
  <2>2. Access(d) \in SUBSET Pairs
        BY <1>0, <2>1 DEF Access, DocsTyped
  <2>3. Entry(FALSE, Access(d)) \in Entries
        BY <2>2, EntriesMade
  <2>4. k \in Indexers /\ k.doc = d
        BY <1>0, <2>3 DEF Indexers, IndexPcs
  <2>5. indexer' = [indexer EXCEPT ![p] = k] \/ indexer' = [indexer EXCEPT ![p].pc = "record"]
        BY <1>2 DEF LockRow
  <2>6. IndexersTyped'
    <3> HIDE DEF k
    <3>1. indexer' = [indexer EXCEPT ![p] = k] => IndexersTyped'
          BY <1>0, <2>1, <2>4, IndexerMoved
    <3>2. indexer' = [indexer EXCEPT ![p].pc = "record"] => IndexersTyped'
          BY <1>2, <1>p DEF LockRow, IndexPcs
    <3> QED BY <2>5, <3>1, <3>2
  <2> QED BY <1>0, <1>2, <1>t, <2>6, TypePartsPrimed DEF LockRow, PairsTyped, DocsTyped, docVars
<1>3. CASE WriteChunks(p)
  <2>1. d \in Docs /\ i.seen \in Entries
        BY <1>0, <1>3 DEF WriteChunks, IndexersTyped, Indexers
  <2>2. DocsTyped'
        BY <1>0, <1>3, <2>1 DEF WriteChunks, DocsTyped
  <2>4. IndexersTyped'
        BY <1>3, <1>p DEF WriteChunks, IndexPcs
  <2> QED BY <1>0, <1>3, <1>t, <2>2, <2>4, TypePartsPrimed DEF WriteChunks, PairsTyped
<1>4. CASE PostIndex(p)
  <2>1. DocsTyped'
        BY <1>0, <1>4 DEF PostIndex, DocsTyped, Rows
  <2>2. PICK pc \in {"resolve", "record"} : indexer' = [indexer EXCEPT ![p].pc = pc]
        BY <1>4 DEF PostIndex
  <2>3. IndexersTyped'
        BY <1>4, <1>p, <2>2 DEF PostIndex, IndexPcs
  <2> QED BY <1>0, <1>4, <1>t, <2>1, <2>3, TypePartsPrimed DEF PostIndex, PairsTyped
<1>5. CASE IndexingRaises(p) \/ Abandon(p)
  <2>1. IndexersTyped'
    <3>1. CASE IndexingRaises(p)
          BY <1>p, <3>1 DEF IndexingRaises, IndexPcs
    <3>2. CASE Abandon(p)
          BY <1>0, <3>2, EntriesMade, IndexerMoved DEF Abandon, NoIndex
    <3> QED BY <1>5, <3>1, <3>2
  <2>2. faults' \in Nat /\ changes' \in Nat
        BY <1>0, <1>5 DEF IndexingRaises, Abandon, Fault, PairsTyped
  <2>3. UNCHANGED <<docVars, pairVars, redis, queue, worker>>
        BY <1>5 DEF IndexingRaises, Abandon
  <2> QED BY <1>0, <1>t, <2>1, <2>2, <2>3, TypePartsPrimed DEF DocsTyped, docVars
<1>7. CASE WriteFails(p)
  <2>1. d \in Docs /\ index[d] \in Entries /\ i.seen \in Entries /\ Absent \in Entries
        BY <1>0, <1>7, EntriesMade DEF WriteFails, IndexersTyped, Indexers, DocsTyped
  <2>2. PICK e \in {index[d], Absent, i.seen} : index' = [index EXCEPT ![d] = e]
        BY <1>7 DEF WriteFails
  <2>3. DocsTyped'
        BY <1>0, <1>7, <2>1, <2>2 DEF WriteFails, DocsTyped
  <2>4. IndexersTyped'
        BY <1>7, <1>p DEF WriteFails, IndexPcs
  <2>5. faults' \in Nat /\ changes' \in Nat
        BY <1>0, <1>7 DEF WriteFails, Fault, PairsTyped
  <2> QED BY <1>0, <1>7, <1>t, <2>3, <2>4, <2>5, TypePartsPrimed DEF WriteFails
<1>8. CASE Report(p)
  <2>1. i.doc \in Docs /\ failed[i.doc] \in SUBSET Pairs
        BY <1>0, <1>8 DEF Report, IndexersTyped, PairsTyped
  <2>2. PICK ps \in SUBSET Pairs : failed' = [failed EXCEPT ![i.doc] = ps]
        BY <1>8, <2>1 DEF Report
  <2>3. PairsTyped'
        BY <1>0, <1>8, <2>2 DEF Report, PairsTyped, redis
  <2>4. IndexersTyped'
        BY <1>0, <1>8, EntriesMade, IndexerMoved DEF Report, NoIndex
  <2> QED BY <1>0, <1>8, <2>3, <2>4, TypePartsPrimed
          DEF Report, DocsTyped, TasksTyped, WorkersTyped, docVars, redis
<1>6. CASE \E e \in Docs : TakeBatch(p, e)
  <2>1. PICK e \in Docs : TakeBatch(p, e)
        BY <1>6
  <2> DEFINE k == [NoIndex EXCEPT !.pc = "prepare", !.doc = e]
  <2>2. k \in Indexers /\ k.doc \in Docs
        BY EntriesMade DEF NoIndex, Indexers, IndexPcs
  <2>3. IndexersTyped'
        BY <1>0, <2>1, <2>2, IndexerMoved DEF TakeBatch
  <2>4. changes \in Nat /\ faults \in Nat
        BY <1>0 DEF PairsTyped
  <2>5. changes' = changes + 1 /\ faults' = faults
        BY <2>1 DEF TakeBatch
  <2>6. UNCHANGED <<docVars, pairVars, redis, queue, worker>>
        BY <2>1 DEF TakeBatch
  <2>7. PairsTyped' /\ TasksTyped' /\ WorkersTyped'
        BY <1>t, <2>4, <2>5, <2>6
  <2>8. DocsTyped'
        BY <1>0, <2>6 DEF DocsTyped, docVars
  <2> QED BY <2>3, <2>7, <2>8, TypePartsPrimed
<1> QED BY <1>1, <1>2, <1>3, <1>4, <1>5, <1>6, <1>7, <1>8 DEF IndexStep, IndexFails

LEMMA TypeWorkers ==
    ASSUME SyncAssumption, TypeOK, NEW w \in Workers,
           WorkStep(w) \/ Raise(w) \/ Refused(w) \/ Kill(w)
    PROVE  TypeOK'
<1> DEFINE k == worker[w]
           d == k.task.doc
<1>0. /\ DocsTyped /\ PairsTyped /\ IndexersTyped /\ TasksTyped /\ WorkersTyped
      /\ k \in Works
      /\ k.pc # "idle" => k.task \in Tasks /\ d \in Docs
      /\ changes \in Nat /\ faults \in Nat
      BY TypeParts DEF WorkersTyped, Tasks, PairsTyped
<1>p. ASSUME UNCHANGED <<pairVars, indexer, fence>>, changes' \in Nat, faults' \in Nat
      PROVE  PairsTyped' /\ IndexersTyped'
      BY <1>0, <1>p DEF PairsTyped, IndexersTyped, pairVars
<1>1. CASE \E t \in queue : Take(w, t)
  <2>1. PICK t \in queue : Take(w, t)
        BY <1>1
  <2>2. [pc |-> "start", task |-> t, seen |-> Absent] \in Works /\ t \in Tasks
        BY <1>0, EntriesMade DEF Works, WorkPcs, TasksTyped
  <2>3. WorkersTyped'
        BY <1>0, <2>1, <2>2, Moved DEF Take
  <2> QED BY <1>0, <2>1, <1>p, <2>3, TypePartsPrimed DEF Take, DocsTyped, TasksTyped, docVars, redis
<1>2. CASE Start(w)
  <2>1. PICK pc \in {"read", "delete", "ack"} : Goto(w, pc)
        BY <1>2 DEF Start
  <2>2. WorkersTyped'
        BY <1>0, <1>2, <2>1, Gone DEF Start, WorkPcs
  <2> QED BY <1>0, <1>2, <1>p, <2>2, TypePartsPrimed DEF Start, DocsTyped, TasksTyped, docVars, redis
<1>3. CASE Read(w)
  <2>1. d \in Docs /\ Doc(w) = d
        BY <1>0, <1>3 DEF Read, Doc
  <2>2. [k EXCEPT !.pc = "update", !.seen = Fields(d)] \in Works /\ [k EXCEPT !.pc = "ack"] \in Works
        BY <1>0, <2>1, EntriesMade DEF Works, WorkPcs
  <2>3. \E m \in {[k EXCEPT !.pc = "update", !.seen = Fields(d)], [k EXCEPT !.pc = "ack"]} :
           m.task = k.task /\ worker' = [worker EXCEPT ![w] = m]
        BY <1>0, <1>3, <2>1 DEF Read, Works
  <2>4. WorkersTyped'
    <3>1. PICK m \in {[k EXCEPT !.pc = "update", !.seen = Fields(d)], [k EXCEPT !.pc = "ack"]} :
             m.task = k.task /\ worker' = [worker EXCEPT ![w] = m]
          BY <2>3
    <3>2. m \in Works
          BY <2>2
    <3>3. m.task \in Tasks
          BY <1>0, <1>3, <3>1 DEF Read
    <3> QED BY <1>0, <3>1, <3>2, <3>3, Moved
  <2>5. UNCHANGED <<docVars, pairVars, indexer, redis, queue, changes, faults>>
        BY <1>3 DEF Read, redis
  <2>6. DocsTyped' /\ TasksTyped'
        BY <1>0, <2>5 DEF DocsTyped, TasksTyped, docVars, redis
  <2>7. PairsTyped' /\ IndexersTyped'
        BY <1>0, <1>p, <2>5 DEF redis
  <2> QED BY <2>4, <2>6, <2>7, TypePartsPrimed
<1>4. CASE UpdateIndex(w)
  <2>1. k.seen \in Entries /\ d \in Docs
        BY <1>0, <1>4 DEF Works, UpdateIndex
  <2>2. DocsTyped'
        BY <1>0, <1>4, <2>1 DEF UpdateIndex, Update, Doc, DocsTyped
  <2>3. WorkersTyped'
        BY <1>0, <1>4, Gone DEF UpdateIndex, WorkPcs
  <2> QED BY <1>0, <1>4, <1>p, <2>2, <2>3, TypePartsPrimed DEF UpdateIndex, TasksTyped, redis
<1>5. CASE MarkSynced(w) \/ Raise(w)
  <2>1. k.pc \notin {"idle"}
        BY <1>5 DEF MarkSynced, Raise
  <2>2. CASE Except(w)
    <3>1. DocsTyped' /\ WorkersTyped' /\ queue' \subseteq Tasks
          BY <2>1, <2>2, ExceptTyped
    <3>2. changes' \in Nat /\ faults' \in Nat
          BY <1>0, <1>5 DEF MarkSynced, Raise, Fault
    <3>3. UNCHANGED <<pairVars, indexer, redis>>
          BY <1>5 DEF MarkSynced, Raise
    <3> QED BY <1>0, <1>p, <3>1, <3>2, <3>3, TypePartsPrimed DEF TasksTyped, redis
  <2>3. CASE ~ Except(w)
    <3>1. MarkSynced(w) /\ row[d].exists
          BY <1>5, <2>3 DEF MarkSynced, Raise, Doc
    <3>2. d \in Docs
          BY <1>0, <2>1
    <3>3. /\ row' = [row EXCEPT ![d].stale = FALSE]
          /\ refs' = refs \/ refs' = [refs EXCEPT ![d] = @ \ {worker[w].task.owner}]
          /\ Goto(w, "ack")
          /\ UNCHANGED <<index, queue, pairVars, indexer, redis, changes, faults>>
          BY <2>3, <3>1 DEF MarkSynced, Doc
    <3>4. DocsTyped'
      <4>0. [row[d] EXCEPT !.stale = FALSE] \in Rows
            BY <1>0, <3>2 DEF DocsTyped, Rows
      <4>1. row' \in [Docs -> Rows]
            BY <1>0, <3>3, <4>0 DEF DocsTyped
      <4>2. refs \in [Docs -> SUBSET Pairs] /\ index \in [Docs -> Entries]
            BY <1>0 DEF DocsTyped
      <4>3. refs[d] \ {worker[w].task.owner} \in SUBSET Pairs
            BY <3>2, <4>2
      <4>4. refs' = refs \/ refs' = [refs EXCEPT ![d] = refs[d] \ {worker[w].task.owner}]
            BY <3>3
      <4>5. refs' \in [Docs -> SUBSET Pairs]
        <5>1. CASE refs' = refs
              BY <4>2, <5>1
        <5>2. CASE refs' = [refs EXCEPT ![d] = refs[d] \ {worker[w].task.owner}]
              BY <4>2, <4>3, <5>2
        <5> QED BY <4>4, <5>1, <5>2
      <4>6. index' \in [Docs -> Entries]
            BY <3>3, <4>2
      <4> QED BY <4>1, <4>5, <4>6 DEF DocsTyped
    <3>5. WorkersTyped'
          BY <1>0, <2>1, <3>3, Gone DEF WorkPcs
    <3>6. TasksTyped'
          BY <1>0, <3>3 DEF TasksTyped, redis
    <3>7. PairsTyped' /\ IndexersTyped'
          BY <1>0, <1>p, <3>3 DEF redis
    <3> QED BY <3>4, <3>5, <3>6, <3>7, TypePartsPrimed
  <2> QED BY <2>2, <2>3
<1>6. CASE DeleteIndexed(w)
  <2>1. DocsTyped'
        BY <1>0, <1>6, EntriesMade DEF DeleteIndexed, DocsTyped
  <2>2. WorkersTyped'
        BY <1>0, <1>6, Gone DEF DeleteIndexed, WorkPcs
  <2> QED BY <1>0, <1>6, <1>p, <2>1, <2>2, TypePartsPrimed DEF DeleteIndexed, TasksTyped, redis
<1>7. CASE EraseRows(w)
  <2>1. DocsTyped'
        BY <1>0, <1>7, EntriesMade DEF EraseRows, DocsTyped
  <2>2. WorkersTyped'
        BY <1>0, <1>7, Gone DEF EraseRows, WorkPcs
  <2> QED BY <1>0, <1>7, <1>p, <2>1, <2>2, TypePartsPrimed DEF EraseRows, TasksTyped, redis
<1>8. CASE Ack(w)
  <2>1. WorkersTyped'
        BY <1>0, <1>8, EntriesMade, Moved DEF Ack, NoWork
  <2> QED BY <1>0, <1>8, <1>p, <2>1, TypePartsPrimed DEF Ack, TasksTyped, DocsTyped, docVars
<1>9. CASE Refused(w)
  <2>1. WorkersTyped'
        BY <1>0, <1>9, Gone DEF Refused, WorkPcs
  <2> QED BY <1>0, <1>9, <1>p, <2>1, TypePartsPrimed DEF Refused, Fault, TasksTyped, DocsTyped,
                 docVars, redis
<1>10. CASE Kill(w)
  <2>1. k.task \in Tasks
        BY <1>0, <1>10 DEF Kill, AtWork
  <2>2. WorkersTyped'
        BY <1>0, <1>10, EntriesMade, Moved DEF Kill, NoWork
  <2>3. changes' \in Nat /\ faults' \in Nat
        BY <1>0, <1>10 DEF Kill, Fault
  <2> QED BY <1>0, <1>10, <1>p, <2>1, <2>2, <2>3, TypePartsPrimed DEF Kill, TasksTyped, DocsTyped,
                 docVars, redis
<1> QED BY <1>1, <1>2, <1>3, <1>4, <1>5, <1>6, <1>7, <1>8, <1>9, <1>10 DEF WorkStep

\* The beat tasks and the broker touch fences, ids, the queue and the status of a pair.
LEMMA TypeBeat ==
    ASSUME SyncAssumption, TypeOK,
           \/ \E p \in Pairs : BeatStep(p) \/ GenerationStops(p)
           \/ SyncStep \/ SyncGenerationStops \/ \E t \in queue : Lose(t)
    PROVE  TypeOK'
<1>0. /\ DocsTyped /\ PairsTyped /\ IndexersTyped /\ TasksTyped /\ WorkersTyped
      /\ changes \in Nat /\ faults \in Nat /\ fence \in [Owners -> {"down", "setup", "up"}]
      BY TypeParts DEF PairsTyped
<1>o. \A p \in Pairs : p \in Owners /\ Referring(p) \in SUBSET Docs
      BY DEF Owners, Referring
<1>s. Sync \in Owners /\ Stale \in SUBSET Docs
      BY DEF Owners, Stale
<1>n. ASSUME NEW o \in Owners, NEW n \in Rounds, NEW ds \in SUBSET Docs,
             NEW ids \in SUBSET NewTasks(o, n, ds)
      PROVE  ids \subseteq Tasks /\ {Id(t) : t \in ids} \subseteq Ids
      BY NewTasksTyped DEF Rounds
<1>k. ASSUME UNCHANGED <<docVars, indexer, worker>>, fence' \in [Owners -> {"down", "setup", "up"}],
             status' \in [Pairs -> {"active", "deleting", "gone"}],
             attempts' = attempts, failed' = failed, changes' = changes, faults' \in Nat,
             taskset' \subseteq Ids, queue' \subseteq Tasks
      PROVE  TypeOK'
  <2>1. DocsTyped' /\ IndexersTyped' /\ WorkersTyped'
        BY <1>0, <1>k DEF DocsTyped, IndexersTyped, WorkersTyped, docVars
  <2>2. PairsTyped' /\ TasksTyped'
        BY <1>0, <1>k DEF PairsTyped, TasksTyped
  <2> QED BY <2>1, <2>2, TypePartsPrimed
<1>r. status \in [Pairs -> {"active", "deleting", "gone"}] /\ taskset \subseteq Ids /\ queue \subseteq Tasks
      BY <1>0 DEF PairsTyped, TasksTyped
<1>1. CASE \E p \in Pairs : GenerateDeletion(p)
  <2>1. PICK p \in Pairs : GenerateDeletion(p)
        BY <1>1
  <2>2. PICK n \in Rounds :
            /\ queue' = queue \cup NewTasks(p, n, Referring(p))
            /\ taskset' = (taskset \ IdsOf(p)) \cup {Id(t) : t \in NewTasks(p, n, Referring(p))}
        BY <2>1 DEF GenerateDeletion
  <2>3. /\ NewTasks(p, n, Referring(p)) \subseteq Tasks
        /\ {Id(t) : t \in NewTasks(p, n, Referring(p))} \subseteq Ids
        BY <1>o, <1>n
  <2>4. taskset' \subseteq Ids /\ queue' \subseteq Tasks
        BY <1>r, <2>2, <2>3
  <2> QED BY <1>0, <1>k, <1>r, <2>1, <2>4 DEF GenerateDeletion, pairVars
<1>2. CASE \E p \in Pairs : GenerationStops(p)
  <2>1. PICK p \in Pairs : GenerationStops(p)
        BY <1>2
  <2>a. PICK n \in Rounds : \E ids \in SUBSET NewTasks(p, n, Referring(p)) : \E sent \in SUBSET ids :
            /\ queue' = queue \cup sent
            /\ taskset' = (taskset \ IdsOf(p)) \cup {Id(t) : t \in ids}
        BY <2>1 DEF GenerationStops
  <2>2. PICK ids \in SUBSET NewTasks(p, n, Referring(p)) :
            /\ queue' \subseteq queue \cup ids
            /\ taskset' = (taskset \ IdsOf(p)) \cup {Id(t) : t \in ids}
        BY <2>a
  <2>3. ids \subseteq Tasks /\ {Id(t) : t \in ids} \subseteq Ids
        BY <1>o, <1>n
  <2>4. taskset' \subseteq Ids /\ queue' \subseteq Tasks
        BY <1>r, <2>2, <2>3
  <2>5. faults' \in Nat /\ fence' \in [Owners -> {"down", "setup", "up"}]
        BY <1>0, <1>o, <2>1 DEF GenerationStops, Fault
  <2> QED BY <1>k, <1>r, <2>1, <2>4, <2>5 DEF GenerationStops, pairVars
<1>3. CASE \E p \in Pairs : DeletionMonitor(p) \/ Validate(p)
  <2>1. PICK p \in Pairs : DeletionMonitor(p) \/ Validate(p)
        BY <1>3
  <2>2. /\ fence' \in [Owners -> {"down", "setup", "up"}] /\ taskset' \subseteq Ids
        /\ status' \in [Pairs -> {"active", "deleting", "gone"}]
        BY <1>0, <1>r, <2>1 DEF DeletionMonitor, Validate, Reset, pairVars
  <2>3. faults' \in Nat
        BY <1>0, <2>1 DEF DeletionMonitor, Validate, Fault
  <2> QED BY <1>k, <1>r, <2>1, <2>2, <2>3 DEF DeletionMonitor, Validate, pairVars
<1>4. CASE GenerateSync
  <2>2. PICK n \in Rounds :
            /\ queue' = queue \cup NewTasks(Sync, n, Stale)
            /\ taskset' = taskset \cup {Id(t) : t \in NewTasks(Sync, n, Stale)}
        BY <1>4 DEF GenerateSync
  <2>3. /\ NewTasks(Sync, n, Stale) \subseteq Tasks
        /\ {Id(t) : t \in NewTasks(Sync, n, Stale)} \subseteq Ids
        BY <1>s, <1>n
  <2>4. taskset' \subseteq Ids /\ queue' \subseteq Tasks
        BY <1>r, <2>2, <2>3
  <2> QED BY <1>0, <1>k, <1>r, <1>4, <2>4 DEF GenerateSync, pairVars
<1>5. CASE SyncGenerationStops
  <2>a. PICK n \in Rounds : \E ids \in SUBSET NewTasks(Sync, n, Stale) : \E sent \in SUBSET ids :
            /\ queue' = queue \cup sent
            /\ taskset' = taskset \cup {Id(t) : t \in ids}
        BY <1>5 DEF SyncGenerationStops
  <2>2. PICK ids \in SUBSET NewTasks(Sync, n, Stale) :
            /\ queue' \subseteq queue \cup ids
            /\ taskset' = taskset \cup {Id(t) : t \in ids}
        BY <2>a
  <2>3. ids \subseteq Tasks /\ {Id(t) : t \in ids} \subseteq Ids
        BY <1>s, <1>n
  <2>4. taskset' \subseteq Ids /\ queue' \subseteq Tasks
        BY <1>r, <2>2, <2>3
  <2> QED BY <1>0, <1>k, <1>r, <1>5, <2>4 DEF SyncGenerationStops, Fault, pairVars
<1>6. CASE SyncMonitor \/ SyncExpires
  <2>1. taskset' \subseteq Ids
        BY <1>r, <1>6 DEF SyncMonitor, SyncExpires, Reset
  <2> QED BY <1>0, <1>k, <1>r, <1>6, <2>1 DEF SyncMonitor, SyncExpires, Reset, pairVars
<1>7. CASE \E t \in queue : Lose(t)
      BY <1>0, <1>k, <1>r, <1>7 DEF Lose, Fault, pairVars, redis
<1> QED BY <1>1, <1>2, <1>3, <1>4, <1>5, <1>6, <1>7 DEF BeatStep, SyncStep

LEMMA TypeStep ==
    ASSUME SyncAssumption, TypeOK, [Next]_vars
    PROVE  TypeOK'
<1>1. CASE UNCHANGED vars
      BY <1>1 DEF TypeOK, vars, Entries, Tasks
<1> QED BY <1>1, TypeUsers, TypeIndexing, TypeWorkers, TypeBeat DEF Next, FaultStep

\* Whatever is stored has its type, and no task is sent again after its last attempt.
THEOREM TypeCorrect == Spec => []TypeOK
<1>1. Init => TypeOK
      BY SyncAssumption, TypeInit
<1>2. TypeOK /\ [Next]_vars => TypeOK'
      BY SyncAssumption, TypeStep
<1> QED BY <1>1, <1>2, PTL DEF Spec

----------------------------------------------------------------------------
(* The grants of a pair that is gone, where nothing disturbs a document while a task    *)
(* works on it                                                                          *)

HeldPcs == {"delete", "erase", "read", "update", "mark"}
LockPcs == {"write", "post", "unwritten"}

\* What the task of w leaves of the references of its document.
Left(w) == IF Cleans(w) THEN refs[Doc(w)] \ {worker[w].task.owner} ELSE refs[Doc(w)]

\* What the index grants is what the rows say, or is waiting to be synced; only a document
\* with a row has pairs, and none that is gone.
Sound(d) ==
    /\ index[d].access \subseteq refs[d] \/ NeedsSync(d)
    /\ refs[d] # {} => row[d].exists
    /\ \A p \in refs[d] : status[p] # "gone"
    /\ ~ index[d].present => index[d].access = {}

\* Cleanup tasks belong to pairs that are no longer active.
Inactive(t) == t.owner \in Pairs => status[t.owner] # "active"
Owned ==
    /\ \A t \in queue : Inactive(t)
    /\ \A w \in Workers : worker[w].pc # "idle" => Inactive(worker[w].task)

\* A document is in the hands of one task, and not of a docprocessing task besides.
Alone ==
    \A w \in Workers : worker[w].pc \in HeldPcs =>
        /\ ~ Locked(Doc(w))
        /\ \A v \in Workers : worker[v].pc \in HeldPcs /\ Doc(v) = Doc(w) => v = w

\* What a task is about to write, or has written, grants no more than the rows will.
AtHand(w) ==
    /\ worker[w].pc = "update" => worker[w].seen.present /\ worker[w].seen.access \subseteq Left(w)
    /\ worker[w].pc = "mark"   => index[Doc(w)].access \subseteq Left(w)
    /\ worker[w].pc = "erase"  => index[Doc(w)].access = {}
Writing(p) ==
    indexer[p].pc = "write" =>
        indexer[p].seen.present /\ indexer[p].seen.access \subseteq refs[indexer[p].doc]

GrantsInv ==
    /\ \A d \in Docs : Sound(d)
    /\ Owned /\ Alone
    /\ \A w \in Workers : AtHand(w)
    /\ \A p \in Pairs : Writing(p)

\* Steps that touch neither a document nor a task at work: a pair may cease to be active,
\* and be gone when it has no documents left.
LEMMA Elsewhere ==
    ASSUME GrantsInv, TypeOK, TypeOK', UNCHANGED <<docVars, indexer, worker>>,
           \A p \in Pairs : /\ status'[p] = "active" => status[p] = "active"
                            /\ status'[p] = "gone" => status[p] = "gone" \/ Referring(p) = {},
           \A t \in queue' : t \in queue \/ Inactive(t)'
    PROVE  GrantsInv'
<1>0. DocsTyped /\ PairsTyped /\ TasksTyped /\ WorkersTyped
      BY TypeParts
<1>1. ASSUME NEW d \in Docs
      PROVE  Sound(d)'
  <2>1. Sound(d) /\ refs[d] \subseteq Pairs
        BY <1>0 DEF GrantsInv, DocsTyped
  <2>2. \A p \in refs[d] : status'[p] # "gone"
        BY <2>1 DEF Sound, Referring
  <2> QED BY <2>1, <2>2 DEF Sound, NeedsSync, docVars
<1>2. ASSUME NEW t, Inactive(t)
      PROVE  Inactive(t)'
      BY <1>2 DEF Inactive
<1>3. Owned'
      BY <1>2 DEF GrantsInv, Owned
<1>4. Alone' /\ (\A w \in Workers : AtHand(w)') /\ (\A p \in Pairs : Writing(p)')
      BY DEF GrantsInv, Alone, AtHand, Writing, Locked, Left, Cleans, Doc, docVars
<1> QED BY <1>1, <1>3, <1>4 DEF GrantsInv

\* Steps of one docprocessing task, or of a user, that leave the index alone and take no
\* reference away, on a document that no task is at work on.
LEMMA Beside ==
    ASSUME GrantsInv, TypeOK, TypeOK', NEW d \in Docs, UNCHANGED <<index, status, queue, worker>>,
           Undisturbed, Free(d),
           \A e \in Docs : e # d => row'[e] = row[e] /\ refs'[e] = refs[e],
           refs[d] \subseteq refs'[d], \A p \in refs'[d] : p \in refs[d] \/ status[p] # "gone",
           row'[d].exists, NeedsSync(d) => NeedsSync(d)',
           \A p \in Pairs : \/ indexer'[p] = indexer[p]
                            \/ indexer'[p].pc \notin LockPcs
                            \/ indexer'[p].doc = d /\ Writing(p)'
    PROVE  GrantsInv'
<1>0. DocsTyped /\ PairsTyped /\ IndexersTyped /\ TasksTyped /\ WorkersTyped
      BY TypeParts
<1>1. ASSUME NEW e \in Docs
      PROVE  Sound(e)'
      BY <1>1 DEF GrantsInv, Sound, NeedsSync
<1>2. Owned'
      BY DEF GrantsInv, Owned, Inactive
<1>3. ASSUME NEW w \in Workers, worker[w].pc \in HeldPcs
      PROVE  Doc(w) # d /\ Doc(w) \in Docs /\ ~ Locked(Doc(w)) /\ ~ Locked(Doc(w))'
  <2>1. Doc(w) # d
        BY <1>3 DEF Free, Held, HeldPcs, Doc
  <2>2. Doc(w) \in Docs
        BY <1>0, <1>3 DEF WorkersTyped, HeldPcs, Doc, Tasks
  <2>3. ~ Locked(Doc(w))
        BY <1>3 DEF GrantsInv, Alone
  <2>4. ~ Locked(Doc(w))'
        BY <2>1, <2>3 DEF Locked, LockPcs, Doc
  <2> QED BY <2>1, <2>2, <2>3, <2>4
<1>4. Alone'
      BY <1>3 DEF GrantsInv, Alone, Doc
<1>5. ASSUME NEW w \in Workers
      PROVE  AtHand(w)'
      BY <1>3 DEF GrantsInv, AtHand, Left, Cleans, Doc, HeldPcs
<1>6. ASSUME NEW p \in Pairs
      PROVE  Writing(p)'
  <2>1. CASE indexer'[p] = indexer[p] /\ indexer[p].pc = "write"
    <3>1. indexer[p].doc \in Docs /\ Writing(p)
          BY <1>0, <2>1 DEF IndexersTyped, GrantsInv
    <3>2. refs[indexer[p].doc] \subseteq refs'[indexer[p].doc]
          BY <3>1
    <3> QED BY <2>1, <3>1, <3>2 DEF Writing
  <2> QED BY <2>1 DEF Writing, LockPcs
<1> QED BY <1>1, <1>2, <1>4, <1>5, <1>6 DEF GrantsInv

\* Steps of a docprocessing task that take no lock, on a document it has locked if at all.
LEMMA UnderLock ==
    ASSUME GrantsInv, TypeOK, TypeOK', NEW p \in Pairs, UNCHANGED <<refs, status, queue, worker>>,
           \A e \in Docs : ~ Locked(e) => row'[e] = row[e] /\ index'[e] = index[e],
           \A e \in Docs : /\ row'[e].exists = row[e].exists /\ (row[e].stale => row'[e].stale)
                           /\ \/ index'[e] = index[e]
                              \/ index'[e].access \subseteq refs[e] /\ index'[e].present
                              \/ index'[e].access = {},
           \A q \in Pairs : q # p => indexer'[q] = indexer[q],
           indexer'[p].pc # "write",
           indexer'[p].pc \in LockPcs => indexer[p].pc = "write" /\ indexer'[p].doc = indexer[p].doc
    PROVE  GrantsInv'
<1>0. DocsTyped /\ PairsTyped /\ IndexersTyped /\ TasksTyped /\ WorkersTyped
      BY TypeParts
<1>1. ASSUME NEW e \in Docs
      PROVE  Sound(e)'
      BY <1>1 DEF GrantsInv, Sound, NeedsSync
<1>2. Owned'
      BY DEF GrantsInv, Owned, Inactive
<1>3. \A e \in Docs : Locked(e)' => Locked(e)
      BY DEF Locked, LockPcs
<1>4. ASSUME NEW w \in Workers, worker[w].pc \in HeldPcs
      PROVE  Doc(w) \in Docs /\ ~ Locked(Doc(w))
      BY <1>0, <1>4 DEF WorkersTyped, HeldPcs, Doc, Tasks, GrantsInv, Alone
<1>5. Alone'
      BY <1>3, <1>4 DEF GrantsInv, Alone, Doc
<1>6. ASSUME NEW w \in Workers
      PROVE  AtHand(w)'
      BY <1>4 DEF GrantsInv, AtHand, Left, Cleans, Doc, HeldPcs
<1>7. ASSUME NEW q \in Pairs
      PROVE  Writing(q)'
      BY DEF GrantsInv, Writing
<1> QED BY <1>1, <1>2, <1>5, <1>6, <1>7 DEF GrantsInv

LEMMA GrantsIndexing ==
    ASSUME SyncAssumption, Undisturbed, GrantsInv, TypeOK, TypeOK', NEW p \in Pairs,
           IndexStep(p) \/ IndexFails(p) \/ \E d \in Docs : TakeBatch(p, d)
    PROVE  GrantsInv'
<1> DEFINE i == indexer[p]
<1>0. DocsTyped /\ PairsTyped /\ IndexersTyped /\ i \in Indexers
      BY TypeParts DEF IndexersTyped
<1>1. CASE Prepare(p)
  <2>0. PICK d \in Docs : d = i.doc
        BY <1>0, <1>1 DEF Prepare, IndexersTyped
  <2>1. row[d] \in Rows /\ Free(d) /\ UNCHANGED <<index, status, queue, worker>>
        BY <1>0, <1>1, <2>0 DEF Prepare, DocsTyped, pairVars
  <2>2. /\ \A e \in Docs : e # d => row'[e] = row[e] /\ refs'[e] = refs[e]
        /\ refs[d] \subseteq refs'[d] /\ \A r \in refs'[d] : r \in refs[d] \/ status[r] # "gone"
        BY <1>0, <1>1, <2>0 DEF Prepare, DocsTyped
  <2>3. row'[d].exists /\ (NeedsSync(d) => NeedsSync(d)')
    <3> DEFINE r == [exists |-> TRUE, hidden |-> FALSE, stale |-> row[d].stale \/ ~ row[d].exists]
    <3>1. r.exists /\ (row[d].stale => r.stale)
          BY Zenon
    <3>2. row' = [row EXCEPT ![d] = r]
          BY <1>1, <2>0 DEF Prepare
    <3>3. row'[d] = r
          BY <1>0, <3>2 DEF DocsTyped
    <3> HIDE DEF r
    <3> QED BY <3>1, <3>3 DEF NeedsSync
  <2>4. \A r \in Pairs : indexer'[r] = indexer[r] \/ indexer'[r].pc \notin LockPcs
    <3>1. PICK pc \in {"record", "lock"} : indexer' = [indexer EXCEPT ![p].pc = pc]
          BY <1>1 DEF Prepare
    <3> QED BY <1>0, <3>1, Turned DEF IndexPcs, LockPcs
  <2> QED BY <2>1, <2>2, <2>3, <2>4, Beside
<1>2. CASE LockRow(p)
  <2>0. PICK d \in Docs : d = i.doc
        BY <1>0, <1>2 DEF LockRow, IndexersTyped
  <2>1. Free(d) /\ UNCHANGED <<row, refs, index, status, queue, worker>>
        BY <1>2, <2>0 DEF LockRow, pairVars, docVars
  <2>2. CASE row[d].exists
    <3>1. indexer' = [indexer EXCEPT ![p] = [i EXCEPT !.pc = "write", !.seen = Entry(FALSE, Access(d))]]
          BY <1>2, <2>0, <2>2 DEF LockRow
    <3>2. indexer'[p].doc = d /\ indexer'[p].seen = Entry(FALSE, Access(d))
          BY <1>0, <2>0, <3>1 DEF IndexersTyped, Indexers
    <3>3. Writing(p)'
          BY <2>1, <3>2 DEF Writing, Access, Entry
    <3>4. \A r \in Pairs : indexer'[r] = indexer[r] \/ (indexer'[r].doc = d /\ Writing(r)')
          BY <1>0, <3>1, <3>2, <3>3 DEF IndexersTyped
    <3> QED BY <2>1, <2>2, <3>4, Beside DEF NeedsSync
  <2>3. CASE ~ row[d].exists
    <3>1. indexer' = [indexer EXCEPT ![p].pc = "record"]
          BY <1>2, <2>0, <2>3 DEF LockRow
    <3>2. indexer'[p].pc = "record" /\ \A r \in Pairs : r # p => indexer'[r] = indexer[r]
          BY <1>0, <3>1, Turned DEF IndexPcs
    <3> QED BY <2>1, <3>2, UnderLock DEF LockPcs
  <2> QED BY <2>2, <2>3
<1>3. CASE WriteChunks(p) \/ WriteFails(p)
  <2>0. PICK d \in Docs : d = i.doc
        BY <1>0, <1>3 DEF WriteChunks, WriteFails, IndexersTyped
  <2>1. i.seen.present /\ i.seen.access \subseteq refs[d] /\ Locked(d)
        BY <1>3, <2>0 DEF WriteChunks, WriteFails, GrantsInv, Writing, Locked
  <2>2. PICK x \in {index[d], Absent, i.seen} : index' = [index EXCEPT ![d] = x]
        BY <1>3, <2>0 DEF WriteChunks, WriteFails
  <2>3. index'[d] \in {index[d], Absent, i.seen} /\ \A e \in Docs : e # d => index'[e] = index[e]
        BY <1>0, <2>2 DEF DocsTyped
  <2>4. PICK pc \in {"post", "unwritten"} : indexer' = [indexer EXCEPT ![p].pc = pc]
        BY <1>3 DEF WriteChunks, WriteFails
  <2>5. indexer'[p].pc = pc /\ indexer'[p].doc = d /\ i.pc = "write"
        BY <1>0, <1>3, <2>0, <2>4, Turned DEF IndexPcs, WriteChunks, WriteFails
  <2>6. UNCHANGED <<row, refs, status, queue, worker>> /\ \A r \in Pairs : r # p => indexer'[r] = indexer[r]
        BY <1>0, <1>3, <2>4, Turned DEF IndexPcs, WriteChunks, WriteFails, pairVars
  <2>7. \A e \in Docs : ~ Locked(e) => row'[e] = row[e] /\ index'[e] = index[e]
        BY <2>1, <2>3, <2>6
  <2>8. \A e \in Docs : /\ row'[e].exists = row[e].exists /\ (row[e].stale => row'[e].stale)
                         /\ \/ index'[e] = index[e]
                            \/ index'[e].access \subseteq refs[e] /\ index'[e].present
                            \/ index'[e].access = {}
        BY <2>0, <2>1, <2>3, <2>6 DEF Absent
  <2> QED BY <2>0, <2>5, <2>6, <2>7, <2>8, UnderLock
<1>4. CASE PostIndex(p)
  <2>0. PICK d \in Docs : d = i.doc
        BY <1>0, <1>4 DEF PostIndex, IndexersTyped
  <2>1. Locked(d) /\ row[d] \in Rows
        BY <1>0, <1>4, <2>0 DEF PostIndex, Locked, DocsTyped
  <2>2. /\ row'[d].exists = row[d].exists /\ row'[d].stale
        /\ \A e \in Docs : e # d => row'[e] = row[e]
        BY <1>0, <1>4, <2>0, <2>1 DEF PostIndex, DocsTyped, Rows
  <2>3. indexer'[p].pc \in {"resolve", "record"} /\ \A r \in Pairs : r # p => indexer'[r] = indexer[r]
    <3>1. PICK pc \in {"resolve", "record"} : indexer' = [indexer EXCEPT ![p].pc = pc]
          BY <1>4 DEF PostIndex
    <3> QED BY <1>0, <3>1, Turned DEF IndexPcs
  <2>4. UNCHANGED <<refs, index, status, queue, worker>>
        BY <1>4 DEF PostIndex, pairVars
  <2>5. \A e \in Docs : ~ Locked(e) => row'[e] = row[e] /\ index'[e] = index[e]
        BY <2>1, <2>2, <2>4
  <2>6. \A e \in Docs : /\ row'[e].exists = row[e].exists /\ (row[e].stale => row'[e].stale)
                         /\ \/ index'[e] = index[e]
                            \/ index'[e].access \subseteq refs[e] /\ index'[e].present
                            \/ index'[e].access = {}
        BY <2>2, <2>4
  <2> QED BY <2>3, <2>4, <2>5, <2>6, UnderLock DEF LockPcs
<1>5. CASE IndexingRaises(p) \/ Abandon(p) \/ Report(p)
  <2>1. indexer'[p].pc \in {"idle", "record"} /\ \A r \in Pairs : r # p => indexer'[r] = indexer[r]
    <3>1. \/ indexer' = [indexer EXCEPT ![p] = NoIndex]
          \/ indexer' = [indexer EXCEPT ![p].pc = "record"]
          BY <1>5 DEF IndexingRaises, Abandon, Report
    <3> QED BY <1>0, <3>1, Turned DEF IndexPcs
  <2>2. UNCHANGED <<row, refs, index, status, queue, worker>>
        BY <1>5 DEF IndexingRaises, Abandon, Report, docVars, pairVars
  <2>3. indexer'[p].pc \notin LockPcs
        BY <2>1 DEF LockPcs
  <2>4. \A e \in Docs : row'[e] = row[e] /\ index'[e] = index[e]
        BY <2>2
  <2> QED BY <2>1, <2>2, <2>3, <2>4, UnderLock
<1>6. CASE \E e \in Docs : TakeBatch(p, e)
  <2>0. PICK e \in Docs : TakeBatch(p, e)
        BY <1>6
  <2>1. indexer'[p].pc = "prepare" /\ \A r \in Pairs : r # p => indexer'[r] = indexer[r]
        BY <1>0, <2>0 DEF TakeBatch, IndexersTyped, NoIndex
  <2>2. UNCHANGED <<row, refs, index, status, queue, worker>>
        BY <2>0 DEF TakeBatch, docVars, pairVars
  <2>3. indexer'[p].pc \notin LockPcs
        BY <2>1 DEF LockPcs
  <2>4. \A d \in Docs : row'[d] = row[d] /\ index'[d] = index[d]
        BY <2>2
  <2> QED BY <2>1, <2>2, <2>3, <2>4, UnderLock
<1> QED BY <1>1, <1>2, <1>3, <1>4, <1>5, <1>6 DEF IndexStep, IndexFails

----------------------------------------------------------------------------
(* The light worker *)

\* A task goes on, stops or hands over without touching a document; it takes one in hand
\* when nobody else has it.
LEMMA HandsOver ==
    ASSUME GrantsInv, TypeOK, TypeOK', NEW w \in Workers, UNCHANGED <<docVars, status, indexer>>,
           \A v \in Workers : v # w => worker'[v] = worker[v],
           \A t \in queue' : t \in queue \/ Inactive(t),
           worker'[w].pc # "idle" => Inactive(worker'[w].task),
           worker'[w].pc \in HeldPcs =>
               /\ worker'[w].pc \in {"read", "delete"}
               /\ ~ Locked(worker'[w].task.doc) /\ ~ Held(worker'[w].task.doc)
    PROVE  GrantsInv'
<1>1. ASSUME NEW d \in Docs
      PROVE  Sound(d)'
      BY DEF GrantsInv, Sound, NeedsSync, docVars
<1>2. Owned'
  <2>1. \A t : Inactive(t) => Inactive(t)'
        BY DEF Inactive
  <2>2. \A t \in queue' : Inactive(t)'
        BY <2>1 DEF GrantsInv, Owned
  <2>3. ASSUME NEW v \in Workers, worker'[v].pc # "idle"
        PROVE  Inactive(worker'[v].task)
        BY <2>3 DEF GrantsInv, Owned
  <2>4. ASSUME NEW v \in Workers, worker'[v].pc # "idle"
        PROVE  Inactive(worker[v].task)'
        BY <2>3, <2>4 DEF Inactive
  <2> QED BY <2>2, <2>4 DEF Owned
<1>3. \A d : Locked(d)' = Locked(d)
      BY DEF Locked
<1>4. ASSUME NEW v \in Workers, worker'[v].pc \in HeldPcs,
             NEW u \in Workers, worker'[u].pc \in HeldPcs, worker'[v].task.doc = worker'[u].task.doc
      PROVE  u = v /\ ~ Locked(worker'[v].task.doc)
      BY <1>4 DEF GrantsInv, Alone, Held, HeldPcs, Doc
<1>5. Alone'
      BY <1>3, <1>4 DEF Alone, Doc
<1>6. ASSUME NEW v \in Workers
      PROVE  AtHand(v)'
  <2>1. CASE v = w
        BY <2>1 DEF AtHand, HeldPcs
  <2>2. CASE v # w
        BY <2>2 DEF GrantsInv, AtHand, Left, Cleans, Doc, docVars
  <2> QED BY <2>1, <2>2
<1>7. \A p \in Pairs : Writing(p)'
      BY DEF GrantsInv, Writing, docVars
<1> QED BY <1>1, <1>2, <1>5, <1>6, <1>7 DEF GrantsInv

\* A task at work on a document changes it, and no other.
LEMMA InHand ==
    ASSUME GrantsInv, TypeOK, TypeOK', NEW w \in Workers, NEW d \in Docs,
           worker[w].pc \in HeldPcs, d = Doc(w), UNCHANGED <<status, indexer>>,
           \A e \in Docs : e # d => row'[e] = row[e] /\ refs'[e] = refs[e] /\ index'[e] = index[e],
           \A v \in Workers : v # w => worker'[v] = worker[v],
           worker'[w].pc # "idle" => worker'[w].task = worker[w].task,
           \A t \in queue' : t \in queue \/ t.owner = worker[w].task.owner,
           Sound(d)', AtHand(w)'
    PROVE  GrantsInv'
<1>0. DocsTyped /\ IndexersTyped /\ TasksTyped /\ WorkersTyped
      BY TypeParts
<1>1. ASSUME NEW e \in Docs
      PROVE  Sound(e)'
      BY DEF GrantsInv, Sound, NeedsSync
<1>2. Owned'
  <2>1. \A t \in queue' : Inactive(t)'
        BY DEF GrantsInv, Owned, Inactive, HeldPcs
  <2>2. \A v \in Workers : worker'[v].pc # "idle" => Inactive(worker[v].task)'
        BY DEF GrantsInv, Owned, Inactive, HeldPcs
  <2> QED BY <2>1, <2>2 DEF Owned
<1>3. \A e : Locked(e)' = Locked(e)
      BY DEF Locked
<1>4. ~ Locked(d) /\ \A v \in Workers : worker[v].pc \in HeldPcs /\ Doc(v) = d => v = w
      BY DEF GrantsInv, Alone
<1>5. Alone'
      BY <1>3 DEF GrantsInv, Alone, Doc, HeldPcs
<1>6. ASSUME NEW v \in Workers, v # w
      PROVE  AtHand(v)'
  <2>1. CASE worker[v].pc \in {"update", "mark", "erase"}
    <3>1. Doc(v) # d /\ Doc(v) \in Docs
          BY <1>0, <1>4, <1>6, <2>1 DEF HeldPcs, WorkersTyped, Doc, Tasks
    <3>2. AtHand(v) /\ worker'[v] = worker[v]
          BY <1>6 DEF GrantsInv
    <3>3. refs'[Doc(v)] = refs[Doc(v)] /\ index'[Doc(v)] = index[Doc(v)]
          BY <3>1
    <3>4. Doc(v)' = Doc(v) /\ Cleans(v)' = Cleans(v)
          BY <3>2 DEF Doc, Cleans
    <3>5. Left(v)' = Left(v)
          BY <3>2, <3>3, <3>4 DEF Left
    <3> QED BY <3>2, <3>3, <3>4, <3>5 DEF AtHand
  <2>2. CASE worker[v].pc \notin {"update", "mark", "erase"}
        BY <1>6, <2>2 DEF AtHand
  <2> QED BY <2>1, <2>2
<1>7. ASSUME NEW p \in Pairs, indexer[p].pc = "write"
      PROVE  Writing(p)'
  <2>1. indexer[p].doc # d /\ indexer[p].doc \in Docs
        BY <1>0, <1>4, <1>7 DEF Locked, IndexersTyped
  <2> QED BY <2>1 DEF GrantsInv, Writing
<1>8. \A p \in Pairs : Writing(p)'
      BY <1>7 DEF Writing
<1> QED BY <1>1, <1>2, <1>5, <1>6, <1>8 DEF GrantsInv

\* What raising does to a document at hand.
LEMMA ExceptGrants ==
    ASSUME SyncAssumption, GrantsInv, TypeOK, TypeOK', NEW w \in Workers,
           worker[w].pc \in HeldPcs, Except(w), UNCHANGED <<status, indexer>>
    PROVE  GrantsInv'
<1> DEFINE t == worker[w].task
<1>0. DocsTyped /\ TasksTyped /\ WorkersTyped /\ worker[w] \in Works
      BY TypeParts DEF WorkersTyped
<1>d. PICK d \in Docs : d = Doc(w)
      BY <1>0 DEF WorkersTyped, HeldPcs, Doc, Tasks
<1>s. Sound(d)
      BY DEF GrantsInv
<1>1. CASE /\ t.tries < MaxRetries
           /\ queue' = queue \cup {[t EXCEPT !.tries = @ + 1]}
           /\ worker' = [worker EXCEPT ![w] = NoWork]
           /\ UNCHANGED docVars
  <2>1. [t EXCEPT !.tries = @ + 1].owner = t.owner
        BY <1>0 DEF WorkersTyped, HeldPcs, Tasks
  <2>2. worker'[w].pc = "idle" /\ \A v \in Workers : v # w => worker'[v] = worker[v]
        BY <1>0, <1>1 DEF WorkersTyped, NoWork
  <2>3. Sound(d)' /\ AtHand(w)'
        BY <1>1, <1>s, <2>2 DEF Sound, NeedsSync, AtHand, docVars
  <2> QED BY <1>1, <1>d, <2>1, <2>2, <2>3, InHand DEF docVars
<1>2. CASE /\ t.tries = MaxRetries /\ ~ Cleans(w)
           /\ Goto(w, "ack")
           /\ UNCHANGED <<queue, docVars>>
  <2>1. /\ worker'[w].pc = "ack" /\ worker'[w].task = worker[w].task
        /\ \A v \in Workers : v # w => worker'[v] = worker[v]
        BY <1>0, <1>2 DEF WorkersTyped, Works, Goto
  <2>2. Sound(d)' /\ AtHand(w)'
        BY <1>2, <1>s, <2>1 DEF Sound, NeedsSync, AtHand, docVars
  <2> QED BY <1>2, <1>d, <2>1, <2>2, InHand DEF docVars
<1>3. CASE /\ t.tries = MaxRetries /\ Cleans(w) /\ ~ Locked(t.doc)
           /\ refs' = [refs EXCEPT ![t.doc] = @ \ {t.owner}]
           /\ row' = [row EXCEPT ![t.doc].stale = @ \/ row[t.doc].exists]
           /\ Goto(w, "ack")
           /\ UNCHANGED <<queue, index>>
  <2>1. /\ worker'[w].pc = "ack" /\ worker'[w].task = worker[w].task
        /\ \A v \in Workers : v # w => worker'[v] = worker[v]
        BY <1>0, <1>3 DEF WorkersTyped, Works, Goto
  <2>2. /\ refs'[d] = refs[d] \ {t.owner}
        /\ \A e \in Docs : e # d => row'[e] = row[e] /\ refs'[e] = refs[e]
        BY <1>0, <1>3, <1>d DEF DocsTyped, Doc
  <2>3. row'[d].exists = row[d].exists /\ (row[d].exists => NeedsSync(d)')
    <3> DEFINE s == row[d].stale \/ row[d].exists
    <3>1. row[d].exists => s
          OBVIOUS
    <3>2. row' = [row EXCEPT ![d].stale = s]
          BY <1>3, <1>d DEF Doc
    <3> HIDE DEF s
    <3>3. row'[d].exists = row[d].exists /\ row'[d].stale = s
          BY <1>0, <3>2 DEF DocsTyped, Rows
    <3> QED BY <3>1, <3>3 DEF NeedsSync
  <2>4. Sound(d)'
        BY <1>3, <1>s, <2>2, <2>3 DEF Sound, NeedsSync
  <2>5. AtHand(w)'
        BY <2>1 DEF AtHand
  <2> QED BY <1>3, <1>d, <2>1, <2>2, <2>4, <2>5, InHand
<1> QED BY <1>1, <1>2, <1>3 DEF Except

LEMMA GrantsWorkers ==
    ASSUME SyncAssumption, Undisturbed, GrantsInv, TypeOK, TypeOK', NEW w \in Workers,
           WorkStep(w) \/ Raise(w) \/ Refused(w) \/ Kill(w)
    PROVE  GrantsInv'
<1> DEFINE k == worker[w]
<1>0. DocsTyped /\ TasksTyped /\ WorkersTyped /\ k \in Works
      BY TypeParts DEF WorkersTyped
<1>d. k.pc # "idle" => Doc(w) \in Docs /\ Inactive(k.task)
      BY <1>0 DEF WorkersTyped, Doc, Tasks, GrantsInv, Owned
<1>e. \A d \in Docs : Sound(d)
      BY DEF GrantsInv
<1>m. ASSUME NEW pc \in WorkPcs, Goto(w, pc)
      PROVE  /\ worker'[w].pc = pc /\ worker'[w].task = k.task /\ worker'[w].seen = k.seen
             /\ \A v \in Workers : v # w => worker'[v] = worker[v]
      BY <1>0, <1>m DEF Goto, WorkersTyped, Works
<1>n. ASSUME worker' = [worker EXCEPT ![w] = NoWork]
      PROVE  worker'[w].pc = "idle" /\ \A v \in Workers : v # w => worker'[v] = worker[v]
      BY <1>0, <1>n DEF WorkersTyped, NoWork
<1>1. CASE \E t \in queue : Take(w, t)
  <2>1. PICK t \in queue : Take(w, t)
        BY <1>1
  <2>2. /\ worker'[w].pc = "start" /\ worker'[w].task = t
        /\ \A v \in Workers : v # w => worker'[v] = worker[v]
        BY <1>0, <2>1 DEF Take, WorkersTyped
  <2>3. Inactive(t) /\ queue' \subseteq queue /\ UNCHANGED <<docVars, status, indexer>>
        BY <2>1 DEF GrantsInv, Owned, Take, pairVars
  <2> QED BY <2>2, <2>3, HandsOver DEF HeldPcs
<1>2. CASE Start(w)
  <2>1. PICK pc \in {"read", "delete", "ack"} : Goto(w, pc)
        BY <1>2 DEF Start
  <2>2. /\ worker'[w].pc = pc /\ worker'[w].task = k.task
        /\ \A v \in Workers : v # w => worker'[v] = worker[v]
        BY <1>m, <2>1 DEF WorkPcs
  <2>3. Free(Doc(w)) /\ k.pc = "start" /\ UNCHANGED <<docVars, status, indexer, queue>>
        BY <1>2 DEF Start, pairVars
  <2>4. ~ Locked(k.task.doc) /\ ~ Held(k.task.doc)
        BY <2>3 DEF Free, Doc
  <2> QED BY <1>d, <2>1, <2>2, <2>3, <2>4, HandsOver DEF HeldPcs
<1>3. CASE Read(w)
  <2>0. PICK d \in Docs : d = Doc(w)
        BY <1>3, <1>d DEF Read
  <2>1. k.pc = "read" /\ UNCHANGED <<docVars, status, indexer, queue>>
        BY <1>3 DEF Read, pairVars
  <2>2. Sound(d)'
        BY <1>e, <2>1 DEF Sound, NeedsSync, docVars
  <2>3. \/ Goto(w, "ack")
        \/ worker' = [worker EXCEPT ![w] = [k EXCEPT !.pc = "update", !.seen = Fields(d)]]
        BY <1>3, <2>0 DEF Read, Goto
  <2>4. /\ worker'[w].task = k.task
        /\ worker'[w].pc = "ack" \/ (worker'[w].pc = "update" /\ worker'[w].seen = Fields(d))
        /\ \A v \in Workers : v # w => worker'[v] = worker[v]
    <3>1. CASE Goto(w, "ack")
          BY <1>m, <3>1 DEF WorkPcs
    <3>2. CASE worker' = [worker EXCEPT ![w] = [k EXCEPT !.pc = "update", !.seen = Fields(d)]]
          BY <1>0, <3>2 DEF WorkersTyped, Works
    <3> QED BY <2>3, <3>1, <3>2
  <2>5. Fields(d).access = Access(d) /\ Fields(d).present
        BY DEF Fields, Entry
  <2>6. Access(d) \subseteq IF Cleans(w) THEN refs[d] \ {k.task.owner} ELSE refs[d]
        BY <1>d, <2>1 DEF Access, Cleans, Inactive
  <2>7. Left(w)' = IF Cleans(w) THEN refs[d] \ {k.task.owner} ELSE refs[d]
        BY <2>0, <2>1, <2>4 DEF Left, Cleans, Doc, docVars
  <2>8. AtHand(w)'
        BY <2>4, <2>5, <2>6, <2>7 DEF AtHand
  <2> QED BY <2>0, <2>1, <2>2, <2>4, <2>8, InHand DEF docVars, HeldPcs
<1>4. CASE UpdateIndex(w)
  <2>0. PICK d \in Docs : d = Doc(w)
        BY <1>4, <1>d DEF UpdateIndex
  <2>1. k.pc = "update" /\ UNCHANGED <<row, refs, status, indexer, queue>>
        BY <1>4 DEF UpdateIndex, pairVars
  <2>2. /\ worker'[w].pc = "mark" /\ worker'[w].task = k.task
        /\ \A v \in Workers : v # w => worker'[v] = worker[v]
        BY <1>4, <1>m DEF UpdateIndex, WorkPcs
  <2>3. /\ index'[d] = IF index[d].present THEN k.seen ELSE index[d]
        /\ \A e \in Docs : e # d => index'[e] = index[e]
        BY <1>0, <1>4, <2>0 DEF UpdateIndex, Update, DocsTyped
  <2>4. k.seen.present /\ k.seen.access \subseteq Left(w) /\ Left(w) \subseteq refs[d] /\ Left(w)' = Left(w)
        BY <2>0, <2>1, <2>2 DEF GrantsInv, AtHand, Left, Cleans, Doc
  <2>5. index'[d].access \subseteq Left(w) /\ (~ index'[d].present => index'[d].access = {})
    <3>1. CASE index[d].present
          BY <2>3, <2>4, <3>1
    <3>2. CASE ~ index[d].present
          BY <1>e, <2>3, <3>2 DEF Sound
    <3> QED BY <3>1, <3>2
  <2>6. Sound(d)'
        BY <1>e, <2>1, <2>4, <2>5 DEF Sound
  <2>7. AtHand(w)'
        BY <2>0, <2>2, <2>4, <2>5 DEF AtHand, Doc
  <2> QED BY <2>0, <2>1, <2>2, <2>3, <2>6, <2>7, InHand DEF HeldPcs
<1>5. CASE MarkSynced(w) \/ Raise(w)
  <2>0. k.pc \in HeldPcs /\ UNCHANGED <<status, indexer>>
        BY <1>5 DEF MarkSynced, Raise, HeldPcs, pairVars
  <2>1. CASE Except(w)
        BY <2>0, <2>1, ExceptGrants
  <2>2. CASE ~ Except(w)
    <3>0. PICK d \in Docs : d = Doc(w)
          BY <1>d, <2>0 DEF HeldPcs
    <3>1. /\ k.pc = "mark" /\ row[d].exists
          /\ row' = [row EXCEPT ![d].stale = FALSE]
          /\ refs' = IF Cleans(w) THEN [refs EXCEPT ![d] = @ \ {k.task.owner}] ELSE refs
          /\ Goto(w, "ack")
          /\ UNCHANGED <<index, queue>>
          BY <1>5, <2>2, <3>0 DEF MarkSynced, Raise
    <3>2. /\ worker'[w].pc = "ack" /\ worker'[w].task = k.task
          /\ \A v \in Workers : v # w => worker'[v] = worker[v]
          BY <1>m, <3>1 DEF WorkPcs
    <3>3. /\ refs'[d] = Left(w) /\ row'[d].exists
          /\ \A e \in Docs : e # d => row'[e] = row[e] /\ refs'[e] = refs[e]
          BY <1>0, <3>0, <3>1 DEF DocsTyped, Rows, Left
    <3>4. index[d].access \subseteq Left(w) /\ Left(w) \subseteq refs[d]
          BY <3>0, <3>1 DEF GrantsInv, AtHand, Left
    <3>5. Sound(d)'
          BY <1>e, <2>0, <3>1, <3>3, <3>4 DEF Sound
    <3>6. AtHand(w)'
          BY <3>2 DEF AtHand
    <3> QED BY <2>0, <3>0, <3>1, <3>2, <3>3, <3>5, <3>6, InHand
  <2> QED BY <2>1, <2>2
<1>6. CASE DeleteIndexed(w)
  <2>0. PICK d \in Docs : d = Doc(w)
        BY <1>6, <1>d DEF DeleteIndexed
  <2>1. k.pc = "delete" /\ UNCHANGED <<row, refs, status, indexer, queue>>
        BY <1>6 DEF DeleteIndexed, pairVars
  <2>2. /\ worker'[w].pc = "erase" /\ worker'[w].task = k.task
        /\ \A v \in Workers : v # w => worker'[v] = worker[v]
        BY <1>6, <1>m DEF DeleteIndexed, WorkPcs
  <2>3. index'[d].access = {} /\ \A e \in Docs : e # d => index'[e] = index[e]
        BY <1>0, <1>6, <2>0 DEF DeleteIndexed, DocsTyped, Absent
  <2>4. Sound(d)'
        BY <1>e, <2>1, <2>3 DEF Sound
  <2>5. AtHand(w)'
        BY <2>0, <2>2, <2>3 DEF AtHand, Doc
  <2> QED BY <2>0, <2>1, <2>2, <2>3, <2>4, <2>5, InHand DEF HeldPcs
<1>7. CASE EraseRows(w)
  <2>0. PICK d \in Docs : d = Doc(w)
        BY <1>7, <1>d DEF EraseRows
  <2>1. k.pc = "erase" /\ UNCHANGED <<index, status, indexer, queue>>
        BY <1>7 DEF EraseRows, pairVars
  <2>2. /\ worker'[w].pc = "ack" /\ worker'[w].task = k.task
        /\ \A v \in Workers : v # w => worker'[v] = worker[v]
        BY <1>7, <1>m DEF EraseRows, WorkPcs
  <2>3. /\ refs'[d] = {}
        /\ \A e \in Docs : e # d => row'[e] = row[e] /\ refs'[e] = refs[e]
        BY <1>0, <1>7, <2>0 DEF EraseRows, DocsTyped
  <2>4. index[d].access = {}
        BY <2>0, <2>1 DEF GrantsInv, AtHand
  <2>5. Sound(d)'
        BY <2>1, <2>3, <2>4 DEF Sound
  <2>6. AtHand(w)'
        BY <2>2 DEF AtHand
  <2> QED BY <2>0, <2>1, <2>2, <2>3, <2>5, <2>6, InHand DEF HeldPcs
<1>8. CASE Ack(w)
  <2>1. /\ worker'[w].pc = "idle" /\ \A v \in Workers : v # w => worker'[v] = worker[v]
        /\ UNCHANGED <<docVars, status, indexer, queue>>
        BY <1>8, <1>n DEF Ack, pairVars
  <2> QED BY <2>1, HandsOver DEF HeldPcs
<1>9. CASE Refused(w)
  <2>1. /\ worker'[w].pc = "ack" /\ worker'[w].task = k.task
        /\ \A v \in Workers : v # w => worker'[v] = worker[v]
        BY <1>9, <1>m DEF Refused, WorkPcs
  <2>2. k.pc # "idle" /\ UNCHANGED <<docVars, status, indexer, queue>>
        BY <1>9 DEF Refused, pairVars
  <2> QED BY <1>d, <2>1, <2>2, HandsOver DEF HeldPcs
<1>10. CASE Kill(w)
  <2>1. worker'[w].pc = "idle" /\ \A v \in Workers : v # w => worker'[v] = worker[v]
        BY <1>10, <1>n DEF Kill
  <2>2. /\ k.pc # "idle" /\ queue' = queue \cup {k.task}
        /\ UNCHANGED <<docVars, status, indexer>>
        BY <1>10 DEF Kill, AtWork, pairVars
  <2> QED BY <1>d, <2>1, <2>2, HandsOver DEF HeldPcs
<1> QED BY <1>1, <1>2, <1>3, <1>4, <1>5, <1>6, <1>7, <1>8, <1>9, <1>10 DEF WorkStep

LEMMA GrantsBeat ==
    ASSUME SyncAssumption, GrantsInv, TypeOK, TypeOK',
           \/ \E p \in Pairs : \/ MarkDeleting(p) \/ StartAttempt(p) \/ EndAttempt(p)
                               \/ BeatStep(p) \/ GenerationStops(p)
           \/ SyncStep \/ SyncGenerationStops \/ \E t \in queue : Lose(t)
    PROVE  GrantsInv'
<1>0. status \in [Pairs -> {"active", "deleting", "gone"}]
      BY TypeParts DEF PairsTyped
<1>1. UNCHANGED <<docVars, indexer, worker>>
      BY DEF MarkDeleting, StartAttempt, EndAttempt, BeatStep, GenerationStops, SyncStep,
             SyncGenerationStops, Lose, GenerateDeletion, DeletionMonitor, Validate, GenerateSync,
             SyncMonitor, SyncExpires
<1>2. \A p \in Pairs : /\ status'[p] = "active" => status[p] = "active"
                       /\ status'[p] = "gone" => status[p] = "gone" \/ Referring(p) = {}
      BY <1>0 DEF MarkDeleting, StartAttempt, EndAttempt, BeatStep, GenerationStops, SyncStep,
             SyncGenerationStops, Lose, GenerateDeletion, DeletionMonitor, Validate, GenerateSync,
             SyncMonitor, SyncExpires, pairVars
<1>3. ASSUME NEW t \in queue', t \notin queue
      PROVE  Inactive(t)'
  <2>1. CASE \E p \in Pairs : GenerateDeletion(p) \/ GenerationStops(p)
    <3>1. PICK p \in Pairs : GenerateDeletion(p) \/ GenerationStops(p)
          BY <2>1
    <3>2. \E n \in Rounds : t \in NewTasks(p, n, Referring(p))
          BY <1>3, <3>1 DEF GenerateDeletion, GenerationStops
    <3>3. t.owner = p /\ status'[p] = "deleting"
          BY <3>1, <3>2 DEF NewTasks, GenerateDeletion, GenerationStops, MayDelete, pairVars
    <3> QED BY <3>3 DEF Inactive
  <2>2. CASE GenerateSync \/ SyncGenerationStops
    <3>1. \E n \in Rounds : t \in NewTasks(Sync, n, Stale)
          BY <1>3, <2>2 DEF GenerateSync, SyncGenerationStops
    <3>2. t.owner \notin Pairs
          BY <3>1 DEF NewTasks, SyncAssumption
    <3> QED BY <3>2 DEF Inactive
  <2> QED BY <1>3, <2>1, <2>2 DEF MarkDeleting, StartAttempt, EndAttempt, BeatStep, SyncStep, Lose,
                 DeletionMonitor, Validate, SyncMonitor, SyncExpires
<1> QED BY <1>1, <1>2, <1>3, Elsewhere

LEMMA GrantsStep ==
    ASSUME SyncAssumption, Undisturbed, GrantsInv, TypeOK, TypeOK', [Next]_vars
    PROVE  GrantsInv'
<1>1. CASE UNCHANGED vars
  <2>1. UNCHANGED <<docVars, indexer, worker, status, queue>>
        BY <1>1 DEF vars, docVars
  <2> QED BY <2>1, Elsewhere
<1>2. CASE \E d \in Docs : Edit(d)
  <2>1. PICK d \in Docs : Edit(d)
        BY <1>2
  <2>2. DocsTyped
        BY TypeParts
  <2>3. row'[d].exists /\ row'[d].stale /\ \A e \in Docs : e # d => row'[e] = row[e]
        BY <2>1, <2>2 DEF Edit, DocsTyped, Rows
  <2>4. Free(d) /\ UNCHANGED <<refs, index, status, queue, worker, indexer>>
        BY <2>1 DEF Edit, pairVars
  <2> QED BY <2>3, <2>4, Beside DEF NeedsSync
<1> QED BY <1>1, <1>2, GrantsIndexing, GrantsWorkers, GrantsBeat DEF Next, FaultStep

LEMMA AlwaysGrants == ASSUME Undisturbed PROVE Spec => [](TypeOK /\ GrantsInv)
<1>1. Init => GrantsInv
  <2> SUFFICES ASSUME Init PROVE GrantsInv
      OBVIOUS
  <2>2. refs \in [Docs -> SUBSET Pairs]
        BY SyncAssumption DEF Init, SyncAssumption
  <2>3. \A d \in Docs : Sound(d)
        BY <2>2 DEF Init, Sound, NeedsSync, Entry, Absent
  <2>4. \A w \in Workers : worker[w].pc = "idle"
        BY DEF Init, NoWork
  <2>5. \A p \in Pairs : indexer[p].pc = "idle"
        BY DEF Init, NoIndex
  <2> QED BY <2>3, <2>4, <2>5 DEF Init, GrantsInv, Owned, Alone, AtHand, Writing, HeldPcs
<1>2. TypeOK /\ GrantsInv /\ TypeOK' /\ [Next]_vars => GrantsInv'
      BY SyncAssumption, GrantsStep
<1> QED BY <1>1, <1>2, TypeCorrect, PTL DEF Spec

\* Where nothing else touches a document while a task of the light worker works on it, what
\* a pair that is gone still grants in the index is waiting to be synced, whatever is lost,
\* killed, refused or repeated.
THEOREM GrantsCorrect == Undisturbed => (Spec => []DeletedGrantsNothing)
<1> SUFFICES ASSUME Undisturbed PROVE Spec => []DeletedGrantsNothing
    OBVIOUS
<1>1. GrantsInv => DeletedGrantsNothing
      BY DEF GrantsInv, Sound, DeletedGrantsNothing
<1> QED BY <1>1, AlwaysGrants, PTL

----------------------------------------------------------------------------
(* Cleanup tasks: one of a pair for a document.  What follows holds beside a pruning,    *)
(* too, whose tasks have numbers beyond those of a deletion.                             *)

Busy(w) == worker[w].pc # "idle"
AtDoc(w) == worker[w].pc \notin {"idle", "ack"}
Cleanup(t) == t.owner \in Pairs
SameWork(t, u) == t.owner = u.owner /\ t.doc = u.doc

\* While no deletion of p is under way no task of one is left, and all that are left bear
\* an id of the task set.
Tracked(p) ==
    \A t \in Alive(p) : t.round \in Rounds => fence[p] # "down" /\ Id(t) \in taskset

OneEach ==
    /\ \A t, u \in queue : Cleanup(t) /\ SameWork(t, u) => t = u
    /\ \A t \in queue, w \in Workers :
          Cleanup(t) /\ Busy(w) => ~ SameWork(t, worker[w].task)
    /\ \A v, w \in Workers :
          Busy(v) /\ Busy(w) /\ Cleans(v) /\ SameWork(worker[v].task, worker[w].task) => v = w

\* A pair has the documents that its tasks have yet to clean up, and a document that is
\* about to be deleted has no other pair.
Pending ==
    /\ \A t \in queue : Cleanup(t) => t.owner \in refs[t.doc]
    /\ \A w \in Workers : AtDoc(w) /\ Cleans(w) => worker[w].task.owner \in refs[Doc(w)]
    /\ \A w \in Workers :
          worker[w].pc \in {"delete", "erase"} => Cleans(w) /\ refs[Doc(w)] = {worker[w].task.owner}

\* Whoever writes into the index writes a document.
Made ==
    /\ \A w \in Workers : worker[w].pc = "update" => worker[w].seen.present
    /\ \A p \in Pairs : indexer[p].pc = "write" => indexer[p].seen.present

CleanInv == Alone /\ OneEach /\ Pending /\ Made

LEMMA AliveMeans ==
    ASSUME NEW o, NEW t
    PROVE  t \in Alive(o) <=> /\ t.owner = o
                              /\ t \in queue \/ \E w \in Workers : Busy(w) /\ worker[w].task = t
BY DEF Alive, Running, Busy

LEMMA AliveMeansPrimed ==
    ASSUME NEW o, NEW t
    PROVE  t \in Alive(o)' <=> /\ t.owner = o
                               /\ t \in queue' \/ \E w \in Workers : Busy(w)' /\ worker'[w].task = t
BY DEF Alive, Running, Busy

\* Steps that touch neither tasks nor references.
LEMMA CleanSame ==
    ASSUME CleanInv, UNCHANGED <<refs, indexer, queue, worker>>
    PROVE  CleanInv'
BY DEF CleanInv, Alone, OneEach, Pending, Made, Locked, Busy, AtDoc, Cleanup, SameWork, Cleans, Doc

\* Steps of a docprocessing task: a document that a task works on gets no lock, and no pair
\* besides.
LEMMA CleanIndexing ==
    ASSUME CleanInv, TypeOK, UNCHANGED <<queue, worker>>,
           \A e \in Docs : refs[e] \subseteq refs'[e],
           \A e \in Docs : Held(e) => refs'[e] = refs[e] /\ (Locked(e)' => Locked(e)),
           \A p \in Pairs : indexer'[p].pc = "write" => indexer'[p].seen.present
    PROVE  CleanInv'
<1>0. TasksTyped /\ WorkersTyped
  BY TypeParts
<1>1. ASSUME NEW w \in Workers, worker[w].pc \in HeldPcs
      PROVE  Doc(w) \in Docs /\ Held(Doc(w))
  BY <1>0, <1>1 DEF WorkersTyped, HeldPcs, Held, Doc, Tasks
<1>2. Alone'
  BY <1>1 DEF CleanInv, Alone, Doc
<1>3. OneEach'
  BY DEF CleanInv, OneEach, Busy, Cleanup, SameWork, Cleans
<1>4. ASSUME NEW t \in queue, Cleanup(t)
      PROVE  t.owner \in refs'[t.doc]
  BY <1>0, <1>4 DEF CleanInv, Pending, TasksTyped, Tasks
<1>5. ASSUME NEW w \in Workers, AtDoc(w), Cleans(w)
      PROVE  worker[w].task.owner \in refs'[Doc(w)]
  BY <1>0, <1>5 DEF CleanInv, Pending, WorkersTyped, AtDoc, Doc, Tasks
<1>6. ASSUME NEW w \in Workers, worker[w].pc \in {"delete", "erase"}
      PROVE  Cleans(w) /\ refs'[Doc(w)] = {worker[w].task.owner}
  BY <1>1, <1>6 DEF CleanInv, Pending, HeldPcs
<1>7. Pending'
  BY <1>4, <1>5, <1>6 DEF Pending, Cleanup, AtDoc, Cleans, Doc
<1>8. Made'
  BY DEF CleanInv, Made
<1> QED BY <1>2, <1>3, <1>7, <1>8 DEF CleanInv

\* A thread goes on with its task, and may end what it does to its document.
LEMMA CleanMoves ==
    ASSUME CleanInv, TypeOK, NEW w \in Workers, Busy(w), UNCHANGED <<indexer, queue>>,
           \A v \in Workers : v # w => worker'[v] = worker[v],
           worker'[w].task = worker[w].task, worker'[w].pc # "idle",
           worker[w].pc = "ack" => worker'[w].pc = "ack",
           \A e \in Docs : e # Doc(w) => refs'[e] = refs[e],
           \/ refs'[Doc(w)] = refs[Doc(w)]
           \/ /\ worker[w].pc \in HeldPcs /\ worker'[w].pc = "ack"
              /\ \/ Cleans(w) /\ refs'[Doc(w)] = refs[Doc(w)] \ {worker[w].task.owner}
                 \/ worker[w].pc = "erase" /\ refs'[Doc(w)] = {},
           worker'[w].pc \in HeldPcs =>
               worker[w].pc \in HeldPcs \/ (~ Locked(Doc(w)) /\ ~ Held(Doc(w))),
           worker'[w].pc \in {"delete", "erase"} => Cleans(w) /\ refs[Doc(w)] = {worker[w].task.owner},
           worker'[w].pc = "update" => worker'[w].seen.present
    PROVE  CleanInv'
<1>0. TasksTyped /\ WorkersTyped /\ Doc(w) \in Docs
  BY TypeParts DEF WorkersTyped, Doc, Tasks, Busy
<1>l. \A e : Locked(e)' = Locked(e)
  BY DEF Locked
<1>1. ASSUME NEW v \in Workers, worker'[v].pc \in HeldPcs,
             NEW u \in Workers, worker'[u].pc \in HeldPcs, worker'[v].task.doc = worker'[u].task.doc
      PROVE  u = v /\ ~ Locked(worker'[v].task.doc)
  BY <1>1 DEF CleanInv, Alone, Held, HeldPcs, Doc
<1>2. Alone'
  BY <1>l, <1>1 DEF Alone, Doc
<1>3. OneEach'
  BY DEF CleanInv, OneEach, Busy, Cleanup, SameWork, Cleans
<1>4. ASSUME NEW e \in Docs, NEW p \in refs[e],
             e = Doc(w) /\ (Cleans(w) \/ worker[w].pc = "erase") => p # worker[w].task.owner
      PROVE  p \in refs'[e]
  BY <1>4 DEF CleanInv, Pending
<1>5. ASSUME NEW t \in queue, Cleanup(t)
      PROVE  t.owner \in refs'[t.doc]
  <2>1. t.owner \in refs[t.doc] /\ t.doc \in Docs
    BY <1>0, <1>5 DEF CleanInv, Pending, TasksTyped, Tasks
  <2>2. ~ SameWork(t, worker[w].task)
    BY <1>5 DEF CleanInv, OneEach
  <2> QED BY <1>4, <2>1, <2>2 DEF SameWork, Doc
<1>6. ASSUME NEW v \in Workers, v # w, AtDoc(v), Cleans(v)
      PROVE  worker[v].task.owner \in refs'[Doc(v)]
  <2>1. worker[v].task.owner \in refs[Doc(v)] /\ Doc(v) \in Docs /\ Busy(v)
    BY <1>0, <1>6 DEF CleanInv, Pending, WorkersTyped, AtDoc, Busy, Doc, Tasks
  <2>2. ~ SameWork(worker[v].task, worker[w].task)
    BY <1>6, <2>1 DEF CleanInv, OneEach
  <2> QED BY <1>4, <2>1, <2>2 DEF SameWork, Doc
<1>7. ASSUME NEW v \in Workers, v # w, worker[v].pc \in {"delete", "erase"}
      PROVE  Cleans(v) /\ refs'[Doc(v)] = {worker[v].task.owner}
  <2>1. Cleans(v) /\ refs[Doc(v)] = {worker[v].task.owner} /\ Doc(v) \in Docs
    BY <1>0, <1>7 DEF CleanInv, Pending, WorkersTyped, Doc, Tasks
  <2>2. worker[w].pc \in HeldPcs => Doc(v) # Doc(w)
    BY <1>7 DEF CleanInv, Alone, HeldPcs
  <2> QED BY <2>1, <2>2
<1>8. worker'[w].pc \notin {"idle", "ack"} => refs'[Doc(w)] = refs[Doc(w)] /\ AtDoc(w)
  BY DEF AtDoc, Busy
<1>9. Pending'
  <2>1. ASSUME NEW v \in Workers, AtDoc(v)', Cleans(v)'
        PROVE  worker'[v].task.owner \in refs'[worker'[v].task.doc]
    BY <1>6, <1>8, <2>1 DEF CleanInv, Pending, AtDoc, Cleans, Doc
  <2>2. ASSUME NEW v \in Workers, worker'[v].pc \in {"delete", "erase"}
        PROVE  Cleans(v)' /\ refs'[worker'[v].task.doc] = {worker'[v].task.owner}
    BY <1>7, <1>8, <2>2 DEF Cleans, Doc
  <2> QED BY <1>5, <2>1, <2>2 DEF Pending, Cleanup, Doc
<1>10. Made'
  BY DEF CleanInv, Made
<1> QED BY <1>2, <1>3, <1>9, <1>10 DEF CleanInv

\* A thread takes a task.
LEMMA CleanTakes ==
    ASSUME CleanInv, NEW w \in Workers, NEW t \in queue, worker[w].pc = "idle",
           UNCHANGED <<refs, indexer>>, queue' = queue \ {t},
           \A v \in Workers : v # w => worker'[v] = worker[v],
           worker'[w].pc = "start", worker'[w].task = t
    PROVE  CleanInv'
<1>1. Alone' /\ Made'
  BY DEF CleanInv, Alone, Made, Locked, HeldPcs, Doc
<1>2. OneEach'
  BY DEF CleanInv, OneEach, Busy, Cleanup, SameWork, Cleans
<1>3. Pending'
  BY DEF CleanInv, Pending, Cleanup, AtDoc, Cleans, Doc
<1> QED BY <1>1, <1>2, <1>3 DEF CleanInv

\* A task that was at work is sent again.
LEMMA CleanPutsBack ==
    ASSUME CleanInv, NEW w \in Workers, AtDoc(w), NEW u, SameWork(u, worker[w].task),
           UNCHANGED <<refs, indexer>>, queue' = queue \cup {u},
           \A v \in Workers : v # w => worker'[v] = worker[v], worker'[w].pc = "idle"
    PROVE  CleanInv'
<1>1. Alone' /\ Made'
  BY DEF CleanInv, Alone, Made, Locked, HeldPcs, Doc
<1>2. Busy(w)
  BY DEF AtDoc, Busy
<1>3. OneEach'
  BY <1>2 DEF CleanInv, OneEach, Busy, Cleanup, SameWork, Cleans
<1>4. Pending'
  BY DEF CleanInv, Pending, Cleanup, AtDoc, Cleans, Doc, SameWork
<1> QED BY <1>1, <1>3, <1>4 DEF CleanInv

\* Tasks end or are lost.
LEMMA CleanDrops ==
    ASSUME CleanInv, UNCHANGED <<refs, indexer>>, queue' \subseteq queue,
           \A v \in Workers : worker'[v] = worker[v] \/ worker'[v].pc = "idle"
    PROVE  CleanInv'
<1>1. Alone' /\ Made'
  BY DEF CleanInv, Alone, Made, Locked, HeldPcs, Doc
<1>2. OneEach'
  BY DEF CleanInv, OneEach, Busy, Cleanup, SameWork, Cleans
<1>3. Pending'
  BY DEF CleanInv, Pending, Cleanup, AtDoc, Cleans, Doc
<1> QED BY <1>1, <1>2, <1>3 DEF CleanInv

\* Tasks are sent for documents that the pair has and that no task of the pair is about.
LEMMA CleanSends ==
    ASSUME CleanInv, UNCHANGED <<refs, indexer, worker>>,
           NEW o, NEW n, NEW ds, NEW sent \in SUBSET NewTasks(o, n, ds), queue' = queue \cup sent,
           o \in Pairs => ds \subseteq Referring(o) /\ \A t \in Alive(o) : t.doc \notin ds
    PROVE  CleanInv'
<1>1. \A t \in sent : t.owner = o /\ t.doc \in ds
  BY DEF NewTasks
<1>2. ASSUME NEW t \in sent, NEW u \in sent, SameWork(t, u)
      PROVE  t = u
  BY <1>2 DEF NewTasks, SameWork
<1>3. ASSUME o \in Pairs
      PROVE  /\ \A t \in queue : t.owner = o => t.doc \notin ds
             /\ \A w \in Workers : Busy(w) /\ worker[w].task.owner = o => worker[w].task.doc \notin ds
             /\ \A d \in ds : o \in refs[d]
  BY <1>3, AliveMeans DEF Referring
<1>4. Alone' /\ Made'
  BY DEF CleanInv, Alone, Made, Locked, HeldPcs, Doc
<1>5. OneEach'
  BY <1>1, <1>2, <1>3 DEF CleanInv, OneEach, Busy, Cleanup, SameWork, Cleans
<1>6. Pending'
  BY <1>1, <1>3 DEF CleanInv, Pending, Cleanup, AtDoc, Cleans, Doc
<1> QED BY <1>4, <1>5, <1>6 DEF CleanInv

\* Whatever is alive after a step was alive before, except for its number of attempts.
SameTasks == \A p \in Pairs : \A t \in Alive(p)' : \E u \in Alive(p) : Id(u) = Id(t)

LEMMA SameTasksBy ==
    ASSUME NEW w \in Workers, \A v \in Workers : v # w => worker'[v] = worker[v],
           \A t \in queue' : \/ t \in queue
                             \/ Busy(w) /\ Id(t) = Id(worker[w].task),
           worker'[w].pc # "idle" => \/ Busy(w) /\ worker'[w].task = worker[w].task
                                     \/ worker'[w].task \in queue
    PROVE  SameTasks
<1> SUFFICES ASSUME NEW p \in Pairs, NEW t \in Alive(p)'
             PROVE  \E u \in Alive(p) : Id(u) = Id(t)
  BY DEF SameTasks
<1>1. t.owner = p /\ (t \in queue' \/ \E v \in Workers : worker'[v].pc # "idle" /\ worker'[v].task = t)
  BY AliveMeansPrimed DEF Busy
<1>2. \A u : u.owner = p /\ (u \in queue \/ \E v \in Workers : Busy(v) /\ worker[v].task = u)
             => u \in Alive(p)
  BY AliveMeans
<1>3. CASE t \in queue' /\ t \notin queue
  <2>1. worker[w].task.owner = p
    BY <1>1, <1>3 DEF Id
  <2> QED BY <1>2, <1>3, <2>1
<1>4. CASE t \in queue
  BY <1>1, <1>2, <1>4
<1>5. CASE \E v \in Workers : worker'[v].pc # "idle" /\ worker'[v].task = t
  <2>1. PICK v \in Workers : worker'[v].pc # "idle" /\ worker'[v].task = t
    BY <1>5
  <2>2. CASE v # w
    BY <1>1, <1>2, <2>1, <2>2 DEF Busy
  <2>3. CASE v = w
    BY <1>1, <1>2, <2>1, <2>3 DEF Busy
  <2> QED BY <2>2, <2>3
<1> QED BY <1>1, <1>3, <1>4, <1>5

LEMMA CleanExcept ==
    ASSUME CleanInv, TypeOK, NEW w \in Workers, worker[w].pc \in HeldPcs, Except(w),
           UNCHANGED indexer
    PROVE  CleanInv' /\ SameTasks
<1> DEFINE t == worker[w].task
<1>0. DocsTyped /\ TasksTyped /\ WorkersTyped /\ worker[w] \in Works /\ t \in Tasks /\ Doc(w) \in Docs
  BY TypeParts DEF WorkersTyped, HeldPcs, Doc, Tasks
<1>b. Busy(w) /\ AtDoc(w)
  BY DEF Busy, AtDoc, HeldPcs
<1>m. ASSUME Goto(w, "ack")
      PROVE  /\ worker'[w].pc = "ack" /\ worker'[w].task = t
             /\ \A v \in Workers : v # w => worker'[v] = worker[v]
  BY <1>0, <1>m DEF Goto, WorkersTyped, Works
<1>1. CASE /\ queue' = queue \cup {[t EXCEPT !.tries = @ + 1]}
           /\ worker' = [worker EXCEPT ![w] = NoWork]
           /\ UNCHANGED docVars
  <2> DEFINE u == [t EXCEPT !.tries = @ + 1]
  <2>1. Id(u) = Id(t) /\ SameWork(u, t)
    BY <1>0 DEF Tasks, Id, SameWork
  <2>2. worker'[w].pc = "idle" /\ \A v \in Workers : v # w => worker'[v] = worker[v]
    BY <1>0, <1>1 DEF WorkersTyped, NoWork
  <2>3. CleanInv'
    BY <1>1, <1>b, <2>1, <2>2, CleanPutsBack DEF docVars
  <2>4. SameTasks
    BY <1>1, <1>b, <2>1, <2>2, SameTasksBy
  <2> QED BY <2>3, <2>4
<1>2. CASE Goto(w, "ack") /\ UNCHANGED <<queue, docVars>>
  <2>1. CleanInv'
    BY <1>0, <1>2, <1>b, <1>m, CleanMoves DEF docVars, HeldPcs
  <2>2. SameTasks
    BY <1>2, <1>b, <1>m, SameTasksBy
  <2> QED BY <2>1, <2>2
<1>3. CASE /\ Cleans(w) /\ refs' = [refs EXCEPT ![t.doc] = @ \ {t.owner}]
           /\ Goto(w, "ack") /\ UNCHANGED queue
  <2>1. /\ refs'[Doc(w)] = refs[Doc(w)] \ {t.owner}
        /\ \A e \in Docs : e # Doc(w) => refs'[e] = refs[e]
    BY <1>0, <1>3 DEF DocsTyped, Doc
  <2>2. CleanInv'
    BY <1>0, <1>3, <1>b, <1>m, <2>1, CleanMoves DEF HeldPcs
  <2>3. SameTasks
    BY <1>3, <1>b, <1>m, SameTasksBy
  <2> QED BY <2>2, <2>3
<1> QED BY <1>1, <1>2, <1>3 DEF Except

\* A thread that counts one reference counts its own.
LEMMA OnlyReference ==
    ASSUME SyncAssumption, TypeOK, CleanInv, NEW w \in Workers, worker[w].pc = "start", Cleans(w),
           Cardinality(refs[Doc(w)]) = 1
    PROVE  refs[Doc(w)] = {worker[w].task.owner}
<1>1. refs[Doc(w)] \subseteq Pairs
  BY TypeParts DEF DocsTyped, WorkersTyped, Tasks, Doc
<1>2. PICK x : refs[Doc(w)] = {x}
  BY <1>1, FS_Subset, FS_Singleton DEF SyncAssumption
<1> QED BY <1>2 DEF CleanInv, Pending, AtDoc

LEMMA CleanWorkers ==
    ASSUME SyncAssumption, Undisturbed, CleanInv, TypeOK, NEW w \in Workers,
           \/ WorkStep(w) \/ Raise(w) \/ Refused(w)
           \/ Kill(w) /\ AtWork(w)
    PROVE  CleanInv' /\ SameTasks
<1> DEFINE k == worker[w]
<1>0. DocsTyped /\ TasksTyped /\ WorkersTyped /\ k \in Works
  BY TypeParts DEF WorkersTyped
<1>d. k.pc # "idle" => Doc(w) \in Docs
  BY <1>0 DEF WorkersTyped, Doc, Tasks
<1>m. ASSUME NEW pc \in WorkPcs, Goto(w, pc)
      PROVE  /\ worker'[w].pc = pc /\ worker'[w].task = k.task /\ worker'[w].seen = k.seen
             /\ \A v \in Workers : v # w => worker'[v] = worker[v]
  BY <1>0, <1>m DEF Goto, WorkersTyped, Works
<1>n. ASSUME worker' = [worker EXCEPT ![w] = NoWork]
      PROVE  worker'[w].pc = "idle" /\ \A v \in Workers : v # w => worker'[v] = worker[v]
  BY <1>0, <1>n DEF WorkersTyped, NoWork
<1>1. CASE \E t \in queue : Take(w, t)
  <2>1. PICK t \in queue : Take(w, t)
    BY <1>1
  <2>2. /\ worker'[w].pc = "start" /\ worker'[w].task = t
        /\ \A v \in Workers : v # w => worker'[v] = worker[v]
    BY <1>0, <2>1 DEF Take, WorkersTyped
  <2>3. k.pc = "idle" /\ queue' = queue \ {t} /\ UNCHANGED <<refs, indexer>>
    BY <2>1 DEF Take, docVars
  <2> QED BY <2>2, <2>3, CleanTakes, SameTasksBy
<1>2. ASSUME NEW pc \in WorkPcs, k.pc # "idle", k.pc # "ack", Goto(w, pc), pc # "idle", pc # "update",
             UNCHANGED <<indexer, queue>>,
             pc \in HeldPcs => k.pc \in HeldPcs \/ (~ Locked(Doc(w)) /\ ~ Held(Doc(w))),
             pc \in {"delete", "erase"} => Cleans(w) /\ refs[Doc(w)] = {k.task.owner},
             \A e \in Docs : e # Doc(w) => refs'[e] = refs[e],
             \/ refs'[Doc(w)] = refs[Doc(w)]
             \/ /\ k.pc \in HeldPcs /\ pc = "ack"
                /\ \/ Cleans(w) /\ refs'[Doc(w)] = refs[Doc(w)] \ {k.task.owner}
                   \/ k.pc = "erase" /\ refs'[Doc(w)] = {}
      PROVE  CleanInv' /\ SameTasks
  <2>1. CleanInv'
    BY <1>m, <1>2, CleanMoves DEF Busy
  <2>2. SameTasks
    BY <1>m, <1>2, SameTasksBy DEF Busy
  <2> QED BY <2>1, <2>2
<1>3. CASE Start(w)
  <2>1. k.pc = "start" /\ Free(Doc(w)) /\ UNCHANGED <<refs, indexer, queue>>
    BY <1>3 DEF Start, docVars
  <2>2. PICK pc \in {"read", "delete", "ack"} :
            Goto(w, pc) /\ (pc = "delete" => Cleans(w) /\ Cardinality(refs[Doc(w)]) = 1)
    BY <1>3 DEF Start
  <2>3. pc = "delete" => refs[Doc(w)] = {k.task.owner}
    BY <2>1, <2>2, OnlyReference
  <2> QED BY <1>2, <2>1, <2>2, <2>3 DEF Free, WorkPcs
<1>4. CASE Read(w)
  <2>1. k.pc = "read" /\ UNCHANGED <<refs, indexer, queue>>
    BY <1>4 DEF Read, docVars
  <2>2. \/ Goto(w, "ack")
        \/ worker' = [worker EXCEPT ![w] = [k EXCEPT !.pc = "update", !.seen = Fields(Doc(w))]]
    BY <1>4 DEF Read, Goto
  <2>3. /\ worker'[w].task = k.task
        /\ worker'[w].pc = "ack" \/ (worker'[w].pc = "update" /\ worker'[w].seen = Fields(Doc(w)))
        /\ \A v \in Workers : v # w => worker'[v] = worker[v]
    <3>1. CASE Goto(w, "ack")
      BY <1>m, <3>1 DEF WorkPcs
    <3>2. CASE worker' = [worker EXCEPT ![w] = [k EXCEPT !.pc = "update", !.seen = Fields(Doc(w))]]
      BY <1>0, <3>2 DEF WorkersTyped, Works
    <3> QED BY <2>2, <3>1, <3>2
  <2>4. CleanInv'
    BY <2>1, <2>3, CleanMoves DEF Busy, HeldPcs, Fields, Entry
  <2>5. SameTasks
    BY <2>1, <2>3, SameTasksBy DEF Busy
  <2> QED BY <2>4, <2>5
<1>5. CASE UpdateIndex(w) \/ DeleteIndexed(w)
  <2>1. PICK pc \in {"mark", "erase"} :
            Goto(w, pc) /\ k.pc \in {"update", "delete"} /\ (pc = "erase" => k.pc = "delete")
    BY <1>5 DEF UpdateIndex, DeleteIndexed
  <2>2. UNCHANGED <<refs, indexer, queue>>
    BY <1>5 DEF UpdateIndex, DeleteIndexed
  <2>3. pc = "erase" => Cleans(w) /\ refs[Doc(w)] = {k.task.owner}
    BY <2>1 DEF CleanInv, Pending
  <2> QED BY <1>2, <2>1, <2>2, <2>3 DEF HeldPcs, WorkPcs
<1>6. CASE MarkSynced(w) \/ Raise(w)
  <2>0. k.pc \in HeldPcs /\ UNCHANGED indexer
    BY <1>6 DEF MarkSynced, Raise, HeldPcs
  <2>1. CASE Except(w)
    BY <2>0, <2>1, CleanExcept
  <2>2. CASE ~ Except(w)
    <3>1. /\ k.pc = "mark" /\ Goto(w, "ack") /\ UNCHANGED queue
          /\ refs' = IF Cleans(w) THEN [refs EXCEPT ![Doc(w)] = @ \ {k.task.owner}] ELSE refs
      BY <1>6, <2>2 DEF MarkSynced, Raise
    <3>2. /\ \A e \in Docs : e # Doc(w) => refs'[e] = refs[e]
          /\ \/ refs'[Doc(w)] = refs[Doc(w)]
             \/ Cleans(w) /\ refs'[Doc(w)] = refs[Doc(w)] \ {k.task.owner}
      BY <1>0, <1>d, <3>1 DEF DocsTyped
    <3> QED BY <1>2, <2>0, <3>1, <3>2 DEF WorkPcs, HeldPcs
  <2> QED BY <2>1, <2>2
<1>7. CASE EraseRows(w)
  <2>1. k.pc = "erase" /\ Goto(w, "ack") /\ UNCHANGED <<indexer, queue>>
    BY <1>7 DEF EraseRows
  <2>2. refs'[Doc(w)] = {} /\ \A e \in Docs : e # Doc(w) => refs'[e] = refs[e]
    BY <1>0, <1>d, <1>7 DEF EraseRows, DocsTyped
  <2> QED BY <1>2, <2>1, <2>2 DEF WorkPcs, HeldPcs
<1>8. CASE Ack(w)
  <2>1. UNCHANGED <<refs, indexer, queue>>
    BY <1>8 DEF Ack, docVars
  <2>2. worker'[w].pc = "idle" /\ \A v \in Workers : v # w => worker'[v] = worker[v]
    BY <1>8, <1>n DEF Ack
  <2> QED BY <2>1, <2>2, CleanDrops, SameTasksBy
<1>9. CASE Refused(w)
  <2>1. k.pc \in {"delete", "update"} /\ Goto(w, "ack") /\ UNCHANGED <<refs, indexer, queue>>
    BY <1>9 DEF Refused, docVars
  <2> QED BY <1>2, <2>1 DEF WorkPcs, HeldPcs
<1>10. CASE Kill(w) /\ AtWork(w)
  <2>1. UNCHANGED <<refs, indexer>> /\ queue' = queue \cup {k.task} /\ AtDoc(w) /\ Busy(w)
    BY <1>10 DEF Kill, AtWork, AtDoc, Busy, docVars
  <2>2. worker'[w].pc = "idle" /\ \A v \in Workers : v # w => worker'[v] = worker[v]
    BY <1>10, <1>n DEF Kill
  <2> QED BY <2>1, <2>2, CleanPutsBack, SameTasksBy DEF SameWork
<1> QED BY <1>1, <1>3, <1>4, <1>5, <1>6, <1>7, <1>8, <1>9, <1>10 DEF WorkStep

LEMMA CleanIndexers ==
    ASSUME Undisturbed, CleanInv, TypeOK, NEW p \in Pairs,
           IndexStep(p) \/ IndexFails(p) \/ \E d \in Docs : TakeBatch(p, d)
    PROVE  CleanInv' /\ UNCHANGED <<queue, worker, fence, taskset>>
<1> DEFINE i == indexer[p]
<1>0. DocsTyped /\ IndexersTyped
  BY TypeParts
<1>1. UNCHANGED <<queue, worker, fence, taskset>>
  BY DEF IndexStep, IndexFails, IndexingRaises, WriteFails, Abandon, Report, TakeBatch, Prepare,
         LockRow, WriteChunks, PostIndex, redis
<1>2. CASE Prepare(p)
  <2>1. Free(i.doc) /\ i.doc \in Docs
    BY <1>0, <1>2 DEF Prepare, IndexersTyped
  <2>2. /\ \A e \in Docs : refs[e] \subseteq refs'[e]
        /\ \A e \in Docs : e # i.doc => refs'[e] = refs[e]
    BY <1>0, <1>2 DEF Prepare, DocsTyped
  <2>3. /\ indexer'[p].pc \in {"record", "lock"}
        /\ \A q \in Pairs : q # p => indexer'[q] = indexer[q]
    <3>1. PICK pc \in {"record", "lock"} : indexer' = [indexer EXCEPT ![p].pc = pc]
      BY <1>2 DEF Prepare
    <3> QED BY <1>0, <3>1, Turned DEF IndexPcs
  <2>4. \A e \in Docs : Locked(e)' => Locked(e)
    BY <2>3 DEF Locked
  <2>5. \A q \in Pairs : indexer'[q].pc = "write" => indexer'[q].seen.present
    BY <2>3 DEF CleanInv, Made
  <2> QED BY <1>1, <2>1, <2>2, <2>4, <2>5, CleanIndexing DEF Free
<1>3. CASE LockRow(p)
  <2>1. Free(i.doc) /\ refs' = refs
    BY <1>3 DEF LockRow, docVars
  <2>2. /\ indexer'[p].pc = "write" => indexer'[p].doc = i.doc /\ indexer'[p].seen.present
        /\ indexer'[p].pc \in {"write", "record"}
        /\ \A q \in Pairs : q # p => indexer'[q] = indexer[q]
    BY <1>0, <1>3 DEF LockRow, IndexersTyped, Indexers, Entry
  <2>3. \A e \in Docs : Locked(e)' => Locked(e) \/ e = i.doc
    BY <2>2 DEF Locked
  <2>4. \A q \in Pairs : indexer'[q].pc = "write" => indexer'[q].seen.present
    BY <2>2 DEF CleanInv, Made
  <2> QED BY <1>1, <2>1, <2>3, <2>4, CleanIndexing DEF Free
<1>4. CASE \/ WriteChunks(p) \/ PostIndex(p) \/ Report(p) \/ IndexFails(p)
           \/ \E d \in Docs : TakeBatch(p, d)
  <2>1. refs' = refs
    BY <1>4 DEF WriteChunks, PostIndex, Report, IndexFails, IndexingRaises, WriteFails, Abandon,
                TakeBatch, docVars
  <2>2. /\ indexer'[p].pc \in {"idle", "post", "unwritten", "resolve", "record", "prepare"}
        /\ indexer'[p].pc \in LockPcs => i.pc = "write" /\ indexer'[p].doc = i.doc
        /\ \A q \in Pairs : q # p => indexer'[q] = indexer[q]
    <3>1. CASE WriteChunks(p) \/ WriteFails(p)
      <4>1. i.pc = "write" /\ \E pc \in {"post", "unwritten"} : indexer' = [indexer EXCEPT ![p].pc = pc]
        BY <3>1 DEF WriteChunks, WriteFails
      <4> QED BY <1>0, <4>1, Turned DEF IndexPcs
    <3>2. CASE PostIndex(p) \/ IndexingRaises(p)
      <4>1. \E pc \in {"resolve", "record"} : indexer' = [indexer EXCEPT ![p].pc = pc]
        BY <3>2 DEF PostIndex, IndexingRaises
      <4> QED BY <1>0, <4>1, Turned DEF IndexPcs, LockPcs
    <3>3. CASE Report(p) \/ Abandon(p)
      <4>1. indexer' = [indexer EXCEPT ![p] = NoIndex]
        BY <3>3 DEF Report, Abandon
      <4> QED BY <1>0, <4>1, Turned DEF LockPcs
    <3>4. CASE \E d \in Docs : TakeBatch(p, d)
      BY <1>0, <3>4 DEF TakeBatch, IndexersTyped, NoIndex, LockPcs
    <3> QED BY <1>4, <3>1, <3>2, <3>3, <3>4 DEF IndexFails
  <2>3. \A e \in Docs : Locked(e)' => Locked(e)
    BY <2>2 DEF Locked, LockPcs
  <2>4. \A q \in Pairs : indexer'[q].pc = "write" => indexer'[q].seen.present
    BY <2>2 DEF CleanInv, Made
  <2> QED BY <1>1, <2>1, <2>3, <2>4, CleanIndexing
<1> QED BY <1>1, <1>2, <1>3, <1>4 DEF IndexStep

\* A thread acknowledges its task, and no other task of a pair bears the same id.
LEMMA AckEnds ==
    ASSUME CleanInv, TypeOK, NEW w \in Workers, Ack(w), NEW p \in Pairs, NEW t \in Alive(p)'
    PROVE  Id(t) # Id(worker[w].task)
<1>0. worker[w].pc = "ack" /\ queue' = queue /\ worker' = [worker EXCEPT ![w] = NoWork]
  BY DEF Ack
<1>1. /\ worker'[w].pc = "idle" /\ \A v \in Workers : v # w => worker'[v] = worker[v]
  BY <1>0, TypeParts DEF WorkersTyped, NoWork
<1>2. SUFFICES ASSUME SameWork(t, worker[w].task) PROVE FALSE
  BY DEF Id, SameWork
<1>3. t.owner = p /\ (t \in queue' \/ \E v \in Workers : worker'[v].pc # "idle" /\ worker'[v].task = t)
  BY AliveMeansPrimed DEF Busy
<1>4. CASE t \in queue
  BY <1>0, <1>2, <1>3, <1>4 DEF CleanInv, OneEach, Cleanup, Busy
<1>5. CASE \E v \in Workers : worker'[v].pc # "idle" /\ worker'[v].task = t
  BY <1>0, <1>1, <1>2, <1>3, <1>5 DEF CleanInv, OneEach, Cleans, Busy
<1> QED BY <1>0, <1>3, <1>4, <1>5

LEMMA TrackedKept ==
    ASSUME SameTasks, NEW p \in Pairs, Tracked(p), fence'[p] = fence[p],
           \A t \in Alive(p)' : Id(t) \in taskset => Id(t) \in taskset'
    PROVE  Tracked(p)'
<1> SUFFICES ASSUME NEW t \in Alive(p)', t.round \in Rounds
             PROVE  fence'[p] # "down" /\ Id(t) \in taskset'
  BY DEF Tracked, Rounds, Id
<1>1. PICK u \in Alive(p) : Id(u) = Id(t)
  BY DEF SameTasks
<1>2. u.round = t.round
  BY <1>1 DEF Id
<1> QED BY <1>1, <1>2 DEF Tracked

LEMMA TrackedWorkers ==
    ASSUME TypeOK, CleanInv, NEW w \in Workers, SameTasks,
           WorkStep(w) \/ Raise(w) \/ Refused(w) \/ Kill(w), NEW p \in Pairs, Tracked(p)
    PROVE  Tracked(p)'
<1>1. fence' = fence
  BY DEF WorkStep, Take, Start, Read, UpdateIndex, MarkSynced, DeleteIndexed, EraseRows, Ack, Raise,
         Refused, Kill, redis
<1>2. CASE Ack(w)
  <2>1. taskset' = taskset \ {Id(worker[w].task)}
    BY <1>2 DEF Ack
  <2> QED BY <1>1, <1>2, <2>1, AckEnds, TrackedKept
<1>3. CASE ~ Ack(w)
  <2>1. taskset' = taskset
    BY <1>3 DEF WorkStep, Take, Start, Read, UpdateIndex, MarkSynced, DeleteIndexed, EraseRows, Raise,
           Refused, Kill, redis
  <2> QED BY <1>1, <2>1, TrackedKept
<1> QED BY <1>2, <1>3

\* What is alive after a step was alive before, or belongs to a deletion.
OldOrDeletes ==
    \A p \in Pairs : \A t \in Alive(p)' :
        (\E u \in Alive(p) : Id(u) = Id(t)) \/ (t.round \in Rounds /\ status[p] = "deleting")

LEMMA TrackedElsewhere ==
    ASSUME NEW p \in Pairs, Tracked(p), UNCHANGED worker, \A t \in queue' : t.owner = p => t \in queue,
           fence[p] # "down" => fence'[p] # "down", IdsOf(p) \subseteq taskset'
    PROVE  Tracked(p)' /\ \A t \in Alive(p)' : t \in Alive(p)
<1>1. \A t : t \in Alive(p)' => t \in Alive(p)
  BY AliveMeans, AliveMeansPrimed DEF Busy
<1>2. \A t \in Alive(p) : Id(t).owner = p
  BY DEF Alive, Id
<1> QED BY <1>1, <1>2 DEF Tracked, IdsOf, Rounds, Id

LEMMA CleanDeletion ==
    ASSUME SyncAssumption, TypeOK, CleanInv, \A q \in Pairs : Tracked(q), NEW p \in Pairs,
           \/ GenerateDeletion(p) /\ Alive(p) = {}
           \/ GenerationStops(p) /\ Alive(p) = {} /\ "unsent" \notin Faults
           \/ DeletionMonitor(p)
           \/ Validate(p) /\ "hour" \notin Faults
    PROVE  /\ CleanInv' /\ (\A q \in Pairs : Tracked(q)') /\ OldOrDeletes
           /\ UNCHANGED <<docVars, indexer, worker>>
<1>0. PairsTyped /\ p \in Owners /\ fence \in [Owners -> {"down", "setup", "up"}]
  BY TypeParts DEF PairsTyped, Owners
<1>u. UNCHANGED <<docVars, refs, indexer, worker>>
  BY DEF GenerateDeletion, GenerationStops, DeletionMonitor, Validate, docVars
<1>1. CASE (GenerateDeletion(p) \/ (GenerationStops(p) /\ "unsent" \notin Faults)) /\ Alive(p) = {}
  <2>a. PICK n \in Rounds : \E ids \in SUBSET NewTasks(p, n, Referring(p)) : \E sent \in SUBSET ids :
            /\ queue' = queue \cup sent
            /\ taskset' = (taskset \ IdsOf(p)) \cup {Id(t) : t \in ids}
    <3>1. CASE GenerateDeletion(p)
      BY <3>1 DEF GenerateDeletion
    <3>2. CASE GenerationStops(p)
      BY <3>2 DEF GenerationStops
    <3> QED BY <1>1, <3>1, <3>2
  <2>b. PICK ids \in SUBSET NewTasks(p, n, Referring(p)) : \E sent \in SUBSET ids :
            /\ queue' = queue \cup sent
            /\ taskset' = (taskset \ IdsOf(p)) \cup {Id(t) : t \in ids}
    BY <2>a
  <2>1. PICK sent \in SUBSET ids :
            /\ queue' = queue \cup sent
            /\ taskset' = (taskset \ IdsOf(p)) \cup {Id(t) : t \in ids}
    BY <2>b
  <2>2. fence'[p] # "down" /\ \A q \in Owners : q # p => fence'[q] = fence[q]
    BY <1>0, <1>1 DEF GenerateDeletion, GenerationStops, Fault
  <2>3. \A t \in ids : t.owner = p /\ t.round = n
    BY DEF NewTasks
  <2>4. status[p] = "deleting"
    BY <1>1 DEF GenerateDeletion, GenerationStops, MayDelete
  <2>5. CleanInv'
    BY <1>1, <1>u, <2>1, CleanSends
  <2>6. ASSUME NEW t \in Alive(p)'
        PROVE  t \in sent
    <3>1. t.owner = p /\ (t \in queue' \/ \E v \in Workers : Busy(v) /\ worker[v].task = t)
      BY <1>u, AliveMeansPrimed DEF Busy
    <3> QED BY <1>1, <2>1, <3>1, AliveMeans
  <2>7. Tracked(p)'
    BY <2>1, <2>2, <2>6 DEF Tracked
  <2>8. ASSUME NEW q \in Pairs, q # p
        PROVE  Tracked(q)' /\ \A t \in Alive(q)' : t \in Alive(q)
    <3>1. IdsOf(q) \subseteq taskset'
      BY <2>1, <2>8 DEF IdsOf
    <3>2. \A t \in queue' : t.owner = q => t \in queue
      BY <2>1, <2>3, <2>8
    <3> QED BY <1>u, <2>2, <2>8, <3>1, <3>2, TrackedElsewhere DEF Owners
  <2>9. OldOrDeletes
    BY <2>3, <2>4, <2>6, <2>8 DEF OldOrDeletes
  <2> QED BY <1>u, <2>5, <2>7, <2>8, <2>9
<1>2. CASE DeletionMonitor(p) \/ (Validate(p) /\ "hour" \notin Faults)
  <2>1. queue' = queue /\ Reset(p)
    BY <1>2 DEF DeletionMonitor, Validate
  <2>2. \A t \in Alive(p) : t.round \notin Rounds
    <3>1. CASE DeletionMonitor(p)
      <4>1. \A t \in Alive(p) : Id(t) \notin taskset
        BY <3>1 DEF DeletionMonitor, IdsOf, Id, Alive
      <4> QED BY <4>1 DEF Tracked
    <3>2. CASE Validate(p) /\ "hour" \notin Faults
      BY <3>2 DEF Validate, Fault
    <3> QED BY <1>2, <3>1, <3>2
  <2>3. CleanInv'
    BY <1>u, <2>1, CleanSame
  <2>4. \A q \in Pairs : \A t : t \in Alive(q)' => t \in Alive(q)
    BY <1>u, <2>1, AliveMeans, AliveMeansPrimed DEF Busy
  <2>5. Tracked(p)'
    BY <2>2, <2>4 DEF Tracked, Rounds
  <2>6. ASSUME NEW q \in Pairs, q # p
        PROVE  Tracked(q)'
    <3>1. IdsOf(q) \subseteq taskset' /\ fence'[q] = fence[q]
      BY <1>0, <2>1, <2>6 DEF IdsOf, Reset, Owners
    <3> QED BY <1>u, <2>1, <3>1, TrackedElsewhere
  <2>7. OldOrDeletes
    BY <2>4 DEF OldOrDeletes
  <2> QED BY <1>u, <2>3, <2>5, <2>6, <2>7
<1> QED BY <1>1, <1>2

\* Synchronisation sends and forgets tasks of no pair.
LEMMA CleanSync ==
    ASSUME SyncAssumption, TypeOK, CleanInv, \A q \in Pairs : Tracked(q),
           SyncStep \/ SyncGenerationStops \/ \E t \in queue : Lose(t)
    PROVE  /\ CleanInv' /\ (\A q \in Pairs : Tracked(q)')
           /\ \A q \in Pairs : \A t \in Alive(q)' : t \in Alive(q)
           /\ UNCHANGED <<docVars, indexer, worker>>
<1>0. PairsTyped /\ fence \in [Owners -> {"down", "setup", "up"}]
  BY TypeParts DEF PairsTyped
<1>u. UNCHANGED <<docVars, refs, indexer, worker>>
  BY DEF SyncStep, GenerateSync, SyncMonitor, SyncExpires, SyncGenerationStops, Lose, docVars
<1>1. CASE GenerateSync \/ SyncGenerationStops
  <2>a. PICK n \in Rounds : \E sent \in SUBSET NewTasks(Sync, n, Stale) : queue' = queue \cup sent
    <3>1. CASE GenerateSync
      BY <3>1 DEF GenerateSync
    <3>2. CASE SyncGenerationStops
      BY <3>2 DEF SyncGenerationStops
    <3> QED BY <1>1, <3>1, <3>2
  <2>1. PICK sent \in SUBSET NewTasks(Sync, n, Stale) : queue' = queue \cup sent
    BY <2>a
  <2>2. CleanInv'
    BY <1>u, <2>1, CleanSends DEF SyncAssumption
  <2>3. \A q \in Pairs : fence'[q] = fence[q] /\ taskset \subseteq taskset'
    BY <1>0, <1>1 DEF GenerateSync, SyncGenerationStops, SyncAssumption, Owners
  <2>4. \A q \in Pairs : \A t \in queue' : t.owner = q => t \in queue
    BY <2>1 DEF NewTasks, SyncAssumption
  <2> QED BY <1>u, <2>2, <2>3, <2>4, TrackedElsewhere DEF IdsOf
<1>2. CASE SyncMonitor \/ SyncExpires \/ \E t \in queue : Lose(t)
  <2>1. queue' \subseteq queue /\ \A q \in Pairs : fence'[q] = fence[q] /\ IdsOf(q) \subseteq taskset'
    BY <1>0, <1>2 DEF SyncMonitor, SyncExpires, Lose, Reset, redis, IdsOf, SyncAssumption, Owners
  <2>2. CleanInv'
    BY <1>u, <2>1, CleanDrops
  <2> QED BY <1>u, <2>1, <2>2, TrackedElsewhere
<1> QED BY <1>1, <1>2 DEF SyncStep

\* A step leaves a pair its document, and the document in the index, unless it is written.
Survives(p, d) == p \in refs'[d] /\ (index[d].present => index'[d].present \/ FailsToWrite(d))

\* Only the cleanup task of a pair takes a document from it.
LEMMA WorkersTake ==
    ASSUME CleanInv, TypeOK, NEW w \in Workers, WorkStep(w) \/ Raise(w) \/ Refused(w) \/ Kill(w),
           NEW d \in Docs, NEW p \in refs[d]
    PROVE  Survives(p, d) \/ (Busy(w) /\ Cleans(w) /\ worker[w].task.owner = p /\ Doc(w) = d)
<1> DEFINE k == worker[w]
<1>0. DocsTyped /\ WorkersTyped
  BY TypeParts
<1>1. CASE UNCHANGED <<refs, index>>
  BY <1>1 DEF Survives
<1>2. CASE Except(w) /\ k.pc \in HeldPcs
  <2>1. Doc(w) \in Docs /\ Busy(w)
    BY <1>0, <1>2 DEF WorkersTyped, HeldPcs, Doc, Tasks, Busy
  <2>2. UNCHANGED docVars \/ (Cleans(w) /\ refs' = [refs EXCEPT ![Doc(w)] = @ \ {k.task.owner}] /\ index' = index)
    BY <1>2 DEF Except, Doc, docVars
  <2> QED BY <1>0, <1>1, <2>1, <2>2 DEF Survives, docVars, DocsTyped
<1>3. CASE MarkSynced(w) /\ ~ Except(w)
  <2>1. Doc(w) \in Docs /\ Busy(w)
    BY <1>0, <1>3 DEF MarkSynced, WorkersTyped, Doc, Tasks, Busy
  <2>2. index' = index /\ refs' = IF Cleans(w) THEN [refs EXCEPT ![Doc(w)] = @ \ {k.task.owner}] ELSE refs
    BY <1>3 DEF MarkSynced
  <2> QED BY <1>0, <2>1, <2>2 DEF Survives, DocsTyped
<1>4. CASE UpdateIndex(w)
  <2>1. k.seen.present /\ Doc(w) \in Docs /\ refs' = refs
    BY <1>0, <1>4 DEF UpdateIndex, CleanInv, Made, WorkersTyped, Doc, Tasks
  <2>2. index' = [index EXCEPT ![Doc(w)] = IF index[Doc(w)].present THEN k.seen ELSE index[Doc(w)]]
    BY <1>4 DEF UpdateIndex, Update
  <2> QED BY <1>0, <2>1, <2>2 DEF Survives, DocsTyped
<1>5. CASE DeleteIndexed(w)
  <2>1. Doc(w) \in Docs /\ Busy(w) /\ Cleans(w) /\ refs[Doc(w)] = {k.task.owner}
    BY <1>0, <1>5 DEF DeleteIndexed, WorkersTyped, Doc, Tasks, Busy, CleanInv, Pending
  <2>2. refs' = refs /\ index' = [index EXCEPT ![Doc(w)] = Absent]
    BY <1>5 DEF DeleteIndexed
  <2> QED BY <1>0, <2>1, <2>2 DEF Survives, DocsTyped
<1>6. CASE EraseRows(w)
  <2>1. Doc(w) \in Docs /\ Busy(w) /\ Cleans(w) /\ refs[Doc(w)] = {k.task.owner}
    BY <1>0, <1>6 DEF EraseRows, WorkersTyped, Doc, Tasks, Busy, CleanInv, Pending
  <2>2. index' = index /\ refs' = [refs EXCEPT ![Doc(w)] = {}]
    BY <1>6 DEF EraseRows
  <2> QED BY <1>0, <2>1, <2>2 DEF Survives, DocsTyped
<1>7. CASE \/ \E t \in queue : Take(w, t)
           \/ Start(w) \/ Read(w) \/ Ack(w) \/ Refused(w) \/ Kill(w)
  <2>1. UNCHANGED <<refs, index>>
    BY <1>7 DEF Take, Start, Read, Ack, Refused, Kill, docVars
  <2> QED BY <1>1, <2>1
<1>8. CASE (MarkSynced(w) /\ Except(w)) \/ Raise(w)
  <2>1. Except(w) /\ k.pc \in HeldPcs
    BY <1>8 DEF MarkSynced, Raise, HeldPcs
  <2> QED BY <1>2, <2>1
<1> QED BY <1>3, <1>4, <1>5, <1>6, <1>7, <1>8 DEF WorkStep

LEMMA IndexersTake ==
    ASSUME CleanInv, TypeOK, NEW q \in Pairs,
           IndexStep(q) \/ IndexFails(q) \/ \E e \in Docs : TakeBatch(q, e),
           NEW d \in Docs, NEW p \in refs[d]
    PROVE  Survives(p, d)
<1>0. DocsTyped /\ IndexersTyped
  BY TypeParts
<1>1. CASE Prepare(q)
  <2>1. p \in refs'[d] /\ index' = index
    BY <1>0, <1>1 DEF Prepare, DocsTyped
  <2> QED BY <2>1 DEF Survives
<1>2. CASE WriteChunks(q)
  <2>1. index' = [index EXCEPT ![indexer[q].doc] = indexer[q].seen] /\ indexer[q].seen.present /\ refs' = refs
    BY <1>2 DEF WriteChunks, CleanInv, Made
  <2> QED BY <1>0, <2>1 DEF Survives, DocsTyped
<1>3. CASE \/ LockRow(q) \/ PostIndex(q) \/ Report(q) \/ IndexingRaises(q) \/ Abandon(q)
           \/ \E e \in Docs : TakeBatch(q, e)
  <2>1. UNCHANGED <<refs, index>>
    BY <1>3 DEF LockRow, PostIndex, Report, IndexingRaises, Abandon, TakeBatch, docVars
  <2> QED BY <2>1 DEF Survives
<1>4. CASE WriteFails(q)
  <2>1. PICK e : index' = [index EXCEPT ![indexer[q].doc] = e]
    BY <1>4 DEF WriteFails
  <2>2. indexer[q].pc = "write" /\ indexer'[q].pc = "unwritten"
    BY <1>0, <1>4, Turned DEF WriteFails, IndexPcs
  <2>3. index'[d] = index[d] \/ FailsToWrite(d)
    BY <1>0, <2>1, <2>2 DEF FailsToWrite, DocsTyped
  <2> QED BY <1>4, <2>3 DEF WriteFails, Survives
<1> QED BY <1>1, <1>2, <1>3, <1>4 DEF IndexStep, IndexFails

----------------------------------------------------------------------------
(* The deletion of a pair and the documents that others have, too *)

\* Where nobody prunes, all tasks of a pair are those of its deletion.
Deletes(p) == \A t \in Alive(p) : t.round \in Rounds
DeletionInv == CleanInv /\ \A p \in Pairs : Tracked(p) /\ Deletes(p)

\* The faults after which no task runs twice: none strikes between the end of a task and its
\* acknowledgement, neither a deletion nor a pruning raises when it has sent tasks, and an hour
\* is enough.
Once == Faults \cap {"acknowledged", "unsent", "midway", "hour"} = {}

LEMMA DeletionSafe ==
    ASSUME SyncAssumption, Undisturbed, Once, DeletionInv, TypeOK, [Next]_vars
    PROVE  DeletionInv'
<1>f. "acknowledged" \notin Faults /\ "unsent" \notin Faults /\ "hour" \notin Faults
  BY DEF Once
<1>0. CleanInv /\ \A p \in Pairs : Tracked(p) /\ Deletes(p)
  BY DEF DeletionInv
<1>1. ASSUME \A p \in Pairs : \A t \in Alive(p)' :
                 (\E u \in Alive(p) : Id(u) = Id(t)) \/ t.round \in Rounds
      PROVE  \A p \in Pairs : Deletes(p)'
  BY <1>0, <1>1 DEF Deletes, Id, Rounds
<1>2. CASE UNCHANGED <<refs, indexer, fence, taskset, queue, worker>>
  <2>1. CleanInv'
    BY <1>0, <1>2, CleanSame
  <2>2. \A p \in Pairs : Tracked(p)' /\ \A t \in Alive(p)' : t \in Alive(p)
    BY <1>0, <1>2, TrackedElsewhere DEF IdsOf
  <2> QED BY <1>1, <2>1, <2>2 DEF DeletionInv
<1>3. CASE UNCHANGED vars \/ \E d \in Docs : Edit(d)
  BY <1>2, <1>3 DEF vars, Edit, redis
<1>4. CASE \E p \in Pairs : MarkDeleting(p) \/ StartAttempt(p) \/ EndAttempt(p)
  BY <1>2, <1>4 DEF MarkDeleting, StartAttempt, EndAttempt, redis, docVars
<1>5. ASSUME NEW p \in Pairs, IndexStep(p) \/ IndexFails(p) \/ \E d \in Docs : TakeBatch(p, d)
      PROVE  DeletionInv'
  <2>1. CleanInv' /\ UNCHANGED <<queue, worker, fence, taskset>>
    BY <1>0, <1>5, CleanIndexers
  <2>2. \A q \in Pairs : Tracked(q)' /\ \A t \in Alive(q)' : t \in Alive(q)
    BY <1>0, <2>1, TrackedElsewhere DEF IdsOf
  <2> QED BY <1>1, <2>1, <2>2 DEF DeletionInv
<1>6. ASSUME NEW w \in Workers, WorkStep(w) \/ Raise(w) \/ Refused(w) \/ Kill(w)
      PROVE  DeletionInv'
  <2>1. Kill(w) => AtWork(w)
    BY <1>f DEF Kill, Fault
  <2>2. CleanInv' /\ SameTasks
    BY <1>0, <1>6, <2>1, CleanWorkers
  <2>3. \A p \in Pairs : Tracked(p)'
    BY <1>0, <1>6, <2>2, TrackedWorkers
  <2> QED BY <1>1, <2>2, <2>3 DEF DeletionInv, SameTasks
<1>7. ASSUME NEW p \in Pairs, BeatStep(p) \/ GenerationStops(p)
      PROVE  DeletionInv'
  <2>1. MayDelete(p) => Alive(p) = {}
    BY <1>0 DEF MayDelete, Tracked, Deletes
  <2>2. CleanInv' /\ (\A q \in Pairs : Tracked(q)') /\ OldOrDeletes
    BY <1>0, <1>f, <1>7, <2>1, CleanDeletion DEF BeatStep, GenerateDeletion, GenerationStops
  <2> QED BY <1>1, <2>2 DEF DeletionInv, OldOrDeletes
<1>8. CASE SyncStep \/ SyncGenerationStops \/ \E t \in queue : Lose(t)
  <2>1. /\ CleanInv' /\ (\A q \in Pairs : Tracked(q)')
        /\ \A q \in Pairs : \A t \in Alive(q)' : t \in Alive(q)
    BY <1>0, <1>8, CleanSync
  <2> QED BY <1>1, <2>1 DEF DeletionInv
<1> QED BY <1>3, <1>4, <1>5, <1>6, <1>7, <1>8 DEF Next, FaultStep

LEMMA AlwaysDeletes ==
    ASSUME Undisturbed, Once
    PROVE  Spec => [](TypeOK /\ DeletionInv)
<1>1. Init => DeletionInv
  <2> SUFFICES ASSUME Init PROVE DeletionInv
    OBVIOUS
  <2>1. (\A w \in Workers : worker[w].pc = "idle") /\ queue = {}
    BY DEF Init, NoWork
  <2>2. \A p \in Pairs : indexer[p].pc = "idle"
    BY DEF Init, NoIndex
  <2>3. \A p \in Pairs : Alive(p) = {}
    BY <2>1, AliveMeans DEF Busy
  <2> QED BY <2>1, <2>2, <2>3 DEF DeletionInv, CleanInv, Alone, OneEach, Pending, Made, HeldPcs, Busy,
             AtDoc, Tracked, Deletes
<1>2. TypeOK /\ DeletionInv /\ [Next]_vars => DeletionInv'
  BY SyncAssumption, DeletionSafe
<1> QED BY <1>1, <1>2, TypeCorrect, PTL DEF Spec

\* The deletion of a pair, with all its tasks, retries and restarts, never takes a document
\* away from a pair that is active, if nothing else touches a document while a task works on
\* it and no task runs twice.
THEOREM SharedSurvives ==
    ASSUME Undisturbed, Once
    PROVE  Spec => SharedDocumentSurvives
<1> DEFINE Kept == \A d \in Docs : \A p \in refs[d] :
                       status[p] = "active" =>
                           /\ p \in refs'[d]
                           /\ index[d].present => index'[d].present \/ FailsToWrite(d)
<1>1. TypeOK /\ GrantsInv /\ DeletionInv /\ [Next]_vars => [Kept]_vars
  <2> SUFFICES ASSUME TypeOK, GrantsInv, DeletionInv, Next, NEW d \in Docs, NEW p \in refs[d],
                      status[p] = "active"
               PROVE  Survives(p, d)
    BY DEF Survives
  <2>0. CleanInv /\ Owned /\ p \in Pairs
    BY TypeParts DEF DeletionInv, GrantsInv, DocsTyped
  <2>1. CASE UNCHANGED docVars
    BY <2>1 DEF Survives, docVars
  <2>2. ASSUME NEW w \in Workers, WorkStep(w) \/ Raise(w) \/ Refused(w) \/ Kill(w)
        PROVE  Survives(p, d)
    BY <2>0, <2>2, WorkersTake DEF Owned, Inactive, Busy
  <2>3. ASSUME NEW q \in Pairs, IndexStep(q) \/ IndexFails(q) \/ \E e \in Docs : TakeBatch(q, e)
        PROVE  Survives(p, d)
    BY <2>0, <2>3, IndexersTake
  <2>4. ASSUME NEW q \in Pairs, BeatStep(q) \/ GenerationStops(q)
        PROVE  UNCHANGED docVars
    BY <2>4 DEF BeatStep, GenerateDeletion, DeletionMonitor, Validate, GenerationStops
  <2>5. CASE SyncStep \/ SyncGenerationStops \/ \E t \in queue : Lose(t)
    BY <2>1, <2>5 DEF SyncStep, GenerateSync, SyncMonitor, SyncExpires, SyncGenerationStops, Lose
  <2>6. CASE \E q \in Pairs : MarkDeleting(q) \/ StartAttempt(q) \/ EndAttempt(q)
    BY <2>1, <2>6 DEF MarkDeleting, StartAttempt, EndAttempt
  <2>7. CASE \E e \in Docs : Edit(e)
    BY <2>7 DEF Edit, Survives
  <2> QED BY <2>1, <2>2, <2>3, <2>4, <2>5, <2>6, <2>7 DEF Next, FaultStep
<1> QED BY <1>1, AlwaysGrants, AlwaysDeletes, PTL DEF Spec, SharedDocumentSurvives

----------------------------------------------------------------------------
(* The index and the rows *)

Indexing(d, pcs) == \E p \in Pairs : indexer[p].doc = d /\ indexer[p].pc \in pcs

\* A document of an active pair is in the index, or that pair is about to put it there.
Present(d) ==
    \A p \in refs[d] : status[p] = "active" =>
        index[d].present \/ (indexer[p].doc = d /\ indexer[p].pc \in {"lock", "write"})

\* What is in the index is what the row says, unless it is to be synced or written.
Agree(d) ==
    \/ NeedsSync(d) \/ Indexing(d, {"lock", "write", "post"})
    \/ Access(d) = refs[d] /\ refs[d] # {} => index[d] = Fields(d)

\* An indexing of the document has failed that nothing has made up for.
Failing(d) ==
    \E p \in Pairs :
        \/ p \in failed[d] /\ ~ (indexer[p].doc = d /\ indexer[p].pc \in {"post", "resolve"})
        \/ indexer[p].doc = d /\ indexer[p].pc \in {"unwritten", "record"}

Shown(d) == /\ ~ row[d].exists => index[d] = Absent
            /\ Failing(d) \/ (Present(d) /\ Agree(d))

\* What a task has read still holds when it writes it and when it marks its document as synced.
UpToHand(w) ==
    /\ worker[w].pc \in {"update", "mark"} =>
           /\ row[Doc(w)].exists /\ worker[w].seen.hidden = row[Doc(w)].hidden
           /\ worker[w].seen.present /\ Access(Doc(w)) \subseteq worker[w].seen.access
    /\ worker[w].pc = "mark" /\ index[Doc(w)].present => index[Doc(w)] = worker[w].seen
    /\ worker[w].pc = "erase" => index[Doc(w)] = Absent

Rowed == \A p \in Pairs : indexer[p].pc \in LockPcs => row[indexer[p].doc].exists

AgreeInv == /\ \A d \in Docs : Shown(d)
            /\ \A w \in Workers : UpToHand(w)
            /\ Rowed

\* An indexing task has not begun with any document but d.
OnlyAt(p, d) == indexer[p].doc = d \/ indexer[p].pc \in {"idle", "prepare"}
\* It has not begun with d.
NotAt(p, d) == indexer[p].doc # d \/ indexer[p].pc \in {"idle", "prepare"}

LEMMA ShownSame ==
    ASSUME TypeOK, NEW d \in Docs, Shown(d), row'[d] = row[d], refs'[d] = refs[d], index'[d] = index[d],
           \A p \in Pairs : status'[p] = "active" => status[p] = "active",
           failed[d] \subseteq failed'[d],
           \A p \in Pairs : indexer'[p] = indexer[p] \/ (NotAt(p, d) /\ NotAt(p, d)')
    PROVE  Shown(d)'
<1>0. refs[d] \subseteq Pairs
  BY TypeParts DEF DocsTyped
<1>f. CASE Failing(d)
  <2>1. Failing(d)'
    BY <1>f DEF Failing, NotAt
  <2> QED BY <2>1 DEF Shown
<1> SUFFICES ASSUME Present(d), Agree(d) PROVE Present(d)' /\ Agree(d)'
  BY <1>f DEF Shown
<1>1. Present(d)'
  BY <1>0 DEF Present, NotAt
<1>2. Agree(d)'
  <2>1. CASE NeedsSync(d)
    BY <2>1 DEF Agree, NeedsSync
  <2>2. CASE Indexing(d, {"lock", "write", "post"})
    BY <2>2 DEF Agree, Indexing, NotAt
  <2>3. CASE Access(d) = refs[d] /\ refs[d] # {} => index[d] = Fields(d)
    <3>1. Access(d)' \subseteq Access(d) /\ Access(d) \subseteq refs[d]
      BY <1>0 DEF Access
    <3>2. Access(d)' = refs'[d] => Access(d) = refs[d] /\ Fields(d)' = Fields(d)
      BY <3>1 DEF Fields, Entry
    <3> QED BY <2>3, <3>2 DEF Agree
  <2> QED BY <2>1, <2>2, <2>3 DEF Agree
<1> QED BY <1>1, <1>2

LEMMA UpToHandSame ==
    ASSUME TypeOK, NEW w \in Workers, UpToHand(w), worker'[w] = worker[w],
           \A p \in Pairs : status'[p] = "active" => status[p] = "active",
           worker[w].pc \in HeldPcs => /\ row'[Doc(w)] = row[Doc(w)] /\ refs'[Doc(w)] = refs[Doc(w)]
                                       /\ index'[Doc(w)] = index[Doc(w)]
    PROVE  UpToHand(w)'
<1> SUFFICES ASSUME worker[w].pc \in {"update", "mark", "erase"} PROVE UpToHand(w)'
  BY DEF UpToHand
<1>1. Doc(w)' = Doc(w) /\ Doc(w) \in Docs /\ refs[Doc(w)] \subseteq Pairs
  BY TypeParts DEF WorkersTyped, DocsTyped, Doc, Tasks
<1>2. Access(Doc(w))' \subseteq Access(Doc(w))
  BY <1>1 DEF Access, HeldPcs
<1> QED BY <1>1, <1>2 DEF UpToHand, HeldPcs

\* Steps that touch neither a document nor a task at work: a pair may cease to be active.
LEMMA AgreeElsewhere ==
    ASSUME AgreeInv, TypeOK, UNCHANGED <<docVars, failed, worker>>,
           \A p \in Pairs : status'[p] = "active" => status[p] = "active",
           \A p \in Pairs : \/ indexer'[p] = indexer[p]
                            \/ indexer[p].pc = "idle" /\ indexer'[p].pc = "prepare"
    PROVE  AgreeInv'
<1>1. ASSUME NEW d \in Docs PROVE Shown(d)'
  <2>1. \A p \in Pairs : indexer'[p] = indexer[p] \/ (NotAt(p, d) /\ NotAt(p, d)')
    BY DEF NotAt
  <2> QED BY <2>1, ShownSame DEF AgreeInv, docVars
<1>2. ASSUME NEW w \in Workers PROVE UpToHand(w)'
  BY UpToHandSame DEF AgreeInv, docVars
<1>3. Rowed'
  BY DEF AgreeInv, Rowed, LockPcs, docVars
<1> QED BY <1>1, <1>2, <1>3 DEF AgreeInv

\* A thread changes nothing but the document at hand.
LEMMA AgreeAtHand ==
    ASSUME AgreeInv, Alone, TypeOK, NEW w \in Workers, UNCHANGED <<status, failed, indexer>>,
           \A v \in Workers : v # w => worker'[v] = worker[v],
           \A e \in Docs : \/ worker[w].pc \in HeldPcs /\ e = Doc(w)
                           \/ row'[e] = row[e] /\ refs'[e] = refs[e] /\ index'[e] = index[e],
           \A e \in Docs : worker[w].pc \in HeldPcs /\ e = Doc(w) => Shown(e)',
           UpToHand(w)'
    PROVE  AgreeInv'
<1>0. IndexersTyped /\ WorkersTyped
  BY TypeParts
<1>1. ASSUME NEW d \in Docs PROVE Shown(d)'
  BY ShownSame DEF AgreeInv
<1>2. ASSUME NEW v \in Workers PROVE UpToHand(v)'
  <2>1. CASE v # w /\ worker[v].pc \in HeldPcs
    <3>1. Doc(v) \in Docs /\ (worker[w].pc \in HeldPcs => Doc(v) # Doc(w))
      BY <1>0, <2>1 DEF WorkersTyped, HeldPcs, Doc, Tasks, Alone
    <3> QED BY <2>1, <3>1, UpToHandSame DEF AgreeInv
  <2>2. CASE v # w /\ worker[v].pc \notin HeldPcs
    BY <2>2, UpToHandSame DEF AgreeInv
  <2> QED BY <2>1, <2>2
<1>3. ASSUME NEW p \in Pairs, indexer[p].pc \in LockPcs PROVE row'[indexer[p].doc].exists
  <2>1. indexer[p].doc \in Docs /\ Locked(indexer[p].doc)
    BY <1>0, <1>3 DEF IndexersTyped, Locked, LockPcs
  <2>2. worker[w].pc \in HeldPcs => indexer[p].doc # Doc(w)
    BY <2>1 DEF Alone
  <2> QED BY <1>3, <2>1, <2>2 DEF AgreeInv, Rowed
<1> QED BY <1>1, <1>2, <1>3 DEF AgreeInv, Rowed

\* A docprocessing task, or a user, changes nothing but a document that no task works on.
LEMMA AgreeBeside ==
    ASSUME AgreeInv, TypeOK, NEW d \in Docs, ~ Held(d), UNCHANGED <<status, worker>>,
           \A e \in Docs : e # d => row'[e] = row[e] /\ refs'[e] = refs[e] /\ index'[e] = index[e],
           \A e \in Docs : e # d => failed'[e] = failed[e],
           \A p \in Pairs : \/ indexer'[p] = indexer[p]
                            \/ /\ OnlyAt(p, d) /\ OnlyAt(p, d)'
                               /\ indexer'[p].pc \in LockPcs => row'[d].exists,
           row[d].exists => row'[d].exists,
           Shown(d)'
    PROVE  AgreeInv'
<1>0. IndexersTyped /\ WorkersTyped
  BY TypeParts
<1>1. ASSUME NEW e \in Docs PROVE Shown(e)'
  <2>1. CASE e = d
    BY <2>1
  <2>2. CASE e # d
    <3>1. \A p \in Pairs : indexer'[p] = indexer[p] \/ (NotAt(p, e) /\ NotAt(p, e)')
      BY <2>2 DEF OnlyAt, NotAt
    <3> QED BY <2>2, <3>1, ShownSame DEF AgreeInv
  <2> QED BY <2>1, <2>2
<1>2. ASSUME NEW w \in Workers PROVE UpToHand(w)'
  <2>1. worker[w].pc \in HeldPcs => Doc(w) \in Docs /\ Doc(w) # d
    BY <1>0 DEF WorkersTyped, HeldPcs, Doc, Tasks, Held
  <2> QED BY <2>1, UpToHandSame DEF AgreeInv
<1>3. Rowed'
  BY <1>0 DEF AgreeInv, Rowed, IndexersTyped, OnlyAt, LockPcs
<1> QED BY <1>1, <1>2, <1>3 DEF AgreeInv

LEMMA AgreeIndexing ==
    ASSUME Undisturbed, "abandoned" \notin Faults, AgreeInv, GrantsInv, CleanInv, TypeOK,
           NEW p \in Pairs, IndexStep(p) \/ IndexFails(p) \/ \E d \in Docs : TakeBatch(p, d)
    PROVE  AgreeInv'
<1> DEFINE i == indexer[p]
<1>0. DocsTyped /\ PairsTyped /\ IndexersTyped /\ i \in Indexers
  BY TypeParts DEF IndexersTyped
<1>l. ASSUME NEW d \in Docs, Locked(d) PROVE ~ Held(d)
  BY <1>l DEF CleanInv, Alone, Held, HeldPcs, Doc
<1>s. \A d \in Docs : refs[d] \subseteq Pairs /\ Shown(d)
  BY <1>0 DEF DocsTyped, AgreeInv
\* The task goes on with its document d to pc.
<1>g. ASSUME NEW d \in Docs, d = i.doc, NEW pc \in IndexPcs, indexer' = [indexer EXCEPT ![p].pc = pc],
             ~ Held(d), UNCHANGED <<status, failed, worker>>,
             \A e \in Docs : e # d => row'[e] = row[e] /\ refs'[e] = refs[e] /\ index'[e] = index[e],
             pc \in LockPcs => row'[d].exists, row[d].exists => row'[d].exists, Shown(d)'
      PROVE  AgreeInv'
  <2>1. indexer'[p].doc = d /\ indexer'[p].pc = pc /\ \A q \in Pairs : q # p => indexer'[q] = indexer[q]
    BY <1>0, <1>g, Turned
  <2>2. \A q \in Pairs : \/ indexer'[q] = indexer[q]
                         \/ OnlyAt(q, d) /\ OnlyAt(q, d)' /\ (indexer'[q].pc \in LockPcs => row'[d].exists)
    BY <1>g, <2>1 DEF OnlyAt
  <2> QED BY <1>g, <2>2, AgreeBeside
\* It goes on, and what failed for other pairs has failed still.
<1>h. ASSUME NEW d \in Docs, d = i.doc, NEW pc \in IndexPcs, indexer' = [indexer EXCEPT ![p].pc = pc],
             failed' = failed, Failing(d)
      PROVE  \/ Failing(d)'
             \/ i.pc \notin {"post", "resolve"} /\ pc \in {"post", "resolve"}
             \/ i.pc \in {"unwritten", "record"} /\ pc \notin {"unwritten", "record"}
  BY <1>0, <1>h, Turned DEF Failing
\* It goes on to where it has failed.
<1>r. ASSUME NEW d \in Docs, d = i.doc, NEW pc \in {"unwritten", "record"},
             indexer' = [indexer EXCEPT ![p].pc = pc], ~ row'[d].exists => index'[d] = Absent
      PROVE  Shown(d)'
  <2>1. indexer'[p].doc = d /\ indexer'[p].pc = pc
    BY <1>0, <1>r, Turned DEF IndexPcs
  <2> QED BY <1>r, <2>1 DEF Shown, Failing
<1>1. CASE Prepare(p)
  <2>0. PICK d \in Docs : d = i.doc
    BY <1>0, <1>1 DEF Prepare, IndexersTyped
  <2>1. ~ Held(d) /\ i.pc = "prepare" /\ UNCHANGED <<index, status, failed, worker>>
    BY <1>1, <2>0 DEF Prepare, Free, pairVars
  <2>2. row' = [row EXCEPT ![d] = [exists |-> TRUE, hidden |-> FALSE, stale |-> @.stale \/ ~ @.exists]]
    BY <1>1, <2>0 DEF Prepare
  <2>3. /\ refs'[d] = refs[d] \/ refs'[d] = refs[d] \cup {p}
        /\ row'[d].exists
        /\ \A e \in Docs : e # d => row'[e] = row[e] /\ refs'[e] = refs[e]
    BY <1>0, <1>1, <2>0, <2>2 DEF DocsTyped, Prepare
  <2>4. CASE indexer' = [indexer EXCEPT ![p].pc = "lock"]
    <3>1. /\ indexer'[p].doc = d /\ indexer'[p].pc = "lock"
          /\ \A q \in Pairs : q # p => indexer'[q] = indexer[q]
      BY <1>0, <2>0, <2>4, Turned DEF IndexPcs
    <3>2. Failing(d) => Failing(d)'
      BY <1>h, <2>0, <2>1, <2>4 DEF IndexPcs
    <3>3. Present(d) => Present(d)'
      BY <1>s, <2>1, <2>3, <3>1 DEF Present
    <3>4. Agree(d)'
      BY <3>1 DEF Agree, Indexing
    <3>5. Shown(d)'
      BY <1>s, <2>3, <3>2, <3>3, <3>4 DEF Shown
    <3> QED BY <1>g, <2>0, <2>1, <2>3, <2>4, <3>5 DEF IndexPcs
  <2>5. CASE indexer' = [indexer EXCEPT ![p].pc = "record"]
    <3>1. Shown(d)'
      BY <1>r, <2>0, <2>3, <2>5
    <3> QED BY <1>g, <2>0, <2>1, <2>3, <2>5, <3>1 DEF IndexPcs
  <2> QED BY <1>1, <2>4, <2>5 DEF Prepare
<1>2. CASE LockRow(p)
  <2>0. PICK d \in Docs : d = i.doc
    BY <1>0, <1>2 DEF LockRow, IndexersTyped
  <2>1. ~ Held(d) /\ i.pc = "lock" /\ UNCHANGED <<row, refs, index, status, failed, worker>>
    BY <1>2, <2>0 DEF LockRow, Free, pairVars, docVars
  <2>2. CASE row[d].exists
    <3>1. indexer' = [indexer EXCEPT ![p] = [i EXCEPT !.pc = "write", !.seen = Entry(FALSE, Access(d))]]
      BY <1>2, <2>0, <2>2 DEF LockRow
    <3>2. /\ indexer'[p].doc = d /\ indexer'[p].pc = "write"
          /\ \A q \in Pairs : q # p => indexer'[q] = indexer[q]
      BY <1>0, <2>0, <3>1 DEF IndexersTyped, Indexers
    <3>3. Shown(d)'
      <4>1. Present(d) => Present(d)'
        BY <1>s, <2>0, <2>1, <3>2 DEF Present
      <4>2. Agree(d)'
        BY <3>2 DEF Agree, Indexing
      <4>3. Failing(d) => Failing(d)'
        BY <2>0, <2>1, <3>2 DEF Failing
      <4> QED BY <1>s, <2>1, <4>1, <4>2, <4>3 DEF Shown
    <3>4. \A q \in Pairs : \/ indexer'[q] = indexer[q]
                           \/ OnlyAt(q, d) /\ OnlyAt(q, d)' /\ (indexer'[q].pc \in LockPcs => row'[d].exists)
      BY <2>0, <2>1, <2>2, <3>2 DEF OnlyAt
    <3> QED BY <2>1, <3>3, <3>4, AgreeBeside
  <2>3. CASE ~ row[d].exists
    <3>1. indexer' = [indexer EXCEPT ![p].pc = "record"]
      BY <1>2, <2>0, <2>3 DEF LockRow
    <3>2. Shown(d)'
      BY <1>r, <1>s, <2>0, <2>1, <3>1 DEF Shown
    <3> QED BY <1>g, <2>0, <2>1, <3>1, <3>2 DEF IndexPcs, LockPcs
  <2> QED BY <2>2, <2>3
<1>3. CASE WriteChunks(p)
  <2>0. PICK d \in Docs : d = i.doc
    BY <1>0, <1>3 DEF WriteChunks, IndexersTyped
  <2>1. /\ i.pc = "write" /\ i.seen.present /\ row[d].exists /\ ~ Held(d)
        /\ UNCHANGED <<row, refs, status, failed, worker>>
    BY <1>3, <1>l, <2>0 DEF WriteChunks, CleanInv, Made, AgreeInv, Rowed, Locked, LockPcs, pairVars
  <2>2. index'[d] = i.seen /\ \A e \in Docs : e # d => index'[e] = index[e]
    BY <1>0, <1>3, <2>0 DEF WriteChunks, DocsTyped
  <2>3. indexer' = [indexer EXCEPT ![p].pc = "post"] /\ indexer'[p].doc = d /\ indexer'[p].pc = "post"
    BY <1>0, <1>3, <2>0, Turned DEF WriteChunks, IndexPcs
  <2>4. Shown(d)'
    <3>1. Present(d)' /\ Indexing(d, {"lock", "write", "post"})'
      BY <2>1, <2>2, <2>3 DEF Present, Indexing
    <3> QED BY <2>1, <3>1 DEF Shown, Agree
  <2> QED BY <1>g, <2>0, <2>1, <2>2, <2>3, <2>4 DEF IndexPcs
<1>4. CASE PostIndex(p)
  <2>0. PICK d \in Docs : d = i.doc
    BY <1>0, <1>4 DEF PostIndex, IndexersTyped
  <2>1. /\ i.pc \in {"post", "unwritten"} /\ row[d].exists /\ ~ Held(d)
        /\ UNCHANGED <<refs, index, status, failed, worker>>
    BY <1>4, <1>l, <2>0 DEF PostIndex, AgreeInv, Rowed, Locked, LockPcs, pairVars
  <2>2. row'[d].exists /\ row'[d].stale /\ \A e \in Docs : e # d => row'[e] = row[e]
    BY <1>0, <1>4, <2>0, <2>1 DEF PostIndex, DocsTyped, Rows
  <2>3. CASE i.pc = "post"
    <3>1. indexer' = [indexer EXCEPT ![p].pc = "resolve"]
      BY <1>4, <2>3 DEF PostIndex
    <3>2. /\ indexer'[p].doc = d /\ indexer'[p].pc = "resolve"
          /\ \A q \in Pairs : q # p => indexer'[q] = indexer[q]
      BY <1>0, <2>0, <3>1, Turned DEF IndexPcs
    <3>3. Present(d) => Present(d)'
      BY <1>s, <2>0, <2>1, <2>3, <3>2 DEF Present
    <3>4. Failing(d) => Failing(d)'
      BY <1>h, <2>0, <2>1, <2>3, <3>1 DEF IndexPcs
    <3>5. Agree(d)'
      BY <2>2 DEF Agree, NeedsSync
    <3>6. Shown(d)'
      BY <1>s, <2>2, <3>3, <3>4, <3>5 DEF Shown
    <3> QED BY <1>g, <2>0, <2>1, <2>2, <3>1, <3>6 DEF IndexPcs
  <2>4. CASE i.pc = "unwritten"
    <3>1. indexer' = [indexer EXCEPT ![p].pc = "record"]
      BY <1>4, <2>4 DEF PostIndex
    <3>2. Shown(d)'
      BY <1>r, <2>0, <2>2, <3>1
    <3> QED BY <1>g, <2>0, <2>1, <2>2, <3>1, <3>2 DEF IndexPcs
  <2> QED BY <2>1, <2>3, <2>4
<1>5. CASE \E d \in Docs : TakeBatch(p, d)
  <2>1. /\ i.pc = "idle" /\ indexer'[p].pc = "prepare" /\ UNCHANGED <<docVars, status, failed, worker>>
        /\ \A q \in Pairs : q # p => indexer'[q] = indexer[q]
    BY <1>0, <1>5 DEF TakeBatch, IndexersTyped, NoIndex, pairVars
  <2> QED BY <2>1, AgreeElsewhere
<1>6. CASE WriteFails(p)
  <2>0. PICK d \in Docs : d = i.doc
    BY <1>0, <1>6 DEF WriteFails, IndexersTyped
  <2>1. row[d].exists /\ ~ Held(d) /\ UNCHANGED <<row, refs, status, failed, worker>>
    BY <1>6, <1>l, <2>0 DEF WriteFails, AgreeInv, Rowed, Locked, LockPcs, pairVars
  <2>2. PICK x : index' = [index EXCEPT ![d] = x]
    BY <1>6, <2>0 DEF WriteFails
  <2>3. \A e \in Docs : e # d => index'[e] = index[e]
    BY <1>0, <2>2 DEF DocsTyped
  <2>4. indexer' = [indexer EXCEPT ![p].pc = "unwritten"]
    BY <1>6 DEF WriteFails
  <2>5. Shown(d)'
    BY <1>r, <2>0, <2>1, <2>4
  <2> QED BY <1>g, <2>0, <2>1, <2>3, <2>4, <2>5 DEF IndexPcs
<1>7. CASE IndexingRaises(p)
  <2>0. PICK d \in Docs : d = i.doc
    BY <1>0, <1>7 DEF IndexingRaises, IndexersTyped
  <2>1. UNCHANGED <<row, refs, index, status, failed, worker>>
    BY <1>7 DEF IndexingRaises, docVars, pairVars
  <2>2. indexer' = [indexer EXCEPT ![p].pc = "record"]
    BY <1>7 DEF IndexingRaises
  <2>3. Shown(d)'
    BY <1>r, <1>s, <2>0, <2>1, <2>2 DEF Shown
  <2>4. \A e \in Docs : e # d => Shown(e)'
    <3> SUFFICES ASSUME NEW e \in Docs, e # d PROVE Shown(e)'
      OBVIOUS
    <3>1. \A q \in Pairs : indexer'[q] = indexer[q] \/ (NotAt(q, e) /\ NotAt(q, e)')
      BY <1>0, <2>0, <2>2, Turned DEF NotAt, IndexPcs
    <3> QED BY <1>s, <2>1, <3>1, ShownSame
  <2>5. \A w \in Workers : UpToHand(w)'
    BY <2>1, UpToHandSame DEF AgreeInv
  <2>6. Rowed'
    BY <1>0, <2>1, <2>2, Turned DEF AgreeInv, Rowed, LockPcs, IndexPcs
  <2> QED BY <2>3, <2>4, <2>5, <2>6 DEF AgreeInv
<1>8. CASE Report(p)
  <2>0. PICK d \in Docs : d = i.doc
    BY <1>0, <1>8 DEF Report, IndexersTyped
  <2>1. UNCHANGED <<row, refs, index, status, worker>> /\ i.pc \in {"resolve", "record"}
    BY <1>8 DEF Report, docVars
  <2>2. indexer'[p].pc = "idle" /\ \A q \in Pairs : q # p => indexer'[q] = indexer[q]
    BY <1>0, <1>8, Turned DEF Report
  <2>3. /\ failed'[d] = IF i.pc = "resolve" THEN failed[d] \ {p} ELSE failed[d] \cup {p}
        /\ \A e \in Docs : e # d => failed'[e] = failed[e]
    BY <1>0, <1>8, <2>0 DEF Report, PairsTyped
  <2>4. Shown(d)'
    <3>1. CASE i.pc = "record"
      BY <1>s, <2>1, <2>2, <2>3, <3>1 DEF Shown, Failing
    <3>2. CASE i.pc = "resolve"
      <4>1. Failing(d) => Failing(d)'
        BY <2>0, <2>2, <2>3, <3>2 DEF Failing
      <4>2. Present(d) => Present(d)'
        <5>1. \A q \in Pairs : indexer[q].doc = d /\ indexer[q].pc \in {"lock", "write"}
                                => indexer'[q] = indexer[q]
          BY <2>2, <3>2
        <5> QED BY <1>s, <2>1, <5>1 DEF Present
      <4>3. Agree(d) => Agree(d)'
        BY <2>1, <2>2, <3>2 DEF Agree, NeedsSync, Indexing, Access, Fields, Entry
      <4> QED BY <1>s, <2>1, <4>1, <4>2, <4>3 DEF Shown
    <3> QED BY <2>1, <3>1, <3>2
  <2>5. \A e \in Docs : e # d => Shown(e)'
    <3> SUFFICES ASSUME NEW e \in Docs, e # d PROVE Shown(e)'
      OBVIOUS
    <3>1. \A q \in Pairs : indexer'[q] = indexer[q] \/ (NotAt(q, e) /\ NotAt(q, e)')
      BY <2>0, <2>2 DEF NotAt
    <3> QED BY <1>s, <2>1, <2>3, <3>1, ShownSame
  <2>6. \A w \in Workers : UpToHand(w)'
    BY <2>1, UpToHandSame DEF AgreeInv
  <2>7. Rowed'
    BY <2>1, <2>2 DEF AgreeInv, Rowed, LockPcs
  <2> QED BY <2>4, <2>5, <2>6, <2>7 DEF AgreeInv
<1>9. ~ Abandon(p)
  BY DEF Abandon, Fault
<1> QED BY <1>1, <1>2, <1>3, <1>4, <1>5, <1>6, <1>7, <1>8, <1>9 DEF IndexStep, IndexFails

\* A step of no docprocessing task leaves what has failed.
LEMMA ShownStill ==
    ASSUME NEW d \in Docs, UNCHANGED <<failed, indexer>>, ~ row'[d].exists => index'[d] = Absent,
           ~ Failing(d) => Present(d)' /\ Agree(d)'
    PROVE  Shown(d)'
<1>1. Failing(d) => Failing(d)'
  BY DEF Failing
<1> QED BY <1>1 DEF Shown

\* What raising does to a document at hand.
LEMMA ExceptAgrees ==
    ASSUME AgreeInv, GrantsInv, TypeOK, NEW w \in Workers, worker[w].pc \in HeldPcs, Except(w),
           UNCHANGED <<status, failed, indexer>>
    PROVE  AgreeInv'
<1> DEFINE t == worker[w].task
<1>0. DocsTyped /\ WorkersTyped /\ worker[w] \in Works
  BY TypeParts DEF WorkersTyped
<1>d. PICK d \in Docs : d = Doc(w)
  BY <1>0 DEF WorkersTyped, HeldPcs, Doc, Tasks
<1>s. Shown(d) /\ Sound(d) /\ Alone /\ refs[d] \subseteq Pairs
  BY <1>0 DEF AgreeInv, GrantsInv, DocsTyped
<1>1. /\ worker'[w].pc \in {"idle", "ack"}
      /\ \A v \in Workers : v # w => worker'[v] = worker[v]
  BY <1>0 DEF Except, Goto, WorkersTyped, Works, NoWork
<1>2. UpToHand(w)'
  BY <1>1 DEF UpToHand
<1>3. CASE UNCHANGED docVars
  <2>1. Shown(d)'
    BY <1>3, <1>s, ShownSame DEF docVars
  <2> QED BY <1>1, <1>2, <1>3, <1>d, <1>s, <2>1, AgreeAtHand DEF docVars
<1>4. CASE /\ refs' = [refs EXCEPT ![t.doc] = @ \ {t.owner}] /\ index' = index
           /\ row' = [row EXCEPT ![t.doc].stale = @ \/ row[t.doc].exists]
  <2>1. /\ refs'[d] = refs[d] \ {t.owner} /\ index'[d] = index[d]
        /\ \A e \in Docs : e # d => row'[e] = row[e] /\ refs'[e] = refs[e] /\ index'[e] = index[e]
    BY <1>0, <1>4, <1>d DEF DocsTyped, Doc
  <2>2. row'[d].exists = row[d].exists /\ (row[d].exists => NeedsSync(d)')
    <3> DEFINE s == row[d].stale \/ row[d].exists
    <3>1. row[d].exists => s
      OBVIOUS
    <3>2. row' = [row EXCEPT ![d].stale = s]
      BY <1>4, <1>d DEF Doc
    <3> HIDE DEF s
    <3>3. row'[d].exists = row[d].exists /\ row'[d].stale = s
      BY <1>0, <3>2 DEF DocsTyped, Rows
    <3> QED BY <3>1, <3>3 DEF NeedsSync
  <2>3. ASSUME ~ Failing(d) PROVE Present(d)'
    BY <1>s, <2>1, <2>3 DEF Shown, Present
  <2>4. Agree(d)'
    BY <1>s, <2>1, <2>2 DEF Sound, Agree
  <2>5. ~ row'[d].exists => index'[d] = Absent
    BY <1>s, <2>1, <2>2 DEF Shown
  <2>6. Shown(d)'
    BY <2>3, <2>4, <2>5, ShownStill
  <2> QED BY <1>1, <1>2, <1>d, <1>s, <2>1, <2>6, AgreeAtHand
<1> QED BY <1>3, <1>4 DEF Except, docVars

LEMMA AgreeWorkers ==
    ASSUME AgreeInv, GrantsInv, CleanInv, TypeOK, NEW w \in Workers,
           WorkStep(w) \/ Raise(w) \/ Refused(w) \/ Kill(w)
    PROVE  AgreeInv'
<1> DEFINE k == worker[w]
<1>0. DocsTyped /\ WorkersTyped /\ k \in Works
  BY TypeParts DEF WorkersTyped
<1>u. UNCHANGED <<status, failed, indexer>> /\ Alone
  BY DEF WorkStep, Take, Start, Read, UpdateIndex, MarkSynced, DeleteIndexed, EraseRows, Ack, Raise,
         Refused, Kill, pairVars, GrantsInv
<1>d. ASSUME k.pc \in HeldPcs
      PROVE  /\ Doc(w) \in Docs /\ refs[Doc(w)] \subseteq Pairs /\ Shown(Doc(w)) /\ Sound(Doc(w))
             /\ Inactive(k.task) /\ ~ Locked(Doc(w))
  BY <1>0, <1>d DEF WorkersTyped, DocsTyped, HeldPcs, Doc, Tasks, AgreeInv, GrantsInv, Owned, Alone
<1>m. ASSUME NEW pc \in WorkPcs, Goto(w, pc)
      PROVE  /\ worker'[w].pc = pc /\ worker'[w].task = k.task /\ worker'[w].seen = k.seen
             /\ \A v \in Workers : v # w => worker'[v] = worker[v]
  BY <1>0, <1>m DEF Goto, WorkersTyped, Works
<1>1. CASE /\ UNCHANGED docVars /\ worker'[w].pc \notin {"update", "mark", "erase"}
           /\ \A v \in Workers : v # w => worker'[v] = worker[v]
  <2>1. UpToHand(w)'
    BY <1>1 DEF UpToHand
  <2>2. \A e \in Docs : Shown(e)'
    BY <1>1, <1>u, ShownSame DEF AgreeInv, docVars
  <2> QED BY <1>1, <1>u, <2>1, <2>2, AgreeAtHand DEF docVars
<1>2. CASE (\E t \in queue : Take(w, t)) \/ Start(w) \/ Ack(w) \/ Refused(w) \/ Kill(w)
  <2>1. UNCHANGED docVars
    BY <1>2 DEF Take, Start, Ack, Refused, Kill
  <2>2. \/ \E pc \in {"read", "delete", "ack"} : Goto(w, pc)
        \/ worker' = [worker EXCEPT ![w] = NoWork]
        \/ \E t : worker' = [worker EXCEPT ![w] = [pc |-> "start", task |-> t, seen |-> Absent]]
    BY <1>2 DEF Take, Start, Ack, Refused, Kill
  <2>3. /\ worker'[w].pc \notin {"update", "mark", "erase"}
        /\ \A v \in Workers : v # w => worker'[v] = worker[v]
    BY <1>0, <2>2 DEF Goto, WorkersTyped, Works, NoWork
  <2> QED BY <1>1, <2>1, <2>3
<1>3. CASE Read(w)
  <2>1. k.pc \in HeldPcs /\ UNCHANGED docVars
    BY <1>3 DEF Read, HeldPcs
  <2>2. CASE row[Doc(w)].exists
    <3>1. worker' = [worker EXCEPT ![w] = [k EXCEPT !.pc = "update", !.seen = Fields(Doc(w))]]
      BY <1>3, <2>2 DEF Read
    <3>2. /\ worker'[w].pc = "update" /\ worker'[w].seen = Fields(Doc(w)) /\ worker'[w].task = k.task
          /\ \A v \in Workers : v # w => worker'[v] = worker[v]
      BY <1>0, <3>1 DEF WorkersTyped, Works
    <3>3. Access(Doc(w))' = Access(Doc(w)) /\ Doc(w)' = Doc(w)
      BY <1>u, <2>1, <3>2 DEF Access, Doc, docVars
    <3>4. UpToHand(w)'
      BY <2>1, <2>2, <3>2, <3>3 DEF UpToHand, Fields, Entry, docVars
    <3>5. \A e \in Docs : Shown(e)'
      BY <1>u, <2>1, ShownSame DEF AgreeInv, docVars
    <3> QED BY <1>u, <2>1, <3>2, <3>4, <3>5, AgreeAtHand DEF docVars
  <2>3. CASE ~ row[Doc(w)].exists
    <3>1. Goto(w, "ack")
      BY <1>3, <2>3 DEF Read, Goto
    <3> QED BY <1>1, <1>m, <2>1, <3>1 DEF WorkPcs
  <2> QED BY <2>2, <2>3
<1>4. CASE UpdateIndex(w)
  <2>0. k.pc = "update" /\ k.pc \in HeldPcs
    BY <1>4 DEF UpdateIndex, HeldPcs
  <2>d. PICK d \in Docs : d = Doc(w)
    BY <1>d, <2>0
  <2>1. /\ UNCHANGED <<row, refs>> /\ Goto(w, "mark")
        /\ index' = [index EXCEPT ![d] = IF @.present THEN k.seen ELSE @]
    BY <1>4, <2>d DEF UpdateIndex, Update
  <2>2. /\ worker'[w].pc = "mark" /\ worker'[w].task = k.task /\ worker'[w].seen = k.seen
        /\ \A v \in Workers : v # w => worker'[v] = worker[v]
    BY <1>m, <2>1 DEF WorkPcs
  <2>3. /\ index'[d] = IF index[d].present THEN k.seen ELSE index[d]
        /\ \A e \in Docs : e # d => index'[e] = index[e]
    BY <1>0, <2>1 DEF DocsTyped
  <2>4. /\ row[d].exists /\ k.seen.hidden = row[d].hidden /\ k.seen.present
        /\ Access(d) \subseteq k.seen.access /\ k.seen.access \subseteq refs[d]
    BY <2>0, <2>d DEF AgreeInv, UpToHand, GrantsInv, AtHand, Left
  <2>5. ASSUME ~ Failing(d) PROVE Present(d)'
    BY <1>d, <1>u, <2>0, <2>1, <2>3, <2>4, <2>5, <2>d DEF Shown, Present
  <2>6. ASSUME ~ Failing(d) PROVE Agree(d)'
    <3>1. CASE NeedsSync(d) \/ Indexing(d, {"lock", "write", "post"})
      BY <1>u, <2>1, <3>1 DEF Agree, NeedsSync, Indexing
    <3>2. CASE Access(d) = refs[d] /\ refs[d] # {} /\ ~ Indexing(d, {"lock", "write", "post"})
      <4>1. index[d].present
        BY <1>d, <2>0, <2>6, <2>d, <3>2 DEF Shown, Present, Access, Indexing
      <4>2. k.seen = Fields(d)
        <5>1. k.seen \in Entries /\ k.seen.access = Access(d)
          BY <1>0, <2>4, <3>2 DEF Works
        <5> QED BY <2>4, <5>1 DEF Entries, Fields, Entry
      <4>3. Fields(d)' = Fields(d)
        BY <1>u, <2>1 DEF Fields, Access, Entry
      <4> QED BY <2>3, <4>1, <4>2, <4>3 DEF Agree
    <3>3. CASE ~ (Access(d) = refs[d] /\ refs[d] # {})
      BY <1>u, <2>1, <3>3 DEF Agree, Access
    <3> QED BY <3>1, <3>2, <3>3
  <2>7. UpToHand(w)'
    <3>1. Access(d)' = Access(d) /\ Doc(w)' = d
      BY <1>u, <2>1, <2>2, <2>d DEF Access, Doc
    <3> QED BY <2>1, <2>2, <2>3, <2>4, <3>1 DEF UpToHand
  <2>8. Shown(d)'
    BY <1>u, <2>1, <2>4, <2>5, <2>6, ShownStill
  <2> QED BY <1>u, <2>1, <2>2, <2>3, <2>7, <2>8, <2>0, <2>d, AgreeAtHand
<1>5. CASE MarkSynced(w)
  <2>0. k.pc = "mark" /\ k.pc \in HeldPcs
    BY <1>5 DEF MarkSynced, HeldPcs
  <2>d. PICK d \in Docs : d = Doc(w)
    BY <1>d, <2>0
  <2>4. /\ row[d].exists /\ k.seen.hidden = row[d].hidden /\ k.seen.present
        /\ Access(d) \subseteq k.seen.access
        /\ index[d].present => index[d] = k.seen
        /\ index[d].access \subseteq Left(w)
    BY <2>0, <2>d DEF AgreeInv, UpToHand, GrantsInv, AtHand
  <2>1. /\ row' = [row EXCEPT ![d].stale = FALSE]
        /\ refs' = IF Cleans(w) THEN [refs EXCEPT ![d] = @ \ {k.task.owner}] ELSE refs
        /\ UNCHANGED index /\ Goto(w, "ack")
    BY <1>5, <2>d, <2>4 DEF MarkSynced
  <2>2. worker'[w].pc = "ack" /\ \A v \in Workers : v # w => worker'[v] = worker[v]
    BY <1>m, <2>1 DEF WorkPcs
  <2>3. /\ row'[d].exists /\ row'[d].hidden = row[d].hidden /\ refs'[d] = Left(w)
        /\ \A e \in Docs : e # d => row'[e] = row[e] /\ refs'[e] = refs[e] /\ index'[e] = index[e]
    BY <1>0, <2>1, <2>4, <2>d DEF DocsTyped, Rows, Left
  <2>5. ASSUME ~ Failing(d) PROVE Present(d)'
    BY <1>d, <1>u, <2>0, <2>1, <2>3, <2>5, <2>d DEF Shown, Present, Left
  <2>6. ASSUME ~ Failing(d) PROVE Agree(d)'
    <3> SUFFICES ASSUME Access(d)' = refs'[d], refs'[d] # {}, ~ Indexing(d, {"lock", "write", "post"})
                 PROVE  index'[d] = Fields(d)'
      BY <1>u DEF Agree, Indexing
    <3>1. Access(d)' = Access(d)
      BY <1>d, <1>u, <2>0, <2>3, <2>d DEF Access, Left, Cleans, Inactive
    <3>2. index[d].present
      BY <1>d, <2>0, <2>6, <2>d, <3>1 DEF Shown, Present, Access, Indexing
    <3>3. index[d].access = Access(d) /\ index[d].hidden = row[d].hidden
      <4>1. Access(d) \subseteq index[d].access /\ index[d].access \subseteq Access(d)
        BY <2>3, <2>4, <3>1, <3>2
      <4> QED BY <2>4, <3>2, <4>1
    <3>4. Fields(d)' = Entry(row[d].hidden, Access(d))
      BY <2>3, <3>1 DEF Fields, Entry
    <3> QED BY <1>0, <2>1, <3>2, <3>3, <3>4 DEF DocsTyped, Entries, Entry
  <2>7. UpToHand(w)'
    BY <2>2 DEF UpToHand
  <2>8. Shown(d)'
    BY <1>u, <2>3, <2>5, <2>6, ShownStill
  <2> QED BY <1>u, <2>2, <2>3, <2>7, <2>8, <2>0, <2>d, AgreeAtHand
<1>6. CASE DeleteIndexed(w)
  <2>0. k.pc = "delete" /\ k.pc \in HeldPcs
    BY <1>6 DEF DeleteIndexed, HeldPcs
  <2>d. PICK d \in Docs : d = Doc(w)
    BY <1>d, <2>0
  <2>1. UNCHANGED <<row, refs>> /\ Goto(w, "erase") /\ index' = [index EXCEPT ![d] = Absent]
    BY <1>6, <2>d DEF DeleteIndexed
  <2>2. /\ worker'[w].pc = "erase" /\ worker'[w].task = k.task
        /\ \A v \in Workers : v # w => worker'[v] = worker[v]
    BY <1>m, <2>1 DEF WorkPcs
  <2>3. index'[d] = Absent /\ \A e \in Docs : e # d => index'[e] = index[e]
    BY <1>0, <2>1 DEF DocsTyped
  <2>4. refs[d] = {k.task.owner} /\ status[k.task.owner] # "active"
    BY <1>d, <2>0, <2>d DEF CleanInv, Pending, Inactive, Cleans
  <2>5. Shown(d)'
    BY <1>u, <2>1, <2>3, <2>4 DEF Shown, Present, Agree, Access
  <2>6. UpToHand(w)'
    BY <2>2, <2>3, <2>d DEF UpToHand, Doc
  <2> QED BY <1>u, <2>1, <2>2, <2>3, <2>5, <2>6, <2>0, <2>d, AgreeAtHand
<1>7. CASE EraseRows(w)
  <2>0. k.pc = "erase" /\ k.pc \in HeldPcs
    BY <1>7 DEF EraseRows, HeldPcs
  <2>d. PICK d \in Docs : d = Doc(w)
    BY <1>d, <2>0
  <2>1. /\ row' = [row EXCEPT ![d] = NoRow] /\ refs' = [refs EXCEPT ![d] = {}]
        /\ UNCHANGED index /\ Goto(w, "ack")
    BY <1>7, <2>d DEF EraseRows
  <2>2. worker'[w].pc = "ack" /\ \A v \in Workers : v # w => worker'[v] = worker[v]
    BY <1>m, <2>1 DEF WorkPcs
  <2>3. /\ refs'[d] = {} /\ index'[d] = Absent
        /\ \A e \in Docs : e # d => row'[e] = row[e] /\ refs'[e] = refs[e] /\ index'[e] = index[e]
    BY <1>0, <2>0, <2>1, <2>d DEF DocsTyped, AgreeInv, UpToHand
  <2>4. Shown(d)'
    BY <2>3 DEF Shown, Present, Agree
  <2>5. UpToHand(w)'
    BY <2>2 DEF UpToHand
  <2> QED BY <1>u, <2>2, <2>3, <2>4, <2>5, <2>0, <2>d, AgreeAtHand
<1>8. CASE Raise(w)
  BY <1>8, <1>u, ExceptAgrees DEF Raise, HeldPcs
<1> QED BY <1>2, <1>3, <1>4, <1>5, <1>6, <1>7, <1>8 DEF WorkStep

LEMMA AgreeStep ==
    ASSUME SyncAssumption, Undisturbed, "abandoned" \notin Faults,
           AgreeInv, GrantsInv, CleanInv, TypeOK, [Next]_vars
    PROVE  AgreeInv'
<1>0. DocsTyped /\ PairsTyped
  BY TypeParts
<1>1. CASE UNCHANGED vars
  BY <1>1, AgreeElsewhere DEF vars, docVars
<1>2. CASE \E p \in Pairs : MarkDeleting(p) \/ StartAttempt(p) \/ EndAttempt(p)
  <2>1. UNCHANGED <<docVars, failed, indexer, worker>>
    BY <1>2 DEF MarkDeleting, StartAttempt, EndAttempt
  <2>2. \A p \in Pairs : status'[p] = "active" => status[p] = "active"
    BY <1>0, <1>2 DEF MarkDeleting, StartAttempt, EndAttempt, PairsTyped
  <2> QED BY <2>1, <2>2, AgreeElsewhere
<1>3. CASE \E p \in Pairs : BeatStep(p) \/ GenerationStops(p)
  <2>1. UNCHANGED <<docVars, failed, indexer, worker>>
    BY <1>3 DEF BeatStep, GenerateDeletion, DeletionMonitor, Validate, GenerationStops, pairVars
  <2>2. \A p \in Pairs : status'[p] = "active" => status[p] = "active"
    BY <1>0, <1>3 DEF BeatStep, GenerateDeletion, DeletionMonitor, Validate, GenerationStops, pairVars, PairsTyped
  <2> QED BY <2>1, <2>2, AgreeElsewhere
<1>4. CASE SyncStep \/ SyncGenerationStops \/ \E t \in queue : Lose(t)
  <2>1. UNCHANGED <<docVars, status, failed, indexer, worker>>
    BY <1>4 DEF SyncStep, GenerateSync, SyncMonitor, SyncExpires, SyncGenerationStops, Lose, pairVars
  <2> QED BY <2>1, AgreeElsewhere
<1>5. ASSUME NEW d \in Docs, Edit(d)
      PROVE  AgreeInv'
  <2>1. /\ ~ Held(d) /\ row[d].exists /\ row'[d].exists /\ NeedsSync(d)'
        /\ \A e \in Docs : e # d => row'[e] = row[e]
        /\ UNCHANGED <<refs, index, status, failed, indexer, worker>>
    BY <1>0, <1>5 DEF Edit, Free, NeedsSync, DocsTyped, Rows, pairVars
  <2>2. Shown(d)'
    <3>1. ASSUME ~ Failing(d) PROVE Present(d)'
      BY <2>1, <3>1 DEF AgreeInv, Shown, Present
    <3>2. Agree(d)'
      BY <2>1 DEF Agree
    <3> QED BY <2>1, <3>1, <3>2, ShownStill
  <2> QED BY <2>1, <2>2, AgreeBeside
<1>6. CASE \E p \in Pairs : IndexStep(p) \/ IndexFails(p) \/ \E d \in Docs : TakeBatch(p, d)
  BY <1>6, AgreeIndexing
<1>7. CASE \E w \in Workers : WorkStep(w) \/ Raise(w) \/ Refused(w) \/ Kill(w)
  BY <1>7, AgreeWorkers
<1> QED BY <1>1, <1>2, <1>3, <1>4, <1>5, <1>6, <1>7 DEF Next, FaultStep

\* A document that nobody is at work on, that is not waiting to be synced and whose pairs are
\* all active is in the index with the metadata of its row, or the last indexing of it by some
\* pair failed; one without a row is not in the index.  So it is if nothing else touches a
\* document while a task works on it, no task runs twice, and every docprocessing task comes
\* to its report: embedding, the index and the database may fail it before.
THEOREM IndexAgreesCorrect ==
    ASSUME Undisturbed, Once, "abandoned" \notin Faults
    PROVE  Spec => []IndexAgrees
<1>1. Init => AgreeInv
  <2> SUFFICES ASSUME Init PROVE AgreeInv
    OBVIOUS
  <2>1. \A d \in Docs : Shown(d)
    <3> TAKE d \in Docs
    <3>1. refs[d] \subseteq Pairs /\ \A p \in refs[d] : status[p] = "active"
      BY SyncAssumption DEF Init, SyncAssumption
    <3>2. index[d] = IF refs[d] # {} THEN Entry(FALSE, refs[d]) ELSE Absent
      BY DEF Init
    <3>3. (~ row[d].exists => refs[d] = {}) /\ row[d].hidden = FALSE
      BY DEF Init
    <3>4. Access(d) = refs[d]
      BY <3>1 DEF Access
    <3>5. Agree(d)
      BY <3>2, <3>3, <3>4 DEF Agree, Fields
    <3>6. Present(d)
      BY <3>2 DEF Present, Entry
    <3>7. ~ row[d].exists => index[d] = Absent
      BY <3>2, <3>3
    <3> QED BY <3>5, <3>6, <3>7 DEF Shown
  <2>2. \A w \in Workers : UpToHand(w)
    BY DEF Init, NoWork, UpToHand
  <2>3. Rowed
    BY DEF Init, NoIndex, Rowed, LockPcs
  <2> QED BY <2>1, <2>2, <2>3 DEF AgreeInv
<1>2. TypeOK /\ GrantsInv /\ DeletionInv /\ AgreeInv /\ [Next]_vars => AgreeInv'
  BY SyncAssumption, AgreeStep DEF DeletionInv
<1>3. TypeOK /\ AgreeInv => IndexAgrees
  <2> SUFFICES ASSUME TypeOK, AgreeInv, NEW d \in Docs, Settled(d), ~ NeedsSync(d), Access(d) = refs[d]
               PROVE  /\ refs[d] # {} => index[d] = Fields(d) \/ failed[d] # {}
                      /\ ~ row[d].exists => index[d] = Absent
    BY DEF IndexAgrees
  <2>1. Shown(d) /\ \A p \in Pairs : indexer[p].doc # d
    BY DEF AgreeInv, Settled
  <2>2. Failing(d) => failed[d] # {}
    BY <2>1 DEF Failing
  <2>3. Agree(d) /\ refs[d] # {} => index[d] = Fields(d)
    BY <2>1 DEF Agree, Indexing
  <2> QED BY <2>1, <2>2, <2>3 DEF Shown
<1>4. Spec => [](TypeOK /\ GrantsInv)
  BY AlwaysGrants
<1>5. Spec => [](TypeOK /\ DeletionInv)
  BY AlwaysDeletes
<1> QED BY <1>1, <1>2, <1>3, <1>4, <1>5, PTL DEF Spec
====
