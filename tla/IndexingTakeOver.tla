---- MODULE IndexingTakeOver ----
(***************************************************************************)
(* What is fetched is kept, and a success is complete: proofs about        *)
(* IndexingPipeline under the conditions in which the code recovers.       *)
(***************************************************************************)
EXTENDS IndexingSafety

----------------------------------------------------------------------------
(* The conditions *)

\* One search setting; no cc_pair's number begins with that of another; no attempt from
\* the beginning; attempts that start when the processes of the last one have gone;
\* no failing documents, no exception of the monitor, and kills only at steps after
\* which the code recovers.  Where a condition fails the code may lose a batch: the
\* README names the instance in which TLC finds that.
Recoverable ==
    /\ \A s, t \in Settings : s = t
    /\ \A p, q \in CCPairs : NameBegins(q, p) => q = p
    /\ Reindexing \subseteq {FALSE} /\ QuietRestart
    /\ ~ DocFailures /\ ~ MonitorMayFail
    /\ FaultPoints \subseteq {"queued", "spawned", "run", "send", "total", "got", "count"}
    /\ Checkpointed \/ "total" \notin FaultPoints

\* No worker counts a reissued batch before the counter of its attempt is assigned.
Uncounted ==
    \A a \in Attempts : fetcher[a].pc = "recount" /\ fetcher[a].old # 0 => row[a].completed = 0

----------------------------------------------------------------------------
(* The inductive invariant *)

SamePair(a, b) == row[a].pair = row[b].pair

Busy(w) == worker[w].pc # "idle"

\* An attempt that has a successor is over.
Over(a) ==
    /\ row[a].status \in Terminal /\ fetcher[a].pc = "gone"
    /\ \A w \in Workers : Busy(w) => worker[w].task.attempt # a
    /\ monitor.pc # "idle" => monitor.attempt # a
Succession == \A a, b \in Created : SamePair(a, b) /\ a < b => Over(a)

\* Of two attempts that have ended, the one created later has been written to last.
Ordered == \A a, b \in Created : SamePair(a, b) /\ a < b /\ row[b].status \in Terminal =>
               b \in newer[a] /\ a \notin newer[b]

\* What the process of an attempt has written to its row.
TakingOver == {"list", "rename", "reissue", "recount"}
Unopened(r) ==
    /\ r.upto = Null /\ r.checkpoint = Null /\ r.total = Null /\ r.completed = 0
Phase(a, r, f) ==
    /\ ~ r.reindex
    /\ r.start = Null => Unopened(r) /\ f.pc \in {"queued", "spawned", "window", "gone", "dead"}
    /\ f.pc \in {"queued", "spawned", "window"} => r.start = Null
    /\ r.start # Null => r.upto <= a
    /\ f.pc \in TakingOver => r.checkpoint = Null /\ r.total = Null
    /\ f.pc \in {"list", "rename", "reissue"} => r.completed = 0
    /\ r.start # Null /\ f.pc \notin TakingOver \cup {"save"} => r.checkpoint # Null
    /\ f.pc \in TakingOver => f.at = f.checkpoint
    /\ f.pc = "save" => f.at = f.checkpoint /\ r.checkpoint <= f.checkpoint
    /\ f.pc \in {"run", "send"} => r.checkpoint = f.checkpoint /\ f.checkpoint <= f.at
    /\ f.pc = "total" => f.at = NumBatches /\ r.checkpoint = NumBatches
    /\ r.total # Null => r.checkpoint = NumBatches /\ r.completed <= r.total
    /\ f.pc = "none" => r.status = "none"
    /\ ~ Checkpointed =>
         /\ f.pc \in TakingOver \cup {"save"} => f.checkpoint \in {0, NumBatches}
         /\ r.checkpoint \in {Null, 0, NumBatches}
         /\ r.checkpoint = NumBatches => f.pc = "total" \/ r.total # Null
Phases == \A a \in Created : Phase(a, row[a], fetcher[a])

\* A window begins where the last success before it ended.
EndsBefore(a) == {row[b].upto : b \in {b \in Created : SamePair(a, b) /\ b < a
                                                        /\ row[b].status = "SUCCESS"}}
EndOfLast(ends) == IF ends = {} THEN 0 ELSE CHOOSE e \in ends : \A f \in ends : f <= e
Starts == \A a \in Created : row[a].start # Null => row[a].start = EndOfLast(EndsBefore(a))

\* The files of a pair, and those of them that nobody has counted.
Of(p) == {g \in files : g.pair = p}
CountedFile(g) == \E w \in Workers : /\ worker[w].pc = "delete"
                                     /\ worker[w].task.attempt = g.attempt
                                     /\ worker[w].task.num = g.num
Waiting(p) == {g \in Of(p) : ~ CountedFile(g)}
NextNumber(r, waiting) == r.completed + Cardinality(waiting)

\* The last attempt of a pair that has a window: the files of the pair are its own, or
\* those it takes over.
Opened(a) == a \in Created /\ row[a].start # Null
Current(a) == Opened(a) /\ \A b \in Created : SamePair(a, b) /\ a < b => row[b].start = Null

\* Attempt a with row r and process f, the files of its pair and those that wait.
Store(a, r, f, own, waiting) ==
    /\ f.pc \notin {"list", "rename"} => \A g \in own : g.attempt = a
    /\ f.pc \in {"list", "rename"} => \A g \in own : g.attempt < a
    /\ f.pc = "rename" => f.todo = own
    /\ f.pc \in {"list", "rename", "reissue"} => \A g \in own : g.num < f.old + Cardinality(own)
    /\ f.pc = "reissue" => /\ {g.num : g \in f.todo} = {g.num : g \in own}
                           /\ Cardinality(f.todo) = Cardinality(own)
                           /\ \A g \in f.todo : g.pair = r.pair
                           /\ \A g, h \in f.todo : g.num = h.num => g = h
    /\ f.pc = "recount" => /\ Cardinality(f.todo) = NextNumber(r, waiting)
                           /\ \A g \in own : g.num < f.old + Cardinality(f.todo)
    /\ f.pc \notin TakingOver => \A g \in own : g.num < NextNumber(r, waiting)
    /\ f.pc \in {"save", "run", "total"} => f.num = NextNumber(r, waiting)
    /\ f.pc = "send" => f.num + 1 = NextNumber(r, waiting)
    /\ r.total # Null => r.total = NextNumber(r, waiting)

\* The batches that an attempt has behind it are in the index or in a file.
DocOf(r, i) == [pair |-> r.pair, start |-> r.start, upto |-> r.upto, pos |-> i]
Behind(r, f) == IF f.pc \in Extracting THEN f.at ELSE r.checkpoint
KeptDocs(r, f, own, done) ==
    \A i \in 1 .. Behind(r, f) : DocOf(r, i) \in done \/ \E g \in own : g.doc = DocOf(r, i)

CurrentKept ==
    \A a \in Created, p \in CCPairs, e \in Settings :
        Current(a) /\ row[a].pair = p /\ row[a].settings = e =>
            /\ Store(a, row[a], fetcher[a], Of(p), Waiting(p))
            /\ KeptDocs(row[a], fetcher[a], Of(p), indexed[e])

Owned == \A g \in files : Opened(g.attempt) /\ row[g.attempt].pair = g.pair
Distinct == \A g, h \in files : g.pair = h.pair /\ g.num = h.num => g = h

\* A batch has one task, and it has the number of a batch that was sent.
Alive == queue \cup {worker[w].task : w \in {w \in Workers : Busy(w)}}
SentBy(t, f) ==
    /\ f.pc \notin {"none", "queued", "spawned", "window", "list", "rename", "reissue"}
    /\ f.pc = "recount" => t.num < f.old + Cardinality(f.todo)
    /\ f.pc \in {"save", "run", "send"} => t.num < f.num
Sends == \A t \in Alive : Opened(t.attempt) /\ SentBy(t, fetcher[t.attempt])
SameBatch(t, u) == t.attempt = u.attempt /\ t.num = u.num
OneTask ==
    /\ \A t, u \in queue : SameBatch(t, u) => t = u
    /\ \A v, w \in Workers : Busy(v) /\ Busy(w) /\ SameBatch(worker[v].task, worker[w].task) => v = w
    /\ \A t \in queue, w \in Workers : Busy(w) => ~ SameBatch(t, worker[w].task)

\* What a worker holds, its batch being in the files of its pair.
Names(g, t) == g.attempt = t.attempt /\ g.num = t.num
HeldFile(k, own, done) ==
    /\ k.pc = "got" => \E g \in own : Names(g, k.task) /\ g.doc = k.doc
    /\ k.pc = "count" => k.doc = NoDoc /\ \E g \in own : Names(g, k.task)
    /\ k.pc \in {"count", "delete"} => \A g \in own : Names(g, k.task) => g.doc \in done
Holding ==
    \A w \in Workers, p \in CCPairs, e \in Settings :
        Busy(w) /\ row[worker[w].task.attempt].pair = p /\ row[worker[w].task.attempt].settings = e =>
            worker[w].pc # "errors" /\ HeldFile(worker[w], Of(p), indexed[e])

\* What the monitor has noted is still so, or more.
NoteHolds(m, r) ==
    /\ m.total # Null => r.total = m.total /\ m.completed <= r.completed
    /\ m.pc \in {"finish", "cleanup"} => m.total # Null /\ m.completed >= m.total
Notes == monitor.pc # "idle" => NoteHolds(monitor, row[monitor.attempt])

Complete(r, done) == \A i \in 1 .. NumBatches : DocOf(r, i) \in done
Successes ==
    \A a \in Created, e \in Settings :
        row[a].status = "SUCCESS" /\ row[a].settings = e => Complete(row[a], indexed[e])

KeepInv ==
    /\ Succession /\ Ordered /\ Phases /\ Starts /\ Owned /\ Distinct /\ CurrentKept
    /\ Sends /\ OneTask /\ Holding /\ Notes /\ Successes

----------------------------------------------------------------------------
(* Attempts and their pairs *)

LEMMA AttemptNumbers ==
    /\ Attempts \subseteq Nat /\ Created \subseteq Attempts /\ NumBatches \in Nat /\ Null \notin Nat
    /\ Positions \subseteq Nat
BY PipelineNumbers, FiniteAttempts DEF Created, Null

\* The attempt of a pair that was created last.
LastOf(a) == a \in Created /\ \A b \in Created : SamePair(a, b) => ~ a < b

LEMMA NotOver ==
    ASSUME Succession, NEW a \in Created,
           \/ row[a].status \in Active \/ fetcher[a].pc # "gone"
           \/ \E w \in Workers : Busy(w) /\ worker[w].task.attempt = a
           \/ monitor.pc # "idle" /\ monitor.attempt = a
    PROVE  LastOf(a)
<1>1. ~ Over(a)
  BY DEF Over, Active, Terminal, Successful
<1> QED
  BY <1>1 DEF Succession, LastOf

LEMMA OfOnePair ==
    ASSUME NEW a \in Created, NEW b \in Created, LastOf(a), SamePair(a, b), a # b
    PROVE  b < a /\ SamePair(b, a)
BY AttemptNumbers DEF LastOf, SamePair

LEMMA CurrentIsLast ==
    ASSUME NEW a \in Created, LastOf(a), row[a].start # Null
    PROVE  /\ Current(a)
           /\ \A b \in Created : Current(b) /\ b # a => row[b].pair # row[a].pair
<1>1. Current(a)
  BY DEF Current, Opened, LastOf
<1>2. ASSUME NEW b \in Created, Current(b), b # a, row[b].pair = row[a].pair
      PROVE  FALSE
  BY <1>2, OfOnePair DEF Current, SamePair
<1> QED
  BY <1>1, <1>2

----------------------------------------------------------------------------
(* The rows after a step *)

\* What a step that writes the row of the last attempt of a pair, or moves its process,
\* does to rows and processes.
RowMoves(a, s, g) ==
    /\ row' = [row EXCEPT ![a] = s] /\ fetcher' = [fetcher EXCEPT ![a] = g]
    /\ s.pair = row[a].pair /\ s.settings = row[a].settings /\ s.status # "none"
    /\ row[a].start # Null => s.start = row[a].start /\ s.upto = row[a].upto
    /\ Touch(a) \/ (newer' = newer /\ (s.status \in Terminal => row[a].status \in Terminal))

\* Workers and monitor turn to nothing that is over.
TurnsTo ==
    /\ \A w \in Workers : Busy(w)' =>
          LastOf(worker'[w].task.attempt) \/ (Busy(w) /\ worker'[w].task.attempt = worker[w].task.attempt)
    /\ monitor'.pc # "idle" =>
          LastOf(monitor'.attempt) \/ (monitor.pc # "idle" /\ monitor'.attempt = monitor.attempt)

LEMMA RowsAfter ==
    ASSUME TypeInv, NEW a \in Created, NEW s, NEW g, RowMoves(a, s, g)
    PROVE  /\ Created' = Created /\ a \in Attempts
           /\ row'[a] = s /\ fetcher'[a] = g
           /\ \A b \in Attempts : b # a => row'[b] = row[b] /\ fetcher'[b] = fetcher[b]
           /\ \A b, c \in Created : SamePair(b, c)' <=> SamePair(b, c)
<1>1. /\ a \in Attempts /\ row'[a] = s /\ fetcher'[a] = g
      /\ \A b \in Attempts : b # a => row'[b] = row[b] /\ fetcher'[b] = fetcher[b]
  BY AttemptNumbers DEF RowMoves, TypeInv, RowsTyped
<1>2. Created' = Created
  BY <1>1 DEF RowMoves, Created
<1>3. \A b \in Created : row'[b].pair = row[b].pair
  BY <1>1, AttemptNumbers DEF RowMoves
<1> QED
  BY <1>1, <1>2, <1>3 DEF SamePair

LEMMA SuccessionAfter ==
    ASSUME TypeInv, Succession, NEW a \in Created, LastOf(a), NEW s, NEW g, RowMoves(a, s, g), TurnsTo
    PROVE  Succession'
<1> SUFFICES ASSUME NEW b \in Created, NEW c \in Created, SamePair(b, c), b < c
             PROVE  Over(b)'
  BY RowsAfter DEF Succession
<1>1. Over(b) /\ ~ LastOf(b) /\ b # a
  BY DEF Succession, LastOf
<1>2. row'[b] = row[b] /\ fetcher'[b] = fetcher[b]
  BY <1>1, RowsAfter, AttemptNumbers
<1> QED
  BY <1>1, <1>2 DEF Over, TurnsTo, Busy

LEMMA OrderedAfter ==
    ASSUME TypeInv, Ordered, NEW a \in Created, LastOf(a), NEW s, NEW g, RowMoves(a, s, g)
    PROVE  Ordered'
<1> SUFFICES ASSUME NEW b \in Created, NEW c \in Created, SamePair(b, c), b < c,
                    row'[c].status \in Terminal
             PROVE  c \in newer'[b] /\ b \notin newer'[c]
  BY RowsAfter DEF Ordered
<1>1. b # a /\ b \in Attempts /\ c \in Attempts /\ b # c
  BY AttemptNumbers DEF LastOf
<1>2. CASE Touch(a)
  <2>1. newer'[b] = newer[b] \cup {a} /\ newer'[c] = IF c = a THEN {} ELSE newer[c] \cup {a}
    BY <1>1, <1>2 DEF Touch
  <2>2. c # a => row'[c].status = row[c].status
    BY <1>1, RowsAfter
  <2> QED
    BY <1>1, <2>1, <2>2 DEF Ordered
<1>3. CASE newer' = newer /\ (s.status \in Terminal => row[a].status \in Terminal)
  <2>1. row[c].status \in Terminal
    BY <1>1, <1>3, RowsAfter
  <2> QED
    BY <1>3, <2>1 DEF Ordered
<1> QED
  BY <1>2, <1>3 DEF RowMoves

LEMMA PhasesAfter ==
    ASSUME TypeInv, Phases, NEW a \in Created, NEW s, NEW g, RowMoves(a, s, g), Phase(a, s, g)
    PROVE  Phases'
<1> SUFFICES ASSUME NEW b \in Created
             PROVE  Phase(b, row'[b], fetcher'[b])
  BY RowsAfter DEF Phases
<1>1. CASE b = a
  BY <1>1, RowsAfter
<1>2. CASE b # a
  <2>1. row'[b] = row[b] /\ fetcher'[b] = fetcher[b]
    BY <1>2, RowsAfter, AttemptNumbers
  <2> QED
    BY <2>1 DEF Phases
<1> QED
  BY <1>1, <1>2

\* The row of the last attempt is not among the successes before a window.
LEMMA StartsAfter ==
    ASSUME TypeInv, Starts, NEW a \in Created, LastOf(a), NEW s, NEW g, RowMoves(a, s, g),
           s.start # Null => s.start = EndOfLast(EndsBefore(a))
    PROVE  Starts'
<1> SUFFICES ASSUME NEW b \in Created, row'[b].start # Null
             PROVE  row'[b].start = EndOfLast(EndsBefore(b))'
  BY RowsAfter DEF Starts
<1>1. \A c \in Created : SamePair(b, c) /\ c < b => c # a /\ row'[c] = row[c]
  BY RowsAfter, AttemptNumbers DEF LastOf, SamePair
<1>2. EndsBefore(b)' = EndsBefore(b)
  BY <1>1, RowsAfter DEF EndsBefore
<1>3. row'[b].start = EndOfLast(EndsBefore(b))
  BY RowsAfter, AttemptNumbers DEF Starts
<1> QED
  BY <1>2, <1>3 DEF EndOfLast

----------------------------------------------------------------------------
(* The stores of the other pairs *)

\* A step leaves the files of other pairs alone, and the index only grows.
Apart(p) == \A q \in CCPairs : q # p => Of(q)' = Of(q) /\ Waiting(q)' = Waiting(q)
Grows == \A e \in Settings : indexed[e] \subseteq indexed'[e]

LEMMA TargetTyped ==
    ASSUME TypeInv, NEW a \in Created
    PROVE  row[a].pair \in CCPairs /\ row[a].settings \in Settings
BY AllFit, AttemptNumbers DEF Fits, Created

LEMMA KeptGrows ==
    ASSUME NEW r, NEW f, NEW own, NEW done, NEW more, KeptDocs(r, f, own, done), done \subseteq more
    PROVE  KeptDocs(r, f, own, more)
BY DEF KeptDocs

LEMMA CurrentAfter ==
    ASSUME TypeInv, CurrentKept, NEW a \in Created, LastOf(a), NEW s, NEW g, RowMoves(a, s, g), Grows,
           Apart(row[a].pair),
           \A p \in CCPairs, e \in Settings : s.pair = p /\ s.settings = e /\ s.start # Null =>
              Store(a, s, g, Of(p)', Waiting(p)') /\ KeptDocs(s, g, Of(p)', indexed'[e]),
           \A p \in CCPairs : s.start = Null => Of(p)' = Of(p) /\ Waiting(p)' = Waiting(p)
    PROVE  CurrentKept'
<1> SUFFICES ASSUME NEW b \in Created, NEW p \in CCPairs, NEW e \in Settings, Current(b)',
                    row'[b].pair = p, row'[b].settings = e
             PROVE  Store(b, row'[b], fetcher'[b], Of(p)', Waiting(p)')
                    /\ KeptDocs(row'[b], fetcher'[b], Of(p)', indexed'[e])
  BY RowsAfter DEF CurrentKept
<1>0. /\ a \in Attempts /\ row'[a] = s /\ fetcher'[a] = g /\ Created' = Created
      /\ row[a].start # Null => s.start # Null
  <2>1. a \in Attempts /\ row'[a] = s /\ fetcher'[a] = g /\ Created' = Created
    BY RowsAfter
  <2>2. row[a].start # Null => s.start # Null
    BY DEF RowMoves
  <2> QED
    BY <2>1, <2>2
<1>1. CASE b = a
  <2>1. row'[a].start # Null
    BY <1>1 DEF Current, Opened
  <2> QED
    BY <1>0, <1>1, <2>1
<1>2. CASE b # a
  <2>1. row'[b] = row[b] /\ fetcher'[b] = fetcher[b] /\ row[b].pair = p /\ row[b].settings = e
    BY <1>2, RowsAfter, AttemptNumbers
  <2>2. ASSUME NEW c \in Created, SamePair(b, c), b < c
        PROVE  row[c].start = Null /\ (c = a => s.start = Null)
    <3>1. row'[c].start = Null
      BY <2>2, RowsAfter DEF Current
    <3> QED
      BY <1>0, <3>1, RowsAfter, AttemptNumbers
  <2>3. Current(b)
    BY <2>1, <2>2, RowsAfter DEF Current, Opened
  <2>4. s.start = Null \/ p # row[a].pair
    BY <1>2, <2>1, <2>2, OfOnePair DEF SamePair
  <2>5. Of(p)' = Of(p) /\ Waiting(p)' = Waiting(p)
    BY <2>4 DEF Apart
  <2>6. Store(b, row[b], fetcher[b], Of(p), Waiting(p)) /\ KeptDocs(row[b], fetcher[b], Of(p), indexed[e])
    BY <2>1, <2>3 DEF CurrentKept
  <2> QED
    BY <2>1, <2>5, <2>6, KeptGrows DEF Grows
<1> QED
  BY <1>1, <1>2

LEMMA OwnedAfter ==
    ASSUME TypeInv, Owned, NEW a \in Created, NEW s, NEW g, RowMoves(a, s, g),
           \A h \in files' : h \in files \/ (h.attempt = a /\ h.pair = s.pair /\ s.start # Null)
    PROVE  Owned'
<1> SUFFICES ASSUME NEW h \in files'
             PROVE  h.attempt \in Created /\ row'[h.attempt].start # Null /\ row'[h.attempt].pair = h.pair
  BY RowsAfter DEF Owned, Opened
<1>1. CASE h \in files
  <2>1. h.attempt \in Created /\ row[h.attempt].start # Null /\ row[h.attempt].pair = h.pair
    BY <1>1 DEF Owned, Opened
  <2>2. s.pair = row[a].pair /\ (row[a].start # Null => s.start # Null)
    BY DEF RowMoves
  <2>3. CASE h.attempt = a
    BY <2>1, <2>2, <2>3, RowsAfter
  <2>4. CASE h.attempt # a
    <3>1. row'[h.attempt] = row[h.attempt]
      BY <2>1, <2>4, RowsAfter, AttemptNumbers
    <3> QED
      BY <2>1, <3>1
  <2> QED
    BY <2>3, <2>4
<1> QED
  BY <1>1, RowsAfter

\* Rows of attempts that are marked a success.
LEMMA SuccessesAfter ==
    ASSUME TypeInv, Successes, NEW a \in Created, NEW s, NEW g, RowMoves(a, s, g), Grows,
           s.status = "SUCCESS" =>
              \/ row[a].status = "SUCCESS" /\ s.start = row[a].start /\ s.upto = row[a].upto
              \/ \A e \in Settings : s.settings = e => Complete(s, indexed'[e])
    PROVE  Successes'
<1> SUFFICES ASSUME NEW b \in Created, NEW e \in Settings, row'[b].status = "SUCCESS", row'[b].settings = e
             PROVE  Complete(row'[b], indexed'[e])
  BY RowsAfter DEF Successes
<1>1. ASSUME row[b].status = "SUCCESS", row[b].settings = e, row'[b].pair = row[b].pair,
             row'[b].start = row[b].start, row'[b].upto = row[b].upto
      PROVE  Complete(row'[b], indexed'[e])
  BY <1>1 DEF Successes, Complete, DocOf, Grows
<1>2. CASE b = a
  BY <1>1, <1>2, RowsAfter DEF RowMoves
<1>3. CASE b # a
  BY <1>1, <1>3, RowsAfter, AttemptNumbers
<1> QED
  BY <1>2, <1>3

----------------------------------------------------------------------------
(* Steps that write a row or move a process, and nothing else *)

LEMMA HolderCreated ==
    ASSUME Sends, NEW w \in Workers, Busy(w)
    PROVE  worker[w].task \in Alive /\ worker[w].task.attempt \in Created
BY DEF Sends, Alive, Opened

LEMMA SendsAfter ==
    ASSUME TypeInv, Sends, NEW a \in Created, NEW s, NEW g, RowMoves(a, s, g),
           \A t \in Alive' : t \in Alive \/ (t.attempt = a /\ s.start # Null),
           \A t \in Alive' : t.attempt = a => SentBy(t, g)
    PROVE  Sends'
<1>0. a \in Attempts /\ row'[a] = s /\ fetcher'[a] = g /\ Created' = Created
  BY RowsAfter
<1>3. row[a].start # Null => s.start # Null
  BY DEF RowMoves
<1> SUFFICES ASSUME NEW t \in Alive'
             PROVE  t.attempt \in Created /\ row'[t.attempt].start # Null /\ SentBy(t, fetcher'[t.attempt])
  BY <1>0 DEF Sends, Opened
<1>1. CASE t.attempt = a
  BY <1>0, <1>1, <1>3 DEF Sends, Opened
<1>2. CASE t.attempt # a
  <2>1. Opened(t.attempt) /\ SentBy(t, fetcher[t.attempt])
    BY <1>2 DEF Sends
  <2> QED
    BY <1>2, <2>1, RowsAfter, AttemptNumbers DEF Opened
<1> QED
  BY <1>1, <1>2

LEMMA HoldingAfter ==
    ASSUME TypeInv, Sends, Holding, NEW a \in Created, NEW s, NEW g, RowMoves(a, s, g),
           UNCHANGED <<files, worker, indexed>>
    PROVE  Holding'
<1> SUFFICES ASSUME NEW w \in Workers, NEW p \in CCPairs, NEW e \in Settings, Busy(w),
                    row'[worker[w].task.attempt].pair = p, row'[worker[w].task.attempt].settings = e
             PROVE  worker[w].pc # "errors" /\ HeldFile(worker[w], Of(p), indexed[e])
  BY DEF Holding, Busy, Of
<1>1. worker[w].task.attempt \in Created
  BY HolderCreated
<1>2. row'[a] = s /\ s.pair = row[a].pair /\ s.settings = row[a].settings
  BY RowsAfter DEF RowMoves
<1>3. row[worker[w].task.attempt].pair = p /\ row[worker[w].task.attempt].settings = e
  <2>1. CASE worker[w].task.attempt = a
    BY <1>2, <2>1
  <2>2. CASE worker[w].task.attempt # a
    <3>1. row'[worker[w].task.attempt] = row[worker[w].task.attempt]
      BY <1>1, <2>2, RowsAfter, AttemptNumbers
    <3> QED
      BY <3>1
  <2> QED
    BY <2>1, <2>2
<1> QED
  BY <1>3 DEF Holding

LEMMA SameStore ==
    ASSUME UNCHANGED <<files, worker, indexed>>
    PROVE  /\ \A p \in CCPairs : Of(p)' = Of(p) /\ Waiting(p)' = Waiting(p) /\ Apart(p)
           /\ Grows
BY DEF Of, Waiting, CountedFile, Apart, Grows

LEMMA SameTasks ==
    ASSUME UNCHANGED <<queue, worker>>
    PROVE  Alive' = Alive /\ (OneTask => OneTask') /\ \A w \in Workers : Busy(w)' <=> Busy(w)
BY DEF Alive, OneTask, Busy

\* The last attempt of a pair has this row, this process and, once it has a window, this store.
LEMMA LastKept ==
    ASSUME TypeInv, KeepInv, NEW a \in Created, LastOf(a)
    PROVE  /\ Phase(a, row[a], fetcher[a])
           /\ \A p \in CCPairs, e \in Settings :
                 row[a].pair = p /\ row[a].settings = e /\ row[a].start # Null =>
                     /\ Store(a, row[a], fetcher[a], Of(p), Waiting(p))
                     /\ KeptDocs(row[a], fetcher[a], Of(p), indexed[e])
           /\ \A t \in Alive : t.attempt = a => row[a].start # Null /\ SentBy(t, fetcher[a])
           /\ row[a].start # Null => row[a].start = EndOfLast(EndsBefore(a))
BY CurrentIsLast DEF KeepInv, Phases, CurrentKept, Sends, Opened, Starts

LEMMA RowStep ==
    ASSUME TypeInv, KeepInv, NEW a \in Created, LastOf(a), NEW s, NEW g, RowMoves(a, s, g), TurnsTo,
           s.start = row[a].start, s.upto = row[a].upto,
           UNCHANGED <<files, queue, worker, indexed>>, Notes',
           Phase(a, s, g),
           \A p \in CCPairs, e \in Settings : s.pair = p /\ s.settings = e /\ s.start # Null =>
              Store(a, s, g, Of(p), Waiting(p)) /\ KeptDocs(s, g, Of(p), indexed[e]),
           \A t \in Alive : t.attempt = a => SentBy(t, g),
           s.status = "SUCCESS" =>
              \/ row[a].status = "SUCCESS"
              \/ \A e \in Settings : s.settings = e => Complete(s, indexed[e])
    PROVE  KeepInv'
<1>1. Succession' /\ Ordered' /\ Phases'
  BY SuccessionAfter, OrderedAfter, PhasesAfter DEF KeepInv
<1>2. Starts'
  BY LastKept, StartsAfter DEF KeepInv
<1>3. /\ \A p \in CCPairs : Of(p)' = Of(p) /\ Waiting(p)' = Waiting(p) /\ Apart(p)
      /\ Grows /\ row[a].pair \in CCPairs
  BY SameStore, TargetTyped
<1>4. CurrentKept'
  BY <1>3, CurrentAfter DEF KeepInv
<1>5. Owned' /\ Distinct'
  BY OwnedAfter DEF KeepInv, Distinct
<1>6. Sends' /\ OneTask'
  BY SameTasks, SendsAfter DEF KeepInv
<1>7. Holding'
  BY HoldingAfter DEF KeepInv
<1>8. Successes'
  BY <1>3, SuccessesAfter DEF KeepInv
<1> QED
  BY <1>1, <1>2, <1>4, <1>5, <1>6, <1>7, <1>8 DEF KeepInv

\* The monitor goes on with the attempt it looks at, or looks at nothing.
MonitorGoesOn ==
    monitor'.pc # "idle" =>
        /\ monitor.pc # "idle" /\ monitor'.attempt = monitor.attempt
        /\ monitor'.total = monitor.total /\ monitor'.completed = monitor.completed
        /\ monitor'.pc \in {"finish", "cleanup"} =>
              monitor.total # Null /\ monitor.completed >= monitor.total

LEMMA MonitorStays ==
    ASSUME Notes, monitor' = monitor \/ monitor'.pc = "idle"
    PROVE  MonitorGoesOn
BY DEF Notes, NoteHolds, MonitorGoesOn

\* What the monitor has noted survives a step that takes nothing back.
LEMMA NotesAfter ==
    ASSUME TypeInv, Life, Notes, NEW a \in Created, NEW s, NEW g, RowMoves(a, s, g), s \in RowType,
           row[a].total # Null => s.total = row[a].total /\ row[a].completed <= s.completed,
           MonitorGoesOn
    PROVE  Notes'
<1> SUFFICES ASSUME monitor.pc # "idle"
             PROVE  monitor.total # Null =>
                       /\ row'[monitor.attempt].total = monitor.total
                       /\ monitor.completed <= row'[monitor.attempt].completed
  BY DEF Notes, NoteHolds, MonitorGoesOn
<1>1. monitor.attempt \in Created /\ monitor \in MonitorType /\ row[a] \in RowType
  BY AllFit, AttemptNumbers DEF Life, NotesAreSound, Created, TypeInv, NotesTyped, Fits
<1>2. NoteHolds(monitor, row[monitor.attempt])
  BY DEF Notes
<1>3. CASE monitor.attempt # a
  <2>1. row'[monitor.attempt] = row[monitor.attempt]
    BY <1>1, <1>3, RowsAfter, AttemptNumbers
  <2> QED
    BY <1>2, <2>1 DEF NoteHolds
<1>4. CASE monitor.attempt = a
  <2>1. row'[a] = s
    BY RowsAfter
  <2>2. monitor.total # Null => s.total = monitor.total /\ monitor.completed <= s.completed
    BY <1>1, <1>2, <1>4 DEF NoteHolds, RowType, MonitorType
  <2> QED
    BY <1>2, <1>4, <2>1, <2>2 DEF NoteHolds
<1> QED
  BY <1>3, <1>4

\* A row that agrees with another in all that the invariant asks of it.
Agrees(r, s) ==
    /\ s.pair = r.pair /\ s.settings = r.settings /\ s.reindex = r.reindex
    /\ s.start = r.start /\ s.upto = r.upto /\ s.checkpoint = r.checkpoint
    /\ s.total = r.total /\ s.completed = r.completed /\ s.status # "none"

LEMMA AgreeingRow ==
    ASSUME NEW a, NEW r, NEW s, NEW f, Agrees(r, s)
    PROVE  /\ r.status # "none" /\ Phase(a, r, f) => Phase(a, s, f)
           /\ \A own, waiting : Store(a, r, f, own, waiting) => Store(a, s, f, own, waiting)
           /\ \A own, done : KeptDocs(r, f, own, done) => KeptDocs(s, f, own, done)
<1>1. r.status # "none" /\ Phase(a, r, f) => Phase(a, s, f)
  BY DEF Agrees, Phase, Unopened
<1>2. ASSUME NEW own, NEW waiting, Store(a, r, f, own, waiting)
      PROVE  Store(a, s, f, own, waiting)
  BY <1>2 DEF Agrees, Store, NextNumber
<1>3. ASSUME NEW own, NEW done, KeptDocs(r, f, own, done)
      PROVE  KeptDocs(s, f, own, done)
  BY <1>3 DEF Agrees, KeptDocs, Behind, DocOf
<1> QED
  BY <1>1, <1>2, <1>3

LEMMA Moves ==
    ASSUME NEW a \in Created, NEW s, NEW g, fetcher' = [fetcher EXCEPT ![a] = g],
           \/ Write(a, s)
           \/ row' = [row EXCEPT ![a] = s] /\ (Touch(a) \/ newer' = newer) /\ s.status = row[a].status,
           s.pair = row[a].pair, s.settings = row[a].settings, s.status # "none",
           row[a].start # Null => s.start = row[a].start /\ s.upto = row[a].upto
    PROVE  RowMoves(a, s, g)
BY DEF Write, RowMoves

LEMMA TurnsNowhere ==
    ASSUME worker' = worker, MonitorGoesOn
    PROVE  TurnsTo
BY DEF TurnsTo, Busy, MonitorGoesOn

\* A step that gives the last attempt an agreeing row and leaves its process alone.
LEMMA AgreeingStep ==
    ASSUME TypeInv, KeepInv, NEW a \in Created, LastOf(a), NEW s, Agrees(row[a], s),
           s.status = "SUCCESS" => row[a].status = "SUCCESS",
           RowMoves(a, s, fetcher[a]), TurnsTo, Notes', UNCHANGED <<files, queue, worker, indexed>>
    PROVE  KeepInv'
<1>1. /\ Phase(a, row[a], fetcher[a]) /\ row[a].status # "none"
      /\ \A t \in Alive : t.attempt = a => SentBy(t, fetcher[a])
  BY LastKept DEF Created
<1>2. Phase(a, s, fetcher[a])
  BY <1>1, AgreeingRow
<1>3. ASSUME NEW p \in CCPairs, NEW e \in Settings, s.pair = p, s.settings = e, s.start # Null
      PROVE  Store(a, s, fetcher[a], Of(p), Waiting(p)) /\ KeptDocs(s, fetcher[a], Of(p), indexed[e])
  BY <1>3, LastKept, AgreeingRow DEF Agrees
<1> QED
  BY <1>1, <1>2, <1>3, RowStep DEF Agrees

\* A status is written, or the time of a row.
LEMMA StatusAgrees ==
    ASSUME NEW r \in RowType, r.status # "none", NEW v, v # "none", NEW n
    PROVE  /\ Agrees(r, r)
           /\ Agrees(r, [r EXCEPT !.status = v]) /\ [r EXCEPT !.status = v].status = v
           /\ Agrees(r, [r EXCEPT !.tracked = n]) /\ [r EXCEPT !.tracked = n].status = r.status
BY DEF Agrees, RowType

\* The monitor looks at something, or at nothing.
LEMMA AgreeingWrite ==
    ASSUME Life, TypeInv, KeepInv, NEW a \in Created, LastOf(a), NEW s \in RowType, Agrees(row[a], s),
           s.status = "SUCCESS" => row[a].status = "SUCCESS", fetcher' = fetcher,
           \/ Write(a, s)
           \/ row' = [row EXCEPT ![a] = s] /\ (Touch(a) \/ newer' = newer) /\ s.status = row[a].status,
           MonitorGoesOn, UNCHANGED <<files, queue, worker, indexed>>
    PROVE  KeepInv'
<1>1. fetcher' = [fetcher EXCEPT ![a] = fetcher[a]]
  BY DEF TypeInv, RowsTyped
<1>2. RowMoves(a, s, fetcher[a])
  BY <1>1, Moves DEF Agrees
<1>3. row[a] \in RowType
  BY AllFit, AttemptNumbers DEF Fits
<1>4. Notes'
  BY <1>2, <1>3, NotesAfter DEF KeepInv, Agrees, RowType
<1> QED
  BY <1>2, <1>4, TurnsNowhere, AgreeingStep

LEMMA CreatedRow ==
    ASSUME TypeInv, NEW a \in Attempts, row[a].status # "none"
    PROVE  /\ a \in Created /\ row[a] \in RowType /\ row = [row EXCEPT ![a] = row[a]]
           /\ fetcher = [fetcher EXCEPT ![a] = fetcher[a]] /\ Fits(row[a], fetcher[a])
           /\ fetcher[a] \in FetcherType /\ IsFiniteSet(fetcher[a].todo)
           /\ row[a].pair \in CCPairs /\ row[a].settings \in Settings
BY AllFit DEF TypeInv, RowsTyped, Created, Fits

LEMMA MarkAgrees ==
    ASSUME Life, TypeInv, KeepInv, NEW a \in Created, LastOf(a), NEW v \in {"FAILED", "CANCELED"},
           Mark(a, v), fetcher' = fetcher, MonitorGoesOn,
           UNCHANGED <<files, queue, worker, indexed>>
    PROVE  KeepInv'
<1> DEFINE s == [row[a] EXCEPT !.status = v]
<1>1. row[a] \in RowType /\ row[a].status # "none"
  BY CreatedRow DEF Created
<1>2. Agrees(row[a], s) /\ s.status # "SUCCESS" /\ Write(a, s)
  BY <1>1, StatusAgrees DEF Mark
<1>3. s \in RowType
  BY <1>1, Statuses DEF RowType
<1> HIDE DEF s
<1> QED
  BY <1>2, <1>3, AgreeingWrite

LEMMA HeartbeatTimeoutTakes ==
    ASSUME Life, TypeInv, KeepInv, NEW a \in Attempts, HeartbeatTimeout(a)
    PROVE  KeepInv'
<1>1. a \in Created /\ row[a].status \in Active
  BY DEF HeartbeatTimeout, Created, Active
<1> QED
  BY <1>1, NotOver, MarkAgrees, MonitorStays DEF HeartbeatTimeout, KeepInv

LEMMA HeartbeatTakes ==
    ASSUME Life, TypeInv, KeepInv, NEW a \in Attempts, Heartbeat(a)
    PROVE  KeepInv'
<1>1. row[a].status # "none" /\ Beating(a)
  BY DEF Heartbeat, Terminal, Successful
<1>2. LastOf(a)
  BY <1>1, CreatedRow, NotOver DEF Beating, FetchSteps, Busy, KeepInv
<1>3. Agrees(row[a], row[a])
  BY <1>1, CreatedRow, StatusAgrees
<1> QED
  BY <1>1, <1>2, <1>3, CreatedRow, AgreeingWrite, MonitorStays DEF Heartbeat, KeepInv

LEMMA WatchTakes ==
    ASSUME Life, TypeInv, KeepInv, NEW a \in Attempts, Watch(a)
    PROVE  KeepInv'
<1>1. row[a].status # "none" /\ UNCHANGED <<fetcher, files, queue, worker, indexed>>
  BY Statuses DEF Watch
<1>2. a \in Created /\ LastOf(a) /\ row[a] \in RowType
  BY <1>1, CreatedRow, NotOver DEF KeepInv, Watch
<1>3. CASE row[a].cancel
  BY <1>1, <1>2, <1>3, MarkAgrees, MonitorStays DEF Watch, KeepInv
<1>4. CASE ~ row[a].cancel
  <2>1. /\ monitor' = [pc |-> "check", attempt |-> a, total |-> row[a].total,
                       completed |-> row[a].completed, errors |-> row[a].errors]
        /\ row' = row /\ newer' = newer
    BY <1>4 DEF Watch
  <2>2. Notes'
    BY <1>2, <2>1 DEF Notes, NoteHolds, RowType
  <2>3. TurnsTo
    BY <1>1, <1>2, <2>1 DEF TurnsTo, Busy
  <2>4. RowMoves(a, row[a], fetcher[a])
    BY <1>1, <1>2, <2>1, CreatedRow, Moves
  <2>5. Agrees(row[a], row[a])
    BY <1>1, <1>2, StatusAgrees
  <2> QED
    BY <1>1, <1>2, <2>2, <2>3, <2>4, <2>5, AgreeingStep
<1> QED
  BY <1>3, <1>4

LEMMA Watched ==
    ASSUME Life, TypeInv, KeepInv, monitor.pc # "idle"
    PROVE  /\ monitor.attempt \in Created /\ LastOf(monitor.attempt) /\ monitor \in MonitorType
           /\ NoteHolds(monitor, row[monitor.attempt])
<1>1. monitor.attempt \in Created
  BY DEF Life, NotesAreSound, Created
<1> QED
  BY <1>1, NotOver DEF KeepInv, Notes, TypeInv, NotesTyped

LEMMA TimePassesTakes ==
    ASSUME Life, TypeInv, KeepInv, NEW a \in Attempts, TimePasses(a)
    PROVE  KeepInv'
<1>1. row[a].status # "none" /\ row[a].status \in Active
  BY Statuses DEF TimePasses
<1>2. Agrees(row[a], row[a])
  BY <1>1, CreatedRow, StatusAgrees
<1> QED
  BY <1>1, <1>2, CreatedRow, NotOver, AgreeingWrite, MonitorStays DEF TimePasses, KeepInv

LEMMA CheckProgressTakes ==
    ASSUME Life, TypeInv, KeepInv, CheckProgress
    PROVE  KeepInv'
<1> DEFINE a == monitor.attempt
           s == [row[a] EXCEPT !.tracked = monitor.completed]
<1>0. monitor.pc # "idle"
  BY DEF CheckProgress
<1>1. /\ a \in Created /\ LastOf(a) /\ monitor \in MonitorType /\ monitor.completed \in Nat
      /\ row[a] \in RowType /\ row[a].status # "none" /\ row = [row EXCEPT ![a] = row[a]]
  BY <1>0, Watched, CreatedRow, AttemptNumbers DEF MonitorType, Created
<1>2. UNCHANGED <<fetcher, files, queue, worker, indexed>>
  BY DEF CheckProgress
<1>3. MonitorGoesOn
  <2>1. (WatchedIsComplete /\ monitor' = [monitor EXCEPT !.pc = "finish"]) \/ monitor' = NoWatch
    BY DEF CheckProgress
  <2> QED
    BY <1>0, <1>1, <2>1, NoWatchTyped DEF MonitorGoesOn, WatchedIsComplete, MonitorType
<1>4. \/ Write(a, s)
      \/ Mark(a, "FAILED")
      \/ row' = row /\ (newer' = newer \/ Touch(a))
  BY DEF CheckProgress
<1>5. s \in RowType /\ s.status = row[a].status
  BY <1>1 DEF RowType
<1>6. Agrees(row[a], s) /\ Agrees(row[a], row[a])
  BY <1>1, StatusAgrees
<1> HIDE DEF s, a
<1>7. CASE Write(a, s)
  BY <1>1, <1>2, <1>3, <1>5, <1>6, <1>7, AgreeingWrite
<1>8. CASE Mark(a, "FAILED")
  BY <1>1, <1>2, <1>3, <1>8, MarkAgrees
<1>9. CASE row' = row /\ (newer' = newer \/ Touch(a))
  BY <1>1, <1>2, <1>3, <1>6, <1>9, AgreeingWrite
<1> QED
  BY <1>4, <1>7, <1>8, <1>9

\* The files of one pair are those that AllBatches finds.
LEMMA PairsFiles ==
    ASSUME Recoverable, StoreTyped, NEW p \in CCPairs
    PROVE  AllBatches(files, p) = Of(p)
<1>1. NameBegins(p, p)
  <2>1. p \in Nat /\ 0 \in Digits /\ 10 ^ 0 = 1
    BY PipelineAssumption DEF PipelineAssumption, Digits
  <2>2. p \div (10 ^ 0) = p
    BY <2>1
  <2> QED
    BY <2>1, <2>2 DEF NameBegins
<1>2. \A g \in files : g.pair \in CCPairs
  BY DEF StoreTyped, FileType
<1> QED
  BY <1>1, <1>2 DEF AllBatches, Of, Recoverable

LEMMA StoreFinite ==
    ASSUME StoreTyped, NEW p
    PROVE  IsFiniteSet(Of(p)) /\ IsFiniteSet(Waiting(p)) /\ Waiting(p) \subseteq Of(p) /\ Of(p) \subseteq files
           /\ Cardinality(Waiting(p)) \in Nat
BY FS_Subset, FS_CardinalityType DEF StoreTyped, Waiting, Of

\* When as many batches are counted as there are in total, all are in the index.
LEMMA NothingWaits ==
    ASSUME SafetyInv, TypeInv, KeepInv, NEW a \in Created, LastOf(a), row[a].total # Null,
           row[a].completed >= row[a].total
    PROVE  Complete(row[a], indexed[row[a].settings]) /\ Waiting(row[a].pair) = {}
<1> DEFINE p == row[a].pair
           e == row[a].settings
           r == row[a]
           f == fetcher[a]
<1>1. p \in CCPairs /\ e \in Settings /\ r \in RowType /\ a \in Attempts
  BY AttemptNumbers, CreatedRow DEF Created
<1>2. f.pc = "gone"
  BY <1>1 DEF SafetyInv, Life, RowIsSound
<1>3. r.checkpoint = NumBatches /\ r.start # Null
  BY <1>1, LastKept DEF Phase, Unopened
<1>4. Store(a, r, f, Of(p), Waiting(p)) /\ KeptDocs(r, f, Of(p), indexed[e])
  BY <1>1, <1>3, LastKept
<1>5. Waiting(p) = {}
  <2>1. IsFiniteSet(Waiting(p)) /\ Cardinality(Waiting(p)) \in Nat
    BY StoreFinite DEF TypeInv
  <2>2. r.total = r.completed + Cardinality(Waiting(p))
    BY <1>4 DEF Store, NextNumber
  <2>3. Cardinality(Waiting(p)) = 0
    BY <1>1, <2>1, <2>2 DEF RowType
  <2> QED
    BY <2>1, <2>3, FS_EmptySet
<1>6. ASSUME NEW g \in Of(p)
      PROVE  g.doc \in indexed[e]
  <2>1. g.attempt = a
    BY <1>2, <1>4 DEF Store
  <2>2. PICK w \in Workers : worker[w].pc = "delete" /\ worker[w].task.attempt = g.attempt
                             /\ worker[w].task.num = g.num
    BY <1>5 DEF Waiting, CountedFile
  <2>3. HeldFile(worker[w], Of(p), indexed[e])
    BY <1>1, <2>1, <2>2 DEF KeepInv, Holding, Busy
  <2> QED
    BY <2>2, <2>3 DEF HeldFile, Names
<1>7. Behind(r, f) = NumBatches
  BY <1>2, <1>3 DEF Behind, Extracting
<1> QED
  BY <1>4, <1>5, <1>6, <1>7 DEF KeptDocs, Complete

LEMMA NotedComplete ==
    ASSUME SafetyInv, TypeInv, KeepInv, monitor.pc \in {"finish", "cleanup"}
    PROVE  /\ Complete(row[monitor.attempt], indexed[row[monitor.attempt].settings])
           /\ Waiting(row[monitor.attempt].pair) = {}
           /\ monitor.attempt \in Created /\ LastOf(monitor.attempt)
           /\ row[monitor.attempt].total # Null /\ monitor.total # Null
           /\ monitor.completed >= monitor.total
<1>1. /\ monitor.attempt \in Created /\ LastOf(monitor.attempt) /\ monitor \in MonitorType
      /\ NoteHolds(monitor, row[monitor.attempt])
  BY Watched DEF SafetyInv
<1>2. row[monitor.attempt] \in RowType
  BY <1>1, CreatedRow, AttemptNumbers DEF Created
<1>3. monitor.total # Null /\ row[monitor.attempt].total = monitor.total
      /\ row[monitor.attempt].completed >= row[monitor.attempt].total
  BY <1>1, <1>2 DEF NoteHolds, MonitorType, RowType
<1> QED
  BY <1>1, <1>3, NothingWaits DEF NoteHolds

LEMMA FinishTakes ==
    ASSUME SafetyInv, TypeInv, KeepInv, Finish
    PROVE  KeepInv'
<1> DEFINE a == monitor.attempt
           v == IF monitor.errors THEN "COMPLETED_WITH_ERRORS" ELSE "SUCCESS"
           s == [row[a] EXCEPT !.status = v]
<1>0. monitor.pc = "finish" /\ monitor' = [monitor EXCEPT !.pc = "cleanup"]
      /\ UNCHANGED <<fetcher, files, queue, worker, indexed>> /\ Mark(a, v)
  BY DEF Finish
<1>1. /\ a \in Created /\ LastOf(a) /\ monitor \in MonitorType
      /\ monitor.total # Null /\ monitor.completed >= monitor.total
      /\ row[a].total # Null /\ Complete(row[a], indexed[row[a].settings])
  BY <1>0, NotedComplete DEF TypeInv, NotesTyped
<1>2. row[a] \in RowType /\ row[a].status # "none" /\ fetcher = [fetcher EXCEPT ![a] = fetcher[a]]
  BY <1>1, CreatedRow, AttemptNumbers DEF Created
<1>3. v # "none" /\ v \in Terminal
  BY DEF Terminal, Successful
<1> HIDE DEF v
<1>4. Agrees(row[a], s) /\ s.status = v
  BY <1>2, <1>3, StatusAgrees
<1>5. s \in RowType
  BY <1>2, <1>3 DEF RowType
<1>6. MonitorGoesOn
  BY <1>0, <1>1 DEF MonitorGoesOn, MonitorType
<1>7. Write(a, s)
  BY <1>0 DEF Mark
<1> HIDE DEF s, a
<1>8. RowMoves(a, s, fetcher[a]) /\ TurnsTo
  BY <1>0, <1>1, <1>2, <1>4, <1>6, <1>7, Moves, TurnsNowhere DEF Agrees
<1>9. Notes'
  BY <1>1, <1>2, <1>4, <1>5, <1>6, <1>8, NotesAfter DEF Agrees, KeepInv, SafetyInv, RowType
<1>10. Complete(s, indexed[row[a].settings]) /\ s.settings = row[a].settings
  BY <1>1, <1>4 DEF Complete, Agrees, DocOf
<1>11. /\ Phase(a, s, fetcher[a])
       /\ \A t \in Alive : t.attempt = a => SentBy(t, fetcher[a])
  BY <1>1, <1>2, <1>4, LastKept, AgreeingRow
<1>12. ASSUME NEW p \in CCPairs, NEW e \in Settings, s.pair = p, s.settings = e, s.start # Null
       PROVE  Store(a, s, fetcher[a], Of(p), Waiting(p)) /\ KeptDocs(s, fetcher[a], Of(p), indexed[e])
  BY <1>1, <1>4, <1>12, LastKept, AgreeingRow DEF Agrees
<1> QED
  BY <1>0, <1>1, <1>4, <1>8, <1>9, <1>10, <1>11, <1>12, RowStep DEF Agrees

----------------------------------------------------------------------------
(* Steps of a process that touch no file *)

LEMMA AtFetcher ==
    ASSUME SafetyInv, TypeInv, KeepInv, NEW a \in Attempts, fetcher[a].pc \notin {"none", "gone"}
    PROVE  /\ a \in Created /\ LastOf(a) /\ row[a].status \notin Successful /\ row[a].total = Null
           /\ row[a] \in RowType /\ row[a].status # "none" /\ row = [row EXCEPT ![a] = row[a]]
           /\ fetcher[a] \in FetcherType /\ IsFiniteSet(fetcher[a].todo)
           /\ row[a].pair \in CCPairs /\ row[a].settings \in Settings
           /\ Phase(a, row[a], fetcher[a]) /\ Fits(row[a], fetcher[a])
<1>1. row[a].status # "none" /\ row[a].status \notin Successful /\ row[a].total = Null
  BY AtWork DEF SafetyInv
<1>2. a \in Created /\ LastOf(a)
  BY <1>1, CreatedRow, NotOver DEF KeepInv
<1> QED
  BY <1>1, <1>2, CreatedRow, LastKept

\* The process that ends leaves a row from which a later attempt can go on.
MayEnd(f) == f.pc \in {"queued", "spawned", "run", "send", "dead"} \/ (f.pc = "total" /\ Checkpointed)

LEMMA PhaseAtEnd ==
    ASSUME NEW a, NEW r \in RowType, NEW f \in FetcherType, MayEnd(f), Phase(a, r, f),
           r.status # "none", NEW s, Agrees(r, s), NEW g \in {Gone, Dead}
    PROVE  Phase(a, s, g)
<1>1. g.pc \in {"gone", "dead"}
  BY NothingToDo
<1>2. ~ Checkpointed => (r.checkpoint = NumBatches => r.total # Null)
  BY DEF Phase, MayEnd, TakingOver
<1>3. f.pc \notin TakingOver \cup {"save", "window"}
  BY DEF MayEnd, TakingOver
<1>4. r.start = Null => Unopened(s)
  BY DEF Phase, Unopened, Agrees
<1>5. s.start # Null => s.upto <= a /\ s.checkpoint # Null
  BY <1>3 DEF Phase, Agrees
<1> QED
  BY <1>1, <1>2, <1>3, <1>4, <1>5 DEF Phase, TakingOver, Agrees

LEMMA StoreAtEnd ==
    ASSUME NEW a, NEW r \in RowType, NEW f \in FetcherType, MayEnd(f), Phase(a, r, f),
           NEW s, Agrees(r, s), NEW g \in {Gone, Dead}, r.start # Null,
           NEW own, NEW waiting, NEW done, Store(a, r, f, own, waiting), KeptDocs(r, f, own, done)
    PROVE  Store(a, s, g, own, waiting) /\ KeptDocs(s, g, own, done)
<1>1. g.pc \in {"gone", "dead"}
  BY NothingToDo
<1>2. f.pc \notin {"list", "rename", "reissue", "recount", "save"}
  BY DEF MayEnd
<1>3. Store(a, s, g, own, waiting)
  BY <1>1, <1>2 DEF Store, TakingOver, Agrees, NextNumber
<1>4. Behind(s, g) = r.checkpoint /\ r.checkpoint \in Positions
  BY <1>1, <1>2 DEF Behind, Extracting, Agrees, Phase, TakingOver, RowType
<1>5. r.checkpoint <= Behind(r, f) /\ r.checkpoint \in Nat /\ Behind(r, f) \in Nat
  <2>1. f.at \in Nat /\ f.checkpoint \in Nat /\ NumBatches \in Nat /\ r.checkpoint \in Nat
    BY <1>4, AttemptNumbers DEF FetcherType
  <2>2. CASE f.pc \in {"run", "send"}
    <3>1. r.checkpoint = f.checkpoint /\ f.checkpoint <= f.at
      BY <2>2 DEF Phase
    <3> QED
      BY <2>1, <2>2, <3>1 DEF Behind, Extracting
  <2>3. CASE f.pc = "total"
    <3>1. f.at = NumBatches /\ r.checkpoint = NumBatches
      BY <2>3 DEF Phase
    <3> QED
      BY <2>1, <2>3, <3>1 DEF Behind, Extracting
  <2>4. CASE f.pc \in {"queued", "spawned", "dead"}
    BY <2>1, <2>4 DEF Behind, Extracting
  <2> QED
    BY <2>2, <2>3, <2>4 DEF MayEnd
<1>6. \A i \in 1 .. r.checkpoint : i \in 1 .. Behind(r, f)
  BY <1>5
<1> QED
  BY <1>3, <1>4, <1>6 DEF KeptDocs, DocOf, Agrees

LEMMA EndTakes ==
    ASSUME SafetyInv, TypeInv, KeepInv, NEW a \in Attempts, MayEnd(fetcher[a]),
           NEW g \in {Gone, Dead}, SetFetcher(a, g),
           NEW s \in RowType, Agrees(row[a], s), s.status = "SUCCESS" => row[a].status = "SUCCESS",
           Write(a, s) \/ (s = row[a] /\ UNCHANGED <<row, newer>>),
           UNCHANGED <<files, queue, worker, indexed, monitor>>
    PROVE  KeepInv'
<1>1. /\ a \in Created /\ LastOf(a) /\ row[a].total = Null /\ row[a] \in RowType
      /\ row[a].status # "none" /\ row = [row EXCEPT ![a] = row[a]]
      /\ fetcher[a] \in FetcherType /\ Phase(a, row[a], fetcher[a])
  BY AtFetcher DEF MayEnd
<1>2. RowMoves(a, s, g) /\ MonitorGoesOn /\ TurnsTo
  BY <1>1, Moves, MonitorStays, TurnsNowhere DEF Agrees, SetFetcher, KeepInv
<1>3. Notes'
  BY <1>1, <1>2, NotesAfter DEF KeepInv, SafetyInv
<1>4. Phase(a, s, g)
  BY <1>1, PhaseAtEnd
<1>5. ASSUME NEW p \in CCPairs, NEW e \in Settings, s.pair = p, s.settings = e, s.start # Null
      PROVE  Store(a, s, g, Of(p), Waiting(p)) /\ KeptDocs(s, g, Of(p), indexed[e])
  <2>1. /\ Store(a, row[a], fetcher[a], Of(p), Waiting(p))
        /\ KeptDocs(row[a], fetcher[a], Of(p), indexed[e]) /\ row[a].start # Null
    BY <1>1, <1>5, LastKept DEF Agrees
  <2> QED
    BY <1>1, <2>1, StoreAtEnd
<1>6. \A t : SentBy(t, g)
  BY NothingToDo DEF SentBy
<1> QED
  BY <1>1, <1>2, <1>3, <1>4, <1>5, <1>6, RowStep DEF Agrees

LEMMA MarkedRow ==
    ASSUME NEW r \in RowType, r.status # "none", NEW v \in {"FAILED", "CANCELED"}
    PROVE  LET s == [r EXCEPT !.status = v]
           IN  s \in RowType /\ Agrees(r, s) /\ s.status # "SUCCESS"
<1>1. [r EXCEPT !.status = v] \in RowType
  BY Statuses DEF RowType
<1> QED
  BY <1>1, StatusAgrees

\* A process that ends and marks its attempt, or does not.
LEMMA EndMarkTakes ==
    ASSUME SafetyInv, TypeInv, KeepInv, NEW a \in Attempts, MayEnd(fetcher[a]),
           NEW g \in {Gone, Dead}, SetFetcher(a, g),
           UNCHANGED <<row, newer>> \/ Mark(a, "FAILED") \/ Mark(a, "CANCELED"),
           UNCHANGED <<files, queue, worker, indexed, monitor>>
    PROVE  KeepInv'
<1>1. row[a] \in RowType /\ row[a].status # "none"
  BY AtFetcher DEF MayEnd
<1>2. ASSUME NEW v \in {"FAILED", "CANCELED"}, Mark(a, v)
      PROVE  KeepInv'
  <2> DEFINE s == [row[a] EXCEPT !.status = v]
  <2>1. s \in RowType /\ Agrees(row[a], s) /\ s.status # "SUCCESS"
    BY <1>1, MarkedRow
  <2>2. Write(a, s)
    BY <1>2 DEF Mark
  <2> HIDE DEF s
  <2> QED
    BY <2>1, <2>2, EndTakes
<1>3. CASE UNCHANGED <<row, newer>>
  <2>1. Agrees(row[a], row[a])
    BY <1>1 DEF Agrees
  <2> QED
    BY <1>1, <1>3, <2>1, EndTakes
<1> QED
  BY <1>2, <1>3

\* Stop signals, exceptions, kills and what the watchdog makes of them.
LEMMA EndingTakes ==
    ASSUME Recoverable, SafetyInv, TypeInv, KeepInv, NEW a \in Attempts,
           \/ StopSignal(a) \/ NotRunning(a) \/ ConnectorRaises(a) \/ ValidationError(a)
           \/ Watchdog(a) \/ KillFetcher(a)
    PROVE  KeepInv'
<1>1. /\ UNCHANGED <<files, queue, worker, monitor, indexed>>
      /\ \E g \in {Gone, Dead} : SetFetcher(a, g)
      /\ UNCHANGED <<row, newer>> \/ Mark(a, "FAILED") \/ Mark(a, "CANCELED")
  BY DEF StopSignal, NotRunning, ConnectorRaises, ValidationError, Watchdog, KillFetcher, Raise
<1>2. MayEnd(fetcher[a])
  <2>1. CASE KillFetcher(a)
    <3>1. fetcher[a].pc \in FaultPoints /\ fetcher[a].pc \notin {"got", "count"}
      BY <2>1 DEF KillFetcher, FetchSteps
    <3>2. FaultPoints \subseteq {"queued", "spawned", "run", "send", "total", "got", "count"}
          /\ (Checkpointed \/ "total" \notin FaultPoints)
      BY DEF Recoverable
    <3> QED
      BY <3>1, <3>2 DEF MayEnd
  <2>2. CASE ~ KillFetcher(a)
    BY <2>2 DEF StopSignal, NotRunning, ConnectorRaises, ValidationError, Watchdog, At, MayEnd
  <2> QED
    BY <2>1, <2>2
<1> QED
  BY <1>1, <1>2, EndMarkTakes

\* A step of a process that goes on, with the row it writes.
LEMMA GoesOn ==
    ASSUME SafetyInv, TypeInv, KeepInv, NEW a \in Attempts, fetcher[a].pc \notin {"none", "gone"},
           NEW g, SetFetcher(a, g), NEW s \in RowType, s.status # "none", s.status # "SUCCESS",
           s.pair = row[a].pair, s.settings = row[a].settings,
           s.start = row[a].start, s.upto = row[a].upto,
           Write(a, s) \/ (s = row[a] /\ UNCHANGED <<row, newer>>),
           UNCHANGED <<files, queue, worker, indexed, monitor>>,
           Phase(a, s, g),
           \A p \in CCPairs, e \in Settings :
              /\ s.pair = p /\ s.settings = e /\ s.start # Null
              /\ Store(a, row[a], fetcher[a], Of(p), Waiting(p))
              /\ KeptDocs(row[a], fetcher[a], Of(p), indexed[e])
              => Store(a, s, g, Of(p), Waiting(p)) /\ KeptDocs(s, g, Of(p), indexed[e]),
           \A t \in Alive : row[a].start # Null /\ SentBy(t, fetcher[a]) => SentBy(t, g)
    PROVE  KeepInv'
<1>1. /\ a \in Created /\ LastOf(a) /\ row[a].total = Null /\ row = [row EXCEPT ![a] = row[a]]
      /\ row[a].status # "none"
  BY AtFetcher
<1>2. RowMoves(a, s, g) /\ MonitorGoesOn /\ TurnsTo
  BY <1>1, Moves, MonitorStays, TurnsNowhere DEF SetFetcher, KeepInv
<1>3. Notes'
  BY <1>1, <1>2, NotesAfter DEF KeepInv, SafetyInv
<1>4. \A p \in CCPairs, e \in Settings : s.pair = p /\ s.settings = e /\ s.start # Null =>
         Store(a, s, g, Of(p), Waiting(p)) /\ KeptDocs(s, g, Of(p), indexed[e])
  BY <1>1, LastKept
<1>5. \A t \in Alive : t.attempt = a => SentBy(t, g)
  BY <1>1, LastKept
<1> QED
  BY <1>1, <1>2, <1>3, <1>4, <1>5, RowStep

LEMMA SpawnTakes ==
    ASSUME SafetyInv, TypeInv, KeepInv, NEW a \in Attempts, Spawn(a)
    PROVE  KeepInv'
<1> DEFINE g == [fetcher[a] EXCEPT !.pc = "spawned"]
<1>1. /\ fetcher[a].pc = "queued" /\ SetFetcher(a, g)
      /\ UNCHANGED <<row, newer, files, queue, worker, indexed, monitor>>
  BY DEF Spawn, At
<1>2. /\ Phase(a, row[a], fetcher[a]) /\ fetcher[a] \in FetcherType /\ row[a] \in RowType
      /\ row[a].status # "none" /\ row[a].status # "SUCCESS"
  BY <1>1, AtFetcher DEF Successful
<1>3. g.pc = "spawned"
  BY <1>2 DEF FetcherType
<1> HIDE DEF g
<1>4. row[a].start = Null
  BY <1>1, <1>2 DEF Phase
<1>5. Phase(a, row[a], g)
  BY <1>1, <1>2, <1>3 DEF Phase, TakingOver
<1> QED
  BY <1>1, <1>2, <1>4, <1>5, GoesOn

LEMMA StartTakes ==
    ASSUME SafetyInv, TypeInv, KeepInv, NEW a \in Attempts, Start(a)
    PROVE  KeepInv'
<1> DEFINE g == [fetcher[a] EXCEPT !.pc = "window"]
           s == [row[a] EXCEPT !.status = "IN_PROGRESS"]
<1>1. /\ fetcher[a].pc = "spawned"
      /\ UNCHANGED <<files, queue, worker, indexed, monitor>>
      /\ \/ SetFetcher(a, Dead) /\ UNCHANGED <<row, newer>>
         \/ Write(a, s) /\ SetFetcher(a, g)
  BY DEF Start, At, Mark
<1>2. /\ Phase(a, row[a], fetcher[a]) /\ fetcher[a] \in FetcherType /\ row[a] \in RowType
      /\ row[a].status # "none"
  BY <1>1, AtFetcher
<1>3. CASE SetFetcher(a, Dead) /\ UNCHANGED <<row, newer>>
  BY <1>1, <1>3, EndMarkTakes DEF MayEnd
<1>4. CASE Write(a, s) /\ SetFetcher(a, g)
  <2>1. g.pc = "window"
    BY <1>2 DEF FetcherType
  <2>2. Agrees(row[a], s) /\ s.status = "IN_PROGRESS"
    BY <1>2, StatusAgrees
  <2>3. s \in RowType
    BY <1>2, Statuses DEF RowType
  <2> HIDE DEF g, s
  <2>4. s.start = Null
    BY <1>1, <1>2, <2>2 DEF Phase, Agrees
  <2>5. Phase(a, s, g)
    BY <1>1, <1>2, <2>1, <2>2, <2>4 DEF Phase, TakingOver, Agrees, Unopened
  <2> QED
    BY <1>1, <1>4, <2>2, <2>3, <2>4, <2>5, GoesOn DEF Agrees
<1> QED
  BY <1>1, <1>3, <1>4

LEMMA ListTakes ==
    ASSUME Recoverable, SafetyInv, TypeInv, KeepInv, NEW a \in Attempts, List(a)
    PROVE  KeepInv'
<1> DEFINE g == [fetcher[a] EXCEPT !.pc = "rename", !.todo = AllBatches(files, row[a].pair)]
<1>1. /\ fetcher[a].pc = "list" /\ SetFetcher(a, g)
      /\ UNCHANGED <<row, newer, files, queue, worker, indexed, monitor>>
  BY DEF List, At
<1>2. /\ Phase(a, row[a], fetcher[a]) /\ fetcher[a] \in FetcherType /\ row[a] \in RowType
      /\ row[a].status # "none" /\ row[a].status # "SUCCESS" /\ row[a].pair \in CCPairs
  BY <1>1, AtFetcher DEF Successful
<1>3. /\ g.pc = "rename" /\ g.todo = Of(row[a].pair) /\ g.at = fetcher[a].at
      /\ g.old = fetcher[a].old /\ g.checkpoint = fetcher[a].checkpoint
  BY <1>2, PairsFiles DEF FetcherType, TypeInv
<1> HIDE DEF g
<1>5. Phase(a, row[a], g)
  BY <1>1, <1>2, <1>3 DEF Phase, TakingOver
<1>6. ASSUME NEW p \in CCPairs, NEW e \in Settings, row[a].pair = p,
             Store(a, row[a], fetcher[a], Of(p), Waiting(p)),
             KeptDocs(row[a], fetcher[a], Of(p), indexed[e])
      PROVE  Store(a, row[a], g, Of(p), Waiting(p)) /\ KeptDocs(row[a], g, Of(p), indexed[e])
  <2>1. Store(a, row[a], g, Of(p), Waiting(p))
    BY <1>1, <1>3, <1>6 DEF Store, TakingOver
  <2>2. Behind(row[a], g) = Behind(row[a], fetcher[a])
    BY <1>1, <1>3 DEF Behind, Extracting
  <2> QED
    BY <1>6, <2>1, <2>2 DEF KeptDocs
<1>7. \A t : ~ SentBy(t, fetcher[a])
  BY <1>1 DEF SentBy
<1> QED
  BY <1>1, <1>2, <1>5, <1>6, <1>7, GoesOn

LEMMA ReturnTakes ==
    ASSUME SafetyInv, TypeInv, KeepInv, NEW a \in Attempts, Return(a)
    PROVE  KeepInv'
<1> DEFINE f == fetcher[a]
           g == [f EXCEPT !.pc = "save", !.checkpoint = f.at]
<1>1. /\ f.pc = "run" /\ SetFetcher(a, g) /\ (Checkpointed \/ f.at = NumBatches)
      /\ UNCHANGED <<row, newer, files, queue, worker, indexed, monitor>>
  BY DEF Return, At
<1>2. /\ Phase(a, row[a], f) /\ f \in FetcherType /\ row[a] \in RowType
      /\ row[a].status # "none" /\ row[a].status # "SUCCESS" /\ row[a].total = Null
  BY <1>1, AtFetcher DEF Successful
<1>3. g.pc = "save" /\ g.checkpoint = f.at /\ g.at = f.at /\ g.num = f.num
  BY <1>2 DEF FetcherType
<1> HIDE DEF g
<1>5. Phase(a, row[a], g)
  <2>1. row[a].start # Null /\ row[a].checkpoint = f.checkpoint /\ f.checkpoint <= f.at
    BY <1>1, <1>2 DEF Phase
  <2>2. ~ Checkpointed => row[a].checkpoint # NumBatches
    BY <1>1, <1>2 DEF Phase
  <2> QED
    BY <1>1, <1>2, <1>3, <2>1, <2>2 DEF Phase, TakingOver
<1>6. ASSUME NEW own, NEW waiting, NEW done, Store(a, row[a], f, own, waiting), KeptDocs(row[a], f, own, done)
      PROVE  Store(a, row[a], g, own, waiting) /\ KeptDocs(row[a], g, own, done)
  <2>1. Store(a, row[a], g, own, waiting)
    BY <1>1, <1>3, <1>6 DEF Store, TakingOver
  <2>2. Behind(row[a], g) = Behind(row[a], f)
    BY <1>1, <1>3 DEF Behind, Extracting
  <2> QED
    BY <1>6, <2>1, <2>2 DEF KeptDocs
<1>7. \A t : SentBy(t, f) => SentBy(t, g)
  BY <1>1, <1>3 DEF SentBy
<1> QED
  BY <1>1, <1>2, <1>5, <1>6, <1>7, GoesOn

LEMMA SaveCheckpointTakes ==
    ASSUME SafetyInv, TypeInv, KeepInv, NEW a \in Attempts, SaveCheckpoint(a)
    PROVE  KeepInv'
<1> DEFINE f == fetcher[a]
           g == [f EXCEPT !.pc = IF f.checkpoint < NumBatches THEN "run" ELSE "total"]
           s == [row[a] EXCEPT !.checkpoint = f.checkpoint]
<1>1. /\ f.pc = "save" /\ SetFetcher(a, g) /\ Write(a, s)
      /\ UNCHANGED <<files, queue, worker, indexed, monitor>>
  BY DEF SaveCheckpoint, At
<1>2. /\ Phase(a, row[a], f) /\ f \in FetcherType /\ row[a] \in RowType
      /\ row[a].status # "none" /\ row[a].status # "SUCCESS" /\ row[a].total = Null
      /\ Fits(row[a], f) /\ f.checkpoint \in Positions
  BY <1>1, AtFetcher DEF Successful, FetcherType
<1>3. /\ g.pc = IF f.checkpoint < NumBatches THEN "run" ELSE "total"
      /\ g.checkpoint = f.checkpoint /\ g.at = f.at /\ g.num = f.num
  BY <1>2 DEF FetcherType
<1>4. /\ s \in RowType /\ s.checkpoint = f.checkpoint /\ s.start = row[a].start /\ s.upto = row[a].upto
      /\ s.pair = row[a].pair /\ s.settings = row[a].settings /\ s.reindex = row[a].reindex
      /\ s.total = row[a].total /\ s.completed = row[a].completed /\ s.status = row[a].status
  BY <1>2 DEF RowType
<1> HIDE DEF g, s
<1>5. Phase(a, s, g)
  <2>1. /\ row[a].start # Null /\ row[a].upto <= a /\ ~ row[a].reindex /\ f.at = f.checkpoint
        /\ (~ Checkpointed => f.checkpoint \in {0, NumBatches})
    BY <1>1, <1>2 DEF Phase
  <2>2. f.checkpoint \in Nat /\ f.checkpoint # Null /\ NumBatches \in Nat /\ f.checkpoint <= NumBatches
    BY <1>2, AttemptNumbers DEF Positions
  <2>3. CASE f.checkpoint < NumBatches
    BY <1>2, <1>3, <1>4, <2>1, <2>2, <2>3 DEF Phase, TakingOver
  <2>4. CASE ~ (f.checkpoint < NumBatches)
    <3>1. f.checkpoint = NumBatches
      BY <2>2, <2>4
    <3> QED
      BY <1>2, <1>3, <1>4, <2>1, <2>2, <2>4, <3>1 DEF Phase, TakingOver
  <2> QED
    BY <2>3, <2>4
<1>6. ASSUME NEW own, NEW waiting, NEW done, Store(a, row[a], f, own, waiting), KeptDocs(row[a], f, own, done)
      PROVE  Store(a, s, g, own, waiting) /\ KeptDocs(s, g, own, done)
  <2>1. Store(a, s, g, own, waiting)
    BY <1>1, <1>2, <1>3, <1>4, <1>6 DEF Store, TakingOver, NextNumber
  <2>2. Behind(s, g) = Behind(row[a], f)
    BY <1>1, <1>3 DEF Behind, Extracting
  <2> QED
    BY <1>4, <1>6, <2>1, <2>2 DEF KeptDocs, DocOf
<1>7. \A t : SentBy(t, f) => SentBy(t, g)
  BY <1>1, <1>3 DEF SentBy
<1> QED
  BY <1>1, <1>2, <1>4, <1>5, <1>6, <1>7, GoesOn

LEMMA SetTotalBatchesTakes ==
    ASSUME SafetyInv, TypeInv, KeepInv, NEW a \in Attempts, SetTotalBatches(a)
    PROVE  KeepInv'
<1> DEFINE f == fetcher[a]
           s == [row[a] EXCEPT !.total = f.num]
<1>1. /\ f.pc = "total" /\ SetFetcher(a, Gone) /\ Write(a, s)
      /\ UNCHANGED <<files, queue, worker, indexed, monitor>>
  BY DEF SetTotalBatches, At
<1>2. /\ Phase(a, row[a], f) /\ f \in FetcherType /\ row[a] \in RowType /\ a \in Created /\ LastOf(a)
      /\ row[a].status # "none" /\ row[a].status # "SUCCESS" /\ f.num \in Nat
      /\ row[a].pair \in CCPairs /\ row[a].settings \in Settings
  BY <1>1, AtFetcher DEF Successful, FetcherType
<1>3. row[a].start # Null /\ f.at = NumBatches /\ row[a].checkpoint = NumBatches
  BY <1>1, <1>2 DEF Phase
<1>4. /\ s \in RowType /\ s.checkpoint = row[a].checkpoint /\ s.start = row[a].start
      /\ s.upto = row[a].upto /\ s.pair = row[a].pair /\ s.settings = row[a].settings
      /\ s.reindex = row[a].reindex /\ s.total = f.num /\ s.completed = row[a].completed
      /\ s.status = row[a].status
  BY <1>2 DEF RowType
<1>5. Gone.pc = "gone"
  BY NothingToDo
<1> HIDE DEF s
<1>6. row[a].completed <= f.num
  <2>1. f.num = NextNumber(row[a], Waiting(row[a].pair))
    BY <1>1, <1>2, <1>3, LastKept DEF Store
  <2>2. Cardinality(Waiting(row[a].pair)) \in Nat
    BY StoreFinite DEF TypeInv
  <2> QED
    BY <1>2, <2>1, <2>2 DEF NextNumber, RowType
<1>7. Phase(a, s, Gone)
  <2>1. f.num # Null
    BY <1>2, AttemptNumbers
  <2> QED
    BY <1>1, <1>2, <1>3, <1>4, <1>5, <1>6, <2>1 DEF Phase, TakingOver
<1>8. ASSUME NEW own, NEW waiting, NEW done, Store(a, row[a], f, own, waiting), KeptDocs(row[a], f, own, done)
      PROVE  Store(a, s, Gone, own, waiting) /\ KeptDocs(s, Gone, own, done)
  <2>1. Store(a, s, Gone, own, waiting)
    BY <1>1, <1>2, <1>4, <1>5, <1>8 DEF Store, TakingOver, NextNumber
  <2>2. Behind(s, Gone) = Behind(row[a], f)
    BY <1>1, <1>3, <1>4, <1>5 DEF Behind, Extracting
  <2> QED
    BY <1>4, <1>8, <2>1, <2>2 DEF KeptDocs, DocOf
<1>9. \A t : SentBy(t, Gone)
  BY <1>5 DEF SentBy
<1> QED
  BY <1>1, <1>2, <1>4, <1>7, <1>8, <1>9, GoesOn

LEMMA RecountTakes ==
    ASSUME SafetyInv, TypeInv, KeepInv, Uncounted, NEW a \in Attempts, Recount(a)
    PROVE  KeepInv'
<1> DEFINE f == fetcher[a]
           n == Cardinality(f.todo) + f.old
           g == [f EXCEPT !.pc = "save", !.num = n, !.todo = {}, !.old = 0]
           s == IF f.old = 0 THEN row[a] ELSE [row[a] EXCEPT !.completed = f.old]
<1>1. /\ f.pc = "recount" /\ SetFetcher(a, g)
      /\ Write(a, s) \/ (s = row[a] /\ UNCHANGED <<row, newer>>)
      /\ UNCHANGED <<files, queue, worker, indexed, monitor>>
  BY DEF Recount, At
<1>2. /\ Phase(a, row[a], f) /\ f \in FetcherType /\ row[a] \in RowType /\ IsFiniteSet(f.todo)
      /\ row[a].status # "none" /\ row[a].status # "SUCCESS" /\ row[a].total = Null
  BY <1>1, AtFetcher DEF Successful
<1>3. f.old \in Nat /\ Cardinality(f.todo) \in Nat /\ n \in Nat /\ row[a].completed \in Nat
  BY <1>2, FS_CardinalityType DEF FetcherType, RowType
<1>4. g.pc = "save" /\ g.num = n /\ g.at = f.at /\ g.checkpoint = f.checkpoint
  <2> HIDE DEF n
  <2> QED
    BY <1>2 DEF FetcherType
<1>5. /\ s \in RowType /\ s.checkpoint = row[a].checkpoint /\ s.start = row[a].start
      /\ s.upto = row[a].upto /\ s.pair = row[a].pair /\ s.settings = row[a].settings
      /\ s.reindex = row[a].reindex /\ s.total = row[a].total /\ s.status = row[a].status
      /\ s.completed = IF f.old = 0 THEN row[a].completed ELSE f.old
  BY <1>2, <1>3 DEF RowType
<1>6. s.completed = row[a].completed + f.old
  BY <1>1, <1>3, <1>5 DEF Uncounted
<1> HIDE DEF g, s
<1>7. Phase(a, s, g)
  <2>1. /\ row[a].start # Null /\ row[a].upto <= a /\ ~ row[a].reindex /\ f.at = f.checkpoint
        /\ row[a].checkpoint = Null
        /\ (~ Checkpointed => f.checkpoint \in {0, NumBatches})
    BY <1>1, <1>2 DEF Phase, TakingOver
  <2>2. f.checkpoint \in Nat /\ NumBatches \in Nat
    BY <1>2, AttemptNumbers DEF FetcherType
  <2>3. Null <= f.checkpoint /\ Null # NumBatches
    BY <2>2 DEF Null
  <2> QED
    BY <1>2, <1>4, <1>5, <2>1, <2>3 DEF Phase, TakingOver
<1>8. ASSUME NEW p \in CCPairs, NEW e \in Settings,
             Store(a, row[a], f, Of(p), Waiting(p)), KeptDocs(row[a], f, Of(p), indexed[e])
      PROVE  Store(a, s, g, Of(p), Waiting(p)) /\ KeptDocs(s, g, Of(p), indexed[e])
  <2>1. Cardinality(Waiting(p)) \in Nat
    BY StoreFinite DEF TypeInv
  <2>2. Cardinality(f.todo) = row[a].completed + Cardinality(Waiting(p))
        /\ (\A h \in Of(p) : h.num < f.old + Cardinality(f.todo)) /\ \A h \in Of(p) : h.attempt = a
    BY <1>1, <1>8 DEF Store, NextNumber
  <2>3. n = s.completed + Cardinality(Waiting(p)) /\ n = f.old + Cardinality(f.todo)
    BY <1>3, <1>6, <2>1, <2>2
  <2> HIDE DEF n
  <2>4. Store(a, s, g, Of(p), Waiting(p))
    BY <1>2, <1>4, <1>5, <2>2, <2>3 DEF Store, TakingOver, NextNumber
  <2>5. Behind(s, g) = Behind(row[a], f)
    BY <1>1, <1>4 DEF Behind, Extracting
  <2> QED
    BY <1>5, <1>8, <2>4, <2>5 DEF KeptDocs, DocOf
<1>9. \A t : SentBy(t, f) => SentBy(t, g)
  <2>1. n = f.old + Cardinality(f.todo)
    BY <1>3
  <2> HIDE DEF n
  <2> QED
    BY <1>1, <1>4, <2>1 DEF SentBy
<1> QED
  BY <1>1, <1>2, <1>5, <1>7, <1>8, <1>9, GoesOn

----------------------------------------------------------------------------
(* Steps of a process that change files or send tasks *)

LEMMA StoreStep ==
    ASSUME SafetyInv, TypeInv, KeepInv, NEW a \in Attempts, fetcher[a].pc \notin {"none", "gone"},
           row[a].start # Null, NEW g, SetFetcher(a, g), UNCHANGED <<row, newer, worker, indexed, monitor>>,
           Phase(a, row[a], g), Apart(row[a].pair), Distinct', OneTask', Holding',
           Store(a, row[a], g, Of(row[a].pair)', Waiting(row[a].pair)'),
           KeptDocs(row[a], g, Of(row[a].pair)', indexed[row[a].settings]),
           \A h \in files' : h \in files \/ (h.attempt = a /\ h.pair = row[a].pair),
           \A t \in Alive' : t \in Alive \/ t.attempt = a,
           \A t \in Alive' : t.attempt = a => SentBy(t, g)
    PROVE  KeepInv'
<1>1. /\ a \in Created /\ LastOf(a) /\ row[a].total = Null /\ row = [row EXCEPT ![a] = row[a]]
      /\ row[a].status # "none" /\ row[a].status \notin Successful /\ row[a] \in RowType
  BY AtFetcher
<1>2. RowMoves(a, row[a], g) /\ MonitorGoesOn /\ TurnsTo
  BY <1>1, Moves, MonitorStays, TurnsNowhere DEF SetFetcher, KeepInv
<1>3. Notes'
  BY <1>1, <1>2, NotesAfter DEF KeepInv, SafetyInv
<1>4. Grows
  BY DEF Grows
<1>5. Succession' /\ Ordered' /\ Phases'
  BY <1>1, <1>2, SuccessionAfter, OrderedAfter, PhasesAfter DEF KeepInv
<1>6. Starts'
  BY <1>1, <1>2, LastKept, StartsAfter DEF KeepInv
<1>7. CurrentKept'
  BY <1>1, <1>2, <1>4, CurrentAfter DEF KeepInv
<1>8. Owned'
  BY <1>1, <1>2, OwnedAfter DEF KeepInv
<1>9. Sends'
  BY <1>1, <1>2, SendsAfter DEF KeepInv
<1>10. Successes'
  BY <1>1, <1>2, <1>4, SuccessesAfter DEF KeepInv
<1> QED
  BY <1>3, <1>5, <1>6, <1>7, <1>8, <1>9, <1>10 DEF KeepInv

\* What the process of an attempt with a window finds.
LEMMA AtStore ==
    ASSUME SafetyInv, TypeInv, KeepInv, NEW a \in Attempts, fetcher[a].pc \in Extracting
    PROVE  /\ row[a].start # Null /\ a \in Created /\ LastOf(a)
           /\ Phase(a, row[a], fetcher[a]) /\ fetcher[a] \in FetcherType /\ row[a] \in RowType
           /\ row[a].total = Null /\ row[a].pair \in CCPairs /\ row[a].settings \in Settings
           /\ Store(a, row[a], fetcher[a], Of(row[a].pair), Waiting(row[a].pair))
           /\ KeptDocs(row[a], fetcher[a], Of(row[a].pair), indexed[row[a].settings])
           /\ \A t \in Alive : t.attempt = a => SentBy(t, fetcher[a])
           /\ Fits(row[a], fetcher[a]) /\ IsFiniteSet(fetcher[a].todo)
<1>1. fetcher[a].pc \notin {"none", "gone", "queued", "spawned", "window", "dead"}
  BY DEF Extracting
<1>2. row[a].start # Null
  BY <1>1, AtFetcher DEF Phase
<1> QED
  BY <1>1, <1>2, AtFetcher, LastKept

\* A worker that holds a task of a pair holds one of the pair's last attempt.
LEMMA HeldByLast ==
    ASSUME KeepInv, NEW a \in Created, LastOf(a), NEW w \in Workers, Busy(w),
           row[worker[w].task.attempt].pair = row[a].pair
    PROVE  worker[w].task.attempt = a /\ worker[w].task \in Alive
<1>1. worker[w].task.attempt \in Created /\ worker[w].task \in Alive
  BY HolderCreated DEF KeepInv
<1>2. LastOf(worker[w].task.attempt)
  BY <1>1, NotOver DEF KeepInv
<1> QED
  BY <1>1, <1>2, OfOnePair DEF SamePair, LastOf

LEMMA ReissueTakes ==
    ASSUME SafetyInv, TypeInv, KeepInv, NEW a \in Attempts, Reissue(a)
    PROVE  KeepInv'
<1> DEFINE f == fetcher[a]
           p == row[a].pair
           g == [f EXCEPT !.pc = "recount"]
           sent == {Task(a, h.num, "reissued") : h \in f.todo}
<1>1. f.pc = "reissue" /\ f.pc \in Extracting /\ UNCHANGED <<row, newer, worker, indexed, monitor, files>>
  BY DEF Reissue, At, Extracting
<1>2. /\ a \in Created /\ LastOf(a) /\ row[a].start # Null /\ p \in CCPairs
      /\ Phase(a, row[a], f) /\ f \in FetcherType /\ row[a].total = Null
      /\ Store(a, row[a], f, Of(p), Waiting(p))
      /\ KeptDocs(row[a], f, Of(p), indexed[row[a].settings])
      /\ \A t \in Alive : t.attempt = a => SentBy(t, f)
  BY <1>1, AtStore
<1>3. /\ {h.num : h \in f.todo} = {h.num : h \in Of(p)} /\ Cardinality(f.todo) = Cardinality(Of(p))
      /\ \A h \in f.todo : h.pair = p
      /\ \A h \in Of(p) : h.attempt = a /\ h.num < f.old + Cardinality(Of(p))
  BY <1>1, <1>2 DEF Store
<1>4. queue' = queue \cup sent /\ SetFetcher(a, g)
  <2>1. {h \in f.todo : h.pair = p} = f.todo
    BY <1>3
  <2> QED
    BY <2>1 DEF Reissue
<1>5. \A t \in Alive : t.attempt # a
  BY <1>1, <1>2 DEF SentBy
<1>6. \A t \in sent : t.attempt = a /\ t.kind = "reissued" /\ t.num < f.old + Cardinality(f.todo)
  <2>1. ASSUME NEW h \in f.todo
        PROVE  h.num < f.old + Cardinality(f.todo)
    BY <1>3
  <2> QED
    BY <2>1 DEF Task
<1>7. \A t, u \in sent : t.num = u.num => t = u
  BY DEF Task
<1>8. Alive' = Alive \cup sent /\ queue \subseteq Alive
  BY <1>1, <1>4 DEF Alive, Busy
<1>9. OneTask'
  <2> HIDE DEF sent
  <2>1. \A t \in sent, u \in Alive : ~ SameBatch(t, u) /\ ~ SameBatch(u, t)
    BY <1>5, <1>6 DEF SameBatch
  <2>2. \A t, u \in sent : SameBatch(t, u) => t = u
    BY <1>7 DEF SameBatch
  <2>3. \A w \in Workers : Busy(w) => worker[w].task \in Alive
    BY DEF Alive
  <2> QED
    BY <1>1, <1>4, <1>8, <2>1, <2>2, <2>3 DEF OneTask, KeepInv, Busy
<1>10. Waiting(p) = Of(p)
  <2>1. ASSUME NEW h \in Of(p), NEW w \in Workers, worker[w].pc = "delete", worker[w].task.attempt = h.attempt
        PROVE  FALSE
    BY <1>3, <1>5, <2>1 DEF Alive, Busy
  <2> QED
    BY <2>1 DEF Waiting, CountedFile
<1>11. g.pc = "recount" /\ g.todo = f.todo /\ g.old = f.old /\ g.at = f.at /\ g.checkpoint = f.checkpoint
  BY <1>2 DEF FetcherType
<1> HIDE DEF sent, g
<1>12. Phase(a, row[a], g)
  BY <1>1, <1>2, <1>11 DEF Phase, TakingOver
<1>13. Store(a, row[a], g, Of(p), Waiting(p))
  <2>1. row[a].completed = 0
    BY <1>1, <1>2 DEF Phase
  <2>2. Cardinality(Of(p)) \in Nat
    BY <1>10, StoreFinite DEF TypeInv
  <2>3. Cardinality(f.todo) = NextNumber(row[a], Waiting(p))
    BY <1>3, <1>10, <2>1, <2>2 DEF NextNumber
  <2> QED
    BY <1>2, <1>3, <1>11, <2>3 DEF Store, TakingOver
<1>14. KeptDocs(row[a], g, Of(p), indexed[row[a].settings])
  BY <1>1, <1>2, <1>11 DEF KeptDocs, Behind, Extracting
<1>15. \A t \in Alive' : t.attempt = a => SentBy(t, g)
  BY <1>5, <1>6, <1>8, <1>11 DEF SentBy
<1>16. /\ Of(p)' = Of(p) /\ Waiting(p)' = Waiting(p) /\ Apart(p)
  BY <1>1, <1>2, SameStore
<1>17. Holding'
  BY <1>1 DEF KeepInv, Holding, Busy, Of
<1>18. Distinct'
  BY <1>1 DEF KeepInv, Distinct
<1>19. \A t \in Alive' : t \in Alive \/ t.attempt = a
  BY <1>6, <1>8
<1> QED
  BY <1>1, <1>2, <1>4, <1>9, <1>12, <1>13, <1>14, <1>15, <1>16, <1>17, <1>18, <1>19, StoreStep

LEMMA SendTakes ==
    ASSUME SafetyInv, TypeInv, KeepInv, NEW a \in Attempts, Send(a)
    PROVE  KeepInv'
<1> DEFINE f == fetcher[a]
           p == row[a].pair
           n == f.num + 1
           g == [f EXCEPT !.pc = "run", !.num = n]
           u == Task(a, f.num, "fetched")
<1>1. /\ f.pc = "send" /\ f.pc \in Extracting /\ UNCHANGED <<row, newer, worker, indexed, monitor, files>>
      /\ queue' = queue \cup {u} /\ SetFetcher(a, g)
  BY DEF Send, At, Extracting
<1>2. /\ a \in Created /\ LastOf(a) /\ row[a].start # Null /\ p \in CCPairs
      /\ Phase(a, row[a], f) /\ f \in FetcherType /\ row[a].total = Null
      /\ Store(a, row[a], f, Of(p), Waiting(p))
      /\ KeptDocs(row[a], f, Of(p), indexed[row[a].settings])
      /\ \A t \in Alive : t.attempt = a => SentBy(t, f)
  BY <1>1, AtStore
<1>3. f.num \in Nat /\ n \in Nat /\ f.num < n /\ "run" \in FetchSteps
  BY <1>2 DEF FetcherType, FetchSteps
<1>4. /\ g.pc = "run" /\ g.num = n /\ g.at = f.at /\ g.checkpoint = f.checkpoint
  <2> HIDE DEF n
  <2> QED
    BY <1>2 DEF FetcherType
<1>5. \A t \in Alive : t.attempt = a => t.num < f.num
  BY <1>1, <1>2 DEF SentBy
<1>6. u.attempt = a /\ u.num = f.num
  BY DEF Task
<1>7. Alive' = Alive \cup {u} /\ queue \subseteq Alive /\ \A w \in Workers : Busy(w) => worker[w].task \in Alive
  BY <1>1 DEF Alive, Busy
<1> HIDE DEF u
<1>8. \A t \in Alive : ~ SameBatch(t, u) /\ ~ SameBatch(u, t)
  BY <1>3, <1>5, <1>6 DEF SameBatch
<1>9. OneTask'
  BY <1>1, <1>7, <1>8 DEF OneTask, KeepInv, Busy
<1> HIDE DEF g
<1>10. Phase(a, row[a], g)
  BY <1>1, <1>2, <1>4 DEF Phase, TakingOver
<1>11. Store(a, row[a], g, Of(p), Waiting(p))
  BY <1>1, <1>2, <1>4 DEF Store, TakingOver
<1>12. KeptDocs(row[a], g, Of(p), indexed[row[a].settings])
  BY <1>1, <1>2, <1>4 DEF KeptDocs, Behind, Extracting
<1>13. \A t \in Alive' : t.attempt = a => SentBy(t, g)
  <2>1. \A t \in Alive' : t.attempt = a => t.num \in Nat /\ t.num < n
    <3>1. \A t \in Alive : t.num \in Nat
      BY DEF Alive, Busy, TypeInv, TasksTyped, WorkTyped, TaskType
    <3> QED
      BY <1>3, <1>5, <1>6, <1>7, <3>1
  <2> HIDE DEF n
  <2> QED
    BY <1>4, <2>1 DEF SentBy
<1>14. /\ Of(p)' = Of(p) /\ Waiting(p)' = Waiting(p) /\ Apart(p)
  BY <1>1, <1>2, SameStore
<1>15. Holding'
  BY <1>1 DEF KeepInv, Holding, Busy, Of
<1>16. Distinct'
  BY <1>1 DEF KeepInv, Distinct
<1> QED
  BY <1>1, <1>2, <1>6, <1>7, <1>9, <1>10, <1>11, <1>12, <1>13, <1>14, <1>15, <1>16, StoreStep

LEMMA FetchTakes ==
    ASSUME SafetyInv, TypeInv, KeepInv, NEW a \in Attempts, Fetch(a)
    PROVE  KeepInv'
<1> DEFINE f == fetcher[a]
           p == row[a].pair
           n == f.at + 1
           g == [f EXCEPT !.pc = "send", !.at = n]
           b == BatchFile(p, a, f.num, Doc(a, n))
<1>1. /\ f.pc = "run" /\ f.pc \in Extracting /\ UNCHANGED <<row, newer, worker, indexed, monitor, queue>>
      /\ files' = StoreBatch(files, b) /\ SetFetcher(a, g) /\ f.at < NumBatches
  BY DEF Fetch, At, Extracting
<1>2. /\ a \in Created /\ LastOf(a) /\ row[a].start # Null /\ p \in CCPairs
      /\ Phase(a, row[a], f) /\ f \in FetcherType /\ row[a].total = Null /\ row[a] \in RowType
      /\ Store(a, row[a], f, Of(p), Waiting(p))
      /\ KeptDocs(row[a], f, Of(p), indexed[row[a].settings])
      /\ \A t \in Alive : t.attempt = a => SentBy(t, f)
  BY <1>1, AtStore
<1>3. f.num \in Nat /\ f.at \in Nat /\ n \in Nat /\ f.at < n /\ n \in Positions
  BY <1>1, <1>2, AttemptNumbers DEF FetcherType, Positions
<1>4. g.pc = "send" /\ g.num = f.num /\ g.at = n /\ g.checkpoint = f.checkpoint
  <2> HIDE DEF n
  <2> QED
    BY <1>2 DEF FetcherType
<1>5. b.pair = p /\ b.attempt = a /\ b.num = f.num /\ b.doc = DocOf(row[a], n)
  BY DEF BatchFile, Doc, DocOf
<1> HIDE DEF b, n, g
<1>6. \A h \in Of(p) : h.attempt = a /\ h.num < f.num /\ h.num \in Nat
  BY <1>1, <1>2 DEF Store, TakingOver, Of, TypeInv, StoreTyped, FileType
<1>7. files' = files \cup {b} /\ b \notin Of(p)
  BY <1>1, <1>3, <1>5, <1>6 DEF StoreBatch, SameName, Of
<1>8. Of(p)' = Of(p) \cup {b}
  BY <1>1, <1>5, <1>7 DEF Of
<1>9. \A h : CountedFile(h)' <=> CountedFile(h)
  BY <1>1 DEF CountedFile
<1>10. ~ CountedFile(b)
  <2>1. ASSUME NEW w \in Workers, worker[w].pc = "delete", worker[w].task.attempt = a,
               worker[w].task.num = f.num
        PROVE  FALSE
    <3>1. SentBy(worker[w].task, f)
      BY <1>2, <2>1 DEF Alive, Busy
    <3> QED
      BY <1>1, <1>3, <2>1, <3>1 DEF SentBy
  <2> QED
    BY <1>5, <2>1 DEF CountedFile
<1>11. Waiting(p)' = Waiting(p) \cup {b} /\ b \notin Waiting(p)
  BY <1>7, <1>8, <1>9, <1>10 DEF Waiting
<1>12. Apart(p)
  BY <1>5, <1>7, <1>9 DEF Apart, Of, Waiting
<1>13. NextNumber(row[a], Waiting(p)') = NextNumber(row[a], Waiting(p)) + 1
       /\ NextNumber(row[a], Waiting(p)) \in Nat
  <2>1. IsFiniteSet(Waiting(p)) /\ Cardinality(Waiting(p)) \in Nat
    BY StoreFinite DEF TypeInv
  <2>2. Cardinality(Waiting(p)') = Cardinality(Waiting(p)) + 1
    BY <1>11, <2>1, FS_AddElement
  <2> QED
    BY <1>2, <2>1, <2>2 DEF NextNumber, RowType
<1>14. f.num = NextNumber(row[a], Waiting(p))
  BY <1>1, <1>2 DEF Store
<1>15. Phase(a, row[a], g)
  <2>0. f.checkpoint \in Nat /\ f.checkpoint <= f.at
    BY <1>1, <1>2, AttemptNumbers DEF Phase, FetcherType
  <2>1. f.checkpoint <= n
    BY <1>3, <2>0 DEF n
  <2> QED
    BY <1>1, <1>2, <1>4, <2>1 DEF Phase, TakingOver
<1>16. Store(a, row[a], g, Of(p)', Waiting(p)')
  BY <1>2, <1>4, <1>5, <1>6, <1>8, <1>13, <1>14 DEF Store, TakingOver
<1>17. KeptDocs(row[a], g, Of(p)', indexed[row[a].settings])
  <2>1. ASSUME NEW i \in 1 .. n
        PROVE  i \in 1 .. f.at \/ i = n
    BY <1>3 DEF n
  <2>2. Behind(row[a], g) = n /\ Behind(row[a], f) = f.at
    BY <1>1, <1>4 DEF Behind, Extracting
  <2> QED
    BY <1>2, <1>5, <1>8, <2>1, <2>2 DEF KeptDocs
<1>18. Distinct'
  <2>1. \A h \in files : h.pair = p => h.num # f.num
    BY <1>3, <1>6 DEF Of
  <2> QED
    BY <1>5, <1>7, <2>1 DEF Distinct, KeepInv
<1>19. Alive' = Alive /\ OneTask'
  BY <1>1, SameTasks DEF KeepInv
<1>20. Holding'
  <2> SUFFICES ASSUME NEW w \in Workers, NEW q \in CCPairs, NEW e \in Settings, Busy(w),
                      row[worker[w].task.attempt].pair = q, row[worker[w].task.attempt].settings = e
               PROVE  worker[w].pc # "errors" /\ HeldFile(worker[w], Of(q)', indexed[e])
    BY <1>1 DEF Holding, Busy
  <2>1. worker[w].pc # "errors" /\ HeldFile(worker[w], Of(q), indexed[e])
    BY DEF KeepInv, Holding
  <2>2. CASE q # p
    BY <2>1, <2>2, <1>12 DEF Apart
  <2>3. CASE q = p
    <3>1. worker[w].task.attempt = a /\ worker[w].task \in Alive
      BY <1>2, <2>3, HeldByLast
    <3>2. worker[w].task.num < f.num
      BY <1>1, <1>2, <3>1 DEF SentBy
    <3>3. ~ Names(b, worker[w].task)
      BY <1>3, <1>5, <3>2 DEF Names
    <3> QED
      BY <1>1, <1>8, <2>1, <2>3, <3>3 DEF HeldFile
  <2> QED
    BY <2>2, <2>3
<1>21. \A t \in Alive' : t.attempt = a => SentBy(t, g)
  BY <1>1, <1>2, <1>4, <1>19 DEF SentBy
<1>22. \A h \in files' : h \in files \/ (h.attempt = a /\ h.pair = p)
  BY <1>5, <1>7
<1> QED
  BY <1>1, <1>2, <1>12, <1>15, <1>16, <1>17, <1>18, <1>19, <1>20, <1>21, <1>22, StoreStep

\* The files of a pair that no two names share move to the names of one attempt, and no
\* other file is lost.
LEMMA MovedOwn ==
    ASSUME Distinct, StoreTyped, NEW p \in CCPairs, NEW a, NEW s \in Survivors(Of(p)),
           files' = MoveBatches(files, Of(p), s, p, a)
    PROVE  /\ Of(p)' = {Renamed(h, p, a) : h \in Of(p)}
           /\ \A q \in CCPairs : q # p => Of(q)' = Of(q)
           /\ files' = (files \ Of(p)) \cup {Renamed(h, p, a) : h \in Of(p)}
<1>1. s = Of(p)
  <2>1. s \subseteq Of(p) /\ {h.num : h \in s} = {h.num : h \in Of(p)}
    BY DEF Survivors
  <2>2. ASSUME NEW h \in Of(p)
        PROVE  h \in s
    <3>1. PICK k \in s : k.num = h.num
      BY <2>1
    <3>2. k = h
      BY <2>1, <3>1 DEF Distinct, Of
    <3> QED
      BY <3>2
  <2> QED
    BY <2>1, <2>2
<1>2. \A h \in Of(p) : Renamed(h, p, a).pair = p
  BY DEF Renamed, Of, StoreTyped, FileType
<1>3. files' = (files \ Of(p)) \cup {Renamed(h, p, a) : h \in Of(p)}
  <2>1. \A g \in files \ Of(p), h \in Of(p) : ~ SameName(g, Renamed(h, p, a))
    BY <1>2 DEF SameName, Of
  <2> QED
    BY <1>1, <2>1 DEF MoveBatches
<1>4. Of(p)' = {Renamed(h, p, a) : h \in Of(p)}
  <2>1. \A g : g \in Of(p)' <=> g \in files' /\ g.pair = p
    BY DEF Of
  <2>2. \A g \in files \ Of(p) : g.pair # p
    BY DEF Of
  <2> QED
    BY <1>2, <1>3, <2>1, <2>2
<1>5. ASSUME NEW q \in CCPairs, q # p
      PROVE  Of(q)' = Of(q)
  <2>1. \A g : g \in Of(q)' <=> g \in files' /\ g.pair = q
    BY DEF Of
  <2>2. \A g : g \in Of(q) <=> g \in files \ Of(p) /\ g.pair = q
    BY <1>5 DEF Of
  <2> QED
    BY <1>2, <1>3, <1>5, <2>1, <2>2
<1> QED
  BY <1>3, <1>4, <1>5

LEMMA RenamedFile ==
    ASSUME NEW h \in FileType, NEW p, NEW a
    PROVE  /\ Renamed(h, p, a).pair = p /\ Renamed(h, p, a).attempt = a
           /\ Renamed(h, p, a).num = h.num /\ Renamed(h, p, a).doc = h.doc
BY DEF Renamed, FileType

MovedTo(own, p, a) == {Renamed(h, p, a) : h \in own}

LEMMA RenamedMany ==
    ASSUME NEW own \in SUBSET FileType, IsFiniteSet(own), NEW p, NEW a,
           \A g, h \in own : g.num = h.num => g = h
    PROVE  /\ Cardinality(MovedTo(own, p, a)) = Cardinality(own)
           /\ {g.num : g \in MovedTo(own, p, a)} = {g.num : g \in own}
           /\ \A g, h \in MovedTo(own, p, a) : g.num = h.num => g = h
<1> DEFINE T == {Renamed(h, p, a) : h \in own}
           e == [h \in own |-> Renamed(h, p, a)]
<1>1. \A h \in own : Renamed(h, p, a).num = h.num
  BY RenamedFile
<1>2. e \in Bijection(own, T)
  <2>1. e \in [own -> T] /\ \A t \in T : \E h \in own : e[h] = t
    OBVIOUS
  <2>2. \A g, h \in own : e[g] = e[h] => g = h
    BY <1>1
  <2> HIDE DEF e, T
  <2>3. e \in Injection(own, T)
    BY <2>1, <2>2 DEF Injection, IsInjective
  <2>4. e \in Surjection(own, T)
    BY <2>1 DEF Surjection
  <2> QED
    BY <2>3, <2>4 DEF Bijection
<1>3. Cardinality(T) = Cardinality(own)
  <2> HIDE DEF e, T
  <2> QED
    BY <1>2, FS_Bijection DEF ExistsBijection
<1>4. {g.num : g \in T} = {g.num : g \in own}
  BY <1>1
<1>5. \A g, h \in T : g.num = h.num => g = h
  BY <1>1
<1> QED
  BY <1>3, <1>4, <1>5 DEF MovedTo

LEMMA RenameTakes ==
    ASSUME SafetyInv, TypeInv, KeepInv, NEW a \in Attempts, Rename(a)
    PROVE  KeepInv'
<1> DEFINE f == fetcher[a]
           g == [f EXCEPT !.pc = "reissue"]
<1>1. /\ f.pc = "rename" /\ f.pc \in Extracting /\ UNCHANGED <<row, newer, worker, indexed, monitor, queue>>
  BY DEF Rename, At, Extracting
<1>p. PICK p \in CCPairs : p = row[a].pair
  BY <1>1, AtStore
<1>2. /\ a \in Created /\ LastOf(a) /\ row[a].start # Null
      /\ Phase(a, row[a], f) /\ f \in FetcherType /\ row[a].total = Null
      /\ Store(a, row[a], f, Of(p), Waiting(p))
      /\ KeptDocs(row[a], f, Of(p), indexed[row[a].settings])
      /\ \A t \in Alive : t.attempt = a => SentBy(t, f)
  BY <1>1, <1>p, AtStore
<1>3. f.todo = Of(p) /\ \A h \in Of(p) : h.num < f.old + Cardinality(Of(p))
  BY <1>1, <1>2 DEF Store
<1>4. Of(p) \subseteq files /\ Of(p) \in SUBSET FileType /\ IsFiniteSet(Of(p)) /\ StoreTyped
  BY StoreFinite DEF TypeInv, StoreTyped
<1>5. PICK s \in Survivors(Of(p)) : files' = MoveBatches(files, Of(p), s, p, a)
  BY <1>3, <1>4, <1>p DEF Rename
<1>6. SetFetcher(a, g)
  BY <1>3, <1>4 DEF Rename
<1> DEFINE moved == {Renamed(h, p, a) : h \in Of(p)}
<1>7. /\ Of(p)' = moved /\ (\A q \in CCPairs : q # p => Of(q)' = Of(q))
      /\ files' = (files \ Of(p)) \cup moved
  BY <1>4, <1>5, MovedOwn DEF KeepInv
<1>8. \A h, k \in Of(p) : h.num = k.num => h = k
  BY DEF KeepInv, Distinct, Of
<1>9. /\ Cardinality(moved) = Cardinality(Of(p)) /\ {h.num : h \in moved} = {h.num : h \in Of(p)}
      /\ \A h, k \in moved : h.num = k.num => h = k
  <2>1. moved = MovedTo(Of(p), p, a)
    BY DEF MovedTo
  <2> HIDE DEF moved
  <2> QED
    BY <1>4, <1>8, <2>1, RenamedMany
<1>10. \A h \in Of(p) : /\ Renamed(h, p, a).pair = p /\ Renamed(h, p, a).attempt = a
                        /\ Renamed(h, p, a).num = h.num /\ Renamed(h, p, a).doc = h.doc
  BY <1>4, RenamedFile
<1>11. \A h \in moved : h.pair = p /\ h.attempt = a /\ \E k \in Of(p) : h.num = k.num /\ h.doc = k.doc
  BY <1>10
<1>12. \A k \in Of(p) : \E h \in moved : h.doc = k.doc
  BY <1>10
<1> HIDE DEF moved
<1>13. g.pc = "reissue" /\ g.todo = f.todo /\ g.old = f.old /\ g.at = f.at /\ g.checkpoint = f.checkpoint
  BY <1>2 DEF FetcherType
<1> HIDE DEF g
<1>14. Phase(a, row[a], g)
  BY <1>1, <1>2, <1>13 DEF Phase, TakingOver
<1>15. Store(a, row[a], g, Of(p)', Waiting(p)')
  <2>1. \A h \in moved : h.num < g.old + Cardinality(moved)
    BY <1>3, <1>9, <1>11, <1>13
  <2>2. \A h \in f.todo : h.pair = row[a].pair
    BY <1>3, <1>p DEF Of
  <2> QED
    BY <1>2, <1>3, <1>7, <1>8, <1>9, <1>11, <1>13, <2>1, <2>2 DEF Store, TakingOver
<1>16. KeptDocs(row[a], g, Of(p)', indexed[row[a].settings])
  <2>1. Behind(row[a], g) = Behind(row[a], f)
    BY <1>1, <1>13 DEF Behind, Extracting
  <2> QED
    BY <1>2, <1>7, <1>12, <2>1 DEF KeptDocs
<1>17. Apart(p)
  BY <1>1, <1>7 DEF Apart, Waiting, CountedFile
<1>18. Distinct'
  <2>1. \A h \in files' : h.pair = p => h \in moved
    BY <1>7 DEF Of
  <2>2. \A h \in files' : h.pair # p => h \in files
    BY <1>7, <1>11
  <2> QED
    BY <1>9, <2>1, <2>2 DEF KeepInv, Distinct
<1>19. Alive' = Alive /\ OneTask' /\ \A t \in Alive : t.attempt # a
  BY <1>1, <1>2, SameTasks DEF KeepInv, SentBy
<1>20. Holding'
  <2> SUFFICES ASSUME NEW w \in Workers, NEW q \in CCPairs, NEW e \in Settings, Busy(w),
                      row[worker[w].task.attempt].pair = q, row[worker[w].task.attempt].settings = e
               PROVE  worker[w].pc # "errors" /\ HeldFile(worker[w], Of(q)', indexed[e])
    BY <1>1 DEF Holding, Busy
  <2>1. worker[w].pc # "errors" /\ HeldFile(worker[w], Of(q), indexed[e])
    BY DEF KeepInv, Holding
  <2>2. q # p
    BY <1>2, <1>19, <1>p, HeldByLast
  <2> QED
    BY <1>7, <2>1, <2>2
<1>21. \A h \in files' : h \in files \/ (h.attempt = a /\ h.pair = row[a].pair)
  BY <1>7, <1>11, <1>p
<1> QED
  BY <1>1, <1>2, <1>6, <1>14, <1>15, <1>16, <1>17, <1>18, <1>19, <1>20, <1>21, <1>p, StoreStep

----------------------------------------------------------------------------
(* Steps of the workers, and of administrators *)

LEMMA RestTakes ==
    ASSUME KeepInv, UNCHANGED <<row, newer, fetcher, files, worker, monitor, indexed>>, queue' \subseteq queue
    PROVE  KeepInv'
<1>1. Alive' \subseteq Alive
  BY DEF Alive, Busy
<1>2. Succession' /\ Ordered' /\ Phases' /\ Starts' /\ Owned' /\ Distinct'
  <2>1. Succession' /\ Ordered'
    BY DEF KeepInv, Succession, Ordered, Created, SamePair, Over, Busy
  <2>2. Phases' /\ Starts'
    BY DEF KeepInv, Phases, Starts, Created, SamePair, EndsBefore
  <2>3. Owned' /\ Distinct'
    BY DEF KeepInv, Owned, Distinct, Opened, Created
  <2> QED
    BY <2>1, <2>2, <2>3
<1>3. CurrentKept' /\ Holding'
  <2>1. \A p : Of(p)' = Of(p) /\ Waiting(p)' = Waiting(p)
    BY DEF Of, Waiting, CountedFile
  <2>2. \A a : Current(a)' <=> Current(a)
    BY DEF Current, Opened, Created, SamePair
  <2>3. CurrentKept'
    BY <2>1, <2>2 DEF KeepInv, CurrentKept, Created
  <2>4. Holding'
    BY <2>1 DEF KeepInv, Holding, Busy
  <2> QED
    BY <2>3, <2>4
<1>4. Sends' /\ OneTask'
  BY <1>1 DEF KeepInv, Sends, OneTask, Opened, Created, Busy
<1>5. Notes' /\ Successes'
  BY DEF KeepInv, Notes, Successes, Created
<1> QED
  BY <1>2, <1>3, <1>4, <1>5 DEF KeepInv

LEMMA PairStep ==
    ASSUME TypeInv, KeepInv, NEW a \in Created, LastOf(a), row[a].start # Null,
           NEW s, RowMoves(a, s, fetcher[a]), s.start = row[a].start, s.upto = row[a].upto,
           s.status = "SUCCESS" => row[a].status = "SUCCESS",
           Phase(a, s, fetcher[a]), TurnsTo, Notes', NEW p \in CCPairs, p = row[a].pair, Grows, Apart(p),
           Distinct', OneTask', Holding', files' \subseteq files, Alive' \subseteq Alive,
           Store(a, s, fetcher[a], Of(p)', Waiting(p)'),
           KeptDocs(s, fetcher[a], Of(p)', indexed'[s.settings])
    PROVE  KeepInv'
<1>0. \A q \in CCPairs : q # row[a].pair => Of(q)' = Of(q) /\ Waiting(q)' = Waiting(q)
  BY DEF Apart
<1>1. Succession' /\ Ordered' /\ Phases'
  BY SuccessionAfter, OrderedAfter, PhasesAfter DEF KeepInv
<1>2. Starts'
  BY LastKept, StartsAfter DEF KeepInv
<1>3. CurrentKept'
  <2>1. s.pair = p /\ Apart(row[a].pair) /\ s.start # Null
    BY <1>0 DEF RowMoves, Apart
  <2> QED
    BY <2>1, CurrentAfter DEF KeepInv
<1>4. Owned'
  BY OwnedAfter DEF KeepInv
<1>5. Sends'
  BY LastKept, SendsAfter DEF KeepInv
<1>6. Successes'
  BY SuccessesAfter DEF KeepInv
<1> QED
  BY <1>1, <1>2, <1>3, <1>4, <1>5, <1>6 DEF KeepInv

\* A worker at work, and what it finds.
LEMMA AtWorker ==
    ASSUME SafetyInv, TypeInv, KeepInv, NEW w \in Workers, Busy(w), NEW a, a = worker[w].task.attempt
    PROVE  /\ a \in Created /\ LastOf(a) /\ row[a].start # Null /\ row[a].status # "none"
           /\ row[a] \in RowType /\ row[a].pair \in CCPairs /\ row[a].settings \in Settings
           /\ row = [row EXCEPT ![a] = row[a]] /\ fetcher = [fetcher EXCEPT ![a] = fetcher[a]]
           /\ Phase(a, row[a], fetcher[a]) /\ SentBy(worker[w].task, fetcher[a])
           /\ worker[w] \in WorkType /\ worker[w].task \in TaskType /\ worker[w].task \in Alive
           /\ worker = [v \in Workers |-> worker[v]]
           /\ worker[w].pc # "errors" /\ HeldFile(worker[w], Of(row[a].pair), indexed[row[a].settings])
           /\ Store(a, row[a], fetcher[a], Of(row[a].pair), Waiting(row[a].pair))
           /\ KeptDocs(row[a], fetcher[a], Of(row[a].pair), indexed[row[a].settings])
<1>1. a \in Created /\ worker[w].task \in Alive
  BY HolderCreated DEF KeepInv
<1>2. LastOf(a)
  BY <1>1, NotOver DEF KeepInv
<1>3. /\ row[a].start # Null /\ Phase(a, row[a], fetcher[a]) /\ SentBy(worker[w].task, fetcher[a])
  BY <1>1, <1>2, LastKept
<1>4. /\ row[a] \in RowType /\ row[a].pair \in CCPairs /\ row[a].settings \in Settings
      /\ row = [row EXCEPT ![a] = row[a]] /\ fetcher = [fetcher EXCEPT ![a] = fetcher[a]]
      /\ row[a].status # "none"
  BY <1>1, AttemptNumbers, CreatedRow DEF Created
<1>5. worker[w] \in WorkType /\ worker[w].task \in TaskType /\ worker = [v \in Workers |-> worker[v]]
  BY HeldTask DEF Busy, TypeInv, TasksTyped
<1>6. worker[w].pc # "errors" /\ HeldFile(worker[w], Of(row[a].pair), indexed[row[a].settings])
  BY <1>4 DEF KeepInv, Holding
<1>7. /\ Store(a, row[a], fetcher[a], Of(row[a].pair), Waiting(row[a].pair))
      /\ KeptDocs(row[a], fetcher[a], Of(row[a].pair), indexed[row[a].settings])
  BY <1>1, <1>2, <1>3, <1>4, LastKept
<1> QED
  BY <1>1, <1>2, <1>3, <1>4, <1>5, <1>6, <1>7

LEMMA WorkerSet ==
    ASSUME TypeInv, NEW w \in Workers, NEW k, SetWorker(w, k)
    PROVE  worker'[w] = k /\ \A v \in Workers : v # w => worker'[v] = worker[v]
BY DEF SetWorker, TypeInv, TasksTyped

\* A worker that neither had nor has a counted batch moves no file to those that wait.
LEMMA WorkSame ==
    ASSUME TypeInv, NEW w \in Workers, NEW k, SetWorker(w, k), worker[w].pc # "delete", k.pc # "delete",
           files' = files
    PROVE  \A p \in CCPairs : Of(p)' = Of(p) /\ Waiting(p)' = Waiting(p) /\ Apart(p)
<1>1. \A h : CountedFile(h)' <=> CountedFile(h)
  BY WorkerSet DEF CountedFile
<1> QED
  BY <1>1 DEF Of, Waiting, Apart

LEMMA HeldGrows ==
    ASSUME NEW k, NEW own, NEW done, NEW more, HeldFile(k, own, done), done \subseteq more
    PROVE  HeldFile(k, own, more)
BY DEF HeldFile

LEMMA HoldingMoves ==
    ASSUME TypeInv, KeepInv, NEW w \in Workers, NEW k, SetWorker(w, k), Grows, files' = files,
           \A b \in Created : row'[b].pair = row[b].pair /\ row'[b].settings = row[b].settings,
           k.pc # "idle" => /\ k.task.attempt \in Created /\ k.pc # "errors"
                            /\ HeldFile(k, Of(row[k.task.attempt].pair),
                                        indexed'[row[k.task.attempt].settings])
    PROVE  Holding'
<1> SUFFICES ASSUME NEW v \in Workers, NEW p \in CCPairs, NEW e \in Settings, Busy(v)',
                    row'[worker'[v].task.attempt].pair = p, row'[worker'[v].task.attempt].settings = e
             PROVE  worker'[v].pc # "errors" /\ HeldFile(worker'[v], Of(p)', indexed'[e])
  BY DEF Holding
<1>1. Of(p)' = Of(p)
  BY DEF Of
<1>2. CASE v = w
  <2>1. worker'[v] = k /\ k.pc # "idle"
    BY <1>2, WorkerSet DEF Busy
  <2>2. k.task.attempt \in Created
    BY <2>1
  <2>3. row[k.task.attempt].pair = p /\ row[k.task.attempt].settings = e
    BY <2>1, <2>2
  <2> QED
    BY <1>1, <2>1, <2>3
<1>3. CASE v # w
  <2>1. worker'[v] = worker[v] /\ Busy(v) /\ worker[v].task.attempt \in Created
    BY <1>3, WorkerSet, HolderCreated DEF Busy, KeepInv
  <2>2. worker[v].pc # "errors" /\ HeldFile(worker[v], Of(p), indexed[e])
    BY <2>1 DEF KeepInv, Holding
  <2> QED
    BY <1>1, <2>1, <2>2, HeldGrows DEF Grows
<1> QED
  BY <1>2, <1>3

\* A worker goes on with its task or gives it up.
LEMMA TaskMoves ==
    ASSUME TypeInv, KeepInv, NEW w \in Workers, Busy(w), NEW k, SetWorker(w, k),
           k.pc = "idle" \/ k.task = worker[w].task, queue' = queue, monitor' = monitor
    PROVE  OneTask' /\ Alive' \subseteq Alive /\ TurnsTo
<1>1. worker'[w] = k /\ \A v \in Workers : v # w => worker'[v] = worker[v]
  BY WorkerSet
<1>2. \A v \in Workers : Busy(v)' => Busy(v) /\ worker'[v].task = worker[v].task
  BY <1>1 DEF Busy
<1> QED
  BY <1>2 DEF OneTask, KeepInv, Alive, TurnsTo

\* A step of a worker that writes neither row nor file.
LEMMA WorkerOnly ==
    ASSUME SafetyInv, TypeInv, KeepInv, NEW w \in Workers, NEW k, SetWorker(w, k),
           worker[w].pc # "delete", k.pc # "delete", NEW a \in Created, LastOf(a), row[a].start # Null,
           UNCHANGED <<row, newer, fetcher, files, monitor>>, Grows, Holding',
           OneTask', Alive' \subseteq Alive, TurnsTo
    PROVE  KeepInv'
<1>1. /\ row[a].status # "none" /\ row[a].pair \in CCPairs /\ row[a].settings \in Settings
      /\ row = [row EXCEPT ![a] = row[a]] /\ fetcher = [fetcher EXCEPT ![a] = fetcher[a]]
      /\ row[a] \in RowType
  BY CreatedRow, AttemptNumbers DEF Created
<1>2. RowMoves(a, row[a], fetcher[a])
  BY <1>1, Moves
<1>p. PICK p \in CCPairs : p = row[a].pair
  BY <1>1
<1>3. Of(p)' = Of(p) /\ Waiting(p)' = Waiting(p) /\ Apart(p)
  BY WorkSame
<1>4. /\ Store(a, row[a], fetcher[a], Of(p), Waiting(p))
      /\ KeptDocs(row[a], fetcher[a], Of(p), indexed'[row[a].settings])
      /\ Phase(a, row[a], fetcher[a])
  BY <1>1, <1>p, LastKept, KeptGrows DEF Grows
<1>5. Notes' /\ Distinct'
  BY DEF KeepInv, Notes, Distinct
<1> QED
  BY <1>1, <1>2, <1>3, <1>4, <1>5, <1>p, PairStep

LEMMA TakeTakes ==
    ASSUME SafetyInv, TypeInv, KeepInv, NEW w \in Workers, NEW t \in queue, Take(w, t)
    PROVE  KeepInv'
<1> DEFINE a == t.attempt
           found == GetBatch(files, row[a].pair, a, t.num)
<1>1. /\ worker[w].pc = "idle" /\ queue' = queue \ {t}
      /\ UNCHANGED <<row, newer, fetcher, files, monitor, indexed>>
  BY DEF Take, Holds
<1>2. CASE worker' = worker
  BY <1>1, <1>2, RestTakes
<1>3. CASE worker' # worker
  <2>1. row[a].status \notin Terminal
    BY <1>3 DEF Take
  <2>2. PICK d \in found : SetWorker(w, [pc |-> "got", task |-> t, doc |-> d])
    BY <1>3 DEF Take
  <2>3. a \in Created /\ row[a].start # Null /\ t \in Alive
    BY DEF KeepInv, Sends, Alive, Opened
  <2>4. LastOf(a)
    <3>1. row[a] \in RowType /\ row[a].status # "none"
      BY <2>3, CreatedRow, AttemptNumbers DEF Created
    <3>2. row[a].status \in Active
      BY <2>1, <3>1 DEF RowType
    <3> QED
      BY <2>3, <3>2, NotOver DEF KeepInv
  <2> DEFINE k == [pc |-> "got", task |-> t, doc |-> d]
  <2>5. k.pc = "got" /\ k.task = t /\ k.doc = d
    OBVIOUS
  <2>6. HeldFile(k, Of(row[a].pair), indexed'[row[a].settings])
    BY DEF HeldFile, GetBatch, Names, Of
  <2>7. SetWorker(w, k)
    BY <2>2
  <2> HIDE DEF k
  <2>8. worker'[w] = k /\ \A v \in Workers : v # w => worker'[v] = worker[v]
    BY <2>7, WorkerSet
  <2>9. OneTask' /\ Alive' \subseteq Alive /\ TurnsTo
    <3>1. \A v \in Workers : Busy(v)' => (v = w /\ worker'[v].task = t)
                                         \/ (v # w /\ Busy(v) /\ worker'[v].task = worker[v].task)
      BY <2>5, <2>8 DEF Busy
    <3>2. \A v \in Workers : Busy(v) => ~ SameBatch(t, worker[v].task) /\ ~ SameBatch(worker[v].task, t)
      BY DEF KeepInv, OneTask, SameBatch
    <3>3. \A u \in queue' : u \in queue /\ ~ SameBatch(u, t)
      BY <1>1 DEF KeepInv, OneTask
    <3>4. OneTask'
      BY <3>1, <3>2, <3>3 DEF KeepInv, OneTask
    <3>5. Alive' \subseteq Alive /\ TurnsTo
      BY <1>1, <2>3, <2>4, <3>1, <3>3 DEF Alive, TurnsTo
    <3> QED
      BY <3>4, <3>5
  <2>10. Grows
    BY <1>1 DEF Grows
  <2>11. Holding'
    BY <1>1, <2>3, <2>5, <2>6, <2>7, <2>10, HoldingMoves
  <2> QED
    BY <1>1, <2>3, <2>4, <2>5, <2>7, <2>9, <2>10, <2>11, WorkerOnly
<1> QED
  BY <1>2, <1>3

LEMMA ProcessTakes ==
    ASSUME Recoverable, SafetyInv, TypeInv, KeepInv, NEW w \in Workers, Process(w)
    PROVE  KeepInv'
<1> DEFINE a == worker[w].task.attempt
           k == [worker[w] EXCEPT !.pc = "count", !.doc = NoDoc]
<1>1. /\ worker[w].pc = "got" /\ Busy(w) /\ SetWorker(w, k)
      /\ indexed' = [indexed EXCEPT ![row[a].settings] = @ \cup {worker[w].doc}]
      /\ UNCHANGED <<row, newer, fetcher, files, queue, monitor>>
  BY DEF Process, Holds, Recoverable, Busy
<1>2. /\ a \in Created /\ LastOf(a) /\ row[a].start # Null /\ row[a].settings \in Settings
      /\ worker[w] \in WorkType /\ row[a].pair \in CCPairs
      /\ HeldFile(worker[w], Of(row[a].pair), indexed[row[a].settings])
  BY <1>1, AtWorker
<1>3. k.pc = "count" /\ k.doc = NoDoc /\ k.task = worker[w].task
  BY <1>2 DEF WorkType
<1>4. Grows /\ worker[w].doc \in indexed'[row[a].settings]
  <2>1. indexed = [e \in Settings |-> indexed[e]]
    BY DEF TypeInv, OthersTyped
  <2> QED
    BY <1>1, <1>2, <2>1 DEF Grows
<1> HIDE DEF k
<1>5. HeldFile(k, Of(row[a].pair), indexed'[row[a].settings])
  <2>1. PICK g \in Of(row[a].pair) : Names(g, worker[w].task) /\ g.doc = worker[w].doc
    BY <1>1, <1>2 DEF HeldFile
  <2>2. \A h \in Of(row[a].pair) : Names(h, worker[w].task) => h = g
    BY <2>1 DEF KeepInv, Distinct, Of, Names
  <2> QED
    BY <1>3, <1>4, <2>1, <2>2 DEF HeldFile
<1>6. OneTask' /\ Alive' \subseteq Alive /\ TurnsTo
  BY <1>1, <1>3, TaskMoves
<1>7. Holding'
  BY <1>1, <1>2, <1>3, <1>4, <1>5, HoldingMoves
<1> QED
  BY <1>1, <1>2, <1>3, <1>4, <1>6, <1>7, WorkerOnly

\* A worker that lets go of its task.
LEMMA Idle == NoWork.pc = "idle" /\ NoWork.task = NoTask
BY DEF NoWork

LEMMA ProcessRaisesTakes ==
    ASSUME SafetyInv, TypeInv, KeepInv, NEW w \in Workers, ProcessRaises(w)
    PROVE  KeepInv'
<1> DEFINE a == worker[w].task.attempt
<1>1. /\ worker[w].pc = "got" /\ Busy(w) /\ SetWorker(w, NoWork)
      /\ UNCHANGED <<row, newer, fetcher, files, queue, monitor, indexed>>
  BY DEF ProcessRaises, Holds, Busy
<1>2. a \in Created /\ LastOf(a) /\ row[a].start # Null
  BY <1>1, AtWorker
<1>3. Grows
  BY <1>1 DEF Grows
<1>4. OneTask' /\ Alive' \subseteq Alive /\ TurnsTo
  BY <1>1, Idle, TaskMoves
<1>5. Holding'
  BY <1>1, <1>3, Idle, HoldingMoves
<1> QED
  BY <1>1, <1>2, <1>3, <1>4, <1>5, Idle, WorkerOnly

LEMMA KillWorkerTakes ==
    ASSUME Recoverable, SafetyInv, TypeInv, KeepInv, NEW w \in Workers, KillWorker(w)
    PROVE  KeepInv'
<1> DEFINE a == worker[w].task.attempt
           t == worker[w].task
<1>1. /\ worker[w].pc \in {"got", "count"} /\ Busy(w) /\ SetWorker(w, NoWork) /\ queue' = queue \cup {t}
      /\ UNCHANGED <<row, newer, fetcher, files, monitor, indexed>>
  BY DEF KillWorker, WorkSteps, Recoverable, Busy
<1>2. a \in Created /\ LastOf(a) /\ row[a].start # Null /\ t \in Alive
  BY <1>1, AtWorker
<1>3. Grows
  BY <1>1 DEF Grows
<1>4. worker'[w] = NoWork /\ \A v \in Workers : v # w => worker'[v] = worker[v]
  BY <1>1, WorkerSet
<1>5. \A v \in Workers : Busy(v)' => v # w /\ Busy(v) /\ worker'[v].task = worker[v].task
  BY <1>4, Idle DEF Busy
<1>6. OneTask'
  <2>1. \A u \in queue : ~ SameBatch(u, t) /\ ~ SameBatch(t, u)
    BY <1>1 DEF KeepInv, OneTask, SameBatch
  <2>2. \A v \in Workers : Busy(v) /\ v # w => ~ SameBatch(t, worker[v].task)
    BY <1>1 DEF KeepInv, OneTask
  <2> QED
    BY <1>1, <1>5, <2>1, <2>2 DEF KeepInv, OneTask
<1>7. Alive' \subseteq Alive
  BY <1>1, <1>2, <1>5 DEF Alive
<1>8. TurnsTo
  BY <1>1, <1>5 DEF TurnsTo
<1>9. Holding'
  BY <1>1, <1>3, Idle, HoldingMoves
<1> QED
  BY <1>1, <1>2, <1>3, <1>6, <1>7, <1>8, <1>9, Idle, WorkerOnly

\* A file of the attempt of a task is a file of the attempt's pair.
LEMMA OwnFile ==
    ASSUME KeepInv, NEW g \in files, NEW a, g.attempt = a
    PROVE  a \in Created /\ row[a].pair = g.pair
BY DEF KeepInv, Owned, Opened

LEMMA DeleteTakes ==
    ASSUME SafetyInv, TypeInv, KeepInv, NEW w \in Workers, Delete(w)
    PROVE  KeepInv'
<1> DEFINE t == worker[w].task
           a == t.attempt
           f == fetcher[a]
           done == indexed[row[a].settings]
<1>1. /\ worker[w].pc = "delete" /\ Busy(w) /\ SetWorker(w, NoWork)
      /\ files' = DeleteBatch(files, row[a].pair, a, t.num)
      /\ UNCHANGED <<row, newer, fetcher, queue, monitor, indexed>>
  BY DEF Delete, Holds, Busy
<1>p. PICK p \in CCPairs : p = row[a].pair
  BY <1>1, AtWorker
<1>2. /\ a \in Created /\ LastOf(a) /\ row[a].start # Null /\ row[a].settings \in Settings
      /\ row[a].status # "none" /\ Phase(a, row[a], f) /\ SentBy(t, f)
      /\ row = [row EXCEPT ![a] = row[a]] /\ fetcher = [fetcher EXCEPT ![a] = f]
      /\ HeldFile(worker[w], Of(p), done) /\ Store(a, row[a], f, Of(p), Waiting(p))
      /\ KeptDocs(row[a], f, Of(p), done)
  BY <1>1, <1>p, AtWorker
<1>3. \A g \in files : Names(g, t) => g.pair = p
  BY <1>p, OwnFile DEF Names
<1>4. files' = {g \in files : ~ Names(g, t)}
  BY <1>1, <1>p, <1>3 DEF DeleteBatch, Names
<1>5. Of(p)' = {g \in Of(p) : ~ Names(g, t)}
  BY <1>4 DEF Of
<1>6. worker'[w] = NoWork /\ \A v \in Workers : v # w => worker'[v] = worker[v]
  BY <1>1, WorkerSet
<1>7. ASSUME NEW g \in files
      PROVE  ~ CountedFile(g) <=> g \in files' /\ ~ CountedFile(g)'
  <2>1. CASE Names(g, t)
    BY <1>1, <1>4, <2>1 DEF CountedFile, Names
  <2>2. CASE ~ Names(g, t)
    BY <1>4, <1>6, <2>2, Idle DEF CountedFile, Names
  <2> QED
    BY <2>1, <2>2
<1>8. Waiting(p)' = Waiting(p)
  BY <1>4, <1>7 DEF Waiting, Of
<1>9. Apart(p)
  <2> SUFFICES ASSUME NEW q \in CCPairs, q # p
               PROVE  Of(q)' = Of(q) /\ Waiting(q)' = Waiting(q)
    BY DEF Apart
  <2>1. Of(q)' = Of(q)
    BY <1>3, <1>4 DEF Of
  <2>2. Waiting(q)' = Waiting(q)
    BY <1>4, <1>7 DEF Waiting, Of
  <2> QED
    BY <2>1, <2>2
<1>10. f.pc \notin {"list", "rename", "reissue"}
  BY <1>2 DEF SentBy
<1>11. Store(a, row[a], f, Of(p)', Waiting(p)')
  BY <1>2, <1>5, <1>8, <1>10 DEF Store
<1>12. KeptDocs(row[a], f, Of(p)', indexed'[row[a].settings])
  <2>1. \A g \in Of(p) : g \in Of(p)' \/ g.doc \in done
    BY <1>1, <1>2, <1>5 DEF HeldFile
  <2> QED
    BY <1>1, <1>2, <2>1 DEF KeptDocs
<1>13. OneTask' /\ Alive' \subseteq Alive /\ TurnsTo
  BY <1>1, Idle, TaskMoves
<1>14. Holding'
  <2> SUFFICES ASSUME NEW v \in Workers, NEW q \in CCPairs, NEW e \in Settings, Busy(v)',
                      row'[worker'[v].task.attempt].pair = q, row'[worker'[v].task.attempt].settings = e
               PROVE  worker'[v].pc # "errors" /\ HeldFile(worker'[v], Of(q)', indexed'[e])
    BY DEF Holding
  <2>1. v # w /\ worker'[v] = worker[v] /\ Busy(v)
    BY <1>6, Idle DEF Busy
  <2>2. worker[v].pc # "errors" /\ HeldFile(worker[v], Of(q), indexed[e])
    BY <1>1, <2>1 DEF KeepInv, Holding
  <2>3. ~ SameBatch(worker[v].task, t)
    BY <1>1, <2>1 DEF KeepInv, OneTask
  <2>4. Of(q)' \subseteq Of(q) /\ \A g \in Of(q) : Names(g, worker[v].task) => g \in Of(q)'
    BY <1>4, <2>3 DEF Of, Names, SameBatch
  <2> QED
    BY <1>1, <2>1, <2>2, <2>4 DEF HeldFile
<1>15. Distinct' /\ Notes' /\ files' \subseteq files
  BY <1>1, <1>4 DEF KeepInv, Distinct, Notes
<1>16. RowMoves(a, row[a], f) /\ Grows
  BY <1>1, <1>2, Moves DEF Grows
<1>17. row[a].status = "SUCCESS" => row[a].status = "SUCCESS"
  OBVIOUS
<1> QED
  BY <1>p, <1>2, <1>9, <1>11, <1>12, <1>13, <1>14, <1>15, <1>16, <1>17, PairStep

LEMMA CleanUpTakes ==
    ASSUME Recoverable, SafetyInv, TypeInv, KeepInv, CleanUp
    PROVE  KeepInv'
<1> DEFINE a == monitor.attempt
           f == fetcher[a]
           done == indexed[row[a].settings]
<1>1. /\ monitor.pc = "cleanup" /\ files' = CleanupAllBatches(files, row[a].pair) /\ monitor' = NoWatch
      /\ UNCHANGED <<row, newer, fetcher, queue, worker, indexed>>
  BY DEF CleanUp
<1>2. /\ a \in Created /\ LastOf(a) /\ row[a].total # Null /\ Complete(row[a], done)
      /\ Waiting(row[a].pair) = {}
  BY <1>1, NotedComplete
<1>3. /\ row[a].status # "none" /\ row[a].settings \in Settings /\ row[a].pair \in CCPairs
      /\ row = [row EXCEPT ![a] = row[a]] /\ fetcher = [fetcher EXCEPT ![a] = f]
      /\ Phase(a, row[a], f) /\ row[a].start # Null /\ f.pc = "gone"
      /\ row[a].checkpoint = NumBatches
  <2>1. a \in Attempts /\ row[a].status # "none" /\ Phase(a, row[a], f)
    BY <1>2, AttemptNumbers, LastKept DEF Created
  <2>2. f.pc = "gone"
    BY <1>2, <2>1 DEF SafetyInv, Life, RowIsSound
  <2> QED
    BY <1>2, <2>1, <2>2, CreatedRow DEF Phase, Unopened
<1>p. PICK p \in CCPairs : p = row[a].pair
  BY <1>3
<1>4. Store(a, row[a], f, Of(p), Waiting(p)) /\ Waiting(p) = {}
  BY <1>2, <1>3, <1>p, LastKept
<1>5. files' = files \ Of(p)
  BY <1>1, <1>p, PairsFiles DEF CleanupAllBatches, TypeInv
<1>6. Of(p)' = {} /\ Waiting(p)' = {}
  BY <1>5 DEF Of, Waiting
<1>7. Apart(p)
  BY <1>1, <1>5 DEF Apart, Of, Waiting, CountedFile
<1>8. Store(a, row[a], f, Of(p)', Waiting(p)')
  BY <1>3, <1>4, <1>6 DEF Store, TakingOver
<1>9. KeptDocs(row[a], f, Of(p)', indexed'[row[a].settings])
  <2>1. Behind(row[a], f) = NumBatches
    BY <1>3 DEF Behind, Extracting
  <2> QED
    BY <1>1, <1>2, <2>1 DEF KeptDocs, Complete
<1>10. OneTask' /\ Alive' = Alive
  BY <1>1, SameTasks DEF KeepInv
<1>11. TurnsTo /\ Notes'
  BY <1>1 DEF NoWatch, TurnsTo, Busy, Notes
<1>12. Holding'
  <2> SUFFICES ASSUME NEW v \in Workers, NEW q \in CCPairs, NEW e \in Settings, Busy(v),
                      row[worker[v].task.attempt].pair = q, row[worker[v].task.attempt].settings = e
               PROVE  worker[v].pc # "errors" /\ HeldFile(worker[v], Of(q)', indexed[e])
    BY <1>1 DEF Holding, Busy
  <2>1. worker[v].pc # "errors" /\ HeldFile(worker[v], Of(q), indexed[e])
    BY DEF KeepInv, Holding
  <2>2. CASE q # p
    BY <1>7, <2>1, <2>2 DEF Apart
  <2>3. CASE q = p
    <3>1. ASSUME NEW g \in Of(p), Names(g, worker[v].task)
          PROVE  worker[v].pc = "delete"
      <4>1. PICK u \in Workers : worker[u].pc = "delete" /\ Names(g, worker[u].task)
        BY <1>4 DEF Waiting, CountedFile, Names
      <4>2. u = v
        BY <3>1, <4>1 DEF KeepInv, OneTask, Busy, SameBatch, Names
      <4> QED
        BY <4>1, <4>2
    <3>2. worker[v].pc \notin {"got", "count"}
      BY <2>1, <2>3, <3>1 DEF HeldFile
    <3> QED
      BY <1>6, <2>1, <2>3, <3>2 DEF HeldFile
  <2> QED
    BY <2>2, <2>3
<1>13. Distinct' /\ files' \subseteq files
  BY <1>5 DEF KeepInv, Distinct
<1>14. RowMoves(a, row[a], f) /\ Grows
  BY <1>1, <1>2, <1>3, Moves DEF Grows
<1>15. row[a].status = "SUCCESS" => row[a].status = "SUCCESS"
  OBVIOUS
<1> QED
  BY <1>p, <1>2, <1>3, <1>7, <1>8, <1>9, <1>10, <1>11, <1>12, <1>13, <1>14, <1>15, PairStep

\* The batch that a worker is about to count waits in exactly one file.
LEMMA CountMoves ==
    ASSUME SafetyInv, TypeInv, KeepInv, NEW w \in Workers, worker[w].pc = "count",
           NEW k, SetWorker(w, k), k.pc = "delete", k.task = worker[w].task, files' = files,
           NEW p \in CCPairs, p = row[worker[w].task.attempt].pair
    PROVE  /\ Of(p)' = Of(p) /\ Apart(p)
           /\ Waiting(p)' \subseteq Waiting(p)
           /\ Cardinality(Waiting(p)) = Cardinality(Waiting(p)') + 1
           /\ Cardinality(Waiting(p)') \in Nat
<1> DEFINE t == worker[w].task
<1>1. Busy(w) /\ t.attempt \in Created /\ HeldFile(worker[w], Of(p), indexed[row[t.attempt].settings])
  BY AtWorker DEF Busy
<1>2. PICK g \in Of(p) : Names(g, t)
  BY <1>1 DEF HeldFile
<1>3. \A h \in files : Names(h, t) => h = g
  BY <1>2, OwnFile DEF KeepInv, Distinct, Of, Names
<1>4. ~ CountedFile(g)
  BY <1>1, <1>2 DEF CountedFile, KeepInv, OneTask, Busy, SameBatch, Names
<1>5. worker'[w] = k /\ \A v \in Workers : v # w => worker'[v] = worker[v]
  BY WorkerSet
<1>6. \A h : CountedFile(h)' <=> CountedFile(h) \/ Names(h, t)
  BY <1>5 DEF CountedFile, Names
<1>7. Of(p)' = Of(p) /\ Waiting(p)' = Waiting(p) \ {g} /\ g \in Waiting(p)
  BY <1>2, <1>3, <1>4, <1>6 DEF Of, Waiting
<1>8. Apart(p)
  <2>1. ASSUME NEW q \in CCPairs, q # p
        PROVE  Of(q)' = Of(q) /\ Waiting(q)' = Waiting(q)
    <3>1. \A h \in files : h.pair = q => ~ Names(h, t)
      BY <1>2, <1>3, <2>1 DEF Of
    <3> QED
      BY <1>6, <3>1 DEF Of, Waiting
  <2> QED
    BY <2>1 DEF Apart
<1>9. IsFiniteSet(Waiting(p)) /\ IsFiniteSet(Waiting(p)') /\ Cardinality(Waiting(p)') \in Nat
  <2>1. IsFiniteSet(Waiting(p))
    BY StoreFinite DEF TypeInv
  <2>2. Waiting(p)' \subseteq Waiting(p)
    BY <1>7
  <2>3. IsFiniteSet(Waiting(p)')
    BY <2>1, <2>2, FS_Subset
  <2> QED
    BY <2>1, <2>3, FS_CardinalityType
<1>10. Cardinality(Waiting(p)) = Cardinality(Waiting(p)') + 1
  <2> DEFINE left == Waiting(p)'
  <2>1. Waiting(p) = left \cup {g} /\ g \notin left
    BY <1>7
  <2>2. IsFiniteSet(left)
    BY <1>9
  <2> HIDE DEF left
  <2>3. Cardinality(left \cup {g}) = Cardinality(left) + 1
    BY <2>1, <2>2, FS_AddElement
  <2> QED
    BY <2>1, <2>3 DEF left
<1> QED
  BY <1>7, <1>8, <1>9, <1>10

LEMMA CountTakes ==
    ASSUME SafetyInv, TypeInv, KeepInv, NEW w \in Workers, Count(w)
    PROVE  KeepInv'
<1> DEFINE t == worker[w].task
           a == t.attempt
           f == fetcher[a]
           n == row[a].completed + 1
           k == [worker[w] EXCEPT !.pc = "delete"]
           s == [row[a] EXCEPT !.completed = n, !.docs = row[a].docs \/ worker[w].doc = NoDoc]
<1>1. /\ worker[w].pc = "count" /\ Busy(w) /\ Write(a, s)
      /\ UNCHANGED <<fetcher, files, queue, monitor, indexed>>
  BY DEF Count, Holds, Busy
<1>p. PICK p \in CCPairs : p = row[a].pair
  BY <1>1, AtWorker
<1>2. /\ a \in Created /\ LastOf(a) /\ row[a].start # Null /\ row[a].settings \in Settings
      /\ row[a].status # "none" /\ Phase(a, row[a], f) /\ SentBy(t, f) /\ row[a] \in RowType
      /\ row = [row EXCEPT ![a] = row[a]] /\ fetcher = [fetcher EXCEPT ![a] = f]
      /\ HeldFile(worker[w], Of(p), indexed[row[a].settings]) /\ Store(a, row[a], f, Of(p), Waiting(p))
      /\ KeptDocs(row[a], f, Of(p), indexed[row[a].settings]) /\ worker[w] \in WorkType
  BY <1>1, <1>p, AtWorker
<1>3. SetWorker(w, k) /\ k.pc = "delete" /\ k.task = t
  <2>1. worker[w].doc = NoDoc
    BY <1>1, <1>2 DEF HeldFile
  <2>2. SetWorker(w, k)
    BY <2>1 DEF Count
  <2>3. worker[w] \in WorkType
    BY <1>2
  <2>4. k.pc = "delete" /\ k.task = t
    BY <2>3 DEF WorkType
  <2> QED
    BY <2>2, <2>4
<1>4. row[a].completed \in Nat /\ n \in Nat
  <2>1. row[a] \in RowType
    BY <1>2
  <2>2. row[a].completed \in Nat
    BY <2>1 DEF RowType
  <2> QED
    BY <2>2
<1>5. /\ s \in RowType /\ s.pair = row[a].pair /\ s.settings = row[a].settings /\ s.status = row[a].status
      /\ s.start = row[a].start /\ s.upto = row[a].upto /\ s.checkpoint = row[a].checkpoint
      /\ s.total = row[a].total /\ s.completed = n /\ s.reindex = row[a].reindex
  <2> DEFINE y == row[a].docs \/ worker[w].doc = NoDoc
  <2>1. row[a] \in RowType /\ n \in Nat /\ y \in BOOLEAN
    BY <1>2, <1>4
  <2> HIDE DEF n, y
  <2>2. s \in RowType
    <3>1. Fits(row[a], f)
      BY <1>2, AllFit, AttemptNumbers
    <3>2. Fits(s, f)
      BY <2>1, <3>1, PipelineNumbers, NoteFits
    <3> QED
      BY <3>2 DEF Fits
  <2>3. s.pair = row[a].pair /\ s.settings = row[a].settings /\ s.status = row[a].status
    BY <2>1 DEF RowType
  <2>4. s.start = row[a].start /\ s.upto = row[a].upto /\ s.checkpoint = row[a].checkpoint
    BY <2>1 DEF RowType
  <2>5. s.total = row[a].total /\ s.completed = n /\ s.reindex = row[a].reindex
    BY <2>1 DEF RowType
  <2> QED
    BY <2>2, <2>3, <2>4, <2>5
<1> HIDE DEF s, k
<1>6. /\ Of(p)' = Of(p) /\ Apart(p)
      /\ Cardinality(Waiting(p)) = Cardinality(Waiting(p)') + 1 /\ Cardinality(Waiting(p)') \in Nat
      /\ Waiting(p)' \subseteq Waiting(p)
  BY <1>1, <1>3, <1>p, CountMoves
<1>7. NextNumber(s, Waiting(p)') = NextNumber(row[a], Waiting(p))
  BY <1>4, <1>5, <1>6 DEF NextNumber
<1>8. f.pc \notin {"none", "queued", "spawned", "window", "list", "rename", "reissue"}
  BY <1>2 DEF SentBy
<1>9. Store(a, s, f, Of(p)', Waiting(p)')
  BY <1>2, <1>5, <1>6, <1>7, <1>8 DEF Store
<1>10. row[a].total # Null => n <= row[a].total
  <2> SUFFICES ASSUME row[a].total # Null PROVE n <= row[a].total
    OBVIOUS
  <2>1. row[a].total = row[a].completed + Cardinality(Waiting(p))
    BY <1>2 DEF Store, NextNumber
  <2> QED
    BY <1>4, <1>6, <2>1
<1> HIDE DEF n
<1>11. Phase(a, s, f)
  BY <1>2, <1>5, <1>8, <1>10 DEF Phase
<1>12. KeptDocs(s, f, Of(p)', indexed'[s.settings])
  <2>1. Behind(s, f) = Behind(row[a], f)
    BY <1>5 DEF Behind
  <2>2. \A i : DocOf(s, i) = DocOf(row[a], i)
    BY <1>5 DEF DocOf
  <2>3. KeptDocs(s, f, Of(p), indexed[row[a].settings])
    BY <1>2, <2>1, <2>2 DEF KeptDocs
  <2> QED
    BY <1>1, <1>5, <1>6, <2>3
<1>13. OneTask' /\ Alive' \subseteq Alive /\ TurnsTo
  BY <1>1, <1>3, TaskMoves
<1>14. RowMoves(a, s, f) /\ Grows
  BY <1>1, <1>2, <1>5, Moves DEF Grows
<1>15. Notes' /\ Distinct'
  <2>1. row[a].completed <= s.completed
    BY <1>4, <1>5 DEF n
  <2>2. MonitorGoesOn
    BY <1>1, MonitorStays DEF KeepInv
  <2> QED
    BY <1>1, <1>2, <1>5, <1>14, <2>1, <2>2, NotesAfter DEF KeepInv, SafetyInv, Distinct
<1>16. Holding'
  <2>1. ASSUME NEW b \in Created
        PROVE  row'[b].pair = row[b].pair /\ row'[b].settings = row[b].settings
    <3>1. CASE b = a
      BY <1>2, <1>5, <1>14, <3>1, RowsAfter
    <3>2. CASE b # a
      BY <1>2, <1>14, <3>2, RowsAfter, AttemptNumbers
    <3> QED
      BY <3>1, <3>2
  <2>2. HeldFile(k, Of(p), indexed[row[a].settings])
    BY <1>1, <1>2, <1>3 DEF HeldFile
  <2> QED
    BY <1>1, <1>2, <1>3, <1>14, <1>p, <2>1, <2>2, HoldingMoves
<1>17. s.status = "SUCCESS" => row[a].status = "SUCCESS"
  BY <1>5
<1>18. /\ a \in Created /\ LastOf(a) /\ row[a].start # Null
       /\ s.start = row[a].start /\ s.upto = row[a].upto /\ files' \subseteq files
  BY <1>1, <1>2, <1>5
<1> HIDE DEF a, f
<1> QED
  BY <1>p, <1>6, <1>9, <1>11, <1>12, <1>13, <1>14, <1>15, <1>16, <1>17, <1>18, PairStep DEF f

LEMMA PauseTakes ==
    ASSUME Recoverable, SafetyInv, TypeInv, KeepInv, NEW p \in CCPairs, Pause(p)
    PROVE  KeepInv'
<1> DEFINE hit == {a \in Created : row[a].pair = p /\ row[a].status \in Active}
<1>1. /\ row' = [a \in Attempts |-> IF a \in hit THEN [row[a] EXCEPT !.cancel = TRUE] ELSE row[a]]
      /\ fetcher' = [a \in Attempts |-> IF a \in hit /\ fetcher[a].pc = "queued"
                                        THEN Gone ELSE fetcher[a]]
      /\ UNCHANGED <<newer, files, queue, worker, monitor, indexed>>
  BY DEF Pause
<1>2. row = [a \in Attempts |-> row[a]] /\ fetcher = [a \in Attempts |-> fetcher[a]]
  BY DEF TypeInv, RowsTyped
<1>3. CASE hit = {}
  <2>1. row' = row /\ fetcher' = fetcher
    BY <1>1, <1>2, <1>3
  <2> QED
    BY <1>1, <2>1, RestTakes
<1>4. ASSUME NEW a \in hit
      PROVE  KeepInv'
  <2> DEFINE s == [row[a] EXCEPT !.cancel = TRUE]
  <2>1. /\ a \in Created /\ row[a].status \in Active /\ a \in Attempts /\ row[a].pair = p
        /\ row[a].status # "none"
    BY AttemptNumbers, Statuses
  <2>2. row[a] \in RowType /\ LastOf(a)
    BY <2>1, CreatedRow, NotOver DEF KeepInv
  <2>3. \A b \in hit : b = a
    <3>1. \A b \in Created : row[b].settings \in Settings
      BY TargetTyped
    <3>2. \A b \in hit : SameTarget(a, b)
      BY <2>1, <3>1 DEF Recoverable, SameTarget
    <3> QED
      BY <2>1, <3>2 DEF SafetyInv, OneActive
  <2>4. row' = [row EXCEPT ![a] = s]
    BY <1>1, <1>2, <1>4, <2>3
  <2>5. IF fetcher[a].pc = "queued" THEN SetFetcher(a, Gone) ELSE fetcher' = fetcher
    BY <1>1, <1>2, <1>4, <2>3 DEF SetFetcher
  <2>6. Agrees(row[a], s) /\ s.status = row[a].status
    BY <2>1, <2>2 DEF Agrees, RowType
  <2>7. s \in RowType
    BY <2>2 DEF RowType
  <2> HIDE DEF s, hit
  <2>8. Write(a, s) /\ s.status # "SUCCESS"
    BY <1>1, <2>1, <2>4, <2>6, Statuses DEF Write, Active, Terminal, Successful
  <2>9. CASE fetcher[a].pc = "queued"
    BY <1>1, <2>1, <2>5, <2>6, <2>7, <2>8, <2>9, EndTakes DEF MayEnd
  <2>10. CASE fetcher[a].pc # "queued"
    BY <1>1, <2>1, <2>2, <2>5, <2>6, <2>7, <2>8, <2>10, AgreeingWrite, MonitorStays DEF SafetyInv, KeepInv
  <2> QED
    BY <2>9, <2>10
<1> QED
  BY <1>3, <1>4

LEMMA ResumeTakes ==
    ASSUME KeepInv, NEW p \in CCPairs, Resume(p)
    PROVE  KeepInv'
BY RestTakes DEF Resume

\* What Recoverable rules out, and what a worker never comes to.
LEMMA RuledOut ==
    ASSUME Recoverable, KeepInv, TypeInv
    PROVE  /\ ~ MonitorFails
           /\ \A a \in Attempts : ~ SetupRaises(a)
           /\ \A w \in Workers, r \in BOOLEAN : ~ RecordErrors(w, r)
<1>1. ~ MonitorFails
  BY DEF Recoverable, MonitorFails
<1>2. \A a \in Attempts : ~ SetupRaises(a)
  BY DEF Recoverable, SetupRaises
<1>3. ASSUME NEW w \in Workers, worker[w].pc = "errors"
      PROVE  FALSE
  <2>1. Busy(w) /\ worker[w].task.attempt \in Created
    BY <1>3, HolderCreated DEF Busy, KeepInv
  <2>2. row[worker[w].task.attempt].pair \in CCPairs /\ row[worker[w].task.attempt].settings \in Settings
    BY <2>1, TargetTyped
  <2> QED
    BY <1>3, <2>1, <2>2 DEF KeepInv, Holding
<1> QED
  BY <1>1, <1>2, <1>3 DEF RecordErrors, Holds

----------------------------------------------------------------------------
(* A new attempt *)

\* What CreateAttempt does to rows and processes: attempt a is new, and the attempts of
\* its pair before it are over.
Joins(a, s, g) ==
    /\ a \in Attempts /\ a \notin Created /\ \A b \in Created : b < a
    /\ row' = [row EXCEPT ![a] = s] /\ fetcher' = [fetcher EXCEPT ![a] = g]
    /\ s.status \in {"NOT_STARTED", "FAILED"} /\ s.start = Null /\ Unopened(s) /\ ~ s.reindex
    /\ g.pc \in {"queued", "gone"}
    /\ Touch(a) \/ (newer' = newer /\ s.status \notin Terminal)
    /\ \A b \in Created : row[b].pair = s.pair => Over(b)

LEMMA CreateAttemptJoins ==
    ASSUME Recoverable, SafetyInv, TypeInv, KeepInv, NEW p \in CCPairs, NEW e \in Settings,
           NEW r \in Reindexing, NEW sent \in BOOLEAN, CreateAttempt(p, e, r, sent)
    PROVE  /\ \E a, s, g : Joins(a, s, g)
           /\ UNCHANGED <<files, queue, worker, monitor, indexed>> /\ monitor.pc = "idle"
<1> DEFINE a == Cardinality(Created) + 1
           v == IF sent THEN "NOT_STARTED" ELSE "FAILED"
           s == [NoRow EXCEPT !.pair = p, !.settings = e, !.reindex = r, !.status = v]
           g == IF sent THEN [NoFetcher EXCEPT !.pc = "queued"] ELSE Gone
<1>1. /\ a \in Attempts /\ Write(a, s) /\ fetcher' = [fetcher EXCEPT ![a] = g]
      /\ UNCHANGED <<files, queue, worker, monitor, indexed>> /\ monitor.pc = "idle"
      /\ Fence(p, e) /\ Quiet(p)
  BY DEF CreateAttempt, Recoverable
<1>2. a \notin Created /\ \A b \in Created : b < a
  <2>1. Created = 1 .. Cardinality(Created) /\ Cardinality(Created) \in Nat
    BY NumberOfCreated DEF SafetyInv
  <2> HIDE DEF a
  <2>2. \A b \in 1 .. Cardinality(Created) : b < a /\ b # a
    BY <2>1 DEF a
  <2> QED
    BY <2>1, <2>2
<1>3. v \in {"NOT_STARTED", "FAILED"} /\ r = FALSE
  BY DEF Recoverable
<1> HIDE DEF v
<1>4. /\ s.status = v /\ s.pair = p /\ s.start = Null /\ Unopened(s) /\ ~ s.reindex
  BY <1>3 DEF NoRow, Unopened
<1>5. g.pc \in {"queued", "gone"}
  BY NothingToDo DEF NoFetcher
<1> HIDE DEF a, s, g
<1>6. Touch(a) \/ (newer' = newer /\ s.status \notin Terminal)
  BY <1>1 DEF Write
<1>7. ASSUME NEW b \in Created, row[b].pair = p
      PROVE  Over(b)
  <2>1. row[b].settings = e /\ row[b] \in RowType /\ row[b].status # "none"
    <3>1. row[b].settings \in Settings /\ row[b] \in RowType /\ row[b].status # "none"
      BY AttemptNumbers, CreatedRow DEF Created
    <3> QED
      BY <3>1 DEF Recoverable
  <2>2. row[b].status \in Terminal
    BY <1>1, <1>7, <2>1 DEF Fence, RowType
  <2> QED
    BY <1>1, <1>7, <2>2 DEF Quiet, Over, Busy
<1>8. Joins(a, s, g)
  BY <1>1, <1>2, <1>3, <1>4, <1>5, <1>6, <1>7 DEF Joins, Write
<1> QED
  BY <1>1, <1>8

LEMMA JoinedRows ==
    ASSUME TypeInv, NEW a, NEW s, NEW g, Joins(a, s, g)
    PROVE  /\ Created' = Created \cup {a} /\ row'[a] = s /\ fetcher'[a] = g
           /\ \A b \in Created : b # a /\ row'[b] = row[b] /\ fetcher'[b] = fetcher[b]
           /\ \A b, c \in Created : SamePair(b, c)' <=> SamePair(b, c)
           /\ \A b \in Created' : row'[b].start # Null => b \in Created
           /\ \A b, c \in Created' : b < c => b \in Created
<1>1. /\ a \in Attempts /\ row'[a] = s /\ fetcher'[a] = g
      /\ \A b \in Attempts : b # a => row'[b] = row[b] /\ fetcher'[b] = fetcher[b]
  BY DEF Joins, TypeInv, RowsTyped
<1>2. s.status # "none" /\ s.start = Null /\ a \notin Created
  BY DEF Joins
<1>3. Created' = Created \cup {a}
  BY <1>1, <1>2 DEF Created
<1>4. \A b \in Created : b # a /\ row'[b] = row[b] /\ fetcher'[b] = fetcher[b]
  BY <1>1, <1>2, AttemptNumbers
<1>5. \A b, c \in Created' : b < c => b \in Created
  <2>1. ASSUME NEW c \in Created', a < c
        PROVE  FALSE
    <3>1. a \in Nat /\ c \in Nat /\ (c = a \/ c < a)
      BY <1>1, <1>3, AttemptNumbers DEF Joins
    <3> QED
      BY <2>1, <3>1
  <2> QED
    BY <1>3, <2>1
<1> QED
  BY <1>1, <1>2, <1>3, <1>4, <1>5 DEF SamePair

LEMMA JoinsTakes ==
    ASSUME SafetyInv, TypeInv, KeepInv, NEW a, NEW s, NEW g, Joins(a, s, g),
           UNCHANGED <<files, queue, worker, monitor, indexed>>, monitor.pc = "idle"
    PROVE  KeepInv'
<1>1. /\ Created' = Created \cup {a} /\ row'[a] = s /\ fetcher'[a] = g
      /\ \A b \in Created : b # a /\ row'[b] = row[b] /\ fetcher'[b] = fetcher[b]
      /\ \A b, c \in Created : SamePair(b, c)' <=> SamePair(b, c)
      /\ \A b \in Created' : row'[b].start # Null => b \in Created
      /\ \A b, c \in Created' : b < c => b \in Created
  BY JoinedRows
<1>2. Succession'
  <2> SUFFICES ASSUME NEW b \in Created', NEW c \in Created', SamePair(b, c)', b < c
               PROVE  Over(b)'
    BY DEF Succession
  <2>1. b \in Created /\ row'[b] = row[b] /\ fetcher'[b] = fetcher[b]
    BY <1>1
  <2>2. Over(b)
    BY <1>1, <2>1 DEF Joins, KeepInv, Succession, SamePair
  <2> QED
    BY <2>1, <2>2 DEF Over, Busy
<1>3. Ordered'
  <2> SUFFICES ASSUME NEW b \in Created', NEW c \in Created', SamePair(b, c)', b < c,
                      row'[c].status \in Terminal
               PROVE  c \in newer'[b] /\ b \notin newer'[c]
    BY DEF Ordered
  <2>1. b \in Created /\ b # a /\ b \in Attempts /\ c \in Attempts
    BY <1>1, AttemptNumbers DEF Joins
  <2>2. CASE Touch(a)
    <3>1. newer'[b] = newer[b] \cup {a} /\ newer'[c] = IF c = a THEN {} ELSE newer[c] \cup {a}
      BY <2>1, <2>2 DEF Touch
    <3> QED
      BY <1>1, <2>1, <3>1 DEF KeepInv, Ordered
  <2>3. CASE newer' = newer /\ s.status \notin Terminal
    BY <1>1, <2>1, <2>3 DEF KeepInv, Ordered
  <2> QED
    BY <2>2, <2>3 DEF Joins
<1>4. Phases'
  <2>1. Phase(a, s, g)
    <3>1. s.total = Null /\ s.completed = 0 /\ s.checkpoint = Null
      BY DEF Joins, Unopened
    <3>2. s.start = Null /\ Unopened(s) /\ ~ s.reindex /\ g.pc \in {"queued", "gone"}
      BY DEF Joins
    <3>3. Null \notin Nat /\ NumBatches \in Nat
      BY AttemptNumbers
    <3> QED
      BY <3>1, <3>2, <3>3 DEF Phase, TakingOver
  <2> QED
    BY <1>1, <2>1 DEF KeepInv, Phases
<1>5. Starts'
  <2> SUFFICES ASSUME NEW b \in Created', row'[b].start # Null
               PROVE  row'[b].start = EndOfLast(EndsBefore(b))'
    BY DEF Starts
  <2>1. b \in Created
    BY <1>1
  <2>2. \A c \in Created' : SamePair(b, c)' /\ c < b => c \in Created /\ SamePair(b, c)
    BY <1>1, <2>1
  <2>3. EndsBefore(b)' = EndsBefore(b)
    BY <1>1, <2>1, <2>2 DEF EndsBefore
  <2>4. row[b].start = EndOfLast(EndsBefore(b))
    BY <1>1, <2>1 DEF KeepInv, Starts
  <2> QED
    BY <1>1, <2>1, <2>3, <2>4 DEF EndOfLast
<1>6. Owned' /\ Distinct'
  BY <1>1 DEF KeepInv, Owned, Distinct, Opened
<1>7. \A p \in CCPairs : Of(p)' = Of(p) /\ Waiting(p)' = Waiting(p)
  BY SameStore
<1>8. CurrentKept'
  <2> SUFFICES ASSUME NEW b \in Created', NEW p \in CCPairs, NEW e \in Settings, Current(b)',
                      row'[b].pair = p, row'[b].settings = e
               PROVE  Store(b, row'[b], fetcher'[b], Of(p)', Waiting(p)')
                      /\ KeptDocs(row'[b], fetcher'[b], Of(p)', indexed'[e])
    BY DEF CurrentKept
  <2>1. b \in Created /\ row'[b] = row[b] /\ fetcher'[b] = fetcher[b]
    BY <1>1 DEF Current, Opened
  <2>2. Current(b)
    BY <1>1, <2>1 DEF Current, Opened
  <2>3. Store(b, row[b], fetcher[b], Of(p), Waiting(p)) /\ KeptDocs(row[b], fetcher[b], Of(p), indexed[e])
    BY <2>1, <2>2 DEF KeepInv, CurrentKept
  <2> QED
    BY <1>7, <2>1, <2>3
<1>9. Sends' /\ OneTask'
  <2>1. Alive' = Alive /\ OneTask'
    BY SameTasks DEF KeepInv
  <2> QED
    BY <1>1, <2>1 DEF KeepInv, Sends, Opened
<1>10. Holding'
  <2> SUFFICES ASSUME NEW w \in Workers, NEW p \in CCPairs, NEW e \in Settings, Busy(w),
                      row'[worker[w].task.attempt].pair = p, row'[worker[w].task.attempt].settings = e
               PROVE  worker[w].pc # "errors" /\ HeldFile(worker[w], Of(p)', indexed[e])
    BY DEF Holding, Busy
  <2>1. worker[w].task.attempt \in Created
    BY HolderCreated DEF KeepInv
  <2>2. row[worker[w].task.attempt].pair = p /\ row[worker[w].task.attempt].settings = e
    BY <1>1, <2>1
  <2> QED
    BY <1>7, <2>2 DEF KeepInv, Holding
<1>11. Notes'
  BY DEF Notes
<1>12. Successes'
  BY <1>1 DEF KeepInv, Successes, Joins
<1> QED
  BY <1>2, <1>3, <1>4, <1>5, <1>6, <1>8, <1>9, <1>10, <1>11, <1>12 DEF KeepInv

LEMMA CreateAttemptTakes ==
    ASSUME Recoverable, SafetyInv, TypeInv, KeepInv, NEW p \in CCPairs, NEW e \in Settings,
           NEW r \in Reindexing, NEW sent \in BOOLEAN, CreateAttempt(p, e, r, sent)
    PROVE  KeepInv'
BY CreateAttemptJoins, JoinsTakes

----------------------------------------------------------------------------
(* Where an attempt begins *)

LEMMA OneTarget ==
    ASSUME Recoverable, TypeInv, NEW a \in Created, NEW b \in Created
    PROVE  SameTarget(a, b) <=> SamePair(a, b)
<1>1. row[a].settings \in Settings /\ row[b].settings \in Settings
  BY TargetTyped
<1> QED
  BY <1>1 DEF SameTarget, SamePair, Recoverable

\* Of the attempts of one pair that have ended, the latest is the one created last.
LEMMA LatestIsLast ==
    ASSUME TypeInv, Ordered, NEW S \in SUBSET Created, NEW d \in S,
           \A b, c \in S : SamePair(b, c), \A b \in S : row[b].status \in Terminal
    PROVE  Latest(S) \in S /\ newer[Latest(S)] \cap S = {} /\ \A b \in S : b <= Latest(S)
<1>1. S \in SUBSET Attempts
  BY AttemptNumbers
<1>2. Latest(S) \in S /\ newer[Latest(S)] \cap S = {}
  BY <1>1, LatestExists DEF TypeInv
<1>3. ASSUME NEW b \in S, ~ b <= Latest(S)
      PROVE  FALSE
  <2>1. b \in Nat /\ Latest(S) \in Nat
    BY <1>1, <1>2, AttemptNumbers
  <2>2. Latest(S) < b
    BY <1>3, <2>1
  <2> QED
    BY <1>2, <2>2 DEF Ordered
<1> QED
  BY <1>2, <1>3

\* The limit on candidates never hides the latest of them.
LEMMA LastIsRecent ==
    ASSUME Recoverable, TypeInv, Ordered, NEW a \in Created
    PROVE  /\ \A b \in RecentCompleted(a) : b \in Created /\ SamePair(a, b) /\ row[b].status \in Terminal
           /\ RecentCompleted(a) # {} => Latest(RecentCompleted(a)) \in RecentCompleted(a)
           /\ \A b \in Created : SamePair(a, b) /\ row[b].status \in Terminal =>
                  RecentCompleted(a) # {} /\ b <= Latest(RecentCompleted(a))
<1> DEFINE recent == RecentCompleted(a)
           done == {b \in Created : SameTarget(a, b) /\ row[b].status \in Terminal}
<1>1. recent = {b \in done : Cardinality(newer[b] \cap done) < CandidateLimit}
  BY DEF RecentCompleted
<1>2. \A b \in done : b \in Created /\ SamePair(a, b) /\ row[b].status \in Terminal
  BY OneTarget
<1>3. \A b, c \in done : SamePair(b, c)
  BY <1>2 DEF SamePair
<1>4. done \in SUBSET Created /\ recent \in SUBSET done
  BY <1>1
<1> HIDE DEF done, recent
<1>5. ASSUME NEW b \in done
      PROVE  recent # {} /\ b <= Latest(recent)
  <2>1. Latest(done) \in done /\ newer[Latest(done)] \cap done = {} /\ b <= Latest(done)
    BY <1>2, <1>3, <1>4, LatestIsLast DEF TypeInv
  <2>2. Latest(done) \in recent
    <3>1. Cardinality(newer[Latest(done)] \cap done) = 0 /\ 0 < CandidateLimit
      BY <2>1, FS_EmptySet, PipelineAssumption DEF PipelineAssumption
    <3> QED
      BY <1>1, <2>1, <3>1
  <2>3. Latest(recent) \in recent /\ Latest(done) <= Latest(recent)
    BY <1>2, <1>3, <1>4, <2>2, LatestIsLast DEF TypeInv
  <2>4. b \in Nat /\ Latest(done) \in Nat /\ Latest(recent) \in Nat
    BY <1>4, <2>1, <2>3, AttemptNumbers
  <2> QED
    BY <2>1, <2>2, <2>3, <2>4
<1>6. recent # {} => Latest(recent) \in recent
  <2> SUFFICES ASSUME NEW b \in recent PROVE Latest(recent) \in recent
    OBVIOUS
  <2> QED
    BY <1>2, <1>3, <1>4, LatestIsLast DEF TypeInv
<1>7. \A b \in Created : SamePair(a, b) /\ row[b].status \in Terminal => b \in done
  BY OneTarget DEF done
<1> QED
  BY <1>2, <1>4, <1>5, <1>6, <1>7 DEF recent

\* The window begins where the last success before the attempt ended.
LEMMA WindowStart ==
    ASSUME Recoverable, SafetyInv, TypeInv, KeepInv, NEW a \in Attempts, fetcher[a].pc = "window"
    PROVE  Windowed(a).start = EndOfLast(EndsBefore(a)) /\ Windowed(a).start \in Nat
<1>1. /\ a \in Created /\ LastOf(a) /\ row[a].status # "SUCCESS" /\ row[a] \in RowType /\ ~ row[a].reindex
  BY AtFetcher DEF Phase, Successful
<1>2. Windowed(a).start = LastSuccess(a)
  BY <1>1 DEF Windowed, StartOf, RowType
<1>3. LastSuccess(a) \in Nat
  BY LastSuccessIsEnd DEF SafetyInv
<1> DEFINE done == {b \in Created : SameTarget(a, b) /\ row[b].status = "SUCCESS"}
<1>4. done = {b \in Created : SamePair(a, b) /\ b < a /\ row[b].status = "SUCCESS"}
  BY <1>1, OneTarget, OfOnePair
<1>5. LastSuccess(a) = EndOfLast(EndsBefore(a))
  <2>1. LastSuccess(a) = EndOfLast({row[b].upto : b \in done})
    BY DEF LastSuccess, EndOfLast
  <2> HIDE DEF done
  <2>2. EndsBefore(a) = {row[b].upto : b \in done}
    BY <1>4 DEF EndsBefore
  <2> QED
    BY <2>1, <2>2
<1> QED
  BY <1>2, <1>3, <1>5

\* A process that begins afresh.
Afresh(f) == f.pc = "save" /\ f.at = 0 /\ f.checkpoint = 0 /\ f.num = 0

LEMMA BeginsWithout ==
    ASSUME NEW a, NEW recent
    PROVE  /\ Afresh(Begin(a, recent, Null))
           /\ recent # {} /\ row[Latest(recent)].status \in Successful =>
                 \A valid : Afresh(Begin(a, recent, valid))
<1>1. NumBatches # 0
  BY PipelineAssumption DEF PipelineAssumption
<1>2. ~ row[a].reindex /\ ~ (recent # {} /\ row[Latest(recent)].status \in Successful) =>
         Begin(a, recent, Null) = [NoFetcher EXCEPT !.pc = "save", !.checkpoint = 0, !.at = 0]
  BY <1>1 DEF Begin, Resumes
<1>3. \A valid : row[a].reindex \/ (recent # {} /\ row[Latest(recent)].status \in Successful) =>
         Begin(a, recent, valid) = [NoFetcher EXCEPT !.pc = "save"]
  BY DEF Begin
<1>4. /\ Afresh([NoFetcher EXCEPT !.pc = "save"])
      /\ Afresh([NoFetcher EXCEPT !.pc = "save", !.checkpoint = 0, !.at = 0])
  BY DEF Afresh, NoFetcher
<1> QED
  BY <1>2, <1>3, <1>4

\* An attempt from whose end another one goes on.
TakenFrom(a, c, s, f) ==
    /\ c \in Created /\ SamePair(a, c) /\ c < a /\ Over(c) /\ Current(c)
    /\ s.start = row[c].start /\ s.upto = row[c].upto
    /\ f.pc = "list" /\ f.checkpoint = row[c].checkpoint /\ f.at = f.checkpoint
    /\ f.old = row[c].completed

\* No attempt ended with a window up to one that has none yet.
LEMMA NoCheckpointUpTo ==
    ASSUME Recoverable, TypeInv, KeepInv, NEW a \in Created, LastOf(a), row[a].start = Null, NEW start
    PROVE  LatestValidCheckpoint(a, start, a) = Null
<1>1. ASSUME NEW b \in RecentCompleted(a), row[b].upto = a
      PROVE  FALSE
  <2>1. b \in Created /\ SamePair(a, b) /\ Phase(b, row[b], fetcher[b])
        /\ Phase(a, row[a], fetcher[a]) /\ a \in Nat /\ b \in Nat /\ Null \notin Nat
    BY LastIsRecent, AttemptNumbers DEF KeepInv, Phases
  <2>2. row[b].start # Null /\ b # a
    BY <1>1, <2>1 DEF Phase, Unopened
  <2>3. row[b].upto <= b /\ b < a
    BY <2>1, <2>2, OfOnePair DEF Phase
  <2> QED
    BY <1>1, <2>1, <2>3
<1> DEFINE valid == {b \in RecentCompleted(a) : /\ row[b].start = start /\ row[b].upto = a
                                                /\ row[b].status \in {"FAILED", "CANCELED"}
                                                /\ row[b].checkpoint # Null}
<1>2. valid = {}
  BY <1>1
<1>3. LatestValidCheckpoint(a, start, a)
        = IF NoProgress(RecentCompleted(a)) \/ valid = {} THEN Null ELSE row[Latest(valid)].checkpoint
  BY DEF LatestValidCheckpoint
<1> HIDE DEF valid
<1> QED
  BY <1>2, <1>3

\* The attempt just before one in its window: it is over, and current if it has a window.
LEMMA JustBefore ==
    ASSUME Recoverable, SafetyInv, TypeInv, KeepInv, NEW a \in Attempts, fetcher[a].pc = "window",
           NEW c, RecentCompleted(a) # {}, c = Latest(RecentCompleted(a)), c # a
    PROVE  /\ c \in Created /\ SamePair(a, c) /\ c < a /\ Over(c)
           /\ row[c].start # Null => Current(c)
           /\ row[c].status # "SUCCESS" => EndsBefore(a) = EndsBefore(c)
<1>1. a \in Created /\ LastOf(a) /\ row[a].start = Null
  BY AtFetcher DEF Phase
<1>2. c \in Created /\ SamePair(a, c)
  BY <1>1, LastIsRecent DEF KeepInv
<1>3. c < a /\ Over(c)
  BY <1>1, <1>2, OfOnePair DEF KeepInv, Succession, SamePair
<1>4. ASSUME NEW b \in Created, SamePair(a, b), b < a
      PROVE  b <= c
  <2>1. row[b].status \in Terminal
    BY <1>1, <1>4 DEF KeepInv, Succession, SamePair, Over
  <2> QED
    BY <1>1, <1>4, <2>1, LastIsRecent DEF KeepInv
<1>5. ASSUME row[c].start # Null
      PROVE  Current(c)
  <2>1. ASSUME NEW b \in Created, SamePair(c, b), c < b
        PROVE  b = a
    <3>1. SamePair(a, b) /\ b \in Nat /\ c \in Nat
      BY <1>2, <2>1, AttemptNumbers DEF SamePair
    <3>2. b = a \/ b < a
      BY <1>1, <3>1, OfOnePair
    <3> QED
      BY <1>4, <2>1, <3>1, <3>2
  <2> QED
    BY <1>1, <1>2, <1>5, <2>1 DEF Current, Opened
<1>6. ASSUME row[c].status # "SUCCESS"
      PROVE  EndsBefore(a) = EndsBefore(c)
  <2> DEFINE A == {b \in Created : SamePair(a, b) /\ b < a /\ row[b].status = "SUCCESS"}
             C == {b \in Created : SamePair(c, b) /\ b < c /\ row[b].status = "SUCCESS"}
  <2>1. ASSUME NEW b \in Created, row[b].status = "SUCCESS"
        PROVE  (SamePair(a, b) /\ b < a) <=> (SamePair(c, b) /\ b < c)
    <3>1. b \in Nat /\ c \in Nat /\ a \in Nat /\ b # c
      BY <1>1, <1>2, <1>6, <2>1, AttemptNumbers
    <3>2. SamePair(a, b) <=> SamePair(c, b)
      BY <1>2 DEF SamePair
    <3> QED
      BY <1>3, <1>4, <2>1, <3>1, <3>2
  <2>2. A = C
    BY <2>1
  <2>3. EndsBefore(a) = {row[b].upto : b \in A} /\ EndsBefore(c) = {row[b].upto : b \in C}
    BY DEF EndsBefore
  <2> HIDE DEF A, C
  <2> QED
    BY <2>2, <2>3
<1> QED
  BY <1>2, <1>3, <1>5, <1>6

LEMMA CheckpointBefore ==
    ASSUME Recoverable, SafetyInv, TypeInv, KeepInv, NEW a \in Attempts, fetcher[a].pc = "window",
           NEW c, RecentCompleted(a) # {}, c = Latest(RecentCompleted(a)), c # a,
           row[c].status \in {"FAILED", "CANCELED"}, row[c].upto # Null
    PROVE  /\ Windowed(a).start = row[c].start /\ Windowed(a).upto = row[c].upto
           /\ row[c].start # Null /\ row[c].checkpoint # Null /\ Phase(c, row[c], fetcher[c])
           /\ fetcher[c].pc = "gone"
           /\ LatestValidCheckpoint(a, Windowed(a).start, Windowed(a).upto) \in {Null, row[c].checkpoint}
<1>1. /\ c \in Created /\ Over(c) /\ EndsBefore(a) = EndsBefore(c)
      /\ Phase(c, row[c], fetcher[c])
  BY JustBefore DEF KeepInv, Phases
<1>2. a \in Created /\ row[a] \in RowType
  BY AtFetcher
<1>3. fetcher[c].pc = "gone" /\ row[c].start # Null /\ row[c].checkpoint # Null
  BY <1>1 DEF Over, Phase, Unopened, TakingOver
<1>4. Windowed(a).start = row[c].start
  BY <1>1, <1>3, WindowStart DEF KeepInv, Starts
<1>5. Windowed(a).upto = row[c].upto
  BY <1>2 DEF Windowed, EndOf, RowType
<1> DEFINE recent == RecentCompleted(a)
           valid == {b \in recent : /\ row[b].start = row[c].start /\ row[b].upto = row[c].upto
                                    /\ row[b].status \in {"FAILED", "CANCELED"}
                                    /\ row[b].checkpoint # Null}
<1>6. LatestValidCheckpoint(a, row[c].start, row[c].upto)
        = IF NoProgress(recent) \/ valid = {} THEN Null ELSE row[Latest(valid)].checkpoint
  BY DEF LatestValidCheckpoint
<1>7. /\ \A b \in recent : b \in Created /\ SamePair(a, b) /\ row[b].status \in Terminal /\ b <= c
      /\ c \in recent
  BY <1>2, LastIsRecent DEF KeepInv
<1>8. Latest(valid) = c
  <2>1. valid \in SUBSET Created /\ c \in valid
    BY <1>3, <1>7
  <2>2. \A b \in valid : row[b].status \in Terminal /\ b <= c /\ \A d \in valid : SamePair(b, d)
    BY <1>7 DEF SamePair
  <2> HIDE DEF valid
  <2>3. Latest(valid) \in valid /\ c <= Latest(valid)
    BY <2>1, <2>2, LatestIsLast DEF KeepInv
  <2>4. Latest(valid) \in Nat /\ c \in Nat /\ Latest(valid) <= c
    BY <2>1, <2>2, <2>3, AttemptNumbers
  <2> QED
    BY <2>3, <2>4
<1> HIDE DEF valid, recent
<1> QED
  BY <1>1, <1>3, <1>4, <1>5, <1>6, <1>8

\* A window is opened afresh, or where the attempt just before went on.
LEMMA WindowBegins ==
    ASSUME Recoverable, SafetyInv, TypeInv, KeepInv, NEW a \in Attempts, fetcher[a].pc = "window",
           NEW f, f = Begin(a, RecentCompleted(a),
                            LatestValidCheckpoint(a, Windowed(a).start, Windowed(a).upto))
    PROVE  Afresh(f) \/ \E c \in Created : TakenFrom(a, c, Windowed(a), f)
<1> DEFINE recent == RecentCompleted(a)
           valid == LatestValidCheckpoint(a, Windowed(a).start, Windowed(a).upto)
           c == Latest(recent)
<1>1. a \in Created /\ LastOf(a) /\ row[a].start = Null /\ Unopened(row[a]) /\ row[a] \in RowType
  BY AtFetcher DEF Phase
<1>2. CASE valid = Null
  BY <1>2, BeginsWithout
<1>3. CASE recent # {} /\ row[c].status \in Successful
  BY <1>3, BeginsWithout
<1>4. Windowed(a).upto = EndOf(a, recent)
  BY <1>1 DEF Windowed, RowType
<1>5. CASE recent = {} \/ row[c].upto = Null \/ row[c].status \notin {"FAILED", "CANCELED"}
  <2>1. Windowed(a).upto = a
    BY <1>4, <1>5 DEF EndOf
  <2> QED
    BY <1>1, <1>2, <2>1, NoCheckpointUpTo
<1>6. CASE /\ recent # {} /\ row[c].upto # Null /\ row[c].status \in {"FAILED", "CANCELED"}
           /\ valid # Null
  <2>1. c # a
    BY <1>1, <1>6 DEF Unopened
  <2>2. /\ Windowed(a).start = row[c].start /\ Windowed(a).upto = row[c].upto
        /\ row[c].start # Null /\ row[c].checkpoint # Null /\ Phase(c, row[c], fetcher[c])
        /\ fetcher[c].pc = "gone" /\ valid = row[c].checkpoint
    BY <1>6, <2>1, CheckpointBefore
  <2>3. c \in Created /\ SamePair(a, c) /\ c < a /\ Over(c) /\ Current(c)
    BY <1>6, <2>1, <2>2, JustBefore
  <2>4. ~ (row[a].reindex \/ (recent # {} /\ row[c].status \in Successful))
    BY <1>1, <1>6, AtFetcher DEF Phase, Successful
  <2>5. f = IF Resumes(recent, valid, valid)
            THEN [NoFetcher EXCEPT !.pc = "list", !.checkpoint = valid, !.at = valid,
                                   !.old = row[c].completed]
            ELSE [NoFetcher EXCEPT !.pc = "save", !.checkpoint = valid, !.at = valid]
    BY <1>6, <2>4 DEF Begin
  <2>6. CASE Resumes(recent, valid, valid)
    <3>1. f.pc = "list" /\ f.checkpoint = valid /\ f.at = valid /\ f.old = row[c].completed
      BY <2>5, <2>6 DEF NoFetcher
    <3> QED
      BY <2>2, <2>3, <3>1 DEF TakenFrom
  <2>7. CASE ~ Resumes(recent, valid, valid)
    <3>1. valid = 0
      <4>1. ~ Checkpointed /\ ~ (row[c].total # Null /\ valid = NumBatches)
        BY <1>6, <2>7 DEF Resumes
      <4> QED
        BY <2>2, <4>1 DEF Phase
    <3>2. f.pc = "save" /\ f.checkpoint = 0 /\ f.at = 0 /\ f.num = 0
      BY <2>5, <2>7, <3>1 DEF NoFetcher
    <3> QED
      BY <3>2 DEF Afresh
  <2> QED
    BY <2>6, <2>7
<1> QED
  BY <1>2, <1>5, <1>6

LEMMA WindowEnd ==
    ASSUME Recoverable, SafetyInv, TypeInv, KeepInv, NEW a \in Attempts, fetcher[a].pc = "window"
    PROVE  Windowed(a).upto <= a
<1> DEFINE recent == RecentCompleted(a)
           c == Latest(recent)
<1>1. a \in Created /\ LastOf(a) /\ row[a] \in RowType /\ a \in Nat
  BY AtFetcher, AttemptNumbers
<1>2. Windowed(a).upto = EndOf(a, recent)
  BY <1>1 DEF Windowed, RowType
<1>3. ASSUME recent # {}, row[c].upto # Null
      PROVE  row[c].upto <= a
  <2>1. c \in Created /\ SamePair(a, c) /\ c \in Nat
    BY <1>1, <1>3, LastIsRecent, AttemptNumbers DEF KeepInv
  <2>2. row[c].start # Null /\ row[c].upto <= c
    BY <1>3, <2>1 DEF KeepInv, Phases, Phase, Unopened
  <2>3. row[c].upto \in Nat
    <3>1. row[c] \in RowType
      BY <2>1, AttemptNumbers, CreatedRow DEF Created
    <3> QED
      BY <1>3, <3>1 DEF RowType
  <2>4. c = a \/ c < a
    BY <1>1, <2>1, OfOnePair
  <2> QED
    BY <1>1, <2>1, <2>2, <2>3, <2>4
<1> HIDE DEF recent, c
<1> QED
  BY <1>1, <1>2, <1>3 DEF EndOf, c

LEMMA WindowPhase ==
    ASSUME Recoverable, SafetyInv, TypeInv, KeepInv, NEW a \in Attempts, fetcher[a].pc = "window",
           NEW f \in FetcherType, Afresh(f) \/ \E c \in Created : TakenFrom(a, c, Windowed(a), f)
    PROVE  /\ Phase(a, Windowed(a), f) /\ Windowed(a) \in RowType /\ Windowed(a).start # Null
           /\ Windowed(a).pair = row[a].pair /\ Windowed(a).settings = row[a].settings
           /\ Windowed(a).status = row[a].status /\ Windowed(a).total = Null
           /\ Windowed(a).completed = 0
<1> DEFINE s == Windowed(a)
<1>1. /\ row[a] \in RowType /\ Phase(a, row[a], fetcher[a]) /\ row[a].status # "none"
  BY AtFetcher
<1>2. Unopened(row[a]) /\ ~ row[a].reindex
  BY <1>1 DEF Phase
<1>3. s.start # Null /\ s.upto <= a /\ s.start \in Nat
  BY WindowStart, WindowEnd, AttemptNumbers
<1>4. /\ s.reindex = row[a].reindex /\ s.checkpoint = Null /\ s.total = Null /\ s.completed = 0
      /\ s.pair = row[a].pair /\ s.settings = row[a].settings /\ s.status = row[a].status
  BY <1>1, <1>2 DEF Windowed, RowType, Unopened
<1>5. s \in RowType
  BY NothingToDo, WindowedFits DEF SafetyInv, Fits
<1> HIDE DEF s
<1>6. Null <= f.checkpoint /\ f.checkpoint \in Positions /\ Null # NumBatches
  <2>1. f.checkpoint \in Nat /\ f.checkpoint \in Positions /\ NumBatches \in Nat
    BY AttemptNumbers DEF FetcherType
  <2> QED
    BY <2>1 DEF Null
<1>7. f.pc \in {"save", "list"} /\ f.at = f.checkpoint
  BY DEF Afresh, TakenFrom
<1>8. ~ Checkpointed => f.checkpoint \in {0, NumBatches}
  <2>1. ASSUME NEW c \in Created, TakenFrom(a, c, s, f), ~ Checkpointed
        PROVE  f.checkpoint \in {0, NumBatches}
    <3>1. row[c].checkpoint \in {Null, 0, NumBatches} /\ f.checkpoint = row[c].checkpoint
      BY <2>1 DEF TakenFrom, KeepInv, Phases, Phase
    <3>2. f.checkpoint # Null
      BY <1>6, AttemptNumbers
    <3> QED
      BY <3>1, <3>2
  <2> QED
    BY <2>1 DEF Afresh, s
<1>9. Phase(a, s, f)
  BY <1>2, <1>3, <1>4, <1>6, <1>7, <1>8 DEF Phase, TakingOver
<1> QED
  BY <1>3, <1>4, <1>5, <1>9 DEF s

\* No worker is busy with the pair of an attempt that has no window yet.
LEMMA NoWorkYet ==
    ASSUME KeepInv, NEW a \in Created, LastOf(a), row[a].start = Null
    PROVE  /\ \A w \in Workers : Busy(w) => row[worker[w].task.attempt].pair # row[a].pair
           /\ \A t \in Alive : t.attempt # a
           /\ Waiting(row[a].pair) = Of(row[a].pair)
<1>1. \A t \in Alive : t.attempt # a
  BY DEF KeepInv, Sends, Opened
<1>2. \A w \in Workers : Busy(w) => row[worker[w].task.attempt].pair # row[a].pair
  BY <1>1, HeldByLast
<1>3. \A g \in Of(row[a].pair) : ~ CountedFile(g)
  BY <1>2, OwnFile DEF CountedFile, Busy, Of
<1> QED
  BY <1>1, <1>2, <1>3 DEF Waiting

\* What an attempt that goes on from another finds.
LEMMA TakenStore ==
    ASSUME Recoverable, SafetyInv, TypeInv, KeepInv, NEW a \in Created, LastOf(a), row[a].start = Null,
           NEW s \in RowType, s.pair = row[a].pair, s.settings = row[a].settings,
           s.total = Null, NEW f, NEW c \in Created, TakenFrom(a, c, s, f), NEW p, p = row[a].pair
    PROVE  Store(a, s, f, Of(p), Waiting(p)) /\ KeptDocs(s, f, Of(p), indexed[row[a].settings])
<1>1. /\ row[c].pair = p /\ row[c].settings = row[a].settings /\ p \in CCPairs
      /\ row[a].settings \in Settings
  <2>1. SamePair(a, c)
    BY DEF TakenFrom
  <2> QED
    BY <2>1, TargetTyped DEF SamePair, Recoverable
<1>2. c < a /\ Over(c) /\ Current(c)
  BY DEF TakenFrom
<1>3. /\ Store(c, row[c], fetcher[c], Of(p), Waiting(p))
      /\ KeptDocs(row[c], fetcher[c], Of(p), indexed[row[a].settings])
  BY <1>1, <1>2 DEF KeepInv, CurrentKept
<1>4. fetcher[c].pc = "gone" /\ Waiting(p) = Of(p)
  BY <1>2, NoWorkYet DEF Over
<1>5. \A g \in Of(p) : g.attempt = c /\ g.num < row[c].completed + Cardinality(Of(p))
  BY <1>3, <1>4 DEF Store, TakingOver, NextNumber
<1>6. Store(a, s, f, Of(p), Waiting(p))
  <2>1. f.pc = "list" /\ f.old = row[c].completed
    BY DEF TakenFrom
  <2> QED
    BY <1>2, <1>5, <2>1 DEF Store, TakingOver
<1>7. KeptDocs(s, f, Of(p), indexed[row[a].settings])
  <2>1. Behind(s, f) = row[c].checkpoint /\ Behind(row[c], fetcher[c]) = row[c].checkpoint
    BY <1>4 DEF Behind, Extracting, TakenFrom
  <2>2. \A i : DocOf(s, i) = DocOf(row[c], i)
    BY <1>1 DEF DocOf, TakenFrom
  <2> QED
    BY <1>3, <2>1, <2>2 DEF KeptDocs
<1> QED
  BY <1>6, <1>7

\* What an attempt that begins afresh leaves.
LEMMA AfreshStore ==
    ASSUME NEW a, NEW s \in RowType, s.total = Null, s.completed = 0, NEW f, Afresh(f), NEW done
    PROVE  Store(a, s, f, {}, {}) /\ KeptDocs(s, f, {}, done)
<1>1. NextNumber(s, {}) = 0
  BY FS_EmptySet DEF NextNumber
<1>2. f.pc = "save" /\ f.num = 0 /\ Behind(s, f) = 0
  BY DEF Afresh, Behind, Extracting
<1> QED
  BY <1>1, <1>2 DEF Store, TakingOver, KeptDocs

LEMMA WindowTakes ==
    ASSUME Recoverable, SafetyInv, TypeInv, KeepInv, NEW a \in Attempts, Window(a)
    PROVE  KeepInv'
<1> DEFINE s == Windowed(a)
           f == Begin(a, RecentCompleted(a),
                      LatestValidCheckpoint(a, Windowed(a).start, Windowed(a).upto))
           e == row[a].settings
<1>1. /\ fetcher[a].pc = "window" /\ Write(a, s) /\ SetFetcher(a, f)
      /\ files' = IF f.pc = "list" THEN files ELSE CleanupAllBatches(files, row[a].pair)
      /\ UNCHANGED <<queue, worker, monitor, indexed>>
  BY DEF Window, At
<1>2. /\ a \in Created /\ LastOf(a) /\ row[a].start = Null /\ row[a].pair \in CCPairs
      /\ row[a].settings \in Settings /\ row[a].status \notin Successful /\ row[a].status # "none"
      /\ row[a].total = Null
  BY <1>1, AtFetcher DEF Phase
<1>p. PICK p \in CCPairs : p = row[a].pair
  BY <1>2
<1>3. Afresh(f) \/ \E c \in Created : TakenFrom(a, c, s, f)
  BY <1>1, WindowBegins
<1>4. f \in FetcherType
  BY CheckpointTyped, BeginTyped
<1>5. s.start = EndOfLast(EndsBefore(a))
  BY <1>1, WindowStart
<1> HIDE DEF f
<1>6. /\ Phase(a, s, f) /\ s \in RowType /\ s.start # Null /\ s.pair = row[a].pair
      /\ s.settings = e /\ s.status = row[a].status /\ s.total = Null /\ s.completed = 0
  BY <1>1, <1>3, <1>4, WindowPhase
<1> HIDE DEF s
<1>7. files' = files \/ (Afresh(f) /\ files' = files \ Of(p))
  BY <1>1, <1>3, <1>p, PairsFiles DEF TakenFrom, CleanupAllBatches, TypeInv
<1>8. Store(a, s, f, Of(p)', Waiting(p)') /\ KeptDocs(s, f, Of(p)', indexed[e])
  <2>1. CASE Afresh(f)
    <3>1. files' = files \ Of(p)
      BY <1>1, <1>p, <2>1, PairsFiles DEF Afresh, CleanupAllBatches, TypeInv
    <3>2. Of(p)' = {} /\ Waiting(p)' = {}
      BY <3>1 DEF Of, Waiting
    <3> QED
      BY <1>6, <2>1, <3>2, AfreshStore
  <2>2. ASSUME NEW c \in Created, TakenFrom(a, c, s, f)
        PROVE  Store(a, s, f, Of(p)', Waiting(p)') /\ KeptDocs(s, f, Of(p)', indexed[e])
    <3>1. files' = files
      BY <1>1, <2>2 DEF TakenFrom
    <3>2. Of(p)' = Of(p) /\ Waiting(p)' = Waiting(p)
      BY <1>1, <3>1, SameStore
    <3>3. Store(a, s, f, Of(p), Waiting(p)) /\ KeptDocs(s, f, Of(p), indexed[e])
      BY <1>2, <1>6, <1>p, <2>2, TakenStore
    <3> QED
      BY <3>2, <3>3
  <2> QED
    BY <1>3, <2>1, <2>2
<1>9. RowMoves(a, s, f) /\ MonitorGoesOn /\ TurnsTo /\ Grows
  BY <1>1, <1>2, <1>6, Moves, MonitorStays, TurnsNowhere DEF SetFetcher, KeepInv, Grows
<1>10. Notes'
  BY <1>2, <1>6, <1>9, NotesAfter DEF KeepInv, SafetyInv
<1>11. Succession' /\ Ordered' /\ Phases' /\ Starts'
  BY <1>2, <1>5, <1>6, <1>9, SuccessionAfter, OrderedAfter, PhasesAfter, StartsAfter DEF KeepInv
<1>12. Apart(p)
  BY <1>1, <1>7 DEF Apart, Of, Waiting, CountedFile
<1>13. CurrentKept'
  <2>1. \A q \in CCPairs, d \in Settings : s.pair = q /\ s.settings = d /\ s.start # Null =>
           Store(a, s, f, Of(q)', Waiting(q)') /\ KeptDocs(s, f, Of(q)', indexed'[d])
    BY <1>1, <1>6, <1>8, <1>p
  <2>2. Apart(row[a].pair)
    BY <1>12, <1>p DEF Apart
  <2> QED
    BY <1>2, <1>6, <1>9, <2>1, <2>2, CurrentAfter DEF KeepInv
<1>14. files' \subseteq files
  BY <1>7
<1>15. Owned' /\ Distinct'
  BY <1>2, <1>9, <1>14, OwnedAfter DEF KeepInv, Distinct
<1>16. Sends' /\ OneTask'
  <2>1. Alive' = Alive /\ OneTask'
    BY <1>1, SameTasks DEF KeepInv
  <2>2. \A t \in Alive : t.attempt # a
    BY <1>2, NoWorkYet
  <2> QED
    BY <1>2, <1>9, <2>1, <2>2, SendsAfter DEF KeepInv
<1>17. Holding'
  <2> SUFFICES ASSUME NEW w \in Workers, NEW q \in CCPairs, NEW d \in Settings, Busy(w),
                      row'[worker[w].task.attempt].pair = q, row'[worker[w].task.attempt].settings = d
               PROVE  worker[w].pc # "errors" /\ HeldFile(worker[w], Of(q)', indexed[d])
    BY <1>1 DEF Holding, Busy
  <2>1. worker[w].task.attempt \in Created /\ row[worker[w].task.attempt].pair # p
    BY <1>2, <1>p, NoWorkYet, HolderCreated DEF KeepInv
  <2>2. row[worker[w].task.attempt].pair = q /\ row[worker[w].task.attempt].settings = d
    BY <1>2, <1>p, <1>9, <2>1, RowsAfter, AttemptNumbers
  <2>3. worker[w].pc # "errors" /\ HeldFile(worker[w], Of(q), indexed[d])
    BY <2>2 DEF KeepInv, Holding
  <2> QED
    BY <1>12, <2>1, <2>2, <2>3 DEF Apart
<1>18. Successes'
  BY <1>2, <1>6, <1>9, SuccessesAfter DEF KeepInv, Successful
<1> QED
  BY <1>10, <1>11, <1>13, <1>15, <1>16, <1>17, <1>18 DEF KeepInv

----------------------------------------------------------------------------
(* The invariant holds *)

LEMMA KeepInit ==
    ASSUME Init
    PROVE  KeepInv
<1>1. Created = {} /\ files = {} /\ queue = {} /\ monitor.pc = "idle"
  BY DEF Init, Created, NoRow, NoWatch
<1>2. \A w \in Workers : ~ Busy(w)
  BY Idle DEF Init, Busy
<1>3. Alive = {}
  BY <1>1, <1>2 DEF Alive
<1>4. Succession /\ Ordered /\ Phases /\ Starts /\ CurrentKept /\ Successes
  BY <1>1 DEF Succession, Ordered, Phases, Starts, CurrentKept, Successes
<1>5. Owned /\ Distinct /\ Notes
  BY <1>1 DEF Owned, Distinct, Notes
<1>6. Sends /\ OneTask /\ Holding
  BY <1>1, <1>2, <1>3 DEF Sends, OneTask, Holding
<1> QED
  BY <1>4, <1>5, <1>6 DEF KeepInv

LEMMA MonitorTakes ==
    ASSUME Recoverable, SafetyInv, TypeInv, KeepInv, Monitor
    PROVE  KeepInv'
BY CreateAttemptTakes, HeartbeatTimeoutTakes, WatchTakes, CheckProgressTakes, FinishTakes,
   CleanUpTakes, RuledOut DEF Monitor, SafetyInv

LEMMA FetchStepTakes ==
    ASSUME Recoverable, SafetyInv, TypeInv, KeepInv, Uncounted, NEW a \in Attempts, FetchStep(a)
    PROVE  KeepInv'
BY SpawnTakes, StartTakes, WindowTakes, ListTakes, RenameTakes, ReissueTakes, RecountTakes,
   SaveCheckpointTakes, FetchTakes, SendTakes, ReturnTakes, EndingTakes, SetTotalBatchesTakes
   DEF FetchStep

LEMMA WorkStepTakes ==
    ASSUME Recoverable, SafetyInv, TypeInv, KeepInv, NEW w \in Workers, WorkStep(w)
    PROVE  KeepInv'
BY TakeTakes, ProcessTakes, CountTakes, DeleteTakes, RuledOut DEF WorkStep

LEMMA KeepStep ==
    ASSUME Recoverable, SafetyInv, TypeInv, KeepInv, Uncounted, [Next]_vars
    PROVE  KeepInv'
<1>1. CASE Monitor
  BY <1>1, MonitorTakes
<1>2. ASSUME NEW p \in CCPairs, Pause(p) \/ Resume(p)
      PROVE  KeepInv'
  BY <1>2, PauseTakes, ResumeTakes
<1>3. ASSUME NEW a \in Attempts,
             \/ FetchStep(a) \/ Heartbeat(a) \/ TimePasses(a) \/ SetupRaises(a)
             \/ ConnectorRaises(a) \/ ValidationError(a) \/ KillFetcher(a)
      PROVE  KeepInv'
  BY <1>3, FetchStepTakes, HeartbeatTakes, TimePassesTakes, EndingTakes, RuledOut DEF SafetyInv
<1>4. ASSUME NEW w \in Workers, WorkStep(w) \/ ProcessRaises(w) \/ KillWorker(w)
      PROVE  KeepInv'
  BY <1>4, WorkStepTakes, ProcessRaisesTakes, KillWorkerTakes
<1>5. CASE UNCHANGED vars
  BY <1>5, RestTakes DEF vars
<1> QED
  BY <1>1, <1>2, <1>3, <1>4, <1>5 DEF Next

----------------------------------------------------------------------------
(* What the properties take from it *)

\* A process that does not extract is behind nothing.
Resting == \A a \in Attempts : fetcher[a].pc \notin Extracting => fetcher[a].at = 0

LEMMA RestingAfter ==
    ASSUME TypeInv, Resting, NEW a \in Attempts, NEW g, SetFetcher(a, g),
           g.pc \in Extracting \/ g.at = 0
    PROVE  Resting'
BY DEF TypeInv, RowsTyped, Resting, SetFetcher

LEMMA AtRest ==
    ASSUME TypeInv, Resting, NEW a \in Attempts, SetFetcher(a, Gone) \/ SetFetcher(a, Dead)
    PROVE  Resting'
<1>1. Gone.at = 0 /\ Dead.at = 0
  BY DEF Gone, Dead, NoFetcher
<1> QED
  BY <1>1, RestingAfter

\* A process goes on to extract, stays at rest, or ends.
LEMMA FetchStepRests ==
    ASSUME TypeInv, Resting, NEW a \in Attempts, FetchStep(a)
    PROVE  Resting'
<1> DEFINE f == fetcher[a]
<1>1. f \in FetcherType
  BY AllFit DEF Fits
<1>2. CASE Spawn(a)
  <2>1. f.at = 0 /\ SetFetcher(a, [f EXCEPT !.pc = "spawned"])
    BY <1>2 DEF Spawn, At, Resting, Extracting
  <2> QED
    BY <1>1, <2>1, RestingAfter DEF FetcherType
<1>3. CASE Start(a)
  <2>1. f.at = 0 /\ (SetFetcher(a, [f EXCEPT !.pc = "window"]) \/ SetFetcher(a, Dead))
    BY <1>3 DEF Start, At, Resting, Extracting
  <2> QED
    BY <1>1, <2>1, RestingAfter, AtRest DEF FetcherType
<1>4. CASE Window(a)
  <2> DEFINE g == Begin(a, RecentCompleted(a),
                        LatestValidCheckpoint(a, Windowed(a).start, Windowed(a).upto))
  <2>1. SetFetcher(a, g) /\ g.pc \in Extracting
    BY <1>4 DEF Window, Begin, NoFetcher, Extracting
  <2> QED
    BY <2>1, RestingAfter
<1>5. CASE List(a)
  <2>1. SetFetcher(a, [f EXCEPT !.pc = "rename", !.todo = AllBatches(files, row[a].pair)])
    BY <1>5 DEF List
  <2> QED
    BY <1>1, <2>1, RestingAfter DEF FetcherType, Extracting
<1>6. CASE Rename(a)
  <2>1. SetFetcher(a, [f EXCEPT !.pc = "reissue"]) \/ SetFetcher(a, Dead)
    BY <1>6 DEF Rename
  <2> QED
    BY <1>1, <2>1, RestingAfter, AtRest DEF FetcherType, Extracting
<1>7. CASE Reissue(a)
  <2>1. SetFetcher(a, [f EXCEPT !.pc = "recount"]) \/ SetFetcher(a, Dead)
    BY <1>7 DEF Reissue
  <2> QED
    BY <1>1, <2>1, RestingAfter, AtRest DEF FetcherType, Extracting
<1>8. CASE Recount(a)
  <2>1. SetFetcher(a, [f EXCEPT !.pc = "save", !.num = Cardinality(f.todo) + f.old,
                                !.todo = {}, !.old = 0])
    BY <1>8 DEF Recount
  <2> QED
    BY <1>1, <2>1, RestingAfter DEF FetcherType, Extracting
<1>9. CASE SaveCheckpoint(a)
  <2>1. SetFetcher(a, [f EXCEPT !.pc = IF f.checkpoint < NumBatches THEN "run" ELSE "total"])
    BY <1>9 DEF SaveCheckpoint
  <2> QED
    BY <1>1, <2>1, RestingAfter DEF FetcherType, Extracting
<1>10. CASE Fetch(a)
  <2>1. SetFetcher(a, [f EXCEPT !.pc = "send", !.at = f.at + 1])
    BY <1>10 DEF Fetch
  <2> QED
    BY <1>1, <2>1, RestingAfter DEF FetcherType, Extracting
<1>11. CASE Send(a)
  <2>1. SetFetcher(a, [f EXCEPT !.pc = "run", !.num = f.num + 1])
    BY <1>11 DEF Send
  <2> QED
    BY <1>1, <2>1, RestingAfter DEF FetcherType, Extracting
<1>12. CASE Return(a)
  <2>1. SetFetcher(a, [f EXCEPT !.pc = "save", !.checkpoint = f.at])
    BY <1>12 DEF Return
  <2> QED
    BY <1>1, <2>1, RestingAfter DEF FetcherType, Extracting
<1>13. CASE StopSignal(a) \/ NotRunning(a) \/ SetTotalBatches(a) \/ Watchdog(a)
  BY <1>13, AtRest DEF StopSignal, NotRunning, Raise, SetTotalBatches, Watchdog
<1> QED
  BY <1>2, <1>3, <1>4, <1>5, <1>6, <1>7, <1>8, <1>9, <1>10, <1>11, <1>12, <1>13 DEF FetchStep

LEMMA RestingStep ==
    ASSUME TypeInv, Resting, [Next]_vars
    PROVE  Resting'
<1>1. CASE UNCHANGED fetcher
  BY <1>1 DEF Resting
<1>2. ASSUME NEW p \in CCPairs, NEW s \in Settings, NEW r \in Reindexing, NEW sent \in BOOLEAN,
             CreateAttempt(p, s, r, sent)
      PROVE  Resting'
  <2> DEFINE g == IF sent THEN [NoFetcher EXCEPT !.pc = "queued"] ELSE Gone
  <2>1. Cardinality(Created) + 1 \in Attempts /\ SetFetcher(Cardinality(Created) + 1, g)
    BY <1>2 DEF CreateAttempt, SetFetcher
  <2>2. g.at = 0
    BY DEF NoFetcher, Gone
  <2> HIDE DEF g
  <2> QED
    BY <2>1, <2>2, RestingAfter
<1>3. ASSUME NEW p \in CCPairs, Pause(p)
      PROVE  Resting'
  <2>1. \A a \in Attempts : fetcher'[a] = fetcher[a] \/ fetcher'[a] = Gone
    BY <1>3 DEF Pause
  <2> QED
    BY <2>1 DEF Resting, Gone, NoFetcher
<1>4. ASSUME NEW a \in Attempts, FetchStep(a)
      PROVE  Resting'
  BY <1>4, FetchStepRests
<1>5. ASSUME NEW a \in Attempts,
             SetupRaises(a) \/ ConnectorRaises(a) \/ ValidationError(a) \/ KillFetcher(a)
      PROVE  Resting'
  BY <1>5, AtRest DEF SetupRaises, ConnectorRaises, Raise, ValidationError, KillFetcher
<1>6. CASE Monitor
  BY <1>1, <1>2, <1>6 DEF Monitor, HeartbeatTimeout, Watch, CheckProgress, Finish, CleanUp, MonitorFails
<1>7. ASSUME NEW w \in Workers, WorkStep(w) \/ ProcessRaises(w) \/ KillWorker(w)
      PROVE  Resting'
  BY <1>1, <1>7 DEF WorkStep, Take, Process, Count, Delete, RecordErrors, ProcessRaises, KillWorker
<1>8. ASSUME NEW a \in Attempts, Heartbeat(a) \/ TimePasses(a)
      PROVE  Resting'
  BY <1>1, <1>8 DEF Heartbeat, TimePasses
<1>9. ASSUME NEW p \in CCPairs, Resume(p)
      PROVE  Resting'
  BY <1>1, <1>9 DEF Resume
<1>10. CASE UNCHANGED vars
  BY <1>1, <1>10 DEF vars
<1> QED
  BY <1>3, <1>4, <1>5, <1>6, <1>7, <1>8, <1>9, <1>10 DEF Next

LEMMA KeepImpliesSuccess ==
    ASSUME TypeInv, KeepInv
    PROVE  SuccessMeansIndexed
BY TargetTyped DEF KeepInv, Successes, Complete, DocOf, SuccessMeansIndexed, WindowDocs, Doc

LEMMA KeepImpliesCounted ==
    ASSUME KeepInv
    PROVE  CountedOnce
BY DEF KeepInv, Phases, Phase, CountedOnce

\* What the row of an attempt in progress says it has behind it is what KeepInv keeps.
LEMMA BehindInProgress ==
    ASSUME SafetyInv, TypeInv, KeepInv, Resting, NEW a \in Created, row[a].status = "IN_PROGRESS",
           NEW i \in BehindIt(a)
    PROVE  row[a].start # Null /\ LastOf(a) /\ i \in 1 .. Behind(row[a], fetcher[a])
<1>1. LastOf(a) /\ a \in Attempts
  BY NotOver, AttemptNumbers DEF KeepInv, Active
<1>2. Phase(a, row[a], fetcher[a])
  BY DEF KeepInv, Phases
<1>3. CASE row[a].total # Null
  <2>1. fetcher[a].pc = "gone"
    BY <1>1, <1>3 DEF SafetyInv, Life, RowIsSound
  <2>2. row[a].checkpoint = NumBatches /\ row[a].start # Null
    BY <1>2, <1>3 DEF Phase, Unopened
  <2> QED
    BY <1>1, <1>3, <2>1, <2>2 DEF Behind, BehindIt, Extracting
<1>4. CASE row[a].total = Null
  <2>1. i \in 1 .. fetcher[a].at
    BY <1>4 DEF BehindIt
  <2>2. fetcher[a].pc \in Extracting
    BY <1>1, <2>1 DEF Resting
  <2>3. row[a].start # Null
    BY <1>2, <2>2 DEF Phase, Extracting
  <2> QED
    BY <1>1, <2>1, <2>2, <2>3 DEF Behind
<1> QED
  BY <1>3, <1>4

LEMMA KeepImpliesFetched ==
    ASSUME Recoverable, SafetyInv, TypeInv, KeepInv, Resting
    PROVE  FetchedIsKept
<1> SUFFICES ASSUME NEW a \in Created, row[a].status = "IN_PROGRESS", NEW i \in BehindIt(a)
             PROVE  \/ Doc(a, i) \in indexed[row[a].settings]
                    \/ \E f \in AllBatches(files, row[a].pair) : f.doc = Doc(a, i)
  BY DEF FetchedIsKept
<1>1. row[a].start # Null /\ LastOf(a) /\ i \in 1 .. Behind(row[a], fetcher[a])
  BY BehindInProgress
<1>2. row[a].pair \in CCPairs /\ row[a].settings \in Settings
  BY TargetTyped
<1>3. KeptDocs(row[a], fetcher[a], Of(row[a].pair), indexed[row[a].settings])
  BY <1>1, <1>2, LastKept
<1>4. AllBatches(files, row[a].pair) = Of(row[a].pair)
  BY <1>2, PairsFiles DEF TypeInv
<1> QED
  BY <1>1, <1>3, <1>4 DEF KeptDocs, DocOf, Doc

LEMMA KeepImpliesFresh ==
    ASSUME SafetyInv, TypeInv, KeepInv
    PROVE  NumbersAreFresh
<1> SUFFICES ASSUME NEW a \in Created, fetcher[a].pc \in {"save", "run"}, NEW f \in files,
                    f.pair = row[a].pair, f.attempt = a
             PROVE  f.num < fetcher[a].num
  BY DEF NumbersAreFresh
<1>1. fetcher[a].pc \in Extracting /\ a \in Attempts
  BY AttemptNumbers DEF Extracting
<1>2. Store(a, row[a], fetcher[a], Of(row[a].pair), Waiting(row[a].pair)) /\ f \in Of(row[a].pair)
  BY <1>1, AtStore DEF Of
<1> QED
  BY <1>2 DEF Store, TakingOver

----------------------------------------------------------------------------
(* Theorems *)

\* Under the conditions in which the code recovers, the invariant holds at every state
\* of a behaviour in which no reissued batch is counted before the counter is assigned.
THEOREM KeepInvariant ==
    ASSUME Recoverable
    PROVE  Spec /\ []Uncounted => [](SafetyInv /\ TypeInv /\ KeepInv /\ Resting)
<1>1. Init => SafetyInv /\ TypeInv /\ KeepInv /\ Resting
  <2>1. Init => Resting
    BY DEF Init, Resting, NoFetcher
  <2> QED
    BY <2>1, SafetyInit, TypeInit, KeepInit
<1>2. /\ SafetyInv /\ TypeInv /\ KeepInv /\ Resting
      /\ Uncounted /\ [Next]_vars
      => SafetyInv' /\ TypeInv' /\ KeepInv' /\ Resting'
  BY SafetyStep, TypeStep, KeepStep, RestingStep
<1> QED
  BY <1>1, <1>2, PTL DEF Spec

\* An attempt that check_indexing_completion marks a success has every document of its
\* window in the index, whatever it took over from an attempt that failed before it.
THEOREM SuccessCorrect ==
    ASSUME Recoverable
    PROVE  Spec /\ []Uncounted => []SuccessMeansIndexed
<1>1. TypeInv /\ KeepInv => SuccessMeansIndexed
  BY KeepImpliesSuccess
<1> QED
  BY <1>1, KeepInvariant, PTL

\* What an attempt in progress has put behind it, by fetching or by taking over the
\* checkpoint of the one before, is in the index or in a file that reissue_old_batches
\* of a later attempt finds.
THEOREM FetchedCorrect ==
    ASSUME Recoverable
    PROVE  Spec /\ []Uncounted => []FetchedIsKept
<1>1. SafetyInv /\ TypeInv /\ KeepInv /\ Resting => FetchedIsKept
  BY KeepImpliesFetched
<1> QED
  BY <1>1, KeepInvariant, PTL

\* update_batch_completion_and_docs counts a batch once, however often its task is
\* delivered or reissued: the counter never exceeds the total that is waited for.
THEOREM CountedCorrect ==
    ASSUME Recoverable
    PROVE  Spec /\ []Uncounted => []CountedOnce
<1>1. KeepInv => CountedOnce
  BY KeepImpliesCounted
<1> QED
  BY <1>1, KeepInvariant, PTL

\* The number that store_batch is given next is above that of every file that waits:
\* no batch replaces one that was reissued or not yet processed.
THEOREM NumbersCorrect ==
    ASSUME Recoverable
    PROVE  Spec /\ []Uncounted => []NumbersAreFresh
<1>1. SafetyInv /\ TypeInv /\ KeepInv => NumbersAreFresh
  BY KeepImpliesFresh
<1> QED
  BY <1>1, KeepInvariant, PTL
====
