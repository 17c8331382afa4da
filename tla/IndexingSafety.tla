---- MODULE IndexingSafety ----
(***************************************************************************)
(* At most one active attempt per target, and a success that nobody takes  *)
(* back but the monitor that wrote it, before anything builds on it:       *)
(* proofs about IndexingPipeline for any number of cc_pairs, search        *)
(* settings, workers, attempts, batches and faults, with every fault point *)
(* and every option.                                                       *)
(***************************************************************************)
EXTENDS IndexingPipeline, FiniteSetTheorems, WellFoundedInduction, TLAPS

----------------------------------------------------------------------------
(* The form of rows, processes and the monitor's notes *)

RowShape(r) ==
    r \in [status : {r.status}, pair : {r.pair}, settings : {r.settings}, reindex : {r.reindex},
         total : {r.total}, completed : {r.completed}, docs : {r.docs}, start : {r.start},
         upto : {r.upto}, checkpoint : {r.checkpoint}, cancel : {r.cancel}, errors : {r.errors},
         tracked : {r.tracked}]
FetcherShape(f) ==
    f \in [pc : {f.pc}, num : {f.num}, at : {f.at}, checkpoint : {f.checkpoint},
         todo : {f.todo}, old : {f.old}]
MonitorShape(m) ==
    m \in [pc : {m.pc}, attempt : {m.attempt}, total : {m.total}, completed : {m.completed},
         errors : {m.errors}]

Shapes ==
    /\ row = [a \in Attempts |-> row[a]] /\ \A a \in Attempts : RowShape(row[a])
    /\ fetcher = [a \in Attempts |-> fetcher[a]] /\ \A a \in Attempts : FetcherShape(fetcher[a])
    /\ MonitorShape(monitor)

----------------------------------------------------------------------------
(* The inductive invariant *)

\* A process exists only for an attempt that was created; the total of batches is
\* set by the last step of the process; a success has a total.
RowIsSound(r, f) ==
    /\ r.status = "none" => f.pc = "none"
    /\ r.total # Null => f.pc = "gone"
    /\ r.status \in Successful => r.total # Null

\* The attempt the monitor looks at is not a success before the monitor makes it one,
\* and what the monitor takes for complete has a total.
NotesAreSound(m, rows) ==
    m.pc # "idle" =>
        /\ m.attempt \in Attempts /\ rows[m.attempt].status # "none"
        /\ m.pc \in {"check", "finish"} => rows[m.attempt].status \notin Successful
        /\ m.total # Null => rows[m.attempt].total # Null
        /\ m.pc = "finish" => m.total # Null

Life ==
    /\ Shapes
    /\ \A a \in Attempts : RowIsSound(row[a], fetcher[a])
    /\ NotesAreSound(monitor, row)

\* Attempts are numbered in the order of their creation.
Numbered == \E n \in 0 .. MaxAttempts : Created = 1 .. n

\* While an attempt is active, and until the monitor is done with it, no other is
\* created for its target.
NewestActive == \A a \in Created : row[a].status \in Active => Newest(a)
NewestWatched == monitor.pc # "idle" => Newest(monitor.attempt)

SafetyInv == Life /\ Numbered /\ OneActive /\ NewestActive /\ NewestWatched

\* What a step that creates no attempt does to a row: it was r and becomes s.
Kept(r, s) ==
    /\ s.pair = r.pair /\ s.settings = r.settings
    /\ s.status = "none" <=> r.status = "none"
    /\ s.status \in Active => r.status \in Active
    /\ r.status \in Successful => s.status = r.status
    /\ r.total # Null => s.total # Null

RowsKept == \A a \in Attempts : Kept(row[a], row'[a])

\* What the monitor leaves of a row when it withdraws a success.
Carried(r, s) ==
    /\ s.pair = r.pair /\ s.settings = r.settings
    /\ s.status = "none" <=> r.status = "none"
    /\ s.status \in Active => r.status \in Active

RowsCarried == \A a \in Attempts : Carried(row[a], row'[a])

Withdraws == MonitorFails /\ monitor.pc = "cleanup"

FetcherKept(f, g) == f.pc \in {"none", "gone"} => g.pc = f.pc

----------------------------------------------------------------------------
(* Writes *)

SameRow(r, s) == s.status = r.status /\ s.pair = r.pair /\ s.settings = r.settings /\ s.total = r.total

\* What Mark writes.
LEMMA StatusWrite ==
    ASSUME NEW r, RowShape(r), NEW v
    PROVE  LET s == [r EXCEPT !.status = v]
           IN  RowShape(s) /\ s.status = v /\ s.pair = r.pair /\ s.settings = r.settings
               /\ s.total = r.total
BY DEF RowShape

\* Writes that leave status and total alone.
LEMMA TrackedWrite ==
    ASSUME NEW r, RowShape(r), NEW v
    PROVE  RowShape([r EXCEPT !.tracked = v]) /\ SameRow(r, [r EXCEPT !.tracked = v])
BY DEF RowShape, SameRow

LEMMA CancelWrite ==
    ASSUME NEW r, RowShape(r), NEW v
    PROVE  RowShape([r EXCEPT !.cancel = v]) /\ SameRow(r, [r EXCEPT !.cancel = v])
BY DEF RowShape, SameRow

LEMMA ErrorsWrite ==
    ASSUME NEW r, RowShape(r), NEW v
    PROVE  RowShape([r EXCEPT !.errors = v]) /\ SameRow(r, [r EXCEPT !.errors = v])
BY DEF RowShape, SameRow

LEMMA CheckpointWrite ==
    ASSUME NEW r, RowShape(r), NEW v
    PROVE  RowShape([r EXCEPT !.checkpoint = v]) /\ SameRow(r, [r EXCEPT !.checkpoint = v])
BY DEF RowShape, SameRow

LEMMA CompletedWrite ==
    ASSUME NEW r, RowShape(r), NEW v, NEW d
    PROVE  /\ RowShape([r EXCEPT !.completed = v]) /\ SameRow(r, [r EXCEPT !.completed = v])
           /\ RowShape([r EXCEPT !.completed = v, !.docs = d])
           /\ SameRow(r, [r EXCEPT !.completed = v, !.docs = d])
BY DEF RowShape, SameRow

LEMMA WindowWrite ==
    ASSUME NEW r, RowShape(r), NEW v, NEW d
    PROVE  /\ RowShape([r EXCEPT !.start = v, !.upto = d])
           /\ SameRow(r, [r EXCEPT !.start = v, !.upto = d])
BY DEF RowShape, SameRow

LEMMA TotalWrite ==
    ASSUME NEW r, RowShape(r), NEW v
    PROVE  LET s == [r EXCEPT !.total = v]
           IN  RowShape(s) /\ s.status = r.status /\ s.pair = r.pair /\ s.settings = r.settings
               /\ s.total = v
BY DEF RowShape

\* A step that writes the row of one attempt and moves its process.
LEMMA OneRow ==
    ASSUME Life, NEW a \in Attempts,
           NEW s, RowShape(s), Kept(row[a], s), s.status \in Successful => row[a].status \in Successful,
           NEW g, FetcherShape(g), FetcherKept(fetcher[a], g), s.total # Null => g.pc = "gone",
           row' = [row EXCEPT ![a] = s], fetcher' = [fetcher EXCEPT ![a] = g],
           MonitorShape(monitor'), NotesAreSound(monitor', row)
    PROVE  Life' /\ RowsKept
<1>1. row' = [b \in Attempts |-> row'[b]] /\ fetcher' = [b \in Attempts |-> fetcher'[b]]
      BY DEF Life, Shapes
<1>2. row'[a] = s /\ fetcher'[a] = g
      BY DEF Life, Shapes
<1>3. ASSUME NEW b \in Attempts, b # a
      PROVE  row'[b] = row[b] /\ fetcher'[b] = fetcher[b]
      BY <1>3 DEF Life, Shapes
<1>4. Shapes'
      BY <1>1, <1>2, <1>3 DEF Life, Shapes
<1>5. RowsKept
      BY <1>2, <1>3 DEF RowsKept, Kept
<1>6. ASSUME NEW b \in Attempts
      PROVE  RowIsSound(row'[b], fetcher'[b])
      <2>1. CASE b = a
            BY <2>1, <1>2 DEF Life, RowIsSound, Kept, FetcherKept, Successful
      <2>2. CASE b # a
            BY <2>2, <1>3 DEF Life
      <2>. QED BY <2>1, <2>2
<1>7. NotesAreSound(monitor', row')
      BY <1>2, <1>3 DEF NotesAreSound, Kept
<1>. QED BY <1>4, <1>5, <1>6, <1>7 DEF Life

\* A step that writes no row and moves at most the monitor.
LEMMA NoRowWritten ==
    ASSUME Life, UNCHANGED <<row, fetcher>>, MonitorShape(monitor'), NotesAreSound(monitor', row)
    PROVE  Life' /\ RowsKept
BY DEF Life, Shapes, RowsKept, Kept

\* A row is marked failed or canceled.
LEMMA Marked ==
    ASSUME Life, NEW a \in Attempts, NEW v, v \in {"FAILED", "CANCELED"},
           row[a].status # "none", row[a].status \notin Successful, Mark(a, v),
           NEW g, FetcherShape(g), FetcherKept(fetcher[a], g), row[a].total # Null => g.pc = "gone",
           fetcher' = [fetcher EXCEPT ![a] = g],
           MonitorShape(monitor'), NotesAreSound(monitor', row)
    PROVE  Life' /\ RowsKept
<1> DEFINE s == [row[a] EXCEPT !.status = v]
<1>1. RowShape(s) /\ s.status = v /\ s.pair = row[a].pair /\ s.settings = row[a].settings
      /\ s.total = row[a].total
      BY StatusWrite DEF Life, Shapes
<1>2. Kept(row[a], s) /\ s.status \notin Successful
      BY <1>1 DEF Kept, Active, Successful
<1>3. row' = [row EXCEPT ![a] = s]
      BY DEF Mark, Write
<1> HIDE DEF s
<1>. QED BY <1>1, <1>2, <1>3, OneRow

\* A row is written, but neither its status nor its total.
LEMMA Noted ==
    ASSUME Life, NEW a \in Attempts, NEW s, RowShape(s), SameRow(row[a], s),
           NEW g, FetcherShape(g), FetcherKept(fetcher[a], g),
           fetcher[a].pc = "gone" \/ row[a].total # Null => g.pc = "gone",
           row' = [row EXCEPT ![a] = s], fetcher' = [fetcher EXCEPT ![a] = g],
           MonitorShape(monitor'), NotesAreSound(monitor', row)
    PROVE  Life' /\ RowsKept
<1>1. Kept(row[a], s) /\ (s.status \in Successful => row[a].status \in Successful)
      /\ (s.total # Null => g.pc = "gone")
      BY DEF Kept, SameRow
<1>. QED BY <1>1, OneRow

\* Nothing is written over a row or a process.
LEMMA Unwritten ==
    ASSUME Life, NEW a \in Attempts
    PROVE  /\ row = [row EXCEPT ![a] = row[a]] /\ fetcher = [fetcher EXCEPT ![a] = fetcher[a]]
           /\ RowShape(row[a]) /\ SameRow(row[a], row[a])
           /\ FetcherShape(fetcher[a]) /\ FetcherKept(fetcher[a], fetcher[a])
           /\ (row[a].total # Null => fetcher[a].pc = "gone")
           /\ MonitorShape(monitor) /\ NotesAreSound(monitor, row)
BY DEF Life, Shapes, SameRow, FetcherKept, RowIsSound

LEMMA Ends ==
    /\ FetcherShape(Gone) /\ Gone.pc = "gone"
    /\ FetcherShape(Dead) /\ Dead.pc = "dead"
    /\ FetcherShape(NoFetcher) /\ NoFetcher.pc = "none"
BY DEF FetcherShape, Gone, Dead, NoFetcher

LEMMA NoWatchShape == MonitorShape(NoWatch) /\ NoWatch.pc = "idle"
BY DEF MonitorShape, NoWatch

\* A row whose process is at work is no success and was created.
LEMMA AtWork ==
    ASSUME Life, NEW a \in Attempts, fetcher[a].pc \notin {"none", "gone"}
    PROVE  row[a].status # "none" /\ row[a].status \notin Successful /\ row[a].total = Null
BY DEF Life, RowIsSound

----------------------------------------------------------------------------
(* The monitor *)

LEMMA HeartbeatTimeoutKeeps ==
    ASSUME Life, NEW a \in Attempts, HeartbeatTimeout(a)
    PROVE  Life' /\ RowsKept
<1>1. Mark(a, "FAILED") /\ fetcher' = fetcher /\ monitor' = monitor
      BY DEF HeartbeatTimeout
<1>2. row[a].status # "none" /\ row[a].status \notin Successful
      BY DEF HeartbeatTimeout, Successful
<1>. QED BY <1>1, <1>2, Marked, Unwritten

LEMMA WatchKeeps ==
    ASSUME Life, NEW a \in Attempts, Watch(a)
    PROVE  Life' /\ RowsKept
<1>1. row[a].status # "none" /\ row[a].status \notin Successful
      BY DEF Watch, Active, Successful
<1>2. CASE row[a].cancel
      <2>1. Mark(a, "CANCELED") /\ fetcher' = fetcher /\ monitor' = monitor
            BY <1>2 DEF Watch
      <2>. QED BY <1>1, <2>1, Marked, Unwritten
<1>3. CASE ~ row[a].cancel
      <2>1. /\ monitor' = [pc |-> "check", attempt |-> a, total |-> row[a].total,
                           completed |-> row[a].completed, errors |-> row[a].errors]
            /\ row' = row /\ fetcher' = fetcher
            BY <1>3 DEF Watch
      <2>2. MonitorShape(monitor')
            BY <2>1 DEF MonitorShape
      <2>3. NotesAreSound(monitor', row)
            BY <2>1, <1>1 DEF NotesAreSound
      <2>. QED BY <2>1, <2>2, <2>3, NoRowWritten
<1>. QED BY <1>2, <1>3

LEMMA CheckProgressKeeps ==
    ASSUME Life, CheckProgress
    PROVE  Life' /\ RowsKept
<1> DEFINE a == monitor.attempt
<1>1. /\ a \in Attempts /\ row[a].status # "none" /\ row[a].status \notin Successful
      /\ monitor.total # Null => row[a].total # Null
      BY DEF CheckProgress, Life, NotesAreSound
<1>2. MonitorShape(monitor') /\ NotesAreSound(monitor', row) /\ fetcher' = fetcher
      <2>1. CASE WatchedIsComplete
            <3>1. monitor' = [monitor EXCEPT !.pc = "finish"] /\ fetcher' = fetcher
                  BY <2>1 DEF CheckProgress
            <3>2. /\ MonitorShape(monitor') /\ monitor'.pc = "finish"
                  /\ monitor'.attempt = a /\ monitor'.total = monitor.total
                  BY <3>1 DEF Life, Shapes, MonitorShape
            <3>. QED BY <3>1, <3>2, <1>1, <2>1 DEF NotesAreSound, WatchedIsComplete
      <2>2. CASE ~ WatchedIsComplete
            <3>1. monitor' = NoWatch /\ fetcher' = fetcher
                  BY <2>2 DEF CheckProgress
            <3>. QED BY <3>1, NoWatchShape DEF NotesAreSound
      <2>. QED BY <2>1, <2>2
<1>3. \/ Write(a, [row[a] EXCEPT !.tracked = monitor.completed])
      \/ Mark(a, "FAILED")
      \/ row' = row
      BY DEF CheckProgress
<1>4. CASE Write(a, [row[a] EXCEPT !.tracked = monitor.completed])
      <2> DEFINE s == [row[a] EXCEPT !.tracked = monitor.completed]
      <2>1. RowShape(s) /\ SameRow(row[a], s)
            BY <1>1, TrackedWrite DEF Life, Shapes
      <2>2. row' = [row EXCEPT ![a] = s]
            BY <1>4 DEF Write
      <2> HIDE DEF s
      <2>. QED BY <1>1, <1>2, <2>1, <2>2, Noted, Unwritten
<1>5. CASE Mark(a, "FAILED")
      BY <1>1, <1>2, <1>5, Marked, Unwritten
<1>6. CASE row' = row
      BY <1>2, <1>6, NoRowWritten
<1>. QED BY <1>3, <1>4, <1>5, <1>6

\* The one step that makes a success: the attempt has a total.
LEMMA FinishKeeps ==
    ASSUME Life, Finish
    PROVE  Life' /\ RowsKept
<1> DEFINE a == monitor.attempt
           v == IF monitor.errors THEN "COMPLETED_WITH_ERRORS" ELSE "SUCCESS"
           s == [row[a] EXCEPT !.status = v]
<1>1. /\ a \in Attempts /\ row[a].status # "none" /\ row[a].status \notin Successful
      /\ row[a].total # Null
      BY DEF Finish, Life, NotesAreSound
<1>2. RowShape(s) /\ s.status = v /\ s.pair = row[a].pair /\ s.settings = row[a].settings
      /\ s.total = row[a].total
      BY <1>1, StatusWrite DEF Life, Shapes
<1>3. v \in Successful /\ v # "none" /\ v \notin Active
      BY DEF Successful, Active
<1>4. row' = [row EXCEPT ![a] = s] /\ fetcher' = fetcher
      BY DEF Finish, Mark, Write
<1>5. monitor' = [monitor EXCEPT !.pc = "cleanup"]
      BY DEF Finish
<1>6. MonitorShape(monitor') /\ monitor'.pc = "cleanup" /\ monitor'.attempt = a
      BY <1>5 DEF Life, Shapes, MonitorShape
<1> HIDE DEF s, v
<1>7. row'[a] = s /\ \A b \in Attempts : b # a => row'[b] = row[b]
      BY <1>1, <1>4 DEF Life, Shapes
<1>8. Shapes'
      BY <1>1, <1>2, <1>4, <1>6, <1>7 DEF Life, Shapes
<1>9. RowsKept
      BY <1>1, <1>2, <1>3, <1>7 DEF RowsKept, Kept
<1>10. \A b \in Attempts : RowIsSound(row'[b], fetcher'[b])
      BY <1>1, <1>2, <1>3, <1>4, <1>7 DEF Life, RowIsSound
<1>11. NotesAreSound(monitor', row')
      BY <1>1, <1>2, <1>3, <1>6, <1>7 DEF NotesAreSound
<1>. QED BY <1>8, <1>9, <1>10, <1>11 DEF Life

LEMMA CleanUpKeeps ==
    ASSUME Life, CleanUp
    PROVE  Life' /\ RowsKept
<1>1. row' = row /\ fetcher' = fetcher /\ monitor' = NoWatch
      BY DEF CleanUp
<1>. QED BY <1>1, NoWatchShape, NoRowWritten DEF NotesAreSound

LEMMA MonitorFailsKeeps ==
    ASSUME Life, MonitorFails, ~ Withdraws
    PROVE  Life' /\ RowsKept
<1> DEFINE a == monitor.attempt
<1>1. a \in Attempts /\ row[a].status # "none" /\ row[a].status \notin Successful
      BY DEF MonitorFails, Withdraws, Life, NotesAreSound
<1>2. Mark(a, "FAILED") /\ monitor' = NoWatch /\ fetcher' = fetcher
      BY DEF MonitorFails
<1>3. MonitorShape(monitor') /\ NotesAreSound(monitor', row)
      BY <1>2, NoWatchShape DEF NotesAreSound
<1>. QED BY <1>1, <1>2, <1>3, Marked, Unwritten

\* The one step that takes a success back.
LEMMA WithdrawsCarries ==
    ASSUME Life, Withdraws
    PROVE  /\ Life' /\ RowsCarried /\ monitor'.pc = "idle"
           /\ monitor.attempt \in Attempts /\ row'[monitor.attempt].status = "FAILED"
           /\ \A b \in Attempts : b # monitor.attempt => row'[b] = row[b]
<1> DEFINE a == monitor.attempt
           s == [row[a] EXCEPT !.status = "FAILED"]
<1>1. a \in Attempts /\ row[a].status # "none"
      BY DEF Withdraws, Life, NotesAreSound
<1>2. row' = [row EXCEPT ![a] = s] /\ monitor' = NoWatch /\ fetcher' = fetcher
      BY DEF Withdraws, MonitorFails, Mark, Write
<1>3. /\ RowShape(s) /\ s.status = "FAILED" /\ s.pair = row[a].pair
      /\ s.settings = row[a].settings /\ s.total = row[a].total
      BY <1>1, StatusWrite DEF Life, Shapes
<1> HIDE DEF s
<1>4. row'[a] = s /\ \A b \in Attempts : b # a => row'[b] = row[b]
      BY <1>1, <1>2 DEF Life, Shapes
<1>5. Shapes'
      BY <1>1, <1>2, <1>3, <1>4, NoWatchShape DEF Life, Shapes
<1>6. \A b \in Attempts : RowIsSound(row'[b], fetcher'[b])
      BY <1>1, <1>2, <1>3, <1>4 DEF Life, RowIsSound, Successful
<1>7. NotesAreSound(monitor', row')
      BY <1>2, NoWatchShape DEF NotesAreSound
<1>8. RowsCarried
      BY <1>1, <1>3, <1>4 DEF RowsCarried, Carried, Active
<1>. QED BY <1>1, <1>2, <1>3, <1>4, <1>5, <1>6, <1>7, <1>8, NoWatchShape DEF Life

LEMMA PauseKeeps ==
    ASSUME Life, NEW p \in CCPairs, Pause(p)
    PROVE  Life' /\ RowsKept
<1> DEFINE hit == {a \in Created : row[a].pair = p /\ row[a].status \in Active}
<1>1. /\ row' = [a \in Attempts |-> IF a \in hit THEN [row[a] EXCEPT !.cancel = TRUE] ELSE row[a]]
      /\ fetcher' = [a \in Attempts |-> IF a \in hit /\ fetcher[a].pc = "queued"
                                        THEN Gone ELSE fetcher[a]]
      /\ monitor' = monitor
      BY DEF Pause
<1> HIDE DEF hit
<1>2. \A a \in Attempts : RowShape(row'[a]) /\ SameRow(row[a], row'[a])
      BY <1>1, CancelWrite DEF Life, Shapes, SameRow
<1>3. \A a \in Attempts : FetcherShape(fetcher'[a])
      /\ (fetcher'[a] = fetcher[a] \/ (fetcher'[a].pc = "gone" /\ fetcher[a].pc = "queued"))
      BY <1>1, Ends DEF Life, Shapes
<1>4. Shapes'
      BY <1>1, <1>2, <1>3 DEF Life, Shapes
<1>5. RowsKept
      BY <1>2 DEF RowsKept, Kept, SameRow
<1>6. \A a \in Attempts : RowIsSound(row'[a], fetcher'[a])
      BY <1>2, <1>3 DEF Life, RowIsSound, SameRow
<1>7. NotesAreSound(monitor', row')
      BY <1>1, <1>2 DEF Life, NotesAreSound, SameRow
<1>. QED BY <1>4, <1>5, <1>6, <1>7 DEF Life

----------------------------------------------------------------------------
(* The fetcher *)

\* A step of the process that leaves status and total alone.
LEMMA Worked ==
    ASSUME Life, NEW a \in Attempts, fetcher[a].pc \notin {"none", "gone"},
           NEW s, RowShape(s), SameRow(row[a], s), NEW g, FetcherShape(g),
           row' = [row EXCEPT ![a] = s], fetcher' = [fetcher EXCEPT ![a] = g], monitor' = monitor
    PROVE  Life' /\ RowsKept
BY AtWork, Noted, Unwritten DEF FetcherKept

\* A step of the process that writes no row.
LEMMA Moved ==
    ASSUME Life, NEW a \in Attempts, fetcher[a].pc \notin {"none", "gone"},
           NEW g, FetcherShape(g), SetFetcher(a, g), UNCHANGED <<row, monitor>>
    PROVE  Life' /\ RowsKept
BY Worked, Unwritten DEF SetFetcher

\* A step of the process that ends the attempt.
LEMMA Ended ==
    ASSUME Life, NEW a \in Attempts, fetcher[a].pc \notin {"none", "gone"},
           NEW v, v \in {"FAILED", "CANCELED"}, Mark(a, v),
           NEW g, FetcherShape(g), SetFetcher(a, g), monitor' = monitor
    PROVE  Life' /\ RowsKept
BY AtWork, Marked, Unwritten DEF SetFetcher, FetcherKept

LEMMA SpawnKeeps ==
    ASSUME Life, NEW a \in Attempts, Spawn(a)
    PROVE  Life' /\ RowsKept
<1> DEFINE g == [fetcher[a] EXCEPT !.pc = "spawned"]
<1>1. fetcher[a].pc = "queued" /\ SetFetcher(a, g) /\ UNCHANGED <<row, monitor>>
      BY DEF Spawn, At
<1>2. FetcherShape(g)
      BY DEF Life, Shapes, FetcherShape
<1> HIDE DEF g
<1>. QED BY <1>1, <1>2, Moved

LEMMA StartKeeps ==
    ASSUME Life, NEW a \in Attempts, Start(a)
    PROVE  Life' /\ RowsKept
<1>1. fetcher[a].pc = "spawned" /\ monitor' = monitor
      BY DEF Start, At
<1>2. CASE Stopped(a) \/ row[a].status # "NOT_STARTED" \/ row[a].cancel
      <2>1. SetFetcher(a, Dead) /\ row' = row
            BY <1>2 DEF Start
      <2>. QED BY <1>1, <2>1, Ends, Moved
<1>3. CASE ~ (Stopped(a) \/ row[a].status # "NOT_STARTED" \/ row[a].cancel)
      <2> DEFINE g == [fetcher[a] EXCEPT !.pc = "window"]
                 s == [row[a] EXCEPT !.status = "IN_PROGRESS"]
      <2>1. Mark(a, "IN_PROGRESS") /\ SetFetcher(a, g) /\ row[a].status = "NOT_STARTED"
            BY <1>3 DEF Start
      <2>2. FetcherShape(g)
            BY DEF Life, Shapes, FetcherShape
      <2>3. RowShape(s) /\ s.status = "IN_PROGRESS" /\ s.pair = row[a].pair
            /\ s.settings = row[a].settings /\ s.total = row[a].total
            BY StatusWrite DEF Life, Shapes
      <2>4. row' = [row EXCEPT ![a] = s] /\ fetcher' = [fetcher EXCEPT ![a] = g]
            BY <2>1 DEF Mark, Write, SetFetcher
      <2>5. Kept(row[a], s) /\ s.status \notin Successful
            BY <2>1, <2>3 DEF Kept, Active, Successful
      <2>6. s.total = Null /\ FetcherKept(fetcher[a], g)
            BY <1>1, <2>3, AtWork DEF FetcherKept
      <2> HIDE DEF g, s
      <2>. QED BY <1>1, <2>2, <2>3, <2>4, <2>5, <2>6, OneRow, Unwritten
<1>. QED BY <1>2, <1>3

LEMMA WindowedRow ==
    ASSUME Life, NEW a \in Attempts
    PROVE  RowShape(Windowed(a)) /\ SameRow(row[a], Windowed(a))
BY WindowWrite DEF Windowed, Life, Shapes

LEMMA WindowKeeps ==
    ASSUME Life, NEW a \in Attempts, Window(a)
    PROVE  Life' /\ RowsKept
<1> DEFINE recent == RecentCompleted(a)
           valid == LatestValidCheckpoint(a, Windowed(a).start, Windowed(a).upto)
           g == Begin(a, recent, valid)
<1>1. fetcher[a].pc = "window" /\ monitor' = monitor
      /\ row' = [row EXCEPT ![a] = Windowed(a)] /\ fetcher' = [fetcher EXCEPT ![a] = g]
      BY DEF Window, At, Write, SetFetcher
<1> HIDE DEF recent, valid
<1>2. FetcherShape(g)
      <2> DEFINE at == IF valid = Null THEN 0 ELSE valid
                 old == IF recent = {} THEN 0 ELSE row[Latest(recent)].completed
      <2>1. \/ g = [NoFetcher EXCEPT !.pc = "save"]
            \/ g = [NoFetcher EXCEPT !.pc = "list", !.checkpoint = at, !.at = at, !.old = old]
            \/ g = [NoFetcher EXCEPT !.pc = "save", !.checkpoint = at, !.at = at]
            BY Zenon DEF Begin
      <2> HIDE DEF g, at, old
      <2>. QED BY <2>1 DEF NoFetcher, FetcherShape
<1> HIDE DEF g
<1>. QED BY <1>1, <1>2, WindowedRow, Worked

LEMMA SetupRaisesKeeps ==
    ASSUME Life, NEW a \in Attempts, SetupRaises(a)
    PROVE  Life' /\ RowsKept
<1>1. fetcher[a].pc = "window" /\ monitor' = monitor
      /\ row' = [row EXCEPT ![a] = Windowed(a)] /\ fetcher' = [fetcher EXCEPT ![a] = Dead]
      BY DEF SetupRaises, At, Write, SetFetcher
<1>. QED BY <1>1, Ends, WindowedRow, Worked

LEMMA ListKeeps ==
    ASSUME Life, NEW a \in Attempts, List(a)
    PROVE  Life' /\ RowsKept
<1> DEFINE g == [fetcher[a] EXCEPT !.pc = "rename", !.todo = AllBatches(files, row[a].pair)]
<1>1. fetcher[a].pc = "list" /\ SetFetcher(a, g) /\ UNCHANGED <<row, monitor>>
      BY DEF List, At
<1>2. FetcherShape(g)
      BY DEF Life, Shapes, FetcherShape
<1> HIDE DEF g
<1>. QED BY <1>1, <1>2, Moved

LEMMA RenameKeeps ==
    ASSUME Life, NEW a \in Attempts, Rename(a)
    PROVE  Life' /\ RowsKept
<1> DEFINE g == [fetcher[a] EXCEPT !.pc = "reissue"]
<1>1. fetcher[a].pc = "rename" /\ UNCHANGED <<row, monitor>>
      /\ (SetFetcher(a, g) \/ SetFetcher(a, Dead))
      BY DEF Rename, At
<1>2. FetcherShape(g)
      BY DEF Life, Shapes, FetcherShape
<1> HIDE DEF g
<1>. QED BY <1>1, <1>2, Ends, Moved

LEMMA ReissueKeeps ==
    ASSUME Life, NEW a \in Attempts, Reissue(a)
    PROVE  Life' /\ RowsKept
<1> DEFINE g == [fetcher[a] EXCEPT !.pc = "recount"]
<1>1. fetcher[a].pc = "reissue" /\ UNCHANGED <<row, monitor>>
      /\ (SetFetcher(a, g) \/ SetFetcher(a, Dead))
      BY DEF Reissue, At
<1>2. FetcherShape(g)
      BY DEF Life, Shapes, FetcherShape
<1> HIDE DEF g
<1>. QED BY <1>1, <1>2, Ends, Moved

LEMMA RecountKeeps ==
    ASSUME Life, NEW a \in Attempts, Recount(a)
    PROVE  Life' /\ RowsKept
<1> DEFINE f == fetcher[a]
           g == [f EXCEPT !.pc = "save", !.num = Cardinality(f.todo) + f.old, !.todo = {}, !.old = 0]
           s == [row[a] EXCEPT !.completed = f.old]
<1>1. fetcher[a].pc = "recount" /\ monitor' = monitor /\ SetFetcher(a, g)
      BY DEF Recount, At
<1>2. FetcherShape(g)
      BY DEF Life, Shapes, FetcherShape
<1>3. RowShape(s) /\ SameRow(row[a], s)
      BY CompletedWrite DEF Life, Shapes
<1>4. row' = row \/ row' = [row EXCEPT ![a] = s]
      BY DEF Recount, Write
<1>5. CASE row' = row
      <2> HIDE DEF g
      <2>. QED BY <1>1, <1>2, <1>5, Moved
<1>6. CASE row' = [row EXCEPT ![a] = s]
      <2>1. fetcher' = [fetcher EXCEPT ![a] = g]
            BY <1>1 DEF SetFetcher
      <2> HIDE DEF g, s
      <2>. QED BY <1>1, <1>2, <1>3, <1>6, <2>1, Worked
<1>. QED BY <1>4, <1>5, <1>6

LEMMA SaveCheckpointKeeps ==
    ASSUME Life, NEW a \in Attempts, SaveCheckpoint(a)
    PROVE  Life' /\ RowsKept
<1> DEFINE f == fetcher[a]
           g == [f EXCEPT !.pc = IF f.checkpoint < NumBatches THEN "run" ELSE "total"]
           s == [row[a] EXCEPT !.checkpoint = f.checkpoint]
<1>1. fetcher[a].pc = "save" /\ monitor' = monitor
      /\ row' = [row EXCEPT ![a] = s] /\ fetcher' = [fetcher EXCEPT ![a] = g]
      BY DEF SaveCheckpoint, At, Write, SetFetcher
<1>2. FetcherShape(g)
      BY DEF Life, Shapes, FetcherShape
<1>3. RowShape(s) /\ SameRow(row[a], s)
      BY CheckpointWrite DEF Life, Shapes
<1> HIDE DEF g, s
<1>. QED BY <1>1, <1>2, <1>3, Worked

LEMMA FetchKeeps ==
    ASSUME Life, NEW a \in Attempts, Fetch(a)
    PROVE  Life' /\ RowsKept
<1> DEFINE g == [fetcher[a] EXCEPT !.pc = "send", !.at = fetcher[a].at + 1]
<1>1. fetcher[a].pc = "run" /\ SetFetcher(a, g) /\ UNCHANGED <<row, monitor>>
      BY DEF Fetch, At
<1>2. FetcherShape(g)
      BY DEF Life, Shapes, FetcherShape
<1> HIDE DEF g
<1>. QED BY <1>1, <1>2, Moved

LEMMA SendKeeps ==
    ASSUME Life, NEW a \in Attempts, Send(a)
    PROVE  Life' /\ RowsKept
<1> DEFINE g == [fetcher[a] EXCEPT !.pc = "run", !.num = fetcher[a].num + 1]
<1>1. fetcher[a].pc = "send" /\ SetFetcher(a, g) /\ UNCHANGED <<row, monitor>>
      BY DEF Send, At
<1>2. FetcherShape(g)
      BY DEF Life, Shapes, FetcherShape
<1> HIDE DEF g
<1>. QED BY <1>1, <1>2, Moved

LEMMA ReturnKeeps ==
    ASSUME Life, NEW a \in Attempts, Return(a)
    PROVE  Life' /\ RowsKept
<1> DEFINE g == [fetcher[a] EXCEPT !.pc = "save", !.checkpoint = fetcher[a].at]
<1>1. fetcher[a].pc = "run" /\ SetFetcher(a, g) /\ UNCHANGED <<row, monitor>>
      BY DEF Return, At
<1>2. FetcherShape(g)
      BY DEF Life, Shapes, FetcherShape
<1> HIDE DEF g
<1>. QED BY <1>1, <1>2, Moved

LEMMA StopSignalKeeps ==
    ASSUME Life, NEW a \in Attempts, StopSignal(a)
    PROVE  Life' /\ RowsKept
BY Ends, Ended DEF StopSignal, At

LEMMA RaiseKeeps ==
    ASSUME Life, NEW a \in Attempts, fetcher[a].pc = "run", Raise(a)
    PROVE  Life' /\ RowsKept
BY Ends, Ended, Moved DEF Raise

LEMMA ValidationErrorKeeps ==
    ASSUME Life, NEW a \in Attempts, ValidationError(a)
    PROVE  Life' /\ RowsKept
BY Ends, Ended DEF ValidationError, At

\* The one step that sets a total: the process is gone with it.
LEMMA SetTotalBatchesKeeps ==
    ASSUME Life, NEW a \in Attempts, SetTotalBatches(a)
    PROVE  Life' /\ RowsKept
<1> DEFINE s == [row[a] EXCEPT !.total = fetcher[a].num]
<1>1. fetcher[a].pc = "total" /\ monitor' = monitor
      /\ row' = [row EXCEPT ![a] = s] /\ fetcher' = [fetcher EXCEPT ![a] = Gone]
      BY DEF SetTotalBatches, At, Write, SetFetcher
<1>2. RowShape(s) /\ s.status = row[a].status /\ s.pair = row[a].pair
      /\ s.settings = row[a].settings
      BY TotalWrite DEF Life, Shapes
<1>3. row[a].total = Null /\ row[a].status \notin Successful
      BY <1>1, AtWork
<1>4. Kept(row[a], s) /\ s.status \notin Successful
      BY <1>2, <1>3 DEF Kept
<1>5. FetcherKept(fetcher[a], Gone)
      BY <1>1 DEF FetcherKept
<1> HIDE DEF s
<1>. QED BY <1>1, <1>2, <1>4, <1>5, Ends, OneRow, Unwritten

LEMMA WatchdogKeeps ==
    ASSUME Life, NEW a \in Attempts, Watchdog(a)
    PROVE  Life' /\ RowsKept
BY Ends, Ended, Moved DEF Watchdog, At

LEMMA KillFetcherKeeps ==
    ASSUME Life, NEW a \in Attempts, KillFetcher(a)
    PROVE  Life' /\ RowsKept
BY Ends, Moved DEF KillFetcher, FetchSteps

----------------------------------------------------------------------------
(* The workers *)

\* A worker writes to the row of the attempt its task names.
LEMMA CountKeeps ==
    ASSUME Life, NEW w \in Workers, Count(w)
    PROVE  Life' /\ RowsKept
<1> DEFINE a == worker[w].task.attempt
           s == [row[a] EXCEPT !.completed = row[a].completed + 1,
                               !.docs = row[a].docs \/ worker[w].doc = NoDoc]
<1>1. row' = [row EXCEPT ![a] = s] /\ UNCHANGED <<fetcher, monitor>>
      BY DEF Count, Write
<1>2. CASE a \in Attempts
      <2>1. RowShape(s) /\ SameRow(row[a], s)
            BY <1>2, CompletedWrite DEF Life, Shapes
      <2> HIDE DEF s
      <2>. QED BY <1>1, <1>2, <2>1, Noted, Unwritten
<1>3. CASE a \notin Attempts
      <2>1. row' = row
            BY <1>1, <1>3 DEF Life, Shapes
      <2>. QED BY <1>1, <2>1, NoRowWritten DEF Life, Shapes
<1>. QED BY <1>2, <1>3

LEMMA RecordErrorsKeeps ==
    ASSUME Life, NEW w \in Workers, NEW raises \in BOOLEAN, RecordErrors(w, raises)
    PROVE  Life' /\ RowsKept
<1> DEFINE a == worker[w].task.attempt
           s == [row[a] EXCEPT !.errors = TRUE]
<1>1. row' = [row EXCEPT ![a] = s] /\ UNCHANGED <<fetcher, monitor>>
      BY DEF RecordErrors
<1>2. CASE a \in Attempts
      <2>1. RowShape(s) /\ SameRow(row[a], s)
            BY <1>2, ErrorsWrite DEF Life, Shapes
      <2> HIDE DEF s
      <2>. QED BY <1>1, <1>2, <2>1, Noted, Unwritten
<1>3. CASE a \notin Attempts
      <2>1. row' = row
            BY <1>1, <1>3 DEF Life, Shapes
      <2>. QED BY <1>1, <2>1, NoRowWritten DEF Life, Shapes
<1>. QED BY <1>2, <1>3

----------------------------------------------------------------------------
(* All steps *)

LEMMA StepKeeps ==
    ASSUME Life, Next, ~ Withdraws,
           ~ \E p \in CCPairs, q \in Settings, r \in Reindexing, sent \in BOOLEAN :
                CreateAttempt(p, q, r, sent)
    PROVE  Life' /\ RowsKept
<1>1. ASSUME UNCHANGED <<row, fetcher, monitor>>
      PROVE  Life' /\ RowsKept
      BY <1>1, NoRowWritten DEF Life, Shapes
<1>2. ASSUME NEW a \in Attempts, FetchStep(a)
      PROVE  Life' /\ RowsKept
      <2>1. CASE NotRunning(a)
            BY <2>1, RaiseKeeps DEF NotRunning, At
      <2>. QED BY <1>2, <2>1, SpawnKeeps, StartKeeps, WindowKeeps, ListKeeps, RenameKeeps,
                  ReissueKeeps, RecountKeeps, SaveCheckpointKeeps, FetchKeeps, SendKeeps,
                  ReturnKeeps, StopSignalKeeps, SetTotalBatchesKeeps, WatchdogKeeps
               DEF FetchStep
<1>3. ASSUME NEW a \in Attempts,
             Heartbeat(a) \/ TimePasses(a) \/ SetupRaises(a) \/ ConnectorRaises(a)
             \/ ValidationError(a) \/ KillFetcher(a)
      PROVE  Life' /\ RowsKept
      <2>1. CASE Heartbeat(a)
            BY <2>1, <1>1 DEF Heartbeat
      <2>2. CASE TimePasses(a)
            BY <2>2, <1>1 DEF TimePasses
      <2>3. CASE ConnectorRaises(a)
            BY <2>3, RaiseKeeps DEF ConnectorRaises, At
      <2>. QED BY <1>3, <2>1, <2>2, <2>3, SetupRaisesKeeps, ValidationErrorKeeps, KillFetcherKeeps
<1>4. ASSUME NEW w \in Workers, WorkStep(w) \/ ProcessRaises(w) \/ KillWorker(w)
      PROVE  Life' /\ RowsKept
      <2>1. ASSUME NEW t \in queue, Take(w, t)
            PROVE  Life' /\ RowsKept
            BY <2>1, <1>1 DEF Take
      <2>2. CASE Process(w)
            BY <2>2, <1>1 DEF Process
      <2>3. CASE Delete(w)
            BY <2>3, <1>1 DEF Delete
      <2>4. CASE ProcessRaises(w)
            BY <2>4, <1>1 DEF ProcessRaises
      <2>5. CASE KillWorker(w)
            BY <2>5, <1>1 DEF KillWorker
      <2>. QED BY <1>4, <2>1, <2>2, <2>3, <2>4, <2>5, CountKeeps, RecordErrorsKeeps DEF WorkStep
<1>5. ASSUME Monitor
      PROVE  Life' /\ RowsKept
      BY <1>5, HeartbeatTimeoutKeeps, WatchKeeps, CheckProgressKeeps, FinishKeeps, CleanUpKeeps,
         MonitorFailsKeeps DEF Monitor
<1>6. ASSUME NEW p \in CCPairs, Pause(p) \/ Resume(p)
      PROVE  Life' /\ RowsKept
      <2>1. CASE Resume(p)
            BY <2>1, <1>1 DEF Resume
      <2>. QED BY <1>6, <2>1, PauseKeeps
<1>. QED BY <1>2, <1>3, <1>4, <1>5, <1>6 DEF Next

LEMMA KeptIsCarried ==
    ASSUME RowsKept
    PROVE  RowsCarried
BY DEF RowsKept, Kept, RowsCarried, Carried

LEMMA CarriedNumbers ==
    ASSUME RowsCarried, Numbered
    PROVE  Numbered'
<1>1. Created' = Created
      BY DEF RowsCarried, Carried, Created
<1>. QED BY <1>1 DEF Numbered

LEMMA CarriedFence ==
    ASSUME RowsCarried, OneActive
    PROVE  OneActive'
<1>1. Created \subseteq Attempts /\ Created' = Created
      BY DEF RowsCarried, Carried, Created
<1>2. \A a \in Created : (row'[a].status \in Active => row[a].status \in Active)
                         /\ row'[a].pair = row[a].pair /\ row'[a].settings = row[a].settings
      BY <1>1 DEF RowsCarried, Carried
<1>. QED BY <1>1, <1>2 DEF OneActive, SameTarget

LEMMA CarriedNewest ==
    ASSUME RowsCarried, NEW a \in Attempts, Newest(a)
    PROVE  Newest(a)'
<1>1. Created \subseteq Attempts /\ Created' = Created
      BY DEF RowsCarried, Carried, Created
<1>2. \A b \in Attempts : SameTarget(a, b)' <=> SameTarget(a, b)
      BY DEF RowsCarried, Carried, SameTarget
<1>. QED BY <1>1, <1>2 DEF Newest

LEMMA CarriedNewestActive ==
    ASSUME RowsCarried, NewestActive
    PROVE  NewestActive'
<1>1. ASSUME NEW a \in Created', row'[a].status \in Active
      PROVE  Newest(a)'
      <2>1. a \in Attempts /\ a \in Created /\ row[a].status \in Active
            BY <1>1 DEF RowsCarried, Carried, Created
      <2>. QED BY <2>1, CarriedNewest DEF NewestActive
<1>. QED BY <1>1 DEF NewestActive

\* The monitor turns to another attempt only from rest, and only to an active one.
LEMMA MonitorTurns ==
    ASSUME Life, Next
    PROVE  \/ monitor' = monitor \/ monitor'.pc = "idle"
           \/ monitor.pc # "idle" /\ monitor'.attempt = monitor.attempt
           \/ monitor'.attempt \in Attempts /\ row[monitor'.attempt].status \in Active
<1>1. CASE \E p \in CCPairs, q \in Settings, r \in Reindexing, sent \in BOOLEAN :
                CreateAttempt(p, q, r, sent)
      BY <1>1 DEF CreateAttempt
<1>2. ASSUME NEW a \in Attempts, FetchStep(a)
      PROVE  monitor' = monitor
      BY <1>2 DEF FetchStep, Spawn, NotRunning, Raise, Start, Window, List, Rename, Reissue, Recount,
                  SaveCheckpoint, Fetch, Send, Return, StopSignal, SetTotalBatches, Watchdog
<1>3. ASSUME NEW a \in Attempts,
             Heartbeat(a) \/ TimePasses(a) \/ SetupRaises(a) \/ ConnectorRaises(a)
             \/ ValidationError(a) \/ KillFetcher(a)
      PROVE  monitor' = monitor
      BY <1>3 DEF Heartbeat, TimePasses, SetupRaises, ConnectorRaises, Raise, ValidationError, KillFetcher
<1>4. ASSUME NEW w \in Workers, WorkStep(w) \/ ProcessRaises(w) \/ KillWorker(w)
      PROVE  monitor' = monitor
      BY <1>4 DEF WorkStep, ProcessRaises, KillWorker, Take, Process, Count, RecordErrors, Delete
<1>5. ASSUME NEW p \in CCPairs, Pause(p) \/ Resume(p)
      PROVE  monitor' = monitor
      BY <1>5 DEF Pause, Resume
<1>6. CASE Monitor
      <2>1. ASSUME NEW a \in Attempts, HeartbeatTimeout(a)
            PROVE  monitor' = monitor
            BY <2>1 DEF HeartbeatTimeout
      <2>2. ASSUME NEW a \in Attempts, Watch(a), monitor' # monitor
            PROVE  monitor'.attempt = a /\ row[a].status \in Active
            <3>1. monitor' = [pc |-> "check", attempt |-> a, total |-> row[a].total,
                              completed |-> row[a].completed, errors |-> row[a].errors]
                  BY <2>2 DEF Watch
            <3>. QED BY <2>2, <3>1 DEF Watch
      <2>3. CASE CheckProgress
            <3>1. monitor.pc = "check"
                  BY <2>3 DEF CheckProgress
            <3>2. monitor' = [monitor EXCEPT !.pc = "finish"] \/ monitor' = NoWatch
                  BY <2>3 DEF CheckProgress
            <3>3. monitor'.attempt = monitor.attempt \/ monitor'.pc = "idle"
                  BY <3>2, NoWatchShape DEF Life, Shapes, MonitorShape
            <3>. QED BY <3>1, <3>3
      <2>4. CASE Finish
            <3>1. monitor.pc = "finish" /\ monitor' = [monitor EXCEPT !.pc = "cleanup"]
                  BY <2>4 DEF Finish
            <3>2. monitor'.attempt = monitor.attempt
                  BY <3>1 DEF Life, Shapes, MonitorShape
            <3>. QED BY <3>1, <3>2
      <2>5. ASSUME CleanUp \/ MonitorFails
            PROVE  monitor'.pc = "idle"
            BY <2>5, NoWatchShape DEF CleanUp, MonitorFails
      <2>6. ASSUME NEW p \in CCPairs, NEW q \in Settings, NEW r \in Reindexing, NEW sent \in BOOLEAN,
                   CreateAttempt(p, q, r, sent)
            PROVE  monitor' = monitor
            BY <2>6 DEF CreateAttempt
      <2>. QED BY <1>6, <2>1, <2>2, <2>3, <2>4, <2>5, <2>6 DEF Monitor
<1>. QED BY <1>1, <1>2, <1>3, <1>4, <1>5, <1>6 DEF Next

LEMMA CarriedNewestWatched ==
    ASSUME Life, Next, RowsCarried, NewestActive, NewestWatched
    PROVE  NewestWatched'
<1> SUFFICES ASSUME monitor'.pc # "idle", NEW a, a = monitor'.attempt
             PROVE  Newest(a)'
    BY DEF NewestWatched
<1>1. CASE monitor' = monitor
      <2>1. a \in Attempts /\ Newest(a)
            BY <1>1 DEF Life, NotesAreSound, NewestWatched
      <2>. QED BY <1>1, <2>1, CarriedNewest DEF NewestWatched
<1>2. CASE monitor.pc # "idle" /\ monitor'.attempt = monitor.attempt
      <2>1. a \in Attempts /\ Newest(a)
            BY <1>2 DEF Life, NotesAreSound, NewestWatched
      <2>. QED BY <1>2, <2>1, CarriedNewest DEF NewestWatched
<1>3. CASE a \in Attempts /\ row[a].status \in Active
      <2>1. a \in Created /\ Newest(a)
            BY <1>3 DEF Created, Active, NewestActive
      <2>. QED BY <1>3, <2>1, CarriedNewest
<1>. QED BY <1>1, <1>2, <1>3, MonitorTurns

----------------------------------------------------------------------------
(* The step that creates an attempt *)

LEMMA NumberOfCreated ==
    ASSUME Numbered
    PROVE  /\ Cardinality(Created) \in Nat
           /\ Created = 1 .. Cardinality(Created)
           /\ Cardinality(Created) + 1 \notin Created
<1>1. PICK n \in 0 .. MaxAttempts : Created = 1 .. n
      BY DEF Numbered
<1>2. n \in Nat
      BY <1>1, PipelineAssumption DEF PipelineAssumption
<1>3. Cardinality(1 .. n) = n
      BY <1>2, FS_Interval
<1>. QED BY <1>1, <1>2, <1>3

LEMMA CreateAttemptCreates ==
    ASSUME Life, Numbered, NEW p, NEW q, NEW r, NEW sent \in BOOLEAN, CreateAttempt(p, q, r, sent),
           NEW a, a = Cardinality(Created) + 1
    PROVE  /\ a \in Attempts /\ row[a].status = "none"
           /\ Life'
           /\ \A b \in Attempts : b # a => row'[b] = row[b]
           /\ row'[a].status \in {"NOT_STARTED", "FAILED"}
           /\ row'[a].pair = p /\ row'[a].settings = q
<1> DEFINE s == [NoRow EXCEPT !.pair = p, !.settings = q, !.reindex = r,
                              !.status = IF sent THEN "NOT_STARTED" ELSE "FAILED"]
           g == IF sent THEN [NoFetcher EXCEPT !.pc = "queued"] ELSE Gone
<1>1. /\ a \in Attempts /\ monitor.pc = "idle" /\ monitor' = monitor
      /\ row' = [row EXCEPT ![a] = s] /\ fetcher' = [fetcher EXCEPT ![a] = g]
      BY DEF CreateAttempt, Write
<1>2. row[a].status = "none"
      BY <1>1, NumberOfCreated DEF Created
<1>3. /\ RowShape(s) /\ s.pair = p /\ s.settings = q /\ s.total = Null
      /\ s.status \in {"NOT_STARTED", "FAILED"}
      BY DEF NoRow, RowShape
<1>4. FetcherShape(g)
      BY Ends DEF FetcherShape, NoFetcher
<1> HIDE DEF s, g
<1>5. row'[a] = s /\ fetcher'[a] = g
      /\ \A b \in Attempts : b # a => row'[b] = row[b] /\ fetcher'[b] = fetcher[b]
      BY <1>1 DEF Life, Shapes
<1>6. Shapes'
      BY <1>1, <1>3, <1>4, <1>5 DEF Life, Shapes
<1>7. \A b \in Attempts : RowIsSound(row'[b], fetcher'[b])
      BY <1>3, <1>5 DEF Life, RowIsSound, Successful
<1>8. NotesAreSound(monitor', row')
      BY <1>1 DEF NotesAreSound
<1>. QED BY <1>1, <1>2, <1>3, <1>5, <1>6, <1>7, <1>8 DEF Life

LEMMA CreateAttemptNumbers ==
    ASSUME Life, Numbered, NEW p, NEW q, NEW r, NEW sent \in BOOLEAN, CreateAttempt(p, q, r, sent)
    PROVE  Numbered'
<1> DEFINE a == Cardinality(Created) + 1
<1>1. /\ a \in Attempts /\ \A b \in Attempts : b # a => row'[b] = row[b]
      /\ row'[a].status \in {"NOT_STARTED", "FAILED"}
      BY CreateAttemptCreates
<1>2. Created' = Created \cup {a}
      BY <1>1 DEF Created
<1>3. Cardinality(Created) \in Nat /\ Created = 1 .. Cardinality(Created)
      BY NumberOfCreated
<1>4. Created' = 1 .. a /\ a \in 0 .. MaxAttempts
      BY <1>1, <1>2, <1>3, PipelineAssumption DEF Attempts, PipelineAssumption
<1>. QED BY <1>4 DEF Numbered

LEMMA CreateAttemptFence ==
    ASSUME Life, Numbered, OneActive,
           NEW p, NEW q, NEW r, NEW sent \in BOOLEAN, CreateAttempt(p, q, r, sent)
    PROVE  OneActive'
<1> DEFINE a == Cardinality(Created) + 1
<1>1. /\ a \in Attempts /\ \A b \in Attempts : b # a => row'[b] = row[b]
      /\ row'[a].pair = p /\ row'[a].settings = q
      BY CreateAttemptCreates
<1>2. ASSUME NEW b \in Created, row[b].pair = p, row[b].settings = q, row[b].status \in Active
      PROVE  FALSE
      BY <1>2 DEF CreateAttempt, Fence
<1> HIDE DEF a
<1>3. SUFFICES ASSUME NEW b \in Created', NEW c \in Created', row'[b].status \in Active,
                      row'[c].status \in Active, SameTarget(b, c)'
               PROVE  b = c
      BY DEF OneActive
<1>4. b \in Attempts /\ c \in Attempts /\ row'[b].pair = row'[c].pair
      /\ row'[b].settings = row'[c].settings
      BY <1>3 DEF Created, SameTarget
<1>5. CASE b # a /\ c # a
      <2>1. row'[b] = row[b] /\ row'[c] = row[c] /\ b \in Created /\ c \in Created
            BY <1>1, <1>3, <1>4, <1>5 DEF Created
      <2>. QED BY <1>3, <1>4, <2>1 DEF OneActive, SameTarget
<1>6. CASE b # a /\ c = a
      <2>1. row'[b] = row[b] /\ b \in Created
            BY <1>1, <1>3, <1>4, <1>6 DEF Created
      <2>. QED BY <1>1, <1>2, <1>3, <1>4, <1>6, <2>1
<1>7. CASE b = a /\ c # a
      <2>1. row'[c] = row[c] /\ c \in Created
            BY <1>1, <1>3, <1>4, <1>7 DEF Created
      <2>. QED BY <1>1, <1>2, <1>3, <1>4, <1>7, <2>1
<1>. QED BY <1>5, <1>6, <1>7

LEMMA CreateAttemptNewest ==
    ASSUME Life, Numbered, NewestActive,
           NEW p, NEW q, NEW r, NEW sent \in BOOLEAN, CreateAttempt(p, q, r, sent),
           NEW a, a = Cardinality(Created) + 1
    PROVE  NewestActive' /\ NewestWatched'
<1>1. /\ a \in Attempts /\ \A b \in Attempts : b # a => row'[b] = row[b]
      /\ row[a].status = "none" /\ row'[a].status \in {"NOT_STARTED", "FAILED"}
      /\ row'[a].pair = p /\ row'[a].settings = q
      BY CreateAttemptCreates
<1>2. Created' = Created \cup {a} /\ a \notin Created
      BY <1>1 DEF Created
<1>3. \A b \in Created : b <= a
      <2>1. Cardinality(Created) \in Nat /\ Created = 1 .. Cardinality(Created)
            BY NumberOfCreated
      <2>. QED BY <2>1
<1>4. \A b \in Created : row[b].pair = p /\ row[b].settings = q => row[b].status \notin Active
      BY DEF CreateAttempt, Fence
<1>5. a \in Nat
      BY <1>1, PipelineAssumption DEF Attempts, PipelineAssumption
<1>6. Newest(a)'
      BY <1>2, <1>3, <1>5 DEF Newest
<1>7. ASSUME NEW c \in Created', c # a, row'[c].status \in Active
      PROVE  Newest(c)'
      <2>1. c \in Attempts /\ c \in Created /\ row'[c] = row[c]
            BY <1>1, <1>2, <1>7 DEF Created
      <2>2. Newest(c) /\ ~ (row[c].pair = p /\ row[c].settings = q)
            BY <1>4, <1>7, <2>1 DEF NewestActive
      <2>3. SUFFICES ASSUME NEW b \in Created', SameTarget(c, b)'
                     PROVE  b <= c
            BY DEF Newest
      <2>4. b # a
            BY <1>1, <2>1, <2>2, <2>3 DEF SameTarget
      <2>5. b \in Created /\ row'[b] = row[b]
            BY <1>1, <1>2, <2>3, <2>4 DEF Created
      <2>. QED BY <2>1, <2>2, <2>3, <2>5 DEF Newest, SameTarget
<1>8. monitor'.pc = "idle"
      BY DEF CreateAttempt
<1>. QED BY <1>6, <1>7, <1>8 DEF NewestActive, NewestWatched

----------------------------------------------------------------------------
(* The theorems *)

LEMMA SafetyInit ==
    ASSUME Init
    PROVE  SafetyInv
<1>1. Shapes
      BY Ends, NoWatchShape DEF Init, Shapes, NoRow, RowShape
<1>2. \A a \in Attempts : RowIsSound(row[a], fetcher[a])
      BY Ends DEF Init, NoRow, RowIsSound, Successful
<1>3. NotesAreSound(monitor, row)
      BY NoWatchShape DEF Init, NotesAreSound
<1>4. Created = {}
      BY DEF Init, NoRow, Created
<1>5. Numbered
      <2>1. Created = 1 .. 0 /\ 0 \in 0 .. MaxAttempts
            BY <1>4, PipelineAssumption DEF PipelineAssumption
      <2>. QED BY <2>1 DEF Numbered
<1>6. OneActive
      BY <1>4 DEF OneActive
<1>7. NewestActive /\ NewestWatched
      BY <1>4, NoWatchShape DEF Init, NewestActive, NewestWatched
<1>. QED BY <1>1, <1>2, <1>3, <1>5, <1>6, <1>7 DEF SafetyInv, Life

\* A success stays what it is: a step that creates an attempt takes a fresh row, and
\* no other step writes the status of a success, but the one that withdraws it.
FinalStep ==
    \A a \in Attempts : row[a].status \in Successful =>
        \/ row'[a].status = row[a].status
        \/ /\ monitor.pc = "cleanup" /\ monitor.attempt = a
           /\ row'[a].status = "FAILED"
           /\ Newest(a)

LEMMA SafetyStep ==
    ASSUME SafetyInv, [Next]_vars
    PROVE  SafetyInv' /\ FinalStep
<1>1. CASE \E p \in CCPairs, q \in Settings, r \in Reindexing, sent \in BOOLEAN :
                CreateAttempt(p, q, r, sent)
      <2>1. PICK p \in CCPairs, q \in Settings, r \in Reindexing, sent \in BOOLEAN :
                CreateAttempt(p, q, r, sent)
            BY <1>1
      <2> DEFINE a == Cardinality(Created) + 1
      <2>2. /\ a \in Attempts /\ row[a].status = "none" /\ Life'
            /\ \A b \in Attempts : b # a => row'[b] = row[b]
            BY <2>1, CreateAttemptCreates DEF SafetyInv
      <2> HIDE DEF a
      <2>3. FinalStep
            BY <2>2 DEF FinalStep, Successful
      <2>4. NewestActive' /\ NewestWatched'
            BY <2>1, CreateAttemptNewest DEF SafetyInv
      <2>. QED BY <2>1, <2>2, <2>3, <2>4, CreateAttemptNumbers, CreateAttemptFence DEF SafetyInv
<1>2. CASE Next /\ ~ Withdraws /\ ~ \E p \in CCPairs, q \in Settings, r \in Reindexing, sent \in BOOLEAN :
                CreateAttempt(p, q, r, sent)
      <2>1. Life' /\ RowsKept
            BY <1>2, StepKeeps DEF SafetyInv
      <2>2. RowsCarried
            BY <2>1, KeptIsCarried
      <2>3. NewestActive' /\ NewestWatched'
            BY <1>2, <2>2, CarriedNewestActive, CarriedNewestWatched DEF SafetyInv
      <2>4. FinalStep
            BY <2>1 DEF FinalStep, RowsKept, Kept
      <2>. QED BY <2>1, <2>2, <2>3, <2>4, CarriedNumbers, CarriedFence DEF SafetyInv
<1>3. CASE Next /\ Withdraws
      <2>1. /\ Life' /\ RowsCarried /\ monitor'.pc = "idle"
            /\ monitor.attempt \in Attempts /\ row'[monitor.attempt].status = "FAILED"
            /\ \A b \in Attempts : b # monitor.attempt => row'[b] = row[b]
            BY <1>3, WithdrawsCarries DEF SafetyInv
      <2>2. monitor.pc = "cleanup" /\ Newest(monitor.attempt)
            BY <1>3 DEF Withdraws, SafetyInv, NewestWatched
      <2>3. FinalStep
            BY <2>1, <2>2 DEF FinalStep
      <2>4. NewestActive' /\ NewestWatched'
            BY <2>1, CarriedNewestActive DEF SafetyInv, NewestWatched
      <2>. QED BY <2>1, <2>3, <2>4, CarriedNumbers, CarriedFence DEF SafetyInv
<1>4. CASE UNCHANGED vars
      <2>1. Life' /\ RowsKept
            BY <1>4, NoRowWritten DEF SafetyInv, vars, Life, Shapes
      <2>2. RowsCarried
            BY <2>1, KeptIsCarried
      <2>3. FinalStep
            BY <2>1 DEF FinalStep, RowsKept, Kept
      <2>4. NewestActive' /\ NewestWatched'
            BY <1>4 DEF vars, SafetyInv, NewestActive, NewestWatched, Newest, SameTarget, Created
      <2>. QED BY <2>1, <2>2, <2>3, <2>4, CarriedNumbers, CarriedFence DEF SafetyInv
<1>. QED BY <1>1, <1>2, <1>3, <1>4

THEOREM SafetyInvariant == Spec => []SafetyInv
<1>1. Init => SafetyInv
      BY SafetyInit
<1>2. SafetyInv /\ [Next]_vars => SafetyInv'
      BY SafetyStep
<1>. QED BY <1>1, <1>2, PTL DEF Spec

\* At most one attempt of a cc_pair is active per search setting, whatever fails and
\* however many attempts, workers and settings there are.
THEOREM OneActiveCorrect == Spec => []OneActive
<1>1. SafetyInv => OneActive
      BY DEF SafetyInv
<1>. QED BY <1>1, SafetyInvariant, PTL

\* No late beat, zombie process, stall check or administrator takes a success back;
\* the monitor that wrote it does so only while no later attempt of the target exists.
THEOREM SuccessIsFinalCorrect == Spec => SuccessIsFinal
<1>1. SafetyInv /\ [Next]_vars => [FinalStep]_vars
      BY SafetyStep
<1>2. SafetyInv /\ [Next]_vars
      => [\A a \in Attempts : row[a].status \in Successful =>
             \/ row'[a].status = row[a].status
             \/ /\ monitor.pc = "cleanup" /\ monitor.attempt = a
                /\ row'[a].status = "FAILED"
                /\ Newest(a)]_vars
      BY <1>1 DEF FinalStep
<1>. QED BY <1>2, SafetyInvariant, PTL DEF Spec, SuccessIsFinal

----------------------------------------------------------------------------
(* Types *)

FetcherType ==
    [pc : FetchSteps \cup {"none", "gone", "dead"}, num : Nat, at : Positions,
     checkpoint : Positions, todo : SUBSET FileType, old : Nat]
WorkType ==
    [pc : {"idle"} \cup WorkSteps, task : TaskType \cup {NoTask}, doc : DocType \cup {NoDoc}]
MonitorType ==
    [pc : {"idle", "check", "finish", "cleanup"}, attempt : Attempts \cup {Null},
     total : Nat \cup {Null}, completed : Nat, errors : BOOLEAN]

\* A process has a row with a target, and, from its window on, a window; what it lists
\* is finite.
HasWindow(r) == r.start \in Nat /\ r.upto \in Nat
Extracting == {"list", "rename", "reissue", "recount", "save", "run", "send", "total"}
Fits(r, f) ==
    /\ r \in RowType /\ f \in FetcherType /\ IsFiniteSet(f.todo)
    /\ r.status # "none" => r.pair \in CCPairs /\ r.settings \in Settings
    /\ f.pc # "none" => r.status # "none"
    /\ f.pc \in Extracting \/ r.total # Null => HasWindow(r)

RowsTyped ==
    /\ row = [a \in Attempts |-> row[a]] /\ fetcher = [a \in Attempts |-> fetcher[a]]
    /\ \A a \in Attempts : Fits(row[a], fetcher[a])

\* What is newer than something newer than an attempt is newer than the attempt.
Ranked ==
    /\ newer \in [Attempts -> SUBSET Attempts]
    /\ \A a \in Attempts : a \notin newer[a] /\ \A b \in newer[a] : newer[b] \subseteq newer[a]

StoreTyped == files \subseteq FileType /\ IsFiniteSet(files)
WorkTyped(k) == /\ k \in WorkType
                /\ k.pc # "idle" => k.task \in TaskType
                /\ k.pc = "got" => k.doc \in DocType
TasksTyped == /\ queue \subseteq TaskType
              /\ worker = [w \in Workers |-> worker[w]]
              /\ \A w \in Workers : WorkTyped(worker[w])
NotesTyped == /\ monitor \in MonitorType
              /\ monitor.pc # "idle" => monitor.attempt \in Attempts
OthersTyped == /\ indexed = [s \in Settings |-> indexed[s]]
               /\ \A s \in Settings : indexed[s] \subseteq DocType
               /\ paused \subseteq CCPairs /\ late \subseteq Attempts /\ faults \in 0 .. MaxFaults

TypeInv == RowsTyped /\ Ranked /\ StoreTyped /\ TasksTyped /\ NotesTyped /\ OthersTyped

LEMMA TypeInvImplies ==
    ASSUME TypeInv
    PROVE  TypeOK
<1>1. row \in [Attempts -> RowType] /\ \A a \in Attempts : fetcher[a] \in FetcherType
  BY DEF TypeInv, RowsTyped, Fits
<1>2. newer \in [Attempts -> SUBSET Attempts] /\ files \subseteq FileType /\ queue \subseteq TaskType
  BY DEF TypeInv, Ranked, StoreTyped, TasksTyped
<1>3. \A w \in Workers : worker[w] \in WorkType
  BY DEF TypeInv, TasksTyped, WorkTyped
<1>4. monitor \in MonitorType
  BY DEF TypeInv, NotesTyped
<1>5. /\ \A s \in Settings : indexed[s] \subseteq DocType
      /\ paused \subseteq CCPairs /\ late \subseteq Attempts /\ faults \in 0 .. MaxFaults
  BY DEF TypeInv, OthersTyped
<1> QED
  BY <1>1, <1>2, <1>3, <1>4, <1>5 DEF TypeOK, FetcherType, WorkType, MonitorType

----------------------------------------------------------------------------
(* What the choices of the model find *)

\* A set of numbers has a least one.
LEMMA LeastNumber ==
    ASSUME NEW S \in SUBSET Nat, S # {}
    PROVE  \E n \in S : \A m \in S : n <= m
<1>1. PICK n \in S : \A m \in S : ~ (<<m, n>> \in OpToRel(<, Nat))
  BY NatLessThanWellFounded, WFMin, Zenon
<1>2. ASSUME NEW m \in S PROVE n <= m
  <2>1. ~ (<<m, n>> \in {ss \in Nat \X Nat : ss[1] < ss[2]})
    BY <1>1 DEF OpToRel
  <2> QED
    BY <2>1
<1> QED
  BY <1>2

\* An attempt for which a finite count is least.
LEMMA LeastCount ==
    ASSUME NEW S, S # {}, NEW m \in [S -> Nat]
    PROVE  \E b \in S : \A c \in S : m[b] <= m[c]
<1>1. {m[b] : b \in S} \in SUBSET Nat /\ {m[b] : b \in S} # {}
  OBVIOUS
<1>2. PICK n \in {m[b] : b \in S} : \A k \in {m[b] : b \in S} : n <= k
  BY <1>1, LeastNumber
<1> QED
  BY <1>2

\* A smaller finite set has fewer members.
LEMMA FewerMembers ==
    ASSUME NEW T, IsFiniteSet(T), NEW S \in SUBSET T, S # T
    PROVE  Cardinality(S) \in Nat /\ Cardinality(T) \in Nat /\ Cardinality(S) < Cardinality(T)
BY FS_Subset, FS_CardinalityType

LEMMA FiniteAttempts == IsFiniteSet(Attempts) /\ Attempts \subseteq Nat
BY FS_Interval, PipelineAssumption DEF Attempts, PipelineAssumption

\* Among attempts that have ended there is a latest one.
LEMMA LatestExists ==
    ASSUME Ranked, NEW S \in SUBSET Attempts, S # {}
    PROVE  Latest(S) \in S /\ newer[Latest(S)] \cap S = {}
<1> DEFINE m == [b \in S |-> Cardinality(newer[b] \cap S)]
<1>0. \A b \in S : IsFiniteSet(newer[b] \cap S)
  BY FiniteAttempts, FS_Subset
<1>1. m \in [S -> Nat]
  BY <1>0, FS_CardinalityType
<1>2. PICK b \in S : \A c \in S : m[b] <= m[c]
  <2> HIDE DEF m
  <2> QED
    BY <1>1, LeastCount
<1>3. ASSUME NEW c \in newer[b] \cap S
      PROVE  FALSE
  <2>1. c \notin newer[c] /\ newer[c] \subseteq newer[b]
    BY <1>3 DEF Ranked
  <2>2. newer[c] \cap S \subseteq newer[b] \cap S /\ newer[c] \cap S # newer[b] \cap S
    BY <1>3, <2>1
  <2>3. m[c] < m[b]
    BY <1>0, <1>3, <2>2, FewerMembers
  <2> QED
    BY <1>1, <1>2, <1>3, <2>3
<1>4. newer[b] \cap S = {}
  BY <1>3
<1> QED
  BY <1>4 DEF Latest

LEMMA RecentAreCreated ==
    ASSUME NEW a
    PROVE  /\ RecentCompleted(a) \subseteq Created /\ Created \subseteq Attempts
           /\ \A b \in RecentCompleted(a) : SameTarget(a, b) /\ row[b].status \in Terminal
BY DEF RecentCompleted, Created

LEMMA LatestRecent ==
    ASSUME Ranked, NEW a, RecentCompleted(a) # {}
    PROVE  /\ Latest(RecentCompleted(a)) \in Created
           /\ row[Latest(RecentCompleted(a))].status \in Terminal
           /\ SameTarget(a, Latest(RecentCompleted(a)))
BY RecentAreCreated, LatestExists

\* Of finitely many numbers there is a greatest.
LEMMA GreatestExists ==
    ASSUME NEW S \in SUBSET Attempts, S # {}, NEW e \in [S -> Nat]
    PROVE  \E b \in S : \A c \in S : e[c] <= e[b]
<1> DEFINE Above(b) == {c \in S : e[c] > e[b]}
           m == [b \in S |-> Cardinality(Above(b))]
<1>0. \A b \in S : IsFiniteSet(Above(b))
  BY FiniteAttempts, FS_Subset
<1>1. m \in [S -> Nat]
  BY <1>0, FS_CardinalityType
<1>2. PICK b \in S : \A c \in S : m[b] <= m[c]
  <2> HIDE DEF m
  <2> QED
    BY <1>1, LeastCount
<1>3. ASSUME NEW c \in S, ~ (e[c] <= e[b])
      PROVE  FALSE
  <2>0. e[c] > e[b] /\ e[c] \in Nat /\ e[b] \in Nat
    BY <1>3
  <2>1. Above(c) \subseteq Above(b) /\ c \in Above(b) /\ c \notin Above(c)
    BY <2>0
  <2>2. Cardinality(Above(c)) < Cardinality(Above(b)) /\ Cardinality(Above(c)) \in Nat
        /\ Cardinality(Above(b)) \in Nat
    <3> HIDE DEF Above
    <3> QED
      BY <1>0, <1>3, <2>1, FewerMembers
  <2> QED
    BY <1>2, <1>3, <2>2
<1> QED
  BY <1>3

\* The window of an attempt begins where the last success ended, or at the beginning.
LEMMA LastSuccessIsEnd ==
    ASSUME TypeInv, Life, NEW a \in Attempts
    PROVE  /\ LastSuccess(a) \in Nat
           /\ \/ LastSuccess(a) = 0
              \/ \E b \in Created : SameTarget(a, b) /\ row[b].status = "SUCCESS"
                                    /\ LastSuccess(a) = row[b].upto
<1> DEFINE S == {b \in Created : SameTarget(a, b) /\ row[b].status = "SUCCESS"}
           e == [b \in S |-> row[b].upto]
           ends == {row[b].upto : b \in S}
<1>1. LastSuccess(a) = IF ends = {} THEN 0 ELSE CHOOSE n \in ends : \A f \in ends : f <= n
  BY DEF LastSuccess
<1>2. S \in SUBSET Attempts
  BY DEF Created
<1>3. ASSUME NEW b \in S PROVE row[b].upto \in Nat
  <2>1. b \in Attempts /\ row[b].total # Null
    BY <1>2, <1>3 DEF Life, RowIsSound, Successful
  <2> QED
    BY <2>1 DEF TypeInv, RowsTyped, Fits, HasWindow
<1>4. e \in [S -> Nat]
  BY <1>3
<1>5. CASE S = {}
  BY <1>1, <1>5
<1>6. CASE S # {}
  <2>1. PICK b \in S : \A c \in S : e[c] <= e[b]
    <3> HIDE DEF S, e
    <3> QED
      BY <1>2, <1>4, <1>6, GreatestExists
  <2>2. row[b].upto \in ends /\ \A f \in ends : f <= row[b].upto
    BY <2>1
  <2>3. (CHOOSE n \in ends : \A f \in ends : f <= n) \in ends
    <3> HIDE DEF ends
    <3> QED
      BY <2>2
  <2>4. LastSuccess(a) \in ends
    <3>1. ends # {}
      BY <2>2
    <3> HIDE DEF ends
    <3> QED
      BY <1>1, <2>3, <3>1
  <2> QED
    BY <1>3, <2>4
<1> QED
  BY <1>5, <1>6

----------------------------------------------------------------------------
(* What each write leaves typed *)

LEMMA RowWritten ==
    ASSUME RowsTyped, NEW a \in Attempts, NEW s, NEW g, Fits(s, g),
           row' = [row EXCEPT ![a] = s], fetcher' = [fetcher EXCEPT ![a] = g]
    PROVE  RowsTyped'
<1>1. /\ row' = [b \in Attempts |-> row'[b]] /\ fetcher' = [b \in Attempts |-> fetcher'[b]]
      /\ row'[a] = s /\ fetcher'[a] = g
      /\ \A b \in Attempts : b # a => row'[b] = row[b] /\ fetcher'[b] = fetcher[b]
  BY DEF RowsTyped
<1>2. \A b \in Attempts : Fits(row'[b], fetcher'[b])
  BY <1>1 DEF RowsTyped
<1> QED
  BY <1>1, <1>2 DEF RowsTyped

LEMMA Rewritten ==
    ASSUME RowsTyped, NEW a \in Attempts, NEW s, Fits(s, fetcher[a]),
           row' = [row EXCEPT ![a] = s], fetcher' = fetcher
    PROVE  RowsTyped'
BY RowWritten DEF RowsTyped

LEMMA Refetched ==
    ASSUME RowsTyped, NEW a \in Attempts, NEW g, Fits(row[a], g),
           fetcher' = [fetcher EXCEPT ![a] = g], row' = row
    PROVE  RowsTyped'
BY RowWritten DEF RowsTyped

LEMMA RankKept ==
    ASSUME Ranked, newer' = newer \/ \E a \in Attempts : Touch(a)
    PROVE  Ranked'
<1>1. ASSUME NEW a \in Attempts, Touch(a)
      PROVE  Ranked'
  <2>1. newer' = [b \in Attempts |-> IF b = a THEN {} ELSE newer[b] \cup {a}]
    BY <1>1 DEF Touch
  <2>2. newer' \in [Attempts -> SUBSET Attempts] /\ newer'[a] = {}
        /\ \A b \in Attempts : b # a => newer'[b] = newer[b] \cup {a}
    BY <2>1 DEF Ranked
  <2>3. ASSUME NEW b \in Attempts
        PROVE  b \notin newer'[b] /\ \A c \in newer'[b] : newer'[c] \subseteq newer'[b]
    <3>1. CASE b = a
      BY <2>2, <3>1
    <3>2. CASE b # a
      <4>1. newer'[b] = newer[b] \cup {a} /\ b \notin newer'[b] /\ newer[b] \subseteq Attempts
        BY <2>2, <3>2 DEF Ranked
      <4>2. ASSUME NEW c \in newer[b], c # a
            PROVE  newer'[c] \subseteq newer'[b]
        <5>1. c \in Attempts /\ newer[c] \subseteq newer[b]
          BY <4>1 DEF Ranked
        <5> QED
          BY <2>2, <4>1, <4>2, <5>1
      <4> QED
        BY <2>2, <4>1, <4>2
    <3> QED
      BY <3>1, <3>2
  <2> QED
    BY <2>2, <2>3 DEF Ranked
<1>2. CASE newer' = newer
  BY <1>2 DEF Ranked
<1> QED
  BY <1>1, <1>2

LEMMA WriteRanks ==
    ASSUME Ranked, NEW a \in Attempts, NEW s, Write(a, s)
    PROVE  Ranked' /\ row' = [row EXCEPT ![a] = s]
BY RankKept DEF Write

LEMMA MarkFits ==
    ASSUME NEW r, NEW f, Fits(r, f), r.status # "none", NEW v \in Active \cup Terminal
    PROVE  Fits([r EXCEPT !.status = v], f)
<1>1. v # "none"
  BY DEF Active, Terminal, Successful
<1> QED
  BY <1>1 DEF Fits, HasWindow, RowType

LEMMA SameFits ==
    ASSUME NEW r, NEW f, Fits(r, f), NEW s \in RowType,
           s.status = r.status, s.pair = r.pair, s.settings = r.settings, s.total = r.total,
           s.start = r.start, s.upto = r.upto
    PROVE  Fits(s, f)
BY DEF Fits, HasWindow

LEMMA NoteFits ==
    ASSUME NEW r, NEW f, Fits(r, f), NEW n \in Nat, NEW k \in Positions, NEW y \in BOOLEAN
    PROVE  /\ Fits([r EXCEPT !.tracked = n], f)
           /\ Fits([r EXCEPT !.cancel = TRUE], f)
           /\ Fits([r EXCEPT !.errors = TRUE], f)
           /\ Fits([r EXCEPT !.completed = n], f)
           /\ Fits([r EXCEPT !.completed = n, !.docs = y], f)
           /\ Fits([r EXCEPT !.checkpoint = k], f)
<1>0. r \in RowType
  BY DEF Fits
<1>1. Fits([r EXCEPT !.tracked = n], f)
  <2> DEFINE s == [r EXCEPT !.tracked = n]
  <2>1. s \in RowType
    BY <1>0 DEF RowType
  <2>2. s.status = r.status /\ s.pair = r.pair /\ s.settings = r.settings
    BY <1>0 DEF RowType
  <2>3. s.total = r.total /\ s.start = r.start /\ s.upto = r.upto
    BY <1>0 DEF RowType
  <2> HIDE DEF s
  <2>4. Fits(s, f)
    BY <2>1, <2>2, <2>3, SameFits
  <2> QED
    BY <2>4 DEF s
<1>2. Fits([r EXCEPT !.cancel = TRUE], f)
  <2> DEFINE s == [r EXCEPT !.cancel = TRUE]
  <2>1. s \in RowType
    BY <1>0 DEF RowType
  <2>2. s.status = r.status /\ s.pair = r.pair /\ s.settings = r.settings
    BY <1>0 DEF RowType
  <2>3. s.total = r.total /\ s.start = r.start /\ s.upto = r.upto
    BY <1>0 DEF RowType
  <2> HIDE DEF s
  <2>4. Fits(s, f)
    BY <2>1, <2>2, <2>3, SameFits
  <2> QED
    BY <2>4 DEF s
<1>3. Fits([r EXCEPT !.errors = TRUE], f)
  <2> DEFINE s == [r EXCEPT !.errors = TRUE]
  <2>1. s \in RowType
    BY <1>0 DEF RowType
  <2>2. s.status = r.status /\ s.pair = r.pair /\ s.settings = r.settings
    BY <1>0 DEF RowType
  <2>3. s.total = r.total /\ s.start = r.start /\ s.upto = r.upto
    BY <1>0 DEF RowType
  <2> HIDE DEF s
  <2>4. Fits(s, f)
    BY <2>1, <2>2, <2>3, SameFits
  <2> QED
    BY <2>4 DEF s
<1>4. Fits([r EXCEPT !.completed = n], f)
  <2> DEFINE s == [r EXCEPT !.completed = n]
  <2>1. s \in RowType
    BY <1>0 DEF RowType
  <2>2. s.status = r.status /\ s.pair = r.pair /\ s.settings = r.settings
    BY <1>0 DEF RowType
  <2>3. s.total = r.total /\ s.start = r.start /\ s.upto = r.upto
    BY <1>0 DEF RowType
  <2> HIDE DEF s
  <2>4. Fits(s, f)
    BY <2>1, <2>2, <2>3, SameFits
  <2> QED
    BY <2>4 DEF s
<1>5. Fits([r EXCEPT !.completed = n, !.docs = y], f)
  <2> DEFINE s == [r EXCEPT !.completed = n, !.docs = y]
  <2>1. s \in RowType
    BY <1>0 DEF RowType
  <2>2. s.status = r.status /\ s.pair = r.pair /\ s.settings = r.settings
    BY <1>0 DEF RowType
  <2>3. s.total = r.total /\ s.start = r.start /\ s.upto = r.upto
    BY <1>0 DEF RowType
  <2> HIDE DEF s
  <2>4. Fits(s, f)
    BY <2>1, <2>2, <2>3, SameFits
  <2> QED
    BY <2>4 DEF s
<1>6. Fits([r EXCEPT !.checkpoint = k], f)
  <2> DEFINE s == [r EXCEPT !.checkpoint = k]
  <2>1. s \in RowType
    BY <1>0 DEF RowType
  <2>2. s.status = r.status /\ s.pair = r.pair /\ s.settings = r.settings
    BY <1>0 DEF RowType
  <2>3. s.total = r.total /\ s.start = r.start /\ s.upto = r.upto
    BY <1>0 DEF RowType
  <2> HIDE DEF s
  <2>4. Fits(s, f)
    BY <2>1, <2>2, <2>3, SameFits
  <2> QED
    BY <2>4 DEF s
<1> QED
  BY <1>1, <1>2, <1>3, <1>4, <1>5, <1>6

\* A process that goes on.
LEMMA StepFits ==
    ASSUME NEW r, NEW f, Fits(r, f), NEW g \in FetcherType, IsFiniteSet(g.todo),
           f.pc # "none", g.pc \in Extracting => f.pc \in Extracting
    PROVE  Fits(r, g)
BY DEF Fits

LEMMA NothingToDo ==
    /\ NoFetcher \in FetcherType /\ Gone \in FetcherType /\ Dead \in FetcherType
    /\ NoFetcher.pc = "none" /\ Gone.pc = "gone" /\ Dead.pc = "dead"
    /\ IsFiniteSet(NoFetcher.todo) /\ IsFiniteSet(Gone.todo) /\ IsFiniteSet(Dead.todo)
<1>1. 0 \in Positions
  BY PipelineAssumption DEF Positions, PipelineAssumption
<1> QED
  BY <1>1, FS_EmptySet DEF NoFetcher, Gone, Dead, FetcherType

LEMMA EndFits ==
    ASSUME NEW r, NEW f, Fits(r, f), f.pc # "none"
    PROVE  Fits(r, Gone) /\ Fits(r, Dead)
BY StepFits, NothingToDo DEF Extracting

LEMMA AllFit ==
    ASSUME TypeInv, NEW a \in Attempts
    PROVE  Fits(row[a], fetcher[a])
BY DEF TypeInv, RowsTyped

LEMMA FilesShrink ==
    ASSUME StoreTyped, files' \subseteq files
    PROVE  StoreTyped'
BY FS_Subset DEF StoreTyped

LEMMA FaultTyped ==
    ASSUME faults \in 0 .. MaxFaults, Fault
    PROVE  faults' \in 0 .. MaxFaults
BY PipelineAssumption DEF Fault, PipelineAssumption

LEMMA WorkSet ==
    ASSUME TasksTyped, NEW w \in Workers, NEW k, WorkTyped(k), SetWorker(w, k), queue' \subseteq TaskType
    PROVE  TasksTyped'
<1>1. /\ worker' = [v \in Workers |-> worker'[v]] /\ worker'[w] = k
      /\ \A v \in Workers : v # w => worker'[v] = worker[v]
  BY DEF TasksTyped, SetWorker
<1> QED
  BY <1>1 DEF TasksTyped

LEMMA IdleWork == WorkTyped(NoWork)
BY DEF WorkTyped, NoWork, WorkType

----------------------------------------------------------------------------
(* The steps of the monitor and of administrators *)

LEMMA HeartbeatTypes ==
    ASSUME TypeInv, NEW a \in Attempts, Heartbeat(a)
    PROVE  TypeInv'
<1>1. Ranked'
  BY RankKept DEF TypeInv, Heartbeat
<1> QED
  BY <1>1 DEF TypeInv, Heartbeat, RowsTyped, StoreTyped, TasksTyped, NotesTyped, OthersTyped

LEMMA CreateAttemptTypes ==
    ASSUME TypeInv, Life, Numbered, NEW p \in CCPairs, NEW s \in Settings, NEW r \in Reindexing,
           NEW sent \in BOOLEAN, CreateAttempt(p, s, r, sent)
    PROVE  TypeInv'
<1> DEFINE a == Cardinality(Created) + 1
           v == IF sent THEN "NOT_STARTED" ELSE "FAILED"
           new == [NoRow EXCEPT !.pair = p, !.settings = s, !.reindex = r, !.status = v]
           g == IF sent THEN [NoFetcher EXCEPT !.pc = "queued"] ELSE Gone
<1>1. /\ a \in Attempts /\ Write(a, new) /\ fetcher' = [fetcher EXCEPT ![a] = g]
      /\ UNCHANGED <<files, queue, worker, monitor, indexed, paused, late>>
  BY DEF CreateAttempt
<1>2. faults' \in 0 .. MaxFaults
  <2>1. faults' = faults \/ Fault
    BY DEF CreateAttempt
  <2> QED
    BY <2>1, FaultTyped DEF TypeInv, OthersTyped
<1>3. Fits(new, g)
  <2>1. v \in {"NOT_STARTED", "FAILED"} /\ v # "none" /\ r \in BOOLEAN
    BY PipelineAssumption DEF PipelineAssumption
  <2> HIDE DEF v
  <2>2. new \in RowType /\ new.status = v /\ new.pair = p /\ new.settings = s /\ new.total = Null
    BY <2>1 DEF NoRow, RowType, Active, Terminal
  <2>3. [NoFetcher EXCEPT !.pc = "queued"] \in FetcherType
    BY NothingToDo DEF FetcherType, FetchSteps
  <2>4. g \in FetcherType /\ g.pc \in {"queued", "gone"} /\ IsFiniteSet(g.todo)
    BY <2>3, NothingToDo DEF NoFetcher
  <2> HIDE DEF new, g
  <2> QED
    BY <2>1, <2>2, <2>4 DEF Fits, Extracting
<1> HIDE DEF a, new, g
<1>4. Ranked' /\ row' = [row EXCEPT ![a] = new]
  BY <1>1, WriteRanks DEF TypeInv
<1>5. RowsTyped'
  BY <1>1, <1>3, <1>4, RowWritten DEF TypeInv
<1> QED
  BY <1>1, <1>2, <1>4, <1>5 DEF TypeInv, StoreTyped, TasksTyped, NotesTyped, OthersTyped

\* A status is written, and the process as well, or neither.
LEMMA MarkTypes ==
    ASSUME TypeInv, NEW a \in Attempts, row[a].status # "none", NEW v \in Active \cup Terminal,
           Mark(a, v), NEW g, Fits(row[a], g), fetcher' = [fetcher EXCEPT ![a] = g]
    PROVE  RowsTyped' /\ Ranked'
<1>1. Fits([row[a] EXCEPT !.status = v], g)
  BY MarkFits
<1>2. Ranked' /\ row' = [row EXCEPT ![a] = [row[a] EXCEPT !.status = v]]
  BY WriteRanks DEF Mark, TypeInv
<1> QED
  BY <1>1, <1>2, RowWritten DEF TypeInv

LEMMA MarkOnly ==
    ASSUME TypeInv, NEW a \in Attempts, row[a].status # "none", NEW v \in Active \cup Terminal,
           Mark(a, v), fetcher' = fetcher
    PROVE  RowsTyped' /\ Ranked'
<1>1. fetcher' = [fetcher EXCEPT ![a] = fetcher[a]]
  BY DEF TypeInv, RowsTyped
<1> QED
  BY <1>1, AllFit, MarkTypes

LEMMA Statuses ==
    /\ {"FAILED", "CANCELED", "SUCCESS", "COMPLETED_WITH_ERRORS", "IN_PROGRESS"}
            \subseteq Active \cup Terminal
    /\ "none" \notin Active \cup Terminal
BY DEF Active, Terminal, Successful

LEMMA HeartbeatTimeoutTypes ==
    ASSUME TypeInv, NEW a \in Attempts, HeartbeatTimeout(a)
    PROVE  TypeInv'
<1>1. RowsTyped' /\ Ranked'
  BY MarkOnly, Statuses DEF HeartbeatTimeout
<1> QED
  BY <1>1 DEF HeartbeatTimeout, TypeInv, StoreTyped, TasksTyped, NotesTyped, OthersTyped

LEMMA WatchTypes ==
    ASSUME TypeInv, NEW a \in Attempts, Watch(a)
    PROVE  TypeInv'
<1>1. row[a].status # "none"
  BY Statuses DEF Watch
<1>2. /\ UNCHANGED <<fetcher, files, queue, worker, indexed, paused, late, faults>>
  BY DEF Watch
<1>3. CASE row[a].cancel
  <2>1. RowsTyped' /\ Ranked' /\ monitor' = monitor
    BY <1>1, <1>3, MarkOnly, Statuses DEF Watch
  <2> QED
    BY <1>2, <2>1 DEF TypeInv, StoreTyped, TasksTyped, NotesTyped, OthersTyped
<1>4. CASE ~ row[a].cancel
  <2>1. /\ monitor' = [pc |-> "check", attempt |-> a, total |-> row[a].total,
                       completed |-> row[a].completed, errors |-> row[a].errors]
        /\ UNCHANGED <<row, newer>>
    BY <1>4 DEF Watch
  <2>2. row[a] \in RowType
    BY AllFit DEF Fits
  <2>3. row[a].total \in Nat \cup {Null} /\ row[a].completed \in Nat /\ row[a].errors \in BOOLEAN
    BY <2>2 DEF RowType
  <2>4. NotesTyped'
    BY <2>1, <2>3 DEF NotesTyped, MonitorType
  <2> QED
    BY <1>2, <2>1, <2>4 DEF TypeInv, RowsTyped, Ranked, StoreTyped, TasksTyped, OthersTyped
<1> QED
  BY <1>3, <1>4

LEMMA CheckProgressTypes ==
    ASSUME TypeInv, Life, CheckProgress
    PROVE  TypeInv'
<1> DEFINE a == monitor.attempt
<1>1. /\ a \in Attempts /\ row[a].status # "none"
      /\ monitor \in MonitorType /\ UNCHANGED <<fetcher, files, queue, worker, indexed, paused, faults>>
  BY DEF CheckProgress, TypeInv, NotesTyped, Life, NotesAreSound
<1>2. RowsTyped' /\ Ranked'
  <2>1. \/ Write(a, [row[a] EXCEPT !.tracked = monitor.completed])
        \/ Mark(a, "FAILED")
        \/ row' = row /\ (newer' = newer \/ Touch(a))
    BY DEF CheckProgress
  <2>2. CASE Write(a, [row[a] EXCEPT !.tracked = monitor.completed])
    <3>1. monitor.completed \in Nat
      BY <1>1 DEF MonitorType
    <3>2. Fits([row[a] EXCEPT !.tracked = monitor.completed], fetcher[a])
      <4>1. 0 \in Positions
        BY PipelineAssumption DEF Positions, PipelineAssumption
      <4> QED
        BY <1>1, <3>1, <4>1, AllFit, NoteFits
    <3>3. Ranked' /\ row' = [row EXCEPT ![a] = [row[a] EXCEPT !.tracked = monitor.completed]]
      BY <1>1, <2>2, WriteRanks DEF TypeInv
    <3> QED
      BY <1>1, <3>2, <3>3, Rewritten DEF TypeInv
  <2>3. CASE Mark(a, "FAILED")
    BY <1>1, <2>3, MarkOnly, Statuses
  <2>4. CASE row' = row /\ (newer' = newer \/ Touch(a))
    BY <1>1, <2>4, RankKept DEF TypeInv, RowsTyped
  <2> QED
    BY <2>1, <2>2, <2>3, <2>4
<1>3. NotesTyped'
  <2>1. monitor' = [monitor EXCEPT !.pc = "finish"] \/ monitor' = NoWatch
    BY DEF CheckProgress
  <2>2. [monitor EXCEPT !.pc = "finish"] \in MonitorType
        /\ [monitor EXCEPT !.pc = "finish"].attempt = a
    BY <1>1 DEF MonitorType
  <2>3. NoWatch \in MonitorType /\ NoWatch.pc = "idle"
    BY DEF NoWatch, MonitorType
  <2> QED
    BY <1>1, <2>1, <2>2, <2>3 DEF NotesTyped
<1>4. late' \subseteq Attempts
  BY DEF CheckProgress, TypeInv, OthersTyped
<1> QED
  BY <1>1, <1>2, <1>3, <1>4 DEF TypeInv, StoreTyped, TasksTyped, OthersTyped

LEMMA FinishTypes ==
    ASSUME TypeInv, Life, Finish
    PROVE  TypeInv'
<1> DEFINE a == monitor.attempt
<1>1. a \in Attempts /\ row[a].status # "none" /\ monitor \in MonitorType
  BY DEF Finish, TypeInv, NotesTyped, Life, NotesAreSound
<1>2. RowsTyped' /\ Ranked'
  BY <1>1, MarkOnly, Statuses DEF Finish
<1>3. NotesTyped'
  <2>1. monitor' = [monitor EXCEPT !.pc = "cleanup"]
    BY DEF Finish
  <2> QED
    BY <1>1, <2>1 DEF NotesTyped, MonitorType
<1> QED
  BY <1>2, <1>3 DEF Finish, TypeInv, StoreTyped, TasksTyped, OthersTyped

LEMMA NoWatchTyped == NoWatch \in MonitorType /\ NoWatch.pc = "idle"
BY DEF NoWatch, MonitorType

LEMMA CleanUpTypes ==
    ASSUME TypeInv, CleanUp
    PROVE  TypeInv'
<1>1. StoreTyped'
  BY FilesShrink DEF TypeInv, CleanUp, CleanupAllBatches
<1>2. NotesTyped'
  BY NoWatchTyped DEF CleanUp, NotesTyped
<1> QED
  BY <1>1, <1>2 DEF CleanUp, TypeInv, RowsTyped, Ranked, TasksTyped, OthersTyped

LEMMA MonitorFailsTypes ==
    ASSUME TypeInv, Life, MonitorFails
    PROVE  TypeInv'
<1>1. monitor.attempt \in Attempts /\ row[monitor.attempt].status # "none"
  BY DEF MonitorFails, Life, NotesAreSound
<1>2. RowsTyped' /\ Ranked'
  BY <1>1, MarkOnly, Statuses DEF MonitorFails
<1>3. StoreTyped'
  BY FilesShrink DEF TypeInv, MonitorFails, CleanupAllBatches
<1>4. NotesTyped'
  BY NoWatchTyped DEF MonitorFails, NotesTyped
<1>5. faults' \in 0 .. MaxFaults
  BY FaultTyped DEF MonitorFails, TypeInv, OthersTyped
<1> QED
  BY <1>2, <1>3, <1>4, <1>5 DEF MonitorFails, TypeInv, TasksTyped, OthersTyped

LEMMA TimePassesTypes ==
    ASSUME TypeInv, NEW a \in Attempts, TimePasses(a)
    PROVE  TypeInv'
<1>1. late' \subseteq Attempts
  BY DEF TimePasses, TypeInv, OthersTyped
<1> QED
  BY <1>1 DEF TimePasses, TypeInv, RowsTyped, Ranked, StoreTyped, TasksTyped, NotesTyped, OthersTyped

LEMMA PauseTypes ==
    ASSUME TypeInv, Life, NEW p \in CCPairs, Pause(p)
    PROVE  TypeInv'
<1> DEFINE hit == {a \in Created : row[a].pair = p /\ row[a].status \in Active}
<1>1. /\ row' = [a \in Attempts |-> IF a \in hit THEN [row[a] EXCEPT !.cancel = TRUE] ELSE row[a]]
      /\ fetcher' = [a \in Attempts |-> IF a \in hit /\ fetcher[a].pc = "queued"
                                        THEN Gone ELSE fetcher[a]]
      /\ paused' = paused \cup {p} /\ Fault
      /\ UNCHANGED <<newer, files, queue, worker, monitor, indexed, late>>
  BY DEF Pause
<1> HIDE DEF hit
<1>2. ASSUME NEW a \in Attempts
      PROVE  Fits(row'[a], fetcher'[a])
  <2>1. 0 \in Positions
    BY PipelineAssumption DEF Positions, PipelineAssumption
  <2>2. Fits(row[a], fetcher[a])
    BY AllFit
  <2>3. Fits(row[a], fetcher'[a])
    BY <1>1, <2>2, EndFits
  <2>4. Fits([row[a] EXCEPT !.cancel = TRUE], fetcher'[a])
    BY <2>1, <2>3, NoteFits
  <2> QED
    BY <1>1, <2>3, <2>4
<1>3. RowsTyped'
  BY <1>1, <1>2 DEF RowsTyped
<1>4. faults' \in 0 .. MaxFaults
  BY <1>1, FaultTyped DEF TypeInv, OthersTyped
<1> QED
  BY <1>1, <1>3, <1>4 DEF TypeInv, Ranked, StoreTyped, TasksTyped, NotesTyped, OthersTyped

LEMMA ResumeTypes ==
    ASSUME TypeInv, NEW p \in CCPairs, Resume(p)
    PROVE  TypeInv'
<1>1. paused' \subseteq CCPairs
  BY DEF Resume, TypeInv, OthersTyped
<1> QED
  BY <1>1 DEF Resume, TypeInv, RowsTyped, Ranked, StoreTyped, TasksTyped, NotesTyped, OthersTyped

----------------------------------------------------------------------------
(* The steps of the fetcher *)

LEMMA PipelineNumbers ==
    /\ NumBatches \in Nat \ {0} /\ MaxAttempts \in Nat \ {0} /\ 0 \in Positions
    /\ Positions \subseteq Nat
BY PipelineAssumption DEF Positions, PipelineAssumption

\* A process that is at work.
LEMMA FetcherFits ==
    ASSUME TypeInv, NEW a \in Attempts, fetcher[a].pc # "none"
    PROVE  /\ Fits(row[a], fetcher[a]) /\ fetcher[a] \in FetcherType /\ row[a] \in RowType
           /\ row[a].status # "none" /\ row[a].pair \in CCPairs
           /\ Fits(row[a], Gone) /\ Fits(row[a], Dead)
BY AllFit, EndFits DEF Fits

\* Steps that move the process and write no row.
LEMMA MoveTypes ==
    ASSUME TypeInv, NEW a \in Attempts, fetcher[a].pc # "none",
           NEW g \in FetcherType, IsFiniteSet(g.todo),
           g.pc \in Extracting => fetcher[a].pc \in Extracting,
           SetFetcher(a, g), UNCHANGED <<row, newer>>
    PROVE  RowsTyped' /\ Ranked'
<1>1. Fits(row[a], g)
  BY FetcherFits, StepFits
<1> QED
  BY <1>1, Refetched DEF TypeInv, Ranked, SetFetcher

LEMMA EndTypes ==
    ASSUME TypeInv, NEW a \in Attempts, fetcher[a].pc # "none",
           SetFetcher(a, Gone) \/ SetFetcher(a, Dead), UNCHANGED <<row, newer>>
    PROVE  RowsTyped' /\ Ranked'
BY MoveTypes, NothingToDo DEF Extracting

LEMMA MarkEndTypes ==
    ASSUME TypeInv, NEW a \in Attempts, fetcher[a].pc # "none",
           SetFetcher(a, Gone) \/ SetFetcher(a, Dead),
           NEW v \in {"FAILED", "CANCELED"}, Mark(a, v)
    PROVE  RowsTyped' /\ Ranked'
BY FetcherFits, MarkTypes, Statuses DEF SetFetcher

LEMMA SpawnTypes ==
    ASSUME TypeInv, NEW a \in Attempts, Spawn(a)
    PROVE  TypeInv'
<1> DEFINE g == [fetcher[a] EXCEPT !.pc = "spawned"]
<1>1. fetcher[a].pc = "queued" /\ Fits(row[a], fetcher[a]) /\ fetcher[a] \in FetcherType
  BY FetcherFits DEF Spawn, At
<1>2. g \in FetcherType /\ g.todo = fetcher[a].todo /\ g.pc = "spawned"
  BY <1>1 DEF FetcherType, FetchSteps
<1>3. SetFetcher(a, g) /\ UNCHANGED <<row, newer>>
  BY DEF Spawn
<1> HIDE DEF g
<1>4. RowsTyped' /\ Ranked'
  BY <1>1, <1>2, <1>3, MoveTypes DEF Fits, Extracting
<1> QED
  BY <1>4 DEF Spawn, TypeInv, StoreTyped, TasksTyped, NotesTyped, OthersTyped

LEMMA StartTypes ==
    ASSUME TypeInv, NEW a \in Attempts, Start(a)
    PROVE  TypeInv'
<1> DEFINE g == [fetcher[a] EXCEPT !.pc = "window"]
<1>1. /\ fetcher[a].pc = "spawned" /\ Fits(row[a], fetcher[a]) /\ fetcher[a] \in FetcherType
      /\ row[a].status # "none"
  BY FetcherFits DEF Start, At
<1>2. g \in FetcherType /\ g.todo = fetcher[a].todo /\ g.pc = "window"
  BY <1>1 DEF FetcherType, FetchSteps
<1>3. Fits(row[a], g)
  <2> HIDE DEF g
  <2> QED
    BY <1>1, <1>2, StepFits DEF Fits, Extracting
<1>4. \/ SetFetcher(a, Dead) /\ UNCHANGED <<row, newer>>
      \/ Mark(a, "IN_PROGRESS") /\ SetFetcher(a, g)
  BY DEF Start
<1> HIDE DEF g
<1>5. RowsTyped' /\ Ranked'
  BY <1>1, <1>3, <1>4, EndTypes, MarkTypes, Statuses DEF SetFetcher
<1> QED
  BY <1>5 DEF Start, TypeInv, StoreTyped, TasksTyped, NotesTyped, OthersTyped

\* The window is one, and a process that has it may go on.
LEMMA WindowedFits ==
    ASSUME TypeInv, Life, NEW a \in Attempts, fetcher[a].pc = "window",
           NEW g \in FetcherType, IsFiniteSet(g.todo)
    PROVE  Fits(Windowed(a), g)
<1>1. Fits(row[a], fetcher[a]) /\ row[a] \in RowType /\ row[a].status # "none"
  BY FetcherFits
<1>2. StartOf(a) \in Nat
  BY LastSuccessIsEnd DEF StartOf
<1>3. EndOf(a, RecentCompleted(a)) \in Nat
  <2> DEFINE recent == RecentCompleted(a)
  <2>1. a \in Nat
    BY FiniteAttempts
  <2>2. ASSUME recent # {}, row[Latest(recent)].upto # Null
        PROVE  row[Latest(recent)].upto \in Nat
    <3>1. Latest(recent) \in Attempts
      BY <2>2, LatestRecent, RecentAreCreated DEF TypeInv
    <3>2. row[Latest(recent)] \in RowType
      BY <3>1, AllFit DEF Fits
    <3> QED
      BY <2>2, <3>2 DEF RowType
  <2> QED
    BY <2>1, <2>2 DEF EndOf
<1> DEFINE s == Windowed(a)
<1>4. /\ s \in RowType /\ s.start \in Nat /\ s.upto \in Nat
      /\ s.status = row[a].status /\ s.pair = row[a].pair /\ s.settings = row[a].settings
  BY <1>1, <1>2, <1>3 DEF Windowed, RowType
<1> HIDE DEF s
<1>5. Fits(s, g)
  BY <1>1, <1>4 DEF Fits, HasWindow
<1> QED
  BY <1>5 DEF s

LEMMA CheckpointTyped ==
    ASSUME TypeInv, NEW a \in Attempts, NEW start, NEW upto
    PROVE  LatestValidCheckpoint(a, start, upto) \in Positions \cup {Null}
<1> DEFINE recent == RecentCompleted(a)
           valid == {b \in recent : /\ row[b].start = start /\ row[b].upto = upto
                                    /\ row[b].status \in {"FAILED", "CANCELED"}
                                    /\ row[b].checkpoint # Null}
<1>1. ASSUME valid # {}
      PROVE  row[Latest(valid)].checkpoint \in Positions \cup {Null}
  <2>1. valid \in SUBSET Attempts
    BY RecentAreCreated
  <2>2. Latest(valid) \in Attempts
    <3> HIDE DEF valid
    <3> QED
      BY <1>1, <2>1, LatestExists DEF TypeInv
  <2>3. row[Latest(valid)] \in RowType
    <3> HIDE DEF valid
    <3> QED
      BY <2>2, AllFit DEF Fits
  <2> QED
    BY <2>3 DEF RowType
<1>2. LatestValidCheckpoint(a, start, upto)
        = IF NoProgress(recent) \/ valid = {} THEN Null ELSE row[Latest(valid)].checkpoint
  BY DEF LatestValidCheckpoint
<1> HIDE DEF valid, recent
<1> QED
  BY <1>1, <1>2

LEMMA BeginTyped ==
    ASSUME TypeInv, NEW a \in Attempts, NEW valid \in Positions \cup {Null}
    PROVE  /\ Begin(a, RecentCompleted(a), valid) \in FetcherType
           /\ Begin(a, RecentCompleted(a), valid).todo = {}
           /\ Begin(a, RecentCompleted(a), valid).pc \in {"save", "list"}
<1> DEFINE recent == RecentCompleted(a)
           at == IF valid = Null THEN 0 ELSE valid
           old == IF recent = {} THEN 0 ELSE row[Latest(recent)].completed
<1>1. at \in Positions
  BY PipelineNumbers
<1>2. old \in Nat
  <2>1. CASE recent # {}
    <3>1. Latest(recent) \in Attempts
      BY <2>1, LatestRecent, RecentAreCreated DEF TypeInv
    <3>2. row[Latest(recent)] \in RowType
      BY <3>1, AllFit DEF Fits
    <3> QED
      BY <2>1, <3>2 DEF RowType
  <2> QED
    BY <2>1
<1> DEFINE fresh == [NoFetcher EXCEPT !.pc = "save"]
           taken == [NoFetcher EXCEPT !.pc = "list", !.checkpoint = at, !.at = at, !.old = old]
           later == [NoFetcher EXCEPT !.pc = "save", !.checkpoint = at, !.at = at]
<1>3. Begin(a, recent, valid) \in {fresh, taken, later}
  <2>1. \/ Begin(a, recent, valid) = fresh
        \/ Begin(a, recent, valid) = taken
        \/ Begin(a, recent, valid) = later
    BY Zenon DEF Begin
  <2> QED
    BY <2>1
<1> HIDE DEF at, old
<1>4. \A g \in {fresh, taken, later} : g \in FetcherType /\ g.todo = {} /\ g.pc \in {"save", "list"}
  BY <1>1, <1>2, PipelineNumbers DEF NoFetcher, FetcherType, FetchSteps
<1> QED
  BY <1>3, <1>4

LEMMA WindowTypes ==
    ASSUME TypeInv, Life, NEW a \in Attempts, Window(a)
    PROVE  TypeInv'
<1> DEFINE g == Begin(a, RecentCompleted(a),
                      LatestValidCheckpoint(a, Windowed(a).start, Windowed(a).upto))
<1>1. /\ fetcher[a].pc = "window" /\ Write(a, Windowed(a)) /\ fetcher' = [fetcher EXCEPT ![a] = g]
      /\ files' \subseteq files
      /\ UNCHANGED <<queue, worker, monitor, indexed, paused, late, faults>>
  BY DEF Window, At, SetFetcher, CleanupAllBatches
<1>2. g \in FetcherType /\ IsFiniteSet(g.todo)
  BY CheckpointTyped, BeginTyped, FS_EmptySet
<1> HIDE DEF g
<1>3. RowsTyped' /\ Ranked'
  BY <1>1, <1>2, WindowedFits, WriteRanks, RowWritten DEF TypeInv
<1>4. StoreTyped'
  BY <1>1, FilesShrink DEF TypeInv
<1> QED
  BY <1>1, <1>3, <1>4 DEF TypeInv, TasksTyped, NotesTyped, OthersTyped

LEMMA SetupRaisesTypes ==
    ASSUME TypeInv, Life, NEW a \in Attempts, SetupRaises(a)
    PROVE  TypeInv'
<1>1. /\ fetcher[a].pc = "window" /\ Write(a, Windowed(a)) /\ fetcher' = [fetcher EXCEPT ![a] = Dead]
      /\ Fault /\ UNCHANGED <<files, queue, worker, monitor, indexed, paused, late>>
  BY DEF SetupRaises, At, SetFetcher
<1>2. RowsTyped' /\ Ranked'
  BY <1>1, NothingToDo, WindowedFits, WriteRanks, RowWritten DEF TypeInv
<1>3. faults' \in 0 .. MaxFaults
  BY <1>1, FaultTyped DEF TypeInv, OthersTyped
<1> QED
  BY <1>1, <1>2, <1>3 DEF TypeInv, StoreTyped, TasksTyped, NotesTyped, OthersTyped

LEMMA ListTypes ==
    ASSUME TypeInv, NEW a \in Attempts, List(a)
    PROVE  TypeInv'
<1> DEFINE g == [fetcher[a] EXCEPT !.pc = "rename", !.todo = AllBatches(files, row[a].pair)]
<1>1. fetcher[a].pc = "list" /\ fetcher[a] \in FetcherType
  BY FetcherFits DEF List, At
<1>2. AllBatches(files, row[a].pair) \in SUBSET FileType /\ IsFiniteSet(AllBatches(files, row[a].pair))
  BY FS_Subset DEF TypeInv, StoreTyped, AllBatches
<1>3. g \in FetcherType /\ IsFiniteSet(g.todo) /\ g.pc = "rename"
  BY <1>1, <1>2 DEF FetcherType, FetchSteps
<1>4. SetFetcher(a, g) /\ UNCHANGED <<row, newer>>
  BY DEF List
<1> HIDE DEF g
<1>5. RowsTyped' /\ Ranked'
  BY <1>1, <1>3, <1>4, MoveTypes DEF Extracting
<1> QED
  BY <1>5 DEF List, TypeInv, StoreTyped, TasksTyped, NotesTyped, OthersTyped

\* The image of a finite set is finite.
LEMMA FiniteImage ==
    ASSUME NEW S, IsFiniteSet(S), NEW T, NEW e \in [S -> T], \A y \in T : \E x \in S : e[x] = y
    PROVE  IsFiniteSet(T) /\ Cardinality(T) <= Cardinality(S)
<1>1. e \in Surjection(S, T)
  BY DEF Surjection
<1> QED
  BY <1>1, FS_Surjection

LEMMA MovedFiles ==
    ASSUME StoreTyped, NEW old \in SUBSET files, NEW s \in SUBSET old, NEW p \in CCPairs,
           NEW a \in Attempts
    PROVE  /\ MoveBatches(files, old, s, p, a) \subseteq FileType
           /\ IsFiniteSet(MoveBatches(files, old, s, p, a))
<1> DEFINE T == {Renamed(f, p, a) : f \in s}
           left == {g \in files \ old : \A f \in s : ~ SameName(g, Renamed(f, p, a))}
<1>1. ASSUME NEW f \in s PROVE Renamed(f, p, a) \in FileType
  <2>1. f \in FileType
    BY DEF StoreTyped
  <2> QED
    BY <2>1 DEF Renamed, FileType
<1>2. IsFiniteSet(s) /\ IsFiniteSet(left)
  BY FS_Subset DEF StoreTyped
<1>3. IsFiniteSet(T)
  <2> DEFINE e == [f \in s |-> Renamed(f, p, a)]
  <2>1. e \in [s -> T] /\ \A y \in T : \E x \in s : e[x] = y
    OBVIOUS
  <2> HIDE DEF e, T
  <2> QED
    BY <1>2, <2>1, FiniteImage
<1>4. IsFiniteSet(left \cup T)
  <2> HIDE DEF left, T
  <2> QED
    BY <1>2, <1>3, FS_Union
<1> QED
  BY <1>1, <1>4 DEF MoveBatches, StoreTyped

LEMMA RenameTypes ==
    ASSUME TypeInv, NEW a \in Attempts, Rename(a)
    PROVE  TypeInv'
<1> DEFINE old == fetcher[a].todo
           g == [fetcher[a] EXCEPT !.pc = "reissue"]
<1>1. /\ fetcher[a].pc = "rename" /\ fetcher[a] \in FetcherType /\ row[a].pair \in CCPairs
      /\ IsFiniteSet(fetcher[a].todo)
  BY FetcherFits DEF Rename, At, Fits
<1>2. \E o \in SUBSET files : \E s \in SUBSET o : files' = MoveBatches(files, o, s, row[a].pair, a)
  <2>1. CASE old \subseteq files
    BY <2>1 DEF Rename, Survivors
  <2>2. CASE ~ (old \subseteq files)
    BY <2>2 DEF Rename, Survivors
  <2> QED
    BY <2>1, <2>2
<1>3. StoreTyped'
  BY <1>1, <1>2, MovedFiles DEF StoreTyped, TypeInv
<1>4. g \in FetcherType /\ g.todo = fetcher[a].todo /\ g.pc = "reissue"
  BY <1>1 DEF FetcherType, FetchSteps
<1>5. (SetFetcher(a, g) \/ SetFetcher(a, Dead)) /\ UNCHANGED <<row, newer>>
  BY DEF Rename
<1> HIDE DEF g
<1>6. RowsTyped' /\ Ranked'
  BY <1>1, <1>4, <1>5, MoveTypes, EndTypes DEF Extracting
<1> QED
  BY <1>3, <1>6 DEF Rename, TypeInv, TasksTyped, NotesTyped, OthersTyped

LEMMA SentTyped ==
    ASSUME NEW a \in Attempts, NEW s \in SUBSET FileType, NEW kind \in {"fetched", "reissued"}
    PROVE  {Task(a, f.num, kind) : f \in s} \subseteq TaskType
BY DEF Task, TaskType, FileType

LEMMA ReissueTypes ==
    ASSUME TypeInv, NEW a \in Attempts, Reissue(a)
    PROVE  TypeInv'
<1> DEFINE own == {f \in fetcher[a].todo : f.pair = row[a].pair}
           g == [fetcher[a] EXCEPT !.pc = "recount"]
<1>1. /\ fetcher[a].pc = "reissue" /\ fetcher[a] \in FetcherType /\ IsFiniteSet(fetcher[a].todo)
  BY FetcherFits DEF Reissue, At, Fits
<1>2. fetcher[a].todo \subseteq FileType
  BY <1>1 DEF FetcherType
<1>3. PICK s \in SUBSET own : queue' = queue \cup {Task(a, f.num, "reissued") : f \in s}
  BY DEF Reissue
<1>4. TasksTyped'
  <2>1. queue' \subseteq TaskType
    BY <1>2, <1>3, SentTyped DEF TypeInv, TasksTyped
  <2> QED
    BY <2>1 DEF Reissue, TypeInv, TasksTyped
<1>5. g \in FetcherType /\ g.todo = fetcher[a].todo /\ g.pc = "recount"
  BY <1>1 DEF FetcherType, FetchSteps
<1>6. (SetFetcher(a, g) \/ SetFetcher(a, Dead)) /\ UNCHANGED <<row, newer>>
  BY DEF Reissue
<1> HIDE DEF g
<1>7. RowsTyped' /\ Ranked'
  BY <1>1, <1>5, <1>6, MoveTypes, EndTypes DEF Extracting
<1> QED
  BY <1>4, <1>7 DEF Reissue, TypeInv, StoreTyped, NotesTyped, OthersTyped

\* A process with another number.
LEMMA Renumbered ==
    ASSUME NEW f \in FetcherType, NEW n \in Nat, NEW v \in FetchSteps, NEW r \in Nat
    PROVE  /\ [f EXCEPT !.pc = v, !.num = n] \in FetcherType
           /\ [f EXCEPT !.pc = v, !.num = n, !.todo = {}, !.old = r] \in FetcherType
BY DEF FetcherType

LEMMA RecountTypes ==
    ASSUME TypeInv, NEW a \in Attempts, Recount(a)
    PROVE  TypeInv'
<1> DEFINE f == fetcher[a]
           n == Cardinality(f.todo) + f.old
           g == [f EXCEPT !.pc = "save", !.num = n, !.todo = {}, !.old = 0]
           s == [row[a] EXCEPT !.completed = f.old]
<1>1. /\ f.pc = "recount" /\ f \in FetcherType /\ IsFiniteSet(f.todo) /\ Fits(row[a], f)
  BY FetcherFits DEF Recount, At, Fits
<1>2. f.old \in Nat /\ Cardinality(f.todo) \in Nat
  BY <1>1, FS_CardinalityType DEF FetcherType
<1>3. g \in FetcherType /\ IsFiniteSet(g.todo) /\ g.pc = "save"
  <2>1. n \in Nat /\ 0 \in Nat /\ "save" \in FetchSteps
    BY <1>2 DEF FetchSteps
  <2> HIDE DEF n
  <2>2. g \in FetcherType
    BY <1>1, <2>1, Renumbered
  <2>3. g.todo = {} /\ g.pc = "save"
    BY <1>1 DEF FetcherType
  <2> QED
    BY <2>2, <2>3, FS_EmptySet
<1>4. fetcher' = [fetcher EXCEPT ![a] = g] /\ (UNCHANGED <<row, newer>> \/ Write(a, s))
  BY DEF Recount, SetFetcher
<1>5. Fits(row[a], g)
  <2> HIDE DEF g
  <2> QED
    BY <1>1, <1>3, StepFits DEF Extracting
<1>6. Fits(s, g)
  <2> HIDE DEF g
  <2> QED
    BY <1>2, <1>5, PipelineNumbers, NoteFits
<1> HIDE DEF g, s
<1>7. RowsTyped' /\ Ranked'
  BY <1>4, <1>5, <1>6, WriteRanks, RowWritten, Refetched DEF TypeInv, Ranked
<1> QED
  BY <1>7 DEF Recount, TypeInv, StoreTyped, TasksTyped, NotesTyped, OthersTyped

LEMMA SaveCheckpointTypes ==
    ASSUME TypeInv, NEW a \in Attempts, SaveCheckpoint(a)
    PROVE  TypeInv'
<1> DEFINE f == fetcher[a]
           g == [f EXCEPT !.pc = IF f.checkpoint < NumBatches THEN "run" ELSE "total"]
           s == [row[a] EXCEPT !.checkpoint = f.checkpoint]
<1>1. f.pc = "save" /\ f \in FetcherType /\ IsFiniteSet(f.todo) /\ Fits(row[a], f)
  BY FetcherFits DEF SaveCheckpoint, At, Fits
<1>2. f.checkpoint \in Positions
  BY <1>1 DEF FetcherType
<1>3. g \in FetcherType /\ g.todo = f.todo
  BY <1>1 DEF FetcherType, FetchSteps
<1>4. fetcher' = [fetcher EXCEPT ![a] = g] /\ Write(a, s)
  BY DEF SaveCheckpoint, SetFetcher
<1>5. Fits(row[a], g)
  <2> HIDE DEF g
  <2> QED
    BY <1>1, <1>3, StepFits DEF Extracting
<1>6. Fits(s, g)
  <2> HIDE DEF g
  <2> QED
    BY <1>2, <1>5, NoteFits
<1> HIDE DEF g, s
<1>7. RowsTyped' /\ Ranked'
  BY <1>4, <1>6, WriteRanks, RowWritten DEF TypeInv
<1> QED
  BY <1>7 DEF SaveCheckpoint, TypeInv, StoreTyped, TasksTyped, NotesTyped, OthersTyped

LEMMA DocTyped ==
    ASSUME TypeInv, NEW a \in Attempts, fetcher[a].pc \in Extracting, NEW i \in Positions
    PROVE  Doc(a, i) \in DocType
<1>1. Fits(row[a], fetcher[a]) /\ fetcher[a].pc # "none"
  BY AllFit DEF Extracting
<1> QED
  BY <1>1 DEF Fits, HasWindow, Doc, DocType

LEMMA FetchTypes ==
    ASSUME TypeInv, NEW a \in Attempts, Fetch(a)
    PROVE  TypeInv'
<1> DEFINE f == fetcher[a]
           g == [f EXCEPT !.pc = "send", !.at = f.at + 1]
           b == BatchFile(row[a].pair, a, f.num, Doc(a, f.at + 1))
<1>1. /\ f.pc = "run" /\ f \in FetcherType /\ IsFiniteSet(f.todo) /\ row[a].pair \in CCPairs
      /\ f.at < NumBatches
  BY FetcherFits DEF Fetch, At, Fits
<1>2. f.at + 1 \in Positions /\ f.num \in Nat
  BY <1>1, PipelineNumbers DEF FetcherType, Positions
<1>3. b \in FileType
  BY <1>1, <1>2, DocTyped DEF BatchFile, FileType, Extracting
<1>4. StoreTyped'
  <2> DEFINE left == {h \in files : ~ SameName(b, h)}
  <2> HIDE DEF b
  <2>1. files' = left \cup {b}
    BY DEF Fetch, StoreBatch, b
  <2>2. IsFiniteSet(left) /\ left \subseteq FileType
    BY FS_Subset DEF TypeInv, StoreTyped
  <2>3. IsFiniteSet(left \cup {b})
    <3> HIDE DEF left
    <3> QED
      BY <2>2, FS_AddElement
  <2> QED
    BY <1>3, <2>1, <2>2, <2>3 DEF StoreTyped
<1>5. g \in FetcherType /\ g.todo = f.todo /\ g.pc = "send"
  BY <1>1, <1>2 DEF FetcherType, FetchSteps
<1>6. SetFetcher(a, g) /\ UNCHANGED <<row, newer>>
  BY DEF Fetch
<1> HIDE DEF g
<1>7. RowsTyped' /\ Ranked'
  BY <1>1, <1>5, <1>6, MoveTypes DEF Extracting
<1> QED
  BY <1>4, <1>7 DEF Fetch, TypeInv, TasksTyped, NotesTyped, OthersTyped

LEMMA SendTypes ==
    ASSUME TypeInv, NEW a \in Attempts, Send(a)
    PROVE  TypeInv'
<1> DEFINE f == fetcher[a]
           g == [f EXCEPT !.pc = "run", !.num = f.num + 1]
<1>1. f.pc = "send" /\ f \in FetcherType /\ IsFiniteSet(f.todo)
  BY FetcherFits DEF Send, At, Fits
<1>2. f.num \in Nat /\ f.num + 1 \in Nat /\ "run" \in FetchSteps
  BY <1>1 DEF FetcherType, FetchSteps
<1>3. TasksTyped'
  BY <1>2 DEF Send, TypeInv, TasksTyped, Task, TaskType
<1>4. g \in FetcherType /\ g.todo = f.todo
  <2> DEFINE n == f.num + 1
  <2> HIDE DEF n
  <2>1. n \in Nat
    BY <1>2 DEF n
  <2>2. [f EXCEPT !.pc = "run", !.num = n] \in FetcherType
    BY <1>1, <1>2, <2>1, Renumbered
  <2> QED
    BY <1>1, <2>2 DEF FetcherType, n
<1>5. SetFetcher(a, g) /\ UNCHANGED <<row, newer>>
  BY DEF Send
<1> HIDE DEF g
<1>6. RowsTyped' /\ Ranked'
  BY <1>1, <1>4, <1>5, MoveTypes DEF Extracting
<1> QED
  BY <1>3, <1>6 DEF Send, TypeInv, StoreTyped, NotesTyped, OthersTyped

LEMMA ReturnTypes ==
    ASSUME TypeInv, NEW a \in Attempts, Return(a)
    PROVE  TypeInv'
<1> DEFINE f == fetcher[a]
           g == [f EXCEPT !.pc = "save", !.checkpoint = f.at]
<1>1. f.pc = "run" /\ f \in FetcherType /\ IsFiniteSet(f.todo)
  BY FetcherFits DEF Return, At, Fits
<1>2. g \in FetcherType /\ g.todo = f.todo
  BY <1>1 DEF FetcherType, FetchSteps
<1>3. SetFetcher(a, g) /\ UNCHANGED <<row, newer>>
  BY DEF Return
<1> HIDE DEF g
<1>4. RowsTyped' /\ Ranked'
  BY <1>1, <1>2, <1>3, MoveTypes DEF Extracting
<1> QED
  BY <1>4 DEF Return, TypeInv, StoreTyped, TasksTyped, NotesTyped, OthersTyped

LEMMA RaiseTypes ==
    ASSUME TypeInv, NEW a \in Attempts, fetcher[a].pc = "run", Raise(a)
    PROVE  RowsTyped' /\ Ranked'
BY EndTypes, MarkEndTypes DEF Raise

LEMMA EndingTypes ==
    ASSUME TypeInv, NEW a \in Attempts,
           \/ StopSignal(a) \/ NotRunning(a) \/ ConnectorRaises(a) \/ ValidationError(a)
           \/ Watchdog(a) \/ KillFetcher(a)
    PROVE  TypeInv'
<1>1. /\ UNCHANGED <<files, queue, worker, monitor, indexed, paused, late>>
      /\ faults' = faults \/ Fault
  BY DEF StopSignal, NotRunning, ConnectorRaises, ValidationError, Watchdog, KillFetcher, Raise
<1>2. RowsTyped' /\ Ranked'
  <2>1. CASE StopSignal(a)
    BY <2>1, MarkEndTypes DEF StopSignal, At
  <2>2. CASE NotRunning(a) \/ ConnectorRaises(a)
    BY <2>2, RaiseTypes DEF NotRunning, ConnectorRaises, At
  <2>3. CASE ValidationError(a)
    BY <2>3, MarkEndTypes DEF ValidationError, At
  <2>4. CASE Watchdog(a)
    BY <2>4, EndTypes, MarkEndTypes DEF Watchdog, At
  <2>5. CASE KillFetcher(a)
    BY <2>5, EndTypes DEF KillFetcher, FetchSteps
  <2> QED
    BY <2>1, <2>2, <2>3, <2>4, <2>5
<1>3. faults' \in 0 .. MaxFaults
  BY <1>1, FaultTyped DEF TypeInv, OthersTyped
<1> QED
  BY <1>1, <1>2, <1>3 DEF TypeInv, StoreTyped, TasksTyped, NotesTyped, OthersTyped

LEMMA SetTotalBatchesTypes ==
    ASSUME TypeInv, NEW a \in Attempts, SetTotalBatches(a)
    PROVE  TypeInv'
<1> DEFINE s == [row[a] EXCEPT !.total = fetcher[a].num]
<1>1. fetcher[a].pc = "total" /\ Fits(row[a], fetcher[a]) /\ row[a].status # "none"
  BY FetcherFits DEF SetTotalBatches, At
<1>2. HasWindow(row[a]) /\ fetcher[a].num \in Nat /\ row[a] \in RowType
  BY <1>1 DEF Fits, Extracting, FetcherType
<1>3. /\ s \in RowType /\ s.start = row[a].start /\ s.upto = row[a].upto /\ s.pair = row[a].pair
      /\ s.settings = row[a].settings /\ s.status = row[a].status
  BY <1>2 DEF RowType
<1>4. fetcher' = [fetcher EXCEPT ![a] = Gone] /\ Write(a, s)
  BY DEF SetTotalBatches, SetFetcher
<1> HIDE DEF s
<1>5. Fits(s, Gone)
  BY <1>1, <1>2, <1>3, NothingToDo DEF Fits, HasWindow
<1>6. RowsTyped' /\ Ranked'
  BY <1>4, <1>5, WriteRanks, RowWritten DEF TypeInv
<1> QED
  BY <1>6 DEF SetTotalBatches, TypeInv, StoreTyped, TasksTyped, NotesTyped, OthersTyped

----------------------------------------------------------------------------
(* The steps of the workers *)

LEMMA TakeTypes ==
    ASSUME TypeInv, NEW w \in Workers, NEW t \in queue, Take(w, t)
    PROVE  TypeInv'
<1>1. t \in TaskType /\ queue' \subseteq TaskType
  BY DEF Take, TypeInv, TasksTyped
<1>2. TasksTyped'
  <2>1. CASE UNCHANGED worker
    BY <1>1, <2>1 DEF TypeInv, TasksTyped
  <2>2. CASE worker' # worker
    <3>1. PICK d \in GetBatch(files, row[t.attempt].pair, t.attempt, t.num) :
             SetWorker(w, [pc |-> "got", task |-> t, doc |-> d])
      BY <2>2 DEF Take
    <3>2. d \in DocType
      BY DEF GetBatch, TypeInv, StoreTyped, FileType
    <3>3. WorkTyped([pc |-> "got", task |-> t, doc |-> d])
      BY <1>1, <3>2 DEF WorkTyped, WorkType, WorkSteps
    <3> QED
      BY <1>1, <3>1, <3>3, WorkSet DEF TypeInv
  <2> QED
    BY <2>1, <2>2
<1> QED
  BY <1>2 DEF Take, TypeInv, RowsTyped, Ranked, StoreTyped, NotesTyped, OthersTyped

\* The attempt of a task that is being worked on has a row.
LEMMA HeldTask ==
    ASSUME TypeInv, NEW w \in Workers, worker[w].pc # "idle"
    PROVE  /\ worker[w] \in WorkType /\ worker[w].task \in TaskType
           /\ worker[w].task.attempt \in Attempts
BY DEF TypeInv, TasksTyped, WorkTyped, TaskType

LEMMA WorkOn ==
    ASSUME NEW k \in WorkType, k.task \in TaskType, NEW v \in WorkSteps, v # "got"
    PROVE  WorkTyped([k EXCEPT !.pc = v]) /\ WorkTyped([k EXCEPT !.pc = v, !.doc = NoDoc])
<1>1. [k EXCEPT !.pc = v] \in WorkType /\ [k EXCEPT !.pc = v, !.doc = NoDoc] \in WorkType
  BY DEF WorkType
<1> QED
  BY <1>1 DEF WorkTyped, WorkType

LEMMA ProcessTypes ==
    ASSUME TypeInv, NEW w \in Workers, Process(w)
    PROVE  TypeInv'
<1> DEFINE a == worker[w].task.attempt
           e == row[a].settings
<1>1. worker[w].pc = "got" /\ worker[w] \in WorkType /\ worker[w].task \in TaskType
      /\ worker[w].doc \in DocType /\ queue' \subseteq TaskType /\ queue' = queue
  BY HeldTask DEF Process, Holds, TypeInv, TasksTyped, WorkTyped
<1>2. TasksTyped'
  <2>1. "count" \in WorkSteps
    BY DEF WorkSteps
  <2> QED
    BY <1>1, <2>1, WorkOn, WorkSet DEF Process, TypeInv
<1>3. OthersTyped'
  <2>1. indexed' = [s \in Settings |-> indexed'[s]]
        /\ \A s \in Settings : indexed'[s] \subseteq indexed[s] \cup {worker[w].doc}
    BY DEF Process, TypeInv, OthersTyped
  <2>2. faults' \in 0 .. MaxFaults
    BY FaultTyped DEF Process, TypeInv, OthersTyped
  <2> QED
    BY <1>1, <2>1, <2>2 DEF Process, TypeInv, OthersTyped
<1> QED
  BY <1>2, <1>3 DEF Process, TypeInv, RowsTyped, Ranked, StoreTyped, NotesTyped

LEMMA WorkEndsTypes ==
    ASSUME TypeInv, NEW w \in Workers, ProcessRaises(w) \/ KillWorker(w)
    PROVE  TypeInv'
<1>1. queue' \subseteq TaskType
  BY HeldTask DEF ProcessRaises, KillWorker, WorkSteps, TypeInv, TasksTyped
<1>2. TasksTyped'
  BY <1>1, IdleWork, WorkSet DEF ProcessRaises, KillWorker, TypeInv
<1>3. faults' \in 0 .. MaxFaults
  BY FaultTyped DEF ProcessRaises, KillWorker, TypeInv, OthersTyped
<1> QED
  BY <1>2, <1>3 DEF ProcessRaises, KillWorker, TypeInv, RowsTyped, Ranked, StoreTyped, NotesTyped, OthersTyped

LEMMA CountTypes ==
    ASSUME TypeInv, NEW w \in Workers, Count(w)
    PROVE  TypeInv'
<1> DEFINE a == worker[w].task.attempt
           n == row[a].completed + 1
           y == row[a].docs \/ worker[w].doc = NoDoc
           s == [row[a] EXCEPT !.completed = n, !.docs = y]
           v == IF worker[w].doc = NoDoc THEN "delete" ELSE "errors"
<1>1. a \in Attempts /\ worker[w] \in WorkType /\ worker[w].task \in TaskType
  BY HeldTask DEF Count, Holds
<1>2. Fits(row[a], fetcher[a])
  BY <1>1, AllFit
<1>3. Write(a, s) /\ SetWorker(w, [worker[w] EXCEPT !.pc = v]) /\ queue' = queue /\ fetcher' = fetcher
  BY DEF Count
<1>4. TasksTyped'
  <2>1. v \in WorkSteps /\ v # "got" /\ queue' \subseteq TaskType
    BY <1>3 DEF WorkSteps, TypeInv, TasksTyped
  <2> HIDE DEF v
  <2> QED
    BY <1>1, <1>3, <2>1, WorkOn, WorkSet DEF TypeInv
<1>5. Fits(s, fetcher[a])
  <2>1. row[a].completed \in Nat
    BY <1>2 DEF Fits, RowType
  <2>2. n \in Nat
    BY <2>1
  <2>3. y \in BOOLEAN
    OBVIOUS
  <2> HIDE DEF n, y
  <2> QED
    BY <1>2, <2>2, <2>3, PipelineNumbers, NoteFits
<1>6. RowsTyped' /\ Ranked'
  <2> HIDE DEF s, a, v
  <2> QED
    BY <1>1, <1>3, <1>5, WriteRanks, Rewritten DEF TypeInv
<1> QED
  BY <1>4, <1>6 DEF Count, TypeInv, StoreTyped, NotesTyped, OthersTyped

LEMMA RecordErrorsTypes ==
    ASSUME TypeInv, NEW w \in Workers, NEW raises \in BOOLEAN, RecordErrors(w, raises)
    PROVE  TypeInv'
<1> DEFINE a == worker[w].task.attempt
           s == [row[a] EXCEPT !.errors = TRUE]
<1>1. a \in Attempts /\ worker[w] \in WorkType /\ worker[w].task \in TaskType
  BY HeldTask DEF RecordErrors, Holds
<1>2. Fits(row[a], fetcher[a]) /\ "delete" \in WorkSteps
  BY <1>1, AllFit DEF WorkSteps
<1>3. row' = [row EXCEPT ![a] = s] /\ queue' = queue /\ fetcher' = fetcher /\ newer' = newer
  BY DEF RecordErrors
<1>4. TasksTyped'
  BY <1>1, <1>2, <1>3, WorkOn, IdleWork, WorkSet DEF RecordErrors, TypeInv, TasksTyped
<1>5. Fits(s, fetcher[a])
  BY <1>2, PipelineNumbers, NoteFits
<1>6. RowsTyped'
  <2> HIDE DEF s, a
  <2> QED
    BY <1>1, <1>3, <1>5, Rewritten DEF TypeInv
<1> QED
  BY <1>3, <1>4, <1>6 DEF RecordErrors, TypeInv, Ranked, StoreTyped, NotesTyped, OthersTyped

LEMMA DeleteTypes ==
    ASSUME TypeInv, NEW w \in Workers, Delete(w)
    PROVE  TypeInv'
<1>1. StoreTyped'
  BY FilesShrink DEF Delete, DeleteBatch, TypeInv
<1>2. TasksTyped'
  <2>1. queue' \subseteq TaskType
    BY DEF Delete, TypeInv, TasksTyped
  <2> QED
    BY <2>1, IdleWork, WorkSet DEF Delete, TypeInv
<1> QED
  BY <1>1, <1>2 DEF Delete, TypeInv, RowsTyped, Ranked, NotesTyped, OthersTyped

----------------------------------------------------------------------------
(* Every step leaves everything typed *)

LEMMA TypeInit ==
    ASSUME Init
    PROVE  TypeInv
<1>1. NoRow \in RowType /\ NoRow.status = "none" /\ NoRow.total = Null
  BY DEF NoRow, RowType
<1>2. Fits(NoRow, NoFetcher)
  BY <1>1, NothingToDo DEF Fits, Extracting
<1>3. RowsTyped
  BY <1>2 DEF Init, RowsTyped
<1>4. Ranked
  BY DEF Init, Ranked
<1>5. StoreTyped
  BY FS_EmptySet DEF Init, StoreTyped
<1>6. TasksTyped
  BY IdleWork DEF Init, TasksTyped
<1>7. NotesTyped
  BY NoWatchTyped DEF Init, NotesTyped
<1>8. OthersTyped
  BY PipelineAssumption DEF Init, OthersTyped, PipelineAssumption
<1> QED
  BY <1>3, <1>4, <1>5, <1>6, <1>7, <1>8 DEF TypeInv

LEMMA MonitorStepTypes ==
    ASSUME SafetyInv, TypeInv, Monitor
    PROVE  TypeInv'
BY CreateAttemptTypes, HeartbeatTimeoutTypes, WatchTypes, CheckProgressTypes, FinishTypes,
   CleanUpTypes, MonitorFailsTypes DEF Monitor, SafetyInv

LEMMA FetchStepTypes ==
    ASSUME Life, TypeInv, NEW a \in Attempts, FetchStep(a)
    PROVE  TypeInv'
BY SpawnTypes, StartTypes, WindowTypes, ListTypes, RenameTypes, ReissueTypes, RecountTypes,
   SaveCheckpointTypes, FetchTypes, SendTypes, ReturnTypes, EndingTypes, SetTotalBatchesTypes
   DEF FetchStep

LEMMA WorkStepTypes ==
    ASSUME TypeInv, NEW w \in Workers, WorkStep(w)
    PROVE  TypeInv'
BY TakeTypes, ProcessTypes, CountTypes, DeleteTypes, RecordErrorsTypes DEF WorkStep

LEMMA TypeStep ==
    ASSUME SafetyInv, TypeInv, [Next]_vars
    PROVE  TypeInv'
<1>1. CASE Monitor
  BY <1>1, MonitorStepTypes
<1>2. ASSUME NEW p \in CCPairs, Pause(p) \/ Resume(p)
      PROVE  TypeInv'
  BY <1>2, PauseTypes, ResumeTypes DEF SafetyInv
<1>3. ASSUME NEW a \in Attempts,
             \/ FetchStep(a) \/ Heartbeat(a) \/ TimePasses(a) \/ SetupRaises(a)
             \/ ConnectorRaises(a) \/ ValidationError(a) \/ KillFetcher(a)
      PROVE  TypeInv'
  BY <1>3, FetchStepTypes, HeartbeatTypes, TimePassesTypes, SetupRaisesTypes, EndingTypes
     DEF SafetyInv
<1>4. ASSUME NEW w \in Workers, WorkStep(w) \/ ProcessRaises(w) \/ KillWorker(w)
      PROVE  TypeInv'
  BY <1>4, WorkStepTypes, WorkEndsTypes
<1>5. CASE UNCHANGED vars
  BY <1>5 DEF vars, TypeInv, RowsTyped, Ranked, StoreTyped, TasksTyped, NotesTyped, OthersTyped
<1> QED
  BY <1>1, <1>2, <1>3, <1>4, <1>5 DEF Next

\* Rows, files, tasks and processes have their form whatever the constants are: the
\* latest attempt and the last success that the code looks for exist whenever it uses
\* them, a process that extracts has a window, and no batch is numbered below zero.
THEOREM TypeCorrect == Spec => []TypeOK
<1>1. Init => SafetyInv /\ TypeInv
  BY SafetyInit, TypeInit
<1>2. SafetyInv /\ TypeInv /\ [Next]_vars => SafetyInv' /\ TypeInv'
  BY SafetyStep, TypeStep
<1>3. TypeInv => TypeOK
  BY TypeInvImplies
<1> QED
  BY <1>1, <1>2, <1>3, PTL DEF Spec
====
