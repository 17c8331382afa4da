---- MODULE BatchStorage ----
(***************************************************************************)
(* The files in which fetched batches of documents wait to be processed    *)
(* (onyx/file_store/document_batch_storage.py).  A file is named           *)
(* iab/<cc_pair>/<attempt>/<num>.json and holds one batch; the name is the *)
(* record's first three fields, the content its last.                      *)
(***************************************************************************)
EXTENDS Integers, FiniteSets

\* The file of attempt a of cc_pair p with number n.
BatchFile(p, a, n, doc) == [pair |-> p, attempt |-> a, num |-> n, doc |-> doc]

SameName(f, g) == f.pair = g.pair /\ f.attempt = g.attempt /\ f.num = g.num

\* LIKE 'iab/<p>%': no separator follows the number of the cc_pair, so the
\* files of every cc_pair whose number begins with the digits of p match too.
Digits == 0 .. 4
NameBegins(q, p) == \E k \in Digits : q \div (10 ^ k) = p

\* get_all_batches_for_cc_pair
AllBatches(files, p) == {f \in files : NameBegins(f.pair, p)}

\* cleanup_all_batches
CleanupAllBatches(files, p) == files \ AllBatches(files, p)

\* store_batch: save_file replaces a file of the same name
StoreBatch(files, f) == {g \in files : ~ SameName(f, g)} \cup {f}

\* get_batch: the batch under a name, as a set that is empty if there is none
GetBatch(files, p, a, n) ==
    {f.doc : f \in {g \in files : g.pair = p /\ g.attempt = a /\ g.num = n}}

\* delete_batch_by_num
DeleteBatch(files, p, a, n) ==
    {f \in files : ~ (f.pair = p /\ f.attempt = a /\ f.num = n)}

\* change_file_id on each of the files old: each moves to the name that attempt
\* a of cc_pair p gives its number.  Two that carry the same number end up under
\* one name, and the one renamed last is left.
Renamed(f, p, a) == [f EXCEPT !.pair = p, !.attempt = a]
Survivors(old) ==
    {s \in SUBSET old : /\ \A f, g \in s : f.num = g.num => f = g
                        /\ {f.num : f \in s} = {f.num : f \in old}}
MoveBatches(files, old, s, p, a) ==
    {g \in files \ old : \A f \in s : ~ SameName(g, Renamed(f, p, a))}
        \cup {Renamed(f, p, a) : f \in s}
====
