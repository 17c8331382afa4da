----------------------------- MODULE BundleLedger -----------------------------
(***************************************************************************)
(* What the artifacts root promises to whoever reads it: at any time it    *)
(* holds the verifiable bundle of at most one run.  A bundle is published  *)
(* by its manifest in one step, after every bundle published before it; it *)
(* may be spoiled, and once spoiled it never comes back.  A gate passes    *)
(* the newest published bundle, or nothing.                                *)
(***************************************************************************)
EXTENDS Naturals

CONSTANT Bundles   \* the runs that may publish a bundle, numbered from 1

VARIABLES
    current,     \* the bundle that verifies, 0 if none does
    published,   \* every bundle that was ever published
    passed       \* pairs <<gate run, bundle that it passed>>

ledger == <<current, published, passed>>

None == 0

Newest(b) == b \in published /\ \A c \in published : c <= b

Init ==
    /\ current = None
    /\ published = {}
    /\ passed = {}

Publish(b) ==
    /\ \A c \in published : c < b
    /\ current' = b
    /\ published' = published \cup {b}
    /\ UNCHANGED passed

Spoil ==
    /\ current # None
    /\ current' = None
    /\ UNCHANGED <<published, passed>>

Pass(g, b) ==
    /\ Newest(b)
    /\ passed' = passed \cup {<<g, b>>}
    /\ UNCHANGED <<current, published>>

Next ==
    \/ \E b \in Bundles : Publish(b)
    \/ Spoil
    \/ \E g, b \in Bundles : Pass(g, b)

Spec == Init /\ [][Next]_ledger

\* A bundle that verifies is the newest that was published.
CurrentIsNewest == current # None => Newest(current)
===============================================================================
