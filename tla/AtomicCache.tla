----------------------------- MODULE AtomicCache -----------------------------
(***************************************************************************)
(* The reconstruction cache as its readers see it: values that have been   *)
(* reconstructed are inserted, each in one step.                           *)
(***************************************************************************)
EXTENDS CacheInsertion

VARIABLE cached

Insertion == \E v \in Values : cached' \in Inserted(cached, v)

Spec == cached = {} /\ [][Insertion]_cached
=============================================================================
