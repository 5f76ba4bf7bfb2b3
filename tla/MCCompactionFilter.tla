-------------------------- MODULE MCCompactionFilter --------------------------
(***************************************************************************)
(* Instances of CompactionFilter for TLC.                                  *)
(***************************************************************************)
EXTENDS CompactionFilter, MCPlanning

\* Compactors in every mode, with either runtime where planned rows are looked
\* at; strict only when forced, and without snapshot-safe filtering only when
\* vacuuming.
Compactor(mode, runtimes, strict, safe) ==
    [mode : {mode}, rt : runtimes, strict : {strict}, snapshotSafe : {safe}]

MCSuppliers ==
    Compactor("Disabled", {PiOnly}, FALSE, TRUE)
    \union Compactor("Normal", MCRuntimes, FALSE, TRUE)
    \union Compactor("ForceRawToPlan", {PiOnly}, TRUE, TRUE)
    \union Compactor("VacuumMeaning", MCRuntimes, FALSE, FALSE)
    \union Compactor("VacuumMeaning", MCRuntimes, FALSE, TRUE)

\* Also a plan in one stream that scores the same as the one the other offers.
FilterExisting == MCExisting \union {PlanFor(v1, Cut(v1, pi, 1))}

\* Two jobs and a write, or one job and two writes.
JobsAndWrites == jobs + seq <= 3

KeySymmetry == Permutations(Keys)
=============================================================================
