------------------------------ MODULE MCPiLSMer ------------------------------
(***************************************************************************)
(* Instances of PiLSMer for TLC.                                           *)
(***************************************************************************)
EXTENDS PiLSMer, MCPlanning

\* One stream profile for writers and compactors.
PiRuntimes == {PiOnly}
PiExisting == {Absent, Raw(v1), PlanFor(v1, Cut(v1, pi, 2))}

PiSuppliers ==
    [mode : {"Normal", "VacuumMeaning"}, rt : PiRuntimes, strict : {FALSE},
     snapshotSafe : {TRUE}]

PiCall(op, v, o) == [op |-> op, key |-> "key", value |-> v, opts |-> o, sync |-> FALSE]

PiCalls ==
    {PiCall("put", v1, "k1"), PiCall("put", v2, "k1"), PiCall("putplan", v1, "k1"),
     PiCall("delete", Absent, "k1"), PiCall("get", Absent, "k1"),
     PiCall("plan", Absent, "k1"), PiCall("vacuum", Absent, "k2"),
     PiCall("replan", Absent, "k1")}

TaskSymmetry == Permutations(Tasks)
=============================================================================
