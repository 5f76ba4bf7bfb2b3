---------------------------- MODULE MCCommandLine ----------------------------
(***************************************************************************)
(* Instances of CommandLine for TLC.                                       *)
(***************************************************************************)
EXTENDS CommandLine, MCPlanning

CONSTANTS
    a, b,
    longpi      \* pi with another --prefix-bytes, which is another stream

Say(op, k, v, o, budget) ==
    [op |-> op, key |-> k, value |-> v, opts |-> o, budget |-> budget]
All(op, o, budget) == Say(op, Absent, Absent, o, budget)
OnKey(op, k) == Say(op, k, Absent, "k1", FALSE)

MCCommands ==
    [runtime : {Migration}, script : {<<All("migrate", "k2", FALSE)>>}]
    \union
    [runtime : {PiOnly},
     script : {<<>>, <<All("vacuumall", "k2", TRUE)>>,
               <<Say("put", a, v1, "k1", FALSE), All("planall", "k1", FALSE),
                 OnKey("get", a), OnKey("unparsable", a)>>,
               <<OnKey("delete", a)>>, <<OnKey("vacuum", b)>>, <<OnKey("plan", b)>>,
               <<OnKey("explain", a), All("metrics", "k1", FALSE)>>}]

CliCalls ==
    {[op |-> op, key |-> k, value |-> Absent, opts |-> o, sync |-> FALSE] :
        op \in {"delete", "get", "plan", "vacuum", "replan"}, k \in Keys, o \in Opts}
    \union
    {[op |-> "put", key |-> k, value |-> v, opts |-> "k1", sync |-> FALSE] :
        k \in Keys, v \in Values}

\* A raw row, plans of both profiles and of a profile that no process here is
\* opened with, a row that no process can decode.
CliExisting ==
    {Absent, Raw(v1), PlanFor(v1, Cut(v1, pi, 2)), PlanFor(v1, Cut(v1, euler, 2)),
     PlanFor(v1, Cut(v1, longpi, 1)), Corrupt}

CliSuppliers ==
    [mode : {"VacuumMeaning"}, rt : {PiOnly}, strict : {FALSE},
     snapshotSafe : {FALSE}]
=============================================================================
