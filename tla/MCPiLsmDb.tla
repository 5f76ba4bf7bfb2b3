------------------------------ MODULE MCPiLsmDb ------------------------------
(***************************************************************************)
(* Instances of PiLsmDb for TLC.                                           *)
(***************************************************************************)
EXTENDS PiLsmDb, MCPlanning

Simple(op, o) ==
    {[op |-> op, key |-> k, value |-> Absent, opts |-> o, sync |-> FALSE] : k \in Keys}
Puts(op, V, syncs) ==
    [op : {op}, key : Keys, value : V, opts : {"k1"}, sync : syncs]

\* Every operation; a put that awaits durability, and one that does not.
MCCalls ==
    Puts("put", {v1}, {TRUE}) \union Puts("put", {v2}, {FALSE})
    \union Puts("putplan", Values, {FALSE})
    \union Simple("delete", "k1") \union Simple("get", "k1")
    \union Simple("plan", "k1") \union Simple("vacuum", "k2")
    \union Simple("replan", "k2")

PiRuntimes == {PiOnly}

\* For liveness: the calls that queue for the guard once, twice and three times.
LiveExisting == {Absent, Raw(v1)}
LiveCalls ==
    Puts("put", {v2}, {TRUE}) \union Simple("plan", "k1") \union Simple("vacuum", "k2")

TaskSymmetry == Permutations(Tasks)
=============================================================================
