----------------------------- MODULE MCPlanning -----------------------------
(***************************************************************************)
(* Values, streams and plans small enough for TLC, shared by the models.   *)
(***************************************************************************)
EXTENDS Planning, TLC

CONSTANTS v1, v2, pi, euler

MCSize == (v1 :> 2) @@ (v2 :> 3)

\* build_runtime registers one stream and indexes it; build_migration_runtime
\* registers two and indexes the second.
PiOnly == [registry |-> {pi}, target |-> pi]
Migration == [registry |-> {pi, euler}, target |-> euler]

MCRuntimes == {PiOnly, Migration}

Cut(v, s, n) == [spells |-> v, stream |-> s, chunks |-> n, len |-> 40 + 5 * n]

\* v1 takes two chunks, or one under the options with the larger max_k; an
\* index built over a wrong prefix (StreamIndex::from_prefix) offers v1 for
\* v2 in pi; euler does not contain v2.
MCChunkings ==
    [x \in Streams \X Opts \X Values |->
        CASE x[2] = "k1" /\ x[3] = v1 -> {Cut(v1, x[1], 2)}
          [] x[2] = "k2" /\ x[3] = v1 -> {Cut(v1, x[1], 1)}
          [] x[1] = pi /\ x[3] = v2 -> {Cut(v1, x[1], 1)}
          [] OTHER -> {}]

\* Left by earlier sessions: nothing, raw bytes, a plan of either stream, a
\* plan that does not spell its value, a row that is no envelope.
MCExisting ==
    {Absent, Raw(v1), PlanFor(v1, Cut(v1, pi, 2)), PlanFor(v1, Cut(v1, euler, 2)),
     PlanFor(v2, Cut(v1, pi, 1)), Corrupt}
=============================================================================
