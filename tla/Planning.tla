------------------------------ MODULE Planning ------------------------------
(***************************************************************************)
(* What the planner and the reconstructor are to their callers             *)
(* (pilsmer-core planner.rs, reconstruct.rs): Chunkings says which chunks  *)
(* choose_chunks settles on for a value, per stream indexed and options.   *)
(* The search that finds them is not modelled here.                        *)
(***************************************************************************)
EXTENDS Envelopes

CONSTANTS
    Opts,           \* PlanOptions a caller can pass
    DefaultOpts,    \* those the planner was built with
    Chunkings       \* Chunkings[s, o, v]: what choose_chunks can return

\* An index can disagree with its stream (StreamIndex::from_prefix is handed
\* the bytes), so what the chunks spell need not be the value asked for.
Chunking == [spells : Values, stream : Streams \union {NoStream},
             chunks : Nat, len : Nat]

\* The registry and the indexed stream a database or a compactor runs with.
Runtime == [registry : SUBSET Streams, target : Streams]

ASSUME PlanningAssumption ==
    /\ DefaultOpts \in Opts
    /\ Chunkings \in [Streams \X Opts \X Values -> SUBSET Chunking]

\* The chunks read the stream that was searched, or are all literal.
ASSUME StreamAssumption ==
    \A s \in Streams, o \in Opts, v \in Values :
        \A c \in Chunkings[s, o, v] : c.stream \in {s, NoStream}

\* The plan made of the chunks chosen for v carries the hash of v.
PlanFor(v, c) ==
    [kind |-> "plan", spells |-> c.spells, hash |-> v, stream |-> c.stream,
     chunks |-> c.chunks, len |-> c.len]

Candidates(rt, o, v) ==
    {PlanFor(v, c) : c \in Chunkings[rt.target, o, v]}

\* Bug seeded for Plans: the planner does not reconstruct what it has planned.
PlansUnchecked(rt, o, v) == Candidates(rt, o, v)

\* Planner::plan_with_options_ref returns a plan only if reconstructing it
\* gives back the bytes it was made for; otherwise that is an error.  It also
\* fails with PlanningFailed, on any value, when the time budget runs out, and
\* on a value the index does not cover: Chunkings has nothing for it.
Plans(rt, o, v) ==
    {p \in Candidates(rt, o, v) : Reconstructs(rt.registry, p)}

PlanningErrs(rt, o, v) == Plans(rt, o, v) # Candidates(rt, o, v)
=============================================================================
