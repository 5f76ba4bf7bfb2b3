------------------------ MODULE MCReconstructionCache ------------------------
(***************************************************************************)
(* Instances of ReconstructionCache for TLC.                               *)
(***************************************************************************)
EXTENDS ReconstructionCache, TLC

CONSTANTS v1, v2, v3, v5, pi, euler

MCSize == (v1 :> 1) @@ (v2 :> 2) @@ (v3 :> 3) @@ (v5 :> 5)

PlanOf(v, s) ==
    [kind |-> "plan", spells |-> v, hash |-> v, stream |-> s, chunks |-> 1, len |-> 45]

\* One plan of each value, a second of v2, a plan whose stream is not there
\* and one that reads other bytes.
MCAsked ==
    {PlanOf(v, pi) : v \in Values}
    \union {[PlanOf(v2, pi) EXCEPT !.chunks = 2], PlanOf(v3, euler),
            [PlanOf(v3, pi) EXCEPT !.spells = v1]}
=============================================================================
