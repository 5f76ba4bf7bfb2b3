------------------------------ MODULE MCPlanner ------------------------------
(***************************************************************************)
(* Instances of Planner for TLC, over two bytes.                           *)
(***************************************************************************)
EXTENDS Planner

Of(stream, n, maxK, cap, budget) ==
    [stream |-> stream, prefix |-> SubSeq(stream, 1, n), maxK |-> maxK,
     cap |-> cap, budget |-> budget]

Wide == Of(<<0, 0, 1, 0, 1>>, 5, 3, 2, 999)
Capped == Of(<<0, 1, 0, 1, 1, 0, 1>>, 7, 3, 1, 999)
Ones == Of(<<1, 1, 1>>, 3, 2, 1, 999)
\* Only the table for single bytes fits.
Tight == Of(<<0, 1, 1, 0>>, 4, 3, 4, 70)
\* Shorter than max_k.
Short == Of(<<1, 0, 0>>, 1, 3, 4, 999)
Empty == Of(<<1, 0>>, 0, 2, 1, 0)
\* from_prefix with bytes that are not the stream's.
Lying == [Wide EXCEPT !.stream = <<1, 0, 1, 0, 0>>]

MCLibraries ==
    {<<>>, <<Empty>>, <<Wide>>, <<Capped>>, <<Ones>>, <<Tight>>, <<Lying>>,
     <<Ones, Short>>, <<Short, Wide>>, <<Tight, Capped>>, <<Ones, Lying>>}

UpTo(n) == UNION {[1 .. m -> Bytes] : m \in 0 .. n}
MCTargets == UpTo(4)

SearchOption(k, literals, noTime) ==
    [maxK |-> k, literals |-> literals, noTime |-> noTime]
MCSearchOptions ==
    {SearchOption(1, FALSE, FALSE), SearchOption(3, FALSE, FALSE),
     SearchOption(2, TRUE, FALSE), SearchOption(2, FALSE, TRUE)}

\* A gram of two bytes that is found only where an offset takes three.
FarLibraries == {<<Of(<<0, 0, 0, 0, 0, 0, 0, 0, 0, 1, 1>>, 11, 2, 1, 999)>>}
FarTargets == UpTo(2)
FarOptions == {SearchOption(2, TRUE, FALSE)}
=============================================================================
