------------------------------- MODULE Planner -------------------------------
(***************************************************************************)
(* The planner's search (pilsmer-core planner.rs).  A call of              *)
(* plan_with_options computes, from the end of the value to its start, the *)
(* best chunk to begin each suffix with (choose_chunks), then follows the  *)
(* best chunks from the start, then reconstructs the plan and compares.    *)
(* The search looks at the clock now and then and gives up when its budget *)
(* is spent.                                                               *)
(***************************************************************************)
EXTENDS StreamIndex, SequencesExt

CONSTANTS
    Libraries,      \* the indexes a planner can have been built with
    Targets,        \* the values it is asked to plan
    SearchOptions,  \* the PlanOptions of a call
    ClockEvery      \* the clock is read at every 64th position

VARIABLES
    indexes,    \* Planner.indexes
    phase,      \* what the call in progress is doing, or how the last one ended
    target, opts,
    at,         \* i: the position the search, or the walk, has reached
    dp,         \* dp[i]: best score of the suffix from i, and its first chunk
    chunks      \* the chunks chosen

searchVars == <<indexes, phase, target, opts, at, dp, chunks>>

Phases == {"idle", "search", "walk", "check", "planned", "failed", "rejected"}

\* max_k, allow_literals, and whether max_plan_millis_per_value is zero.
Options == [maxK : Nat, literals : BOOLEAN, noTime : BOOLEAN]

ASSUME PlannerAssumption ==
    /\ \A l \in Libraries :
          /\ l \in Seq(Index)
          /\ \A n \in DOMAIN l : Buildable(l[n]) /\ Len(l[n].prefix) < Words
    /\ Targets \subseteq Seq(Bytes)
    /\ SearchOptions \subseteq Options
    /\ ClockEvery \in Nat \ {0}

\* Choice::Located and Choice::Literal; by = 0 is the literal byte at offset of
\* the value.
Choice == [by : Nat, offset : Nat, len : Nat \ {0}]
IsLiteral(c) == c.by = 0

\* Encoded bytes, chunks, read cost.
LiteralCost == 3 + VarintLen(1)
Score(c) ==
    IF IsLiteral(c) THEN <<LiteralCost, 1, 0>>
    ELSE <<LocatedCost(c.offset, c.len), 1, c.len>>
ZeroScore == <<0, 0, 0>>
Combine(s, t) == [n \in 1 .. 3 |-> s[n] + t[n]]

\* Scores, and tuples of any one length, compare from left to right.
Precedes(s, t) ==
    \E n \in DOMAIN s : s[n] < t[n] /\ \A m \in 1 .. n - 1 : s[m] = t[m]

NoChoice == [by |-> 0, offset |-> 0, len |-> 0]

\* Option<State>; the end of the value has no choice to make.
State ==
    [score : [1 .. 3 -> Nat], choice : Choice \union {NoChoice}, reached : BOOLEAN]
Unreached == [score |-> ZeroScore, choice |-> NoChoice, reached |-> FALSE]
End == [score |-> ZeroScore, choice |-> NoChoice, reached |-> TRUE]

SearchInit ==
    /\ indexes \in Libraries
    /\ phase = "idle"
    /\ target = <<>>
    /\ opts \in SearchOptions
    /\ at = 0
    /\ dp = <<>>
    /\ chunks = <<>>

\* plan_with_options is called; a budget of no time at all is refused.
Begin ==
    /\ phase \in {"idle", "planned", "failed", "rejected"}
    /\ target' \in Targets
    /\ opts' \in SearchOptions
    /\ phase' = IF opts'.noTime THEN "failed" ELSE "search"
    /\ at' = Len(target')
    /\ dp' = [n \in 0 .. Len(target') |-> IF n = Len(target') THEN End ELSE Unreached]
    /\ chunks' = <<>>
    /\ UNCHANGED indexes

\* candidates_at, for a planner over idxs.
CandidatesIn(idxs, pos) ==
    LET lengths == {k \in 1 .. opts.maxK : pos + k <= Len(target)} IN
    (UNION {{[by |-> n, offset |-> o, len |-> k] :
               o \in Find(idxs[n], Gram(target, pos, k))} :
            n \in DOMAIN idxs, k \in lengths})
    \union (IF opts.literals THEN {[by |-> 0, offset |-> pos, len |-> 1]} ELSE {})

CandidatesAt(pos) == CandidatesIn(indexes, pos)

\* The order in which candidates_at lists them: the first of equals is kept.
Place(c) ==
    IF IsLiteral(c) THEN <<opts.maxK + 1, 0, 0>> ELSE <<c.len, c.by, c.offset>>

Total(c, pos) == Combine(Score(c), dp[pos + c.len].score)

\* Bug seeded for Usable: a suffix that cannot be covered counts as free.
UsableAnyway(c, pos) == TRUE
Usable(c, pos) == dp[pos + c.len].reached

\* Bug seeded for Beats: the longest chunk that fits is taken.
BeatsByLength(c, d, pos) == Precedes(<<d.len>> \o Place(c), <<c.len>> \o Place(d))
Beats(c, d, pos) ==
    Precedes(Total(c, pos) \o Place(c), Total(d, pos) \o Place(d))

BestAt(pos) ==
    LET usable == {c \in CandidatesAt(pos) : Usable(c, pos)} IN
    IF usable = {} THEN Unreached
    ELSE LET best == CHOOSE c \in usable :
                        \A d \in usable \ {c} : Beats(c, d, pos)
         IN  [score |-> Total(best, pos), choice |-> best, reached |-> TRUE]

\* One turn of the loop over positions.
Weigh ==
    /\ phase = "search" /\ at > 0
    /\ at' = at - 1
    /\ dp' = [dp EXCEPT ![at - 1] = BestAt(at - 1)]
    /\ UNCHANGED <<indexes, phase, target, opts, chunks>>

\* The budget is spent.
TimeOut ==
    /\ phase = "search" /\ at > 0
    /\ (at - 1) % ClockEvery = 0
    /\ phase' = "failed"
    /\ UNCHANGED <<indexes, target, opts, at, dp, chunks>>

Weighed ==
    /\ phase = "search" /\ at = 0
    /\ phase' = "walk"
    /\ UNCHANGED <<indexes, target, opts, at, dp, chunks>>

\* "target cannot be covered"
Uncovered ==
    /\ phase = "walk" /\ at < Len(target)
    /\ ~dp[at].reached
    /\ phase' = "failed"
    /\ UNCHANGED <<indexes, target, opts, at, dp, chunks>>

\* Bug seeded for Choose: a byte is skipped after each chunk.
ChooseTooFar ==
    /\ phase = "walk" /\ at < Len(target)
    /\ dp[at].reached
    /\ chunks' = Append(chunks, dp[at].choice)
    /\ at' = at + dp[at].choice.len + 1
    /\ UNCHANGED <<indexes, phase, target, opts, dp>>

Choose ==
    /\ phase = "walk" /\ at < Len(target)
    /\ dp[at].reached
    /\ chunks' = Append(chunks, dp[at].choice)
    /\ at' = at + dp[at].choice.len
    /\ UNCHANGED <<indexes, phase, target, opts, dp>>

Chosen ==
    /\ phase = "walk" /\ at >= Len(target)
    /\ phase' = "check"
    /\ UNCHANGED <<indexes, target, opts, at, dp, chunks>>

\* What a chunk reads: literal bytes, or bytes of the stream, which ends where it
\* ends.  (The streams of the indexes are registered.)
Readable(c) == IsLiteral(c) \/ c.offset + c.len <= Len(indexes[c.by].stream)
Spelled(c) ==
    Gram(IF IsLiteral(c) THEN target ELSE indexes[c.by].stream, c.offset, c.len)
Spells(cs) == FoldLeft(LAMBDA acc, c : acc \o Spelled(c), <<>>, cs)

\* The plan is reconstructed from the streams and compared with the value.
Sound == (\A n \in DOMAIN chunks : Readable(chunks[n])) /\ Spells(chunks) = target

Check ==
    /\ phase = "check"
    /\ phase' = IF Sound THEN "planned" ELSE "rejected"
    /\ UNCHANGED <<indexes, target, opts, at, dp, chunks>>

SearchNext ==
    \/ Begin \/ Weigh \/ TimeOut \/ Weighed \/ Uncovered \/ Choose \/ Chosen \/ Check

SearchSpec == SearchInit /\ [][SearchNext]_searchVars

-----------------------------------------------------------------------------
(* Properties *)

\* Type invariant; neither the search nor the walk leaves the value.
SearchTypeOK ==
    /\ indexes \in Libraries
    /\ phase \in Phases
    /\ target \in Seq(Bytes)
    /\ opts \in Options
    /\ at \in 0 .. Len(target)
    /\ phase # "idle" => dp \in [0 .. Len(target) -> State]
    /\ chunks \in Seq(Choice)

\* All ways to cover the value from each position on, with the chunks that idxs
\* offer: what the search is measured against.
Covers(idxs) ==
    LET covers[pos \in 0 .. Len(target)] ==
            IF pos = Len(target) THEN {<<>>}
            ELSE UNION {{<<c>> \o rest : rest \in covers[pos + c.len]} :
                        c \in CandidatesIn(idxs, pos)}
    IN  covers

Sum(score(_), cs) == FoldLeft(LAMBDA acc, c : Combine(acc, score(c)), ZeroScore, cs)
Cost(cs) == Sum(Score, cs)

\* The search leaves at each position the least score of all ways to cover the
\* rest of the value, and nothing exactly where there is no way to.
SearchIsOptimal ==
    phase = "walk" /\ at = 0 =>
      LET covers == Covers(indexes) IN
      \A pos \in 0 .. Len(target) :
         IF covers[pos] = {} THEN ~dp[pos].reached
         ELSE /\ dp[pos].reached
              /\ dp[pos].score \in {Cost(cs) : cs \in covers[pos]}
              /\ \A cs \in covers[pos] : ~Precedes(Cost(cs), dp[pos].score)

\* The same tables with every offset in them.
Uncapped(index) ==
    LET all == Len(index.prefix) + 1
    IN  [index EXCEPT !.maxK = Depth(index), !.cap = all,
                      !.budget = 24 * Depth(index) * all]

\* The cap on the offsets kept per gram loses nothing: no value can be covered
\* better, or at all, with the offsets that are dropped.
CapLosesNothing ==
    phase = "walk" /\ at = 0 =>
      \A cs \in Covers([n \in DOMAIN indexes |-> Uncapped(indexes[n])])[0] :
         dp[0].reached /\ ~Precedes(Cost(cs), dp[0].score)

\* The walk takes exactly the chunks that the search has scored: it never gets
\* stuck once it has begun, ends where the value ends, and what it has chosen
\* and what is left add up to the score of the whole.
WalkFollowsSearch ==
    /\ phase = "walk" /\ chunks # <<>> =>
          /\ dp[at].reached
          /\ Combine(Cost(chunks), dp[at].score) = dp[0].score
    /\ phase \in {"check", "planned", "rejected"} => Cost(chunks) = dp[0].score

Genuine(index) == IsPrefix(index.prefix, index.stream)

\* A planner whose indexes were built from their streams never makes a plan
\* that its own check refuses; so LogicalHashMismatch and StreamReadOutOfBounds
\* from a planner mean that an index was handed other bytes than its stream's.
GenuinePlansPass ==
    (\A n \in DOMAIN indexes : Genuine(indexes[n])) => phase # "rejected"

\* SPEC.md section 9: "Optimize for encoded plan bytes first".  What a chunk
\* takes in the encoded plan (ReconstructionPlan::encode_payload): a literal byte, its
\* kind, length and byte; a located chunk, its kind, stream, offset, length and
\* transform.
EncodedBytes(c) ==
    IF IsLiteral(c) THEN 1 + VarintLen(1) + 1
    ELSE 1 + VarintLen(c.by - 1) + VarintLen(c.offset) + VarintLen(c.len) + 1

EncodedLen(cs) == LET len == [n \in DOMAIN cs |-> EncodedBytes(cs[n])]
                  IN  MapThenSumSet(LAMBDA n : len[n], DOMAIN cs)

FewestBytes ==
    phase = "planned" =>
      \A cs \in Covers(indexes)[0] : EncodedLen(chunks) <= EncodedLen(cs)

LiteralsIn(cs) == {n \in DOMAIN cs : IsLiteral(cs[n])}

\* As many streams as one byte can tell apart; no plan of more than 64 decodes.
FewStreams == \A l \in Libraries : Len(l) <= VarintBase

\* What does hold of it: counting each literal byte as one more than it takes, no
\* cover encodes in fewer.  So a plan is longer than the shortest by no more than
\* that one's literals, and where these are not allowed it is the shortest.
FewestBytesButForLiterals ==
    FewStreams /\ phase = "planned" =>
      \A cs \in Covers(indexes)[0] :
         EncodedLen(chunks) + Cardinality(LiteralsIn(chunks))
            <= EncodedLen(cs) + Cardinality(LiteralsIn(cs))
=============================================================================
