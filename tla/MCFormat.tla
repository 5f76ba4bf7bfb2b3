------------------------------- MODULE MCFormat -------------------------------
(***************************************************************************)
(* Instances of Format for TLC: bytes of two binary digits and a bit that  *)
(* says more follow, in words of five bits.                                *)
(***************************************************************************)
EXTENDS Format, Bitwise

Counter == [id |-> <<1, 5>>, fingerprint |-> 3, counter |-> TRUE, bytes |-> <<>>]
Prefix == [id |-> <<2, 6>>, fingerprint |-> 4, counter |-> FALSE,
           bytes |-> <<0, 7, 3, 3, 1, 4>>]
MCRegistry == {Counter, Prefix}
MCXorBytes == [p \in Byte \X Byte |-> p[1] ^^ p[2]]

As(s) == [id |-> s.id, fingerprint |-> s.fingerprint]
Gone == [id |-> <<3, 6>>, fingerprint |-> 4]
Changed == [id |-> <<2, 6>>, fingerprint |-> 2]
MCStreamLists == {<<>>, <<As(Counter)>>, <<As(Prefix), As(Counter)>>, <<Gone>>, <<Changed>>}

At(s, offset, len, transform) ==
    [stream |-> s, offset |-> offset, len |-> len, transform |-> transform]
\* Within a block, across blocks, at the last offset that is allowed, past the
\* end of a prefix, past the limits, empty.
MCChunks ==
    {At(0, 0, 1, <<0>>), At(0, 3, 3, <<2>>), At(1, 4, 2, <<1, 5>>), At(0, 15, 3, <<0>>),
     At(0, 16, 1, <<0>>), At(0, 1, 0, <<0>>), At(0, 1, 4, <<0>>),
     [literal |-> <<6, 2>>], [literal |-> <<>>]}

ChunkLists(n) == UNION {[1 .. m -> MCChunks] : m \in 0 .. n}

\* A plan with the hash of what it spells, if it spells anything.
PlanOf(streams, chunks, codec, more, hashKind) ==
    LET p == [len |-> CoveredLen(chunks) + more, hashKind |-> hashKind, hash |-> 1,
              codec |-> codec, streams |-> streams, chunks |-> chunks]
        spells == /\ \A n \in DOMAIN chunks : IsLocated(chunks[n]) =>
                                chunks[n].stream < Len(streams)
                  /\ Readable(p)
    IN  [p EXCEPT !.hash = IF spells THEN HashOf(hashKind, PlanSpells(p)) ELSE 1]

MCFragilePlans ==
    {PlanOf(<<As(Counter)>>, <<At(0, 3, 3, <<2>>), [literal |-> <<6>>]>>, 1, 0, 1),
     PlanOf(<<As(Prefix), As(Counter)>>, <<At(1, 15, 3, <<1, 5>>)>>, 2, 0, 2)}
MCFragile == {EncodePlan(p) : p \in MCFragilePlans} \union {EncodeRaw(1, <<7, 4>>)}

\* No payload is longer than a word can say.
MCPlans ==
    {p \in {PlanOf(s, c, codec, more, 1) : s \in MCStreamLists, c \in ChunkLists(2),
                                           codec \in Codecs, more \in {0, 1}}
             \union {[PlanOf(<<As(Counter)>>, c, 1, 0, 1) EXCEPT !.hash = 2] :
                        c \in ChunkLists(1)}
             \union {PlanOf(<<>>, [n \in 1 .. 4 |-> [literal |-> <<n>>]], 1, 0, 1)} :
        Len(EncodePayload(p)) + 1 < Words}
      \union MCFragilePlans

MCRawValues == UNION {[1 .. n -> {0, 6}] : n \in 0 .. 5} \union {<<7, 4>>, <<7, 4, 5>>}
=============================================================================
