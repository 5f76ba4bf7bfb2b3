----------------------------- MODULE StreamIndex -----------------------------
(***************************************************************************)
(* The index over a stream's prefix (pilsmer-core stream_index.rs): for    *)
(* each length k up to a limit, where the k-grams of the prefix occur.     *)
(* StreamIndex::build takes the prefix from the stream itself, from_prefix *)
(* is handed it, so that it need not be the stream's.  Offsets count from  *)
(* zero, as in the code.                                                   *)
(***************************************************************************)
EXTENDS Codec

CONSTANT Bytes      \* the bytes that streams and values are made of

ASSUME BytesAssumption == Bytes \subseteq Byte

\* What StreamIndex::from_prefix is given, and the stream it is given it for.
Index == [stream : Seq(Bytes), prefix : Seq(Bytes), maxK : Nat, cap : Nat,
          budget : Nat]

Gram(s, offset, k) == SubSeq(s, offset + 1, offset + k)

Grams(s, k) == {Gram(s, o, k) : o \in 0 .. Len(s) - k}

Occurrences(s, gram) ==
    {o \in 0 .. Len(s) - Len(gram) : Gram(s, o, Len(gram)) = gram}

\* Bug seeded for Retained: the last offsets are kept.
RetainedLast(index, gram) ==
    LET all == Occurrences(index.prefix, gram) IN
    {o \in all : Cardinality({p \in all : p > o}) < index.cap}

\* PackedKGramTable::build sorts by gram and offset and keeps the first
\* max_offsets_per_kgram offsets of each gram.
Retained(index, gram) ==
    LET all == Occurrences(index.prefix, gram) IN
    {o \in all : Cardinality({p \in all : p < o}) < index.cap}

\* estimated_bytes: 16 for an entry, 8 for an offset.
TableBytes(index, k) ==
    MapThenSumSet(LAMBDA g : 16 + 8 * Cardinality(Retained(index, g)),
                  Grams(index.prefix, k))

\* Tables are made for k = 1, 2, ... while the prefix has k-grams and the
\* tables so far fit the memory budget.
Fits(index, k) ==
    /\ k <= Len(index.prefix)
    /\ MapThenSumSet(LAMBDA j : TableBytes(index, j), 1 .. k) <= index.budget

\* The index is refused if its options are out of range, or not even the first
\* table fits.
Buildable(index) ==
    /\ index.maxK \in 1 .. 8
    /\ index.cap >= 1
    /\ index.prefix # <<>> => Fits(index, 1)

\* by_len.len(), which becomes max_k.
Depth(index) == Cardinality({k \in 1 .. index.maxK : Fits(index, k)})

\* Bug seeded for Find: offsets are counted from one.
FindShifted(index, needle) ==
    IF Len(needle) \in 1 .. Depth(index)
    THEN {o + 1 : o \in Retained(index, needle)} ELSE {}

\* find_candidates: the offsets at which the needle can be read.
Find(index, needle) ==
    IF Len(needle) \in 1 .. Depth(index) THEN Retained(index, needle) ELSE {}

\* Bug seeded for LocatedCost: every offset counts as one byte.
LocatedCostNear(offset, k) == 1 + 1 + 1 + VarintLen(k) + 1

\* located_chunk_encoded_cost: kind, stream, offset, length, transform.
LocatedCost(offset, k) == 1 + 1 + VarintLen(offset) + VarintLen(k) + 1
=============================================================================
