------------------------------ MODULE Envelopes ------------------------------
(***************************************************************************)
(* Value envelopes and reconstruction plans (pilsmer-core envelope.rs,     *)
(* plan.rs, reconstruct.rs), down to what the storage layer tells apart:   *)
(*                                                                         *)
(*   kind    raw bytes, or a plan that spells bytes out of a stream        *)
(*   spells  the bytes: stored, or read from the stream chunk by chunk     *)
(*   hash    the value whose logical hash the envelope carries; hashes are *)
(*           taken to be injective on Values                               *)
(*   stream  the stream the located chunks read, identified by its id and  *)
(*           fingerprint; NoStream for raw bytes and all-literal plans     *)
(*   chunks, len   chunk count and encoded length, which the score weighs  *)
(*                                                                         *)
(* A row that no PiLSMer wrote, or that was damaged, does not decode: it   *)
(* is Corrupt.  A plan that decodes but does not spell what its hash says  *)
(* is an envelope.                                                         *)
(***************************************************************************)
EXTENDS Integers

CONSTANTS
    Values,             \* logical byte strings
    Streams,            \* byte streams a registry can hold
    NoStream,
    Absent,             \* no value: a tombstone, or a key never written
    Corrupt,            \* bytes that are no envelope
    Size,               \* Size[v]: logical length of v
    MaxLogicalLen,      \* DecodeLimits.max_logical_len
    MaxChunkCount,      \* DecodeLimits.max_chunk_count
    MaxReconstruct      \* PiLsmOptions.max_reconstruct_bytes

Envelope ==
    [kind : {"raw", "plan"}, spells : Values, hash : Values,
     stream : Streams \union {NoStream}, chunks : Nat, len : Nat]

\* What a key can hold.
Row == Envelope \union {Absent, Corrupt}

ASSUME EnvelopeAssumption ==
    /\ NoStream \notin Streams
    /\ Absent # Corrupt
    /\ {Absent, Corrupt} \intersect (Values \union Envelope) = {}
    /\ Size \in [Values -> Nat]
    /\ {MaxLogicalLen, MaxChunkCount, MaxReconstruct} \subseteq Nat

\* ValueEnvelope::Raw(bytes).encode(): magic, version, kind, flags, hash kind,
\* two lengths, hash and crc frame the bytes.
FrameLen == 31
Raw(v) ==
    [kind |-> "raw", spells |-> v, hash |-> v, stream |-> NoStream,
     chunks |-> 0, len |-> Size[v] + FrameLen]

\* ValueEnvelope::decode succeeds under the configured DecodeLimits: the length
\* a raw payload or a plan states, the plan's chunk count, and for raw bytes
\* the logical hash.  (A plan's hash is checked when it is reconstructed.)
Decodable(e) ==
    /\ e # Corrupt
    /\ Size[e.hash] <= MaxLogicalLen
    /\ e.chunks <= MaxChunkCount
    /\ e.kind = "raw" => e.spells = e.hash

\* Reconstructor::reconstruct: every stream a chunk reads is registered with
\* the plan's fingerprint, and the bytes read have the plan's length and hash.
Reconstructs(registry, p) ==
    /\ p.stream \in registry \union {NoStream}
    /\ p.spells = p.hash

\* plan_score: encoded bytes plus 16 a chunk; a rewrite must lower it strictly.
Score(p) == p.len + 16 * p.chunks
Improves(new, old) == Score(new) < Score(old)

\* The bytes a row stands for, which is what the rest of the project calls its
\* meaning.  No code computes this.
Logical(e) ==
    IF e \in {Absent, Corrupt} THEN e
    ELSE IF e.spells = e.hash THEN e.hash ELSE Corrupt
=============================================================================
