-------------------------------- MODULE Format --------------------------------
(***************************************************************************)
(* What a reader does with a row: the frame is taken apart and its         *)
(* checksum verified (pilsmer-core envelope.rs), a plan is decoded field   *)
(* by field under the decode limits (plan.rs), then reconstructed chunk by *)
(* chunk from the registered streams (reconstruct.rs).                     *)
(*                                                                         *)
(* A row is a sequence of bytes in which the magic, the logical hash, the  *)
(* checksum, a fingerprint and the seed of a stream take one symbol each.  *)
(* What nothing depends on (flags, the planner's version, the digest next  *)
(* to a fingerprint, the words of the ceremonial footer) is left out.      *)
(***************************************************************************)
EXTENDS Streams, SequencesExt

CONSTANTS
    RawValues, Plans,   \* what is encoded
    Fragile,        \* rows that are also read with some damage done to them
    Registry,       \* the registered streams
    XorBytes,            \* the exclusive or of two bytes
    MaxLogicalLen, MaxChunkCount, MaxEncodedPlanLen,   \* DecodeLimits
    MaxOffset, MaxChunkLen, MaxStreams,
    CrcModulus      \* what the checksum is taken modulo

VARIABLES
    input,      \* the row
    payload, at,    \* the payload and how much of it has been read
    stage,      \* what is read next, or how it ended
    left,       \* streams or chunks still to come
    plan,       \* the plan as far as it has been decoded
    out         \* the logical bytes as far as they are known

formatVars == <<input, payload, at, stage, left, plan, out>>

Stages == {"frame", "raw", "header", "streams", "chunks", "end", "refused",
           "reconstruct", "done", "failed", "panicked"}

HashKinds == {1, 2}
Codecs == {1, 2}
CeremonialCbor == 2

\* Identity, XorByte, Reverse
Transform == {<<0>>, <<2>>} \union {<<1, mask>> : mask \in Byte}
Located == [stream : Nat, offset : Nat, len : Nat, transform : Transform]
Literal == [literal : Seq(Byte)]
IsLocated(c) == "stream" \in DOMAIN c
ChunkLen(c) == IF IsLocated(c) THEN c.len ELSE Len(c.literal)

PlanStream == [id : Nat \X Nat, fingerprint : Nat]
Plan == [len : Nat, hashKind : HashKinds, hash : Nat, codec : Codecs,
         streams : Seq(PlanStream), chunks : Seq(Located \union Literal)]

ASSUME FormatAssumption ==
    /\ Registry \subseteq Stream
    /\ \A s, t \in Registry : s.id = t.id => s = t
    /\ XorBytes \in [Byte \X Byte -> Byte]
    /\ {MaxLogicalLen, MaxChunkCount, MaxEncodedPlanLen, MaxOffset, MaxChunkLen,
        MaxStreams} \subseteq 0 .. Words - 1

\* compute_logical_hash, one-to-one on short values.
HashOf(kind, bytes) ==
    kind + 2 * FoldLeft(LAMBDA h, b : (2 * VarintBase + 1) * h + b + 1, 0, bytes)

\* The checksum, crc32 in the code, which one wrong byte always changes.  So it
\* does here: the places of the symbols weigh them, modulo a prime.
ASSUME CrcAssumption ==
    /\ CrcModulus \in Nat \ {0, 1}
    /\ \A d \in 2 .. CrcModulus - 1 : CrcModulus % d # 0
Crc(s) == LET weighed == [n \in DOMAIN s |-> n * (s[n] % CrcModulus)]
          IN  MapThenSumSet(LAMBDA n : weighed[n], DOMAIN s) % CrcModulus

-----------------------------------------------------------------------------
(* Encoding *)

Magic == 7
Version == 1
KindRaw == 0
KindPlan == 1

Sealed(body) == Append(body, Crc(body))

\* ValueEnvelope::encode
Frame(kind, hashKind, bytes, hash) ==
    Sealed(<<Magic, Version, kind, hashKind>> \o PutVarint(Len(bytes)) \o bytes
             \o <<hash>>)

\* The counter stream has a seed, a prefix stream a digest and a length.
PutStream(s) ==
    (IF s.id[1] = 1 THEN s.id ELSE <<s.id[1]>> \o PutVarint(s.id[2]))
      \o <<s.fingerprint>>

PutChunk(c) ==
    IF IsLocated(c)
    THEN <<0>> \o PutVarint(c.stream) \o PutVarint(c.offset) \o PutVarint(c.len)
           \o c.transform
    ELSE <<1>> \o PutVarint(Len(c.literal)) \o c.literal

\* ceremonial_footer
Footer(p) == PutVarint(p.len) \o PutVarint(Len(p.streams)) \o PutVarint(Len(p.chunks))

EncodePayload(p) ==
    PutVarint(p.len) \o <<p.codec>>
      \o PutVarint(Len(p.streams)) \o FlattenSeq([n \in DOMAIN p.streams |-> PutStream(p.streams[n])])
      \o PutVarint(Len(p.chunks)) \o FlattenSeq([n \in DOMAIN p.chunks |-> PutChunk(p.chunks[n])])
      \o IF p.codec # CeremonialCbor THEN <<>>
         ELSE PutVarint(Len(Footer(p))) \o Footer(p)

EncodeRaw(hashKind, bytes) ==
    Frame(KindRaw, hashKind, PutVarint(Len(bytes)) \o bytes, HashOf(hashKind, bytes))
EncodePlan(p) == Frame(KindPlan, p.hashKind, EncodePayload(p), p.hash)

-----------------------------------------------------------------------------
(* Decoding *)

\* Rows as they were written.
Intact ==
    {EncodePlan(p) : p \in Plans}
      \union {EncodeRaw(kind, bytes) : kind \in HashKinds, bytes \in RawValues}

\* The types of the fields that are written: numbers fit a word, seeds and
\* fingerprints are symbols, and a row is no longer than a word can say.
WritesStream(s) ==
    /\ s.id[1] \in 1 .. 4 /\ s.id[1] \in Byte /\ s.fingerprint \in Byte
    /\ IF s.id[1] = 1 THEN s.id[2] \in Byte ELSE s.id[2] < Words
WritesChunk(c) ==
    IF IsLocated(c) THEN c.stream < Words /\ c.offset < Words /\ c.len < Words
    ELSE Len(c.literal) < Words
WritesPlan(p) ==
    /\ p \in Plan /\ p.len < Words
    /\ Len(p.streams) < Words /\ Len(p.chunks) < Words
    /\ \A n \in DOMAIN p.streams : WritesStream(p.streams[n])
    /\ \A n \in DOMAIN p.chunks : WritesChunk(p.chunks[n])
    /\ p.codec = CeremonialCbor => Len(Footer(p)) < Words

ASSUME InputAssumption ==
    /\ \A p \in Plans : WritesPlan(p) /\ Len(EncodePayload(p)) + 1 < Words
    /\ RawValues \subseteq Seq(Byte)
    /\ \A b \in RawValues : Len(b) < Words /\ Len(PutVarint(Len(b)) \o b) + 1 < Words
    /\ Fragile \subseteq Intact

\* The prime is above every symbol of a row that damage is done to, and above
\* the places that weigh them.
ASSUME SumAssumption ==
    /\ 2 * VarintBase <= CrcModulus
    /\ \A s \in Fragile : /\ Len(s) < CrcModulus
                          /\ \A n \in DOMAIN s : s[n] \in 0 .. CrcModulus - 1

\* Cut short, run on, or with one wrong byte.
Cut(s) == {SubSeq(s, 1, n) : n \in 0 .. Len(s) - 1}
Altered(s) == {[s EXCEPT ![n] = b] : n \in DOMAIN s, b \in Byte} \ {s}
Damaged == UNION {Cut(s) \union Altered(s) \union {Append(s, 0)} : s \in Fragile}

\* The payload is not one that encode writes, but the frame around it is right.
Forged ==
    UNION {LET len == ReadVarint(s, 4)
               bytes == SubSeq(s, len.at + 1, len.at + len.val)
           IN  {Frame(s[3], s[4], b, s[Len(s) - 1]) :
                   b \in Cut(bytes) \union Altered(bytes) \union {Append(bytes, 0)}} :
           s \in Fragile}

NoPlan == [len |-> 0, hashKind |-> 1, hash |-> 0, codec |-> 1, streams |-> <<>>,
           chunks |-> <<>>]

FormatInit ==
    /\ input \in Intact \union Damaged \union Forged
    /\ payload = <<>> /\ at = 0
    /\ stage = "frame"
    /\ left = 0
    /\ plan = NoPlan
    /\ out = <<>>

Refuse ==
    /\ stage' = "refused"
    /\ UNCHANGED <<input, payload, at, left, plan, out>>

\* Bug seeded for SumOk: the checksum is not verified.
SumIgnored == TRUE
SumOk == Crc(Front(input)) = Last(input)

\* The frame is as long as it says it is, all of it, and its sum is right.  The
\* checks are in the order of decode; which of them refuses a row is not told
\* apart, since no caller of decode looks at the kind of its error.
FrameOk ==
    LET len == ReadVarint(input, 4) IN
    /\ Len(input) >= 4
    /\ input[1] = Magic /\ input[2] = Version /\ input[4] \in HashKinds
    /\ len.ok
    /\ input[3] = KindPlan => len.val <= MaxEncodedPlanLen
    /\ len.at + len.val + 2 = Len(input)
    /\ SumOk
    /\ input[3] \in {KindRaw, KindPlan}

\* ValueEnvelope::decode
ReadFrame ==
    /\ stage = "frame"
    /\ IF ~FrameOk THEN Refuse
       ELSE LET len == ReadVarint(input, 4) IN
            /\ payload' = SubSeq(input, len.at + 1, len.at + len.val)
            /\ plan' = [plan EXCEPT !.hashKind = input[4],
                                    !.hash = input[Len(input) - 1]]
            /\ stage' = IF input[3] = KindRaw THEN "raw" ELSE "header"
            /\ UNCHANGED <<input, at, left, out>>

\* decode_raw_payload
ReadRaw ==
    /\ stage = "raw"
    /\ LET len == ReadVarint(payload, 0)
           bytes == ReadExact(payload, len.at, len.val)
       IN  IF /\ len.ok /\ len.val <= MaxLogicalLen
              /\ bytes.ok /\ bytes.at = Len(payload)
              /\ HashOf(plan.hashKind, bytes.val) = plan.hash
           THEN /\ out' = bytes.val
                /\ at' = bytes.at
                /\ stage' = "done"
                /\ UNCHANGED <<input, payload, left, plan>>
           ELSE Refuse

ReadHeader ==
    /\ stage = "header"
    /\ LET len == ReadVarint(payload, 0)
           codec == ReadByte(payload, len.at)
           count == ReadVarint(payload, codec.at)
       IN  IF /\ len.ok /\ len.val <= MaxLogicalLen
              /\ codec.ok /\ codec.val \in Codecs
              /\ count.ok /\ count.val <= MaxStreams
           THEN /\ plan' = [plan EXCEPT !.len = len.val, !.codec = codec.val]
                /\ at' = count.at
                /\ left' = count.val
                /\ stage' = "streams"
                /\ UNCHANGED <<input, payload, out>>
           ELSE Refuse

\* StreamId::decode, and the fingerprint
ReadStream ==
    /\ stage = "streams" /\ left > 0
    /\ LET tag == ReadByte(payload, at)
           id == IF tag.val = 1 THEN ReadByte(payload, tag.at)
                 ELSE ReadVarint(payload, tag.at)
           print == ReadByte(payload, id.at)
       IN  IF tag.ok /\ tag.val \in 1 .. 4 /\ id.ok /\ print.ok
           THEN /\ plan' = [plan EXCEPT !.streams =
                       Append(@, [id |-> <<tag.val, id.val>>, fingerprint |-> print.val])]
                /\ at' = print.at
                /\ left' = left - 1
                /\ UNCHANGED <<input, payload, stage, out>>
           ELSE Refuse

\* Bug seeded for CountOk: there is no limit.
CountIgnored(n) == TRUE
CountOk(n) == n <= MaxChunkCount

ReadChunkCount ==
    /\ stage = "streams" /\ left = 0
    /\ LET count == ReadVarint(payload, at) IN
       IF count.ok /\ CountOk(count.val)
       THEN /\ at' = count.at
            /\ left' = count.val
            /\ stage' = "chunks"
            /\ UNCHANGED <<input, payload, plan, out>>
       ELSE Refuse

LenOk(n) == n # 0 /\ n <= MaxChunkLen

\* ChunkTransform::decode
ReadTransform(from) ==
    LET tag == ReadByte(payload, from)
        mask == ReadByte(payload, tag.at)
    IN  IF ~tag.ok THEN Unread
        ELSE IF tag.val \in {0, 2} THEN Read(<<tag.val>>, tag.at)
        ELSE IF tag.val = 1 /\ mask.ok THEN Read(<<1, mask.val>>, mask.at)
        ELSE Unread

ReadLocated(from) ==
    LET stream == ReadVarint(payload, from)
        offset == ReadVarint(payload, stream.at)
        len == ReadVarint(payload, offset.at)
        transform == ReadTransform(len.at)
    IN  IF /\ stream.ok /\ stream.val < Len(plan.streams)
           /\ offset.ok /\ offset.val <= MaxOffset
           /\ len.ok /\ LenOk(len.val)
           /\ offset.val + len.val < Words
           /\ transform.ok
        THEN Read([stream |-> stream.val, offset |-> offset.val, len |-> len.val,
                   transform |-> transform.val], transform.at)
        ELSE Unread

ReadLiteral(from) ==
    LET len == ReadVarint(payload, from)
        bytes == ReadExact(payload, len.at, len.val)
    IN  IF len.ok /\ LenOk(len.val) /\ bytes.ok
        THEN Read([literal |-> bytes.val], bytes.at) ELSE Unread

ReadChunk ==
    /\ stage = "chunks" /\ left > 0
    /\ LET kind == ReadByte(payload, at)
           chunk == IF kind.val = 0 THEN ReadLocated(kind.at) ELSE ReadLiteral(kind.at)
       IN  IF kind.ok /\ kind.val \in {0, 1} /\ chunk.ok
           THEN /\ plan' = [plan EXCEPT !.chunks = Append(@, chunk.val)]
                /\ at' = chunk.at
                /\ left' = left - 1
                /\ UNCHANGED <<input, payload, stage, out>>
           ELSE Refuse

LenOf(chunks, S) == LET len == [n \in DOMAIN chunks |-> ChunkLen(chunks[n])]
                    IN  MapThenSumSet(LAMBDA n : len[n], S)
CoveredLen(chunks) == LenOf(chunks, DOMAIN chunks)

\* Bug seeded for Covered: chunks may leave some of the length uncovered.
CoveredEnough == CoveredLen(plan.chunks) <= plan.len
Covered == CoveredLen(plan.chunks) = plan.len

\* The ceremonial footer, the end of the payload, the length that is covered.
ReadEnd ==
    /\ stage = "chunks" /\ left = 0
    /\ LET len == ReadVarint(payload, at)
           footer == ReadExact(payload, len.at, len.val)
           end == IF plan.codec = CeremonialCbor THEN footer.at ELSE at
       IN  IF /\ plan.codec = CeremonialCbor =>
                    len.ok /\ footer.ok /\ footer.val = Footer(plan)
              /\ end = Len(payload)
              /\ Covered
           THEN /\ at' = end
                /\ stage' = "reconstruct"
                /\ UNCHANGED <<input, payload, left, plan, out>>
           ELSE Refuse

-----------------------------------------------------------------------------
(* Reconstruction *)

\* apply_transform
Transformed(bytes, transform) ==
    CASE transform[1] = 0 -> bytes
      [] transform[1] = 1 -> [n \in DOMAIN bytes |-> XorBytes[bytes[n], transform[2]]]
      [] transform[1] = 2 -> Reverse(bytes)

\* The registered stream that the plan means, or none.
StreamsOf(p, c) ==
    {s \in Registry : /\ s.id = p.streams[c.stream + 1].id
                      /\ s.fingerprint = p.streams[c.stream + 1].fingerprint}

\* Chunks are reconstructed in order; `left` counts those that have been.
ReadBytes ==
    /\ stage = "reconstruct" /\ left < Len(plan.chunks)
    /\ LET c == plan.chunks[left + 1]
           read == IF ~IsLocated(c) THEN Gives(c.literal)
                   ELSE IF StreamsOf(plan, c) = {} THEN Failed
                   ELSE ReadAt(CHOOSE s \in StreamsOf(plan, c) : TRUE, c.offset, c.len)
       IN  IF read.how = "ok"
           THEN /\ out' = out \o (IF IsLocated(c) THEN Transformed(read.val, c.transform)
                                 ELSE read.val)
                /\ left' = left + 1
                /\ UNCHANGED stage
           ELSE /\ stage' = IF read.how = "panic" THEN "panicked" ELSE "failed"
                /\ UNCHANGED <<out, left>>
    /\ UNCHANGED <<input, payload, at, plan>>

\* The length and the logical hash are compared.
Verify ==
    /\ stage = "reconstruct" /\ left = Len(plan.chunks)
    /\ stage' = IF Len(out) = plan.len /\ HashOf(plan.hashKind, out) = plan.hash
                THEN "done" ELSE "failed"
    /\ UNCHANGED <<input, payload, at, left, plan, out>>

Finished == stage \in {"refused", "done", "failed", "panicked"} /\ UNCHANGED formatVars

FormatNext ==
    \/ Finished
    \/ ReadFrame \/ ReadRaw \/ ReadHeader \/ ReadStream \/ ReadChunkCount
    \/ ReadChunk \/ ReadEnd \/ ReadBytes \/ Verify

FormatSpec == FormatInit /\ [][FormatNext]_formatVars

-----------------------------------------------------------------------------
(* explain (pilsmer-core explain.rs), from the plan as it is decoded, and  *)
(* what metrics adds up of it (lib.rs, PiLsmMetrics::observe).  Ratios are *)
(* told apart by their kind only; the length of the row is left out.       *)

Literals(chunks) == {n \in DOMAIN chunks : ~IsLocated(chunks[n])}

\* Bug seeded for LiteralBytes: literal chunks are counted, not their bytes.
LiteralChunks(chunks) == Cardinality(Literals(chunks))
LiteralBytes(chunks) == LenOf(chunks, Literals(chunks))

LongestRun(chunks) == Max({0} \union {ChunkLen(chunks[n]) : n \in DOMAIN chunks})

PlanRatio(p) ==
    IF p.len = 0 THEN "Undefined"
    ELSE IF LiteralBytes(p.chunks) = 0 THEN "Infinite" ELSE "Revoked"

ExplainPlan(p) ==
    [storage_class |-> "Plan", logical_user_bytes |-> p.len,
     chunks |-> Len(p.chunks),
     longest_natural_run |-> LongestRun(p.chunks),
     literal_bytes |-> LiteralBytes(p.chunks), ratio |-> PlanRatio(p),
     purity |-> IF LiteralBytes(p.chunks) = 0 THEN "Pure" ELSE "Contaminated"]

\* located_user_bytes_total += logical.saturating_sub(literal)
LocatedUserBytes(e) ==
    IF e.literal_bytes > e.logical_user_bytes THEN 0
    ELSE e.logical_user_bytes - e.literal_bytes

-----------------------------------------------------------------------------
(* Properties *)

\* Type invariant; the loop counters never exceed the limits on counts.
FormatTypeOK ==
    /\ stage \in Stages
    /\ at \in 0 .. Len(payload)
    /\ left \in 0 .. MaxChunkCount \union 0 .. MaxStreams
    /\ plan.len \in Nat /\ plan.hashKind \in HashKinds /\ plan.codec \in Codecs
    /\ plan.streams \in Seq(PlanStream)
    /\ \A n \in DOMAIN plan.chunks :
          plan.chunks[n] \in IF IsLocated(plan.chunks[n]) THEN Located ELSE Literal
    /\ out \in Seq(Byte)

Decoded == stage \in {"reconstruct", "done", "failed", "panicked"} /\ payload # <<>>

\* The limits that a plan must keep to be read again once it is stored.
WithinLimits(p) ==
    /\ p.len <= MaxLogicalLen
    /\ Len(p.streams) <= MaxStreams /\ Len(p.chunks) <= MaxChunkCount
    /\ Len(EncodePayload(p)) <= MaxEncodedPlanLen
    /\ \A n \in DOMAIN p.chunks :
          LET c == p.chunks[n] IN
          ChunkLen(c) <= MaxChunkLen /\ (IsLocated(c) => c.offset <= MaxOffset)

\* SPEC.md section 19: chunks cover exactly the length the plan states, none is
\* empty, none runs past the end of the 64-bit range, each names a stream.
Consistent(p) ==
    /\ CoveredLen(p.chunks) = p.len
    /\ \A n \in DOMAIN p.chunks :
          LET c == p.chunks[n] IN
          /\ ChunkLen(c) > 0
          /\ IsLocated(c) => c.offset + c.len < Words /\ c.stream < Len(p.streams)

WrittenPlans == {[row |-> EncodePlan(p), plan |-> p] : p \in Plans}
WrittenValues ==
    {[row |-> EncodeRaw(kind, b), bytes |-> b] : kind \in HashKinds, b \in RawValues}

\* decode(encode(envelope)) = envelope, for every plan that is consistent and
\* within the limits and every value that is short enough.
RoundTrip ==
    /\ stage \in {"refused", "reconstruct"} =>
          \A w \in WrittenPlans : w.row = input =>
             IF stage = "refused" THEN ~(Consistent(w.plan) /\ WithinLimits(w.plan))
             ELSE plan = w.plan
    /\ stage \in {"refused", "done"} =>
          \A w \in WrittenValues : w.row = input =>
             IF stage = "refused" THEN Len(w.bytes) > MaxLogicalLen
             ELSE out = w.bytes

\* Whatever decode accepts, of any payload in a frame that is right, the plan
\* is consistent and within the limits.
DecodedPlansSound ==
    stage = "reconstruct" => Consistent(plan) /\ WithinLimits(plan)

\* What explain and metrics say of any row that decodes, forged ones included,
\* which they never reconstruct: the bytes counted as located are those that
\* the located chunks read (the subtraction never clips), together with the
\* literal ones they are the value's length, no run is longer than the value,
\* and a plan is pure, and its ratio not revoked, exactly when every byte of
\* the value will come from a stream.
ExplainsWhatItHolds ==
    stage = "reconstruct" =>
      LET e == ExplainPlan(plan)
          located == DOMAIN plan.chunks \ Literals(plan.chunks)
      IN  /\ LocatedUserBytes(e) = LenOf(plan.chunks, located)
          /\ e.longest_natural_run <= e.logical_user_bytes
          /\ e.chunks <= e.logical_user_bytes
          /\ e.purity = "Pure" <=> located = DOMAIN plan.chunks
          /\ e.ratio = "Revoked" <=> located # DOMAIN plan.chunks
          /\ e.ratio = "Undefined" <=> plan.chunks = <<>>

\* A row that is cut short or run on, or has a wrong byte, is never decoded.
DamageRefused ==
    input \in Damaged \ Intact => ~Decoded /\ stage # "done"

\* A chunk spells these bytes, read from its stream place by place.
ChunkSpells(p, c) ==
    IF ~IsLocated(c) THEN c.literal
    ELSE Transformed(Stretch(CHOOSE s \in StreamsOf(p, c) : TRUE, c.offset, c.len),
                     c.transform)

\* All of its streams are registered, and reach as far as its chunks.
Readable(p) ==
    \A n \in DOMAIN p.chunks :
       LET c == p.chunks[n] IN
       IsLocated(c) => \E s \in StreamsOf(p, c) :
                          s.counter \/ c.offset + c.len <= Len(s.bytes)

PlanSpells(p) == FoldLeft(LAMBDA bytes, c : bytes \o ChunkSpells(p, c), <<>>, p.chunks)

\* Reconstruction never panics; it gives the bytes at the places the chunks
\* name, and gives them exactly when the plan can be read and its hash is
\* theirs.  (This is what Reconstructs stands for in the module Envelopes.)
ReadsWhatItNames ==
    /\ stage # "panicked"
    /\ stage \in {"done", "failed"} /\ input[3] = KindPlan =>
          LET honest == Readable(plan) /\ HashOf(plan.hashKind, PlanSpells(plan)) = plan.hash
          IN  /\ stage = "done" <=> honest
              /\ stage = "done" => out = PlanSpells(plan)
=============================================================================
