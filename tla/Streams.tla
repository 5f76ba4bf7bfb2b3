------------------------------- MODULE Streams -------------------------------
(***************************************************************************)
(* The two kinds of stream and how they are read (pilsmer-core stream.rs). *)
(* A counter stream is made of blocks of BlockLen bytes, each a hash of    *)
(* its number; a prefix stream is a stretch of bytes.                      *)
(***************************************************************************)
EXTENDS Codec

CONSTANT BlockLen   \* 32

ASSUME StreamAssumption == BlockLen \in Nat \ {0} /\ Words % BlockLen = 0

\* Sha256CounterStream, PrefixByteStream
Stream == [id : Nat \X Nat, fingerprint : Nat, counter : BOOLEAN, bytes : Seq(Byte)]

\* Some byte for each place of a counter stream; the digest of a block stands
\* for itself.
CounterByte(pos) == ((3 * pos) + (pos \div BlockLen)) % (2 * VarintBase)
Block(b) == [n \in 1 .. BlockLen |-> CounterByte((b * BlockLen) + n - 1)]

\* Bug seeded for EndBlock: the block that the read ends in is not computed.
EndBlockBefore(end) == end \div BlockLen

\* end_offset.saturating_add(31) / 32
EndBlock(end) ==
    (IF end + BlockLen - 1 < Words THEN end + BlockLen - 1 ELSE Words - 1)
        \div BlockLen

Gives(val) == [how |-> "ok", val |-> val]
Failed == [how |-> "error", val |-> <<>>]
\* The slice that is taken ends after the bytes there are.
Panicked == [how |-> "panic", val |-> <<>>]

ReadCounter(offset, len) ==
    LET start == offset \div BlockLen
        end == EndBlock(offset + len)
        bytes == [n \in 1 .. (end - start) * BlockLen |->
                     Block(start + ((n - 1) \div BlockLen))[((n - 1) % BlockLen) + 1]]
        skip == offset % BlockLen
    IN  IF len = 0 THEN Gives(<<>>)
        ELSE IF offset + len >= Words THEN Failed
        ELSE IF skip + len > Len(bytes) THEN Panicked
        ELSE Gives(SubSeq(bytes, skip + 1, skip + len))

ReadPrefix(bytes, offset, len) ==
    IF offset + len > Len(bytes) THEN Failed
    ELSE Gives(SubSeq(bytes, offset + 1, offset + len))

ReadAt(stream, offset, len) ==
    IF stream.counter THEN ReadCounter(offset, len)
    ELSE ReadPrefix(stream.bytes, offset, len)

\* The bytes at those places, each taken from the stream itself.
Stretch(stream, offset, len) ==
    [n \in 1 .. len |->
        IF stream.counter THEN CounterByte(offset + n - 1)
        ELSE stream.bytes[offset + n]]
=============================================================================
