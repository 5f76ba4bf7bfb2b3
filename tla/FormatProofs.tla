----------------------------- MODULE FormatProofs -----------------------------
(***************************************************************************)
(* Proofs about Format, for any registry, plans, values and limits: what   *)
(* is decoded is sound and no longer than what was read, what was written  *)
(* is read again, and reconstruction reads the places a plan names.        *)
(***************************************************************************)
EXTENDS Format, CodecProofs

-----------------------------------------------------------------------------
(* Streams *)

\* A quotient grows with its dividend.
LEMMA DivisionGrows ==
    ASSUME NEW b \in Nat \ {0}, NEW m \in Nat, NEW n \in Nat, m <= n
    PROVE  m \div b <= n \div b
<1>1. PICK p, q, r, s : p = m \div b /\ r = m % b /\ q = n \div b /\ s = n % b
  OBVIOUS
<1>2. p \in Nat /\ r \in 0 .. b - 1 /\ m = b * p + r
  BY <1>1, Division
<1>3. q \in Nat /\ s \in 0 .. b - 1 /\ n = b * q + s
  BY <1>1, Division
<1>4. ASSUME q < p PROVE FALSE
  <2>1. PICK d \in Nat : p = q + 1 + d
    BY <1>2, <1>3, <1>4
  <2>2. b * p = b * q + b + b * d /\ b * d \in Nat /\ b * q \in Nat
    BY <1>3, <2>1
  <2> QED
    BY <1>2, <1>3, <2>2
<1> QED
  BY <1>1, <1>2, <1>3, <1>4

\* Every place of a counter stream has a byte.
LEMMA CounterByteIs == \A pos \in Nat : CounterByte(pos) \in Byte
<1> SUFFICES ASSUME NEW pos \in Nat PROVE CounterByte(pos) \in Byte
  OBVIOUS
<1>1. BlockLen \in Nat \ {0} /\ VarintBase \in Nat \ {0}
  BY StreamAssumption, CodecAssumption
<1>2. PICK x : x = (3 * pos) + (pos \div BlockLen)
  OBVIOUS
<1>3. x \in Nat
  <2>1. pos \div BlockLen \in Nat
    BY <1>1, Division
  <2> QED
    BY <1>2, <2>1
<1>4. x % (2 * VarintBase) \in 0 .. (2 * VarintBase) - 1
  BY <1>1, <1>3, Division
<1> QED
  BY <1>2, <1>4 DEF CounterByte, Byte

\* The bytes that ReadCounter computes before it takes its slice.
CounterBytes(offset, end) ==
    LET start == offset \div BlockLen IN
    [n \in 1 .. (end - start) * BlockLen |->
        Block(start + ((n - 1) \div BlockLen))[((n - 1) % BlockLen) + 1]]

\* They are those of the stream, from the start of a block on.
LEMMA CounterBytesAre ==
    ASSUME NEW offset \in Nat, NEW end \in Nat, offset \div BlockLen <= end
    PROVE  /\ CounterBytes(offset, end) \in Seq(Byte)
           /\ Len(CounterBytes(offset, end)) = (end - (offset \div BlockLen)) * BlockLen
           /\ \A n \in 1 .. Len(CounterBytes(offset, end)) :
                 CounterBytes(offset, end)[n]
                   = CounterByte(BlockLen * (offset \div BlockLen) + n - 1)
<1>1. BlockLen \in Nat \ {0}
  BY StreamAssumption
<1>2. PICK start, L : start = offset \div BlockLen /\ L = BlockLen
  OBVIOUS
<1>3. start \in Nat /\ start <= end /\ L \in Nat \ {0}
  BY <1>1, <1>2, Division
<1>4. PICK N : N = (end - start) * L
  OBVIOUS
<1>5. N \in Nat
  BY <1>3, <1>4
<1>6. ASSUME NEW n \in 1 .. N
      PROVE  Block(start + ((n - 1) \div L))[((n - 1) % L) + 1] = CounterByte(L * start + n - 1)
  <2>1. PICK q, r : q = (n - 1) \div L /\ r = (n - 1) % L
    OBVIOUS
  <2>2. q \in Nat /\ r \in 0 .. L - 1 /\ n - 1 = L * q + r
    <3>1. PICK m \in Nat : m = n - 1
      BY <1>5
    <3>2. m \div L \in Nat /\ m % L \in 0 .. L - 1 /\ m = L * (m \div L) + (m % L)
      BY <1>3, Division
    <3> QED
      BY ONLY <2>1, <3>1, <3>2
  <2>3. Block(start + q)[r + 1] = CounterByte(((start + q) * L) + (r + 1) - 1)
    <3>1. r + 1 \in 1 .. L
      BY <1>3, <2>2
    <3> QED
      BY <1>2, <3>1 DEF Block
  <2>4. ((start + q) * L) + (r + 1) - 1 = L * start + n - 1
    <3>1. (start + q) * L = L * start + L * q /\ L * start \in Nat /\ L * q \in Nat
      BY <1>3, <2>2
    <3> QED
      BY <1>5, <2>2, <3>1
  <2> QED
    BY <2>1, <2>3, <2>4
<1>7. CounterBytes(offset, end) = [n \in 1 .. N |-> CounterByte(L * start + n - 1)]
  BY <1>2, <1>4, <1>6 DEF CounterBytes
<1>8. \A n \in 1 .. N : CounterByte(L * start + n - 1) \in Byte
  <2> SUFFICES ASSUME NEW n \in 1 .. N PROVE CounterByte(L * start + n - 1) \in Byte
    OBVIOUS
  <2>1. L * start \in Nat
    BY <1>3
  <2>2. L * start + n - 1 \in Nat
    BY <1>5, <2>1
  <2> QED
    BY <2>2, CounterByteIs
<1>9. CounterBytes(offset, end) \in [1 .. N -> Byte]
  BY <1>7, <1>8
<1>10. CounterBytes(offset, end) \in Seq(Byte) /\ Len(CounterBytes(offset, end)) = N
  BY <1>5, <1>9, IsASeq, LenProperties
<1> QED
  BY <1>2, <1>4, <1>7, <1>10

\* A read that does not run past the end of the range reads bytes.
LEMMA CounterReadTyped ==
    ASSUME NEW offset \in Nat, NEW len \in Nat
    PROVE  /\ ReadCounter(offset, len).how \in {"ok", "error", "panic"}
           /\ ReadCounter(offset, len).val \in Seq(Byte)
           /\ ReadCounter(offset, len).how = "ok" =>
                 Len(ReadCounter(offset, len).val) = len
<1> DEFINE r == ReadCounter(offset, len)
<1>0. BlockLen \in Nat \ {0} /\ Words \in Nat
  BY StreamAssumption, CodecAssumption
<1>1. <<>> \in Seq(Byte) /\ Len(<<>>) = 0
  BY EmptySeq
<1>2. CASE len = 0 \/ offset + len >= Words
  BY <1>1, <1>2 DEF ReadCounter, Gives, Failed
<1>3. CASE len # 0 /\ ~(offset + len >= Words)
  <2> DEFINE end == EndBlock(offset + len)
             skip == offset % BlockLen
             bytes == CounterBytes(offset, end)
  <2>1. end \in Nat /\ offset \div BlockLen <= end
    <3>1. PICK e \in Nat : /\ offset <= e /\ end = e \div BlockLen
      <4>1. PICK e : e = IF offset + len + BlockLen - 1 < Words
                         THEN offset + len + BlockLen - 1 ELSE Words - 1
        OBVIOUS
      <4>2. e \in Nat /\ offset <= e
        BY <1>0, <1>3, <4>1
      <4> QED
        BY <4>1, <4>2 DEF EndBlock
    <3>2. BlockLen \in Nat \ {0} /\ offset \in Nat /\ e \in Nat /\ offset <= e
      BY <1>0, <3>1
    <3>3. e \div BlockLen \in Nat
      BY ONLY <3>2, Division
    <3>4. offset \div BlockLen <= e \div BlockLen
      BY ONLY <3>2, DivisionGrows
    <3> QED
      BY ONLY <3>1, <3>3, <3>4
  <2>2. bytes \in Seq(Byte) /\ Len(bytes) \in Nat
    BY <2>1, CounterBytesAre, LenProperties
  <2>3. skip \in Nat
    BY <1>0, Division
  <2>4. r = IF skip + len > Len(bytes) THEN Panicked
            ELSE Gives(SubSeq(bytes, skip + 1, skip + len))
    BY <1>3 DEF ReadCounter, CounterBytes
  <2> HIDE DEF bytes, skip
  <2>5. CASE skip + len > Len(bytes)
    BY <1>1, <2>4, <2>5 DEF Panicked
  <2>6. CASE ~(skip + len > Len(bytes))
    <3>1. /\ SubSeq(bytes, skip + 1, skip + len) \in Seq(Byte)
          /\ Len(SubSeq(bytes, skip + 1, skip + len)) = len
      BY <1>3, <2>2, <2>3, <2>6, SubSeqProperties
    <3> QED
      BY <2>4, <2>6, <3>1 DEF Gives
  <2> QED
    BY <2>5, <2>6
<1> QED
  BY <1>2, <1>3

\* The blocks that are computed hold every byte that is asked for, as long as
\* the end of the read can be rounded up to a block; and these are the bytes at
\* the places asked for.  (The slice never panics.)
THEOREM CounterReads ==
    ASSUME NEW offset \in Nat, NEW len \in Nat \ {0}, offset + len + BlockLen <= Words
    PROVE  ReadCounter(offset, len)
             = Gives([n \in 1 .. len |-> CounterByte(offset + n - 1)])
<1>0. BlockLen \in Nat \ {0} /\ Words \in Nat
  BY StreamAssumption, CodecAssumption
<1>1. PICK L, start, skip, top, end, r :
        /\ L = BlockLen /\ start = offset \div L /\ skip = offset % L
        /\ top = offset + len + L - 1
        /\ end = top \div L /\ r = top % L
  OBVIOUS
<1>2. L \in Nat \ {0} /\ top \in Nat /\ offset <= top
  BY <1>0, <1>1
<1>3. start \in Nat /\ skip \in 0 .. L - 1 /\ offset = L * start + skip
  BY <1>1, <1>2, Division
<1>4. end \in Nat /\ r \in 0 .. L - 1 /\ top = L * end + r
  BY <1>1, <1>2, Division
<1>5. start <= end
  BY <1>1, <1>2, DivisionGrows
<1>6. EndBlock(offset + len) = end
  BY <1>0, <1>1 DEF EndBlock
<1> DEFINE bytes == CounterBytes(offset, end)
<1>7. /\ bytes \in Seq(Byte) /\ Len(bytes) = (end - start) * L
      /\ \A n \in 1 .. Len(bytes) : bytes[n] = CounterByte(L * start + n - 1)
  <2>1. offset \div BlockLen <= end
    BY <1>1, <1>5
  <2>2. /\ bytes \in Seq(Byte) /\ Len(bytes) = (end - (offset \div BlockLen)) * BlockLen
        /\ \A n \in 1 .. Len(bytes) :
              bytes[n] = CounterByte(BlockLen * (offset \div BlockLen) + n - 1)
    BY <1>4, <2>1, CounterBytesAre
  <2> HIDE DEF bytes
  <2> QED
    BY <1>1, <2>2
<1>8. skip + len <= Len(bytes) /\ Len(bytes) \in Nat
  <2>1. (end - start) * L = L * end - L * start /\ L * end \in Nat /\ L * start \in Nat
    BY <1>2, <1>3, <1>4
  <2>2. L * end >= offset + len
    BY <1>1, <1>2, <1>4, <2>1
  <2> QED
    BY <1>2, <1>3, <1>7, <2>1, <2>2, LenProperties
<1>9. ReadCounter(offset, len) = Gives(SubSeq(bytes, skip + 1, skip + len))
  <2>1. ~(offset + len >= Words) /\ len # 0
    BY <1>0
  <2>2. ~(skip + len > Len(bytes))
    BY <1>3, <1>8
  <2> QED
    BY <1>1, <1>6, <2>1, <2>2 DEF ReadCounter, CounterBytes
<1> HIDE DEF bytes
<1>10. SubSeq(bytes, skip + 1, skip + len) = [n \in 1 .. len |-> CounterByte(offset + n - 1)]
  <2>1. skip \in Nat /\ skip + 1 \in 1 .. Len(bytes) + 1 /\ skip + len \in Nat
    BY <1>2, <1>3, <1>8
  <2>2. SubSeq(bytes, skip + 1, skip + len) = [n \in 1 .. len |-> bytes[skip + n]]
    BY <1>7, <1>8, <2>1
  <2>3. ASSUME NEW n \in 1 .. len PROVE bytes[skip + n] = CounterByte(offset + n - 1)
    <3>1. skip + n \in 1 .. Len(bytes)
      BY <1>8, <2>1
    <3>2. L * start + (skip + n) - 1 = offset + n - 1
      <4>1. L * start \in Nat
        BY <1>2, <1>3
      <4> QED
        BY <1>3, <2>1, <4>1
    <3> QED
      BY <1>7, <3>1, <3>2
  <2> QED
    BY <2>2, <2>3
<1> QED
  BY <1>9, <1>10

-----------------------------------------------------------------------------
(* Sequences of sequences *)

\* The first pieces, joined.
Joined(ss, t) ==
    /\ t[0] = <<>>
    /\ \A i \in 1 .. Len(ss) : t[i] = t[i - 1] \o ss[i]

\* To flatten is to join the pieces one after the other.
LEMMA FlattenIs ==
    ASSUME NEW S, NEW ss \in Seq(Seq(S))
    PROVE  \E t \in [0 .. Len(ss) -> Seq(S)] : Joined(ss, t) /\ FlattenSeq(ss) = t[Len(ss)]
<1>1. PICK n, V : n = Len(ss) /\ V = Seq(S)
  OBVIOUS
<1>2. n \in Nat /\ \A i \in 1 .. n : ss[i] \in V
  BY <1>1, LenProperties, ElementOfSeq
<1>3. <<>> \in V /\ \A u, v \in V : u \o v \in V /\ <<>> \o u = u
  BY <1>1
<1> DEFINE step == [i \in 1 .. n |-> [v \in V |-> v \o ss[i]]]
<1>4. PICK t \in [0 .. n -> V] : Trace(<<>>, step, n, t)
  <2>1. step \in [1 .. n -> [V -> V]]
    BY <1>2, <1>3
  <2> HIDE DEF step
  <2> QED
    BY <1>2, <1>3, <2>1, TraceExists
<1>5. Joined(ss, t)
  <2>1. ASSUME NEW i \in 1 .. n PROVE t[i] = t[i - 1] \o ss[i]
    <3>1. t[i] = step[i][t[i - 1]]
      BY <1>4 DEF Trace
    <3>2. t[i - 1] \in V
      BY <1>2, <1>4
    <3> QED
      BY <3>1, <3>2
  <2>2. t[0] = <<>>
    BY <1>4 DEF Trace
  <2> QED
    BY <1>1, <2>1, <2>2 DEF Joined
<1> HIDE DEF step
<1>a. t[0] = <<>> /\ \A i \in 1 .. n : t[i] = t[i - 1] \o ss[i]
  BY <1>1, <1>5 DEF Joined
<1>6. CASE n = 0
  <2>1. ss = <<>>
    BY <1>1, <1>6, EmptySeq
  <2> QED
    BY <1>1, <1>4, <1>5, <1>6, <2>1 DEF FlattenSeq, Joined
<1>7. CASE n # 0
  <2> DEFINE Table(f) == f = [i \in 1 .. n |-> IF i = 1 THEN ss[i] ELSE f[i - 1] \o ss[i]]
             g == CHOOSE f : Table(f)
  <2>1. FlattenSeq(ss) = g[n]
    BY <1>1, <1>7 DEF FlattenSeq
  <2>2. Table([i \in 1 .. n |-> t[i]])
    <3> DEFINE h == [i \in 1 .. n |-> t[i]]
    <3>1. ASSUME NEW i \in 1 .. n
          PROVE  t[i] = IF i = 1 THEN ss[i] ELSE h[i - 1] \o ss[i]
      <4>1. t[i] = t[i - 1] \o ss[i]
        BY <1>1, <1>5 DEF Joined
      <4>2. CASE i = 1
        <5>1. t[1] = t[0] \o ss[1] /\ ss[1] \in V
          BY <1>2, <4>1, <4>2
        <5> QED
          BY <1>3, <1>a, <4>2, <5>1
      <4>3. CASE i # 1
        <5>1. i - 1 \in 1 .. n
          BY <1>2, <4>3
        <5> QED
          BY <4>1, <4>3, <5>1
      <4> QED
        BY <4>2, <4>3
    <3> QED
      BY <3>1
  <2>3. Table(g)
    <3> HIDE DEF Table
    <3> QED
      BY <2>2
  <2> HIDE DEF g
  <2> DEFINE Good == {i \in Nat : i + 1 <= n => g[i + 1] = t[i + 1]}
  <2>4. 0 \in Good
    <3>1. 1 \in 1 .. n /\ t[1] = t[0] \o ss[1]
      <4>1. 1 \in 1 .. n /\ 1 - 1 = 0
        BY <1>2, <1>7
      <4>2. t[1] = t[1 - 1] \o ss[1]
        BY <1>a, <4>1
      <4> QED
        BY <4>1, <4>2
    <3>2. g[1] = ss[1]
      BY <2>3, <3>1
    <3> QED
      BY <1>2, <1>3, <1>5, <3>1, <3>2 DEF Joined
  <2>5. ASSUME NEW i \in Nat, i \in Good PROVE i + 1 \in Good
    <3> SUFFICES ASSUME (i + 1) + 1 <= n PROVE g[(i + 1) + 1] = t[(i + 1) + 1]
      OBVIOUS
    <3>1. PICK j : j = (i + 1) + 1
      OBVIOUS
    <3>2. j \in 1 .. n /\ j # 1 /\ j - 1 = i + 1 /\ i + 1 <= n
      BY <1>2, <3>1
    <3>3. g[j] = g[j - 1] \o ss[j]
      BY <2>3, <3>2
    <3>4. t[j] = t[j - 1] \o ss[j]
      BY <1>1, <1>5, <3>2 DEF Joined
    <3> QED
      BY <2>5, <3>1, <3>2, <3>3, <3>4
  <2>6. Nat \subseteq Good
    <3> HIDE DEF Good
    <3> QED
      BY <2>4, <2>5, Induction
  <2>7. n - 1 \in Nat /\ (n - 1) + 1 = n
    BY <1>2, <1>7
  <2>8. g[n] = t[n]
    BY <2>6, <2>7
  <2> QED
    BY <1>1, <1>4, <1>5, <2>1, <2>8
<1> QED
  BY <1>6, <1>7

\* It joins them the same way if there is one piece more.
LEMMA FlattenAppend ==
    ASSUME NEW S, NEW ss \in Seq(Seq(S)), NEW x \in Seq(S)
    PROVE  /\ FlattenSeq(ss) \in Seq(S)
           /\ FlattenSeq(Append(ss, x)) = FlattenSeq(ss) \o x
<1>1. PICK n, rr : n = Len(ss) /\ rr = Append(ss, x)
  OBVIOUS
<1>2. /\ n \in Nat /\ rr \in Seq(Seq(S)) /\ Len(rr) = n + 1
      /\ \A i \in 1 .. n : rr[i] = ss[i]
      /\ rr[n + 1] = x
  BY <1>1, LenProperties, AppendProperties
<1>3. PICK t \in [0 .. n -> Seq(S)] : Joined(ss, t) /\ FlattenSeq(ss) = t[n]
  BY <1>1, FlattenIs
<1>4. PICK u \in [0 .. n + 1 -> Seq(S)] : Joined(rr, u) /\ FlattenSeq(rr) = u[n + 1]
  BY <1>2, FlattenIs
<1> DEFINE Good == {i \in Nat : i <= n => u[i] = t[i]}
<1>5. 0 \in Good
  BY <1>3, <1>4 DEF Joined
<1>6. ASSUME NEW i \in Nat, i \in Good PROVE i + 1 \in Good
  <2> SUFFICES ASSUME i + 1 <= n PROVE u[i + 1] = t[i + 1]
    OBVIOUS
  <2>1. i + 1 \in 1 .. n /\ i + 1 \in 1 .. n + 1 /\ (i + 1) - 1 = i /\ i <= n
    BY <1>2
  <2>2. u[i + 1] = u[i] \o rr[i + 1] /\ t[i + 1] = t[i] \o ss[i + 1]
    BY <1>1, <1>2, <1>3, <1>4, <2>1 DEF Joined
  <2> QED
    BY <1>2, <1>6, <2>1, <2>2
<1>7. u[n] = t[n]
  <2>1. Nat \subseteq Good
    <3> HIDE DEF Good
    <3> QED
      BY <1>5, <1>6, Induction
  <2> QED
    BY <1>2, <2>1
<1>8. u[n + 1] = u[n] \o x
  <2>1. n + 1 \in 1 .. n + 1 /\ (n + 1) - 1 = n
    BY <1>2
  <2> QED
    BY <1>2, <1>4, <2>1 DEF Joined
<1>9. t[n] \in Seq(S)
  BY <1>2, <1>3
<1> QED
  BY <1>1, <1>3, <1>4, <1>7, <1>8, <1>9

-----------------------------------------------------------------------------
(* What is written *)

\* Small numbers are bytes.
LEMMA SmallBytes ==
    /\ Byte \subseteq Nat /\ {0, 1, 2, 3} \subseteq Byte
    /\ VarintBase \in Nat /\ VarintBase >= 2 /\ Words \in Nat
  BY CodecAssumption DEF Byte

\* One symbol is a sequence of one.
LEMMA OneByte == \A b \in Byte : <<b>> \in Seq(Byte) /\ Len(<<b>>) = 1
OBVIOUS

\* What is written of a stream is bytes, and so many.
LEMMA StreamWritten ==
    ASSUME NEW s \in PlanStream, WritesStream(s)
    PROVE  /\ PutStream(s) \in Seq(Byte)
           /\ s.id[1] = 1 => Len(PutStream(s)) = 3
           /\ s.id[1] # 1 => Len(PutStream(s)) = Len(PutVarint(s.id[2])) + 2
<1>1. s.id \in Nat \X Nat /\ s.id = <<s.id[1], s.id[2]>> /\ s.id[2] \in Nat
  BY DEF PlanStream
<1>2. s.id[1] \in Byte /\ s.fingerprint \in Byte
  BY DEF WritesStream
<1>3. CASE s.id[1] = 1
  <2>1. s.id[2] \in Byte
    BY <1>3 DEF WritesStream
  <2>2. PutStream(s) = <<s.id[1], s.id[2]>> \o <<s.fingerprint>>
    BY <1>1, <1>3 DEF PutStream
  <2>3. <<s.id[1], s.id[2]>> \in Seq(Byte) /\ Len(<<s.id[1], s.id[2]>>) = 2
    BY <1>2, <2>1
  <2> QED
    BY <1>2, <1>3, <2>2, <2>3, OneByte, ConcatProperties
<1>4. CASE s.id[1] # 1
  <2>1. s.id[2] < Words
    BY <1>4 DEF WritesStream
  <2>2. PICK v : v = PutVarint(s.id[2])
    OBVIOUS
  <2>3. v \in Seq(Byte) /\ Len(v) \in Nat
    BY <1>1, <2>1, <2>2, WrittenVarint, LenProperties
  <2>4. PutStream(s) = (<<s.id[1]>> \o v) \o <<s.fingerprint>>
    BY <1>4, <2>2 DEF PutStream
  <2>5. (<<s.id[1]>> \o v) \in Seq(Byte) /\ Len(<<s.id[1]>> \o v) = 1 + Len(v)
    BY <1>2, <2>3, OneByte, ConcatProperties
  <2> QED
    BY <1>2, <1>4, <2>2, <2>3, <2>4, <2>5, OneByte, ConcatProperties
<1> QED
  BY <1>3, <1>4

\* So it is of a transform.
LEMMA TransformWritten ==
    ASSUME NEW t \in Transform
    PROVE  t \in Seq(Byte) /\ Len(t) \in {1, 2}
<1>1. CASE t \in {<<0>>, <<2>>}
  BY <1>1, SmallBytes, OneByte
<1>2. CASE t \in {<<1, mask>> : mask \in Byte}
  <2>1. PICK mask \in Byte : t = <<1, mask>>
    BY <1>2
  <2>2. 1 \in Byte
    BY SmallBytes
  <2>3. <<1, mask>> \in Seq(Byte) /\ Len(<<1, mask>>) = 2
    BY <2>2
  <2> QED
    BY <2>1, <2>3
<1> QED
  BY <1>1, <1>2 DEF Transform

\* And of a chunk.
LEMMA ChunkWritten ==
    ASSUME NEW c \in Located \union Literal, WritesChunk(c)
    PROVE  /\ PutChunk(c) \in Seq(Byte)
           /\ IsLocated(c) =>
                /\ c \in Located
                /\ Len(PutChunk(c)) = 1 + Len(PutVarint(c.stream)) + Len(PutVarint(c.offset))
                                        + Len(PutVarint(c.len)) + Len(c.transform)
           /\ ~IsLocated(c) =>
                /\ c \in Literal
                /\ Len(PutChunk(c)) = 1 + Len(PutVarint(Len(c.literal))) + Len(c.literal)
<1>1. CASE IsLocated(c)
  <2>1. c \in Located
    BY <1>1 DEF IsLocated, Literal
  <2>2. c.stream \in Nat /\ c.offset \in Nat /\ c.len \in Nat /\ c.transform \in Transform
        /\ c.stream < Words /\ c.offset < Words /\ c.len < Words
    BY <1>1, <2>1 DEF Located, WritesChunk
  <2>3. PICK u, v, w, t : /\ u = PutVarint(c.stream) /\ v = PutVarint(c.offset)
                          /\ w = PutVarint(c.len) /\ t = c.transform
    OBVIOUS
  <2>4. u \in Seq(Byte) /\ v \in Seq(Byte) /\ w \in Seq(Byte) /\ t \in Seq(Byte)
    BY <2>2, <2>3, WrittenVarint, TransformWritten
  <2>5. PutChunk(c) = (((<<0>> \o u) \o v) \o w) \o t
    BY <1>1, <2>3 DEF PutChunk
  <2>6. <<0>> \o u \in Seq(Byte) /\ Len(<<0>> \o u) = 1 + Len(u)
    BY <2>4, SmallBytes, OneByte, ConcatProperties
  <2>7. (<<0>> \o u) \o v \in Seq(Byte) /\ Len((<<0>> \o u) \o v) = 1 + Len(u) + Len(v)
    BY <2>4, <2>6, ConcatProperties
  <2>8. /\ ((<<0>> \o u) \o v) \o w \in Seq(Byte)
        /\ Len(((<<0>> \o u) \o v) \o w) = 1 + Len(u) + Len(v) + Len(w)
    BY <2>4, <2>7, ConcatProperties
  <2>9. /\ PutChunk(c) \in Seq(Byte)
        /\ Len(PutChunk(c)) = 1 + Len(u) + Len(v) + Len(w) + Len(t)
    BY <2>4, <2>5, <2>8, ConcatProperties
  <2> QED
    BY <1>1, <2>1, <2>3, <2>9
<1>2. CASE ~IsLocated(c)
  <2>1. c \in Literal
    BY <1>2 DEF IsLocated, Located
  <2>2. c.literal \in Seq(Byte) /\ Len(c.literal) \in Nat /\ Len(c.literal) < Words
    BY <1>2, <2>1, LenProperties DEF Literal, WritesChunk
  <2>3. PICK u, v : u = PutVarint(Len(c.literal)) /\ v = c.literal
    OBVIOUS
  <2>4. u \in Seq(Byte) /\ v \in Seq(Byte)
    BY <2>2, <2>3, WrittenVarint
  <2>5. PutChunk(c) = (<<1>> \o u) \o v
    BY <1>2, <2>3 DEF PutChunk
  <2>6. <<1>> \o u \in Seq(Byte) /\ Len(<<1>> \o u) = 1 + Len(u)
    BY <2>4, SmallBytes, OneByte, ConcatProperties
  <2>7. PutChunk(c) \in Seq(Byte) /\ Len(PutChunk(c)) = 1 + Len(u) + Len(v)
    BY <2>4, <2>5, <2>6, ConcatProperties
  <2> QED
    BY <1>2, <2>1, <2>3, <2>7
<1> QED
  BY <1>1, <1>2

\* A payload in its parts: up to the count of streams, the streams, the chunks,
\* the footer.
Opening(p, n) == PutVarint(p.len) \o <<p.codec>> \o PutVarint(n)
StreamPieces(p) == [n \in DOMAIN p.streams |-> PutStream(p.streams[n])]
ChunkPieces(p) == [n \in DOMAIN p.chunks |-> PutChunk(p.chunks[n])]
Closing(p) ==
    IF p.codec # CeremonialCbor THEN <<>> ELSE PutVarint(Len(Footer(p))) \o Footer(p)

\* The opening is bytes.
LEMMA OpeningWritten ==
    ASSUME NEW p, p.len \in Nat, p.len < Words, p.codec \in Codecs, NEW n \in Nat, n < Words
    PROVE  /\ Opening(p, n) \in Seq(Byte)
           /\ Len(Opening(p, n)) = Len(PutVarint(p.len)) + 1 + Len(PutVarint(n))
<1>1. PICK u, v : u = PutVarint(p.len) /\ v = PutVarint(n)
  OBVIOUS
<1>2. u \in Seq(Byte) /\ v \in Seq(Byte)
  BY <1>1, WrittenVarint
<1>3. p.codec \in Byte
  BY SmallBytes DEF Codecs
<1>4. u \o <<p.codec>> \in Seq(Byte) /\ Len(u \o <<p.codec>>) = Len(u) + 1
  BY <1>2, <1>3, OneByte, ConcatProperties
<1>5. /\ (u \o <<p.codec>>) \o v \in Seq(Byte)
      /\ Len((u \o <<p.codec>>) \o v) = Len(u) + 1 + Len(v)
  BY <1>2, <1>4, ConcatProperties
<1> QED
  BY <1>1, <1>5 DEF Opening

\* So are the streams.
LEMMA StreamsWritten ==
    ASSUME NEW p, p.streams \in Seq(PlanStream),
           \A n \in DOMAIN p.streams : WritesStream(p.streams[n])
    PROVE  StreamPieces(p) \in Seq(Seq(Byte)) /\ Len(StreamPieces(p)) = Len(p.streams)
<1>1. PICK n : n = Len(p.streams)
  OBVIOUS
<1>2. n \in Nat /\ DOMAIN p.streams = 1 .. n
  BY <1>1, LenProperties
<1>3. \A i \in 1 .. n : p.streams[i] \in PlanStream /\ WritesStream(p.streams[i])
  BY <1>1, <1>2, ElementOfSeq
<1>4. \A i \in 1 .. n : PutStream(p.streams[i]) \in Seq(Byte)
  BY <1>3, StreamWritten
<1>5. StreamPieces(p) \in [1 .. n -> Seq(Byte)]
  BY <1>2, <1>4 DEF StreamPieces
<1> QED
  BY <1>1, <1>2, <1>5, IsASeq, LenProperties

\* So are the chunks.
LEMMA ChunksWritten ==
    ASSUME NEW p, p.chunks \in Seq(Located \union Literal),
           \A n \in DOMAIN p.chunks : WritesChunk(p.chunks[n])
    PROVE  ChunkPieces(p) \in Seq(Seq(Byte)) /\ Len(ChunkPieces(p)) = Len(p.chunks)
<1>1. PICK n : n = Len(p.chunks)
  OBVIOUS
<1>2. n \in Nat /\ DOMAIN p.chunks = 1 .. n
  BY <1>1, LenProperties
<1>3. \A i \in 1 .. n : p.chunks[i] \in Located \union Literal /\ WritesChunk(p.chunks[i])
  BY <1>1, <1>2, ElementOfSeq
<1>4. \A i \in 1 .. n : PutChunk(p.chunks[i]) \in Seq(Byte)
  BY <1>3, ChunkWritten
<1>5. ChunkPieces(p) \in [1 .. n -> Seq(Byte)]
  BY <1>2, <1>4 DEF ChunkPieces
<1> QED
  BY <1>1, <1>2, <1>5, IsASeq, LenProperties

\* So is the footer.
LEMMA FooterWritten ==
    ASSUME NEW p \in Plan, p.len < Words, Len(p.streams) < Words, Len(p.chunks) < Words
    PROVE  Footer(p) \in Seq(Byte)
<1>1. p.len \in Nat /\ Len(p.streams) \in Nat /\ Len(p.chunks) \in Nat
  BY LenProperties DEF Plan
<1>2. PICK u, v, w : /\ u = PutVarint(p.len) /\ v = PutVarint(Len(p.streams))
                     /\ w = PutVarint(Len(p.chunks))
  OBVIOUS
<1>3. u \in Seq(Byte) /\ v \in Seq(Byte) /\ w \in Seq(Byte)
  BY <1>1, <1>2, WrittenVarint
<1>4. (u \o v) \o w \in Seq(Byte)
  BY <1>3, ConcatProperties
<1> QED
  BY <1>2, <1>4 DEF Footer

\* A payload is its parts, one after the other.
LEMMA PayloadParts ==
    ASSUME NEW p
    PROVE  EncodePayload(p)
             = (((Opening(p, Len(p.streams)) \o FlattenSeq(StreamPieces(p)))
                   \o PutVarint(Len(p.chunks))) \o FlattenSeq(ChunkPieces(p))) \o Closing(p)
  BY DEF EncodePayload, Opening, StreamPieces, ChunkPieces, Closing

\* It is bytes, as many as its parts have.
LEMMA PayloadWritten ==
    ASSUME NEW p, WritesPlan(p)
    PROVE  /\ Opening(p, Len(p.streams)) \in Seq(Byte)
           /\ FlattenSeq(StreamPieces(p)) \in Seq(Byte)
           /\ PutVarint(Len(p.chunks)) \in Seq(Byte)
           /\ FlattenSeq(ChunkPieces(p)) \in Seq(Byte)
           /\ Closing(p) \in Seq(Byte)
           /\ EncodePayload(p) \in Seq(Byte)
           /\ Len(EncodePayload(p))
                = Len(Opening(p, Len(p.streams))) + Len(FlattenSeq(StreamPieces(p)))
                    + Len(PutVarint(Len(p.chunks))) + Len(FlattenSeq(ChunkPieces(p)))
                    + Len(Closing(p))
<1>1. /\ p \in Plan /\ p.len \in Nat /\ p.len < Words /\ p.codec \in Codecs
      /\ p.streams \in Seq(PlanStream) /\ p.chunks \in Seq(Located \union Literal)
      /\ Len(p.streams) \in Nat /\ Len(p.chunks) \in Nat
      /\ Len(p.streams) < Words /\ Len(p.chunks) < Words
  BY LenProperties DEF WritesPlan, Plan
<1>2. PICK a, b, c, d, e :
        /\ a = Opening(p, Len(p.streams)) /\ b = FlattenSeq(StreamPieces(p))
        /\ c = PutVarint(Len(p.chunks)) /\ d = FlattenSeq(ChunkPieces(p)) /\ e = Closing(p)
  OBVIOUS
<1>3. a \in Seq(Byte)
  BY <1>1, <1>2, OpeningWritten
<1>4. b \in Seq(Byte)
  <2>1. StreamPieces(p) \in Seq(Seq(Byte))
    BY <1>1, StreamsWritten DEF WritesPlan
  <2> QED
    BY <1>2, <2>1, FlattenAppend, EmptySeq
<1>5. c \in Seq(Byte)
  BY <1>1, <1>2, WrittenVarint
<1>6. d \in Seq(Byte)
  <2>1. ChunkPieces(p) \in Seq(Seq(Byte))
    BY <1>1, ChunksWritten DEF WritesPlan
  <2> QED
    BY <1>2, <2>1, FlattenAppend, EmptySeq
<1>7. e \in Seq(Byte)
  <2>0. CASE p.codec # CeremonialCbor
    BY <1>2, <2>0, EmptySeq DEF Closing
  <2> SUFFICES ASSUME p.codec = CeremonialCbor PROVE e \in Seq(Byte)
    BY <2>0
  <2>1. Footer(p) \in Seq(Byte) /\ Len(Footer(p)) \in Nat /\ Len(Footer(p)) < Words
    BY <1>1, FooterWritten, LenProperties DEF WritesPlan
  <2>2. PutVarint(Len(Footer(p))) \in Seq(Byte)
    BY <2>1, WrittenVarint
  <2>3. PutVarint(Len(Footer(p))) \o Footer(p) \in Seq(Byte) /\ <<>> \in Seq(Byte)
    BY <2>1, <2>2, ConcatProperties, EmptySeq
  <2> QED
    BY <1>2, <2>3 DEF Closing
<1>8. a \o b \in Seq(Byte) /\ Len(a \o b) = Len(a) + Len(b)
  BY <1>3, <1>4, ConcatProperties
<1>9. (a \o b) \o c \in Seq(Byte) /\ Len((a \o b) \o c) = Len(a) + Len(b) + Len(c)
  BY <1>5, <1>8, ConcatProperties
<1>10. /\ ((a \o b) \o c) \o d \in Seq(Byte)
       /\ Len(((a \o b) \o c) \o d) = Len(a) + Len(b) + Len(c) + Len(d)
  BY <1>6, <1>9, ConcatProperties
<1>11. /\ (((a \o b) \o c) \o d) \o e \in Seq(Byte)
       /\ Len((((a \o b) \o c) \o d) \o e) = Len(a) + Len(b) + Len(c) + Len(d) + Len(e)
  BY <1>7, <1>10, ConcatProperties
<1>12. EncodePayload(p) = (((a \o b) \o c) \o d) \o e
  BY <1>2, PayloadParts
<1> QED
  BY <1>2, <1>3, <1>4, <1>5, <1>6, <1>7, <1>11, <1>12

-----------------------------------------------------------------------------
(* Frames *)

\* The checksum of a row is a number.
LEMMA CrcIs == ASSUME NEW s \in Seq(Nat) PROVE Crc(s) \in Nat
<1>1. PICK n : n = Len(s)
  OBVIOUS
<1>2. n \in Nat /\ DOMAIN s = 1 .. n /\ \A i \in 1 .. n : s[i] \in Nat
  BY <1>1, LenProperties, ElementOfSeq
<1> DEFINE w == [i \in 1 .. n |-> i * (s[i] % CrcModulus)]
<1>3. \A i \in 1 .. n : w[i] \in Nat
  <2> SUFFICES ASSUME NEW i \in 1 .. n PROVE w[i] \in Nat
    OBVIOUS
  <2>1. PICK d : d = s[i] % CrcModulus
    OBVIOUS
  <2>2. d \in Nat
    <3>1. s[i] \in Nat /\ CrcModulus \in Nat \ {0}
      BY <1>2, CrcAssumption
    <3>2. s[i] % CrcModulus \in 0 .. CrcModulus - 1
      BY <3>1, Division
    <3> QED
      BY <2>1, <3>1, <3>2
  <2>3. i * d \in Nat
    BY <1>2, <2>2
  <2> QED
    BY <2>1, <2>3
<1>4. PICK v, m : v = w /\ m = SumOf(v, 1 .. n)
  OBVIOUS
<1>5. m \in Nat
  <2>1. IsFiniteSet(1 .. n)
    BY <1>2, FS_Interval
  <2> HIDE DEF w
  <2>2. \A i \in 1 .. n : v[i] \in Nat
    BY <1>3, <1>4
  <2> QED
    BY <1>4, <2>1, <2>2, SumType
<1>6. Crc(s) = m % CrcModulus
  <2>1. Crc(s) = SumOf([i \in DOMAIN s |-> i * (s[i] % CrcModulus)], DOMAIN s) % CrcModulus
    BY DEF Crc, SumOf
  <2> QED
    BY <1>2, <1>4, <2>1
<1> QED
  BY <1>5, <1>6, CrcAssumption, Division

\* What is between the kind of hash and the hash are bytes.
InnerBytes(row) == \A i \in 5 .. Len(row) - 2 : row[i] \in Byte

\* A row is as long as it says it is.
LengthFits(row) ==
    LET len == ReadVarint(row, 4) IN len.ok /\ len.at + len.val + 2 = Len(row)

\* The parts of a frame f around the bytes b, whose length takes l bytes.
Framed(kind, hashKind, b, hash, l, f) ==
    /\ f \in Seq(Nat) /\ l \in Nat \ {0} /\ Len(f) = 4 + l + Len(b) + 2
    /\ f[1] = Magic /\ f[2] = Version /\ f[3] = kind /\ f[4] = hashKind
    /\ Holds(f, 4, PutVarint(Len(b))) /\ Holds(f, 4 + l, b)
    /\ f[Len(f) - 1] = hash /\ Crc(Front(f)) = Last(f)
    /\ ReadVarint(f, 4) = Read(Len(b), 4 + l)
    /\ InnerBytes(f)

\* A frame has these parts.
LEMMA FrameParts ==
    ASSUME NEW kind \in Nat, NEW hashKind \in Nat, NEW b \in Seq(Byte), Len(b) < Words,
           NEW hash \in Nat
    PROVE  Framed(kind, hashKind, b, hash, Len(PutVarint(Len(b))),
                  Frame(kind, hashKind, b, hash))
<1>1. PICK n, x, l, head : /\ n = Len(b) /\ x = PutVarint(n) /\ l = Len(x)
                           /\ head = <<Magic, Version, kind, hashKind>>
  OBVIOUS
<1>2. n \in Nat /\ x \in Seq(Byte) /\ l \in Nat \ {0} /\ \A m \in 1 .. l : x[m] \in Byte
  <2>1. n \in Nat /\ n < Words
    BY <1>1, LenProperties
  <2>2. x \in Seq(Byte) /\ l = VarintLen(n) /\ l \in 1 .. VarintBytes
    BY <1>1, <2>1, WrittenVarint
  <2>3. l \in Nat \ {0}
    BY <2>2, CodecAssumption
  <2> QED
    BY <1>1, <2>1, <2>2, <2>3, ElementOfSeq
<1>3. Byte \subseteq Nat /\ x \in Seq(Nat) /\ b \in Seq(Nat)
  BY <1>2, SmallBytes, SeqMonotonic
<1>4. head \in Seq(Nat) /\ Len(head) = 4
  BY <1>1 DEF Magic, Version
<1>5. PICK y, z, u, f : /\ y = head \o x /\ z = y \o b /\ u = z \o <<hash>>
                        /\ f = Append(u, Crc(u))
  OBVIOUS
<1>6. y \in Seq(Nat) /\ Len(y) = 4 + l
      /\ \A i \in 1 .. 4 + l : y[i] = IF i <= 4 THEN head[i] ELSE x[i - 4]
  BY <1>1, <1>3, <1>4, <1>5, ConcatProperties, SMTT(30)
<1>7. z \in Seq(Nat) /\ Len(z) = 4 + l + n
      /\ \A i \in 1 .. 4 + l + n : z[i] = IF i <= 4 + l THEN y[i] ELSE b[i - (4 + l)]
  BY <1>1, <1>3, <1>5, <1>6, ConcatProperties, SMTT(30)
<1>8. /\ u \in Seq(Nat) /\ Len(u) = 4 + l + n + 1
      /\ \A i \in 1 .. 4 + l + n : u[i] = z[i]
      /\ u[4 + l + n + 1] = hash
  <2>1. <<hash>> \in Seq(Nat) /\ Len(<<hash>>) = 1 /\ <<hash>>[1] = hash
    OBVIOUS
  <2>2. /\ u \in Seq(Nat) /\ Len(u) = 4 + l + n + 1
        /\ \A i \in 1 .. 4 + l + n + 1 :
              u[i] = IF i <= 4 + l + n THEN z[i] ELSE <<hash>>[i - (4 + l + n)]
    <3>1. PICK o, k : o = <<hash>> /\ k = 4 + l + n
      OBVIOUS
    <3>2. o \in Seq(Nat) /\ Len(o) = 1 /\ z \in Seq(Nat) /\ Len(z) = k /\ u = z \o o
      BY <1>5, <1>7, <2>1, <3>1
    <3>3. /\ u \in Seq(Nat) /\ Len(u) = k + 1
          /\ \A i \in 1 .. k + 1 : u[i] = IF i <= k THEN z[i] ELSE o[i - k]
      <4>1. /\ z \o o \in Seq(Nat) /\ Len(z \o o) = Len(z) + Len(o)
            /\ \A i \in 1 .. Len(z) + Len(o) :
                  (z \o o)[i] = IF i <= Len(z) THEN z[i] ELSE o[i - Len(z)]
        BY ONLY <3>2, ConcatProperties
      <4> QED
        BY <3>2, <4>1
    <3> QED
      BY <3>1, <3>3
  <2> QED
    BY <1>2, <2>1, <2>2
<1>9. Crc(u) \in Nat
  BY <1>8, CrcIs
<1>10. /\ f \in Seq(Nat) /\ Len(f) = 4 + l + n + 2
       /\ \A i \in 1 .. 4 + l + n + 1 : f[i] = u[i]
       /\ f[4 + l + n + 2] = Crc(u)
  <2>1. /\ f \in Seq(Nat) /\ Len(f) = Len(u) + 1
        /\ \A i \in 1 .. Len(u) : f[i] = u[i]
        /\ f[Len(u) + 1] = Crc(u)
    BY <1>5, <1>8, <1>9, AppendProperties
  <2> QED
    BY <1>2, <1>8, <2>1
<1>11. Frame(kind, hashKind, b, hash) = f
  BY <1>1, <1>5 DEF Frame, Sealed
<1>12. f[1] = Magic /\ f[2] = Version /\ f[3] = kind /\ f[4] = hashKind
  <2>1. \A i \in 1 .. 4 : f[i] = head[i]
    BY <1>2, <1>6, <1>7, <1>8, <1>10, SMTT(30)
  <2> QED
    BY <1>1, <2>1
<1>13. \A m \in 1 .. l : f[4 + m] = x[m]
  <2> SUFFICES ASSUME NEW m \in 1 .. l PROVE f[4 + m] = x[m]
    OBVIOUS
  <2>1. 4 + m \in 1 .. 4 + l /\ ~(4 + m <= 4) /\ (4 + m) - 4 = m
        /\ 4 + m \in 1 .. 4 + l + n /\ 4 + m <= 4 + l /\ 4 + m \in 1 .. 4 + l + n + 1
    BY <1>2
  <2> QED
    BY <1>6, <1>7, <1>8, <1>10, <2>1
<1>14. \A m \in 1 .. n : f[(4 + l) + m] = b[m]
  <2> SUFFICES ASSUME NEW m \in 1 .. n PROVE f[(4 + l) + m] = b[m]
    OBVIOUS
  <2>1. /\ (4 + l) + m \in 1 .. 4 + l + n /\ ~((4 + l) + m <= 4 + l)
        /\ ((4 + l) + m) - (4 + l) = m /\ (4 + l) + m \in 1 .. 4 + l + n + 1
    BY <1>2
  <2> QED
    BY <1>7, <1>8, <1>10, <2>1
<1>15. Holds(f, 4, x) /\ Holds(f, 4 + l, b)
  BY <1>1, <1>2, <1>10, <1>13, <1>14 DEF Holds
<1>16. ReadVarint(f, 4) = Read(n, 4 + l)
  <2>1. n < Words /\ Holds(f, 4, PutVarint(n))
    BY <1>1, <1>15
  <2>2. ReadVarint(f, 4) = Read(n, 4 + Len(PutVarint(n)))
    BY <1>2, <1>10, <2>1, VarintRoundTrip
  <2> QED
    BY <1>1, <2>2
<1>17. InnerBytes(f)
  <2> SUFFICES ASSUME NEW i \in 5 .. Len(f) - 2 PROVE f[i] \in Byte
    BY DEF InnerBytes
  <2>1. CASE i <= 4 + l
    <3>1. i - 4 \in 1 .. l /\ 4 + (i - 4) = i
      BY <1>2, <2>1
    <3> QED
      BY <1>2, <1>13, <3>1
  <2>2. CASE ~(i <= 4 + l)
    <3>1. i - (4 + l) \in 1 .. n /\ (4 + l) + (i - (4 + l)) = i
      BY <1>2, <1>10, <2>2
    <3>2. b[i - (4 + l)] \in Byte
      BY <1>1, <3>1, ElementOfSeq
    <3> QED
      BY <1>14, <3>1, <3>2
  <2> QED
    BY <2>1, <2>2
<1>18. Front(f) = u /\ Last(f) = Crc(u)
  <2>1. Front(f) = SubSeq(f, 1, 4 + l + n + 1)
    BY <1>2, <1>10, SMTT(30) DEF Front
  <2>2. PICK k : k = 4 + l + n + 1
    OBVIOUS
  <2>3. k \in Nat /\ k <= Len(f) /\ Len(u) = k /\ \A i \in 1 .. k : f[i] = u[i]
    BY <1>2, <1>8, <1>10, <2>2
  <2>4. SubSeq(f, 1, k) = u
    <3>1. Holds(f, 0, u)
      BY <2>3 DEF Holds
    <3>2. SubSeq(f, 0 + 1, 0 + Len(u)) = u
      BY <1>8, <1>10, <3>1, HeldIs
    <3> QED
      BY <2>3, <3>2
  <2> QED
    BY <1>10, <2>1, <2>2, <2>4 DEF Last
<1>19. f[Len(f) - 1] = hash
  <2>1. Len(f) - 1 = 4 + l + n + 1 /\ 4 + l + n + 1 \in 1 .. 4 + l + n + 1
    BY <1>2, <1>10
  <2> QED
    BY <1>8, <1>10, <2>1
<1> HIDE DEF InnerBytes
<1>20. Crc(Front(f)) = Last(f)
  BY <1>18
<1>21. Framed(kind, hashKind, b, hash, l, f)
  BY <1>1, <1>2, <1>10, <1>12, <1>15, <1>16, <1>17, <1>19, <1>20 DEF Framed
<1> QED
  BY <1>1, <1>11, <1>21

\* The hash of a value is a number.
LEMMA HashIs == ASSUME NEW kind \in HashKinds, NEW bytes \in Seq(Byte)
                PROVE  HashOf(kind, bytes) \in Nat
<1> DEFINE c == 2 * VarintBase + 1
           Table(f) ==
             f = [s \in SUBSET DOMAIN bytes |->
                    IF s = {} THEN 0 ELSE c * f[s \ {Max(s)}] + bytes[Max(s)] + 1]
           f == CHOOSE f : Table(f)
<1>1. HashOf(kind, bytes) = kind + 2 * f[DOMAIN bytes]
  BY DEF HashOf, FoldLeft, MapThenFoldSet
<1>2. PICK n, d : n = Len(bytes) /\ d = c
  OBVIOUS
<1>3. /\ n \in Nat /\ DOMAIN bytes = 1 .. n /\ \A i \in 1 .. n : bytes[i] \in Nat
      /\ d \in Nat /\ kind \in Nat
  <2>1. n \in Nat /\ DOMAIN bytes = 1 .. n
    BY <1>2, LenProperties
  <2>2. \A i \in 1 .. n : bytes[i] \in Byte
    BY <1>2, ElementOfSeq
  <2>3. d \in Nat
    BY <1>2, SmallBytes
  <2>4. kind \in Nat
    BY DEF HashKinds
  <2> QED
    BY <2>1, <2>2, <2>3, <2>4, SmallBytes
<1> HIDE DEF c
<1> DEFINE step == [i \in 1 .. n |-> [v \in Nat |-> d * v + bytes[i] + 1]]
<1>4. step \in [1 .. n -> [Nat -> Nat]]
  <2> SUFFICES ASSUME NEW i \in 1 .. n, NEW v \in Nat PROVE d * v + bytes[i] + 1 \in Nat
    OBVIOUS
  <2>1. PICK w : w = d * v
    OBVIOUS
  <2>2. w \in Nat
    BY <1>3, <2>1
  <2>3. w + bytes[i] + 1 \in Nat
    BY <1>3, <2>2
  <2> QED
    BY <2>1, <2>3
<1>5. PICK g \in [SUBSET (1 .. n) -> Nat] : FoldTable(0, step, 1 .. n, g)
  <2> HIDE DEF step
  <2> QED
    BY <1>3, <1>4, FoldTableExists
<1>6. Table(g)
  <2>1. ASSUME NEW s \in SUBSET (1 .. n), s # {}
        PROVE  step[Max(s)][g[s \ {Max(s)}]] = c * g[s \ {Max(s)}] + bytes[Max(s)] + 1
    <3>1. PICK m : m = Max(s)
      OBVIOUS
    <3>2. m \in 1 .. n
      BY <1>3, <2>1, <3>1, MaxOf
    <3>3. PICK v : v = g[s \ {m}]
      OBVIOUS
    <3>4. v \in Nat
      BY <1>5, <3>3
    <3>5. step[m][v] = d * v + bytes[m] + 1
      BY <3>2, <3>4
    <3> HIDE DEF step
    <3> QED
      BY <1>2, <3>1, <3>3, <3>5
  <2> HIDE DEF step
  <2> QED
    BY <1>3, <1>5, <2>1 DEF FoldTable
<1>7. Table(f)
  <2> HIDE DEF Table
  <2> QED
    BY <1>6
<1> HIDE DEF f
<1>8. f[{}] = 0
  BY <1>3, <1>7
<1>9. ASSUME NEW m \in 1 .. n, f[1 .. m - 1] \in Nat
      PROVE  f[1 .. m] = step[m][f[1 .. m - 1]]
  <2>1. /\ 1 .. m # {} /\ 1 .. m \in SUBSET (1 .. n)
        /\ (1 .. m) \ {m} = 1 .. m - 1 /\ Max(1 .. m) = m
    <3>1. m \in Nat \ {0} /\ m <= n
      BY <1>3
    <3>2. Max(1 .. m) = m
      BY <3>1, MaxOfStretch
    <3>3. 1 .. m # {} /\ 1 .. m \in SUBSET (1 .. n)
      <4>1. \A i \in 1 .. m : i \in 1 .. n
        BY <1>3, <3>1
      <4>2. 1 \in 1 .. m
        BY <3>1
      <4> QED
        BY ONLY <4>1, <4>2
    <3>4. (1 .. m) \ {m} = 1 .. m - 1
      BY ONLY <3>1
    <3> QED
      BY <3>2, <3>3, <3>4
  <2>2. f[1 .. m] = c * f[1 .. m - 1] + bytes[m] + 1
    BY <1>3, <1>7, <2>1
  <2> QED
    BY <1>2, <1>9, <2>2
<1>10. f[1 .. n] \in Nat
  <2>1. ASSUME NEW m \in 1 .. n, f[1 .. m - 1] \in Nat PROVE f[1 .. m] \in Nat
    <3> HIDE DEF step
    <3>1. f[1 .. m] = step[m][f[1 .. m - 1]]
      BY <1>9, <2>1
    <3>2. PICK v : v = f[1 .. m - 1]
      OBVIOUS
    <3>3. step[m] \in [Nat -> Nat] /\ v \in Nat
      BY <1>4, <2>1, <3>2
    <3>4. step[m][v] \in Nat
      BY ONLY <3>3
    <3> QED
      BY ONLY <3>1, <3>2, <3>4
  <2>2. \A m \in 0 .. n : f[1 .. m] \in Nat
    <3>1. f[{}] \in Nat
      BY <1>8
    <3>2. n \in Nat
      BY <1>3
    <3> QED
      BY ONLY <2>1, <3>1, <3>2, FoldTyped
  <2> QED
    BY <1>3, <2>2
<1> QED
  BY <1>1, <1>3, <1>10

\* Rows that are read as they were written are frames around bytes.
LEMMA IntactRows ==
    ASSUME NEW row \in Intact
    PROVE  \E kind \in {KindRaw, KindPlan}, hashKind \in HashKinds, b \in Seq(Byte), hash \in Nat :
             Len(b) + 1 < Words /\ row = Frame(kind, hashKind, b, hash)
<1>1. CASE \E p \in Plans : row = EncodePlan(p)
  <2>1. PICK p \in Plans : row = EncodePlan(p)
    BY <1>1
  <2>2. WritesPlan(p) /\ Len(EncodePayload(p)) + 1 < Words
    BY <2>1, InputAssumption
  <2>3. EncodePayload(p) \in Seq(Byte)
    BY <2>2, PayloadWritten
  <2>4. p.hashKind \in HashKinds /\ p.hash \in Nat
    BY <2>2 DEF WritesPlan, Plan
  <2>5. row = Frame(KindPlan, p.hashKind, EncodePayload(p), p.hash)
    BY <2>1 DEF EncodePlan
  <2> HIDE DEF EncodePayload, Frame
  <2> QED
    BY <2>2, <2>3, <2>4, <2>5
<1>2. CASE \E kind \in HashKinds, b \in RawValues : row = EncodeRaw(kind, b)
  <2>1. PICK kind \in HashKinds, b \in RawValues : row = EncodeRaw(kind, b)
    BY <1>2
  <2>2. b \in Seq(Byte) /\ Len(b) < Words /\ Len(b) \in Nat
    BY InputAssumption, LenProperties
  <2>3. PICK x : x = PutVarint(Len(b)) \o b
    OBVIOUS
  <2>4. x \in Seq(Byte) /\ Len(x) + 1 < Words
    BY <2>2, <2>3, InputAssumption, WrittenVarint, ConcatProperties
  <2>5. HashOf(kind, b) \in Nat
    BY <2>2, HashIs
  <2>6. row = Frame(KindRaw, kind, x, HashOf(kind, b))
    BY <2>1, <2>3 DEF EncodeRaw
  <2> QED
    BY <2>4, <2>5, <2>6
<1> QED
  BY <1>1, <1>2 DEF Intact

\* Cutting a sequence, changing one place of it or running on keeps its
\* elements to a set, and adds one to its length at most.
LEMMA DamageKeeps ==
    ASSUME NEW S, NEW s \in Seq(S), Byte \subseteq S,
           NEW d \in Cut(s) \union Altered(s) \union {Append(s, 0)}
    PROVE  d \in Seq(S) /\ Len(d) <= Len(s) + 1
<1>1. Len(s) \in Nat /\ DOMAIN s = 1 .. Len(s) /\ \A i \in 1 .. Len(s) : s[i] \in S
  BY LenProperties, ElementOfSeq
<1>2. CASE d \in Cut(s)
  <2>1. PICK n \in 0 .. Len(s) - 1 : d = SubSeq(s, 1, n)
    BY <1>2 DEF Cut
  <2>2. d \in Seq(S) /\ Len(d) = n
    BY <1>1, <2>1
  <2> QED
    BY <1>1, <2>2
<1>3. CASE d \in Altered(s)
  <2>1. PICK n \in DOMAIN s, b \in Byte : d = [s EXCEPT ![n] = b]
    BY <1>3 DEF Altered
  <2>2. b \in S
    BY <2>1
  <2>3. d \in Seq(S) /\ Len(d) = Len(s)
    <3>1. PICK m : m = Len(s)
      OBVIOUS
    <3>2. d \in [1 .. m -> S] /\ m \in Nat
      BY <1>1, <2>1, <2>2, <3>1
    <3> QED
      BY <3>1, <3>2, IsASeq, LenProperties
  <2> QED
    BY <1>1, <2>3
<1>4. CASE d = Append(s, 0)
  <2>1. 0 \in S
    BY SmallBytes
  <2>2. d \in Seq(S) /\ Len(d) = Len(s) + 1
    BY <1>1, <1>4, <2>1
  <2> QED
    BY <1>1, <2>2
<1> QED
  BY <1>2, <1>3, <1>4

\* A row that is cut or has a wrong byte still has bytes inside.
LEMMA InsideKept ==
    ASSUME NEW s \in Seq(Nat), InnerBytes(s), NEW d \in Cut(s) \union Altered(s)
    PROVE  InnerBytes(d)
<1>1. Len(s) \in Nat /\ DOMAIN s = 1 .. Len(s) /\ \A i \in 1 .. Len(s) : s[i] \in Nat
  BY LenProperties, ElementOfSeq
<1>2. \A i \in 5 .. Len(s) - 2 : s[i] \in Byte
  BY DEF InnerBytes
<1>3. CASE d \in Cut(s)
  <2>1. PICK n \in 0 .. Len(s) - 1 : d = SubSeq(s, 1, n)
    BY <1>3 DEF Cut
  <2>2. Len(d) = n /\ \A i \in 1 .. n : d[i] = s[i]
    BY <1>1, <2>1
  <2>3. \A i \in 5 .. n - 2 : i \in 5 .. Len(s) - 2 /\ i \in 1 .. n
    BY <1>1
  <2> QED
    BY <1>2, <2>2, <2>3 DEF InnerBytes
<1>4. CASE d \in Altered(s)
  <2>1. PICK n \in DOMAIN s, b \in Byte : d = [s EXCEPT ![n] = b]
    BY <1>4 DEF Altered
  <2>2. b \in Nat
    BY SmallBytes
  <2>3. Len(d) = Len(s) /\ \A i \in 1 .. Len(s) : d[i] = IF i = n THEN b ELSE s[i]
    BY <1>1, <2>1, <2>2
  <2>4. \A i \in 5 .. Len(s) - 2 : i \in 1 .. Len(s)
    BY <1>1
  <2> QED
    BY <1>2, <2>1, <2>3, <2>4 DEF InnerBytes
<1> QED
  BY <1>3, <1>4

\* A row that runs on is not as long as it says it is.
LEMMA RunsOn ==
    ASSUME NEW kind \in Nat, NEW hashKind \in Nat, NEW b \in Seq(Byte), Len(b) < Words,
           NEW hash \in Nat
    PROVE  ~LengthFits(Append(Frame(kind, hashKind, b, hash), 0))
<1>1. PICK f, x, l, n : /\ f = Frame(kind, hashKind, b, hash) /\ x = PutVarint(Len(b))
                        /\ l = Len(x) /\ n = Len(b)
  OBVIOUS
<1>2. /\ f \in Seq(Nat) /\ l \in Nat /\ Len(f) = 4 + l + n + 2 /\ n \in Nat
      /\ Holds(f, 4, x)
  <2>1. n \in Nat
    BY <1>1, LenProperties
  <2>2. Framed(kind, hashKind, b, hash, l, f)
    BY <1>1, FrameParts
  <2> QED
    BY <1>1, <2>1, <2>2 DEF Framed
<1>3. PICK g, m : g = Append(f, 0) /\ m = Len(f)
  OBVIOUS
<1>4. g \in Seq(Nat) /\ Len(g) = m + 1 /\ \A i \in 1 .. m : g[i] = f[i]
  <2>1. 0 \in Nat
    OBVIOUS
  <2>2. g \in Seq(Nat)
    BY <1>2, <1>3, <2>1, AppendProperties
  <2>3. Len(g) = m + 1
    BY <1>2, <1>3, <2>1, AppendProperties
  <2>4. \A i \in 1 .. m : g[i] = f[i]
    BY <1>2, <1>3, <2>1, AppendProperties
  <2> QED
    BY <2>2, <2>3, <2>4
<1>5. Holds(g, 4, x)
  <2>1. 4 + l <= Len(f) /\ \A i \in 1 .. l : f[4 + i] = x[i]
    BY <1>1, <1>2 DEF Holds
  <2>2. \A i \in 1 .. l : 4 + i \in 1 .. Len(f)
    BY <1>2, <2>1
  <2> QED
    <3>1. 4 + l <= Len(g)
      BY <1>2, <1>3, <1>4
    <3>2. \A i \in 1 .. l : g[4 + i] = x[i]
      BY <1>3, <1>4, <2>1, <2>2
    <3> QED
      BY <1>1, <3>1, <3>2 DEF Holds
<1>6. ReadVarint(g, 4) = Read(n, 4 + l)
  <2>1. n < Words /\ Holds(g, 4, PutVarint(n))
    BY <1>1, <1>5
  <2>2. ReadVarint(g, 4) = Read(n, 4 + Len(PutVarint(n)))
    BY <1>2, <1>4, <2>1, VarintRoundTrip
  <2> QED
    BY <1>1, <2>2
<1>7. ~((4 + l) + n + 2 = Len(g))
  BY <1>2, <1>3, <1>4
<1>8. ~LengthFits(g)
  BY <1>6, <1>7 DEF LengthFits, Read
<1> QED
  BY <1>1, <1>3, <1>8

\* Every row that is read is a sequence of numbers, and if it is as long as it
\* says it is, its payload is bytes.
LEMMA InputRows ==
    ASSUME NEW row \in Intact \union Damaged \union Forged
    PROVE  row \in Seq(Nat) /\ (LengthFits(row) => InnerBytes(row))
<1>0. \A k \in {KindRaw, KindPlan} \union HashKinds : k \in Nat
  BY DEF KindRaw, KindPlan, HashKinds
<1>1. ASSUME NEW s \in Intact PROVE s \in Seq(Nat) /\ InnerBytes(s) /\ ~LengthFits(Append(s, 0))
  <2>1. PICK kind \in {KindRaw, KindPlan}, hashKind \in HashKinds, b \in Seq(Byte),
             hash \in Nat :
          Len(b) + 1 < Words /\ s = Frame(kind, hashKind, b, hash)
    BY IntactRows
  <2>2. kind \in Nat /\ hashKind \in Nat /\ Len(b) < Words
    BY <1>0, <2>1, LenProperties, SmallBytes
  <2> QED
    BY <2>1, <2>2, FrameParts, RunsOn DEF Framed
<1>2. ASSUME row \in Damaged PROVE row \in Seq(Nat) /\ (LengthFits(row) => InnerBytes(row))
  <2>1. PICK s \in Fragile : row \in Cut(s) \union Altered(s) \union {Append(s, 0)}
    BY <1>2 DEF Damaged
  <2>2. s \in Seq(Nat) /\ InnerBytes(s) /\ ~LengthFits(Append(s, 0))
    BY <1>1, InputAssumption
  <2>3. row \in Seq(Nat)
    BY <2>1, <2>2, DamageKeeps, SmallBytes
  <2> QED
    BY <2>1, <2>2, <2>3, InsideKept
<1>3. ASSUME row \in Forged PROVE row \in Seq(Nat) /\ (LengthFits(row) => InnerBytes(row))
  <2>1. PICK s \in Fragile :
          row \in LET len == ReadVarint(s, 4)
                      bytes == SubSeq(s, len.at + 1, len.at + len.val)
                  IN  {Frame(s[3], s[4], b, s[Len(s) - 1]) :
                         b \in Cut(bytes) \union Altered(bytes) \union {Append(bytes, 0)}}
    BY <1>3 DEF Forged
  <2>2. PICK kind \in {KindRaw, KindPlan}, hashKind \in HashKinds, b \in Seq(Byte),
             hash \in Nat :
          Len(b) + 1 < Words /\ s = Frame(kind, hashKind, b, hash)
    BY IntactRows, InputAssumption
  <2>3. kind \in Nat /\ hashKind \in Nat /\ Len(b) < Words /\ Len(b) \in Nat
    BY <1>0, <2>2, LenProperties, SmallBytes
  <2>4. PICK l : l = Len(PutVarint(Len(b)))
    OBVIOUS
  <2>5. /\ s \in Seq(Nat) /\ l \in Nat /\ s[3] = kind /\ s[4] = hashKind
        /\ s[Len(s) - 1] = hash /\ Holds(s, 4 + l, b)
        /\ ReadVarint(s, 4) = Read(Len(b), 4 + l)
    <3>1. PICK f : f = Frame(kind, hashKind, b, hash)
      OBVIOUS
    <3>2. Framed(kind, hashKind, b, hash, l, f)
      BY <2>3, <2>4, <3>1, FrameParts
    <3> QED
      BY <2>2, <3>1, <3>2 DEF Framed
  <2>6. SubSeq(s, (4 + l) + 1, (4 + l) + Len(b)) = b
    BY <2>3, <2>5, HeldIs
  <2>7. PICK d \in Cut(b) \union Altered(b) \union {Append(b, 0)} :
          row = Frame(kind, hashKind, d, hash)
    <3>1. PICK r, bytes : /\ r = ReadVarint(s, 4)
                          /\ bytes = SubSeq(s, r.at + 1, r.at + r.val)
      OBVIOUS
    <3>2. r.at = 4 + l /\ r.val = Len(b)
      BY <2>5, <3>1 DEF Read
    <3>3. bytes = b
      BY <2>6, <3>1, <3>2
    <3>4. row \in {Frame(s[3], s[4], d, s[Len(s) - 1]) :
                     d \in Cut(bytes) \union Altered(bytes) \union {Append(bytes, 0)}}
      BY <2>1, <3>1
    <3> QED
      BY <2>5, <3>3, <3>4
  <2>8. d \in Seq(Byte) /\ Len(d) < Words
    <3>1. d \in Seq(Byte) /\ Len(d) <= Len(b) + 1
      BY <2>7, DamageKeeps
    <3> QED
      BY <2>2, <2>3, <3>1, LenProperties, SmallBytes
  <2> QED
    BY <2>3, <2>7, <2>8, FrameParts DEF Framed
<1> QED
  BY <1>1, <1>2, <1>3

-----------------------------------------------------------------------------
(* What is read: a field takes up at least as much room as it is written in *)

\* A number, whether or not it can be read.
LEMMA VarintTyped ==
    ASSUME NEW s \in Seq(Byte), NEW from \in Nat
    PROVE  LET r == ReadVarint(s, from) IN
           /\ r.val \in Nat /\ r.at \in Nat
           /\ r.ok => /\ r.val < Words /\ r.at <= Len(s)
                      /\ from + Len(PutVarint(r.val)) <= r.at
<1>1. CASE ReadVarint(s, from).ok
  BY <1>1, SmallBytes, VarintAnswers
<1>2. CASE ~ReadVarint(s, from).ok
  <2>1. Ends(s, from) = {}
    <3> SUFFICES ASSUME NEW n \in Ends(s, from) PROVE FALSE
      OBVIOUS
    <3>1. ReadVarint(s, from) = Read(SumOf(Weights(s, from, n), 1 .. n), from + n)
      BY SmallBytes, VarintReadAs
    <3> QED
      BY <1>2, <3>1 DEF Read
  <2>2. ReadVarint(s, from) = Unread
    BY <2>1, SmallBytes, VarintReadAs
  <2> QED
    BY <1>2, <2>2 DEF Unread
<1> QED
  BY <1>1, <1>2

\* A byte.
LEMMA ByteTyped ==
    ASSUME NEW s \in Seq(Byte), NEW from \in Nat
    PROVE  LET r == ReadByte(s, from) IN
           /\ r.val \in Byte /\ r.at \in Nat
           /\ r.ok => r.at = from + 1 /\ r.at <= Len(s) /\ r.val = s[from + 1]
<1>1. Len(s) \in Nat
  BY LenProperties
<1>2. CASE from < Len(s)
  <2>1. from + 1 \in 1 .. Len(s)
    BY <1>1, <1>2
  <2>2. s[from + 1] \in Byte
    BY <2>1, ElementOfSeq
  <2> QED
    BY <1>1, <1>2, <2>2 DEF ReadByte, Read
<1>3. CASE ~(from < Len(s))
  BY <1>3, SmallBytes DEF ReadByte, Unread
<1> QED
  BY <1>2, <1>3

\* Some bytes.
LEMMA ExactTyped ==
    ASSUME NEW s \in Seq(Byte), NEW from \in Nat, NEW n \in Nat
    PROVE  LET r == ReadExact(s, from, n) IN
           /\ r.at \in Nat
           /\ r.ok => /\ r.val \in Seq(Byte) /\ Len(r.val) = n
                      /\ r.at = from + n /\ r.at <= Len(s)
<1>1. Len(s) \in Nat
  BY LenProperties
<1>2. CASE from + n <= Len(s)
  <2>1. PICK x : x = SubSeq(s, from + 1, from + n)
    OBVIOUS
  <2>2. x \in Seq(Byte) /\ Len(x) = n
    BY <1>1, <1>2, <2>1, SubSeqProperties
  <2>3. ReadExact(s, from, n) = Read(x, from + n)
    BY <1>2, <2>1 DEF ReadExact
  <2> QED
    BY <1>2, <2>2, <2>3 DEF Read
<1>3. CASE ~(from + n <= Len(s))
  BY <1>3 DEF ReadExact, Unread
<1> QED
  BY <1>2, <1>3

\* A transform.
LEMMA TransformTyped ==
    ASSUME payload \in Seq(Byte), NEW from \in Nat
    PROVE  LET r == ReadTransform(from) IN
           /\ r.at \in Nat
           /\ r.ok => /\ r.val \in Transform
                      /\ from + Len(r.val) <= r.at /\ r.at <= Len(payload)
<1>1. PICK tag, mask, r : /\ tag = ReadByte(payload, from) /\ mask = ReadByte(payload, tag.at)
                          /\ r = ReadTransform(from)
  OBVIOUS
<1>2. tag.val \in Byte /\ tag.at \in Nat /\ (tag.ok => tag.at = from + 1 /\ tag.at <= Len(payload))
  BY <1>1, ByteTyped
<1>3. /\ mask.val \in Byte /\ mask.at \in Nat
      /\ mask.ok => mask.at = tag.at + 1 /\ mask.at <= Len(payload)
  BY <1>1, <1>2, ByteTyped
<1>4. r = IF ~tag.ok THEN Unread
          ELSE IF tag.val \in {0, 2} THEN Read(<<tag.val>>, tag.at)
          ELSE IF tag.val = 1 /\ mask.ok THEN Read(<<1, mask.val>>, mask.at)
          ELSE Unread
  BY <1>1 DEF ReadTransform
<1>5. CASE r = Unread
  BY <1>1, <1>5 DEF Unread
<1>6. CASE tag.ok /\ tag.val \in {0, 2} /\ r = Read(<<tag.val>>, tag.at)
  <2>1. <<tag.val>> \in Transform /\ Len(<<tag.val>>) = 1
    BY <1>6 DEF Transform
  <2> QED
    BY <1>1, <1>2, <1>6, <2>1 DEF Read
<1>7. CASE tag.ok /\ mask.ok /\ r = Read(<<1, mask.val>>, mask.at)
  <2>1. <<1, mask.val>> \in Transform /\ Len(<<1, mask.val>>) = 2
    BY <1>3 DEF Transform
  <2> QED
    BY <1>1, <1>2, <1>3, <1>7, <2>1 DEF Read
<1> QED
  BY <1>4, <1>5, <1>6, <1>7

\* What decode asks of a chunk of a plan that has n streams.
SoundChunk(c, n) ==
    /\ c \in Located \union Literal
    /\ ChunkLen(c) \in Nat \ {0} /\ ChunkLen(c) <= MaxChunkLen
    /\ IsLocated(c) => c.stream < n /\ c.offset <= MaxOffset /\ c.offset + c.len < Words

\* Such a chunk can be written.
LEMMA SoundWrites ==
    ASSUME NEW c, NEW n \in Nat, n <= Words, SoundChunk(c, n)
    PROVE  WritesChunk(c)
<1>1. Words \in Nat /\ MaxChunkLen < Words /\ MaxChunkLen \in Nat /\ MaxOffset < Words
      /\ MaxOffset \in Nat
  BY FormatAssumption, CodecAssumption
<1>2. CASE IsLocated(c)
  <2>1. c \in Located
    BY <1>2 DEF SoundChunk, IsLocated, Literal
  <2> QED
    BY <1>1, <1>2, <2>1 DEF SoundChunk, ChunkLen, WritesChunk, Located
<1>3. CASE ~IsLocated(c)
  BY <1>1, <1>3 DEF SoundChunk, ChunkLen, WritesChunk
<1> QED
  BY <1>2, <1>3

\* A located chunk, behind its tag.
LEMMA LocatedTyped ==
    ASSUME payload \in Seq(Byte), NEW from \in Nat, plan.streams \in Seq(PlanStream),
           ReadLocated(from).ok
    PROVE  LET r == ReadLocated(from) IN
           /\ r.at \in Nat /\ r.at <= Len(payload)
           /\ SoundChunk(r.val, Len(plan.streams)) /\ IsLocated(r.val)
           /\ from + Len(PutVarint(r.val.stream)) + Len(PutVarint(r.val.offset))
                + Len(PutVarint(r.val.len)) + Len(r.val.transform) <= r.at
<1>1. PICK stream, offset, len, transform, r :
        /\ stream = ReadVarint(payload, from)
        /\ offset = ReadVarint(payload, stream.at)
        /\ len = ReadVarint(payload, offset.at)
        /\ transform = ReadTransform(len.at)
        /\ r = ReadLocated(from)
  OBVIOUS
<1>2. /\ stream.ok /\ stream.val < Len(plan.streams)
      /\ offset.ok /\ offset.val <= MaxOffset
      /\ len.ok /\ LenOk(len.val) /\ offset.val + len.val < Words
      /\ transform.ok
      /\ r = Read([stream |-> stream.val, offset |-> offset.val, len |-> len.val,
                   transform |-> transform.val], transform.at)
  BY <1>1 DEF ReadLocated, Unread
<1>3. stream.val \in Nat /\ stream.at \in Nat /\ from + Len(PutVarint(stream.val)) <= stream.at
      /\ stream.val < Words
  BY <1>1, <1>2, VarintTyped
<1>4. /\ offset.val \in Nat /\ offset.at \in Nat /\ offset.val < Words
      /\ stream.at + Len(PutVarint(offset.val)) <= offset.at
  BY <1>1, <1>2, <1>3, VarintTyped
<1>5. len.val \in Nat /\ len.at \in Nat /\ offset.at + Len(PutVarint(len.val)) <= len.at
      /\ len.val < Words
  BY <1>1, <1>2, <1>4, VarintTyped
<1>6. transform.val \in Transform /\ transform.at \in Nat /\ transform.at <= Len(payload)
      /\ len.at + Len(transform.val) <= transform.at
  BY <1>1, <1>2, <1>5, TransformTyped
<1>7. PICK c : c = [stream |-> stream.val, offset |-> offset.val, len |-> len.val,
                    transform |-> transform.val]
  OBVIOUS
<1>8. /\ c \in Located /\ IsLocated(c) /\ c.stream = stream.val /\ c.offset = offset.val
      /\ c.len = len.val /\ c.transform = transform.val
  BY <1>3, <1>4, <1>5, <1>6, <1>7 DEF Located, IsLocated
<1>9. SoundChunk(c, Len(plan.streams))
  BY <1>2, <1>5, <1>8 DEF SoundChunk, ChunkLen, LenOk
<1>10. /\ Len(PutVarint(stream.val)) \in Nat /\ Len(PutVarint(offset.val)) \in Nat
       /\ Len(PutVarint(len.val)) \in Nat /\ Len(transform.val) \in Nat
  BY <1>3, <1>4, <1>5, <1>6, WrittenVarint, TransformWritten, LenProperties
<1>11. from + Len(PutVarint(c.stream)) + Len(PutVarint(c.offset))
         + Len(PutVarint(c.len)) + Len(c.transform) <= transform.at
  <2>1. PICK u, v, w, t : /\ u = Len(PutVarint(stream.val)) /\ v = Len(PutVarint(offset.val))
                          /\ w = Len(PutVarint(len.val)) /\ t = Len(transform.val)
    OBVIOUS
  <2>2. /\ u \in Nat /\ v \in Nat /\ w \in Nat /\ t \in Nat
        /\ from + u <= stream.at /\ stream.at + v <= offset.at
        /\ offset.at + w <= len.at /\ len.at + t <= transform.at
    BY <1>3, <1>4, <1>5, <1>6, <1>10, <2>1
  <2>3. from + u + v + w + t <= transform.at
    <3>1. PICK a, b, d, e : /\ a = stream.at /\ b = offset.at /\ d = len.at
                            /\ e = transform.at
      OBVIOUS
    <3>2. a \in Nat /\ b \in Nat /\ d \in Nat /\ e \in Nat
      BY <1>3, <1>4, <1>5, <1>6, <3>1
    <3>3. from + u <= a /\ a + v <= b /\ b + w <= d /\ d + t <= e
      BY <2>2, <3>1
    <3>4. from + u + v + w + t <= e
      BY ONLY <2>2, <3>2, <3>3, from \in Nat
    <3> QED
      BY <3>1, <3>4
  <2> QED
    BY <1>8, <2>1, <2>3
<1>12. r.val = c /\ r.at = transform.at
  BY <1>2, <1>7 DEF Read
<1> QED
  BY <1>1, <1>6, <1>8, <1>9, <1>11, <1>12

\* A literal one.
LEMMA LiteralTyped ==
    ASSUME payload \in Seq(Byte), NEW from \in Nat, ReadLiteral(from).ok, NEW n \in Nat
    PROVE  LET r == ReadLiteral(from) IN
           /\ r.at \in Nat /\ r.at <= Len(payload)
           /\ SoundChunk(r.val, n) /\ ~IsLocated(r.val)
           /\ from + Len(PutVarint(Len(r.val.literal))) + Len(r.val.literal) <= r.at
<1>1. PICK len, bytes, r : /\ len = ReadVarint(payload, from)
                           /\ bytes = ReadExact(payload, len.at, len.val)
                           /\ r = ReadLiteral(from)
  OBVIOUS
<1>2. /\ len.ok /\ LenOk(len.val) /\ bytes.ok
      /\ r = Read([literal |-> bytes.val], bytes.at)
  BY <1>1 DEF ReadLiteral, Unread
<1>3. len.val \in Nat /\ len.at \in Nat /\ from + Len(PutVarint(len.val)) <= len.at
      /\ len.val < Words
  BY <1>1, <1>2, VarintTyped
<1>4. /\ bytes.val \in Seq(Byte) /\ Len(bytes.val) = len.val
      /\ bytes.at = len.at + len.val /\ bytes.at <= Len(payload)
  BY <1>1, <1>2, <1>3, ExactTyped
<1>5. PICK c : c = [literal |-> bytes.val]
  OBVIOUS
<1>6. c \in Literal /\ ~IsLocated(c) /\ c.literal = bytes.val
  BY <1>4, <1>5 DEF Literal, IsLocated
<1>7. SoundChunk(c, n)
  BY <1>2, <1>3, <1>4, <1>6 DEF SoundChunk, ChunkLen, LenOk
<1>8. Len(PutVarint(len.val)) \in Nat
  BY <1>3, WrittenVarint, LenProperties
<1>9. from + Len(PutVarint(Len(c.literal))) + Len(c.literal) <= bytes.at
  <2>1. PICK u : u = Len(PutVarint(len.val))
    OBVIOUS
  <2>2. from + u + len.val <= bytes.at
    BY <1>3, <1>4, <1>8, <2>1
  <2> QED
    BY <1>4, <1>6, <2>1, <2>2
<1>10. r.val = c /\ r.at = bytes.at /\ bytes.at \in Nat
  BY <1>2, <1>3, <1>4, <1>5 DEF Read
<1> QED
  BY <1>1, <1>4, <1>6, <1>7, <1>9, <1>10

-----------------------------------------------------------------------------
(* The invariant *)

\* The state is of its type; the streams that have been decoded can be written
\* again, the chunks are sound.
Typed ==
    /\ stage \in Stages
    /\ input \in Intact \union Damaged \union Forged
    /\ payload \in Seq(Byte) /\ at \in 0 .. Len(payload)
    /\ left \in 0 .. MaxChunkCount \union 0 .. MaxStreams
    /\ plan \in Plan /\ plan.len <= MaxLogicalLen
    /\ \A n \in DOMAIN plan.streams : WritesStream(plan.streams[n])
    /\ \A n \in DOMAIN plan.chunks : SoundChunk(plan.chunks[n], Len(plan.streams))
    /\ out \in Seq(Byte)

\* What is still to come and what has been decoded is no more than is allowed.
Counted ==
    /\ Len(plan.streams) <= MaxStreams /\ Len(plan.chunks) <= MaxChunkCount
    /\ stage \in {"frame", "raw", "header"} => plan.streams = <<>> /\ left = 0
    /\ stage \in {"frame", "raw", "header", "streams"} => plan.chunks = <<>>
    /\ stage \in {"frame", "header"} => out = <<>> /\ at = 0
    /\ stage = "streams" => Len(plan.streams) + left <= MaxStreams
    /\ stage = "chunks" => Len(plan.chunks) + left <= MaxChunkCount
    /\ stage = "reconstruct" => left <= Len(plan.chunks)

\* The room that the plan takes when it is written, as far as it has been
\* decoded and n more of its parts are announced.
StreamRoom(p, n) == Len(Opening(p, Len(p.streams) + n)) + Len(FlattenSeq(StreamPieces(p)))
ChunkRoom(p, n) == StreamRoom(p, 0) + Len(PutVarint(Len(p.chunks) + n))
                     + Len(FlattenSeq(ChunkPieces(p)))

\* It is no more than has been read.
Roomy ==
    /\ stage \in {"header", "streams", "chunks"} => Len(payload) <= MaxEncodedPlanLen
    /\ stage = "streams" => StreamRoom(plan, left) <= at
    /\ stage = "chunks" => ChunkRoom(plan, left) <= at
    /\ stage = "reconstruct" => Len(EncodePayload(plan)) <= MaxEncodedPlanLen /\ Covered

FormatInv == Typed /\ Counted /\ Roomy

\* The limits are numbers that fit a word.
LEMMA Limits ==
    /\ MaxLogicalLen \in Nat /\ MaxChunkCount \in Nat /\ MaxEncodedPlanLen \in Nat
    /\ MaxOffset \in Nat /\ MaxChunkLen \in Nat /\ MaxStreams \in Nat /\ Words \in Nat
    /\ MaxLogicalLen < Words /\ MaxChunkCount < Words /\ MaxEncodedPlanLen < Words
    /\ MaxStreams < Words
  BY FormatAssumption, CodecAssumption

\* A plan in the making and the parts of it.
LEMMA PlanParts ==
    ASSUME NEW p \in Plan
    PROVE  /\ p.len \in Nat /\ p.hashKind \in HashKinds /\ p.hash \in Nat /\ p.codec \in Codecs
           /\ p.streams \in Seq(PlanStream) /\ p.chunks \in Seq(Located \union Literal)
           /\ Len(p.streams) \in Nat /\ Len(p.chunks) \in Nat
           /\ DOMAIN p.streams = 1 .. Len(p.streams) /\ DOMAIN p.chunks = 1 .. Len(p.chunks)
  BY LenProperties DEF Plan

\* A row is refused with everything as it was.
LEMMA RefuseKeeps == ASSUME FormatInv, Refuse PROVE FormatInv'
  BY DEF FormatInv, Typed, Counted, Roomy, Refuse, Stages, Covered

\* It starts.
LEMMA StartsRight == FormatInit => FormatInv
<1> SUFFICES ASSUME FormatInit PROVE FormatInv
  OBVIOUS
<1>1. <<>> \in Seq(Byte) /\ <<>> \in Seq(PlanStream) /\ <<>> \in Seq(Located \union Literal)
      /\ Len(<<>>) = 0 /\ DOMAIN <<>> = {}
  BY EmptySeq
<1>2. plan \in Plan /\ plan.streams = <<>> /\ plan.chunks = <<>> /\ plan.len = 0
  BY <1>1 DEF FormatInit, NoPlan, Plan, HashKinds, Codecs
<1>3. Typed
  BY <1>1, <1>2, Limits DEF FormatInit, Typed, Stages
<1>4. Counted
  BY <1>1, <1>2, Limits DEF FormatInit, Counted
<1>5. Roomy
  BY DEF FormatInit, Roomy
<1> QED
  BY <1>3, <1>4, <1>5 DEF FormatInv

\* The frame is taken off: what is inside is bytes.
LEMMA FrameKeeps == ASSUME FormatInv, ReadFrame PROVE FormatInv'
<1>0. CASE Refuse
  BY <1>0, RefuseKeeps
<1> SUFFICES ASSUME ~Refuse PROVE FormatInv'
  BY <1>0
<1>1. PICK len : len = ReadVarint(input, 4)
  OBVIOUS
<1>2. /\ stage = "frame" /\ FrameOk
      /\ payload' = SubSeq(input, len.at + 1, len.at + len.val)
      /\ plan' = [plan EXCEPT !.hashKind = input[4], !.hash = input[Len(input) - 1]]
      /\ stage' = IF input[3] = KindRaw THEN "raw" ELSE "header"
      /\ UNCHANGED <<input, at, left, out>>
  BY <1>1 DEF ReadFrame
<1>3. /\ Len(input) >= 4 /\ input[4] \in HashKinds /\ len.ok
      /\ input[3] = KindPlan => len.val <= MaxEncodedPlanLen
      /\ len.at + len.val + 2 = Len(input)
      /\ input[3] \in {KindRaw, KindPlan}
  BY <1>1, <1>2 DEF FrameOk
<1>4. input \in Seq(Nat) /\ InnerBytes(input) /\ Len(input) \in Nat
  <2>1. LengthFits(input)
    BY <1>1, <1>3 DEF LengthFits
  <2>2. input \in Intact \union Damaged \union Forged
    BY DEF FormatInv, Typed
  <2> QED
    BY <2>1, <2>2, InputRows, LenProperties
<1>5. len.val \in Nat /\ len.at \in Nat /\ len.at >= 4
  <2>1. /\ len.val \in Nat /\ len.val < Words /\ len.at \in Nat
        /\ 4 + Len(PutVarint(len.val)) <= len.at
    BY <1>1, <1>3, <1>4, VarintAnswers
  <2>2. Len(PutVarint(len.val)) \in Nat
    BY <2>1, WrittenVarint, LenProperties
  <2> QED
    BY <2>1, <2>2
<1>6. payload' \in Seq(Byte) /\ Len(payload') = len.val
  <2>1. PICK n, a : n = len.val /\ a = len.at
    OBVIOUS
  <2>0. n \in Nat /\ a \in Nat /\ a >= 4 /\ a + n + 2 = Len(input)
    BY <1>3, <1>5, <2>1
  <2>2. SubSeq(input, a + 1, a + n) = [i \in 1 .. n |-> input[a + i]]
    BY <1>4, <2>0
  <2>3. \A i \in 1 .. n : input[a + i] \in Byte
    <3> SUFFICES ASSUME NEW i \in 1 .. n PROVE input[a + i] \in Byte
      OBVIOUS
    <3>1. a + i \in 5 .. Len(input) - 2
      BY <1>4, <2>0
    <3> QED
      BY <1>4, <3>1 DEF InnerBytes
  <2>4. payload' \in [1 .. n -> Byte]
    BY <1>2, <2>1, <2>2, <2>3
  <2> QED
    BY <1>5, <2>1, <2>4, IsASeq, LenProperties
<1>7. input[Len(input) - 1] \in Nat
  <2>1. Len(input) - 1 \in 1 .. Len(input)
    BY <1>3, <1>4
  <2> QED
    BY <1>4, <2>1, ElementOfSeq
<1>8. /\ plan' \in Plan /\ plan'.streams = plan.streams /\ plan'.chunks = plan.chunks
      /\ plan'.len = plan.len
  <2>1. plan \in Plan
    BY DEF FormatInv, Typed
  <2> QED
    BY <1>2, <1>3, <1>7, <2>1 DEF Plan
<1>9. at = 0 /\ stage' \in {"raw", "header"} /\ (stage' = "header" => input[3] = KindPlan)
  BY <1>2, <1>3 DEF FormatInv, Counted
<1>10. Typed'
  <2>1. stage' \in Stages /\ at' \in 0 .. Len(payload')
    BY <1>2, <1>5, <1>6, <1>9 DEF Stages
  <2> QED
    BY <1>2, <1>6, <1>8, <2>1 DEF FormatInv, Typed
<1>11. Counted'
  BY <1>2, <1>8, <1>9 DEF FormatInv, Counted
<1>12. Roomy'
  BY <1>3, <1>6, <1>9 DEF Roomy
<1> QED
  BY <1>10, <1>11, <1>12 DEF FormatInv

\* A raw value is taken out of its payload.
LEMMA RawKeeps == ASSUME FormatInv, ReadRaw PROVE FormatInv'
<1>0. CASE Refuse
  BY <1>0, RefuseKeeps
<1> SUFFICES ASSUME ~Refuse PROVE FormatInv'
  BY <1>0
<1>1. PICK len, bytes : /\ len = ReadVarint(payload, 0)
                        /\ bytes = ReadExact(payload, len.at, len.val)
  OBVIOUS
<1>2. /\ stage = "raw" /\ bytes.ok /\ bytes.at = Len(payload)
      /\ out' = bytes.val /\ at' = bytes.at /\ stage' = "done"
      /\ UNCHANGED <<input, payload, left, plan>>
  BY <1>1 DEF ReadRaw
<1>3. payload \in Seq(Byte) /\ Len(payload) \in Nat
  BY LenProperties DEF FormatInv, Typed
<1>4. bytes.val \in Seq(Byte)
  <2>1. len.val \in Nat /\ len.at \in Nat
    BY <1>1, <1>3, VarintTyped
  <2> QED
    BY <1>1, <1>2, <1>3, <2>1, ExactTyped
<1>5. Typed'
  <2>1. stage' \in Stages /\ at' \in 0 .. Len(payload')
    BY <1>2, <1>3 DEF Stages
  <2> QED
    BY <1>2, <1>4, <2>1 DEF FormatInv, Typed
<1>6. Counted'
  BY <1>2 DEF FormatInv, Counted
<1>7. Roomy'
  BY <1>2 DEF Roomy
<1> QED
  BY <1>5, <1>6, <1>7 DEF FormatInv

\* The opening of a plan: it takes no more room than has been read.
LEMMA HeaderKeeps == ASSUME FormatInv, ReadHeader PROVE FormatInv'
<1>0. CASE Refuse
  BY <1>0, RefuseKeeps
<1> SUFFICES ASSUME ~Refuse PROVE FormatInv'
  BY <1>0
<1>1. PICK len, codec, count : /\ len = ReadVarint(payload, 0)
                               /\ codec = ReadByte(payload, len.at)
                               /\ count = ReadVarint(payload, codec.at)
  OBVIOUS
<1>2. /\ stage = "header" /\ len.ok /\ len.val <= MaxLogicalLen
      /\ codec.ok /\ codec.val \in Codecs /\ count.ok /\ count.val <= MaxStreams
      /\ plan' = [plan EXCEPT !.len = len.val, !.codec = codec.val]
      /\ at' = count.at /\ left' = count.val /\ stage' = "streams"
      /\ UNCHANGED <<input, payload, out>>
  BY <1>1 DEF ReadHeader
<1>3. payload \in Seq(Byte) /\ Len(payload) \in Nat
  BY LenProperties DEF FormatInv, Typed
<1>4. /\ len.val \in Nat /\ len.at \in Nat /\ len.val < Words
      /\ 0 + Len(PutVarint(len.val)) <= len.at
  BY <1>1, <1>2, <1>3, VarintTyped
<1>5. codec.at = len.at + 1 /\ codec.at \in Nat
  BY <1>1, <1>2, <1>3, <1>4, ByteTyped
<1>6. /\ count.val \in Nat /\ count.at \in Nat /\ count.val < Words /\ count.at <= Len(payload)
      /\ codec.at + Len(PutVarint(count.val)) <= count.at
  BY <1>1, <1>2, <1>3, <1>5, VarintTyped
<1>7. plan \in Plan /\ plan.streams = <<>> /\ plan.chunks = <<>>
  BY <1>2 DEF FormatInv, Typed, Counted
<1>8. /\ plan' \in Plan /\ plan'.streams = <<>> /\ plan'.chunks = <<>>
      /\ plan'.len = len.val /\ plan'.codec = codec.val
  BY <1>2, <1>4, <1>7 DEF Plan
<1>9. Len(<<>>) = 0 /\ DOMAIN <<>> = {}
  BY EmptySeq
<1>10. StreamRoom(plan', left') <= at'
  <2>1. /\ Opening(plan', count.val) \in Seq(Byte)
        /\ Len(Opening(plan', count.val))
             = Len(PutVarint(len.val)) + 1 + Len(PutVarint(count.val))
    <3>1. PICK p, a, n : p = plan' /\ a = len.val /\ n = count.val
      OBVIOUS
    <3>2. /\ p.len = a /\ a \in Nat /\ a < Words /\ p.codec \in Codecs
          /\ n \in Nat /\ n < Words
      BY <1>2, <1>4, <1>6, <1>8, <3>1
    <3>3. /\ Opening(p, n) \in Seq(Byte)
          /\ Len(Opening(p, n)) = Len(PutVarint(a)) + 1 + Len(PutVarint(n))
      BY ONLY <3>2, OpeningWritten
    <3> QED
      BY ONLY <3>1, <3>3
  <2>2. Len(FlattenSeq(StreamPieces(plan'))) = 0
    <3>1. StreamPieces(plan') = <<>>
      BY <1>8, <1>9 DEF StreamPieces
    <3>2. PICK t \in [0 .. 0 -> Seq(Byte)] : Joined(<<>>, t) /\ FlattenSeq(<<>>) = t[0]
      <4>1. <<>> \in Seq(Seq(Byte))
        BY EmptySeq
      <4> QED
        BY <1>9, <4>1, FlattenIs
    <3> QED
      BY <1>9, <3>1, <3>2 DEF Joined
  <2>3. Len(plan'.streams) + left' = count.val
    BY <1>2, <1>6, <1>8, <1>9
  <2>4. Len(PutVarint(len.val)) \in Nat /\ Len(PutVarint(count.val)) \in Nat
    BY <1>4, <1>6, WrittenVarint, LenProperties
  <2>5. PICK u, v, o : /\ u = Len(PutVarint(len.val)) /\ v = Len(PutVarint(count.val))
                       /\ o = Len(Opening(plan', count.val))
    OBVIOUS
  <2>6. o + 0 <= count.at
    BY <1>4, <1>5, <1>6, <2>1, <2>4, <2>5
  <2> QED
    BY <1>2, <2>2, <2>3, <2>5, <2>6 DEF StreamRoom
<1>11. Typed'
  <2>1. stage' \in Stages /\ at' \in 0 .. Len(payload') /\ left' \in 0 .. MaxStreams
    BY <1>2, <1>3, <1>6, Limits DEF Stages
  <2> QED
    BY <1>2, <1>8, <1>9, <2>1 DEF FormatInv, Typed
<1>12. Counted'
  BY <1>2, <1>6, <1>8, <1>9, Limits DEF Counted
<1>13. Roomy'
  BY <1>2, <1>10 DEF FormatInv, Roomy
<1> QED
  BY <1>11, <1>12, <1>13 DEF FormatInv

\* One more stream.
LEMMA StreamsGrow ==
    ASSUME NEW p \in Plan, \A n \in DOMAIN p.streams : WritesStream(p.streams[n]),
           NEW s \in PlanStream, WritesStream(s),
           NEW q, q = [p EXCEPT !.streams = Append(@, s)]
    PROVE  /\ q \in Plan /\ q.streams = Append(p.streams, s)
           /\ q.chunks = p.chunks /\ q.len = p.len /\ q.codec = p.codec
           /\ q.hash = p.hash /\ q.hashKind = p.hashKind
           /\ Len(q.streams) = Len(p.streams) + 1
           /\ \A n \in DOMAIN q.streams : WritesStream(q.streams[n])
           /\ FlattenSeq(StreamPieces(p)) \in Seq(Byte)
           /\ FlattenSeq(StreamPieces(q)) = FlattenSeq(StreamPieces(p)) \o PutStream(s)
<1>1. p.streams \in Seq(PlanStream)
  BY PlanParts
<1>2. PICK k : k = Len(p.streams)
  OBVIOUS
<1>3. k \in Nat /\ DOMAIN p.streams = 1 .. k
  BY <1>1, <1>2, LenProperties
<1>4. /\ Append(p.streams, s) \in Seq(PlanStream) /\ Len(Append(p.streams, s)) = k + 1
      /\ \A i \in 1 .. k : Append(p.streams, s)[i] = p.streams[i]
      /\ Append(p.streams, s)[k + 1] = s
  BY <1>1, <1>2, AppendProperties
<1>5. /\ q \in Plan /\ q.streams = Append(p.streams, s)
      /\ q.chunks = p.chunks /\ q.len = p.len /\ q.codec = p.codec
      /\ q.hash = p.hash /\ q.hashKind = p.hashKind
  BY <1>4 DEF Plan
<1>6. DOMAIN q.streams = 1 .. k + 1
  BY <1>4, <1>5, LenProperties
<1>7. \A n \in 1 .. k + 1 : n \in 1 .. k \/ n = k + 1
  BY <1>3
<1>8. \A n \in DOMAIN q.streams : WritesStream(q.streams[n])
  BY <1>3, <1>4, <1>5, <1>6, <1>7
<1>9. StreamPieces(p) \in Seq(Seq(Byte)) /\ Len(StreamPieces(p)) = k
  BY <1>1, <1>2, StreamsWritten
<1>10. PutStream(s) \in Seq(Byte)
  BY StreamWritten
<1>11. StreamPieces(q) = Append(StreamPieces(p), PutStream(s))
  <2>1. PICK x, y : x = StreamPieces(p) /\ y = PutStream(s)
    OBVIOUS
  <2>2. /\ Append(x, y) \in Seq(Seq(Byte)) /\ Len(Append(x, y)) = k + 1
        /\ \A i \in 1 .. k : Append(x, y)[i] = x[i]
        /\ Append(x, y)[k + 1] = y
    BY <1>9, <1>10, <2>1, AppendProperties
  <2>3. \A i \in 1 .. k : x[i] = PutStream(p.streams[i])
    BY <1>3, <2>1 DEF StreamPieces
  <2>4. Append(x, y) = [i \in 1 .. k + 1 |-> Append(x, y)[i]]
    BY <2>2, LenProperties
  <2>5. StreamPieces(q) = [i \in 1 .. k + 1 |-> PutStream(q.streams[i])]
    BY <1>6 DEF StreamPieces
  <2>6. \A i \in 1 .. k + 1 : Append(x, y)[i] = PutStream(q.streams[i])
    BY <1>4, <1>5, <1>7, <2>1, <2>2, <2>3
  <2> QED
    BY <2>1, <2>4, <2>5, <2>6
<1>12. /\ FlattenSeq(StreamPieces(p)) \in Seq(Byte)
       /\ FlattenSeq(StreamPieces(q)) = FlattenSeq(StreamPieces(p)) \o PutStream(s)
  BY <1>9, <1>10, <1>11, FlattenAppend
<1> QED
  BY <1>2, <1>4, <1>5, <1>8, <1>12

\* A stream that is read takes no more room than has been read.
LEMMA StreamKeeps == ASSUME FormatInv, ReadStream PROVE FormatInv'
<1>0. CASE Refuse
  BY <1>0, RefuseKeeps
<1> SUFFICES ASSUME ~Refuse PROVE FormatInv'
  BY <1>0
<1>1. PICK tag, id, print, s :
        /\ tag = ReadByte(payload, at)
        /\ id = IF tag.val = 1 THEN ReadByte(payload, tag.at) ELSE ReadVarint(payload, tag.at)
        /\ print = ReadByte(payload, id.at)
        /\ s = [id |-> <<tag.val, id.val>>, fingerprint |-> print.val]
  OBVIOUS
<1>2. /\ stage = "streams" /\ left > 0
      /\ tag.ok /\ tag.val \in 1 .. 4 /\ id.ok /\ print.ok
      /\ plan' = [plan EXCEPT !.streams = Append(@, s)]
      /\ at' = print.at /\ left' = left - 1
      /\ UNCHANGED <<input, payload, stage, out>>
  BY <1>1 DEF ReadStream
<1>3. payload \in Seq(Byte) /\ Len(payload) \in Nat /\ at \in Nat /\ left \in Nat
  BY Limits, LenProperties DEF FormatInv, Typed
<1>4. tag.val \in Byte /\ tag.at \in Nat /\ tag.at = at + 1
  BY <1>1, <1>2, <1>3, ByteTyped
<1>5. /\ id.val \in Nat /\ id.at \in Nat
      /\ IF tag.val = 1 THEN id.val \in Byte /\ id.at = tag.at + 1
         ELSE id.val < Words /\ tag.at + Len(PutVarint(id.val)) <= id.at
  <2>1. CASE tag.val = 1
    <3>1. id = ReadByte(payload, tag.at)
      BY <1>1, <2>1
    <3> QED
      BY <1>2, <1>3, <1>4, <2>1, <3>1, ByteTyped, SmallBytes
  <2>2. CASE tag.val # 1
    <3>1. id = ReadVarint(payload, tag.at)
      BY <1>1, <2>2
    <3> QED
      BY <1>2, <1>3, <1>4, <2>2, <3>1, VarintTyped
  <2> QED
    BY <2>1, <2>2
<1>6. print.val \in Byte /\ print.at = id.at + 1 /\ print.at <= Len(payload)
  BY <1>1, <1>2, <1>3, <1>5, ByteTyped
<1>7. /\ s \in PlanStream /\ s.id[1] = tag.val /\ s.id[2] = id.val
      /\ s.fingerprint = print.val
  BY <1>1, <1>4, <1>5, <1>6, SmallBytes DEF PlanStream
<1>8. WritesStream(s)
  BY <1>2, <1>4, <1>5, <1>6, <1>7 DEF WritesStream
<1>9. Len(PutStream(s)) \in Nat /\ at + Len(PutStream(s)) <= print.at
  <2>1. CASE tag.val = 1
    <3>1. Len(PutStream(s)) = 3
      BY <1>7, <1>8, <2>1, StreamWritten
    <3> QED
      BY <1>3, <1>4, <1>5, <1>6, <2>1, <3>1
  <2>2. CASE tag.val # 1
    <3>1. PICK v : v = Len(PutVarint(id.val))
      OBVIOUS
    <3>2. v \in Nat /\ tag.at + v <= id.at
      BY <1>5, <2>2, <3>1, WrittenVarint, LenProperties
    <3>3. Len(PutStream(s)) = v + 2
      BY <1>7, <1>8, <2>2, <3>1, StreamWritten
    <3> QED
      BY <1>3, <1>4, <1>5, <1>6, <3>2, <3>3
  <2> QED
    BY <2>1, <2>2
<1>10. /\ plan \in Plan /\ plan.chunks = <<>> /\ plan.len <= MaxLogicalLen
       /\ \A n \in DOMAIN plan.streams : WritesStream(plan.streams[n])
       /\ Len(plan.streams) + left <= MaxStreams /\ Len(plan.streams) \in Nat
       /\ StreamRoom(plan, left) <= at
  BY <1>2, PlanParts DEF FormatInv, Typed, Counted, Roomy
<1>11. PICK q : q = [plan EXCEPT !.streams = Append(@, s)]
  OBVIOUS
<1>12. /\ q \in Plan /\ q.chunks = <<>> /\ q.len = plan.len /\ q.codec = plan.codec
       /\ Len(q.streams) = Len(plan.streams) + 1
       /\ \A n \in DOMAIN q.streams : WritesStream(q.streams[n])
       /\ FlattenSeq(StreamPieces(plan)) \in Seq(Byte)
       /\ FlattenSeq(StreamPieces(q)) = FlattenSeq(StreamPieces(plan)) \o PutStream(s)
  <2>1. PICK p : p = plan
    OBVIOUS
  <2>2. /\ p \in Plan /\ \A n \in DOMAIN p.streams : WritesStream(p.streams[n])
        /\ s \in PlanStream /\ WritesStream(s) /\ q = [p EXCEPT !.streams = Append(@, s)]
    BY <1>7, <1>8, <1>10, <1>11, <2>1
  <2>3. /\ q \in Plan /\ q.chunks = p.chunks /\ q.len = p.len /\ q.codec = p.codec
        /\ Len(q.streams) = Len(p.streams) + 1
        /\ \A n \in DOMAIN q.streams : WritesStream(q.streams[n])
        /\ FlattenSeq(StreamPieces(p)) \in Seq(Byte)
        /\ FlattenSeq(StreamPieces(q)) = FlattenSeq(StreamPieces(p)) \o PutStream(s)
    BY ONLY <2>2, StreamsGrow, ZenonT(30)
  <2> QED
    BY <1>10, <2>1, <2>3
<1>13. StreamRoom(q, left - 1) <= print.at
  <2>1. Len(q.streams) + (left - 1) = Len(plan.streams) + left
    BY <1>3, <1>10, <1>12
  <2>2. Opening(q, Len(q.streams) + (left - 1)) = Opening(plan, Len(plan.streams) + left)
    BY <1>12, <2>1 DEF Opening
  <2>3. PutStream(s) \in Seq(Byte)
    BY <1>7, <1>8, StreamWritten
  <2>4. /\ Len(FlattenSeq(StreamPieces(plan))) \in Nat
        /\ Len(FlattenSeq(StreamPieces(q)))
             = Len(FlattenSeq(StreamPieces(plan))) + Len(PutStream(s))
    BY <1>12, <2>3, ConcatProperties, LenProperties
  <2>5. Len(Opening(plan, Len(plan.streams) + left)) \in Nat
    <3>1. PICK m : m = Len(plan.streams) + left
      OBVIOUS
    <3>2. m \in Nat /\ m < Words /\ plan.len \in Nat /\ plan.len < Words /\ plan.codec \in Codecs
      BY <1>3, <1>10, <3>1, Limits, PlanParts
    <3> QED
      BY <3>1, <3>2, OpeningWritten, LenProperties
  <2>6. PICK o, f, g, u : /\ o = Len(Opening(plan, Len(plan.streams) + left))
                          /\ f = Len(FlattenSeq(StreamPieces(plan)))
                          /\ g = Len(FlattenSeq(StreamPieces(q)))
                          /\ u = Len(PutStream(s))
    OBVIOUS
  <2>7. o \in Nat /\ f \in Nat /\ g = f + u /\ u \in Nat /\ o + f <= at /\ at + u <= print.at
    BY <1>9, <1>10, <2>4, <2>5, <2>6 DEF StreamRoom
  <2>8. o + g <= print.at
    BY <1>3, <1>5, <1>6, <2>7
  <2> QED
    BY <2>2, <2>6, <2>8 DEF StreamRoom
<1>14. Typed'
  <2>1. /\ plan'.chunks = <<>> /\ DOMAIN <<>> = {}
        /\ plan' \in Plan /\ plan'.len <= MaxLogicalLen
        /\ \A n \in DOMAIN plan'.streams : WritesStream(plan'.streams[n])
    BY <1>2, <1>10, <1>11, <1>12
  <2>2. at' \in 0 .. Len(payload')
    BY <1>2, <1>3, <1>5, <1>6
  <2>3. left' \in 0 .. MaxStreams
    BY <1>2, <1>3, <1>10, Limits
  <2> QED
    BY <1>2, <2>1, <2>2, <2>3 DEF FormatInv, Typed
<1>15. Counted'
  <2>1. Len(q.streams) + (left - 1) <= MaxStreams /\ Len(q.streams) <= MaxStreams
    BY <1>2, <1>3, <1>10, <1>12, Limits, SMTT(30)
  <2>2. plan' = q
    BY <1>2, <1>11
  <2>3. Len(<<>>) = 0
    BY EmptySeq
  <2>4. /\ Len(plan'.streams) <= MaxStreams /\ Len(plan'.chunks) <= MaxChunkCount
        /\ plan'.chunks = <<>> /\ Len(plan'.streams) + left' <= MaxStreams
    <3>1. Len(q.chunks) <= MaxChunkCount
      BY <1>12, <2>3, Limits
    <3> QED
      BY <1>2, <1>12, <2>1, <2>2, <3>1
  <2> QED
    BY <1>2, <2>4 DEF Counted
<1>16. Roomy'
  BY <1>2, <1>11, <1>13 DEF FormatInv, Roomy
<1> QED
  BY <1>14, <1>15, <1>16 DEF FormatInv

\* The number of chunks.
LEMMA ChunkCountKeeps == ASSUME FormatInv, ReadChunkCount PROVE FormatInv'
<1>0. CASE Refuse
  BY <1>0, RefuseKeeps
<1> SUFFICES ASSUME ~Refuse PROVE FormatInv'
  BY <1>0
<1>1. PICK count : count = ReadVarint(payload, at)
  OBVIOUS
<1>2. /\ stage = "streams" /\ left = 0 /\ count.ok /\ count.val <= MaxChunkCount
      /\ at' = count.at /\ left' = count.val /\ stage' = "chunks"
      /\ UNCHANGED <<input, payload, plan, out>>
  BY <1>1 DEF ReadChunkCount, CountOk
<1>3. payload \in Seq(Byte) /\ Len(payload) \in Nat /\ at \in Nat
  BY LenProperties DEF FormatInv, Typed
<1>4. /\ count.val \in Nat /\ count.at \in Nat /\ count.at <= Len(payload)
      /\ count.val < Words /\ at + Len(PutVarint(count.val)) <= count.at
  BY <1>1, <1>2, <1>3, VarintTyped
<1>5. plan.chunks = <<>> /\ Len(<<>>) = 0 /\ DOMAIN <<>> = {} /\ StreamRoom(plan, 0) <= at
  BY <1>2, EmptySeq DEF FormatInv, Counted, Roomy
<1>6. ChunkRoom(plan, count.val) <= count.at
  <2>1. Len(FlattenSeq(ChunkPieces(plan))) = 0
    <3>1. ChunkPieces(plan) = <<>>
      BY <1>5 DEF ChunkPieces
    <3>2. PICK t \in [0 .. 0 -> Seq(Byte)] : Joined(<<>>, t) /\ FlattenSeq(<<>>) = t[0]
      <4>1. <<>> \in Seq(Seq(Byte))
        BY EmptySeq
      <4> QED
        BY <1>5, <4>1, FlattenIs
    <3> QED
      BY <1>5, <3>1, <3>2 DEF Joined
  <2>2. Len(PutVarint(count.val)) \in Nat
    BY <1>4, WrittenVarint, LenProperties
  <2>3. Len(plan.chunks) + count.val = count.val
    BY <1>4, <1>5
  <2>4. StreamRoom(plan, 0) \in Nat
    <3>1. /\ plan \in Plan /\ plan.len <= MaxLogicalLen /\ Len(plan.streams) <= MaxStreams
          /\ \A n \in DOMAIN plan.streams : WritesStream(plan.streams[n])
      BY DEF FormatInv, Typed, Counted
    <3>2. PICK m : m = Len(plan.streams) + 0
      OBVIOUS
    <3>3. m \in Nat /\ m < Words /\ plan.len \in Nat /\ plan.len < Words /\ plan.codec \in Codecs
      BY <3>1, <3>2, Limits, PlanParts
    <3>4. Len(Opening(plan, m)) \in Nat
      BY <3>3, OpeningWritten, LenProperties
    <3>5. Len(FlattenSeq(StreamPieces(plan))) \in Nat
      <4>1. StreamPieces(plan) \in Seq(Seq(Byte)) /\ <<>> \in Seq(Byte)
        BY <3>1, PlanParts, StreamsWritten, EmptySeq
      <4> QED
        BY <4>1, FlattenAppend, LenProperties
    <3> QED
      BY <3>2, <3>4, <3>5 DEF StreamRoom
  <2>5. PICK r, u, f : /\ r = StreamRoom(plan, 0) /\ u = Len(PutVarint(count.val))
                       /\ f = Len(FlattenSeq(ChunkPieces(plan)))
    OBVIOUS
  <2>6. r + u + f <= count.at
    BY <1>3, <1>4, <1>5, <2>1, <2>2, <2>4, <2>5
  <2> QED
    BY <2>3, <2>5, <2>6 DEF ChunkRoom
<1>7. Typed'
  <2>1. stage' \in Stages /\ at' \in 0 .. Len(payload') /\ left' \in 0 .. MaxChunkCount
    BY <1>2, <1>3, <1>4, Limits DEF Stages
  <2> QED
    BY <1>2, <2>1 DEF FormatInv, Typed
<1>8. Counted'
  BY <1>2, <1>4, <1>5 DEF FormatInv, Counted
<1>9. Roomy'
  BY <1>2, <1>6 DEF FormatInv, Roomy
<1> QED
  BY <1>7, <1>8, <1>9 DEF FormatInv

\* One more chunk.
LEMMA ChunksGrow ==
    ASSUME NEW p \in Plan, \A n \in DOMAIN p.chunks : WritesChunk(p.chunks[n]),
           NEW c \in Located \union Literal, WritesChunk(c),
           NEW q, q = [p EXCEPT !.chunks = Append(@, c)]
    PROVE  /\ q \in Plan /\ q.chunks = Append(p.chunks, c)
           /\ q.streams = p.streams /\ q.len = p.len /\ q.codec = p.codec
           /\ q.hash = p.hash /\ q.hashKind = p.hashKind
           /\ Len(q.chunks) = Len(p.chunks) + 1
           /\ \A n \in DOMAIN q.chunks : (n \in DOMAIN p.chunks /\ q.chunks[n] = p.chunks[n])
                                         \/ q.chunks[n] = c
           /\ FlattenSeq(ChunkPieces(p)) \in Seq(Byte)
           /\ FlattenSeq(ChunkPieces(q)) = FlattenSeq(ChunkPieces(p)) \o PutChunk(c)
<1>1. p.chunks \in Seq(Located \union Literal)
  BY PlanParts
<1>2. PICK k : k = Len(p.chunks)
  OBVIOUS
<1>3. k \in Nat /\ DOMAIN p.chunks = 1 .. k
  BY <1>1, <1>2, LenProperties
<1>4. /\ Append(p.chunks, c) \in Seq(Located \union Literal)
      /\ Len(Append(p.chunks, c)) = k + 1
      /\ \A i \in 1 .. k : Append(p.chunks, c)[i] = p.chunks[i]
      /\ Append(p.chunks, c)[k + 1] = c
  BY <1>1, <1>2, AppendProperties
<1>5. /\ q \in Plan /\ q.chunks = Append(p.chunks, c)
      /\ q.streams = p.streams /\ q.len = p.len /\ q.codec = p.codec
      /\ q.hash = p.hash /\ q.hashKind = p.hashKind
  BY <1>4 DEF Plan
<1>6. DOMAIN q.chunks = 1 .. k + 1
  BY <1>4, <1>5, LenProperties
<1>7. \A n \in 1 .. k + 1 : n \in 1 .. k \/ n = k + 1
  BY <1>3
<1>8. \A n \in DOMAIN q.chunks : (n \in DOMAIN p.chunks /\ q.chunks[n] = p.chunks[n])
                                 \/ q.chunks[n] = c
  BY <1>3, <1>4, <1>5, <1>6, <1>7
<1>9. ChunkPieces(p) \in Seq(Seq(Byte)) /\ Len(ChunkPieces(p)) = k
  BY <1>1, <1>2, ChunksWritten
<1>10. PutChunk(c) \in Seq(Byte)
  BY ChunkWritten
<1>11. ChunkPieces(q) = Append(ChunkPieces(p), PutChunk(c))
  <2>1. PICK x, y : x = ChunkPieces(p) /\ y = PutChunk(c)
    OBVIOUS
  <2>2. /\ Append(x, y) \in Seq(Seq(Byte)) /\ Len(Append(x, y)) = k + 1
        /\ \A i \in 1 .. k : Append(x, y)[i] = x[i]
        /\ Append(x, y)[k + 1] = y
    BY <1>9, <1>10, <2>1, AppendProperties
  <2>3. \A i \in 1 .. k : x[i] = PutChunk(p.chunks[i])
    BY <1>3, <2>1 DEF ChunkPieces
  <2>4. Append(x, y) = [i \in 1 .. k + 1 |-> Append(x, y)[i]]
    BY <2>2, LenProperties
  <2>5. ChunkPieces(q) = [i \in 1 .. k + 1 |-> PutChunk(q.chunks[i])]
    BY <1>6 DEF ChunkPieces
  <2>6. \A i \in 1 .. k + 1 : Append(x, y)[i] = PutChunk(q.chunks[i])
    BY <1>4, <1>5, <1>7, <2>1, <2>2, <2>3
  <2> QED
    BY <2>1, <2>4, <2>5, <2>6
<1>12. /\ FlattenSeq(ChunkPieces(p)) \in Seq(Byte)
       /\ FlattenSeq(ChunkPieces(q)) = FlattenSeq(ChunkPieces(p)) \o PutChunk(c)
  BY <1>9, <1>10, <1>11, FlattenAppend
<1> QED
  BY <1>2, <1>4, <1>5, <1>8, <1>12

\* What the invariant says of the chunks of a plan.
LEMMA ChunksAre ==
    ASSUME Typed, Counted
    PROVE  /\ plan \in Plan /\ plan.chunks \in Seq(Located \union Literal)
           /\ plan.streams \in Seq(PlanStream) /\ Len(plan.streams) \in Nat
           /\ Len(plan.streams) < Words /\ Len(plan.chunks) < Words
           /\ Len(plan.chunks) \in Nat /\ plan.len < Words /\ plan.len \in Nat
           /\ \A n \in DOMAIN plan.chunks : SoundChunk(plan.chunks[n], Len(plan.streams))
                                            /\ WritesChunk(plan.chunks[n])
<1>1. plan \in Plan /\ plan.len <= MaxLogicalLen /\ Len(plan.streams) <= MaxStreams
      /\ Len(plan.chunks) <= MaxChunkCount
      /\ \A n \in DOMAIN plan.chunks : SoundChunk(plan.chunks[n], Len(plan.streams))
  BY DEF Typed, Counted
<1>2. /\ plan.chunks \in Seq(Located \union Literal)
      /\ plan.streams \in Seq(PlanStream) /\ Len(plan.streams) \in Nat
      /\ Len(plan.chunks) \in Nat /\ plan.len \in Nat
  BY <1>1, PlanParts
<1>3. Len(plan.streams) < Words /\ Len(plan.chunks) < Words /\ plan.len < Words
  BY <1>1, <1>2, Limits
<1>4. \A n \in DOMAIN plan.chunks : WritesChunk(plan.chunks[n])
  <2> SUFFICES ASSUME NEW n \in DOMAIN plan.chunks PROVE WritesChunk(plan.chunks[n])
    OBVIOUS
  <2>1. SoundChunk(plan.chunks[n], Len(plan.streams)) /\ Len(plan.streams) <= Words
    BY <1>1, <1>2, <1>3, Limits
  <2> QED
    BY <1>2, <2>1, SoundWrites
<1> QED
  BY <1>1, <1>2, <1>3, <1>4

\* A chunk that is read is sound, and takes no more room than has been read.
LEMMA ChunkKeeps == ASSUME FormatInv, ReadChunk PROVE FormatInv'
<1>0. CASE Refuse
  BY <1>0, RefuseKeeps
<1> SUFFICES ASSUME ~Refuse PROVE FormatInv'
  BY <1>0
<1>1. PICK kind, chunk, c, q :
        /\ kind = ReadByte(payload, at)
        /\ chunk = IF kind.val = 0 THEN ReadLocated(kind.at) ELSE ReadLiteral(kind.at)
        /\ c = chunk.val /\ q = [plan EXCEPT !.chunks = Append(@, c)]
  OBVIOUS
<1>2. /\ stage = "chunks" /\ left > 0 /\ kind.ok /\ kind.val \in {0, 1} /\ chunk.ok
      /\ plan' = q /\ at' = chunk.at /\ left' = left - 1
      /\ UNCHANGED <<input, payload, stage, out>>
  BY <1>1 DEF ReadChunk
<1>3. payload \in Seq(Byte) /\ Len(payload) \in Nat /\ at \in Nat /\ left \in Nat
      /\ Typed /\ Counted
  BY Limits, LenProperties DEF FormatInv, Typed
<1>4. /\ plan \in Plan /\ plan.streams \in Seq(PlanStream) /\ Len(plan.streams) \in Nat
      /\ Len(plan.streams) < Words /\ Len(plan.chunks) \in Nat
      /\ \A n \in DOMAIN plan.chunks : SoundChunk(plan.chunks[n], Len(plan.streams))
                                       /\ WritesChunk(plan.chunks[n])
  BY <1>3, ChunksAre
<1>5. kind.at \in Nat /\ kind.at = at + 1
  BY <1>1, <1>2, <1>3, ByteTyped
<1>6. /\ chunk.at \in Nat /\ chunk.at <= Len(payload)
      /\ SoundChunk(c, Len(plan.streams)) /\ WritesChunk(c) /\ c \in Located \union Literal
      /\ PutChunk(c) \in Seq(Byte) /\ Len(PutChunk(c)) \in Nat
      /\ at + Len(PutChunk(c)) <= chunk.at
  <2>1. CASE kind.val = 0
    <3>1. chunk = ReadLocated(kind.at)
      BY <1>1, <2>1
    <3>2. /\ chunk.at \in Nat /\ chunk.at <= Len(payload)
          /\ SoundChunk(c, Len(plan.streams)) /\ IsLocated(c)
          /\ kind.at + Len(PutVarint(c.stream)) + Len(PutVarint(c.offset))
               + Len(PutVarint(c.len)) + Len(c.transform) <= chunk.at
      BY <1>1, <1>2, <1>3, <1>4, <1>5, <3>1, LocatedTyped
    <3>3. WritesChunk(c) /\ c \in Located \union Literal
      <4>1. Len(plan.streams) <= Words
        BY <1>4, Limits
      <4> QED
        BY <1>4, <3>2, <4>1, SoundWrites DEF SoundChunk
    <3>4. /\ PutChunk(c) \in Seq(Byte)
          /\ Len(PutChunk(c)) = 1 + Len(PutVarint(c.stream)) + Len(PutVarint(c.offset))
                                  + Len(PutVarint(c.len)) + Len(c.transform)
      BY <3>2, <3>3, ChunkWritten
    <3>5. PICK u, v, w, t : /\ u = Len(PutVarint(c.stream)) /\ v = Len(PutVarint(c.offset))
                            /\ w = Len(PutVarint(c.len)) /\ t = Len(c.transform)
      OBVIOUS
    <3>6. u \in Nat /\ v \in Nat /\ w \in Nat /\ t \in Nat
      <4>1. c \in Located
        BY <3>2, <3>3, ChunkWritten
      <4>2. /\ c.stream \in Nat /\ c.offset \in Nat /\ c.len \in Nat
            /\ c.stream < Words /\ c.offset < Words /\ c.len < Words
            /\ c.transform \in Transform
        BY <3>2, <3>3, <4>1 DEF Located, WritesChunk
      <4> QED
        BY <3>5, <4>2, WrittenVarint, TransformWritten, LenProperties
    <3>7. PICK m, a : m = Len(PutChunk(c)) /\ a = chunk.at
      OBVIOUS
    <3>8. m \in Nat /\ at + m <= a
      <4>1. m = 1 + u + v + w + t /\ (at + 1) + u + v + w + t <= a
        BY <1>5, <3>2, <3>4, <3>5, <3>7
      <4> QED
        BY <1>3, <3>2, <3>6, <3>7, <4>1
    <3> QED
      BY <3>2, <3>3, <3>4, <3>7, <3>8
  <2>2. CASE kind.val # 0
    <3>1. chunk = ReadLiteral(kind.at)
      BY <1>1, <2>2
    <3>2. /\ chunk.at \in Nat /\ chunk.at <= Len(payload)
          /\ SoundChunk(c, Len(plan.streams)) /\ ~IsLocated(c)
          /\ kind.at + Len(PutVarint(Len(c.literal))) + Len(c.literal) <= chunk.at
      BY <1>1, <1>2, <1>3, <1>4, <1>5, <3>1, LiteralTyped
    <3>3. WritesChunk(c) /\ c \in Located \union Literal
      <4>1. Len(plan.streams) <= Words
        BY <1>4, Limits
      <4> QED
        BY <1>4, <3>2, <4>1, SoundWrites DEF SoundChunk
    <3>4. /\ PutChunk(c) \in Seq(Byte)
          /\ Len(PutChunk(c)) = 1 + Len(PutVarint(Len(c.literal))) + Len(c.literal)
      BY <3>2, <3>3, ChunkWritten
    <3>5. PICK u, v, m, a : /\ u = Len(PutVarint(Len(c.literal))) /\ v = Len(c.literal)
                            /\ m = Len(PutChunk(c)) /\ a = chunk.at
      OBVIOUS
    <3>6. u \in Nat /\ v \in Nat /\ a \in Nat
      <4>1. c \in Literal
        BY <3>2, <3>3, ChunkWritten
      <4>2. Len(c.literal) \in Nat /\ Len(c.literal) < Words
        BY <3>2, <3>3, <4>1, LenProperties DEF Literal, WritesChunk
      <4> QED
        BY <3>2, <3>5, <4>2, WrittenVarint, LenProperties
    <3>7. m \in Nat /\ at + m <= a
      <4>1. m = 1 + u + v /\ (at + 1) + u + v <= a
        BY <1>5, <3>2, <3>4, <3>5
      <4> QED
        BY <1>3, <3>6, <4>1
    <3> QED
      BY <3>2, <3>3, <3>4, <3>5, <3>7
  <2> QED
    BY <2>1, <2>2
<1>7. /\ q \in Plan /\ q.streams = plan.streams /\ q.len = plan.len /\ q.codec = plan.codec
      /\ Len(q.chunks) = Len(plan.chunks) + 1
      /\ \A n \in DOMAIN q.chunks : (n \in DOMAIN plan.chunks /\ q.chunks[n] = plan.chunks[n])
                                    \/ q.chunks[n] = c
      /\ FlattenSeq(ChunkPieces(plan)) \in Seq(Byte)
      /\ FlattenSeq(ChunkPieces(q)) = FlattenSeq(ChunkPieces(plan)) \o PutChunk(c)
  <2>1. \A n \in DOMAIN plan.chunks : WritesChunk(plan.chunks[n])
    BY <1>4
  <2>2. q = [plan EXCEPT !.chunks = Append(@, c)]
    BY <1>1
  <2>3. plan \in Plan /\ c \in Located \union Literal /\ WritesChunk(c)
    BY <1>4, <1>6
  <2>4. PICK p : p = plan
    OBVIOUS
  <2>5. /\ p \in Plan /\ \A n \in DOMAIN p.chunks : WritesChunk(p.chunks[n])
        /\ c \in Located \union Literal /\ WritesChunk(c)
        /\ q = [p EXCEPT !.chunks = Append(@, c)]
    BY <2>1, <2>2, <2>3, <2>4
  <2>6. /\ q \in Plan /\ q.streams = p.streams /\ q.len = p.len /\ q.codec = p.codec
        /\ Len(q.chunks) = Len(p.chunks) + 1
        /\ \A n \in DOMAIN q.chunks : (n \in DOMAIN p.chunks /\ q.chunks[n] = p.chunks[n])
                                      \/ q.chunks[n] = c
        /\ FlattenSeq(ChunkPieces(p)) \in Seq(Byte)
        /\ FlattenSeq(ChunkPieces(q)) = FlattenSeq(ChunkPieces(p)) \o PutChunk(c)
    BY ONLY <2>5, ChunksGrow, SMTT(60)
  <2> QED
    BY <2>4, <2>6
<1>8. /\ ChunkRoom(plan, left) <= at /\ Len(plan.chunks) + left <= MaxChunkCount
      /\ Len(plan.streams) <= MaxStreams
      /\ plan.len <= MaxLogicalLen
      /\ \A n \in DOMAIN plan.streams : WritesStream(plan.streams[n])
  BY <1>2 DEF FormatInv, Typed, Counted, Roomy
<1>9. StreamRoom(plan, 0) \in Nat
  <2>1. PICK m : m = Len(plan.streams) + 0
    OBVIOUS
  <2>2. m \in Nat /\ m < Words /\ plan.len \in Nat /\ plan.len < Words /\ plan.codec \in Codecs
    BY <1>4, <1>8, <2>1, Limits, PlanParts
  <2>3. Len(Opening(plan, m)) \in Nat
    BY <2>2, OpeningWritten, LenProperties
  <2>4. Len(FlattenSeq(StreamPieces(plan))) \in Nat
    <3>1. StreamPieces(plan) \in Seq(Seq(Byte)) /\ <<>> \in Seq(Byte)
      BY <1>4, <1>8, StreamsWritten, EmptySeq
    <3> QED
      BY <3>1, FlattenAppend, LenProperties
  <2> QED
    BY <2>1, <2>3, <2>4 DEF StreamRoom
<1>10. ChunkRoom(q, left - 1) <= chunk.at
  <2>1. Len(q.chunks) + (left - 1) = Len(plan.chunks) + left
    BY <1>3, <1>4, <1>7
  <2>2. StreamRoom(q, 0) = StreamRoom(plan, 0)
    BY <1>7 DEF StreamRoom, Opening, StreamPieces
  <2>3. /\ Len(FlattenSeq(ChunkPieces(plan))) \in Nat
        /\ Len(FlattenSeq(ChunkPieces(q)))
             = Len(FlattenSeq(ChunkPieces(plan))) + Len(PutChunk(c))
    BY <1>6, <1>7, ConcatProperties, LenProperties
  <2>4. Len(PutVarint(Len(plan.chunks) + left)) \in Nat
    <3>1. PICK m : m = Len(plan.chunks) + left
      OBVIOUS
    <3>2. m \in Nat /\ m < Words
      BY <1>3, <1>4, <1>8, <3>1, Limits
    <3> QED
      BY <3>1, <3>2, WrittenVarint, LenProperties
  <2>5. PICK r, n, f, g, u, a :
          /\ r = StreamRoom(plan, 0) /\ n = Len(PutVarint(Len(plan.chunks) + left))
          /\ f = Len(FlattenSeq(ChunkPieces(plan))) /\ g = Len(FlattenSeq(ChunkPieces(q)))
          /\ u = Len(PutChunk(c)) /\ a = chunk.at
    OBVIOUS
  <2>6. /\ r \in Nat /\ n \in Nat /\ f \in Nat /\ u \in Nat /\ g = f + u
        /\ r + n + f <= at /\ at + u <= a /\ a \in Nat
    BY <1>6, <1>8, <1>9, <2>3, <2>4, <2>5 DEF ChunkRoom
  <2>7. r + n + g <= a
    BY <1>3, <2>6
  <2> QED
    BY <2>1, <2>2, <2>5, <2>7 DEF ChunkRoom
<1>11. Typed'
  <2>1. \A n \in DOMAIN q.chunks : SoundChunk(q.chunks[n], Len(q.streams))
    BY <1>4, <1>6, <1>7
  <2>2. at' \in 0 .. Len(payload')
    BY <1>2, <1>3, <1>6
  <2>3. left' \in 0 .. MaxChunkCount
    BY <1>2, <1>3, <1>4, <1>8, Limits
  <2>4. q.len <= MaxLogicalLen /\ \A n \in DOMAIN q.streams : WritesStream(q.streams[n])
    BY <1>7, <1>8
  <2> QED
    BY <1>2, <1>3, <1>7, <2>1, <2>2, <2>3, <2>4 DEF Typed
<1>12. Counted'
  <2>1. Len(q.chunks) + (left - 1) <= MaxChunkCount /\ Len(q.chunks) <= MaxChunkCount
    BY <1>2, <1>3, <1>4, <1>7, <1>8, Limits
  <2>2. /\ Len(plan'.streams) <= MaxStreams /\ Len(plan'.chunks) <= MaxChunkCount
        /\ Len(plan'.chunks) + left' <= MaxChunkCount
    BY <1>2, <1>7, <1>8, <2>1
  <2> QED
    BY <1>2, <2>2 DEF Counted
<1>13. Roomy'
  BY <1>2, <1>10 DEF FormatInv, Roomy
<1> QED
  BY <1>11, <1>12, <1>13 DEF FormatInv

\* A plan that is accepted can be written in as much room as has been read.
LEMMA EndKeeps == ASSUME FormatInv, ReadEnd PROVE FormatInv'
<1>0. CASE Refuse
  BY <1>0, RefuseKeeps
<1> SUFFICES ASSUME ~Refuse PROVE FormatInv'
  BY <1>0
<1>1. PICK len, footer, end :
        /\ len = ReadVarint(payload, at)
        /\ footer = ReadExact(payload, len.at, len.val)
        /\ end = IF plan.codec = CeremonialCbor THEN footer.at ELSE at
  OBVIOUS
<1>2. /\ stage = "chunks" /\ left = 0
      /\ plan.codec = CeremonialCbor => len.ok /\ footer.ok /\ footer.val = Footer(plan)
      /\ end = Len(payload) /\ Covered
      /\ at' = end /\ stage' = "reconstruct"
      /\ UNCHANGED <<input, payload, left, plan, out>>
  BY <1>1 DEF ReadEnd
<1>3. payload \in Seq(Byte) /\ Len(payload) \in Nat /\ at \in Nat /\ Typed /\ Counted
  BY LenProperties DEF FormatInv, Typed
<1>4. len.val \in Nat /\ len.at \in Nat
      /\ (len.ok => len.val < Words /\ at + Len(PutVarint(len.val)) <= len.at)
  BY <1>1, <1>3, VarintTyped
<1>5. plan.codec = CeremonialCbor =>
        /\ Len(Footer(plan)) = len.val /\ footer.at = len.at + len.val
        /\ footer.at <= Len(payload)
  BY <1>1, <1>2, <1>3, <1>4, ExactTyped
<1>6. WritesPlan(plan)
  <2>1. /\ plan \in Plan /\ plan.len < Words /\ Len(plan.streams) < Words
        /\ Len(plan.chunks) < Words
        /\ \A n \in DOMAIN plan.chunks : WritesChunk(plan.chunks[n])
    BY <1>3, ChunksAre
  <2>2. plan.codec = CeremonialCbor => Len(Footer(plan)) < Words
    BY <1>2, <1>4, <1>5
  <2> QED
    BY <1>3, <2>1, <2>2 DEF Typed, WritesPlan
<1>7. ChunkRoom(plan, 0) <= at
  BY <1>2 DEF FormatInv, Roomy
<1>8. PICK o, s, n, c, e :
        /\ o = Len(Opening(plan, Len(plan.streams))) /\ s = Len(FlattenSeq(StreamPieces(plan)))
        /\ n = Len(PutVarint(Len(plan.chunks))) /\ c = Len(FlattenSeq(ChunkPieces(plan)))
        /\ e = Len(Closing(plan))
  OBVIOUS
<1>9. /\ o \in Nat /\ s \in Nat /\ n \in Nat /\ c \in Nat /\ e \in Nat
      /\ Len(EncodePayload(plan)) = o + s + n + c + e
  BY <1>6, <1>8, PayloadWritten, LenProperties
<1>10. o + s + n + c <= at
  <2>1. Len(plan.streams) + 0 = Len(plan.streams) /\ Len(plan.chunks) + 0 = Len(plan.chunks)
    BY <1>3, ChunksAre
  <2> QED
    BY <1>7, <1>8, <2>1 DEF ChunkRoom, StreamRoom
<1>11. at + e <= Len(payload)
  <2>1. CASE plan.codec # CeremonialCbor
    <3>1. e = 0
      BY <1>8, <2>1, EmptySeq DEF Closing
    <3> QED
      BY <1>1, <1>2, <1>3, <2>1, <3>1
  <2>2. CASE plan.codec = CeremonialCbor
    <3>1. PICK u, v : u = Len(PutVarint(len.val)) /\ v = len.val
      OBVIOUS
    <3>2. u \in Nat /\ v \in Nat /\ at + u <= len.at
      BY <1>2, <1>4, <2>2, <3>1, WrittenVarint, LenProperties
    <3>3. e = u + v
      <4>1. PutVarint(len.val) \in Seq(Byte)
        BY <1>2, <1>4, <2>2, WrittenVarint
      <4>2. /\ Footer(plan) \in Seq(Byte)
        BY <1>6, FooterWritten DEF WritesPlan
      <4>3. Closing(plan) = PutVarint(len.val) \o Footer(plan)
        BY <1>5, <2>2 DEF Closing
      <4>4. Len(Closing(plan)) = Len(PutVarint(len.val)) + Len(Footer(plan))
        BY <4>1, <4>2, <4>3, ConcatProperties
      <4> QED
        BY <1>5, <1>8, <2>2, <3>1, <4>4
    <3> QED
      BY <1>3, <1>4, <1>5, <2>2, <3>1, <3>2, <3>3
  <2> QED
    BY <2>1, <2>2
<1>12. Len(EncodePayload(plan)) <= MaxEncodedPlanLen
  <2>1. Len(payload) <= MaxEncodedPlanLen
    BY <1>2 DEF FormatInv, Roomy
  <2> QED
    BY <1>3, <1>9, <1>10, <1>11, <2>1, Limits
<1>13. Typed'
  <2>1. stage' \in Stages /\ at' \in 0 .. Len(payload')
    BY <1>2, <1>3 DEF Stages
  <2> QED
    BY <1>2, <1>3, <2>1 DEF Typed
<1>14. Counted'
  BY <1>2, <1>3, ChunksAre DEF Counted
<1>15. Roomy'
  BY <1>2, <1>12 DEF Roomy, Covered
<1> QED
  BY <1>13, <1>14, <1>15 DEF FormatInv

\* Turned around, a sequence keeps its elements.
LEMMA Turned ==
    ASSUME NEW S, NEW s \in Seq(S)
    PROVE  Reverse(s) \in Seq(S) /\ Len(Reverse(s)) = Len(s)
<1>1. PICK n : n = Len(s)
  OBVIOUS
<1>2. n \in Nat /\ \A i \in 1 .. n : s[i] \in S
  BY <1>1, LenProperties, ElementOfSeq
<1>3. \A i \in 1 .. n : (n - i) + 1 \in 1 .. n
  BY <1>2
<1>4. Reverse(s) \in [1 .. n -> S]
  BY <1>1, <1>2, <1>3 DEF Reverse
<1> QED
  BY <1>1, <1>2, <1>4, IsASeq, LenProperties

\* Transformed, bytes are as many bytes.
LEMMA TransformsBytes ==
    ASSUME NEW s \in Seq(Byte), NEW t \in Transform
    PROVE  Transformed(s, t) \in Seq(Byte) /\ Len(Transformed(s, t)) = Len(s)
<1>1. PICK n : n = Len(s)
  OBVIOUS
<1>2. n \in Nat /\ DOMAIN s = 1 .. n /\ \A i \in 1 .. n : s[i] \in Byte
  BY <1>1, LenProperties, ElementOfSeq
<1>3. CASE t \in {<<0>>, <<2>>}
  <2>1. Transformed(s, <<0>>) = s /\ Transformed(s, <<2>>) = Reverse(s)
    BY DEF Transformed
  <2> QED
    BY <1>3, <2>1, Turned
<1>4. CASE t \in {<<1, mask>> : mask \in Byte}
  <2>1. PICK mask \in Byte : t = <<1, mask>>
    BY <1>4
  <2>2. Transformed(s, t) = [i \in 1 .. n |-> XorBytes[s[i], mask]]
    BY <1>2, <2>1 DEF Transformed
  <2>3. \A i \in 1 .. n : XorBytes[s[i], mask] \in Byte
    BY <1>2, FormatAssumption
  <2>4. Transformed(s, t) \in [1 .. n -> Byte]
    BY <2>2, <2>3
  <2> QED
    BY <1>1, <1>2, <2>4, IsASeq, LenProperties
<1> QED
  BY <1>3, <1>4 DEF Transform

\* What a stream answers is bytes, as many as were asked for.
LEMMA ReadsBytes ==
    ASSUME NEW s \in Registry, NEW offset \in Nat, NEW len \in Nat
    PROVE  LET r == ReadAt(s, offset, len) IN
           r.val \in Seq(Byte) /\ (r.how = "ok" => Len(r.val) = len)
<1>1. s.counter \in BOOLEAN /\ s.bytes \in Seq(Byte) /\ Len(s.bytes) \in Nat
  BY FormatAssumption, LenProperties DEF Stream
<1>2. CASE s.counter
  BY <1>2, CounterReadTyped DEF ReadAt
<1>3. CASE ~s.counter
  <2>1. ReadAt(s, offset, len) = ReadPrefix(s.bytes, offset, len)
    BY <1>3 DEF ReadAt
  <2>2. CASE offset + len > Len(s.bytes)
    BY <2>1, <2>2, EmptySeq DEF ReadPrefix, Failed
  <2>3. CASE ~(offset + len > Len(s.bytes))
    <3>1. PICK x : x = SubSeq(s.bytes, offset + 1, offset + len)
      OBVIOUS
    <3>2. x \in Seq(Byte) /\ Len(x) = len
      BY <1>1, <2>3, <3>1, SubSeqProperties
    <3> QED
      BY <2>1, <2>3, <3>1, <3>2 DEF ReadPrefix, Gives
  <2> QED
    BY <2>2, <2>3
<1> QED
  BY <1>1, <1>2, <1>3

\* The bytes of a chunk are added.
LEMMA BytesKeep == ASSUME FormatInv, ReadBytes PROVE FormatInv'
<1>1. PICK c, read :
        /\ c = plan.chunks[left + 1]
        /\ read = IF ~IsLocated(c) THEN Gives(c.literal)
                  ELSE IF StreamsOf(plan, c) = {} THEN Failed
                  ELSE ReadAt(CHOOSE s \in StreamsOf(plan, c) : TRUE, c.offset, c.len)
  OBVIOUS
<1>2. /\ stage = "reconstruct" /\ left < Len(plan.chunks)
      /\ UNCHANGED <<input, payload, at, plan>>
      /\ IF read.how = "ok"
         THEN /\ out' = out \o (IF IsLocated(c) THEN Transformed(read.val, c.transform)
                               ELSE read.val)
              /\ left' = left + 1 /\ UNCHANGED stage
         ELSE stage' \in {"panicked", "failed"} /\ UNCHANGED <<out, left>>
  BY <1>1 DEF ReadBytes
<1>3. /\ Typed /\ Counted /\ left \in Nat /\ out \in Seq(Byte)
      /\ Len(plan.chunks) <= MaxChunkCount
  BY Limits DEF FormatInv, Typed, Counted
<1>4. Len(plan.chunks) \in Nat /\ plan.chunks \in Seq(Located \union Literal)
  BY <1>3, ChunksAre
<1>5. CASE read.how # "ok"
  <2>1. Typed'
    BY <1>2, <1>3, <1>5 DEF Typed, Stages
  <2>2. Counted'
    BY <1>2, <1>3, <1>5 DEF Counted
  <2>3. Roomy'
    BY <1>2, <1>5 DEF Roomy
  <2> QED
    BY <2>1, <2>2, <2>3 DEF FormatInv
<1>6. CASE read.how = "ok"
  <2>1. c \in Located \union Literal
    <3>1. left + 1 \in 1 .. Len(plan.chunks)
      BY <1>2, <1>3, <1>4
    <3> QED
      BY <1>1, <1>4, <3>1, ElementOfSeq
  <2>2. out' \in Seq(Byte)
    <3>1. CASE IsLocated(c)
      <4>1. c \in Located
        BY <2>1, <3>1 DEF IsLocated, Literal
      <4>2. c.offset \in Nat /\ c.len \in Nat /\ c.transform \in Transform
        BY <4>1 DEF Located
      <4>3. StreamsOf(plan, c) # {}
        BY <1>1, <1>6, <3>1 DEF Failed
      <4>4. PICK s \in Registry : read = ReadAt(s, c.offset, c.len)
        BY <1>1, <3>1, <4>3 DEF StreamsOf
      <4>5. read.val \in Seq(Byte)
        BY <4>2, <4>4, ReadsBytes
      <4>6. Transformed(read.val, c.transform) \in Seq(Byte)
        BY <4>2, <4>5, TransformsBytes
      <4> QED
        BY <1>2, <1>3, <1>6, <3>1, <4>6, ConcatProperties
    <3>2. CASE ~IsLocated(c)
      <4>1. c \in Literal
        BY <2>1, <3>2 DEF IsLocated, Located
      <4>2. read.val \in Seq(Byte)
        BY <1>1, <3>2, <4>1 DEF Literal, Gives
      <4> QED
        BY <1>2, <1>3, <1>6, <3>2, <4>2, ConcatProperties
    <3> QED
      BY <3>1, <3>2
  <2>3. left' \in 0 .. MaxChunkCount /\ left' <= Len(plan.chunks)
    BY <1>2, <1>3, <1>4, <1>6, Limits
  <2>4. Typed'
    BY <1>2, <1>3, <1>6, <2>2, <2>3 DEF Typed
  <2>5. Counted'
    BY <1>2, <1>3, <1>6, <2>3 DEF Counted
  <2>6. Roomy'
    BY <1>2, <1>6 DEF FormatInv, Roomy, Covered
  <2> QED
    BY <2>4, <2>5, <2>6 DEF FormatInv
<1> QED
  BY <1>5, <1>6

\* The length and the hash are looked at.
LEMMA VerifyKeeps == ASSUME FormatInv, Verify PROVE FormatInv'
<1>1. /\ stage' \in {"done", "failed"} /\ stage' \in Stages
      /\ UNCHANGED <<input, payload, at, left, plan, out>>
  BY DEF Verify, Stages
<1>2. Typed'
  BY <1>1 DEF FormatInv, Typed
<1>3. Counted'
  BY <1>1 DEF FormatInv, Counted
<1>4. Roomy'
  BY <1>1 DEF Roomy
<1> QED
  BY <1>2, <1>3, <1>4 DEF FormatInv

\* The invariant is one.
LEMMA FormatInvariant == FormatSpec => []FormatInv
<1>1. FormatInv /\ UNCHANGED formatVars => FormatInv'
  BY DEF FormatInv, Typed, Counted, Roomy, Covered, formatVars
<1>2. FormatInv /\ [FormatNext]_formatVars => FormatInv'
  <2> SUFFICES ASSUME FormatInv, FormatNext PROVE FormatInv'
    BY <1>1
  <2>1. CASE Finished
    BY <1>1, <2>1 DEF Finished
  <2> QED
    BY <2>1, FrameKeeps, RawKeeps, HeaderKeeps, StreamKeeps, ChunkCountKeeps, ChunkKeeps,
       EndKeeps, BytesKeep, VerifyKeeps DEF FormatNext
<1> QED
  BY <1>2, StartsRight, PTL DEF FormatSpec

\* Every state is of its type, whatever is read; no more streams or chunks are
\* ever announced than the limits allow (decode in envelope.rs and plan.rs).
THEOREM FormatTypeCorrect == FormatSpec => []FormatTypeOK
<1>1. FormatInv => FormatTypeOK
  <2> SUFFICES ASSUME FormatInv PROVE FormatTypeOK
    OBVIOUS
  <2>1. Typed /\ plan \in Plan
    BY DEF FormatInv, Typed
  <2>2. ASSUME NEW n \in DOMAIN plan.chunks
        PROVE  plan.chunks[n] \in IF IsLocated(plan.chunks[n]) THEN Located ELSE Literal
    <3>1. plan.chunks[n] \in Located \union Literal
      BY <2>1, PlanParts, ElementOfSeq
    <3>2. IsLocated(plan.chunks[n]) => plan.chunks[n] \in Located
      BY <3>1 DEF IsLocated, Literal
    <3>3. ~IsLocated(plan.chunks[n]) => plan.chunks[n] \in Literal
      BY <3>1 DEF IsLocated, Located
    <3> QED
      BY <3>2, <3>3
  <2> QED
    BY <2>1, <2>2, PlanParts DEF Typed, FormatTypeOK
<1> QED
  BY <1>1, FormatInvariant, PTL

\* Whatever plan is decoded, its chunks cover the length it states and stay
\* below the end of the range and within the limits, and it is no longer when
\* it is written again than the payload it was read from, so it can be read
\* again (ReconstructionPlan::decode_payload).
THEOREM DecodesSoundPlans == FormatSpec => []DecodedPlansSound
<1>1. FormatInv => DecodedPlansSound
  <2> SUFFICES ASSUME FormatInv, stage = "reconstruct"
               PROVE  Consistent(plan) /\ WithinLimits(plan)
    BY DEF DecodedPlansSound
  <2>1. /\ CoveredLen(plan.chunks) = plan.len /\ plan.len <= MaxLogicalLen
        /\ Len(plan.streams) <= MaxStreams /\ Len(plan.chunks) <= MaxChunkCount
        /\ Len(EncodePayload(plan)) <= MaxEncodedPlanLen
        /\ \A n \in DOMAIN plan.chunks : SoundChunk(plan.chunks[n], Len(plan.streams))
    BY DEF FormatInv, Typed, Counted, Roomy, Covered
  <2>2. Consistent(plan)
    <3>1. ASSUME NEW n \in DOMAIN plan.chunks PROVE ChunkLen(plan.chunks[n]) > 0
      BY <2>1 DEF SoundChunk
    <3> QED
      BY <2>1, <3>1 DEF Consistent, SoundChunk
  <2>3. WithinLimits(plan)
    BY <2>1 DEF WithinLimits, SoundChunk
  <2> QED
    BY <2>2, <2>3
<1> QED
  BY <1>1, FormatInvariant, PTL

-----------------------------------------------------------------------------
(* What explain says *)

\* The lengths of chunks, and their sum.
Lengths(chunks) == [n \in DOMAIN chunks |-> ChunkLen(chunks[n])]

\* What is covered is covered by located chunks and by literal ones; no chunk
\* is longer than all of them, and there are no more of them than bytes.
LEMMA CoverSplits ==
    ASSUME NEW chunks, NEW k \in Nat, DOMAIN chunks = 1 .. k,
           \A n \in 1 .. k : ChunkLen(chunks[n]) \in Nat \ {0}
    PROVE  LET some == Literals(chunks)
               rest == DOMAIN chunks \ Literals(chunks)
           IN  /\ LenOf(chunks, some) \in Nat /\ LenOf(chunks, rest) \in Nat
               /\ CoveredLen(chunks) = LenOf(chunks, some) + LenOf(chunks, rest)
               /\ LenOf(chunks, some) = 0 <=> some = {}
               /\ k <= CoveredLen(chunks)
               /\ \A n \in 1 .. k : ChunkLen(chunks[n]) <= CoveredLen(chunks)
<1>1. PICK w, D, A, B : /\ w = Lengths(chunks) /\ D = 1 .. k
                        /\ A = Literals(chunks) /\ B = D \ A
  OBVIOUS
<1>2. \A n \in D : w[n] \in Nat \ {0} /\ w[n] = ChunkLen(chunks[n])
  BY <1>1 DEF Lengths
<1>3. A \union B = D /\ A \cap B = {} /\ A \subseteq D
  BY <1>1 DEF Literals
<1>4. IsFiniteSet(D) /\ IsFiniteSet(A) /\ IsFiniteSet(B)
  BY <1>1, <1>3, FS_Interval, FS_Subset
<1>5. /\ LenOf(chunks, A) = SumOf(w, A) /\ LenOf(chunks, B) = SumOf(w, B)
      /\ CoveredLen(chunks) = SumOf(w, D)
  <2>1. \A S : LenOf(chunks, S) = SumOf(Lengths(chunks), S)
    BY DEF LenOf, SumOf, Lengths
  <2> QED
    BY <1>1, <2>1 DEF CoveredLen
<1>6. SumOf(w, A) \in Nat /\ SumOf(w, B) \in Nat
  BY <1>2, <1>3, <1>4, SumType
<1>7. SumOf(w, A \union B) = SumOf(w, A) + SumOf(w, B)
  BY <1>2, <1>3, <1>4, SumUnion
<1>8. SumOf(w, A) = 0 <=> A = {}
  <2>1. CASE A = {}
    BY <2>1, SumEmpty
  <2>2. CASE A # {}
    <3>1. PICK y \in A : TRUE
      BY <2>2
    <3>2. w[y] <= SumOf(w, A) /\ w[y] \in Nat \ {0}
      BY <1>2, <1>3, <1>4, <3>1, SumHolds
    <3> QED
      BY <1>6, <2>2, <3>2
  <2> QED
    BY <2>1, <2>2
<1>9. k <= SumOf(w, D)
  BY <1>1, <1>2, SumCounts
<1>10. \A n \in D : w[n] <= SumOf(w, D)
  BY <1>2, <1>4, SumHolds
<1> QED
  BY <1>1, <1>2, <1>3, <1>5, <1>6, <1>7, <1>8, <1>9, <1>10

\* What explain and metrics say of whatever row is decoded agrees with the plan
\* it holds: the bytes counted as located are those of the located chunks, no
\* run is longer than the value, and a plan is pure, and its ratio stands,
\* exactly when it has no literal chunk (explain.rs, PiLsmMetrics::observe).
THEOREM ExplainsCorrectly == FormatSpec => []ExplainsWhatItHolds
<1>1. FormatInv => ExplainsWhatItHolds
  <2> SUFFICES ASSUME FormatInv, stage = "reconstruct" PROVE ExplainsWhatItHolds
    BY DEF ExplainsWhatItHolds
  <2>1. PICK cs, k : cs = plan.chunks /\ k = Len(cs)
    OBVIOUS
  <2>2. /\ k \in Nat /\ DOMAIN cs = 1 .. k /\ plan.len \in Nat
        /\ CoveredLen(cs) = plan.len
        /\ cs \in Seq(Located \union Literal)
        /\ \A n \in 1 .. k : ChunkLen(cs[n]) \in Nat \ {0}
    <3>1. Typed /\ Counted /\ CoveredLen(cs) = plan.len
      BY <2>1 DEF FormatInv, Roomy, Covered
    <3>2. k \in Nat /\ cs \in Seq(Located \union Literal) /\ plan.len \in Nat
          /\ \A n \in DOMAIN cs : SoundChunk(cs[n], Len(plan.streams))
      BY <2>1, <3>1, ChunksAre
    <3>3. DOMAIN cs = 1 .. k
      BY <2>1, <3>2, LenProperties
    <3> QED
      BY <3>1, <3>2, <3>3 DEF SoundChunk
  <2>3. PICK some, rest, lit, loc :
          /\ some = Literals(cs) /\ rest = DOMAIN cs \ Literals(cs)
          /\ lit = LenOf(cs, some) /\ loc = LenOf(cs, rest)
    OBVIOUS
  <2>4. /\ lit \in Nat /\ loc \in Nat /\ plan.len = lit + loc /\ (lit = 0 <=> some = {})
        /\ k <= plan.len /\ \A n \in 1 .. k : ChunkLen(cs[n]) <= plan.len
    BY <2>2, <2>3, CoverSplits
  <2>5. rest = DOMAIN cs <=> some = {}
    BY <2>3 DEF Literals
  <2>6. cs = <<>> <=> plan.len = 0
    <3>1. cs = <<>> => plan.len = 0
      <4>1. CASE cs = <<>>
        <5>1. DOMAIN cs = {} /\ some = {}
          BY <2>3, <4>1, EmptySeq DEF Literals
        <5>2. rest = {} /\ loc = 0 /\ lit = 0
          <6>1. rest = {}
            BY <2>3, <5>1
          <6>2. LenOf(cs, {}) = SumOf(Lengths(cs), {})
            BY DEF LenOf, SumOf, Lengths
          <6> QED
            BY <2>3, <2>4, <5>1, <6>1, <6>2, SumEmpty
        <5> QED
          BY <2>4, <5>2
      <4> QED
        BY <4>1
    <3>2. plan.len = 0 => cs = <<>>
      BY <2>1, <2>2, <2>4, EmptySeq
    <3> QED
      BY <3>1, <3>2
  <2>7. LongestRun(cs) <= plan.len
    <3>1. PICK S : S = {0} \union {ChunkLen(cs[n]) : n \in DOMAIN cs}
      OBVIOUS
    <3>2. S \in SUBSET Nat /\ S # {} /\ \A m \in S : m <= plan.len
      BY <2>2, <2>4, <3>1
    <3>3. Max(S) \in S
      BY <2>2, <3>2, MaxBelow
    <3> QED
      BY <3>1, <3>2, <3>3 DEF LongestRun
  <2>8. PICK e : e = ExplainPlan(plan)
    OBVIOUS
  <2>9. /\ e.logical_user_bytes = plan.len /\ e.chunks = k
        /\ e.longest_natural_run = LongestRun(cs)
        /\ e.literal_bytes = lit
        /\ e.ratio = PlanRatio(plan)
        /\ e.purity = IF lit = 0 THEN "Pure" ELSE "Contaminated"
    BY <2>1, <2>3, <2>8 DEF ExplainPlan, LiteralBytes
  <2>10. PlanRatio(plan) = IF plan.len = 0 THEN "Undefined"
                           ELSE IF lit = 0 THEN "Infinite" ELSE "Revoked"
    BY <2>1, <2>3 DEF PlanRatio, LiteralBytes
  <2>11. LocatedUserBytes(e) = loc
    BY <2>4, <2>9 DEF LocatedUserBytes
  <2>12. e.purity = "Pure" <=> rest = DOMAIN cs
    BY <2>4, <2>5, <2>9
  <2>13. e.ratio = "Revoked" <=> rest # DOMAIN cs
    BY <2>4, <2>5, <2>9, <2>10
  <2>14. e.ratio = "Undefined" <=> cs = <<>>
    BY <2>6, <2>9, <2>10
  <2> QED
    BY <2>1, <2>3, <2>4, <2>7, <2>8, <2>9, <2>11, <2>12, <2>13, <2>14 DEF ExplainsWhatItHolds
<1> QED
  BY <1>1, FormatInvariant, PTL

-----------------------------------------------------------------------------
(* Reconstruction *)

\* Rounding the end of a chunk up to a block stays within the range.  The limits
\* the code comes with leave more than half of it (DecodeLimits::default).
BlocksFit == MaxOffset + MaxChunkLen + BlockLen <= Words

\* The stream that a chunk names is registered and reaches as far as the chunk.
Reachable(p, c) ==
    IsLocated(c) => \E s \in StreamsOf(p, c) : s.counter \/ c.offset + c.len <= Len(s.bytes)

\* How a chunk is read, and what is added to the bytes.
ChunkRead(p, c) ==
    IF ~IsLocated(c) THEN Gives(c.literal)
    ELSE IF StreamsOf(p, c) = {} THEN Failed
    ELSE ReadAt(CHOOSE s \in StreamsOf(p, c) : TRUE, c.offset, c.len)
Adds(c, bytes) == IF IsLocated(c) THEN Transformed(bytes, c.transform) ELSE bytes

\* A stream that reaches far enough is read place by place, without a panic;
\* one that does not is not read.
LEMMA StreamReads ==
    ASSUME NEW s \in Registry, NEW offset \in Nat, NEW len \in Nat \ {0},
           offset + len + BlockLen <= Words
    PROVE  LET r == ReadAt(s, offset, len)
               far == s.counter \/ offset + len <= Len(s.bytes)
           IN  /\ far => r = Gives(Stretch(s, offset, len))
               /\ ~far => r = Failed
<1>1. s.counter \in BOOLEAN /\ s.bytes \in Seq(Byte) /\ Len(s.bytes) \in Nat
  BY FormatAssumption, LenProperties DEF Stream
<1>2. CASE s.counter
  <2>1. ReadAt(s, offset, len) = Gives([n \in 1 .. len |-> CounterByte(offset + n - 1)])
    BY <1>2, CounterReads DEF ReadAt
  <2>2. Stretch(s, offset, len) = [n \in 1 .. len |-> CounterByte(offset + n - 1)]
    BY <1>2 DEF Stretch
  <2> QED
    BY <1>2, <2>1, <2>2
<1>3. CASE ~s.counter
  <2>1. ReadAt(s, offset, len) = ReadPrefix(s.bytes, offset, len)
    BY <1>3 DEF ReadAt
  <2>2. CASE offset + len > Len(s.bytes)
    BY <1>1, <1>3, <2>1, <2>2 DEF ReadPrefix
  <2>3. CASE ~(offset + len > Len(s.bytes))
    <3>1. PICK b : b = s.bytes
      OBVIOUS
    <3>2. SubSeq(b, offset + 1, offset + len) = [n \in 1 .. len |-> b[offset + n]]
      BY <1>1, <2>3, <3>1
    <3>3. Stretch(s, offset, len) = [n \in 1 .. len |-> b[offset + n]]
      BY <1>3, <3>1 DEF Stretch
    <3>4. ReadAt(s, offset, len) = Gives(Stretch(s, offset, len))
      BY <2>1, <2>3, <3>1, <3>2, <3>3 DEF ReadPrefix
    <3>5. offset + len <= Len(s.bytes)
      BY <1>1, <2>3
    <3> QED
      BY <3>4, <3>5
  <2> QED
    BY <2>2, <2>3
<1> QED
  BY <1>1, <1>2, <1>3

\* A chunk is read exactly if it can be reached, and adds the bytes it spells.
LEMMA ChunkReads ==
    ASSUME BlocksFit, NEW p, NEW c, SoundChunk(c, Len(p.streams))
    PROVE  LET r == ChunkRead(p, c) IN
           /\ r.how # "panic" /\ (r.how = "ok" <=> Reachable(p, c))
           /\ Reachable(p, c) => /\ Adds(c, r.val) = ChunkSpells(p, c)
                                 /\ ChunkSpells(p, c) \in Seq(Byte)
                                 /\ Len(ChunkSpells(p, c)) = ChunkLen(c)
<1>1. PICK r : r = ChunkRead(p, c)
  OBVIOUS
<1>2. CASE ~IsLocated(c)
  <2>1. c \in Literal
    BY <1>2 DEF SoundChunk, IsLocated, Located
  <2>2. r = Gives(c.literal) /\ c.literal \in Seq(Byte)
    BY <1>1, <1>2, <2>1 DEF ChunkRead, Literal
  <2> QED
    BY <1>1, <1>2, <2>2 DEF Gives, Reachable, Adds, ChunkSpells, ChunkLen
<1>3. CASE IsLocated(c)
  <2>1. c \in Located
    BY <1>3 DEF SoundChunk, IsLocated, Literal
  <2>2. /\ c.offset \in Nat /\ c.len \in Nat \ {0} /\ c.transform \in Transform
        /\ c.offset + c.len + BlockLen <= Words /\ ChunkLen(c) = c.len
    <3>1. /\ c.offset \in Nat /\ c.len \in Nat \ {0} /\ c.transform \in Transform
          /\ c.offset <= MaxOffset /\ c.len <= MaxChunkLen /\ ChunkLen(c) = c.len
      BY <1>3, <2>1 DEF SoundChunk, ChunkLen, Located
    <3>2. c.offset + c.len + BlockLen <= Words
      BY <3>1, Limits, StreamAssumption DEF BlocksFit
    <3> QED
      BY <3>1, <3>2
  <2>3. CASE StreamsOf(p, c) = {}
    <3>1. r = Failed
      BY <1>1, <1>3, <2>3 DEF ChunkRead
    <3> QED
      BY <1>1, <1>3, <2>3, <3>1 DEF Failed, Reachable
  <2>4. CASE StreamsOf(p, c) # {}
    <3>1. PICK s : s = CHOOSE t \in StreamsOf(p, c) : TRUE
      OBVIOUS
    <3>2. s \in StreamsOf(p, c) /\ s \in Registry /\ \A t \in StreamsOf(p, c) : t = s
      BY <2>4, <3>1, FormatAssumption DEF StreamsOf
    <3>3. r = ReadAt(s, c.offset, c.len)
      BY <1>1, <1>3, <2>4, <3>1 DEF ChunkRead
    <3>4. Reachable(p, c) <=> s.counter \/ c.offset + c.len <= Len(s.bytes)
      BY <1>3, <3>2 DEF Reachable
    <3>5. CASE ~Reachable(p, c)
      <4>1. r = Failed
        BY <2>2, <3>2, <3>3, <3>4, <3>5, StreamReads
      <4> QED
        BY <1>1, <3>5, <4>1 DEF Failed
    <3>6. CASE Reachable(p, c)
      <4>1. PICK x : x = Stretch(s, c.offset, c.len)
        OBVIOUS
      <4>2. r = Gives(x)
        BY <2>2, <3>2, <3>3, <3>4, <3>6, <4>1, StreamReads
      <4>3. r.how = "ok" /\ r.val = x
        BY <4>2 DEF Gives
      <4>4. x \in Seq(Byte) /\ Len(x) = c.len
        BY <2>2, <3>2, <3>3, <4>3, ReadsBytes
      <4>5. ChunkSpells(p, c) = Transformed(x, c.transform)
        BY <1>3, <3>1, <4>1 DEF ChunkSpells
      <4>6. /\ Transformed(x, c.transform) \in Seq(Byte)
            /\ Len(Transformed(x, c.transform)) = c.len
        BY <2>2, <4>4, TransformsBytes
      <4> QED
        BY <1>1, <1>3, <2>2, <3>6, <4>3, <4>5, <4>6 DEF Adds
    <3> QED
      BY <3>5, <3>6
  <2> QED
    BY <2>3, <2>4
<1> QED
  BY <1>2, <1>3

\* The bytes that the first m chunks spell, one chunk after the other.
Spelling(p, m, t) ==
    t[0] = <<>> /\ \A i \in 1 .. m : t[i] = t[i - 1] \o ChunkSpells(p, p.chunks[i])

\* The bytes of a plan are those.
LEMMA SpellingIs ==
    ASSUME NEW p, NEW k \in Nat, DOMAIN p.chunks = 1 .. k,
           \A n \in 1 .. k : ChunkSpells(p, p.chunks[n]) \in Seq(Byte)
    PROVE  \E t \in [0 .. k -> Seq(Byte)] : Spelling(p, k, t) /\ PlanSpells(p) = t[k]
<1> DEFINE Table(f) ==
             f = [s \in SUBSET DOMAIN p.chunks |->
                    IF s = {} THEN <<>>
                    ELSE f[s \ {Max(s)}] \o ChunkSpells(p, p.chunks[Max(s)])]
           f == CHOOSE f : Table(f)
           step == [i \in 1 .. k |-> [v \in Seq(Byte) |-> v \o ChunkSpells(p, p.chunks[i])]]
<1>1. PlanSpells(p) = f[1 .. k]
  BY DEF PlanSpells, FoldLeft, MapThenFoldSet
<1>2. step \in [1 .. k -> [Seq(Byte) -> Seq(Byte)]]
  <2> SUFFICES ASSUME NEW i \in 1 .. k, NEW v \in Seq(Byte)
               PROVE  v \o ChunkSpells(p, p.chunks[i]) \in Seq(Byte)
    OBVIOUS
  <2> QED
    BY ConcatProperties
<1>3. <<>> \in Seq(Byte)
  BY EmptySeq
<1>4. PICK g \in [SUBSET (1 .. k) -> Seq(Byte)] : FoldTable(<<>>, step, 1 .. k, g)
  <2> HIDE DEF step
  <2> QED
    BY <1>2, <1>3, FoldTableExists
<1>5. Table(g)
  <2>1. ASSUME NEW s \in SUBSET (1 .. k), s # {}
        PROVE  step[Max(s)][g[s \ {Max(s)}]]
                 = g[s \ {Max(s)}] \o ChunkSpells(p, p.chunks[Max(s)])
    <3>1. PICK m, v : m = Max(s) /\ v = g[s \ {m}]
      OBVIOUS
    <3>2. m \in 1 .. k /\ v \in Seq(Byte)
      BY <1>4, <2>1, <3>1, MaxOf
    <3>3. step[m][v] = v \o ChunkSpells(p, p.chunks[m])
      BY <3>2
    <3> HIDE DEF step
    <3> QED
      BY <3>1, <3>3
  <2> HIDE DEF step
  <2> QED
    BY <1>4, <2>1 DEF FoldTable
<1>6. Table(f)
  <2> HIDE DEF Table
  <2> QED
    BY <1>5
<1> HIDE DEF f
<1>7. f[{}] = <<>>
  BY <1>6
<1>8. ASSUME NEW m \in 1 .. k, f[1 .. m - 1] \in Seq(Byte)
      PROVE  f[1 .. m] = step[m][f[1 .. m - 1]]
  <2>1. /\ 1 .. m # {} /\ 1 .. m \in SUBSET (1 .. k)
        /\ (1 .. m) \ {m} = 1 .. m - 1 /\ Max(1 .. m) = m
    <3>1. m \in Nat \ {0} /\ m <= k
      OBVIOUS
    <3>2. Max(1 .. m) = m
      BY <3>1, MaxOfStretch
    <3>3. 1 .. m # {} /\ 1 .. m \in SUBSET (1 .. k)
      <4>1. \A i \in 1 .. m : i \in 1 .. k
        BY <3>1
      <4>2. 1 \in 1 .. m
        BY <3>1
      <4> QED
        BY ONLY <4>1, <4>2
    <3>4. (1 .. m) \ {m} = 1 .. m - 1
      BY ONLY <3>1
    <3> QED
      BY <3>2, <3>3, <3>4
  <2>2. f[1 .. m] = f[1 .. m - 1] \o ChunkSpells(p, p.chunks[m])
    BY <1>6, <2>1
  <2> QED
    BY <1>8, <2>2
<1>9. \A m \in 0 .. k : f[1 .. m] \in Seq(Byte)
  <2>1. ASSUME NEW m \in 1 .. k, f[1 .. m - 1] \in Seq(Byte) PROVE f[1 .. m] \in Seq(Byte)
    <3> HIDE DEF step
    <3> QED
      BY <1>2, <1>8, <2>1
  <2>2. f[{}] \in Seq(Byte) /\ k \in Nat
    BY <1>3, <1>7
  <2> QED
    BY ONLY <2>1, <2>2, FoldTyped
<1> DEFINE t == [m \in 0 .. k |-> f[1 .. m]]
<1>10. t \in [0 .. k -> Seq(Byte)] /\ t[0] = <<>> /\ f[1 .. k] = t[k]
  <2>1. 1 .. 0 = {}
    OBVIOUS
  <2> QED
    BY <1>7, <1>9, <2>1
<1>11. Spelling(p, k, t)
  <2>1. ASSUME NEW i \in 1 .. k PROVE t[i] = t[i - 1] \o ChunkSpells(p, p.chunks[i])
    <3>0. i - 1 \in 0 .. k /\ i \in 0 .. k
      OBVIOUS
    <3>1. f[1 .. i - 1] \in Seq(Byte)
      BY <1>9, <3>0
    <3>2. f[1 .. i] = step[i][f[1 .. i - 1]]
      <4> HIDE DEF step, t
      <4> QED
        BY <1>8, <3>1
    <3>3. step[i][f[1 .. i - 1]] = f[1 .. i - 1] \o ChunkSpells(p, p.chunks[i])
      BY <3>1
    <3>4. t[i] = f[1 .. i] /\ t[i - 1] = f[1 .. i - 1]
      BY <3>0
    <3> HIDE DEF step, t
    <3> QED
      BY <3>2, <3>3, <3>4
  <2> HIDE DEF step, t
  <2> QED
    BY <1>10, <2>1 DEF Spelling
<1> HIDE DEF step, t
<1> QED
  BY <1>1, <1>10, <1>11

\* The chunks that have been read could be, and what is known is what they
\* spell, all of it.
SpelledSoFar ==
    /\ \A n \in 1 .. left : Reachable(plan, plan.chunks[n])
    /\ \A t : Spelling(plan, left, t) => out = t[left]
    /\ Len(out) = SumOf(Lengths(plan.chunks), 1 .. left)

SpellInv ==
    /\ stage = "raw" => input[3] = KindRaw
    /\ stage \in {"frame", "raw", "header", "streams", "chunks"} => out = <<>>
    /\ stage = "reconstruct" => SpelledSoFar
    /\ ReadsWhatItNames

\* A plan can be read if each of its chunks can be reached.
LEMMA ReadableIs ==
    ASSUME NEW p, NEW k \in Nat, DOMAIN p.chunks = 1 .. k
    PROVE  Readable(p) <=> \A n \in 1 .. k : Reachable(p, p.chunks[n])
  BY DEF Readable, Reachable

\* Nothing is known before the chunks are read.
LEMMA EarlierSpells ==
    ASSUME FormatInv, SpellInv,
           \/ ReadFrame \/ ReadRaw \/ ReadHeader \/ ReadStream \/ ReadChunkCount \/ ReadChunk
    PROVE  SpellInv'
<1>1. UNCHANGED input /\ stage' # "reconstruct" /\ stage' # "failed" /\ stage' # "panicked"
  BY DEF ReadFrame, ReadRaw, ReadHeader, ReadStream, ReadChunkCount, ReadChunk, Refuse
<1>2. stage' = "raw" => input[3] = KindRaw
  BY DEF SpellInv, ReadFrame, ReadRaw, ReadHeader, ReadStream, ReadChunkCount, ReadChunk, Refuse
<1>3. stage' \in {"frame", "raw", "header", "streams", "chunks"} => out' = <<>>
  BY DEF SpellInv, ReadFrame, ReadRaw, ReadHeader, ReadStream, ReadChunkCount, ReadChunk, Refuse
<1>4. stage' = "done" => input[3] = KindRaw
  BY DEF SpellInv, ReadFrame, ReadRaw, ReadHeader, ReadStream, ReadChunkCount, ReadChunk, Refuse
<1>5. ReadsWhatItNames'
  BY <1>1, <1>4 DEF ReadsWhatItNames, KindRaw, KindPlan
<1> QED
  BY <1>1, <1>2, <1>3, <1>5 DEF SpellInv

\* Reconstruction starts with nothing.
LEMMA EndSpells == ASSUME FormatInv, SpellInv, ReadEnd PROVE SpellInv'
<1>1. CASE Refuse
  BY <1>1 DEF Refuse, SpellInv, ReadsWhatItNames
<1>2. CASE ~Refuse
  <2>1. stage' = "reconstruct" /\ left = 0 /\ out = <<>> /\ UNCHANGED <<input, left, plan, out>>
    BY <1>2 DEF ReadEnd, SpellInv
  <2>2. 1 .. 0 = {}
    OBVIOUS
  <2>3. Len(out) = SumOf(Lengths(plan.chunks), 1 .. left)
    BY <2>1, <2>2, SumEmpty, EmptySeq
  <2>4. SpelledSoFar'
    BY <2>1, <2>2, <2>3 DEF SpelledSoFar, Spelling
  <2>5. ReadsWhatItNames'
    BY <2>1 DEF ReadsWhatItNames
  <2> QED
    BY <2>1, <2>4, <2>5 DEF SpellInv
<1> QED
  BY <1>1, <1>2

\* A chunk is read and adds what it spells, or cannot be reached.
LEMMA BytesSpell == ASSUME BlocksFit, FormatInv, SpellInv, ReadBytes PROVE SpellInv'
<1>1. PICK cs, k, m : cs = plan.chunks /\ k = Len(cs) /\ m = left + 1
  OBVIOUS
<1>2. PICK c, r : c = cs[m] /\ r = ChunkRead(plan, c)
  OBVIOUS
<1>3. /\ stage = "reconstruct" /\ SpelledSoFar /\ UNCHANGED <<input, plan>>
      /\ left \in Nat /\ left < k
  <2>1. stage = "reconstruct" /\ left < k /\ UNCHANGED <<input, plan>>
    BY <1>1 DEF ReadBytes
  <2>2. SpelledSoFar
    BY <2>1 DEF SpellInv
  <2>3. left \in Nat
    BY Limits DEF FormatInv, Typed
  <2> QED
    BY <2>1, <2>2, <2>3
<1>4. k \in Nat /\ DOMAIN cs = 1 .. k /\ \A n \in 1 .. k : SoundChunk(cs[n], Len(plan.streams))
  <2>1. k \in Nat /\ cs \in Seq(Located \union Literal)
        /\ \A n \in DOMAIN cs : SoundChunk(cs[n], Len(plan.streams))
    BY <1>1, ChunksAre DEF FormatInv
  <2> QED
    BY <1>1, <2>1, LenProperties
<1>5. m \in 1 .. k /\ m = left + 1 /\ m - 1 = left /\ SoundChunk(c, Len(plan.streams))
  BY <1>1, <1>2, <1>3, <1>4
<1>6. /\ r.how # "panic" /\ (r.how = "ok" <=> Reachable(plan, c))
      /\ Reachable(plan, c) => /\ Adds(c, r.val) = ChunkSpells(plan, c)
                               /\ ChunkSpells(plan, c) \in Seq(Byte)
                               /\ Len(ChunkSpells(plan, c)) = ChunkLen(c)
  BY <1>2, <1>5, ChunkReads
<1>7. IF r.how = "ok"
      THEN out' = out \o Adds(c, r.val) /\ left' = left + 1 /\ UNCHANGED stage
      ELSE stage' = "failed" /\ UNCHANGED <<out, left>>
  BY <1>1, <1>2, <1>6 DEF ReadBytes, ChunkRead, Adds
<1>8. CASE r.how # "ok"
  <2>1. stage' = "failed" /\ ~Reachable(plan, plan.chunks[m])
    BY <1>1, <1>2, <1>6, <1>7, <1>8
  <2>2. ~Readable(plan)
    BY <1>1, <1>4, <1>5, <2>1, ReadableIs
  <2>3. ReadsWhatItNames'
    BY <1>3, <2>1, <2>2 DEF ReadsWhatItNames
  <2> QED
    BY <2>1, <2>3 DEF SpellInv
<1>9. CASE r.how = "ok"
  <2>1. PICK x : x = ChunkSpells(plan, c)
    OBVIOUS
  <2>2. /\ stage' = "reconstruct" /\ out' = out \o x /\ left' = m
        /\ Reachable(plan, c) /\ x \in Seq(Byte) /\ Len(x) = ChunkLen(c)
    BY <1>1, <1>3, <1>6, <1>7, <1>9, <2>1
  <2>3. \A n \in 1 .. m : Reachable(plan, plan.chunks[n])
    <3>1. ASSUME NEW n \in 1 .. m PROVE Reachable(plan, plan.chunks[n])
      <4>1. n \in 1 .. left \/ n = m
        BY <1>3, <1>5
      <4> QED
        BY <1>1, <1>2, <1>3, <2>2, <4>1 DEF SpelledSoFar
    <3> QED
      BY <3>1
  <2>4. ASSUME NEW t, Spelling(plan, m, t) PROVE out' = t[m]
    <3>1. Spelling(plan, left, t)
      <4>1. \A i \in 1 .. left : i \in 1 .. m
        BY <1>3, <1>5
      <4> QED
        BY <2>4, <4>1 DEF Spelling
    <3>2. out = t[m - 1]
      BY <1>3, <1>5, <3>1 DEF SpelledSoFar
    <3>3. m \in 1 .. m
      BY <1>5
    <3>4. t[m] = t[m - 1] \o ChunkSpells(plan, plan.chunks[m])
      BY <2>4, <3>3 DEF Spelling
    <3> QED
      BY <1>1, <1>2, <2>1, <2>2, <3>2, <3>4
  <2>5. Len(out') = SumOf(Lengths(plan.chunks), 1 .. m)
    <3>1. PICK w : w = Lengths(cs)
      OBVIOUS
    <3>2. w[m] = ChunkLen(c) /\ \A n \in 1 .. m : w[n] \in Nat
      <4>1. \A n \in 1 .. m : n \in 1 .. k
        BY <1>4, <1>5
      <4> QED
        BY <1>2, <1>4, <1>5, <3>1, <4>1 DEF Lengths, SoundChunk
    <3>3. SumOf(w, 1 .. m) = SumOf(w, 1 .. m - 1) + w[m]
      BY <1>4, <1>5, <3>2, SumUpTo
    <3>4. Len(out) = SumOf(w, 1 .. m - 1)
      BY <1>1, <1>3, <1>5, <3>1 DEF SpelledSoFar
    <3>5. Len(out') = Len(out) + Len(x)
      BY <2>2, ConcatProperties DEF FormatInv, Typed
    <3> QED
      BY <1>1, <2>2, <3>1, <3>2, <3>3, <3>4, <3>5
  <2>6. SpelledSoFar'
    <3>1. \A n \in 1 .. left' : Reachable(plan', plan'.chunks[n])
      BY <1>3, <2>2, <2>3
    <3>2. \A t : Spelling(plan', left', t) => out' = t[left']
      BY <1>3, <2>2, <2>4
    <3>3. Len(out') = SumOf(Lengths(plan'.chunks), 1 .. left')
      BY <1>3, <2>2, <2>5
    <3> QED
      BY <3>1, <3>2, <3>3 DEF SpelledSoFar
  <2>7. ReadsWhatItNames'
    BY <2>2 DEF ReadsWhatItNames
  <2> QED
    BY <2>2, <2>6, <2>7 DEF SpellInv
<1> QED
  BY <1>8, <1>9

\* The length that is covered is that of the bytes, so the hash decides.
LEMMA VerifySpells == ASSUME BlocksFit, FormatInv, SpellInv, Verify PROVE SpellInv'
<1>1. PICK cs, k : cs = plan.chunks /\ k = Len(cs)
  OBVIOUS
<1>2. /\ stage = "reconstruct" /\ SpelledSoFar /\ UNCHANGED <<input, plan, out>>
      /\ left = k /\ CoveredLen(cs) = plan.len
  BY <1>1 DEF Verify, SpellInv, FormatInv, Roomy, Covered
<1>3. k \in Nat /\ DOMAIN cs = 1 .. k /\ \A n \in 1 .. k : SoundChunk(cs[n], Len(plan.streams))
  <2>1. k \in Nat /\ cs \in Seq(Located \union Literal)
        /\ \A n \in DOMAIN cs : SoundChunk(cs[n], Len(plan.streams))
    BY <1>1, ChunksAre DEF FormatInv
  <2> QED
    BY <1>1, <2>1, LenProperties
<1>4. Readable(plan) /\ \A n \in 1 .. k : Reachable(plan, cs[n])
  BY <1>1, <1>2, <1>3, ReadableIs DEF SpelledSoFar
<1>5. \A n \in 1 .. k : ChunkSpells(plan, plan.chunks[n]) \in Seq(Byte)
  BY <1>1, <1>3, <1>4, ChunkReads
<1>6. PICK t : Spelling(plan, k, t) /\ PlanSpells(plan) = t[k]
  BY <1>1, <1>3, <1>5, SpellingIs
<1>7. out = PlanSpells(plan)
  BY <1>2, <1>6 DEF SpelledSoFar
<1>8. Len(out) = plan.len
  <2>1. CoveredLen(cs) = SumOf(Lengths(cs), DOMAIN cs)
    BY DEF CoveredLen, LenOf, SumOf, Lengths
  <2> QED
    BY <1>1, <1>2, <1>3, <2>1 DEF SpelledSoFar
<1>9. stage' = IF HashOf(plan.hashKind, out) = plan.hash THEN "done" ELSE "failed"
  BY <1>8 DEF Verify
<1>10. ReadsWhatItNames'
  <2>1. PICK spells : spells = PlanSpells(plan)
    OBVIOUS
  <2>2. stage' # "panicked" /\ (stage' = "done" <=> HashOf(plan.hashKind, spells) = plan.hash)
    BY <1>7, <1>9, <2>1
  <2> QED
    BY <1>2, <1>4, <1>7, <2>1, <2>2 DEF ReadsWhatItNames
<1> QED
  BY <1>9, <1>10 DEF SpellInv

\* Reading never panics, and gives the bytes that the chunks name, chunk after
\* chunk, exactly when every chunk can be reached and their hash is the one the
\* plan states (reconstruct in reconstruct.rs).
THEOREM ReadsCorrectly == ASSUME BlocksFit PROVE FormatSpec => []ReadsWhatItNames
<1>1. FormatInit => SpellInv
  BY DEF FormatInit, SpellInv, ReadsWhatItNames
<1>2. SpellInv /\ UNCHANGED formatVars => SpellInv'
  BY DEF SpellInv, SpelledSoFar, Spelling, ReadsWhatItNames, formatVars
<1>3. FormatInv /\ SpellInv /\ [FormatNext]_formatVars => SpellInv'
  <2> SUFFICES ASSUME FormatInv, SpellInv, FormatNext PROVE SpellInv'
    BY <1>2
  <2>1. CASE Finished
    BY <1>2, <2>1 DEF Finished
  <2> QED
    BY <2>1, EarlierSpells, EndSpells, BytesSpell, VerifySpells DEF FormatNext
<1>4. SpellInv => ReadsWhatItNames
  BY DEF SpellInv
<1> QED
  BY <1>1, <1>3, <1>4, FormatInvariant, PTL DEF FormatSpec

-----------------------------------------------------------------------------
(* Where things stand in a payload *)

\* The pieces ss stand one after the other, the i-th from a[i - 1] to a[i].
Along(s, a, ss) ==
    \A i \in 1 .. Len(ss) : Holds(s, a[i - 1], ss[i]) /\ a[i] = a[i - 1] + Len(ss[i])

\* They do when all of them, joined, stand there.
LEMMA FlattenStands ==
    ASSUME NEW S, NEW s \in Seq(S), NEW at0 \in Nat, NEW T, NEW ss \in Seq(Seq(T)),
           Holds(s, at0, FlattenSeq(ss))
    PROVE  \E a \in [0 .. Len(ss) -> Nat] :
              /\ a[0] = at0 /\ a[Len(ss)] = at0 + Len(FlattenSeq(ss))
              /\ Along(s, a, ss)
<1>1. PICK n : n = Len(ss)
  OBVIOUS
<1>2. n \in Nat /\ \A i \in 1 .. n : ss[i] \in Seq(T)
  BY <1>1, LenProperties, ElementOfSeq
<1>3. PICK t \in [0 .. n -> Seq(T)] : Joined(ss, t) /\ FlattenSeq(ss) = t[n]
  BY <1>1, FlattenIs
<1>4. t[0] = <<>> /\ \A i \in 1 .. n : t[i] = t[i - 1] \o ss[i]
  BY <1>1, <1>3 DEF Joined
<1>5. ASSUME NEW i \in 1 .. n, Holds(s, at0, t[i])
      PROVE  /\ Holds(s, at0, t[i - 1]) /\ Holds(s, at0 + Len(t[i - 1]), ss[i])
             /\ Len(t[i]) = Len(t[i - 1]) + Len(ss[i])
  <2>1. i - 1 \in 0 .. n
    BY <1>2
  <2>2. PICK x, y : x = t[i - 1] /\ y = ss[i]
    OBVIOUS
  <2>3. x \in Seq(T) /\ y \in Seq(T) /\ t[i] = x \o y
    BY <1>2, <1>3, <1>4, <2>1, <2>2
  <2>4. Holds(s, at0, x \o y)
    BY <1>5, <2>3
  <2>5. Holds(s, at0, x) /\ Holds(s, at0 + Len(x), y)
    BY <2>3, <2>4, HoldsConcat
  <2>6. Len(x \o y) = Len(x) + Len(y)
    BY <2>3, ConcatProperties
  <2> QED
    BY <2>2, <2>3, <2>5, <2>6
<1> DEFINE Good == {m \in Nat : m <= n => Holds(s, at0, t[n - m])}
<1>6. 0 \in Good
  <2>1. n - 0 = n
    BY <1>2
  <2> QED
    BY <1>3, <2>1
<1>7. ASSUME NEW m \in Nat, m \in Good PROVE m + 1 \in Good
  <2> SUFFICES ASSUME m + 1 <= n PROVE Holds(s, at0, t[n - (m + 1)])
    OBVIOUS
  <2>1. PICK i : i = n - m
    OBVIOUS
  <2>2. i \in 1 .. n /\ n - (m + 1) = i - 1 /\ m <= n
    BY <1>2, <2>1
  <2>3. Holds(s, at0, t[i])
    BY <1>7, <2>1, <2>2
  <2>4. Holds(s, at0, t[i - 1])
    BY <1>5, <2>2, <2>3
  <2> QED
    BY <2>2, <2>4
<1>8. \A i \in 0 .. n : Holds(s, at0, t[i])
  <2>1. Nat \subseteq Good
    <3> HIDE DEF Good
    <3> QED
      BY <1>6, <1>7, Induction
  <2> TAKE i \in 0 .. n
  <2>2. PICK m : m = n - i
    OBVIOUS
  <2>3. m \in Nat /\ m <= n /\ n - m = i
    BY <1>2, <2>2
  <2> QED
    BY <2>1, <2>3
<1> DEFINE a == [i \in 0 .. n |-> at0 + Len(t[i])]
<1>9. \A i \in 0 .. n : Len(t[i]) \in Nat
  BY <1>3, LenProperties
<1>10. a \in [0 .. n -> Nat]
  BY <1>9
<1>11. a[0] = at0 /\ a[n] = at0 + Len(FlattenSeq(ss))
  <2>1. 0 \in 0 .. n /\ n \in 0 .. n /\ Len(<<>>) = 0
    BY <1>2, EmptySeq
  <2>2. a[0] = at0 + Len(t[0]) /\ a[n] = at0 + Len(t[n])
    BY <2>1
  <2> HIDE DEF a
  <2>3. Len(t[0]) = 0 /\ Len(t[n]) = Len(FlattenSeq(ss))
    BY <1>3, <1>4, <2>1, Zenon
  <2>4. a[0] = at0
    BY ONLY <2>2, <2>3, at0 \in Nat
  <2> QED
    BY <2>2, <2>3, <2>4, Zenon
<1>12. ASSUME NEW i \in 1 .. n
       PROVE  Holds(s, a[i - 1], ss[i]) /\ a[i] = a[i - 1] + Len(ss[i])
  <2>1. i \in 0 .. n /\ i - 1 \in 0 .. n
    BY <1>2
  <2>2. a[i] = at0 + Len(t[i]) /\ a[i - 1] = at0 + Len(t[i - 1])
    BY <2>1
  <2>3. PICK u, v, w : u = Len(t[i - 1]) /\ v = Len(t[i]) /\ w = Len(ss[i])
    OBVIOUS
  <2>4. u \in Nat /\ w \in Nat /\ v = u + w /\ Holds(s, at0 + u, ss[i])
    BY <1>2, <1>5, <1>8, <1>9, <2>1, <2>3, LenProperties
  <2> HIDE DEF a
  <2>5. a[i - 1] = at0 + u /\ a[i] = at0 + v
    BY <2>2, <2>3, Zenon
  <2>6. at0 + v = (at0 + u) + w
    BY ONLY <2>4, at0 \in Nat
  <2> QED
    BY <2>3, <2>4, <2>5, <2>6, Zenon
<1> HIDE DEF a
<1> QED
  BY <1>1, <1>10, <1>11, <1>12 DEF Along

\* The payload s of the plan p: its streams are parted at a, its chunks at b.
Laid(p, s, a, b) ==
    /\ a \in [0 .. Len(p.streams) -> Nat] /\ b \in [0 .. Len(p.chunks) -> Nat]
    /\ Holds(s, 0, PutVarint(p.len))
    /\ Holds(s, Len(PutVarint(p.len)), <<p.codec>>)
    /\ Holds(s, Len(PutVarint(p.len)) + 1, PutVarint(Len(p.streams)))
    /\ a[0] = Len(PutVarint(p.len)) + 1 + Len(PutVarint(Len(p.streams)))
    /\ Along(s, a, StreamPieces(p))
    /\ Holds(s, a[Len(p.streams)], PutVarint(Len(p.chunks)))
    /\ b[0] = a[Len(p.streams)] + Len(PutVarint(Len(p.chunks)))
    /\ Along(s, b, ChunkPieces(p))
    /\ Holds(s, b[Len(p.chunks)], Closing(p))
    /\ b[Len(p.chunks)] + Len(Closing(p)) = Len(s)

\* Every payload is laid out like that.
LEMMA PayloadLaid ==
    ASSUME NEW p, WritesPlan(p)
    PROVE  \E a, b : Laid(p, EncodePayload(p), a, b)
<1>1. PICK s, w, x, y, z, e :
        /\ s = EncodePayload(p) /\ w = Opening(p, Len(p.streams))
        /\ x = FlattenSeq(StreamPieces(p)) /\ y = PutVarint(Len(p.chunks))
        /\ z = FlattenSeq(ChunkPieces(p)) /\ e = Closing(p)
  OBVIOUS
<1>2. /\ w \in Seq(Byte) /\ x \in Seq(Byte) /\ y \in Seq(Byte) /\ z \in Seq(Byte)
      /\ e \in Seq(Byte) /\ s \in Seq(Byte)
      /\ Len(s) = Len(w) + Len(x) + Len(y) + Len(z) + Len(e)
  BY <1>1, PayloadWritten
<1>3. s = (((w \o x) \o y) \o z) \o e
  BY <1>1, PayloadParts
<1>4. PICK i, j, k, l, m : /\ i = Len(w) /\ j = Len(x) /\ k = Len(y) /\ l = Len(z)
                           /\ m = Len(e)
  OBVIOUS
<1>5. i \in Nat /\ j \in Nat /\ k \in Nat /\ l \in Nat /\ m \in Nat
  BY <1>2, <1>4, LenProperties
<1>6. /\ w \o x \in Seq(Byte) /\ Len(w \o x) = i + j
      /\ (w \o x) \o y \in Seq(Byte) /\ Len((w \o x) \o y) = i + j + k
      /\ ((w \o x) \o y) \o z \in Seq(Byte) /\ Len(((w \o x) \o y) \o z) = i + j + k + l
  <2>1. w \o x \in Seq(Byte) /\ Len(w \o x) = i + j
    BY <1>2, <1>4, ConcatProperties
  <2>2. (w \o x) \o y \in Seq(Byte) /\ Len((w \o x) \o y) = i + j + k
    BY <1>2, <1>4, <2>1, ConcatProperties
  <2>3. /\ ((w \o x) \o y) \o z \in Seq(Byte) /\ Len(((w \o x) \o y) \o z) = i + j + k + l
    BY <1>2, <1>4, <2>2, ConcatProperties
  <2> QED
    BY <2>1, <2>2, <2>3
<1>7. /\ Holds(s, 0, w) /\ Holds(s, i, x) /\ Holds(s, i + j, y) /\ Holds(s, i + j + k, z)
      /\ Holds(s, i + j + k + l, e)
  <2>1. Holds(s, 0, (((w \o x) \o y) \o z) \o e)
    BY <1>2, <1>3, HoldsItself
  <2>2. Holds(s, 0, ((w \o x) \o y) \o z) /\ Holds(s, 0 + (i + j + k + l), e)
    BY <1>2, <1>6, <2>1, HoldsConcat
  <2>3. Holds(s, 0, (w \o x) \o y) /\ Holds(s, 0 + (i + j + k), z)
    BY <1>2, <1>6, <2>2, HoldsConcat
  <2>4. Holds(s, 0, w \o x) /\ Holds(s, 0 + (i + j), y)
    BY <1>2, <1>6, <2>3, HoldsConcat
  <2>5. Holds(s, 0, w) /\ Holds(s, 0 + i, x)
    BY <1>2, <1>4, <2>4, HoldsConcat
  <2>6. 0 + i = i /\ 0 + (i + j) = i + j /\ 0 + (i + j + k) = i + j + k
        /\ 0 + (i + j + k + l) = i + j + k + l
    BY <1>5
  <2> QED
    BY <2>2, <2>3, <2>4, <2>5, <2>6
<1>8. /\ p.len \in Nat /\ p.len < Words /\ p.codec \in Byte
      /\ Len(p.streams) \in Nat /\ Len(p.streams) < Words
      /\ StreamPieces(p) \in Seq(Seq(Byte)) /\ Len(StreamPieces(p)) = Len(p.streams)
      /\ ChunkPieces(p) \in Seq(Seq(Byte)) /\ Len(ChunkPieces(p)) = Len(p.chunks)
  <2>1. /\ p \in Plan /\ p.len < Words /\ Len(p.streams) < Words
        /\ \A n \in DOMAIN p.streams : WritesStream(p.streams[n])
        /\ \A n \in DOMAIN p.chunks : WritesChunk(p.chunks[n])
    BY DEF WritesPlan
  <2>2. p.codec \in Byte
    BY <2>1, PlanParts, SmallBytes DEF Codecs
  <2> QED
    BY <2>1, <2>2, PlanParts, StreamsWritten, ChunksWritten
<1>9. PICK u, v, f, g : /\ u = PutVarint(p.len) /\ v = PutVarint(Len(p.streams))
                        /\ f = Len(u) /\ g = Len(v)
  OBVIOUS
<1>10. /\ u \in Seq(Byte) /\ v \in Seq(Byte) /\ <<p.codec>> \in Seq(Byte)
       /\ Len(<<p.codec>>) = 1 /\ f \in Nat /\ g \in Nat
  BY <1>8, <1>9, WrittenVarint, OneByte, LenProperties
<1>11. /\ w = (u \o <<p.codec>>) \o v /\ i = f + 1 + g
       /\ u \o <<p.codec>> \in Seq(Byte) /\ Len(u \o <<p.codec>>) = f + 1
  <2>1. u \o <<p.codec>> \in Seq(Byte) /\ Len(u \o <<p.codec>>) = f + 1
    BY <1>9, <1>10, ConcatProperties
  <2>2. w = (u \o <<p.codec>>) \o v
    BY <1>1, <1>9 DEF Opening
  <2>3. i = f + 1 + g
    BY <1>4, <1>9, <1>10, <2>1, <2>2, ConcatProperties
  <2> QED
    BY <2>1, <2>2, <2>3
<1>12. Holds(s, 0, u) /\ Holds(s, f, <<p.codec>>) /\ Holds(s, f + 1, v)
  <2>1. Holds(s, 0, u \o <<p.codec>>) /\ Holds(s, 0 + (f + 1), v)
    BY <1>2, <1>7, <1>10, <1>11, HoldsConcat
  <2>2. Holds(s, 0, u) /\ Holds(s, 0 + f, <<p.codec>>)
    BY <1>2, <1>9, <1>10, <2>1, HoldsConcat
  <2>3. 0 + f = f /\ 0 + (f + 1) = f + 1
    BY <1>10
  <2> QED
    BY <2>1, <2>2, <2>3
<1>13. PICK a \in [0 .. Len(p.streams) -> Nat] :
         a[0] = i /\ a[Len(p.streams)] = i + j /\ Along(s, a, StreamPieces(p))
  <2>1. PICK ss : ss = StreamPieces(p)
    OBVIOUS
  <2>2. /\ ss \in Seq(Seq(Byte)) /\ Len(ss) = Len(p.streams) /\ Holds(s, i, FlattenSeq(ss))
        /\ Len(FlattenSeq(ss)) = j
    BY <1>1, <1>4, <1>7, <1>8, <2>1
  <2>3. \E a \in [0 .. Len(ss) -> Nat] :
           a[0] = i /\ a[Len(ss)] = i + Len(FlattenSeq(ss)) /\ Along(s, a, ss)
    BY <1>2, <1>5, <2>2, FlattenStands
  <2> QED
    BY <2>1, <2>2, <2>3
<1>14. PICK b \in [0 .. Len(p.chunks) -> Nat] :
         /\ b[0] = i + j + k /\ b[Len(p.chunks)] = i + j + k + l
         /\ Along(s, b, ChunkPieces(p))
  <2>1. PICK ss, n : ss = ChunkPieces(p) /\ n = i + j + k
    OBVIOUS
  <2>2. /\ ss \in Seq(Seq(Byte)) /\ Len(ss) = Len(p.chunks) /\ Holds(s, n, FlattenSeq(ss))
        /\ Len(FlattenSeq(ss)) = l /\ n \in Nat
    BY <1>1, <1>4, <1>5, <1>7, <1>8, <2>1
  <2>3. \E b \in [0 .. Len(ss) -> Nat] :
           b[0] = n /\ b[Len(ss)] = n + Len(FlattenSeq(ss)) /\ Along(s, b, ss)
    BY <1>2, <2>2, FlattenStands
  <2> QED
    BY <2>1, <2>2, <2>3
<1>15. /\ Holds(s, 0, PutVarint(p.len)) /\ Holds(s, Len(PutVarint(p.len)), <<p.codec>>)
       /\ Holds(s, Len(PutVarint(p.len)) + 1, PutVarint(Len(p.streams)))
       /\ a[0] = Len(PutVarint(p.len)) + 1 + Len(PutVarint(Len(p.streams)))
  BY <1>9, <1>11, <1>12, <1>13
<1>16. /\ Holds(s, a[Len(p.streams)], PutVarint(Len(p.chunks)))
       /\ b[0] = a[Len(p.streams)] + Len(PutVarint(Len(p.chunks)))
  BY <1>1, <1>4, <1>7, <1>13, <1>14
<1>17. Holds(s, b[Len(p.chunks)], Closing(p)) /\ b[Len(p.chunks)] + Len(Closing(p)) = Len(s)
  BY <1>1, <1>2, <1>4, <1>7, <1>14
<1> QED
  BY <1>1, <1>13, <1>14, <1>15, <1>16, <1>17 DEF Laid

-----------------------------------------------------------------------------
(* What is read where something has been written *)

\* A stream.
LEMMA StreamThere ==
    ASSUME NEW s \in Seq(Byte), NEW from \in Nat, NEW x \in PlanStream, WritesStream(x),
           Holds(s, from, PutStream(x)),
           NEW tag, tag = ReadByte(s, from),
           NEW id, id = IF tag.val = 1 THEN ReadByte(s, tag.at) ELSE ReadVarint(s, tag.at),
           NEW print, print = ReadByte(s, id.at)
    PROVE  /\ tag.ok /\ tag.val \in 1 .. 4 /\ id.ok /\ print.ok
           /\ [id |-> <<tag.val, id.val>>, fingerprint |-> print.val] = x
           /\ print.at = from + Len(PutStream(x))
<1>1. PICK k, n, f : k = x.id[1] /\ n = x.id[2] /\ f = x.fingerprint
  OBVIOUS
<1>2. /\ x = [id |-> <<k, n>>, fingerprint |-> f] /\ x.id = <<k, n>>
      /\ n \in Nat /\ k \in Byte /\ k \in 1 .. 4 /\ f \in Byte
      /\ IF k = 1 THEN n \in Byte ELSE n < Words
  BY <1>1 DEF PlanStream, WritesStream
<1>3. PICK l, v : /\ l = Len(PutStream(x)) /\ v = IF k = 1 THEN <<n>> ELSE PutVarint(n)
  OBVIOUS
<1>4. v \in Seq(Byte) /\ Len(v) \in Nat
  BY <1>2, <1>3, WrittenVarint, OneByte, LenProperties
<1>5. /\ <<k>> \in Seq(Byte) /\ Len(<<k>>) = 1 /\ <<f>> \in Seq(Byte) /\ Len(<<f>>) = 1
      /\ <<k>> \o v \in Seq(Byte) /\ Len(<<k>> \o v) = 1 + Len(v)
  BY <1>2, <1>4, OneByte, ConcatProperties
<1>6. PutStream(x) = (<<k>> \o v) \o <<f>>
  <2>1. CASE k = 1
    <3>1. PICK y, z : y = <<k>> /\ z = <<n>>
      OBVIOUS
    <3>2. y \in Seq(Byte) /\ z \in Seq(Byte) /\ Len(y) = 1 /\ Len(z) = 1 /\ y[1] = k /\ z[1] = n
      BY <1>2, <2>1, <3>1
    <3>3. y \o z \in Seq(Byte) /\ Len(y \o z) = 2 /\ (y \o z)[1] = k /\ (y \o z)[2] = n
      <4>1. PICK t : t = y \o z
        OBVIOUS
      <4>2. /\ t \in Seq(Byte) /\ Len(t) = Len(y) + Len(z)
            /\ \A i \in 1 .. Len(y) + Len(z) : t[i] = IF i <= Len(y) THEN y[i] ELSE z[i - Len(y)]
        BY <3>2, <4>1, ConcatProperties
      <4>3. Len(t) = 2 /\ t[1] = y[1] /\ t[2] = z[1]
        BY ONLY <3>2, <4>2
      <4> QED
        BY <3>2, <4>1, <4>2, <4>3
    <3>4. <<k, n>> \in Seq(Byte) /\ Len(<<k, n>>) = 2 /\ <<k, n>>[1] = k /\ <<k, n>>[2] = n
      BY <1>2, <2>1
    <3>5. y \o z = <<k, n>>
      <4>1. \A i \in 1 .. 2 : (y \o z)[i] = <<k, n>>[i]
        BY <3>3, <3>4
      <4> QED
        BY <3>3, <3>4, <4>1, SeqEqual
    <3> QED
      BY <1>1, <1>2, <1>3, <2>1, <3>1, <3>5 DEF PutStream
  <2>2. CASE k # 1
    BY <1>1, <1>2, <1>3, <2>2 DEF PutStream
  <2> QED
    BY <2>1, <2>2
<1>7. l = 2 + Len(v)
  BY <1>3, <1>4, <1>5, <1>6, ConcatProperties
<1>8. Holds(s, from, <<k>>) /\ Holds(s, from + 1, v) /\ Holds(s, from + (1 + Len(v)), <<f>>)
  <2>1. PICK q, r, z : q = <<k>> /\ r = q \o v /\ z = <<f>>
    OBVIOUS
  <2>2. /\ q \in Seq(Byte) /\ Len(q) = 1 /\ r \in Seq(Byte) /\ Len(r) = 1 + Len(v)
        /\ z \in Seq(Byte) /\ Holds(s, from, r \o z)
    BY <1>5, <1>6, <2>1, Zenon
  <2>3. Holds(s, from, r) /\ Holds(s, from + Len(r), z)
    BY <2>2, HoldsConcat, Zenon
  <2>4. Holds(s, from, q) /\ Holds(s, from + Len(q), v)
    BY <1>4, <2>1, <2>2, <2>3, HoldsConcat, Zenon
  <2> QED
    BY <2>1, <2>2, <2>3, <2>4, Zenon
<1>9. tag = Read(k, from + 1)
  BY <1>8, HoldsByte
<1>10. tag.ok /\ tag.val = k /\ tag.at = from + 1
  BY <1>9 DEF Read
<1>11. id = Read(n, from + 1 + Len(v))
  <2>1. CASE k = 1
    <3>1. v = <<n>> /\ Len(v) = 1 /\ from + 1 \in Nat
      BY <1>2, <1>3, <2>1, OneByte
    <3>2. ReadByte(s, from + 1) = Read(n, from + 1 + 1)
      BY <1>8, <3>1, HoldsByte
    <3> QED
      BY <1>10, <2>1, <3>1, <3>2
  <2>2. CASE k # 1
    <3>1. v = PutVarint(n) /\ n < Words /\ from + 1 \in Nat
      BY <1>2, <1>3, <2>2
    <3>2. ReadVarint(s, from + 1) = Read(n, from + 1 + Len(v))
      BY <1>2, <1>8, <3>1, SmallBytes, VarintRoundTrip
    <3> QED
      BY <1>10, <2>2, <3>2
  <2> QED
    BY <2>1, <2>2
<1>12. id.ok /\ id.val = n /\ id.at = from + (1 + Len(v)) /\ id.at \in Nat
  BY <1>4, <1>11 DEF Read
<1>13. print = Read(f, from + (1 + Len(v)) + 1)
  BY <1>8, <1>12, HoldsByte
<1>14. print.ok /\ print.val = f /\ print.at = from + l
  BY <1>4, <1>7, <1>13 DEF Read
<1> QED
  BY <1>2, <1>3, <1>10, <1>12, <1>14

\* A transform.
LEMMA TransformThere ==
    ASSUME payload \in Seq(Byte), NEW from \in Nat, NEW t \in Transform,
           Holds(payload, from, t)
    PROVE  ReadTransform(from) = Read(t, from + Len(t))
<1>1. Len(payload) \in Nat
  BY LenProperties
<1>2. CASE t \in {<<0>>, <<2>>}
  <2>1. PICK k \in {0, 2} : t = <<k>>
    BY <1>2
  <2>2. ReadByte(payload, from) = Read(k, from + 1) /\ Len(t) = 1
    BY <2>1, HoldsByte
  <2> QED
    BY <2>1, <2>2 DEF ReadTransform, Read
<1>3. CASE t \in {<<1, mask>> : mask \in Byte}
  <2>1. PICK mask \in Byte : t = <<1, mask>>
    BY <1>3
  <2>2. Len(t) = 2 /\ t[1] = 1 /\ t[2] = mask
    BY <2>1
  <2>3. from + 2 <= Len(payload) /\ payload[from + 1] = 1 /\ payload[from + 2] = mask
    BY <1>1, <2>2 DEF Holds
  <2>4. ReadByte(payload, from) = Read(1, from + 1)
    BY <1>1, <2>3 DEF ReadByte
  <2>5. ReadByte(payload, from + 1) = Read(mask, from + 2)
    <3>1. from + 1 + 1 = from + 2 /\ from + 1 < Len(payload)
      BY <1>1, <2>3
    <3> QED
      BY <2>3, <3>1 DEF ReadByte
  <2>6. PICK tag, mark : tag = ReadByte(payload, from) /\ mark = ReadByte(payload, tag.at)
    OBVIOUS
  <2>7. /\ tag.ok /\ tag.val = 1 /\ mark = Read(mask, from + 2)
        /\ mark.ok /\ mark.val = mask /\ mark.at = from + 2
    BY <2>4, <2>5, <2>6 DEF Read
  <2>8. ReadTransform(from)
          = IF ~tag.ok THEN Unread
            ELSE IF tag.val \in {0, 2} THEN Read(<<tag.val>>, tag.at)
            ELSE IF tag.val = 1 /\ mark.ok THEN Read(<<1, mark.val>>, mark.at)
            ELSE Unread
    BY <2>6 DEF ReadTransform
  <2>9. ReadTransform(from) = Read(<<1, mask>>, from + 2)
    BY <2>7, <2>8
  <2> QED
    BY <2>1, <2>2, <2>9
<1> QED
  BY <1>2, <1>3 DEF Transform

\* A located chunk, if decode allows it.
LEMMA LocatedThere ==
    ASSUME payload \in Seq(Byte), NEW from \in Nat, NEW c \in Located, WritesChunk(c),
           NEW u, u = PutVarint(c.stream), NEW v, v = PutVarint(c.offset),
           NEW w, w = PutVarint(c.len),
           Holds(payload, from, u), Holds(payload, from + Len(u), v),
           Holds(payload, from + Len(u) + Len(v), w),
           Holds(payload, from + Len(u) + Len(v) + Len(w), c.transform),
           NEW n, n = Len(plan.streams)
    PROVE  ReadLocated(from)
             = IF SoundChunk(c, n)
               THEN Read(c, from + Len(u) + Len(v) + Len(w) + Len(c.transform)) ELSE Unread
<1>1. /\ IsLocated(c) /\ c.stream \in Nat /\ c.offset \in Nat /\ c.len \in Nat
      /\ c.transform \in Transform
      /\ c.stream < Words /\ c.offset < Words /\ c.len < Words
      /\ c = [stream |-> c.stream, offset |-> c.offset, len |-> c.len,
              transform |-> c.transform]
  BY DEF IsLocated, Located, WritesChunk
<1>2. PICK i, j, k, l : i = Len(u) /\ j = Len(v) /\ k = Len(w) /\ l = Len(c.transform)
  OBVIOUS
<1>3. i \in Nat /\ j \in Nat /\ k \in Nat /\ l \in Nat
  BY <1>1, <1>2, WrittenVarint, TransformWritten, LenProperties
<1>4. PICK a, b, d, e : /\ a = from + i /\ b = from + i + j /\ d = from + i + j + k
                        /\ e = from + i + j + k + l
  OBVIOUS
<1>5. /\ a \in Nat /\ b \in Nat /\ d \in Nat /\ e \in Nat
      /\ b = a + j /\ d = b + k /\ e = d + l
  BY <1>3, <1>4
<1>6. /\ Holds(payload, a, v) /\ Holds(payload, b, w) /\ Holds(payload, d, c.transform)
  BY <1>2, <1>4
<1>7. ReadVarint(payload, from) = Read(c.stream, a)
  BY <1>1, <1>2, <1>4, SmallBytes, VarintRoundTrip
<1>8. ReadVarint(payload, a) = Read(c.offset, b)
  <2>1. c.offset \in Nat /\ c.offset < Words /\ a \in Nat /\ Holds(payload, a, PutVarint(c.offset))
    BY <1>1, <1>5, <1>6
  <2>2. ReadVarint(payload, a) = Read(c.offset, a + Len(PutVarint(c.offset)))
    BY ONLY <2>1, payload \in Seq(Byte), SmallBytes, VarintRoundTrip
  <2> QED
    BY <1>2, <1>5, <2>2
<1>9. ReadVarint(payload, b) = Read(c.len, d)
  <2>1. c.len \in Nat /\ c.len < Words /\ b \in Nat /\ Holds(payload, b, PutVarint(c.len))
    BY <1>1, <1>5, <1>6
  <2>2. ReadVarint(payload, b) = Read(c.len, b + Len(PutVarint(c.len)))
    BY ONLY <2>1, payload \in Seq(Byte), SmallBytes, VarintRoundTrip
  <2> QED
    BY <1>2, <1>5, <2>2
<1>10. ReadTransform(d) = Read(c.transform, e)
  BY <1>1, <1>2, <1>5, <1>6, TransformThere
<1>11. SoundChunk(c, n) <=> /\ c.stream < n /\ c.offset <= MaxOffset
                            /\ LenOk(c.len) /\ c.offset + c.len < Words
  BY <1>1 DEF SoundChunk, ChunkLen, LenOk
<1>12. ReadLocated(from)
         = IF /\ c.stream < n /\ c.offset <= MaxOffset
              /\ LenOk(c.len) /\ c.offset + c.len < Words
           THEN Read(c, e) ELSE Unread
  <2>1. PICK stream, offset, len, transform :
          /\ stream = ReadVarint(payload, from)
          /\ offset = ReadVarint(payload, stream.at)
          /\ len = ReadVarint(payload, offset.at)
          /\ transform = ReadTransform(len.at)
    OBVIOUS
  <2>2. stream.ok /\ stream.val = c.stream /\ stream.at = a
    BY <1>7, <2>1 DEF Read
  <2>3. offset.ok /\ offset.val = c.offset /\ offset.at = b
    BY <1>8, <2>1, <2>2 DEF Read
  <2>4. len.ok /\ len.val = c.len /\ len.at = d
    BY <1>9, <2>1, <2>3 DEF Read
  <2>5. transform.ok /\ transform.val = c.transform /\ transform.at = e
    BY <1>10, <2>1, <2>4 DEF Read
  <2>6. ReadLocated(from)
         = IF /\ stream.ok /\ stream.val < n
              /\ offset.ok /\ offset.val <= MaxOffset
              /\ len.ok /\ LenOk(len.val)
              /\ offset.val + len.val < Words
              /\ transform.ok
           THEN Read([stream |-> stream.val, offset |-> offset.val, len |-> len.val,
                      transform |-> transform.val], transform.at)
           ELSE Unread
    BY <2>1 DEF ReadLocated
  <2> QED
    BY <1>1, <2>2, <2>3, <2>4, <2>5, <2>6
<1> QED
  BY <1>2, <1>4, <1>11, <1>12

\* A literal one, if decode allows it.
LEMMA LiteralThere ==
    ASSUME payload \in Seq(Byte), NEW from \in Nat, NEW c \in Literal, WritesChunk(c),
           NEW u, u = PutVarint(Len(c.literal)), Holds(payload, from, u),
           Holds(payload, from + Len(u), c.literal), NEW n
    PROVE  ReadLiteral(from)
             = IF SoundChunk(c, n) THEN Read(c, from + Len(u) + Len(c.literal)) ELSE Unread
<1>1. PICK x, k : x = c.literal /\ k = Len(x)
  OBVIOUS
<1>2. ~IsLocated(c) /\ x \in Seq(Byte) /\ c = [literal |-> x] /\ k \in Nat /\ k < Words
  <2>1. ~IsLocated(c) /\ x \in Seq(Byte) /\ c = [literal |-> x]
    BY <1>1 DEF IsLocated, Literal
  <2> QED
    BY <1>1, <2>1, LenProperties DEF WritesChunk
<1>3. PICK i, a : i = Len(u) /\ a = from + i
  OBVIOUS
<1>4. i \in Nat /\ a \in Nat
  BY <1>1, <1>2, <1>3, WrittenVarint, LenProperties
<1>5. ReadVarint(payload, from) = Read(k, a)
  BY <1>1, <1>2, <1>3, SmallBytes, VarintRoundTrip
<1>6. ReadExact(payload, a, k) = Read(x, a + k)
  <2>1. Holds(payload, a, x)
    BY <1>1, <1>3
  <2>2. ReadExact(payload, a, Len(x)) = Read(x, a + Len(x))
    BY <1>2, <1>4, <2>1, HoldsExact
  <2> QED
    BY <1>1, <2>2
<1>7. SoundChunk(c, n) <=> LenOk(k)
  BY <1>1, <1>2 DEF SoundChunk, ChunkLen, LenOk
<1>8. ReadLiteral(from) = IF LenOk(k) THEN Read(c, a + k) ELSE Unread
  <2>1. PICK len, bytes : /\ len = ReadVarint(payload, from)
                          /\ bytes = ReadExact(payload, len.at, len.val)
    OBVIOUS
  <2>2. len.ok /\ len.val = k /\ len.at = a
    BY <1>5, <2>1 DEF Read
  <2>3. bytes.ok /\ bytes.val = x /\ bytes.at = a + k
    BY <1>6, <2>1, <2>2 DEF Read
  <2>4. ReadLiteral(from) = IF len.ok /\ LenOk(len.val) /\ bytes.ok
                            THEN Read([literal |-> bytes.val], bytes.at) ELSE Unread
    BY <2>1 DEF ReadLiteral
  <2> QED
    BY <1>2, <2>2, <2>3, <2>4
<1> QED
  BY <1>1, <1>3, <1>7, <1>8

\* A chunk, if decode allows it.
LEMMA ChunkThere ==
    ASSUME payload \in Seq(Byte), NEW from \in Nat, NEW c \in Located \union Literal,
           WritesChunk(c), Holds(payload, from, PutChunk(c)),
           NEW kind, kind = ReadByte(payload, from),
           NEW chunk, chunk = IF kind.val = 0 THEN ReadLocated(kind.at)
                              ELSE ReadLiteral(kind.at),
           NEW n, n = Len(plan.streams)
    PROVE  /\ kind.ok /\ kind.val \in {0, 1}
           /\ chunk = IF SoundChunk(c, n) THEN Read(c, from + Len(PutChunk(c))) ELSE Unread
<1>1. PICK l : l = Len(PutChunk(c))
  OBVIOUS
<1>2. CASE IsLocated(c)
  <2>1. c \in Located
    BY <1>2 DEF IsLocated, Literal
  <2>2. c.stream \in Nat /\ c.offset \in Nat /\ c.len \in Nat /\ c.transform \in Transform
        /\ c.stream < Words /\ c.offset < Words /\ c.len < Words
    BY <1>2, <2>1 DEF Located, WritesChunk
  <2>3. PICK u, v, w, t : /\ u = PutVarint(c.stream) /\ v = PutVarint(c.offset)
                          /\ w = PutVarint(c.len) /\ t = c.transform
    OBVIOUS
  <2>4. /\ u \in Seq(Byte) /\ v \in Seq(Byte) /\ w \in Seq(Byte) /\ t \in Seq(Byte)
        /\ Len(u) \in Nat /\ Len(v) \in Nat /\ Len(w) \in Nat /\ Len(t) \in Nat
    BY <2>2, <2>3, WrittenVarint, TransformWritten, LenProperties
  <2>5. PutChunk(c) = (((<<0>> \o u) \o v) \o w) \o t
    BY <1>2, <2>3 DEF PutChunk
  <2>6. <<0>> \in Seq(Byte) /\ Len(<<0>>) = 1
    BY SmallBytes, OneByte
  <2>7. /\ <<0>> \o u \in Seq(Byte) /\ Len(<<0>> \o u) = 1 + Len(u)
    BY <2>4, <2>6, ConcatProperties
  <2>8. (<<0>> \o u) \o v \in Seq(Byte) /\ Len((<<0>> \o u) \o v) = 1 + Len(u) + Len(v)
    BY <2>4, <2>7, ConcatProperties
  <2>9. /\ ((<<0>> \o u) \o v) \o w \in Seq(Byte)
        /\ Len(((<<0>> \o u) \o v) \o w) = 1 + Len(u) + Len(v) + Len(w)
    BY <2>4, <2>8, ConcatProperties
  <2>10. l = 1 + Len(u) + Len(v) + Len(w) + Len(t)
    BY <1>1, <2>4, <2>5, <2>9, ConcatProperties
  <2>11. /\ Holds(payload, from, ((<<0>> \o u) \o v) \o w)
         /\ Holds(payload, from + (1 + Len(u) + Len(v) + Len(w)), t)
    BY <2>4, <2>5, <2>9, HoldsConcat
  <2>12. /\ Holds(payload, from, (<<0>> \o u) \o v)
         /\ Holds(payload, from + (1 + Len(u) + Len(v)), w)
    BY <2>4, <2>8, <2>11, HoldsConcat
  <2>13. Holds(payload, from, <<0>> \o u) /\ Holds(payload, from + (1 + Len(u)), v)
    BY <2>4, <2>7, <2>12, HoldsConcat
  <2>14. Holds(payload, from, <<0>>) /\ Holds(payload, from + 1, u)
    BY <2>4, <2>6, <2>13, HoldsConcat
  <2>15. kind = Read(0, from + 1)
    BY <2>14, HoldsByte
  <2>16. PICK a, i, j, k, m : /\ a = from + 1 /\ i = Len(u) /\ j = Len(v) /\ k = Len(w)
                              /\ m = Len(t)
    OBVIOUS
  <2>17. /\ a \in Nat /\ from + (1 + i) = a + i /\ from + (1 + i + j) = a + i + j
         /\ from + (1 + i + j + k) = a + i + j + k
         /\ from + (1 + i + j + k + m) = a + i + j + k + m
    <3>1. i \in Nat /\ j \in Nat /\ k \in Nat /\ m \in Nat
      BY <2>4, <2>16
    <3> QED
      BY ONLY <2>16, <3>1, from \in Nat
  <2>18. /\ Holds(payload, a, u) /\ Holds(payload, a + i, v)
         /\ Holds(payload, a + i + j, w) /\ Holds(payload, a + i + j + k, t)
    BY <2>11, <2>12, <2>13, <2>14, <2>16, <2>17
  <2>19. ReadLocated(a) = IF SoundChunk(c, n) THEN Read(c, a + i + j + k + m) ELSE Unread
    <3>1. ReadLocated(a)
            = IF SoundChunk(c, n)
              THEN Read(c, a + Len(u) + Len(v) + Len(w) + Len(c.transform)) ELSE Unread
      <4>1. /\ Holds(payload, a + Len(u), v) /\ Holds(payload, a + Len(u) + Len(v), w)
            /\ Holds(payload, a + Len(u) + Len(v) + Len(w), c.transform)
            /\ Holds(payload, a, u) /\ a \in Nat
        BY <2>3, <2>16, <2>17, <2>18
      <4> QED
        BY <2>1, <2>3, <4>1, LocatedThere, Zenon
    <3> QED
      BY <2>3, <2>16, <3>1
  <2>20. from + l = a + i + j + k + m
    BY <2>10, <2>16, <2>17
  <2>21. chunk = ReadLocated(a) /\ kind.ok /\ kind.val = 0
    BY <2>15, <2>16 DEF Read
  <2> QED
    BY <1>1, <2>19, <2>20, <2>21
<1>3. CASE ~IsLocated(c)
  <2>1. c \in Literal
    BY <1>3 DEF IsLocated, Located
  <2>2. c.literal \in Seq(Byte) /\ Len(c.literal) \in Nat /\ Len(c.literal) < Words
    BY <1>3, <2>1, LenProperties DEF Literal, WritesChunk
  <2>3. PICK u, v : u = PutVarint(Len(c.literal)) /\ v = c.literal
    OBVIOUS
  <2>4. u \in Seq(Byte) /\ v \in Seq(Byte) /\ Len(u) \in Nat /\ Len(v) \in Nat
    BY <2>2, <2>3, WrittenVarint, LenProperties
  <2>5. PutChunk(c) = (<<1>> \o u) \o v
    BY <1>3, <2>3 DEF PutChunk
  <2>6. <<1>> \in Seq(Byte) /\ Len(<<1>>) = 1
    BY SmallBytes, OneByte
  <2>7. <<1>> \o u \in Seq(Byte) /\ Len(<<1>> \o u) = 1 + Len(u)
    BY <2>4, <2>6, ConcatProperties
  <2>8. l = 1 + Len(u) + Len(v)
    BY <1>1, <2>4, <2>5, <2>7, ConcatProperties
  <2>9. Holds(payload, from, <<1>> \o u) /\ Holds(payload, from + (1 + Len(u)), v)
    BY <2>4, <2>5, <2>7, HoldsConcat
  <2>10. Holds(payload, from, <<1>>) /\ Holds(payload, from + 1, u)
    BY <2>4, <2>6, <2>9, HoldsConcat
  <2>11. kind = Read(1, from + 1)
    BY <2>10, HoldsByte
  <2>12. PICK a, i, j : a = from + 1 /\ i = Len(u) /\ j = Len(v)
    OBVIOUS
  <2>13. a \in Nat /\ from + (1 + i) = a + i /\ from + (1 + i + j) = a + i + j
    <3>1. i \in Nat /\ j \in Nat
      BY <2>4, <2>12
    <3> QED
      BY ONLY <2>12, <3>1, from \in Nat
  <2>14. Holds(payload, a, u) /\ Holds(payload, a + i, v)
    BY <2>9, <2>10, <2>12, <2>13
  <2>15. ReadLiteral(a) = IF SoundChunk(c, n) THEN Read(c, a + i + j) ELSE Unread
    BY <2>1, <2>3, <2>12, <2>13, <2>14, LiteralThere
  <2>16. from + l = a + i + j
    BY <2>8, <2>12, <2>13
  <2>17. chunk = ReadLiteral(a) /\ kind.ok /\ kind.val = 1
    BY <2>11, <2>12 DEF Read
  <2> QED
    BY <1>1, <2>15, <2>16, <2>17
<1> QED
  BY <1>2, <1>3

\* A frame: it is refused if it is too long for a plan, and only then.
LEMMA FrameThere ==
    ASSUME FormatInv, NEW kind \in {KindRaw, KindPlan}, NEW hashKind \in HashKinds,
           NEW b \in Seq(Byte), Len(b) < Words, NEW hash \in Nat,
           input = Frame(kind, hashKind, b, hash), ReadFrame,
           ~(kind = KindPlan /\ Len(b) > MaxEncodedPlanLen)
    PROVE  /\ payload' = b /\ plan' = [plan EXCEPT !.hashKind = hashKind, !.hash = hash]
           /\ stage' = IF kind = KindRaw THEN "raw" ELSE "header"
           /\ UNCHANGED <<input, at, left, out>>
<1>1. PICK n, l, len : n = Len(b) /\ l = Len(PutVarint(n)) /\ len = ReadVarint(input, 4)
  OBVIOUS
<1>2. n \in Nat /\ kind \in Nat /\ hashKind \in Nat /\ MaxEncodedPlanLen \in Nat
  BY <1>1, LenProperties, Limits DEF KindRaw, KindPlan, HashKinds
<1>3. Framed(kind, hashKind, b, hash, l, input)
  BY <1>1, <1>2, FrameParts
<1>4. /\ input \in Seq(Nat) /\ l \in Nat \ {0} /\ Len(input) = 4 + l + n + 2
      /\ input[1] = Magic /\ input[2] = Version /\ input[3] = kind /\ input[4] = hashKind
      /\ Holds(input, 4 + l, b)
      /\ input[Len(input) - 1] = hash /\ Crc(Front(input)) = Last(input)
      /\ len = Read(n, 4 + l)
  BY <1>1, <1>3 DEF Framed
<1>5. len.ok /\ len.val = n /\ len.at = 4 + l
  BY <1>4 DEF Read
<1>6. FrameOk
  <2>1. Len(input) >= 4 /\ len.at + len.val + 2 = Len(input)
    <3>1. PICK x, y, z : x = len.at /\ y = len.val /\ z = Len(input)
      OBVIOUS
    <3>2. x = 4 + l /\ y = n /\ z = 4 + l + n + 2 /\ l \in Nat /\ n \in Nat
      BY <1>2, <1>4, <1>5, <3>1
    <3>3. z >= 4 /\ x + y + 2 = z
      BY ONLY <3>2
    <3> QED
      BY <3>1, <3>3
  <2>2. input[3] = KindPlan => len.val <= MaxEncodedPlanLen
    BY <1>1, <1>2, <1>4, <1>5
  <2>3. input[3] \in {KindRaw, KindPlan} /\ input[4] \in HashKinds
    BY <1>4
  <2> QED
    BY <1>1, <1>4, <1>5, <2>1, <2>2, <2>3 DEF FrameOk, SumOk
<1>7. /\ payload' = SubSeq(input, len.at + 1, len.at + len.val)
      /\ plan' = [plan EXCEPT !.hashKind = input[4], !.hash = input[Len(input) - 1]]
      /\ stage' = IF input[3] = KindRaw THEN "raw" ELSE "header"
      /\ UNCHANGED <<input, at, left, out>>
  BY <1>1, <1>6 DEF ReadFrame
<1>8. SubSeq(input, (4 + l) + 1, (4 + l) + n) = b
  <2>1. 4 + l \in Nat
    BY <1>4
  <2>2. SubSeq(input, (4 + l) + 1, (4 + l) + Len(b)) = b
    BY <1>4, <2>1, HeldIs
  <2> QED
    BY <1>1, <2>2
<1> QED
  BY <1>4, <1>5, <1>7, <1>8

-----------------------------------------------------------------------------
(* A plan is read back as it was written *)

\* The sequence x is a prefix of y.
Begins(x, y) == Len(x) <= Len(y) /\ \A i \in 1 .. Len(x) : x[i] = y[i]

\* It stays one when the next element is added.
LEMMA BeginsMore ==
    ASSUME NEW S, NEW x \in Seq(S), NEW y \in Seq(S), Begins(x, y), Len(x) < Len(y)
    PROVE  /\ Len(x) + 1 \in 1 .. Len(y) /\ y[Len(x) + 1] \in S
           /\ Begins(Append(x, y[Len(x) + 1]), y)
<1>1. PICK n, m, e, z : /\ n = Len(x) /\ m = Len(y) /\ e = y[n + 1]
                        /\ z = Append(x, e)
  OBVIOUS
<1>2. n \in Nat /\ m \in Nat /\ n + 1 \in 1 .. m
  BY <1>1, LenProperties
<1>3. e \in S
  BY <1>1, <1>2, ElementOfSeq
<1>4. Len(z) = n + 1 /\ z[n + 1] = e /\ \A i \in 1 .. n : z[i] = x[i]
  BY <1>1, <1>2, <1>3, AppendProperties
<1>5. \A i \in 1 .. n : x[i] = y[i]
  BY <1>1 DEF Begins
<1>6. \A i \in 1 .. n + 1 : z[i] = y[i]
  BY <1>1, <1>2, <1>4, <1>5
<1> QED
  BY <1>1, <1>2, <1>3, <1>4, <1>6 DEF Begins

\* As long as y, it is y.
LEMMA BeginsAll ==
    ASSUME NEW S, NEW x \in Seq(S), NEW y \in Seq(S), Begins(x, y), Len(x) = Len(y)
    PROVE  x = y
  BY SeqEqual DEF Begins

\* Everything is where it was written, at a and b, while the row of p is read;
\* it is refused only for what decode refuses.
Follows(p, a, b) ==
    /\ stage # "raw"
    /\ stage = "refused" => ~(Consistent(p) /\ WithinLimits(p))
    /\ stage \in {"header", "streams", "chunks"} =>
          payload = EncodePayload(p) /\ plan.hashKind = p.hashKind /\ plan.hash = p.hash
    /\ stage \in {"streams", "chunks"} =>
          plan.len = p.len /\ plan.codec = p.codec /\ Begins(plan.streams, p.streams)
    /\ stage = "streams" =>
          Len(plan.streams) + left = Len(p.streams) /\ at = a[Len(plan.streams)]
    /\ stage = "chunks" =>
          /\ Len(plan.streams) = Len(p.streams) /\ Begins(plan.chunks, p.chunks)
          /\ Len(plan.chunks) + left = Len(p.chunks) /\ at = b[Len(plan.chunks)]
    /\ stage = "reconstruct" => plan = p

\* The row of p is being read, or has been.
Reading(p, a, b) ==
    /\ p \in Plans /\ input = EncodePlan(p)
    /\ Laid(p, EncodePayload(p), a, b)
    /\ FormatInv /\ Follows(p, a, b)

\* What has been assumed of a plan that is written.
LEMMA PlanWrites ==
    ASSUME NEW p \in Plans
    PROVE  /\ WritesPlan(p) /\ p \in Plan /\ p.len < Words
           /\ Len(p.streams) < Words /\ Len(p.chunks) < Words
           /\ Len(EncodePayload(p)) < Words /\ EncodePayload(p) \in Seq(Byte)
           /\ \A n \in DOMAIN p.streams : WritesStream(p.streams[n])
           /\ \A n \in DOMAIN p.chunks : WritesChunk(p.chunks[n])
<1>1. WritesPlan(p) /\ Len(EncodePayload(p)) + 1 < Words
  BY InputAssumption
<1>2. EncodePayload(p) \in Seq(Byte)
  BY <1>1, PayloadWritten
<1>3. Len(EncodePayload(p)) \in Nat /\ Words \in Nat
  BY <1>2, LenProperties, Limits
<1> QED
  BY <1>1, <1>2, <1>3 DEF WritesPlan

\* A row that is refused need not have been read.
LEMMA RefusesRightly ==
    ASSUME NEW p, NEW a, NEW b, Refuse, ~(Consistent(p) /\ WithinLimits(p))
    PROVE  Follows(p, a, b)'
  BY DEF Refuse, Follows

\* The frame.
LEMMA FrameFollows ==
    ASSUME NEW p, NEW a, NEW b, Reading(p, a, b), ReadFrame
    PROVE  Follows(p, a, b)'
<1>1. /\ p \in Plans /\ FormatInv /\ stage = "frame"
      /\ input = Frame(KindPlan, p.hashKind, EncodePayload(p), p.hash)
  BY DEF Reading, ReadFrame, EncodePlan
<1>2. PICK s : s = EncodePayload(p)
  OBVIOUS
<1>3. s \in Seq(Byte) /\ Len(s) < Words /\ p.hashKind \in HashKinds /\ p.hash \in Nat
  BY <1>1, <1>2, PlanWrites, PlanParts
<1>4. CASE Len(s) > MaxEncodedPlanLen
  <2>1. Len(s) \in Nat /\ MaxEncodedPlanLen \in Nat
    BY <1>3, LenProperties, Limits
  <2>2. ~WithinLimits(p)
    BY <1>2, <1>4, <2>1 DEF WithinLimits
  <2>3. ~FrameOk
    <3>1. Framed(KindPlan, p.hashKind, s, p.hash, Len(PutVarint(Len(s))), input)
      BY <1>1, <1>2, <1>3, FrameParts DEF KindPlan, HashKinds
    <3>2. input[3] = KindPlan /\ ReadVarint(input, 4).val = Len(s)
      BY <3>1 DEF Framed, Read
    <3> QED
      BY <1>4, <2>1, <3>2 DEF FrameOk
  <2> QED
    BY <2>2, <2>3, RefusesRightly DEF ReadFrame
<1>5. CASE ~(Len(s) > MaxEncodedPlanLen)
  <2>1. /\ payload' = s /\ plan' = [plan EXCEPT !.hashKind = p.hashKind, !.hash = p.hash]
        /\ stage' = "header"
    <3>1. KindPlan \in {KindRaw, KindPlan} /\ KindPlan # KindRaw
      BY DEF KindPlan, KindRaw
    <3>2. input = Frame(KindPlan, p.hashKind, s, p.hash)
      BY <1>1, <1>2
    <3> QED
      BY <1>1, <1>3, <1>5, <3>1, <3>2, FrameThere, Zenon
  <2>2. plan \in Plan
    BY <1>1 DEF FormatInv, Typed
  <2>3. plan'.hashKind = p.hashKind /\ plan'.hash = p.hash
    BY <2>1, <2>2 DEF Plan
  <2> QED
    BY <1>2, <2>1, <2>3 DEF Follows
<1> QED
  BY <1>4, <1>5

\* What its opening says.
LEMMA HeaderFollows ==
    ASSUME NEW p, NEW a, NEW b, Reading(p, a, b), ReadHeader
    PROVE  Follows(p, a, b)'
<1>1. /\ p \in Plans /\ FormatInv /\ stage = "header" /\ payload = EncodePayload(p)
      /\ plan.hashKind = p.hashKind /\ plan.hash = p.hash /\ plan \in Plan
      /\ plan.streams = <<>> /\ Laid(p, payload, a, b)
  BY DEF Reading, ReadHeader, Follows, FormatInv, Typed, Counted
<1>2. PICK n, u, v, f, g : /\ n = Len(p.streams) /\ u = PutVarint(p.len) /\ v = PutVarint(n)
                           /\ f = Len(u) /\ g = Len(v)
  OBVIOUS
<1>3. /\ payload \in Seq(Byte) /\ p.len \in Nat /\ p.len < Words /\ n \in Nat /\ n < Words
      /\ p.codec \in Codecs
  BY <1>1, <1>2, PlanWrites, PlanParts
<1>4. f \in Nat /\ g \in Nat
  BY <1>2, <1>3, WrittenVarint, LenProperties
<1>5. /\ Holds(payload, 0, u) /\ Holds(payload, f, <<p.codec>>) /\ Holds(payload, f + 1, v)
      /\ a[0] = f + 1 + g
  BY <1>1, <1>2 DEF Laid
<1>6. PICK len, codec, count : /\ len = ReadVarint(payload, 0)
                               /\ codec = ReadByte(payload, len.at)
                               /\ count = ReadVarint(payload, codec.at)
  OBVIOUS
<1>7. len.ok /\ len.val = p.len /\ len.at = f
  <2>1. len = Read(p.len, 0 + f)
    BY <1>2, <1>3, <1>5, <1>6, SmallBytes, VarintRoundTrip
  <2> QED
    BY <1>4, <2>1 DEF Read
<1>8. codec.ok /\ codec.val = p.codec /\ codec.at = f + 1
  <2>1. codec = Read(p.codec, f + 1)
    BY <1>3, <1>4, <1>5, <1>6, <1>7, HoldsByte
  <2> QED
    BY <2>1 DEF Read
<1>9. count.ok /\ count.val = n /\ count.at = a[0]
  <2>1. PICK h : h = f + 1
    OBVIOUS
  <2>2. h \in Nat /\ Holds(payload, h, PutVarint(n)) /\ count = ReadVarint(payload, h)
    BY <1>2, <1>4, <1>5, <1>6, <1>8, <2>1
  <2>3. ReadVarint(payload, h) = Read(n, h + Len(PutVarint(n)))
    BY ONLY <1>3, <2>2, SmallBytes, VarintRoundTrip
  <2> QED
    BY <1>2, <1>4, <1>5, <2>1, <2>2, <2>3 DEF Read
<1>10. CASE p.len <= MaxLogicalLen /\ n <= MaxStreams
  <2>1. /\ plan' = [plan EXCEPT !.len = len.val, !.codec = codec.val]
        /\ at' = count.at /\ left' = count.val /\ stage' = "streams"
        /\ UNCHANGED <<input, payload, out>>
    BY <1>3, <1>6, <1>7, <1>8, <1>9, <1>10 DEF ReadHeader
  <2>2. /\ plan'.len = p.len /\ plan'.codec = p.codec /\ plan'.streams = <<>>
        /\ plan'.hashKind = p.hashKind /\ plan'.hash = p.hash
    BY <1>1, <1>7, <1>8, <2>1 DEF Plan
  <2>3. Len(<<>>) = 0
    OBVIOUS
  <2>4. Begins(<<>>, p.streams)
    BY <1>2, <1>3, <2>3 DEF Begins
  <2>5. Len(plan'.streams) = 0 /\ Len(plan'.streams) + left' = n /\ at' = a[Len(plan'.streams)]
    BY <1>3, <1>9, <2>1, <2>2, <2>3
  <2>6. Begins(plan'.streams, p.streams)
    BY <2>2, <2>4
  <2> QED
    BY <1>1, <1>2, <2>1, <2>2, <2>5, <2>6 DEF Follows
<1>11. CASE ~(p.len <= MaxLogicalLen /\ n <= MaxStreams)
  <2>1. Refuse
    BY <1>6, <1>7, <1>9, <1>11 DEF ReadHeader
  <2>2. ~WithinLimits(p)
    BY <1>2, <1>11 DEF WithinLimits
  <2> QED
    BY <2>1, <2>2, RefusesRightly
<1> QED
  BY <1>10, <1>11

\* One of its streams.
LEMMA StreamFollows ==
    ASSUME NEW p, NEW a, NEW b, Reading(p, a, b), ReadStream
    PROVE  Follows(p, a, b)'
<1>1. PICK n, m : n = Len(plan.streams) /\ m = Len(p.streams)
  OBVIOUS
<1>2. /\ p \in Plans /\ FormatInv /\ stage = "streams" /\ payload = EncodePayload(p)
      /\ plan.hashKind = p.hashKind /\ plan.hash = p.hash /\ plan \in Plan
      /\ plan.len = p.len /\ plan.codec = p.codec /\ Begins(plan.streams, p.streams)
      /\ n + left = m /\ at = a[n] /\ left > 0 /\ left \in Nat
      /\ Laid(p, payload, a, b)
  <2>1. left \in Nat
    BY Limits DEF Reading, FormatInv, Typed
  <2> QED
    BY <1>1, <2>1 DEF Reading, ReadStream, Follows, FormatInv, Typed
<1>3. /\ payload \in Seq(Byte) /\ n \in Nat /\ m \in Nat
      /\ plan.streams \in Seq(PlanStream) /\ p.streams \in Seq(PlanStream)
      /\ DOMAIN p.streams = 1 .. m
      /\ \A i \in 1 .. m : WritesStream(p.streams[i])
  BY <1>1, <1>2, PlanWrites, PlanParts
<1>4. n < m
  BY <1>2, <1>3
<1>5. PICK x, i : i = n + 1 /\ x = p.streams[i]
  OBVIOUS
<1>6. /\ i \in 1 .. m /\ i - 1 = n /\ x \in PlanStream /\ WritesStream(x)
      /\ Begins(Append(plan.streams, x), p.streams)
  <2>1. i \in 1 .. m /\ i - 1 = n
    BY <1>3, <1>4, <1>5
  <2> QED
    BY <1>1, <1>2, <1>3, <1>4, <1>5, <2>1, BeginsMore
<1>7. at \in Nat /\ Holds(payload, at, PutStream(x)) /\ a[i] = at + Len(PutStream(x))
  <2>1. StreamPieces(p)[i] = PutStream(x) /\ Len(StreamPieces(p)) = m
    <3>1. StreamPieces(p)[i] = PutStream(p.streams[i])
      BY <1>3, <1>6 DEF StreamPieces
    <3> QED
      BY <1>1, <1>3, <1>5, <3>1, StreamsWritten
  <2>2. Along(payload, a, StreamPieces(p)) /\ a \in [0 .. m -> Nat]
    BY <1>1, <1>2 DEF Laid
  <2>3. /\ Holds(payload, a[i - 1], StreamPieces(p)[i])
        /\ a[i] = a[i - 1] + Len(StreamPieces(p)[i])
    BY <1>6, <2>1, <2>2 DEF Along
  <2>4. n \in 0 .. m
    BY <1>3, <1>4
  <2> QED
    BY <1>2, <1>6, <2>1, <2>2, <2>3, <2>4
<1>8. PICK tag, id, print :
        /\ tag = ReadByte(payload, at)
        /\ id = IF tag.val = 1 THEN ReadByte(payload, tag.at) ELSE ReadVarint(payload, tag.at)
        /\ print = ReadByte(payload, id.at)
  OBVIOUS
<1>9. /\ tag.ok /\ tag.val \in 1 .. 4 /\ id.ok /\ print.ok
      /\ [id |-> <<tag.val, id.val>>, fingerprint |-> print.val] = x
      /\ print.at = at + Len(PutStream(x))
  BY <1>3, <1>6, <1>7, <1>8, StreamThere
<1>10. /\ plan' = [plan EXCEPT !.streams = Append(@, x)]
       /\ at' = a[i] /\ left' = left - 1
       /\ UNCHANGED <<input, payload, stage, out>>
  BY <1>7, <1>8, <1>9 DEF ReadStream
<1>11. /\ plan'.streams = Append(plan.streams, x) /\ plan'.len = p.len /\ plan'.codec = p.codec
       /\ plan'.hashKind = p.hashKind /\ plan'.hash = p.hash
  BY <1>2, <1>10 DEF Plan
<1>12. Len(plan'.streams) = i
  BY <1>1, <1>3, <1>5, <1>6, <1>11, AppendProperties
<1>13. Len(plan'.streams) + left' = m /\ at' = a[Len(plan'.streams)]
  <2>1. i + (left - 1) = m
    BY <1>2, <1>3, <1>5
  <2> QED
    BY <1>10, <1>12, <2>1
<1>14. Begins(plan'.streams, p.streams)
  BY <1>6, <1>11
<1> QED
  BY <1>1, <1>2, <1>10, <1>11, <1>13, <1>14 DEF Follows

\* The number of its chunks.
LEMMA ChunkCountFollows ==
    ASSUME NEW p, NEW a, NEW b, Reading(p, a, b), ReadChunkCount
    PROVE  Follows(p, a, b)'
<1>1. PICK n, m, k : n = Len(plan.streams) /\ m = Len(p.streams) /\ k = Len(p.chunks)
  OBVIOUS
<1>2. /\ p \in Plans /\ FormatInv /\ stage = "streams" /\ payload = EncodePayload(p)
      /\ plan.hashKind = p.hashKind /\ plan.hash = p.hash /\ plan \in Plan
      /\ plan.len = p.len /\ plan.codec = p.codec /\ Begins(plan.streams, p.streams)
      /\ n + left = m /\ at = a[n] /\ left = 0 /\ plan.chunks = <<>>
      /\ Laid(p, payload, a, b)
  BY <1>1 DEF Reading, ReadChunkCount, Follows, FormatInv, Typed, Counted
<1>3. /\ payload \in Seq(Byte) /\ n \in Nat /\ m \in Nat /\ k \in Nat /\ k < Words
  BY <1>1, <1>2, PlanWrites, PlanParts
<1>4. n = m
  BY <1>2, <1>3
<1>5. /\ at \in Nat /\ Holds(payload, at, PutVarint(k)) /\ b[0] = at + Len(PutVarint(k))
  <2>1. m \in 0 .. m
    BY <1>3
  <2> QED
    BY <1>1, <1>2, <1>4, <2>1 DEF Laid
<1>6. PICK count : count = ReadVarint(payload, at)
  OBVIOUS
<1>7. count.ok /\ count.val = k /\ count.at = b[0]
  <2>1. count = Read(k, at + Len(PutVarint(k)))
    BY <1>3, <1>5, <1>6, SmallBytes, VarintRoundTrip
  <2> QED
    BY <1>5, <2>1 DEF Read
<1>8. CASE k <= MaxChunkCount
  <2>1. /\ at' = b[0] /\ left' = k /\ stage' = "chunks"
        /\ UNCHANGED <<input, payload, plan, out>>
    BY <1>6, <1>7, <1>8 DEF ReadChunkCount, CountOk
  <2>2. Len(<<>>) = 0
    OBVIOUS
  <2>3. Begins(plan.chunks, p.chunks)
    BY <1>1, <1>2, <1>3, <2>2 DEF Begins
  <2>4. Len(plan.chunks) + left' = k /\ at' = b[Len(plan.chunks)]
    BY <1>2, <1>3, <2>1, <2>2
  <2> QED
    BY <1>1, <1>2, <1>4, <2>1, <2>3, <2>4 DEF Follows
<1>9. CASE ~(k <= MaxChunkCount)
  <2>1. Refuse
    BY <1>6, <1>7, <1>9 DEF ReadChunkCount, CountOk
  <2>2. ~WithinLimits(p)
    BY <1>1, <1>9 DEF WithinLimits
  <2> QED
    BY <2>1, <2>2, RefusesRightly
<1> QED
  BY <1>8, <1>9

\* Chunks that are consistent and within the limits are those decode allows.
LEMMA ChunksSound ==
    ASSUME NEW p \in Plan, Consistent(p), WithinLimits(p), NEW n \in DOMAIN p.chunks
    PROVE  SoundChunk(p.chunks[n], Len(p.streams))
<1>1. PICK c : c = p.chunks[n]
  OBVIOUS
<1>2. c \in Located \union Literal
  BY <1>1, PlanParts, ElementOfSeq
<1>3. /\ ChunkLen(c) > 0 /\ ChunkLen(c) <= MaxChunkLen
      /\ IsLocated(c) => /\ c.offset <= MaxOffset /\ c.offset + c.len < Words
                         /\ c.stream < Len(p.streams)
  BY <1>1 DEF Consistent, WithinLimits
<1>4. ChunkLen(c) \in Nat
  <2>1. CASE IsLocated(c)
    BY <1>2, <2>1 DEF IsLocated, ChunkLen, Located, Literal
  <2>2. CASE ~IsLocated(c)
    <3>1. c.literal \in Seq(Byte)
      BY <1>2, <2>2 DEF IsLocated, Located, Literal
    <3> QED
      BY <2>2, <3>1, LenProperties DEF ChunkLen
  <2> QED
    BY <2>1, <2>2
<1> QED
  BY <1>1, <1>2, <1>3, <1>4 DEF SoundChunk

\* One of its chunks.
LEMMA ChunkFollows ==
    ASSUME NEW p, NEW a, NEW b, Reading(p, a, b), ReadChunk
    PROVE  Follows(p, a, b)'
<1>1. PICK n, m, k : n = Len(plan.chunks) /\ m = Len(p.chunks) /\ k = Len(p.streams)
  OBVIOUS
<1>2. /\ p \in Plans /\ FormatInv /\ stage = "chunks" /\ payload = EncodePayload(p)
      /\ plan.hashKind = p.hashKind /\ plan.hash = p.hash /\ plan \in Plan
      /\ plan.len = p.len /\ plan.codec = p.codec /\ Begins(plan.streams, p.streams)
      /\ Len(plan.streams) = k /\ Begins(plan.chunks, p.chunks)
      /\ n + left = m /\ at = b[n] /\ left > 0 /\ left \in Nat
      /\ Laid(p, payload, a, b)
  <2>1. left \in Nat
    BY Limits DEF Reading, FormatInv, Typed
  <2> QED
    BY <1>1, <2>1 DEF Reading, ReadChunk, Follows, FormatInv, Typed
<1>3. /\ payload \in Seq(Byte) /\ n \in Nat /\ m \in Nat
      /\ plan.chunks \in Seq(Located \union Literal) /\ p.chunks \in Seq(Located \union Literal)
      /\ DOMAIN p.chunks = 1 .. m
      /\ \A i \in 1 .. m : WritesChunk(p.chunks[i])
      /\ \A i \in DOMAIN p.chunks : WritesChunk(p.chunks[i])
      /\ p \in Plan
  BY <1>1, <1>2, PlanWrites, PlanParts
<1>4. n < m
  BY <1>2, <1>3
<1>5. PICK x, i : i = n + 1 /\ x = p.chunks[i]
  OBVIOUS
<1>6. /\ i \in 1 .. m /\ i - 1 = n /\ x \in Located \union Literal /\ WritesChunk(x)
      /\ Begins(Append(plan.chunks, x), p.chunks)
  <2>1. i \in 1 .. m /\ i - 1 = n
    BY <1>3, <1>4, <1>5
  <2> QED
    BY <1>1, <1>2, <1>3, <1>4, <1>5, <2>1, BeginsMore
<1>7. at \in Nat /\ Holds(payload, at, PutChunk(x)) /\ b[i] = at + Len(PutChunk(x))
  <2>1. ChunkPieces(p)[i] = PutChunk(x) /\ Len(ChunkPieces(p)) = m
    <3>1. ChunkPieces(p)[i] = PutChunk(p.chunks[i])
      BY <1>3, <1>6 DEF ChunkPieces
    <3>2. Len(ChunkPieces(p)) = Len(p.chunks)
      BY <1>3, ChunksWritten
    <3> QED
      BY <1>1, <1>5, <3>1, <3>2
  <2>2. Along(payload, b, ChunkPieces(p)) /\ b \in [0 .. m -> Nat]
    BY <1>1, <1>2 DEF Laid
  <2>3. /\ Holds(payload, b[i - 1], ChunkPieces(p)[i])
        /\ b[i] = b[i - 1] + Len(ChunkPieces(p)[i])
    BY <1>6, <2>1, <2>2 DEF Along
  <2>4. n \in 0 .. m
    BY <1>3, <1>4
  <2> QED
    BY <1>2, <1>6, <2>1, <2>2, <2>3, <2>4
<1>8. PICK kind, chunk :
        /\ kind = ReadByte(payload, at)
        /\ chunk = IF kind.val = 0 THEN ReadLocated(kind.at) ELSE ReadLiteral(kind.at)
  OBVIOUS
<1>9. /\ kind.ok /\ kind.val \in {0, 1}
      /\ chunk = IF SoundChunk(x, k) THEN Read(x, at + Len(PutChunk(x))) ELSE Unread
  BY <1>2, <1>3, <1>6, <1>7, <1>8, ChunkThere, SMTT(30)
<1>10. CASE SoundChunk(x, k)
  <2>0. chunk.ok /\ chunk.val = x /\ chunk.at = b[i]
    BY <1>7, <1>9, <1>10 DEF Read
  <2>1. /\ plan' = [plan EXCEPT !.chunks = Append(@, x)]
        /\ at' = b[i] /\ left' = left - 1
        /\ UNCHANGED <<input, payload, stage, out>>
    BY <1>8, <1>9, <2>0 DEF ReadChunk
  <2>2. /\ plan'.chunks = Append(plan.chunks, x) /\ plan'.len = p.len
        /\ plan'.codec = p.codec /\ plan'.streams = plan.streams
        /\ plan'.hashKind = p.hashKind /\ plan'.hash = p.hash
    BY <1>2, <2>1 DEF Plan
  <2>3. Len(plan'.chunks) = i
    BY <1>1, <1>3, <1>5, <1>6, <2>2, AppendProperties
  <2>4. Len(plan'.chunks) + left' = m /\ at' = b[Len(plan'.chunks)]
    <3>1. i + (left - 1) = m
      BY <1>2, <1>3, <1>5
    <3> QED
      BY <2>1, <2>3, <3>1
  <2>5. Begins(plan'.chunks, p.chunks) /\ Begins(plan'.streams, p.streams)
        /\ Len(plan'.streams) = Len(p.streams)
    BY <1>1, <1>2, <1>6, <2>2
  <2> QED
    BY <1>1, <1>2, <2>1, <2>2, <2>4, <2>5 DEF Follows
<1>11. CASE ~SoundChunk(x, k)
  <2>1. ~chunk.ok
    BY <1>9, <1>11 DEF Unread
  <2>2. Refuse
    BY <1>8, <2>1 DEF ReadChunk
  <2>3. ~(Consistent(p) /\ WithinLimits(p))
    BY <1>1, <1>3, <1>5, <1>6, <1>11, ChunksSound
  <2> QED
    BY <2>2, <2>3, RefusesRightly
<1> QED
  BY <1>10, <1>11

\* Its end: what has been read is all of the plan.
LEMMA EndFollows ==
    ASSUME NEW p, NEW a, NEW b, Reading(p, a, b), ReadEnd
    PROVE  Follows(p, a, b)'
<1>1. PICK m : m = Len(p.chunks)
  OBVIOUS
<1>2. /\ p \in Plans /\ FormatInv /\ stage = "chunks" /\ payload = EncodePayload(p)
      /\ plan.hashKind = p.hashKind /\ plan.hash = p.hash /\ plan \in Plan
      /\ plan.len = p.len /\ plan.codec = p.codec /\ Begins(plan.streams, p.streams)
      /\ Len(plan.streams) = Len(p.streams) /\ Begins(plan.chunks, p.chunks)
      /\ Len(plan.chunks) + left = m /\ at = b[Len(plan.chunks)] /\ left = 0
      /\ Laid(p, payload, a, b)
  BY <1>1 DEF Reading, ReadEnd, Follows, FormatInv, Typed
<1>3. /\ payload \in Seq(Byte) /\ Len(plan.chunks) \in Nat /\ m \in Nat /\ p \in Plan
      /\ plan.streams \in Seq(PlanStream) /\ p.streams \in Seq(PlanStream)
      /\ plan.chunks \in Seq(Located \union Literal) /\ p.chunks \in Seq(Located \union Literal)
  BY <1>1, <1>2, PlanWrites, PlanParts
<1>4. plan = p
  <2>1. plan.streams = p.streams
    BY <1>2, <1>3, BeginsAll
  <2>2. Len(plan.chunks) = Len(p.chunks)
    BY <1>1, <1>2, <1>3
  <2>3. plan.chunks = p.chunks
    BY <1>2, <1>3, <2>2, BeginsAll
  <2> QED
    BY <1>2, <1>3, <2>1, <2>3, SMTT(30) DEF Plan
<1>5. PICK e, l : e = Closing(p) /\ l = Len(payload)
  OBVIOUS
<1>6. at \in Nat /\ Holds(payload, at, e) /\ at + Len(e) = l /\ l \in Nat
  <2>1. m \in 0 .. m
    BY <1>3
  <2> QED
    BY <1>1, <1>2, <1>3, <1>4, <1>5, <2>1, LenProperties DEF Laid
<1>7. PICK len, footer, end :
        /\ len = ReadVarint(payload, at)
        /\ footer = ReadExact(payload, len.at, len.val)
        /\ end = IF plan.codec = CeremonialCbor THEN footer.at ELSE at
  OBVIOUS
<1>8. /\ plan.codec = CeremonialCbor => len.ok /\ footer.ok /\ footer.val = Footer(plan)
      /\ end = l
  <2>1. CASE p.codec = CeremonialCbor
    <3>1. PICK f, n, u : f = Footer(p) /\ n = Len(f) /\ u = PutVarint(n)
      OBVIOUS
    <3>2. f \in Seq(Byte) /\ n \in Nat /\ n < Words
      <4>1. WritesPlan(p) /\ p.len < Words /\ Len(p.streams) < Words /\ Len(p.chunks) < Words
        BY <1>2, PlanWrites
      <4> QED
        BY <1>3, <2>1, <3>1, <4>1, FooterWritten, LenProperties DEF WritesPlan
    <3>3. u \in Seq(Byte) /\ Len(u) \in Nat
      BY <3>1, <3>2, WrittenVarint, LenProperties
    <3>4. e = u \o f
      BY <1>5, <2>1, <3>1 DEF Closing
    <3>5. Holds(payload, at, u) /\ Holds(payload, at + Len(u), f) /\ Len(e) = Len(u) + n
      <4>1. Holds(payload, at, u) /\ Holds(payload, at + Len(u), f)
        BY <1>3, <1>6, <3>2, <3>3, <3>4, HoldsConcat
      <4> QED
        BY <3>1, <3>2, <3>3, <3>4, <4>1, ConcatProperties
    <3>6. PICK h : h = at + Len(u)
      OBVIOUS
    <3>7. len = Read(n, h)
      <4>1. at \in Nat /\ payload \in Seq(Byte) /\ Holds(payload, at, PutVarint(n))
        BY <1>3, <1>6, <3>1, <3>5
      <4>2. ReadVarint(payload, at) = Read(n, at + Len(PutVarint(n)))
        BY ONLY <3>2, <4>1, SmallBytes, VarintRoundTrip
      <4> QED
        BY <1>7, <3>1, <3>6, <4>2
    <3>8. len.ok /\ len.val = n /\ len.at = h /\ h \in Nat
      BY <1>6, <3>3, <3>6, <3>7 DEF Read
    <3>9. footer = Read(f, h + n)
      <4>1. ReadExact(payload, h, Len(f)) = Read(f, h + Len(f))
        BY <1>3, <3>2, <3>5, <3>6, <3>8, HoldsExact
      <4> QED
        BY <1>7, <3>1, <3>8, <4>1
    <3>10. footer.ok /\ footer.val = f /\ footer.at = h + n
      BY <3>9 DEF Read
    <3>11. h + n = l
      BY <1>6, <3>2, <3>3, <3>5, <3>6
    <3> QED
      BY <1>4, <1>7, <2>1, <3>1, <3>8, <3>10, <3>11
  <2>2. CASE p.codec # CeremonialCbor
    <3>1. Len(e) = 0
      BY <1>5, <2>2 DEF Closing
    <3>2. at = l
      BY <1>6, <3>1
    <3> QED
      BY <1>4, <1>7, <2>2, <3>2
  <2> QED
    BY <2>1, <2>2
<1>9. CASE Covered
  <2>1. /\ at' = end /\ stage' = "reconstruct" /\ UNCHANGED <<input, payload, left, plan, out>>
    BY <1>5, <1>7, <1>8, <1>9 DEF ReadEnd
  <2> QED
    BY <1>4, <2>1 DEF Follows
<1>10. CASE ~Covered
  <2>1. Refuse
    BY <1>7, <1>10 DEF ReadEnd
  <2>2. ~Consistent(p)
    BY <1>4, <1>10 DEF Covered, Consistent
  <2> QED
    BY <2>1, <2>2, RefusesRightly
<1> QED
  BY <1>9, <1>10

\* While the row of a plan is read.
LEMMA PlanFollows ==
    ASSUME NEW p, NEW a, NEW b, Reading(p, a, b), [FormatNext]_formatVars
    PROVE  Follows(p, a, b)'
<1>1. stage # "raw" /\ Follows(p, a, b)
  BY DEF Reading, Follows
<1>2. CASE UNCHANGED formatVars
  BY <1>1, <1>2 DEF Follows, formatVars
<1>3. CASE Finished
  BY <1>2, <1>3 DEF Finished
<1>4. CASE ReadRaw
  BY <1>1, <1>4 DEF ReadRaw
<1>5. CASE ReadBytes
  <2>1. /\ stage = "reconstruct" /\ stage' \in {"reconstruct", "panicked", "failed"}
        /\ plan' = plan
    BY <1>5 DEF ReadBytes
  <2> QED
    BY <1>1, <2>1 DEF Follows
<1>6. CASE Verify
  <2>1. stage' \in {"done", "failed"}
    BY <1>6 DEF Verify
  <2> QED
    BY <2>1 DEF Follows
<1> QED
  BY <1>2, <1>3, <1>4, <1>5, <1>6, FrameFollows, HeaderFollows, StreamFollows,
     ChunkCountFollows, ChunkFollows, EndFollows DEF FormatNext

\* The same of a value that is stored raw.
FollowsRaw(kind, v) ==
    /\ stage \in {"frame", "raw", "done", "refused"}
    /\ stage = "refused" => Len(v) > MaxLogicalLen
    /\ stage = "raw" => /\ payload = PutVarint(Len(v)) \o v
                        /\ plan.hashKind = kind /\ plan.hash = HashOf(kind, v)
    /\ stage = "done" => out = v

\* It is written into a payload of bytes that its frame can hold.
LEMMA RawWritten ==
    ASSUME NEW v \in RawValues
    PROVE  /\ v \in Seq(Byte) /\ Len(v) \in Nat /\ Len(v) < Words
           /\ PutVarint(Len(v)) \in Seq(Byte)
           /\ PutVarint(Len(v)) \o v \in Seq(Byte)
           /\ Len(PutVarint(Len(v)) \o v) = Len(PutVarint(Len(v))) + Len(v)
           /\ Len(PutVarint(Len(v)) \o v) < Words
<1>1. v \in Seq(Byte) /\ Len(v) < Words /\ Len(PutVarint(Len(v)) \o v) + 1 < Words
  BY InputAssumption
<1>2. Len(v) \in Nat
  BY <1>1, LenProperties
<1>3. PICK u : u = PutVarint(Len(v))
  OBVIOUS
<1>4. u \in Seq(Byte)
  BY <1>1, <1>2, <1>3, WrittenVarint
<1>5. u \o v \in Seq(Byte) /\ Len(u \o v) = Len(u) + Len(v)
  BY <1>1, <1>4, ConcatProperties
<1>6. Len(u \o v) < Words
  <2>1. Len(u \o v) + 1 < Words /\ Len(u \o v) \in Nat /\ Words \in Nat
    BY <1>1, <1>3, <1>5, LenProperties, Limits
  <2> QED
    BY <2>1
<1> QED
  BY <1>1, <1>2, <1>3, <1>4, <1>5, <1>6

\* Its frame.
LEMMA FrameFollowsRaw ==
    ASSUME FormatInv, NEW kind \in HashKinds, NEW v \in RawValues,
           input = EncodeRaw(kind, v), FollowsRaw(kind, v), ReadFrame
    PROVE  FollowsRaw(kind, v)'
<1>1. PICK s, h : s = PutVarint(Len(v)) \o v /\ h = HashOf(kind, v)
  OBVIOUS
<1>2. s \in Seq(Byte) /\ Len(s) < Words /\ h \in Nat
  BY <1>1, RawWritten, HashIs
<1>3. input = Frame(KindRaw, kind, s, h)
  BY <1>1 DEF EncodeRaw
<1>4. KindRaw \in {KindRaw, KindPlan} /\ KindRaw # KindPlan
  BY DEF KindRaw, KindPlan
<1>5. /\ payload' = s /\ plan' = [plan EXCEPT !.hashKind = kind, !.hash = h]
      /\ stage' = "raw"
  <2>1. /\ kind \in HashKinds /\ KindRaw \in {KindRaw, KindPlan} /\ FormatInv /\ ReadFrame
        /\ ~(KindRaw = KindPlan /\ Len(s) > MaxEncodedPlanLen)
    BY <1>4
  <2>2. /\ payload' = s /\ plan' = [plan EXCEPT !.hashKind = kind, !.hash = h]
        /\ stage' = IF KindRaw = KindRaw THEN "raw" ELSE "header"
    BY ONLY <1>2, <1>3, <2>1, FrameThere, ZenonT(30)
  <2> QED
    BY <2>2
<1>6. plan \in Plan
  BY DEF FormatInv, Typed
<1>7. plan'.hashKind = kind /\ plan'.hash = h
  BY <1>5, <1>6 DEF Plan
<1> QED
  BY <1>1, <1>5, <1>7 DEF FollowsRaw

\* Its bytes.
LEMMA ValueFollowsRaw ==
    ASSUME FormatInv, NEW kind \in HashKinds, NEW v \in RawValues,
           input = EncodeRaw(kind, v), FollowsRaw(kind, v), ReadRaw
    PROVE  FollowsRaw(kind, v)'
<1>1. PICK n, u, f : n = Len(v) /\ u = PutVarint(n) /\ f = Len(u)
  OBVIOUS
<1>2. /\ stage = "raw" /\ payload = u \o v
      /\ plan.hashKind = kind /\ plan.hash = HashOf(kind, v)
  BY <1>1 DEF FollowsRaw, ReadRaw
<1>3. /\ v \in Seq(Byte) /\ n \in Nat /\ n < Words /\ u \in Seq(Byte) /\ f \in Nat
      /\ payload \in Seq(Byte) /\ Len(payload) = f + n
  BY <1>1, <1>2, RawWritten, LenProperties
<1>4. Holds(payload, 0, u) /\ Holds(payload, f, v)
  <2>1. Holds(payload, 0, u) /\ Holds(payload, 0 + f, v)
    BY <1>1, <1>2, <1>3, HoldsItself, HoldsConcat
  <2>2. 0 + f = f
    BY <1>3
  <2> QED
    BY <2>1, <2>2
<1>5. PICK len, bytes : /\ len = ReadVarint(payload, 0)
                        /\ bytes = ReadExact(payload, len.at, len.val)
  OBVIOUS
<1>6. len.ok /\ len.val = n /\ len.at = f
  <2>1. len = Read(n, 0 + f)
    BY <1>1, <1>3, <1>4, <1>5, SmallBytes, VarintRoundTrip
  <2> QED
    BY <1>3, <2>1 DEF Read
<1>7. bytes.ok /\ bytes.val = v /\ bytes.at = Len(payload)
  <2>1. ReadExact(payload, f, Len(v)) = Read(v, f + Len(v))
    BY <1>3, <1>4, HoldsExact
  <2>2. bytes = Read(v, f + n)
    BY <1>1, <1>5, <1>6, <2>1
  <2> QED
    BY <1>3, <2>2 DEF Read
<1>8. CASE n <= MaxLogicalLen
  <2>1. out' = v /\ stage' = "done"
    BY <1>2, <1>5, <1>6, <1>7, <1>8 DEF ReadRaw
  <2> QED
    BY <2>1 DEF FollowsRaw
<1>9. CASE ~(n <= MaxLogicalLen)
  <2>1. Refuse
    BY <1>5, <1>6, <1>9 DEF ReadRaw
  <2>2. n > MaxLogicalLen
    BY <1>3, <1>9, Limits
  <2> QED
    BY <1>1, <2>1, <2>2 DEF Refuse, FollowsRaw
<1> QED
  BY <1>8, <1>9

\* While a value that is stored raw is read.
LEMMA RawFollows ==
    ASSUME FormatInv, NEW kind \in HashKinds, NEW v \in RawValues,
           input = EncodeRaw(kind, v), FollowsRaw(kind, v), [FormatNext]_formatVars
    PROVE  FollowsRaw(kind, v)'
<1>1. stage \in {"frame", "raw", "done", "refused"}
  BY DEF FollowsRaw
<1>2. CASE UNCHANGED formatVars
  BY <1>2 DEF FollowsRaw, formatVars
<1>3. CASE Finished
  BY <1>2, <1>3 DEF Finished
<1>4. ~ReadHeader /\ ~ReadStream /\ ~ReadChunkCount /\ ~ReadChunk /\ ~ReadEnd
      /\ ~ReadBytes /\ ~Verify
  BY <1>1 DEF ReadHeader, ReadStream, ReadChunkCount, ReadChunk, ReadEnd, ReadBytes, Verify
<1> QED
  BY <1>2, <1>3, <1>4, FrameFollowsRaw, ValueFollowsRaw DEF FormatNext

\* Every row that was written, wherever its parts are.
ReadsBack ==
    /\ \A p \in Plans : \A a, b :
          input = EncodePlan(p) /\ Laid(p, EncodePayload(p), a, b) => Follows(p, a, b)
    /\ \A kind \in HashKinds, v \in RawValues :
          input = EncodeRaw(kind, v) => FollowsRaw(kind, v)

\* That is an invariant.
LEMMA ReadsBackInvariant == FormatSpec => [](FormatInv /\ ReadsBack)
<1>1. FormatInit => ReadsBack
  BY DEF FormatInit, ReadsBack, Follows, FollowsRaw
<1>2. FormatInv /\ ReadsBack /\ [FormatNext]_formatVars => ReadsBack'
  <2> SUFFICES ASSUME FormatInv, ReadsBack, [FormatNext]_formatVars PROVE ReadsBack'
    OBVIOUS
  <2>1. input' = input
    BY DEF FormatNext, Finished, ReadFrame, ReadRaw, ReadHeader, ReadStream, ReadChunkCount,
           ReadChunk, ReadEnd, ReadBytes, Verify, Refuse, formatVars
  <2>2. ASSUME NEW p \in Plans, NEW a, NEW b, input' = EncodePlan(p),
               Laid(p, EncodePayload(p), a, b)
        PROVE  Follows(p, a, b)'
    <3>1. Reading(p, a, b)
      BY <2>1, <2>2 DEF ReadsBack, Reading
    <3> QED
      BY <3>1, PlanFollows
  <2>3. ASSUME NEW kind \in HashKinds, NEW v \in RawValues, input' = EncodeRaw(kind, v)
        PROVE  FollowsRaw(kind, v)'
    <3>1. input = EncodeRaw(kind, v) /\ FollowsRaw(kind, v)
      BY <2>1, <2>3 DEF ReadsBack
    <3> QED
      BY <3>1, RawFollows
  <2> QED
    BY <2>2, <2>3 DEF ReadsBack
<1> QED
  BY <1>1, <1>2, FormatInvariant, PTL DEF FormatSpec

\* Every plan that is consistent and within the limits, and every value that is
\* short enough, is read back from its row as it was written, and none of them
\* is refused: decode is the inverse of encode (ValueEnvelope and ReconstructionPlan),
\* for all plans whose fields have their types and whatever the limits are.
THEOREM RoundTripCorrect == FormatSpec => []RoundTrip
<1>1. FormatInv /\ ReadsBack => RoundTrip
  <2> SUFFICES ASSUME FormatInv, ReadsBack PROVE RoundTrip
    OBVIOUS
  <2>1. ASSUME NEW p \in Plans, input = EncodePlan(p)
        PROVE  /\ stage = "refused" => ~(Consistent(p) /\ WithinLimits(p))
               /\ stage = "reconstruct" => plan = p
    <3>1. PICK a, b : Laid(p, EncodePayload(p), a, b)
      BY PlanWrites, PayloadLaid
    <3> QED
      BY <2>1, <3>1 DEF ReadsBack, Follows
  <2>2. ASSUME NEW kind \in HashKinds, NEW v \in RawValues, input = EncodeRaw(kind, v)
        PROVE  /\ stage = "refused" => Len(v) > MaxLogicalLen
               /\ stage = "done" => out = v
    BY <2>2 DEF ReadsBack, FollowsRaw
  <2>3. ASSUME NEW w \in WrittenPlans, w.row = input
        PROVE  /\ stage = "refused" => ~(Consistent(w.plan) /\ WithinLimits(w.plan))
               /\ stage = "reconstruct" => plan = w.plan
    <3>1. PICK p \in Plans : w = [row |-> EncodePlan(p), plan |-> p]
      BY DEF WrittenPlans
    <3>2. w.row = EncodePlan(p) /\ w.plan = p
      BY <3>1
    <3> QED
      BY <2>1, <2>3, <3>2
  <2>4. ASSUME NEW w \in WrittenValues, w.row = input
        PROVE  /\ stage = "refused" => Len(w.bytes) > MaxLogicalLen
               /\ stage = "done" => out = w.bytes
    <3>1. PICK kind \in HashKinds, v \in RawValues :
            w = [row |-> EncodeRaw(kind, v), bytes |-> v]
      BY DEF WrittenValues
    <3>2. w.row = EncodeRaw(kind, v) /\ w.bytes = v
      BY <3>1
    <3> QED
      BY <2>2, <2>4, <3>2
  <2> QED
    BY <2>3, <2>4 DEF RoundTrip
<1> QED
  BY <1>1, ReadsBackInvariant, PTL

-----------------------------------------------------------------------------
(* Damage *)

\* A prime divides no product of numbers below it.
LEMMA NoFactor ==
    ASSUME NEW a \in 1 .. CrcModulus - 1, NEW b \in 1 .. CrcModulus - 1
    PROVE  (a * b) % CrcModulus # 0
<1>1. PICK p : p = CrcModulus
  OBVIOUS
<1>2. p \in Nat \ {0, 1} /\ \A d \in 2 .. p - 1 : p % d # 0
  BY <1>1, CrcAssumption
<1>3. a \in 1 .. p - 1 /\ b \in 1 .. p - 1
  BY <1>1
<1> SUFFICES ASSUME (a * b) % p = 0 PROVE FALSE
  BY <1>1
<1> DEFINE S == {n \in Nat \ {0} : (n * b) % p = 0}
<1>4. a \in S
  BY <1>3
<1>5. PICK n \in S : \A m \in S : n <= m
  <2>1. S \in SUBSET Nat /\ S # {}
    BY <1>4
  <2> HIDE DEF S
  <2> QED
    BY <2>1, LeastNumber
<1>6. n \in Nat \ {0} /\ n <= a /\ (n * b) % p = 0
  BY <1>4, <1>5
<1>7. n # 1
  <2>1. b % p = b
    <3>1. 0 \in Nat /\ b \in 0 .. p - 1 /\ p \in Nat \ {0}
      BY <1>2, <1>3
    <3>2. (p * 0 + b) % p = b
      BY ONLY <3>1, DivisionUnique
    <3>3. p * 0 + b = b
      BY <3>1
    <3> QED
      BY <3>2, <3>3
  <2>2. n = 1 => n * b = b
    BY <1>3
  <2> QED
    BY <1>3, <1>6, <2>1, <2>2
<1>8. n \in 2 .. p - 1
  BY <1>2, <1>3, <1>6, <1>7
<1>9. PICK q, r : q = p \div n /\ r = p % n
  OBVIOUS
<1>10. q \in Nat /\ r \in 1 .. n - 1 /\ p = n * q + r
  <2>1. n \in Nat \ {0} /\ p \in Nat
    BY <1>2, <1>6
  <2>2. p \div n \in Nat /\ p % n \in 0 .. n - 1 /\ p = n * (p \div n) + (p % n)
    BY ONLY <2>1, Division
  <2>3. p % n # 0
    BY <1>2, <1>8
  <2> QED
    BY <1>9, <2>2, <2>3
<1>11. PICK k : k \in Nat /\ n * b = p * k
  <2>1. PICK v : v = n * b
    OBVIOUS
  <2>2. v \in Nat /\ p \in Nat \ {0}
    BY <1>2, <1>3, <1>6, <2>1
  <2>3. v \div p \in Nat /\ v = p * (v \div p) + (v % p)
    BY ONLY <2>2, Division
  <2>4. v = p * (v \div p)
    BY <1>6, <2>1, <2>2, <2>3
  <2> QED
    BY <2>1, <2>3, <2>4
<1>12. PICK c : c = b - q * k
  OBVIOUS
<1>13. c \in Int /\ r * b = p * c
  <2>1. c \in Int
    BY <1>3, <1>10, <1>11, <1>12
  <2>2. r = p - n * q
    BY <1>2, <1>6, <1>10
  <2>3. r * b = p * b - q * (n * b)
    BY <1>2, <1>3, <1>6, <1>10, <2>2
  <2>4. r * b = p * b - q * (p * k)
    BY <1>11, <2>3
  <2> QED
    BY <1>2, <1>3, <1>10, <1>11, <1>12, <2>1, <2>4
<1>14. r * b \in Nat \ {0}
  BY <1>3, <1>10
<1>15. c \in Nat
  BY <1>2, <1>13, <1>14
<1>16. (r * b) % p = 0
  <2>1. p \in Nat \ {0} /\ 0 \in 0 .. p - 1
    BY <1>2
  <2>2. (p * c + 0) % p = 0
    BY ONLY <1>15, <2>1, DivisionUnique
  <2>3. p * c + 0 = r * b
    BY <1>13, <1>14
  <2> QED
    BY <2>2, <2>3
<1>17. r \in S
  BY <1>10, <1>16
<1> QED
  BY <1>5, <1>10, <1>17

\* So no two symbols weigh the same in one place.
LEMMA WeighApart ==
    ASSUME NEW t \in Nat, NEW i \in 1 .. CrcModulus - 1,
           NEW x \in 0 .. CrcModulus - 1, NEW y \in 0 .. CrcModulus - 1, x < y
    PROVE  (t + i * x) % CrcModulus # (t + i * y) % CrcModulus
<1>1. PICK p, u, v : p = CrcModulus /\ u = t + i * x /\ v = t + i * y
  OBVIOUS
<1>2. p \in Nat \ {0, 1} /\ i \in 1 .. p - 1 /\ x \in 0 .. p - 1 /\ y \in 0 .. p - 1
  BY <1>1, CrcAssumption
<1>3. u \in Nat /\ v \in Nat
  BY <1>1, <1>2
<1>4. PICK d : d = y - x
  OBVIOUS
<1>5. d \in 1 .. p - 1
  BY <1>2, <1>4
<1>6. v - u = i * d /\ i * d \in Nat \ {0}
  BY <1>1, <1>2, <1>4, <1>5
<1> SUFFICES ASSUME u % p = v % p PROVE FALSE
  BY <1>1
<1>7. PICK a, b, r : a = u \div p /\ b = v \div p /\ r = u % p
  OBVIOUS
<1>8. a \in Nat /\ b \in Nat /\ r \in 0 .. p - 1 /\ u = p * a + r /\ v = p * b + r
  <2>1. p \in Nat \ {0}
    BY <1>2
  <2>2. u \div p \in Nat /\ u % p \in 0 .. p - 1 /\ u = p * (u \div p) + (u % p)
    BY ONLY <1>3, <2>1, Division
  <2>3. v \div p \in Nat /\ v % p \in 0 .. p - 1 /\ v = p * (v \div p) + (v % p)
    BY ONLY <1>3, <2>1, Division
  <2> QED
    BY <1>7, <2>2, <2>3
<1>9. PICK c : c = b - a
  OBVIOUS
<1>10. c \in Int /\ i * d = p * c
  BY <1>2, <1>6, <1>8, <1>9
<1>11. c \in Nat
  BY <1>2, <1>6, <1>10
<1>12. (i * d) % p = 0
  <2>1. p \in Nat \ {0} /\ 0 \in 0 .. p - 1
    BY <1>2
  <2>2. (p * c + 0) % p = 0
    BY ONLY <1>11, <2>1, DivisionUnique
  <2>3. p * c + 0 = i * d
    BY <1>6, <1>10
  <2> QED
    BY <2>2, <2>3
<1> QED
  BY <1>1, <1>2, <1>5, <1>12, NoFactor

\* What the other places weigh, and what one weighs, make up the checksum.
LEMMA CrcSplits ==
    ASSUME NEW s \in Seq(Nat), NEW i \in 1 .. Len(s), s[i] \in 0 .. CrcModulus - 1,
           NEW w, \A j \in 1 .. Len(s) : j # i => w[j] = j * (s[j] % CrcModulus)
    PROVE  LET t == SumOf(w, 1 .. Len(s) \ {i}) IN
           t \in Nat /\ Crc(s) = (t + i * s[i]) % CrcModulus
<1>1. PICK n, p : n = Len(s) /\ p = CrcModulus
  OBVIOUS
<1>2. /\ n \in Nat /\ DOMAIN s = 1 .. n /\ p \in Nat \ {0} /\ i \in 1 .. n
      /\ \A j \in 1 .. n : s[j] \in Nat
  BY <1>1, CrcAssumption, LenProperties, ElementOfSeq
<1>3. PICK v, R : v = [j \in 1 .. n |-> j * (s[j] % p)] /\ R = 1 .. n \ {i}
  OBVIOUS
<1>4. \A j \in 1 .. n : v[j] \in Nat
  <2> SUFFICES ASSUME NEW j \in 1 .. n PROVE v[j] \in Nat
    OBVIOUS
  <2>1. PICK d : d = s[j] % p
    OBVIOUS
  <2>2. s[j] \in Nat
    BY <1>2
  <2>3. d \in Nat
    <3>1. s[j] % p \in 0 .. p - 1
      BY ONLY <1>2, <2>2, Division
    <3> QED
      BY <1>2, <2>1, <3>1
  <2>4. j * d \in Nat
    BY <1>2, <2>3
  <2> QED
    BY <1>3, <2>1, <2>4
<1>5. v[i] = i * s[i]
  <2>1. s[i] % p = s[i]
    <3>1. PICK x : x = s[i]
      OBVIOUS
    <3>2. x \in 0 .. p - 1 /\ 0 \in Nat
      BY <1>1, <3>1
    <3>3. (p * 0 + x) % p = x
      BY ONLY <1>2, <3>2, DivisionUnique
    <3>4. p * 0 + x = x
      BY <1>2, <3>2
    <3> QED
      BY <3>1, <3>3, <3>4
  <2> QED
    BY <1>2, <1>3, <2>1
<1>6. IsFiniteSet(R) /\ R \union {i} = 1 .. n /\ i \notin R
  <2>1. IsFiniteSet(1 .. n)
    BY <1>2, FS_Interval
  <2>2. IsFiniteSet(1 .. n \ {i})
    BY <2>1, FS_RemoveElement
  <2> QED
    BY <1>2, <1>3, <2>2
<1>7. SumOf(v, 1 .. n) = SumOf(v, R) + v[i] /\ SumOf(v, R) \in Nat
  <2>1. \A j \in R \union {i} : v[j] \in Nat
    BY <1>4, <1>6
  <2>2. SumOf(v, R \union {i}) = SumOf(v, R) + v[i]
    BY ONLY <1>6, <2>1, SumAdd
  <2>3. SumOf(v, R) \in Nat
    BY ONLY <1>6, <2>1, SumType
  <2> QED
    BY <1>6, <2>2, <2>3
<1>8. SumOf(w, R) = SumOf(v, R)
  <2>1. \A j \in R : v[j] \in Nat /\ w[j] = v[j]
    BY <1>1, <1>3, <1>4
  <2> QED
    BY ONLY <1>6, <2>1, SumSame
<1>9. Crc(s) = SumOf(v, 1 .. n) % p
  <2>1. Crc(s) = SumOf([j \in DOMAIN s |-> j * (s[j] % CrcModulus)], DOMAIN s) % CrcModulus
    BY DEF Crc, SumOf
  <2> QED
    BY <1>1, <1>2, <1>3, <2>1
<1> QED
  BY <1>1, <1>3, <1>5, <1>7, <1>8, <1>9

\* One wrong symbol changes the checksum.
LEMMA CrcTells ==
    ASSUME NEW x \in Seq(Nat), NEW y \in Seq(Nat), Len(x) = Len(y), Len(x) < CrcModulus,
           NEW i \in 1 .. Len(x), \A j \in 1 .. Len(x) : j # i => y[j] = x[j],
           x[i] # y[i], {x[i], y[i]} \subseteq 0 .. CrcModulus - 1
    PROVE  Crc(x) # Crc(y)
<1>1. PICK w : w = [j \in 1 .. Len(x) |-> j * (x[j] % CrcModulus)]
  OBVIOUS
<1>2. PICK t : t = SumOf(w, 1 .. Len(x) \ {i})
  OBVIOUS
<1>3. t \in Nat /\ Crc(x) = (t + i * x[i]) % CrcModulus
  <2>1. \A j \in 1 .. Len(x) : j # i => w[j] = j * (x[j] % CrcModulus)
    BY <1>1
  <2> QED
    BY <1>2, <2>1, CrcSplits
<1>4. Crc(y) = (t + i * y[i]) % CrcModulus
  <2>1. \A j \in 1 .. Len(y) : j # i => w[j] = j * (y[j] % CrcModulus)
    BY <1>1
  <2>2. i \in 1 .. Len(y) /\ t = SumOf(w, 1 .. Len(y) \ {i})
    BY <1>2
  <2> QED
    BY <2>1, <2>2, CrcSplits
<1>5. PICK a, b, p : a = x[i] /\ b = y[i] /\ p = CrcModulus
  OBVIOUS
<1>6. p \in Nat /\ a \in 0 .. p - 1 /\ b \in 0 .. p - 1 /\ a # b /\ i \in 1 .. p - 1
  <2>1. Len(x) \in Nat
    BY LenProperties
  <2> QED
    BY <1>5, <2>1, CrcAssumption
<1>7. CASE a < b
  BY <1>3, <1>4, <1>5, <1>6, <1>7, WeighApart
<1>8. CASE b < a
  BY <1>3, <1>4, <1>5, <1>6, <1>8, WeighApart
<1> QED
  BY <1>6, <1>7, <1>8
\* What is read of a row that is cut is what is read of the whole row.
LEMMA CutReads ==
    ASSUME NEW S \in SUBSET Nat, NEW s \in Seq(S), NEW t \in Seq(S), Len(t) <= Len(s),
           \A i \in 1 .. Len(t) : t[i] = s[i], NEW from \in Nat, ReadVarint(t, from).ok
    PROVE  ReadVarint(s, from) = ReadVarint(t, from)
<1>0. VarintBytes \in Nat /\ Len(s) \in Nat /\ Len(t) \in Nat
  BY CodecAssumption, LenProperties
<1>1. PICK n : n \in Ends(t, from)
  <2>1. Ends(t, from) # {}
    <3>1. ~Unread.ok
      BY DEF Unread
    <3>2. Ends(t, from) = {} => ReadVarint(t, from) = Unread
      BY VarintReadAs
    <3> QED
      BY <3>1, <3>2
  <2> QED
    BY <2>1
<1>2. n \in 1 .. VarintBytes /\ from + n <= Len(t) /\ n \in Nat
  BY <1>0, <1>1 DEF Ends
<1>3. \A m \in 1 .. n : t[from + m] = s[from + m]
  <2> SUFFICES ASSUME NEW m \in 1 .. n PROVE t[from + m] = s[from + m]
    OBVIOUS
  <2>1. from + m \in 1 .. Len(t)
    BY <1>0, <1>2
  <2> QED
    BY <2>1
<1>4. n \in Ends(s, from)
  <2>1. from + n <= Len(s)
    BY <1>0, <1>2
  <2>2. s[from + n] < VarintBase
    <3>1. n \in 1 .. n
      BY <1>2
    <3> QED
      BY <1>1, <1>3, <3>1 DEF Ends
  <2>3. \A m \in 1 .. n - 1 : s[from + m] >= VarintBase
    <3>1. \A m \in 1 .. n - 1 : m \in 1 .. n
      BY <1>2
    <3> QED
      BY <1>1, <1>3, <3>1 DEF Ends
  <2> QED
    BY <1>2, <2>1, <2>2, <2>3 DEF Ends
<1>5. Weights(s, from, n) = Weights(t, from, n)
  BY <1>3 DEF Weights
<1>6. ReadVarint(t, from) = Read(SumOf(Weights(t, from, n), 1 .. n), from + n)
  BY <1>1, VarintReadAs
<1>7. ReadVarint(s, from) = Read(SumOf(Weights(s, from, n), 1 .. n), from + n)
  BY <1>4, VarintReadAs
<1> QED
  BY <1>5, <1>6, <1>7

\* So a row that is cut is not as long as it says it is.
LEMMA CutIsShort ==
    ASSUME NEW s \in Seq(Nat), LengthFits(s), NEW d \in Cut(s)
    PROVE  ~LengthFits(d)
<1>1. PICK n \in 0 .. Len(s) - 1 : d = SubSeq(s, 1, n)
  BY DEF Cut
<1>2. Len(s) \in Nat /\ \A i \in 1 .. Len(s) : s[i] \in Nat
  BY LenProperties, ElementOfSeq
<1>3. d \in Seq(Nat) /\ Len(d) = n /\ \A i \in 1 .. n : d[i] = s[i]
  BY <1>1, <1>2
<1>4. PICK r, u : r = ReadVarint(d, 4) /\ u = ReadVarint(s, 4)
  OBVIOUS
<1>5. ASSUME r.ok PROVE r.at + r.val + 2 # n
  <2>1. Len(d) <= Len(s) /\ \A i \in 1 .. Len(d) : d[i] = s[i]
    BY <1>1, <1>2, <1>3
  <2>2. Nat \in SUBSET Nat /\ 4 \in Nat /\ ReadVarint(d, 4).ok
    BY <1>4, <1>5
  <2>3. ReadVarint(s, 4) = ReadVarint(d, 4)
    BY ONLY <1>3, <2>1, <2>2, CutReads
  <2>4. u.at + u.val + 2 = Len(s)
    BY <1>4 DEF LengthFits
  <2> QED
    BY <1>1, <1>2, <1>4, <2>3, <2>4
<1> QED
  BY <1>3, <1>4, <1>5 DEF LengthFits

\* What a row that damage is done to is like.
LEMMA FragileRows ==
    ASSUME NEW s \in Fragile
    PROVE  /\ s \in Seq(Nat) /\ Len(s) \in Nat /\ Len(s) > 5
           /\ Crc(Front(s)) = Last(s) /\ LengthFits(s) /\ ~LengthFits(Append(s, 0))
<1>1. PICK kind \in {KindRaw, KindPlan}, hashKind \in HashKinds, b \in Seq(Byte), hash \in Nat :
        Len(b) + 1 < Words /\ s = Frame(kind, hashKind, b, hash)
  BY IntactRows, InputAssumption
<1>2. kind \in Nat /\ hashKind \in Nat /\ Len(b) < Words /\ Len(b) \in Nat
  <2>1. kind \in Nat /\ hashKind \in Nat
    BY DEF KindRaw, KindPlan, HashKinds
  <2>2. Len(b) \in Nat /\ Words \in Nat
    BY LenProperties, SmallBytes, CodecAssumption
  <2> QED
    BY <1>1, <2>1, <2>2
<1>3. PICK l : l = Len(PutVarint(Len(b)))
  OBVIOUS
<1>4. Framed(kind, hashKind, b, hash, l, s)
  BY <1>1, <1>2, <1>3, FrameParts
<1>5. s \in Seq(Nat) /\ l \in Nat /\ Len(s) = 4 + l + Len(b) + 2 /\ Crc(Front(s)) = Last(s)
      /\ ReadVarint(s, 4) = Read(Len(b), 4 + l)
  BY <1>4 DEF Framed
<1>6. LengthFits(s)
  <2>1. PICK r : r = ReadVarint(s, 4)
    OBVIOUS
  <2>2. r.ok /\ r.at = 4 + l /\ r.val = Len(b)
    BY <1>5, <2>1 DEF Read
  <2>3. r.at + r.val + 2 = Len(s)
    BY <1>5, <2>2
  <2> QED
    BY <2>1, <2>2, <2>3 DEF LengthFits
<1>7. ~LengthFits(Append(s, 0))
  BY <1>1, <1>2, RunsOn
<1> QED
  BY <1>2, <1>5, <1>6, <1>7

\* A row with a wrong byte has not the checksum it ends in.
LEMMA AlteredSum ==
    ASSUME NEW s \in Fragile, NEW d \in Altered(s)
    PROVE  Crc(Front(d)) # Last(d)
<1>1. PICK i \in DOMAIN s, b \in Byte : d = [s EXCEPT ![i] = b] /\ d # s
  BY DEF Altered
<1>2. PICK n, p : n = Len(s) /\ p = CrcModulus
  OBVIOUS
<1>3. /\ s \in Seq(Nat) /\ n \in Nat /\ n > 5 /\ DOMAIN s = 1 .. n /\ i \in 1 .. n
      /\ Crc(Front(s)) = Last(s)
  BY <1>2, FragileRows, LenProperties
<1>4. p \in Nat /\ n < p /\ b \in 0 .. p - 1 /\ \A j \in 1 .. n : s[j] \in 0 .. p - 1
  <2>1. 2 * VarintBase <= p /\ n < p /\ \A j \in 1 .. n : s[j] \in 0 .. p - 1
    BY <1>2, <1>3, SumAssumption
  <2>2. b \in 0 .. p - 1
    BY <1>2, <2>1, CrcAssumption, CodecAssumption DEF Byte
  <2> QED
    BY <1>2, <2>1, <2>2, CrcAssumption
<1>5. /\ d \in Seq(Nat) /\ Len(d) = n /\ d[i] = b
      /\ \A j \in 1 .. n : j # i => d[j] = s[j]
  <2>1. b \in Nat /\ \A j \in 1 .. n : s[j] \in Nat
    BY <1>4
  <2>2. d \in [1 .. n -> Nat]
    BY <1>1, <1>3, <2>1
  <2>3. d \in Seq(Nat) /\ Len(d) = n
    BY <1>3, <2>2, IsASeq, LenProperties
  <2> QED
    BY <1>1, <1>3, <2>3
<1>6. s[i] # b
  BY <1>1, <1>3
<1>7. PICK f, g : f = Front(s) /\ g = Front(d)
  OBVIOUS
<1>8. /\ f \in Seq(Nat) /\ Len(f) = n - 1 /\ \A j \in 1 .. n - 1 : f[j] = s[j]
      /\ Last(s) = s[n]
  <2>1. f = SubSeq(s, 1, n - 1) /\ Last(s) = s[n]
    BY <1>2, <1>7 DEF Front, Last
  <2>2. \A j \in 1 .. n - 1 : s[j] \in Nat
    BY <1>3, <1>4
  <2> QED
    BY <1>2, <1>3, <2>1, <2>2
<1>9. /\ g \in Seq(Nat) /\ Len(g) = n - 1 /\ \A j \in 1 .. n - 1 : g[j] = d[j]
      /\ Last(d) = d[n]
  <2>1. g = SubSeq(d, 1, n - 1) /\ Last(d) = d[n]
    BY <1>5, <1>7 DEF Front, Last
  <2>2. \A j \in 1 .. n : d[j] \in Nat
    BY <1>5, ElementOfSeq
  <2> QED
    BY <1>3, <1>5, <2>1, <2>2
<1>10. CASE i = n
  <2>1. f = g
    <3>1. \A j \in 1 .. n - 1 : f[j] = g[j]
      BY <1>3, <1>5, <1>8, <1>9, <1>10
    <3> QED
      BY <1>8, <1>9, <3>1, SeqEqual
  <2>2. Last(d) = b /\ Last(s) # b
    BY <1>5, <1>6, <1>8, <1>9, <1>10
  <2> QED
    BY <1>3, <1>7, <2>1, <2>2
<1>11. CASE i # n
  <2>1. i \in 1 .. n - 1 /\ n - 1 < p
    BY <1>3, <1>4, <1>11
  <2>2. \A j \in 1 .. n - 1 : j # i => g[j] = f[j]
    BY <1>3, <1>5, <1>8, <1>9
  <2>3. f[i] = s[i] /\ g[i] = b
    BY <1>5, <1>8, <1>9, <2>1
  <2>4. Crc(f) # Crc(g)
    <3>1. f \in Seq(Nat) /\ g \in Seq(Nat) /\ Len(f) = Len(g) /\ i \in 1 .. Len(f)
      BY <1>8, <1>9, <2>1
    <3>2. Len(f) < CrcModulus
      BY <1>2, <1>8, <2>1
    <3>3. \A j \in 1 .. Len(f) : j # i => g[j] = f[j]
      BY <1>8, <2>2
    <3>4. f[i] # g[i] /\ {f[i], g[i]} \subseteq 0 .. CrcModulus - 1
      BY <1>2, <1>3, <1>4, <1>6, <2>3
    <3> QED
      BY ONLY <3>1, <3>2, <3>3, <3>4, CrcTells
  <2>5. Last(d) = Last(s)
    <3>1. n \in 1 .. n /\ n # i
      BY <1>3, <1>11
    <3> QED
      BY <1>5, <1>8, <1>9, <3>1
  <2> QED
    BY <1>3, <1>7, <2>4, <2>5
<1> QED
  BY <1>10, <1>11

\* The frame of a damaged row is never right.
LEMMA DamageFails == input \in Damaged => ~FrameOk
<1> SUFFICES ASSUME input \in Damaged PROVE ~FrameOk
  OBVIOUS
<1>1. PICK s \in Fragile : input \in Cut(s) \union Altered(s) \union {Append(s, 0)}
  BY DEF Damaged
<1>2. FrameOk => LengthFits(input) /\ Crc(Front(input)) = Last(input)
  BY DEF FrameOk, LengthFits, SumOk
<1>3. CASE input \in Cut(s)
  BY <1>2, <1>3, FragileRows, CutIsShort
<1>4. CASE input \in Altered(s)
  BY <1>2, <1>4, AlteredSum
<1>5. CASE input = Append(s, 0)
  BY <1>2, <1>5, FragileRows
<1> QED
  BY <1>1, <1>3, <1>4, <1>5

\* A damaged row is not read beyond its frame.
StopsAtFrame == input \in Damaged => stage \in {"frame", "refused"}

\* A row that is cut short or run on, or that has one wrong byte, is never
\* decoded, wherever the damage is: the length in the frame gives the first
\* two away, the checksum the third (ValueEnvelope::decode).
THEOREM DamageCorrect == FormatSpec => []DamageRefused
<1>1. FormatInit => StopsAtFrame
  BY DEF FormatInit, StopsAtFrame
<1>2. StopsAtFrame /\ [FormatNext]_formatVars => StopsAtFrame'
  <2> SUFFICES ASSUME StopsAtFrame, [FormatNext]_formatVars, input' \in Damaged'
               PROVE  stage' \in {"frame", "refused"}
    BY DEF StopsAtFrame
  <2>1. input' = input
    BY DEF FormatNext, Finished, ReadFrame, ReadRaw, ReadHeader, ReadStream, ReadChunkCount,
           ReadChunk, ReadEnd, ReadBytes, Verify, Refuse, formatVars
  <2>2. Damaged' = Damaged
    BY DEF Damaged, Cut, Altered
  <2>3. input \in Damaged /\ stage \in {"frame", "refused"}
    BY <2>1, <2>2 DEF StopsAtFrame
  <2>4. CASE UNCHANGED formatVars
    BY <2>3, <2>4 DEF formatVars
  <2>5. CASE stage = "refused" /\ FormatNext
    <3>1. Finished
      BY <2>5 DEF FormatNext, ReadFrame, ReadRaw, ReadHeader, ReadStream, ReadChunkCount,
                  ReadChunk, ReadEnd, ReadBytes, Verify
    <3> QED
      BY <2>5, <3>1 DEF Finished, formatVars
  <2>6. CASE stage = "frame" /\ FormatNext
    <3>1. ReadFrame
      BY <2>6 DEF FormatNext, Finished, ReadRaw, ReadHeader, ReadStream, ReadChunkCount,
                  ReadChunk, ReadEnd, ReadBytes, Verify
    <3>2. Refuse
      BY <2>3, <3>1, DamageFails DEF ReadFrame
    <3> QED
      BY <3>2 DEF Refuse
  <2> QED
    BY <2>3, <2>4, <2>5, <2>6
<1>3. StopsAtFrame => DamageRefused
  BY DEF StopsAtFrame, DamageRefused, Decoded
<1> QED
  BY <1>1, <1>2, <1>3, PTL DEF FormatSpec
=============================================================================
