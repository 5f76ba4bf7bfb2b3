------------------------------ MODULE CodecProofs ------------------------------
(***************************************************************************)
(* Proofs about Codec, for any base and width: a varint is as long as its  *)
(* number needs, and reading one gives the number that was written.        *)
(***************************************************************************)
EXTENDS Codec, Recursion, SequenceTheorems

-----------------------------------------------------------------------------
(* Division *)

\* What the quotient and the remainder are.
LEMMA Division ==
    ASSUME NEW n \in Nat, NEW b \in Nat \ {0}
    PROVE  /\ n \div b \in Nat /\ n % b \in 0 .. b - 1
           /\ n = b * (n \div b) + (n % b)
OBVIOUS

\* There are no others.
LEMMA DivisionUnique ==
    ASSUME NEW b \in Nat \ {0}, NEW q \in Nat, NEW r \in 0 .. b - 1
    PROVE  (b * q + r) \div b = q /\ (b * q + r) % b = r
<1> DEFINE n == b * q + r
           p == n \div b
           s == n % b
<1>1. n \in Nat
  OBVIOUS
<1>2. p \in Nat /\ s \in 0 .. b - 1 /\ b * q + r = b * p + s
  BY <1>1, Division
<1> HIDE DEF p, s, n
<1>3. ASSUME p < q PROVE FALSE
  <2>1. PICK d \in Nat \ {0} : q = p + d
    BY <1>2, <1>3
  <2>2. b * q = b * p + b * d /\ b * d >= b
    BY <1>2, <2>1
  <2> QED
    BY <1>2, <2>2
<1>4. ASSUME q < p PROVE FALSE
  <2>1. PICK d \in Nat \ {0} : p = q + d
    BY <1>2, <1>4
  <2>2. b * p = b * q + b * d /\ b * d >= b
    BY <1>2, <2>1
  <2> QED
    BY <1>2, <2>2
<1>5. p = q
  BY <1>2, <1>3, <1>4
<1> QED
  BY <1>2, <1>5 DEF p, s, n

\* To divide by one number and then by another is to divide by their product.
LEMMA DivisionTwice ==
    ASSUME NEW n \in Nat, NEW a \in Nat \ {0}, NEW b \in Nat \ {0}
    PROVE  (n \div a) \div b = n \div (a * b)
<1> DEFINE q == n \div a
           r == n % a
           p == q \div b
           s == q % b
<1>1. q \in Nat /\ r \in 0 .. a - 1 /\ n = a * q + r
  BY Division
<1>2. p \in Nat /\ s \in 0 .. b - 1 /\ q = b * p + s
  BY <1>1, Division
<1> HIDE DEF q, r, p, s
<1>3. n = (a * b) * p + (a * s + r)
  <2>1. a * (b * p + s) = (a * b) * p + a * s
    BY <1>2
  <2> QED
    BY <1>1, <1>2, <2>1
<1>4. a * s + r \in 0 .. a * b - 1 /\ a * b \in Nat \ {0}
  <2>1. a * s <= a * (b - 1) /\ a * (b - 1) = a * b - a /\ a * s \in Nat
    BY <1>2
  <2> QED
    BY <1>1, <2>1
<1>5. n \div (a * b) = p
  BY <1>2, <1>3, <1>4, DivisionUnique
<1> QED
  BY <1>5 DEF p, q

-----------------------------------------------------------------------------
(* Powers and the lengths of varints *)

\* Powers of the base are positive numbers, and grow.
LEMMA Powers ==
    \A m \in 0 .. VarintBytes :
      /\ VarintBase ^ m \in Nat \ {0}
      /\ \A n \in 0 .. m : VarintBase ^ n <= VarintBase ^ m
<1> DEFINE Positive == {m \in Nat : m <= VarintBytes => VarintBase ^ m \in Nat \ {0}}
<1> DEFINE Above == {m \in Nat : m <= VarintBytes =>
                       \A n \in 0 .. m : VarintBase ^ n <= VarintBase ^ m}
<1>0. VarintBase \in Nat /\ VarintBase >= 2 /\ VarintBytes \in Nat
  BY CodecAssumption
<1>1. ASSUME NEW m \in Nat, m + 1 <= VarintBytes
      PROVE  m \in 0 .. VarintBytes - 1 /\ VarintBase ^ (m + 1) = VarintBase * VarintBase ^ m
  <2>1. m \in 0 .. VarintBytes - 1
    BY <1>0, <1>1
  <2> QED
    BY <2>1, PowerAssumption
<1>2. \A b \in Nat, p \in Nat \ {0} : b >= 2 => b * p \in Nat \ {0} /\ p <= b * p
  OBVIOUS
<1>3. Nat \subseteq Positive
  <2>1. 0 \in Positive
    BY PowerAssumption
  <2>2. ASSUME NEW m \in Nat, m \in Positive PROVE m + 1 \in Positive
    <3> SUFFICES ASSUME m + 1 <= VarintBytes PROVE VarintBase ^ (m + 1) \in Nat \ {0}
      OBVIOUS
    <3>1. VarintBase ^ m \in Nat \ {0}
      BY <1>0, <2>2
    <3> QED
      BY <1>0, <1>1, <1>2, <3>1
  <2> HIDE DEF Positive
  <2> QED
    BY <2>1, <2>2, Induction
<1>4. Nat \subseteq Above
  <2>1. 0 \in Above
    BY PowerAssumption
  <2>2. ASSUME NEW m \in Nat, m \in Above PROVE m + 1 \in Above
    <3> SUFFICES ASSUME m + 1 <= VarintBytes, NEW n \in 0 .. m + 1
                 PROVE  VarintBase ^ n <= VarintBase ^ (m + 1)
      OBVIOUS
    <3>1. VarintBase ^ m \in Nat \ {0} /\ VarintBase ^ (m + 1) \in Nat \ {0}
      BY <1>0, <1>3
    <3>2. VarintBase ^ m <= VarintBase ^ (m + 1)
      BY <1>0, <1>1, <1>2, <3>1
    <3>3. CASE n \in 0 .. m
      <4>1. VarintBase ^ n <= VarintBase ^ m /\ VarintBase ^ n \in Nat
        BY <1>0, <1>3, <2>2, <3>3
      <4> QED
        BY <3>1, <3>2, <4>1
    <3>4. CASE n = m + 1
      BY <3>1, <3>4
    <3> QED
      BY <3>3, <3>4
  <2> HIDE DEF Above
  <2> QED
    BY <2>1, <2>2, Induction
<1> QED
  BY <1>0, <1>3, <1>4

\* A number that fits a word takes as many bytes as it needs.
LEMMA VarintLenIs ==
    ASSUME NEW n \in Nat, n < Words
    PROVE  /\ VarintLen(n) \in 1 .. VarintBytes
           /\ n < VarintBase ^ VarintLen(n)
           /\ VarintLen(n) > 1 => n >= VarintBase ^ (VarintLen(n) - 1)
<1> DEFINE Enough == {m \in 1 .. VarintBytes : n < VarintBase ^ m}
<1>0. VarintBytes \in Nat \ {0} /\ Words \in Nat /\ Words <= VarintBase ^ VarintBytes
  BY CodecAssumption
<1>1. \A m \in 0 .. VarintBytes : VarintBase ^ m \in Nat
  BY Powers
<1>2. VarintBytes \in Enough
  BY <1>0, <1>1
<1>3. PICK m \in Enough : \A l \in Enough : m <= l
  <2>1. Enough \in SUBSET Nat /\ Enough # {}
    BY <1>2
  <2> HIDE DEF Enough
  <2> QED
    BY <2>1, LeastNumber
<1>4. m > 1 => n >= VarintBase ^ (m - 1)
  <2> SUFFICES ASSUME m > 1, n < VarintBase ^ (m - 1) PROVE FALSE
    BY <1>0, <1>1, <1>3
  <2>1. m - 1 \in Enough
    BY <1>0
  <2> QED
    BY <1>3, <2>1
<1> QED
  BY <1>3, <1>4 DEF VarintLen

\* A smaller number takes no more bytes.
LEMMA VarintLenGrows ==
    ASSUME NEW m \in Nat, NEW n \in Nat, m <= n, n < Words
    PROVE  VarintLen(m) <= VarintLen(n)
<1> DEFINE a == VarintLen(m)
           b == VarintLen(n)
<1>1. a \in 1 .. VarintBytes /\ (a > 1 => m >= VarintBase ^ (a - 1))
  BY CodecAssumption, VarintLenIs
<1>2. b \in 1 .. VarintBytes /\ n < VarintBase ^ b
  BY VarintLenIs
<1> HIDE DEF a, b
<1> SUFFICES ASSUME b < a PROVE FALSE
  BY <1>1, <1>2 DEF a, b
<1>3. a > 1 /\ a - 1 \in 0 .. VarintBytes /\ b \in 0 .. a - 1
  BY <1>1, <1>2, CodecAssumption
<1>4. VarintBase ^ b <= VarintBase ^ (a - 1)
  BY <1>3, Powers
<1>5. VarintBase ^ b \in Nat /\ VarintBase ^ (a - 1) \in Nat
  BY <1>3, <1>2, Powers
<1> QED
  BY <1>1, <1>2, <1>3, <1>4, <1>5
-----------------------------------------------------------------------------
(* What is written is read *)

Digit(n, m) == (n \div VarintBase ^ (m - 1)) % VarintBase

\* Weighed with the powers of the base, the first digits of a number and the
\* quotient that is left make up the number.
LEMMA DigitsAddUp ==
    ASSUME NEW n \in Nat, NEW k \in 0 .. VarintBytes, NEW w,
           \A m \in 1 .. k : w[m] = Digit(n, m) * VarintBase ^ (m - 1)
    PROVE  /\ \A m \in 1 .. k : w[m] \in Nat
           /\ SumOf(w, 1 .. k) \in Nat
           /\ SumOf(w, 1 .. k) + VarintBase ^ k * (n \div VarintBase ^ k) = n
<1>0. VarintBase \in Nat \ {0} /\ VarintBytes \in Nat
  BY CodecAssumption
<1>1. ASSUME NEW m \in 1 .. k
      PROVE  /\ VarintBase ^ (m - 1) \in Nat \ {0} /\ VarintBase ^ m \in Nat \ {0}
             /\ VarintBase ^ m = VarintBase * VarintBase ^ (m - 1)
  <2>1. m \in 0 .. VarintBytes /\ m - 1 \in 0 .. VarintBytes - 1 /\ (m - 1) + 1 = m
        /\ m - 1 \in 0 .. VarintBytes
    BY <1>0
  <2>2. VarintBase ^ ((m - 1) + 1) = VarintBase * VarintBase ^ (m - 1)
    BY <2>1, PowerAssumption
  <2> QED
    BY <2>1, <2>2, Powers
<1>2. ASSUME NEW m \in 1 .. k
      PROVE  /\ w[m] \in Nat
             /\ w[m] + VarintBase ^ m * (n \div VarintBase ^ m)
                  = VarintBase ^ (m - 1) * (n \div VarintBase ^ (m - 1))
  <2>1. PICK p, q : p = VarintBase ^ (m - 1) /\ q = n \div p
    OBVIOUS
  <2>2. p \in Nat \ {0} /\ VarintBase ^ m = p * VarintBase
    BY <1>0, <1>1, <2>1
  <2>3. q \in Nat
    BY <2>1, <2>2, Division
  <2>4. PICK d, r : d = q % VarintBase /\ r = q \div VarintBase
    OBVIOUS
  <2>5. d \in Nat /\ r \in Nat /\ q = VarintBase * r + d
    BY <1>0, <2>3, <2>4, Division
  <2>6. n \div VarintBase ^ m = r
    <3>1. (n \div p) \div VarintBase = n \div (p * VarintBase)
      BY <1>0, <2>2, DivisionTwice
    <3> QED
      BY <2>1, <2>2, <2>4, <3>1
  <2>7. w[m] = d * p
    BY <2>1, <2>4 DEF Digit
  <2>8. d * p + (p * VarintBase) * r = p * (VarintBase * r + d)
    BY <1>0, <2>2, <2>5
  <2> QED
    BY <2>1, <2>2, <2>5, <2>6, <2>7, <2>8
<1> DEFINE rest(m) == VarintBase ^ m * (n \div VarintBase ^ m)
           Good == {m \in Nat : m <= k => SumOf(w, 1 .. m) \in Nat
                                          /\ SumOf(w, 1 .. m) + rest(m) = n}
<1>3. \A m \in 0 .. k : rest(m) \in Nat
  <2> SUFFICES ASSUME NEW m \in 0 .. k PROVE rest(m) \in Nat
    OBVIOUS
  <2>1. VarintBase ^ m \in Nat \ {0}
    BY <1>0, Powers
  <2>2. n \div VarintBase ^ m \in Nat
    BY <2>1, Division
  <2> QED
    BY <2>1, <2>2
<1>4. rest(0) = n
  <2>1. n \div 1 = n
    OBVIOUS
  <2> QED
    BY <2>1, PowerAssumption
<1>5. \A m \in 1 .. k : w[m] \in Nat /\ w[m] + rest(m) = rest(m - 1)
  BY <1>2
<1> HIDE DEF rest
<1>6. 0 \in Good
  <2>1. 1 .. 0 = {}
    OBVIOUS
  <2> QED
    BY <1>4, <2>1, SumEmpty
<1>7. ASSUME NEW m \in Nat, m \in Good PROVE m + 1 \in Good
  <2> SUFFICES ASSUME m + 1 <= k
               PROVE  SumOf(w, 1 .. m + 1) \in Nat /\ SumOf(w, 1 .. m + 1) + rest(m + 1) = n
    OBVIOUS
  <2>1. m + 1 \in 1 .. k /\ m \in 0 .. k /\ (m + 1) - 1 = m /\ m + 1 \in 0 .. k
    BY <1>0
  <2>2. SumOf(w, 1 .. m) \in Nat /\ SumOf(w, 1 .. m) + rest(m) = n
    BY <1>7, <2>1
  <2>3. SumOf(w, 1 .. m + 1) = SumOf(w, 1 .. m) + w[m + 1]
    <3>1. \A x \in 1 .. m + 1 : w[x] \in Nat
      BY <1>0, <1>5, <2>1
    <3> QED
      BY <3>1, SumUpTo
  <2>4. w[m + 1] \in Nat /\ w[m + 1] + rest(m + 1) = rest(m)
    BY <1>5, <2>1
  <2>5. rest(m) \in Nat /\ rest(m + 1) \in Nat
    BY <1>3, <2>1
  <2> QED
    BY <2>2, <2>3, <2>4, <2>5
<1>8. k \in Good
  <2> HIDE DEF Good
  <2> QED
    BY <1>0, <1>6, <1>7, Induction
<1> QED
  BY <1>0, <1>5, <1>8 DEF rest

\* Digits add up to less than the power that comes next.
LEMMA DigitsBelow ==
    ASSUME NEW k \in 0 .. VarintBytes, NEW w,
           \A m \in 1 .. k : /\ w[m] \in Nat
                             /\ w[m] <= (VarintBase - 1) * VarintBase ^ (m - 1)
    PROVE  SumOf(w, 1 .. k) \in Nat /\ SumOf(w, 1 .. k) < VarintBase ^ k
<1>0. VarintBase \in Nat \ {0} /\ VarintBytes \in Nat
  BY CodecAssumption
<1> DEFINE Good == {m \in Nat : m <= k => SumOf(w, 1 .. m) \in Nat
                                          /\ SumOf(w, 1 .. m) < VarintBase ^ m}
<1>1. 0 \in Good
  <2>1. 1 .. 0 = {}
    OBVIOUS
  <2> QED
    BY <2>1, SumEmpty, PowerAssumption
<1>2. ASSUME NEW m \in Nat, m \in Good PROVE m + 1 \in Good
  <2> SUFFICES ASSUME m + 1 <= k
               PROVE  /\ SumOf(w, 1 .. m + 1) \in Nat
                      /\ SumOf(w, 1 .. m + 1) < VarintBase ^ (m + 1)
    OBVIOUS
  <2>1. /\ m + 1 \in 1 .. k /\ m \in 0 .. VarintBytes - 1 /\ (m + 1) - 1 = m
        /\ m \in 0 .. VarintBytes /\ m <= k
    BY <1>0
  <2>2. SumOf(w, 1 .. m) \in Nat /\ SumOf(w, 1 .. m) < VarintBase ^ m
    BY <1>2, <2>1
  <2>3. SumOf(w, 1 .. m + 1) = SumOf(w, 1 .. m) + w[m + 1]
    <3>1. \A x \in 1 .. m + 1 : w[x] \in Nat
      BY <1>0, <2>1
    <3> QED
      BY <3>1, SumUpTo
  <2>4. PICK p : p = VarintBase ^ m
    OBVIOUS
  <2>5. p \in Nat \ {0} /\ VarintBase ^ (m + 1) = VarintBase * p
    BY <2>1, <2>4, Powers, PowerAssumption
  <2>6. w[m + 1] \in Nat /\ w[m + 1] <= (VarintBase - 1) * p
    BY <2>1, <2>4
  <2>7. (VarintBase - 1) * p = VarintBase * p - p /\ VarintBase * p \in Nat
    BY <1>0, <2>5
  <2> QED
    BY <2>2, <2>3, <2>4, <2>5, <2>6, <2>7
<1>3. k \in Good
  <2> HIDE DEF Good
  <2> QED
    BY <1>0, <1>1, <1>2, Induction
<1> QED
  BY <1>0, <1>3

\* What a byte adds to the number that is read.
Shifted(b, m) == ((b % VarintBase) * VarintBase ^ (m - 1)) % Words

\* It fits the place of the digit.
LEMMA ShiftedFits ==
    ASSUME NEW b \in Nat, NEW m \in 1 .. VarintBytes
    PROVE  /\ Shifted(b, m) \in Nat
           /\ Shifted(b, m) <= (VarintBase - 1) * VarintBase ^ (m - 1)
<1>0. VarintBase \in Nat \ {0} /\ VarintBytes \in Nat /\ Words \in Nat \ {0}
  <2>1. VarintBase ^ (VarintBytes - 1) \in Nat
    BY CodecAssumption, Powers
  <2> QED
    BY <2>1, CodecAssumption
<1>1. PICK p : p = VarintBase ^ (m - 1)
  OBVIOUS
<1>2. p \in Nat \ {0}
  <2>1. m - 1 \in 0 .. VarintBytes
    BY <1>0
  <2> QED
    BY <1>1, <2>1, Powers
<1>3. PICK d : d = b % VarintBase
  OBVIOUS
<1>4. d \in Nat /\ d <= VarintBase - 1
  BY <1>0, <1>3, Division
<1>5. d * p \in Nat /\ d * p <= (VarintBase - 1) * p
  BY <1>0, <1>2, <1>4
<1>6. (d * p) % Words \in Nat /\ (d * p) % Words <= d * p
  <2>1. PICK e : e = d * p
    OBVIOUS
  <2>2. e \in Nat
    BY <1>5, <2>1
  <2>3. e % Words \in Nat /\ e % Words <= e
    BY <1>0, <2>2
  <2> QED
    BY <2>1, <2>3
<1>7. Shifted(b, m) = (d * p) % Words
  BY <1>1, <1>3 DEF Shifted
<1> QED
  BY <1>0, <1>1, <1>2, <1>5, <1>6, <1>7

\* What does not fit the word is dropped, and no more.
LEMMA ShiftedLast ==
    ASSUME NEW b \in Nat
    PROVE  Shifted(b, VarintBytes) + VarintBase ^ (VarintBytes - 1) <= Words
<1>1. PICK p : p = VarintBase ^ (VarintBytes - 1)
  OBVIOUS
<1>2. p \in Nat \ {0} /\ p < Words /\ Words \in Nat /\ Words % p = 0
  BY <1>1, CodecAssumption, Powers
<1>3. PICK c \in Nat \ {0} : Words = p * c
  <2>1. Words \div p \in Nat /\ Words = p * (Words \div p) + (Words % p)
    BY <1>2, Division
  <2>2. Words \div p # 0
    BY <1>2, <2>1
  <2> QED
    BY <1>2, <2>1, <2>2
<1>4. PICK d : d = b % VarintBase
  OBVIOUS
<1>5. d \in Nat
  BY <1>4, CodecAssumption, Division
<1>6. PICK q, r : q = d \div c /\ r = d % c
  OBVIOUS
<1>7. q \in Nat /\ r \in 0 .. c - 1 /\ d = c * q + r
  BY <1>3, <1>5, <1>6, Division
<1>8. d * p = Words * q + p * r
  <2>1. (c * q + r) * p = (p * c) * q + p * r
    BY <1>2, <1>3, <1>7
  <2> QED
    BY <1>3, <1>7, <2>1
<1>9. p * r \in Nat /\ p * r + p <= Words
  <2>1. p * (r + 1) <= p * c /\ p * (r + 1) = p * r + p
    BY <1>2, <1>3, <1>7
  <2> QED
    BY <1>2, <1>3, <1>7, <2>1
<1>10. (d * p) % Words = p * r
  <2>1. PICK e : e = p * r
    OBVIOUS
  <2>2. e \in 0 .. Words - 1 /\ Words \in Nat \ {0}
    BY <1>2, <1>9, <2>1
  <2>3. (Words * q + e) % Words = e
    BY <1>7, <2>2, DivisionUnique
  <2> QED
    BY <1>8, <2>1, <2>3
<1>11. Shifted(b, VarintBytes) = (d * p) % Words
  BY <1>1, <1>4 DEF Shifted
<1> QED
  BY <1>1, <1>9, <1>10, <1>11

\* What is written of a number.
LEMMA WrittenVarint ==
    ASSUME NEW n \in Nat, n < Words
    PROVE  /\ VarintLen(n) \in 1 .. VarintBytes
           /\ PutVarint(n) \in Seq(Byte) /\ Len(PutVarint(n)) = VarintLen(n)
           /\ \A m \in 1 .. VarintLen(n) :
                 /\ PutVarint(n)[m] % VarintBase = Digit(n, m)
                 /\ PutVarint(n)[m] < VarintBase <=> m = VarintLen(n)
<1>0. VarintBase \in Nat \ {0} /\ VarintBytes \in Nat
  BY CodecAssumption
<1> DEFINE l == VarintLen(n)
<1>1. l \in 1 .. VarintBytes
  BY VarintLenIs
<1> HIDE DEF l
<1>2. PutVarint(n) = [m \in 1 .. l |-> Digit(n, m) + (IF m < l THEN VarintBase ELSE 0)]
  BY DEF l, PutVarint, Digit
<1>3. ASSUME NEW m \in 1 .. l
      PROVE  /\ PutVarint(n)[m] \in Byte
             /\ PutVarint(n)[m] % VarintBase = Digit(n, m)
             /\ PutVarint(n)[m] < VarintBase <=> m = l
  <2>1. PICK d : d = Digit(n, m)
    OBVIOUS
  <2>2. d \in 0 .. VarintBase - 1
    <3>1. m - 1 \in 0 .. VarintBytes
      BY <1>0, <1>1
    <3>2. n \div VarintBase ^ (m - 1) \in Nat
      BY <3>1, Powers, Division
    <3> QED
      BY <1>0, <2>1, <3>2, Division DEF Digit
  <2>3. CASE m < l
    <3>1. PutVarint(n)[m] = VarintBase * 1 + d
      BY <1>0, <1>2, <2>1, <2>2, <2>3
    <3>2. (VarintBase * 1 + d) % VarintBase = d
      BY <1>0, <2>2, DivisionUnique
    <3>3. VarintBase * 1 + d \in Byte /\ ~(VarintBase * 1 + d < VarintBase)
      BY <1>0, <2>2 DEF Byte
    <3> QED
      BY <2>1, <2>3, <3>1, <3>2, <3>3
  <2>4. CASE m = l
    <3>1. PutVarint(n)[m] = d
      BY <1>0, <1>1, <1>2, <2>1, <2>2, <2>4
    <3>2. (VarintBase * 0 + d) % VarintBase = d /\ VarintBase * 0 + d = d
      BY <1>0, <2>2, DivisionUnique
    <3> QED
      BY <1>0, <2>1, <2>2, <2>4, <3>1, <3>2 DEF Byte
  <2> QED
    BY <1>0, <1>1, <2>3, <2>4
<1>4. PutVarint(n) \in [1 .. l -> Byte]
  BY <1>2, <1>3
<1>5. PutVarint(n) \in Seq(Byte) /\ Len(PutVarint(n)) = l
  BY <1>0, <1>1, <1>4, IsASeq, LenProperties
<1> QED
  BY <1>1, <1>3, <1>5 DEF l

\* The symbols x are the next ones in s.
Holds(s, at, x) == at + Len(x) <= Len(s) /\ \A m \in 1 .. Len(x) : s[at + m] = x[m]

\* Where a varint may end that starts after the first `at` symbols.
Ends(s, at) == {n \in 1 .. VarintBytes : /\ at + n <= Len(s)
                                         /\ s[at + n] < VarintBase
                                         /\ \A m \in 1 .. n - 1 : s[at + m] >= VarintBase}
Weights(s, at, n) == [m \in 1 .. n |-> Shifted(s[at + m], m)]

\* It ends in one place, and its number is the sum of its digits.
LEMMA VarintReadAs ==
    ASSUME NEW S \in SUBSET Nat, NEW s \in Seq(S), NEW at \in Nat
    PROVE  /\ Ends(s, at) = {} => ReadVarint(s, at) = Unread
           /\ \A n \in Ends(s, at) :
                 ReadVarint(s, at) = Read(SumOf(Weights(s, at, n), 1 .. n), at + n)
<1>0. VarintBase \in Nat \ {0} /\ VarintBytes \in Nat /\ Len(s) \in Nat
  BY CodecAssumption, LenProperties
<1>a. \A i \in 1 .. Len(s) : s[i] \in Nat
  BY ElementOfSeq
<1>1. Ends(s, at) = {} => ReadVarint(s, at) = Unread
  BY DEF ReadVarint, Ends
<1>2. ASSUME NEW n \in Ends(s, at)
      PROVE  ReadVarint(s, at) = Read(SumOf(Weights(s, at, n), 1 .. n), at + n)
  <2> DEFINE digit(m) == ((s[at + m] % VarintBase) * VarintBase ^ (m - 1)) % Words
  <2>0. n \in 1 .. VarintBytes /\ at + n <= Len(s)
    BY DEF Ends
  <2>1. \A m \in 1 .. n : s[at + m] \in Nat
    <3> SUFFICES ASSUME NEW m \in 1 .. n PROVE s[at + m] \in Nat
      OBVIOUS
    <3>1. at + m \in 1 .. Len(s)
      BY <1>0, <2>0
    <3> QED
      BY <1>a, <3>1
  <2>2. \A m \in Ends(s, at) : m = n
    <3> SUFFICES ASSUME NEW m \in Ends(s, at) PROVE m = n
      OBVIOUS
    <3>1. m \in 1 .. VarintBytes /\ n \in 1 .. VarintBytes
      BY DEF Ends
    <3>2. s[at + m] \in Nat /\ s[at + n] \in Nat
      <4>1. at + m \in 1 .. Len(s) /\ at + n \in 1 .. Len(s)
        BY <1>0 DEF Ends
      <4> QED
        BY <1>a, <4>1
    <3>3. ~(m < n)
      BY <1>0, <3>1, <3>2 DEF Ends
    <3>4. ~(n < m)
      BY <1>0, <3>1, <3>2 DEF Ends
    <3> QED
      BY <3>1, <3>3, <3>4
  <2>3. (CHOOSE m \in Ends(s, at) : TRUE) = n
    BY <2>2
  <2>4. ReadVarint(s, at) = Read(MapThenSumSet(digit, 1 .. n), at + n)
    BY <2>3 DEF ReadVarint, Ends
  <2>5. MapThenSumSet(digit, 1 .. n) = SumOf(Weights(s, at, n), 1 .. n)
    <3> DEFINE w == Weights(s, at, n)
               Same(f) == f = [t \in SUBSET (1 .. n) |->
                                 IF t = {} THEN 0 ELSE digit(Some(t)) + f[t \ {Some(t)}]]
               g == CHOOSE f : Same(f)
    <3>1. MapThenSumSet(digit, 1 .. n) = g[1 .. n]
      BY DEF MapThenSumSet, MapThenFoldSet, Some
    <3>2. \A m \in 1 .. n : w[m] \in Nat /\ w[m] = digit(m)
      <4> SUFFICES ASSUME NEW m \in 1 .. n PROVE w[m] \in Nat /\ w[m] = digit(m)
        OBVIOUS
      <4>1. m \in 1 .. VarintBytes /\ s[at + m] \in Nat
        BY <1>0, <2>0, <2>1
      <4>2. w[m] = Shifted(s[at + m], m)
        BY DEF Weights
      <4>3. Shifted(s[at + m], m) \in Nat
        BY <4>1, ShiftedFits
      <4> QED
        BY <4>2, <4>3 DEF Shifted
    <3>3. \A t \in SUBSET (1 .. n) : t # {} => w[Some(t)] = digit(Some(t))
      BY <3>2 DEF Some
    <3>4. IsFiniteSet(1 .. n)
      BY <1>0, <2>0, FS_Interval
    <3> HIDE DEF w, digit
    <3>5. \A f : Same(f) <=> SumTable(w, 1 .. n, f)
      BY <3>3 DEF SumTable
    <3>6. \E f : SumTable(w, 1 .. n, f)
      BY <3>2, <3>4, SumTableExists
    <3> HIDE DEF Same
    <3>7. SumTable(w, 1 .. n, g)
      BY <3>5, <3>6
    <3> HIDE DEF g
    <3>8. SumOf(w, 1 .. n) = g[1 .. n]
      <4>1. PICK D : D = 1 .. n
        OBVIOUS
      <4>2. \A m \in D : w[m] \in Nat
        BY <3>2, <4>1
      <4>3. IsFiniteSet(D) /\ D \in SUBSET D /\ SumTable(w, D, g)
        BY <3>4, <3>7, <4>1
      <4>4. SumOf(w, D) = g[D]
        BY ONLY <4>2, <4>3, SumFromTable
      <4> QED
        BY ONLY <4>1, <4>4
    <3> QED
      BY <3>1, <3>8 DEF w
  <2> QED
    BY <2>4, <2>5
<1> QED
  BY <1>1, <1>2

\* A number that was written is read again, and what follows it is left.
THEOREM VarintRoundTrip ==
    ASSUME NEW S \in SUBSET Nat, NEW s \in Seq(S), NEW at \in Nat,
           NEW n \in Nat, n < Words, Holds(s, at, PutVarint(n))
    PROVE  ReadVarint(s, at) = Read(n, at + Len(PutVarint(n)))
<1>0. VarintBase \in Nat \ {0} /\ VarintBytes \in Nat /\ Words \in Nat
      /\ Len(s) \in Nat
  BY CodecAssumption, LenProperties
<1> DEFINE l == VarintLen(n)
           x == PutVarint(n)
           w == Weights(s, at, l)
<1>1. /\ l \in 1 .. VarintBytes /\ Len(x) = l /\ n < VarintBase ^ l
      /\ \A m \in 1 .. l : x[m] % VarintBase = Digit(n, m) /\ (x[m] < VarintBase <=> m = l)
  BY WrittenVarint, VarintLenIs
<1>2. \A m \in 1 .. l : x[m] \in Byte
  BY <1>1, WrittenVarint, ElementOfSeq
<1> HIDE DEF l, x
<1>3. at + l <= Len(s) /\ \A m \in 1 .. l : s[at + m] = x[m]
  BY <1>1 DEF Holds, x
<1>4. l \in Ends(s, at)
  <2>1. s[at + l] < VarintBase
    BY <1>0, <1>1, <1>3
  <2>2. \A m \in 1 .. l - 1 : s[at + m] >= VarintBase
    <3> SUFFICES ASSUME NEW m \in 1 .. l - 1 PROVE s[at + m] >= VarintBase
      OBVIOUS
    <3>1. m \in 1 .. l /\ m # l
      BY <1>0, <1>1
    <3>2. x[m] \in Nat /\ ~(x[m] < VarintBase) /\ s[at + m] = x[m]
      BY <1>0, <1>1, <1>2, <1>3, <3>1 DEF Byte
    <3> QED
      BY <1>0, <3>2
  <2> QED
    BY <1>1, <1>3, <2>1, <2>2 DEF Ends
<1>5. ASSUME NEW m \in 1 .. l
      PROVE  w[m] = Digit(n, m) * VarintBase ^ (m - 1)
  <2>1. PICK p, q, d : p = VarintBase ^ (m - 1) /\ q = n \div p /\ d = q % VarintBase
    OBVIOUS
  <2>2. p \in Nat \ {0}
    <3>1. m - 1 \in 0 .. VarintBytes
      BY <1>0, <1>1
    <3> QED
      BY <2>1, <3>1, Powers
  <2>3. d * p \in Nat /\ d * p <= n
    <3>1. q \in Nat /\ p * q <= n
      <4>1. PICK r : r = n % p
        OBVIOUS
      <4>2. n \div p \in Nat /\ n % p \in 0 .. p - 1 /\ n = p * (n \div p) + (n % p)
        BY <2>2, Division
      <4>3. q \in Nat /\ r \in Nat /\ n = p * q + r
        BY ONLY <2>1, <4>1, <4>2
      <4> QED
        BY <2>2, <4>3
    <3>2. d \in Nat /\ d <= q
      <4>1. VarintBase \in Nat \ {0} /\ q \in Nat /\ d = q % VarintBase
        BY <1>0, <2>1, <3>1
      <4> QED
        BY ONLY <4>1, SMTT(30)
    <3>3. d * p <= p * q
      BY <2>2, <3>1, <3>2
    <3> QED
      BY <2>2, <3>1, <3>2, <3>3
  <2>4. (d * p) % Words = d * p
    <3>1. PICK e : e = d * p
      OBVIOUS
    <3>2. e \in 0 .. Words - 1
      BY <1>0, <2>3, <3>1
    <3>3. e % Words = e
      BY <1>0, <3>2
    <3> QED
      BY <3>1, <3>3
  <2>5. s[at + m] % VarintBase = d
    BY <1>1, <1>3, <2>1 DEF Digit
  <2>6. w[m] = (d * p) % Words
    BY <2>1, <2>5 DEF Weights, Shifted
  <2> QED
    BY <2>1, <2>4, <2>6 DEF Digit
<1>6. SumOf(w, 1 .. l) + VarintBase ^ l * (n \div VarintBase ^ l) = n
      /\ SumOf(w, 1 .. l) \in Nat
  <2>1. PICK v, k : v = w /\ k = l
    OBVIOUS
  <2> HIDE DEF w
  <2>2. k \in 0 .. VarintBytes /\ \A m \in 1 .. k : v[m] = Digit(n, m) * VarintBase ^ (m - 1)
    BY <1>0, <1>1, <1>5, <2>1
  <2> QED
    BY <2>1, <2>2, DigitsAddUp
<1>7. n \div VarintBase ^ l = 0
  <2>1. PICK p : p = VarintBase ^ l
    OBVIOUS
  <2>2. p \in Nat \ {0} /\ n < p
    BY <1>0, <1>1, <2>1, Powers
  <2>3. n \div p = 0
    BY <2>2
  <2> QED
    BY <2>1, <2>3
<1>8. SumOf(w, 1 .. l) = n
  <2>1. VarintBase ^ l \in Nat
    BY <1>0, <1>1, Powers
  <2> QED
    BY <1>6, <1>7, <2>1
<1>9. ReadVarint(s, at) = Read(SumOf(w, 1 .. l), at + l)
  BY <1>4, VarintReadAs
<1> QED
  BY <1>1, <1>8, <1>9 DEF x

\* Whatever is read, it fits a word, and takes no more bytes to write again.
LEMMA VarintAnswers ==
    ASSUME NEW S \in SUBSET Nat, NEW s \in Seq(S), NEW at \in Nat, ReadVarint(s, at).ok
    PROVE  LET r == ReadVarint(s, at) IN
           /\ r.val \in Nat /\ r.val < Words
           /\ r.at \in Nat /\ r.at <= Len(s)
           /\ at + Len(PutVarint(r.val)) <= r.at
<1>0. VarintBase \in Nat \ {0} /\ VarintBytes \in Nat \ {0} /\ Words \in Nat
      /\ Len(s) \in Nat /\ \A i \in 1 .. Len(s) : s[i] \in Nat
  BY CodecAssumption, LenProperties, ElementOfSeq
<1>1. PICK n \in Ends(s, at) :
        ReadVarint(s, at) = Read(SumOf(Weights(s, at, n), 1 .. n), at + n)
  BY VarintReadAs DEF Unread
<1>2. n \in 1 .. VarintBytes /\ at + n <= Len(s)
  BY DEF Ends
<1>3. PICK w, v : w = Weights(s, at, n) /\ v = SumOf(w, 1 .. n)
  OBVIOUS
<1>4. ASSUME NEW m \in 1 .. n
      PROVE  /\ w[m] \in Nat /\ w[m] <= (VarintBase - 1) * VarintBase ^ (m - 1)
             /\ w[m] = Shifted(s[at + m], m) /\ s[at + m] \in Nat
  <2>1. m \in 1 .. VarintBytes /\ at + m \in 1 .. Len(s)
    BY <1>0, <1>2
  <2>2. s[at + m] \in Nat
    BY <1>0, <2>1
  <2>3. w[m] = Shifted(s[at + m], m)
    BY <1>3 DEF Weights
  <2> QED
    BY <2>1, <2>2, <2>3, ShiftedFits
<1>5. v \in Nat /\ v < VarintBase ^ n
  <2>1. n \in 0 .. VarintBytes
    BY <1>0, <1>2
  <2> QED
    BY <1>3, <1>4, <2>1, DigitsBelow
<1>6. v < Words
  <2>1. n - 1 \in 0 .. VarintBytes /\ VarintBytes - 1 \in 0 .. VarintBytes
    BY <1>0, <1>2
  <2>2. PICK p : p = VarintBase ^ (VarintBytes - 1)
    OBVIOUS
  <2>3. p \in Nat /\ p < Words
    BY <2>1, <2>2, Powers, CodecAssumption
  <2>4. CASE n < VarintBytes
    <3>1. n \in 0 .. VarintBytes - 1
      BY <1>0, <1>2, <2>4
    <3>2. VarintBase ^ n <= p
      BY <2>1, <2>2, <3>1, Powers
    <3>3. VarintBase ^ n \in Nat
      <4>1. n \in 0 .. VarintBytes
        BY <1>0, <1>2
      <4> QED
        BY <4>1, Powers
    <3> QED
      BY <1>0, <1>5, <2>3, <3>2, <3>3
  <2>5. CASE n = VarintBytes
    <3>1. SumOf(w, 1 .. n - 1) \in Nat /\ SumOf(w, 1 .. n - 1) < VarintBase ^ (n - 1)
      <4>1. \A m \in 1 .. n - 1 : /\ w[m] \in Nat
                                  /\ w[m] <= (VarintBase - 1) * VarintBase ^ (m - 1)
        BY <1>0, <1>2, <1>4
      <4>2. PICK k : k = n - 1
        OBVIOUS
      <4> QED
        BY <2>1, <4>1, <4>2, DigitsBelow
    <3>2. v = SumOf(w, 1 .. n - 1) + w[n]
      <4>1. PICK k \in Nat : k + 1 = n /\ k = n - 1
        BY <1>0, <1>2
      <4>2. \A m \in 1 .. k + 1 : w[m] \in Nat
        BY <1>4, <4>1
      <4>3. SumOf(w, 1 .. k + 1) = SumOf(w, 1 .. k) + w[k + 1]
        BY ONLY <4>2, SumUpTo
      <4> QED
        BY <1>3, <4>1, <4>3
    <3>3. w[n] \in Nat /\ w[n] + p <= Words
      <4>1. n \in 1 .. n
        BY <1>0, <1>2
      <4> QED
        BY <1>4, <2>2, <2>5, <4>1, ShiftedLast
    <3> QED
      BY <1>0, <2>2, <2>3, <2>5, <3>1, <3>2, <3>3
  <2> QED
    BY <1>0, <1>2, <2>4, <2>5
<1>7. VarintLen(v) <= n
  <2> DEFINE l == VarintLen(v)
  <2>1. l \in 1 .. VarintBytes /\ (l > 1 => v >= VarintBase ^ (l - 1))
    BY <1>5, <1>6, VarintLenIs
  <2> HIDE DEF l
  <2> SUFFICES ASSUME n < l PROVE FALSE
    BY <1>0, <1>2, <2>1 DEF l
  <2>2. n \in 0 .. l - 1 /\ l - 1 \in 0 .. VarintBytes /\ l > 1 /\ n \in 0 .. VarintBytes
    BY <1>0, <1>2, <2>1
  <2>3. /\ VarintBase ^ n <= VarintBase ^ (l - 1)
        /\ VarintBase ^ n \in Nat /\ VarintBase ^ (l - 1) \in Nat
    BY <2>2, Powers
  <2> QED
    BY <1>5, <2>1, <2>2, <2>3
<1>8. Len(PutVarint(v)) = VarintLen(v) /\ VarintLen(v) \in Nat
  BY <1>0, <1>5, <1>6, WrittenVarint
<1>9. ReadVarint(s, at).val = v /\ ReadVarint(s, at).at = at + n
  BY <1>1, <1>3 DEF Read
<1> QED
  BY <1>0, <1>2, <1>5, <1>6, <1>7, <1>8, <1>9

\* One piece after the other stand there when both do.
LEMMA HoldsConcat ==
    ASSUME NEW S, NEW s \in Seq(S), NEW at \in Nat, NEW T, NEW x \in Seq(T), NEW y \in Seq(T)
    PROVE  Holds(s, at, x \o y) <=> Holds(s, at, x) /\ Holds(s, at + Len(x), y)
<1>1. PICK a, b, z : a = Len(x) /\ b = Len(y) /\ z = x \o y
  OBVIOUS
<1>2. a \in Nat /\ b \in Nat /\ Len(s) \in Nat
  BY <1>1, LenProperties
<1>3. /\ Len(z) = a + b
      /\ \A m \in 1 .. a + b : z[m] = IF m <= a THEN x[m] ELSE y[m - a]
  BY <1>1, ConcatProperties
<1>4. ASSUME Holds(s, at, z) PROVE Holds(s, at, x) /\ Holds(s, at + a, y)
  <2>1. at + (a + b) <= Len(s) /\ \A m \in 1 .. a + b : s[at + m] = z[m]
    BY <1>3, <1>4 DEF Holds
  <2>2. \A m \in 1 .. a : s[at + m] = x[m]
    BY <1>2, <1>3, <2>1
  <2>3. \A m \in 1 .. b : s[(at + a) + m] = y[m]
    <3> SUFFICES ASSUME NEW m \in 1 .. b PROVE s[(at + a) + m] = y[m]
      OBVIOUS
    <3>1. a + m \in 1 .. a + b /\ ~(a + m <= a) /\ (a + m) - a = m
          /\ at + (a + m) = (at + a) + m
      BY <1>2
    <3> QED
      BY <1>3, <2>1, <3>1
  <2> QED
    BY <1>1, <1>2, <2>1, <2>2, <2>3 DEF Holds
<1>5. ASSUME Holds(s, at, x), Holds(s, at + a, y) PROVE Holds(s, at, z)
  <2>1. /\ at + a + b <= Len(s) /\ \A m \in 1 .. a : s[at + m] = x[m]
        /\ \A m \in 1 .. b : s[(at + a) + m] = y[m]
    BY <1>1, <1>5 DEF Holds
  <2>2. ASSUME NEW m \in 1 .. a + b PROVE s[at + m] = z[m]
    <3>1. CASE m <= a
      <4>1. m \in 1 .. a
        BY <1>2, <3>1
      <4> QED
        BY <1>3, <2>1, <3>1, <4>1
    <3>2. CASE ~(m <= a)
      <4>1. m - a \in 1 .. b /\ (at + a) + (m - a) = at + m
        BY <1>2, <3>2
      <4> QED
        BY <1>3, <2>1, <3>2, <4>1
    <3> QED
      BY <3>1, <3>2
  <2> QED
    BY <1>2, <1>3, <2>1, <2>2 DEF Holds
<1> QED
  BY <1>1, <1>4, <1>5

\* A sequence holds itself.
LEMMA HoldsItself == ASSUME NEW S, NEW s \in Seq(S) PROVE Holds(s, 0, s)
  BY LenProperties DEF Holds

\* A stretch that is held is the sub-sequence there.
LEMMA HeldIs ==
    ASSUME NEW S, NEW s \in Seq(S), NEW at \in Nat, NEW T, NEW x \in Seq(T), Holds(s, at, x)
    PROVE  SubSeq(s, at + 1, at + Len(x)) = x
<1>1. PICK a : a = Len(x)
  OBVIOUS
<1>2. a \in Nat /\ Len(s) \in Nat /\ at + a <= Len(s) /\ \A m \in 1 .. a : s[at + m] = x[m]
  BY <1>1, LenProperties DEF Holds
<1>3. x = [m \in 1 .. a |-> x[m]]
  BY <1>1, LenProperties
<1>4. SubSeq(s, at + 1, at + a) = [m \in 1 .. a |-> s[at + m]]
  BY <1>2
<1> QED
  BY <1>1, <1>2, <1>3, <1>4

\* A byte that is held is read.
LEMMA HoldsByte ==
    ASSUME NEW S, NEW s \in Seq(S), NEW at \in Nat, NEW b, Holds(s, at, <<b>>)
    PROVE  ReadByte(s, at) = Read(b, at + 1)
<1>1. at + 1 <= Len(s) /\ s[at + 1] = b /\ Len(s) \in Nat
  BY LenProperties DEF Holds
<1> QED
  BY <1>1 DEF ReadByte

\* So are several.
LEMMA HoldsExact ==
    ASSUME NEW S, NEW s \in Seq(S), NEW at \in Nat, NEW T, NEW x \in Seq(T), Holds(s, at, x)
    PROVE  ReadExact(s, at, Len(x)) = Read(x, at + Len(x))
<1>1. at + Len(x) <= Len(s) /\ SubSeq(s, at + 1, at + Len(x)) = x
  BY HeldIs DEF Holds
<1> QED
  BY <1>1 DEF ReadExact
=============================================================================
