-------------------------------- MODULE Codec --------------------------------
(***************************************************************************)
(* Variable-length integers and the cursor that reads them (pilsmer-core   *)
(* codec.rs).  A byte is a digit below VarintBase, plus VarintBase if more *)
(* bytes follow.  Reading starts after the first `at` symbols of s and     *)
(* answers what it has read and where it has stopped, or that it cannot.   *)
(***************************************************************************)
EXTENDS Integers, Sequences, FiniteSetsExt

CONSTANTS
    VarintBase,     \* 2^7; less where small numbers are to take several bytes
    VarintBytes,    \* 10, the most that are read
    Words           \* 2^64

ASSUME CodecAssumption ==
    /\ VarintBase \in Nat \ {0, 1}
    /\ VarintBytes \in Nat \ {0}
    /\ Words \in Nat
    /\ VarintBase ^ (VarintBytes - 1) < Words /\ Words <= VarintBase ^ VarintBytes
    /\ Words % VarintBase ^ (VarintBytes - 1) = 0

\* What a power is: the provers know nothing of exponentiation.
ASSUME PowerAssumption ==
    /\ VarintBase ^ 0 = 1
    /\ \A m \in 0 .. VarintBytes - 1 : VarintBase ^ (m + 1) = VarintBase * VarintBase ^ m

Byte == 0 .. 2 * VarintBase - 1

VarintLen(n) == CHOOSE m \in 1 .. VarintBytes :
    n < VarintBase ^ m /\ (m > 1 => n >= VarintBase ^ (m - 1))

\* Bug seeded for PutVarint: > for >=, so that 2^7 goes into one byte.
PutVarintLate(n) ==
    IF n = VarintBase THEN <<n>>
    ELSE [m \in 1 .. VarintLen(n) |->
             ((n \div VarintBase ^ (m - 1)) % VarintBase)
               + (IF m < VarintLen(n) THEN VarintBase ELSE 0)]
PutVarint(n) ==
    [m \in 1 .. VarintLen(n) |->
        ((n \div VarintBase ^ (m - 1)) % VarintBase)
          + (IF m < VarintLen(n) THEN VarintBase ELSE 0)]

Read(val, at) == [ok |-> TRUE, val |-> val, at |-> at]
Unread == [ok |-> FALSE, val |-> 0, at |-> 0]

ReadByte(s, at) == IF at < Len(s) THEN Read(s[at + 1], at + 1) ELSE Unread

ReadExact(s, at, n) ==
    IF at + n <= Len(s) THEN Read(SubSeq(s, at + 1, at + n), at + n) ELSE Unread

\* Digits are shifted into a word; what does not fit it is dropped.
ReadVarint(s, at) ==
    LET ends == {n \in 1 .. VarintBytes :
                    /\ at + n <= Len(s)
                    /\ s[at + n] < VarintBase
                    /\ \A m \in 1 .. n - 1 : s[at + m] >= VarintBase}
        digit(m) == ((s[at + m] % VarintBase) * VarintBase ^ (m - 1)) % Words
    IN  IF ends = {} THEN Unread
        ELSE LET n == CHOOSE n \in ends : TRUE
             IN  Read(MapThenSumSet(digit, 1 .. n), at + n)
=============================================================================
