----------------------------- MODULE PlannerProofs -----------------------------
(***************************************************************************)
(* Proofs about Planner, for any indexes, values and options, however many *)
(* calls are made: the search never leaves the value, the walk takes what  *)
(* the search has scored, and what it takes is what there is to be found.  *)
(***************************************************************************)
EXTENDS Planner, CodecProofs

-----------------------------------------------------------------------------
(* Scores *)

Scores == [1 .. 3 -> Nat]

\* Scores add up to scores.
LEMMA CombineIs ==
    ASSUME NEW s \in Scores, NEW t \in Scores
    PROVE  /\ Combine(s, t) \in Scores
           /\ \A n \in 1 .. 3 : Combine(s, t)[n] = s[n] + t[n]
  BY DEF Scores, Combine

\* Nothing costs nothing.
LEMMA CombineZero ==
    ASSUME NEW s \in Scores
    PROVE  /\ ZeroScore \in Scores
           /\ Combine(ZeroScore, s) = s /\ Combine(s, ZeroScore) = s
  BY DEF Scores, Combine, ZeroScore

\* It does not matter in which order costs are added.
LEMMA CombineAssociative ==
    ASSUME NEW s \in Scores, NEW t \in Scores, NEW u \in Scores
    PROVE  Combine(Combine(s, t), u) = Combine(s, Combine(t, u))
  BY DEF Scores, Combine

\* How scores compare.
LEMMA PrecedesIs ==
    ASSUME NEW s \in Scores, NEW t \in Scores
    PROVE  Precedes(s, t) <=>
             \/ s[1] < t[1]
             \/ s[1] = t[1] /\ s[2] < t[2]
             \/ s[1] = t[1] /\ s[2] = t[2] /\ s[3] < t[3]
<1>1. DOMAIN s = 1 .. 3
  BY DEF Scores
<1>2. 1 .. 3 = {1, 2, 3} /\ 1 .. 1 - 1 = {} /\ 1 .. 2 - 1 = {1} /\ 1 .. 3 - 1 = {1, 2}
  OBVIOUS
<1>3. Precedes(s, t) <=> \E n \in {1, 2, 3} : s[n] < t[n] /\ \A m \in 1 .. n - 1 : s[m] = t[m]
  BY <1>1, <1>2 DEF Precedes
<1> QED
  BY <1>2, <1>3

\* Of two scores one does not come before the other, and if it comes after it
\* comes after whatever comes before that.
LEMMA PrecedesOrders ==
    ASSUME NEW s \in Scores, NEW t \in Scores, NEW u \in Scores
    PROVE  /\ ~Precedes(s, s)
           /\ ~Precedes(s, t) /\ ~Precedes(t, u) => ~Precedes(s, u)
           /\ ~Precedes(s, t) => ~Precedes(Combine(u, s), Combine(u, t))
<1>1. /\ \A n \in 1 .. 3 : Combine(u, s)[n] = u[n] + s[n] /\ Combine(u, t)[n] = u[n] + t[n]
      /\ Combine(u, s) \in Scores /\ Combine(u, t) \in Scores
  BY CombineIs
<1>2. \A n \in 1 .. 3 : s[n] \in Nat /\ t[n] \in Nat /\ u[n] \in Nat
  BY DEF Scores
<1>3. ~Precedes(s, s)
  BY <1>2, PrecedesIs
<1>4. ~Precedes(s, t) /\ ~Precedes(t, u) => ~Precedes(s, u)
  BY <1>2, PrecedesIs
<1>5. ~Precedes(s, t) => ~Precedes(Combine(u, s), Combine(u, t))
  BY <1>1, <1>2, PrecedesIs
<1> QED
  BY <1>3, <1>4, <1>5

\* What costs no less still does when the same is added to both.
LEMMA CombineGrows ==
    ASSUME NEW s \in Scores, NEW t \in Scores, NEW u \in Scores, ~Precedes(s, t)
    PROVE  ~Precedes(Combine(s, u), Combine(t, u))
<1>1. /\ \A n \in 1 .. 3 : Combine(s, u)[n] = s[n] + u[n] /\ Combine(t, u)[n] = t[n] + u[n]
      /\ Combine(s, u) \in Scores /\ Combine(t, u) \in Scores
  BY CombineIs
<1>2. \A n \in 1 .. 3 : s[n] \in Nat /\ t[n] \in Nat /\ u[n] \in Nat
  BY DEF Scores
<1> QED
  BY <1>1, <1>2, PrecedesIs

-----------------------------------------------------------------------------
(* The least of tuples *)

\* A set of tuples of numbers that is not empty has one that precedes all others.
LEMMA LeastTuple ==
    ASSUME NEW n \in Nat, NEW S \in SUBSET [1 .. n -> Nat], S # {}
    PROVE  \E t \in S : \A u \in S \ {t} : Precedes(t, u)
<1> DEFINE Same(t, u, m) == \A i \in 1 .. m : u[i] = t[i]
           Less(t, u, m) == \E i \in 1 .. m : t[i] < u[i] /\ \A j \in 1 .. i - 1 : t[j] = u[j]
           Good == {m \in Nat : m <= n =>
                      \E t \in S : \A u \in S : Same(t, u, m) \/ Less(t, u, m)}
<1>1. 0 \in Good
  OBVIOUS
<1>2. ASSUME NEW m \in Nat, m \in Good PROVE m + 1 \in Good
  <2> SUFFICES ASSUME m + 1 <= n
               PROVE  \E t \in S : \A u \in S : Same(t, u, m + 1) \/ Less(t, u, m + 1)
    OBVIOUS
  <2>1. PICK t \in S : \A u \in S : Same(t, u, m) \/ Less(t, u, m)
    BY <1>2
  <2> DEFINE Ties == {u \in S : Same(t, u, m)}
             Next1 == {u[m + 1] : u \in Ties}
  <2>2. \A u \in S : u \in [1 .. n -> Nat] /\ u[m + 1] \in Nat
    OBVIOUS
  <2>3. t \in Ties /\ Next1 \in SUBSET Nat /\ Next1 # {}
    BY <2>2
  <2>4. PICK least \in Next1 : \A k \in Next1 : least <= k
    <3> HIDE DEF Next1
    <3> QED
      BY <2>3, LeastNumber
  <2>5. PICK r \in Ties : r[m + 1] = least
    OBVIOUS
  <2>6. ASSUME NEW u \in Ties PROVE Same(r, u, m + 1) \/ Less(r, u, m + 1)
    <3>1. r[m + 1] <= u[m + 1] /\ r[m + 1] \in Nat /\ u[m + 1] \in Nat
      BY <2>2, <2>4, <2>5
    <3>2. \A i \in 1 .. m : u[i] = r[i]
      OBVIOUS
    <3>3. ASSUME r[m + 1] = u[m + 1] PROVE Same(r, u, m + 1)
      <4>1. \A i \in 1 .. m + 1 : i \in 1 .. m \/ i = m + 1
        OBVIOUS
      <4> QED
        BY <3>2, <3>3, <4>1
    <3>4. ASSUME r[m + 1] < u[m + 1] PROVE Less(r, u, m + 1)
      <4>1. m + 1 \in 1 .. m + 1 /\ (m + 1) - 1 = m
        OBVIOUS
      <4>2. \A j \in 1 .. m : r[j] = u[j]
        BY <3>2
      <4> QED
        BY <3>4, <4>1, <4>2
    <3>5. r[m + 1] = u[m + 1] \/ r[m + 1] < u[m + 1]
      BY ONLY <3>1
    <3> HIDE DEF Same, Less
    <3> QED
      BY <3>3, <3>4, <3>5
  <2>7. ASSUME NEW u \in S, u \notin Ties PROVE Less(r, u, m + 1)
    <3>1. PICK i \in 1 .. m : t[i] < u[i] /\ \A j \in 1 .. i - 1 : t[j] = u[j]
      BY <2>1, <2>7
    <3>2. \A j \in 1 .. m : r[j] = t[j]
      OBVIOUS
    <3>3. i \in 1 .. m + 1 /\ r[i] < u[i] /\ \A j \in 1 .. i - 1 : r[j] = u[j]
      BY <3>1, <3>2
    <3> QED
      BY <3>3
  <2>8. r \in S
    OBVIOUS
  <2> HIDE DEF Same, Less, Ties
  <2> QED
    BY <2>6, <2>7, <2>8
<1>3. n \in Good
  <2> HIDE DEF Good
  <2> QED
    BY <1>1, <1>2, Induction
<1>4. PICK t \in S : \A u \in S : Same(t, u, n) \/ Less(t, u, n)
  BY <1>3
<1>5. ASSUME NEW u \in S \ {t} PROVE Precedes(t, u)
  <2>1. t \in [1 .. n -> Nat] /\ u \in [1 .. n -> Nat] /\ u # t
    OBVIOUS
  <2>2. ~Same(t, u, n)
    BY <2>1
  <2>3. Less(t, u, n)
    BY <1>4, <2>2
  <2> QED
    BY <2>1, <2>3 DEF Precedes
<1> QED
  BY <1>5

-----------------------------------------------------------------------------
(* Candidates *)

\* What the model's parameters are.
LEMMA Parts ==
    ASSUME indexes \in Libraries, NEW n \in DOMAIN indexes
    PROVE  /\ n \in Nat \ {0} /\ indexes[n] \in Index
           /\ indexes[n].stream \in Seq(Bytes) /\ indexes[n].prefix \in Seq(Bytes)
           /\ indexes[n].cap \in Nat \ {0}
           /\ Len(indexes[n].prefix) < Words
<1>1. indexes \in Seq(Index) /\ Buildable(indexes[n]) /\ Len(indexes[n].prefix) < Words
  BY PlannerAssumption
<1>2. n \in Nat \ {0} /\ indexes[n] \in Index
  BY <1>1
<1> QED
  BY <1>1, <1>2 DEF Index, Buildable

\* A choice that candidates_at can list for a position of the value: a stretch
\* of a stream that holds what the value has there, or the literal byte.
Located(c, pos) ==
    /\ c.by \in DOMAIN indexes /\ c.len <= opts.maxK
    /\ c.offset + c.len <= Len(indexes[c.by].prefix)
    /\ Gram(indexes[c.by].prefix, c.offset, c.len) = Gram(target, pos, c.len)
Fitting(c, pos) ==
    /\ c \in Choice
    /\ pos + c.len <= Len(target)
    /\ ~IsLiteral(c) => Located(c, pos)
    /\ IsLiteral(c) => c = [by |-> 0, offset |-> pos, len |-> 1]

\* What an index finds.
LEMMA FindIs ==
    ASSUME NEW index \in Index, NEW needle, NEW o \in Find(index, needle),
           Len(needle) \in Nat
    PROVE  /\ o \in Nat /\ o + Len(needle) <= Len(index.prefix)
           /\ Gram(index.prefix, o, Len(needle)) = needle
<1>1. o \in Occurrences(index.prefix, needle)
  BY DEF Find, Retained
<1>2. Len(index.prefix) \in Nat
  BY DEF Index
<1> QED
  BY <1>1, <1>2 DEF Occurrences

\* A stretch of a sequence is as long as it says.
LEMMA GramLen ==
    ASSUME NEW s, NEW pos \in Nat, NEW k \in Nat
    PROVE  Len(Gram(s, pos, k)) = k
  BY DEF Gram

\* The candidates that some indexes offer: what they find, and the literal byte.
LEMMA CandidatesInAre ==
    ASSUME NEW idxs, NEW pos, NEW c
    PROVE  c \in CandidatesIn(idxs, pos) <=>
             \/ opts.literals /\ c = [by |-> 0, offset |-> pos, len |-> 1]
             \/ \E n \in DOMAIN idxs, k \in 1 .. opts.maxK :
                  /\ pos + k <= Len(target)
                  /\ \E o \in Find(idxs[n], Gram(target, pos, k)) :
                       c = [by |-> n, offset |-> o, len |-> k]
<1> DEFINE lengths == {k \in 1 .. opts.maxK : pos + k <= Len(target)}
           Those(n, k) == {[by |-> n, offset |-> o, len |-> k] :
                             o \in Find(idxs[n], Gram(target, pos, k))}
           found == UNION {Those(n, k) : n \in DOMAIN idxs, k \in lengths}
           literal == IF opts.literals THEN {[by |-> 0, offset |-> pos, len |-> 1]}
                      ELSE {}
<1>1. CandidatesIn(idxs, pos) = found \union literal
  BY DEF CandidatesIn
<1>2. c \in literal <=> opts.literals /\ c = [by |-> 0, offset |-> pos, len |-> 1]
  OBVIOUS
<1>3. c \in found <=> \E n \in DOMAIN idxs, k \in lengths : c \in Those(n, k)
  <2> HIDE DEF Those, lengths
  <2> QED
    OBVIOUS
<1>4. \A n \in DOMAIN idxs, k \in lengths :
        c \in Those(n, k) <=> \E o \in Find(idxs[n], Gram(target, pos, k)) :
                                c = [by |-> n, offset |-> o, len |-> k]
  OBVIOUS
<1>5. c \in CandidatesIn(idxs, pos) <=> c \in found \/ c \in literal
  <2> HIDE DEF found, literal
  <2> QED
    BY <1>1
<1> HIDE DEF found, literal, Those
<1> QED
  BY <1>2, <1>3, <1>4, <1>5

\* The candidates are such choices.
LEMMA CandidatesFit ==
    ASSUME indexes \in Libraries, target \in Seq(Bytes), opts \in Options,
           NEW pos \in 0 .. Len(target) - 1, NEW c \in CandidatesAt(pos)
    PROVE  Fitting(c, pos)
<1>0. Len(target) \in Nat /\ opts.maxK \in Nat /\ pos \in Nat
  BY DEF Options
<1>1. CASE opts.literals /\ c = [by |-> 0, offset |-> pos, len |-> 1]
  BY <1>0, <1>1 DEF Fitting, IsLiteral, Choice
<1>2. ASSUME NEW n \in DOMAIN indexes, NEW k \in 1 .. opts.maxK, pos + k <= Len(target),
             NEW o \in Find(indexes[n], Gram(target, pos, k)),
             c = [by |-> n, offset |-> o, len |-> k]
      PROVE  Fitting(c, pos)
  <2>1. Len(Gram(target, pos, k)) = k /\ k \in Nat \ {0}
    BY <1>0, GramLen
  <2>2. n \in Nat \ {0} /\ indexes[n] \in Index
    BY Parts
  <2>3. o \in Nat /\ o + k <= Len(indexes[n].prefix)
        /\ Gram(indexes[n].prefix, o, k) = Gram(target, pos, k)
    BY <2>1, <2>2, FindIs
  <2> QED
    BY <1>0, <1>2, <2>1, <2>2, <2>3 DEF Fitting, Located, IsLiteral, Choice
<1>3. \/ opts.literals /\ c = [by |-> 0, offset |-> pos, len |-> 1]
      \/ \E n \in DOMAIN indexes, k \in 1 .. opts.maxK :
           /\ pos + k <= Len(target)
           /\ \E o \in Find(indexes[n], Gram(target, pos, k)) :
                c = [by |-> n, offset |-> o, len |-> k]
  BY CandidatesInAre DEF CandidatesAt
<1> QED
  BY <1>1, <1>2, <1>3

\* A byte of a varint, and small numbers, fit a word.
LEMMA WordsLarge == 1 < Words /\ Words \in Nat
<1>1. VarintBytes \in Nat \ {0} /\ Words \in Nat /\ VarintBase ^ (VarintBytes - 1) < Words
  BY CodecAssumption
<1>2. VarintBytes - 1 \in 0 .. VarintBytes
  BY <1>1
<1>3. VarintBase ^ (VarintBytes - 1) \in Nat \ {0}
  BY <1>2, Powers
<1> QED
  BY <1>1, <1>3

\* The cost of a choice that fits is a score.
LEMMA ScoreIs ==
    ASSUME indexes \in Libraries, NEW c, NEW pos, Fitting(c, pos)
    PROVE  Score(c) \in Scores
<1>1. c.len \in Nat \ {0} /\ c.offset \in Nat
  BY DEF Fitting, Choice
<1>2. CASE IsLiteral(c)
  <2>1. VarintLen(1) \in Nat
    BY VarintLenIs, WordsLarge, CodecAssumption
  <2> QED
    BY <1>2, <2>1 DEF Score, LiteralCost, Scores
<1>3. CASE ~IsLiteral(c)
  <2>1. c.by \in DOMAIN indexes /\ c.offset + c.len <= Len(indexes[c.by].prefix)
    BY <1>3 DEF Fitting, Located
  <2>2. Len(indexes[c.by].prefix) \in Nat /\ Len(indexes[c.by].prefix) < Words
    BY <2>1, Parts
  <2>3. c.offset < Words /\ c.len < Words
    BY <1>1, <2>1, <2>2, WordsLarge
  <2>4. VarintLen(c.offset) \in Nat /\ VarintLen(c.len) \in Nat
    BY <1>1, <2>3, VarintLenIs, CodecAssumption
  <2> QED
    BY <1>1, <1>3, <2>4 DEF Score, LocatedCost, Scores
<1> QED
  BY <1>2, <1>3

-----------------------------------------------------------------------------
(* The best candidate *)

\* A score and a place, one after the other.
LEMMA JoinedIs ==
    ASSUME NEW s \in Scores, NEW p \in Scores
    PROVE  /\ s \o p \in [1 .. 6 -> Nat]
           /\ \A n \in 1 .. 3 : (s \o p)[n] = s[n] /\ (s \o p)[n + 3] = p[n]
<1>1. s \in Seq(Nat) /\ p \in Seq(Nat)
  <2>1. [1 .. 3 -> Nat] \in {[1 .. n -> Nat] : n \in Nat}
    OBVIOUS
  <2>2. Seq(Nat) = UNION {[1 .. n -> Nat] : n \in Nat}
    BY SeqDef
  <2> QED
    BY <2>1, <2>2 DEF Scores
<1>2. Len(s) = 3 /\ Len(p) = 3
  <2>1. s \in [1 .. Len(s) -> Nat] /\ Len(s) \in Nat /\ p \in [1 .. Len(p) -> Nat]
        /\ Len(p) \in Nat /\ s \in [1 .. 3 -> Nat] /\ p \in [1 .. 3 -> Nat]
    BY <1>1, LenProperties DEF Scores
  <2>2. 1 .. Len(s) = 1 .. 3 /\ 1 .. Len(p) = 1 .. 3
    BY <2>1
  <2> QED
    BY <2>1, <2>2
<1>3. s \o p \in Seq(Nat) /\ Len(s \o p) = 6
      /\ \A n \in 1 .. 6 : (s \o p)[n] = IF n <= 3 THEN s[n] ELSE p[n - 3]
  <2>1. /\ s \o p \in Seq(Nat)
        /\ Len(s \o p) = Len(s) + Len(p)
        /\ \A i \in 1 .. Len(s) + Len(p) :
             (s \o p)[i] = IF i <= Len(s) THEN s[i] ELSE p[i - Len(s)]
    BY <1>1, ConcatProperties
  <2> QED
    BY <1>2, <2>1
<1>4. s \o p \in [1 .. 6 -> Nat]
  BY <1>3, LenProperties
<1>5. ASSUME NEW n \in 1 .. 3 PROVE (s \o p)[n] = s[n] /\ (s \o p)[n + 3] = p[n]
  <2>1. n \in 1 .. 6 /\ n + 3 \in 1 .. 6 /\ n <= 3 /\ ~(n + 3 <= 3) /\ (n + 3) - 3 = n
    OBVIOUS
  <2>2. /\ (s \o p)[n] = IF n <= 3 THEN s[n] ELSE p[n - 3]
        /\ (s \o p)[n + 3] = IF n + 3 <= 3 THEN s[n + 3] ELSE p[(n + 3) - 3]
    BY <1>3, <2>1
  <2> QED
    BY <2>1, <2>2, Zenon
<1> QED
  BY <1>4, <1>5

\* What comes first with its place does not come after without.
LEMMA FirstComesFirst ==
    ASSUME NEW s \in Scores, NEW p \in Scores, NEW t \in Scores, NEW q \in Scores,
           Precedes(s \o p, t \o q)
    PROVE  ~Precedes(t, s)
<1> DEFINE a == s \o p
           b == t \o q
<1>1. /\ a \in [1 .. 6 -> Nat]
      /\ \A n \in 1 .. 3 : a[n] = s[n] /\ b[n] = t[n]
      /\ \A n \in 1 .. 3 : s[n] \in Nat /\ t[n] \in Nat
      /\ Precedes(a, b)
  BY JoinedIs DEF Scores
<1> HIDE DEF a, b
<1>2. PICK n \in 1 .. 6 : a[n] < b[n] /\ \A m \in 1 .. n - 1 : a[m] = b[m]
  BY <1>1 DEF Precedes
<1>3. CASE n = 1
  <2>1. s[1] < t[1]
    BY <1>1, <1>2, <1>3
  <2> QED
    BY <1>1, <2>1, PrecedesIs
<1>4. CASE n = 2
  <2>1. s[1] = t[1] /\ s[2] < t[2]
    BY <1>1, <1>2, <1>4
  <2> QED
    BY <1>1, <2>1, PrecedesIs
<1>5. CASE n = 3
  <2>1. s[1] = t[1] /\ s[2] = t[2] /\ s[3] < t[3]
    BY <1>1, <1>2, <1>5
  <2> QED
    BY <1>1, <2>1, PrecedesIs
<1>6. CASE n > 3
  <2>1. s[1] = t[1] /\ s[2] = t[2] /\ s[3] = t[3]
    BY <1>1, <1>2, <1>6
  <2> QED
    BY <1>1, <2>1, PrecedesIs
<1> QED
  BY <1>3, <1>4, <1>5, <1>6

\* The position of the value and the table are what they should be.
Weighing(pos) ==
    /\ indexes \in Libraries /\ target \in Seq(Bytes) /\ opts \in Options
    /\ dp \in [0 .. Len(target) -> State]
    /\ pos \in 0 .. Len(target) - 1

\* What a candidate adds up to.
LEMMA TotalIs ==
    ASSUME NEW pos, Weighing(pos), NEW c \in CandidatesAt(pos)
    PROVE  /\ Fitting(c, pos) /\ c \in Choice /\ Score(c) \in Scores
           /\ pos + c.len \in pos + 1 .. Len(target)
           /\ dp[pos + c.len] \in State /\ dp[pos + c.len].score \in Scores
           /\ Total(c, pos) \in Scores
<1>1. Fitting(c, pos) /\ Score(c) \in Scores
  BY CandidatesFit, ScoreIs DEF Weighing
<1>2. c \in Choice /\ c.len \in Nat \ {0} /\ pos + c.len <= Len(target) /\ pos \in Nat
  BY <1>1 DEF Fitting, Choice, Weighing
<1>3. Len(target) \in Nat
  BY DEF Weighing
<1>4. pos + c.len \in pos + 1 .. Len(target) /\ pos + c.len \in 0 .. Len(target)
  BY <1>2, <1>3
<1>5. dp[pos + c.len] \in State /\ dp[pos + c.len].score \in Scores
  BY <1>4 DEF Weighing, State, Scores
<1> QED
  BY <1>1, <1>2, <1>4, <1>5, CombineIs DEF Total

\* No two candidates for a position have the same place.
LEMMA PlacesDiffer ==
    ASSUME NEW pos, Weighing(pos), NEW c \in CandidatesAt(pos),
           NEW d \in CandidatesAt(pos), Place(c) = Place(d)
    PROVE  c = d
<1>1. Fitting(c, pos) /\ Fitting(d, pos) /\ opts.maxK \in Nat
  BY TotalIs DEF Weighing, Options
<1>2. CASE IsLiteral(c) /\ IsLiteral(d)
  BY <1>1, <1>2 DEF Fitting
<1>3. CASE ~IsLiteral(c) /\ ~IsLiteral(d)
  <2>1. c.len = d.len /\ c.by = d.by /\ c.offset = d.offset
    BY <1>3 DEF Place
  <2> QED
    BY <1>1, <2>1 DEF Fitting, Choice
<1>4. ASSUME NEW a, NEW b, Fitting(a, pos), Fitting(b, pos),
             IsLiteral(a), ~IsLiteral(b), Place(a) = Place(b)
      PROVE  FALSE
  <2>1. b.len <= opts.maxK /\ b.len \in Nat
    BY <1>4 DEF Fitting, Located, Choice
  <2>2. opts.maxK + 1 = b.len
    BY <1>4 DEF Place
  <2> QED
    BY <1>1, <2>1, <2>2
<1> QED
  BY <1>1, <1>2, <1>3, <1>4

\* A place is three numbers.
LEMMA PlaceIs ==
    ASSUME NEW pos, Weighing(pos), NEW c \in CandidatesAt(pos)
    PROVE  Place(c) \in Scores
<1>1. c \in Choice /\ opts.maxK \in Nat
  BY TotalIs DEF Weighing, Options
<1> QED
  BY <1>1 DEF Place, Choice, Scores

\* dp[pos] holds the best way on from pos: a candidate that can be used, with
\* what it adds up to, which is no more than what any other does.
Settles(st, pos) ==
    /\ \A c \in CandidatesAt(pos) :
          Usable(c, pos) => st.reached /\ ~Precedes(Total(c, pos), st.score)
    /\ st.reached =>
          /\ st.choice \in CandidatesAt(pos) /\ Usable(st.choice, pos)
          /\ st.score = Total(st.choice, pos)
Settled(pos) == Settles(dp[pos], pos)

\* One turn of the loop settles a position.
LEMMA BestSettles ==
    ASSUME NEW pos, Weighing(pos)
    PROVE  BestAt(pos) \in State /\ Settles(BestAt(pos), pos)
<1> DEFINE usable == {c \in CandidatesAt(pos) : Usable(c, pos)}
           Key(c) == Total(c, pos) \o Place(c)
<1>1. CASE usable = {}
  <2>1. BestAt(pos) = Unreached
    BY <1>1 DEF BestAt
  <2>2. Unreached \in State
    <3>1. ZeroScore \in [1 .. 3 -> Nat]
      BY DEF ZeroScore
    <3> QED
      BY <3>1 DEF Unreached, State
  <2>3. Unreached.reached = FALSE
    BY DEF Unreached
  <2> QED
    BY <1>1, <2>1, <2>2, <2>3 DEF Settles
<1>2. CASE usable # {}
  <2>1. \A c \in usable : Total(c, pos) \in Scores /\ Place(c) \in Scores
    BY TotalIs, PlaceIs
  <2>2. \A c \in usable : Key(c) \in [1 .. 6 -> Nat]
    BY <2>1, JoinedIs
  <2>3. ASSUME NEW c \in usable, NEW d \in usable, Key(c) = Key(d) PROVE c = d
    <3>1. \A n \in 1 .. 3 : Place(c)[n] = Place(d)[n]
      <4>1. /\ \A n \in 1 .. 3 : Key(c)[n + 3] = Place(c)[n]
            /\ \A n \in 1 .. 3 : Key(d)[n + 3] = Place(d)[n]
        BY <2>1, JoinedIs
      <4> QED
        BY <2>3, <4>1
    <3>2. Place(c) = Place(d)
      BY <2>1, <3>1 DEF Scores
    <3> QED
      BY <3>2, PlacesDiffer
  <2> DEFINE keys == {Key(c) : c \in usable}
  <2>4. PICK t \in keys : \A u \in keys \ {t} : Precedes(t, u)
    <3>1. keys \in SUBSET [1 .. 6 -> Nat] /\ keys # {}
      BY <1>2, <2>2
    <3> HIDE DEF keys
    <3> QED
      BY <3>1, LeastTuple
  <2>5. PICK first \in usable : t = Key(first)
    OBVIOUS
  <2>6. \A d \in usable \ {first} : Beats(first, d, pos)
    <3> TAKE d \in usable \ {first}
    <3>1. Key(d) \in keys \ {t}
      BY <2>3, <2>5
    <3>2. Precedes(Key(first), Key(d))
      BY <2>4, <2>5, <3>1
    <3> QED
      BY <3>2 DEF Beats
  <2> DEFINE best == CHOOSE c \in usable : \A d \in usable \ {c} : Beats(c, d, pos)
  <2>7. best \in usable /\ \A d \in usable \ {best} : Beats(best, d, pos)
    <3> HIDE DEF usable
    <3> QED
      BY <2>6
  <2>8. BestAt(pos) = [score |-> Total(best, pos), choice |-> best, reached |-> TRUE]
    BY <1>2 DEF BestAt
  <2> HIDE DEF best
  <2>9. ASSUME NEW d \in usable PROVE ~Precedes(Total(d, pos), Total(best, pos))
    <3>1. CASE d = best
      BY <2>1, <2>7, <3>1, PrecedesOrders
    <3>2. CASE d # best
      <4>1. Precedes(Total(best, pos) \o Place(best), Total(d, pos) \o Place(d))
        BY <2>7, <3>2 DEF Beats
      <4> QED
        BY <2>1, <2>7, <4>1, FirstComesFirst
    <3> QED
      BY <3>1, <3>2
  <2>10. BestAt(pos) \in State
    BY <2>1, <2>7, <2>8, TotalIs DEF State, Scores
  <2> QED
    BY <2>7, <2>8, <2>9, <2>10 DEF Settles
<1> QED
  BY <1>1, <1>2

-----------------------------------------------------------------------------
(* What a list of chunks costs *)

\* Lists of chunks whose costs are scores.
Costed(cs) ==
    /\ Len(cs) \in Nat /\ DOMAIN cs = 1 .. Len(cs)
    /\ \A i \in 1 .. Len(cs) : Score(cs[i]) \in Scores

CostSteps(cs) == [i \in 1 .. Len(cs) |-> [s \in Scores |-> Combine(s, Score(cs[i]))]]

\* The cost is added up chunk by chunk.
LEMMA CostTrace ==
    ASSUME NEW cs, Costed(cs)
    PROVE  \E t \in [0 .. Len(cs) -> Scores] :
             Trace(ZeroScore, CostSteps(cs), Len(cs), t) /\ Cost(cs) = t[Len(cs)]
<1> DEFINE n == Len(cs)
           step == CostSteps(cs)
           Table(f) ==
             f = [s \in SUBSET DOMAIN cs |->
                    IF s = {} THEN ZeroScore
                    ELSE Combine(f[s \ {Max(s)}], Score(cs[Max(s)]))]
           f == CHOOSE f : Table(f)
<1>1. Cost(cs) = f[DOMAIN cs]
  BY DEF Cost, Sum, FoldLeft, MapThenFoldSet
<1>2. n \in Nat /\ DOMAIN cs = 1 .. n /\ ZeroScore \in Scores
  BY DEF Costed, ZeroScore, Scores
<1>3. step \in [1 .. n -> [Scores -> Scores]]
  BY <1>2, CombineIs DEF Costed, CostSteps
<1>4. PICK g \in [SUBSET (1 .. n) -> Scores] : FoldTable(ZeroScore, step, 1 .. n, g)
  <2> HIDE DEF n, step
  <2> QED
    BY <1>2, <1>3, FoldTableExists
<1>5. Table(g)
  <2>1. ASSUME NEW s \in SUBSET (1 .. n), s # {}
        PROVE  step[Max(s)][g[s \ {Max(s)}]] = Combine(g[s \ {Max(s)}], Score(cs[Max(s)]))
    <3>1. Max(s) \in 1 .. n
      BY <1>2, <2>1, MaxOf
    <3>2. g[s \ {Max(s)}] \in Scores
      BY <1>4
    <3> QED
      BY <3>1, <3>2 DEF CostSteps
  <2> HIDE DEF step, n
  <2> QED
    BY <1>2, <1>4, <2>1 DEF FoldTable
<1>6. Table(f)
  <2> HIDE DEF Table
  <2> QED
    BY <1>5
<1> HIDE DEF f
<1>7. f[{}] = ZeroScore
  BY <1>2, <1>6
<1>8. ASSUME NEW m \in 1 .. n, f[1 .. m - 1] \in Scores
      PROVE  f[1 .. m] = step[m][f[1 .. m - 1]]
  <2>1. /\ 1 .. m # {} /\ 1 .. m \in SUBSET (1 .. n)
        /\ (1 .. m) \ {m} = 1 .. m - 1 /\ Max(1 .. m) = m
    <3>1. m \in Nat \ {0} /\ m <= n /\ n \in Nat
      BY <1>2
    <3> HIDE DEF n
    <3>2. Max(1 .. m) = m
      BY <3>1, MaxOfStretch
    <3> QED
      BY <3>1, <3>2
  <2>2. f[1 .. m] = Combine(f[1 .. m - 1], Score(cs[m]))
    BY <1>2, <1>6, <2>1
  <2> QED
    BY <1>8, <2>2 DEF CostSteps
<1> HIDE DEF n, step
<1>9. \E t \in [0 .. n -> Scores] :
        Trace(ZeroScore, step, n, t) /\ f[1 .. n] = t[n]
  BY <1>2, <1>3, <1>7, <1>8, FoldValues
<1> QED
  BY <1>1, <1>2, <1>9 DEF n, step

\* Nothing costs nothing, and a chunk more costs what it costs.
LEMMA CostEmpty == Cost(<<>>) = ZeroScore
<1>1. Costed(<<>>)
  BY DEF Costed
<1> QED
  BY <1>1, CostTrace DEF Trace

\* The cost of a list that is one chunk longer.
LEMMA CostAppend ==
    ASSUME NEW C, NEW cs \in Seq(C), Costed(cs), NEW c \in C, Score(c) \in Scores
    PROVE  /\ Costed(Append(cs, c))
           /\ Cost(cs) \in Scores
           /\ Cost(Append(cs, c)) = Combine(Cost(cs), Score(c))
<1> DEFINE n == Len(cs)
           ds == Append(cs, c)
<1>1. /\ n \in Nat /\ Len(ds) = n + 1 /\ DOMAIN ds = 1 .. n + 1
      /\ \A i \in 1 .. n : ds[i] = cs[i]
      /\ ds[n + 1] = c
  BY AppendProperties, LenProperties
<1> HIDE DEF ds
<1>2. Costed(ds)
  <2>1. \A i \in 1 .. n + 1 : i \in 1 .. n \/ i = n + 1
    BY <1>1
  <2> QED
    BY <1>1, <2>1 DEF Costed
<1>3. PICK t \in [0 .. n -> Scores] :
        Trace(ZeroScore, CostSteps(cs), n, t) /\ Cost(cs) = t[n]
  BY CostTrace
<1>4. PICK u \in [0 .. n + 1 -> Scores] :
        Trace(ZeroScore, CostSteps(ds), n + 1, u) /\ Cost(ds) = u[n + 1]
  BY <1>1, <1>2, CostTrace
<1>5. \A i \in 1 .. n : CostSteps(ds)[i] = CostSteps(cs)[i]
  BY <1>1 DEF CostSteps
<1>6. u[n] = t[n]
  <2>1. \A i \in 0 .. n : u[i] = t[i]
    <3>1. n \in Nat /\ n + 1 \in Nat /\ n <= n + 1
      BY <1>1
    <3> HIDE DEF n
    <3> QED
      BY <1>3, <1>4, <1>5, <3>1, TracesAgree
  <2> QED
    BY <1>1, <2>1
<1>7. t[n] \in Scores
  BY <1>1, <1>3
<1>8. n + 1 \in 1 .. n + 1 /\ (n + 1) - 1 = n
  BY <1>1
<1>9. u[n + 1] = CostSteps(ds)[n + 1][u[n]]
  BY <1>4, <1>8 DEF Trace
<1>10. CostSteps(ds)[n + 1][u[n]] = Combine(u[n], Score(c))
  BY <1>1, <1>6, <1>7, <1>8 DEF CostSteps
<1> QED
  BY <1>2, <1>3, <1>4, <1>6, <1>7, <1>9, <1>10 DEF ds

-----------------------------------------------------------------------------
(* The search and the walk *)

\* The phases in which every position has been weighed.
Walking == {"walk", "check", "planned", "rejected"}

\* What the walk has chosen so far, and where that has brought it.
Walked ==
    /\ Costed(chunks)
    /\ chunks = <<>> => at = 0
    /\ chunks # <<>> => dp[at].reached
    /\ Combine(Cost(chunks), dp[at].score) = dp[0].score
    /\ phase # "walk" => at = Len(target)

\* The positions weighed so far are settled, and the walk goes by them.
SearchInv ==
    /\ SearchTypeOK
    /\ phase # "idle" => dp[Len(target)] = End
    /\ phase = "search" => /\ chunks = <<>>
                           /\ \A pos \in at .. Len(target) - 1 : Settled(pos)
    /\ phase \in Walking => (\A pos \in 0 .. Len(target) - 1 : Settled(pos)) /\ Walked

\* A choice that is none is no choice, and the end of a value is well typed.
LEMMA EndIs == End \in State /\ Unreached \in State /\ NoChoice \notin Choice
<1>1. ZeroScore \in [1 .. 3 -> Nat]
  BY DEF ZeroScore
<1> QED
  BY <1>1 DEF End, Unreached, State, NoChoice, Choice

\* There is no call to begin with.
LEMMA SearchInvInit == SearchInit => SearchInv
<1> SUFFICES ASSUME SearchInit PROVE SearchInv
  OBVIOUS
<1>1. opts \in Options
  BY PlannerAssumption DEF SearchInit
<1>2. SearchTypeOK
  BY <1>1 DEF SearchInit, SearchTypeOK, Phases
<1> QED
  BY <1>2 DEF SearchInit, SearchInv, Walking

\* A call begins at the end of its value.
LEMMA InvBegin ==
    ASSUME SearchInv, Begin
    PROVE  SearchInv'
<1>1. /\ indexes' = indexes /\ indexes \in Libraries
      /\ target' \in Seq(Bytes) /\ opts' \in Options /\ Len(target') \in Nat
  BY PlannerAssumption DEF SearchInv, SearchTypeOK, Begin
<1>2. dp' \in [0 .. Len(target') -> State] /\ dp'[Len(target')] = End
  BY <1>1, EndIs DEF Begin
<1>3. at' = Len(target') /\ chunks' = <<>> /\ phase' \in {"failed", "search"}
  BY DEF Begin
<1>4. SearchTypeOK'
  BY <1>1, <1>2, <1>3 DEF SearchTypeOK, Phases
<1>5. at' .. Len(target') - 1 = {}
  BY <1>1, <1>3
<1> QED
  BY <1>2, <1>3, <1>4, <1>5 DEF SearchInv, Walking

\* A position that is settled stays so while the table is kept from there on.
LEMMA SettledStays ==
    ASSUME NEW pos, Weighing(pos), Settled(pos),
           UNCHANGED <<indexes, target, opts>>,
           \A p \in pos .. Len(target) : dp'[p] = dp[p]
    PROVE  Settled(pos)'
<1>1. CandidatesAt(pos)' = CandidatesAt(pos)
  BY DEF CandidatesAt, CandidatesIn
<1>2. \A c \in CandidatesAt(pos) : dp'[pos + c.len] = dp[pos + c.len]
  BY TotalIs DEF Weighing
<1>3. pos \in pos .. Len(target)
  BY DEF Weighing
<1>4. dp'[pos] = dp[pos]
  BY <1>3
<1>5. \A c \in CandidatesAt(pos) : (Usable(c, pos)' <=> Usable(c, pos))
                                    /\ Total(c, pos)' = Total(c, pos)
  BY <1>2 DEF Usable, Total
<1> QED
  BY <1>1, <1>4, <1>5 DEF Settled, Settles

\* Where the search is, the table is ready for a position to be weighed.
LEMMA InvWeighing ==
    ASSUME SearchInv, phase # "idle", NEW pos \in 0 .. Len(target) - 1
    PROVE  Weighing(pos)
  BY DEF SearchInv, SearchTypeOK, Weighing

\* A turn of the loop settles a position more.
LEMMA InvWeigh ==
    ASSUME SearchInv, Weigh
    PROVE  SearchInv'
<1>0. PICK pos, n : pos = at - 1 /\ n = Len(target)
  OBVIOUS
<1>1. /\ n \in Nat /\ pos \in 0 .. n - 1 /\ at \in 0 .. n /\ phase = "search"
      /\ dp \in [0 .. n -> State] /\ n = Len(target)
      /\ UNCHANGED <<indexes, phase, target, opts, chunks>>
      /\ at' = pos /\ dp' = [dp EXCEPT ![pos] = BestAt(pos)]
  BY <1>0 DEF SearchInv, SearchTypeOK, Weigh
<1>2. Weighing(pos)
  BY <1>1, InvWeighing
<1>3. BestAt(pos) \in State /\ Settles(BestAt(pos), pos)
  BY <1>2, BestSettles
<1>4. /\ dp' \in [0 .. n -> State] /\ dp'[pos] = BestAt(pos)
      /\ \A p \in 0 .. n : p # pos => dp'[p] = dp[p]
  BY <1>1, <1>3
<1>5. SearchTypeOK'
  BY <1>1, <1>4 DEF SearchInv, SearchTypeOK
<1>6. dp'[n] = End
  BY <1>1, <1>4 DEF SearchInv
<1>7. ASSUME NEW p \in at .. n - 1 PROVE Settled(p)'
  <2>1. p \in 0 .. n - 1 /\ Weighing(p) /\ Settled(p)
    BY <1>1, <1>7, InvWeighing DEF SearchInv
  <2>2. \A q \in p .. n : dp'[q] = dp[q]
    BY <1>1, <1>4
  <2> QED
    BY <1>1, <2>1, <2>2, SettledStays
<1>8. Settled(pos)'
  <2>1. CandidatesAt(pos)' = CandidatesAt(pos)
    BY <1>1 DEF CandidatesAt, CandidatesIn
  <2>2. \A c \in CandidatesAt(pos) : dp'[pos + c.len] = dp[pos + c.len]
    BY <1>1, <1>2, <1>4, TotalIs
  <2>3. \A c \in CandidatesAt(pos) : (Usable(c, pos)' <=> Usable(c, pos))
                                      /\ Total(c, pos)' = Total(c, pos)
    BY <1>1, <2>2 DEF Usable, Total
  <2> QED
    BY <1>3, <1>4, <2>1, <2>3 DEF Settled, Settles
<1>9. \A p \in at' .. Len(target') - 1 : Settled(p)'
  <2>1. \A p \in at' .. Len(target') - 1 : p = pos \/ p \in at .. n - 1
    BY <1>0, <1>1
  <2> QED
    BY <1>7, <1>8, <2>1
<1> QED
  BY <1>1, <1>5, <1>6, <1>9 DEF SearchInv, Walking

\* A step that changes the phase only leaves what is settled as it is.
LEMMA SettledAsBefore ==
    ASSUME SearchInv, phase # "idle", UNCHANGED <<indexes, target, opts, dp>>,
           NEW pos \in 0 .. Len(target) - 1, Settled(pos)
    PROVE  Settled(pos)'
  BY InvWeighing, SettledStays

\* The walk begins with nothing chosen.
LEMMA InvWeighed ==
    ASSUME SearchInv, Weighed
    PROVE  SearchInv'
<1>1. /\ phase = "search" /\ phase' = "walk" /\ at = 0 /\ chunks = <<>>
      /\ UNCHANGED <<indexes, target, opts, at, dp, chunks>>
      /\ Len(target) \in Nat
  BY DEF Weighed, SearchInv, SearchTypeOK
<1>2. SearchTypeOK'
  BY <1>1 DEF SearchInv, SearchTypeOK, Phases
<1>3. ASSUME NEW pos \in 0 .. Len(target) - 1 PROVE Settled(pos)'
  BY <1>1, SettledAsBefore DEF SearchInv
<1>4. dp[0] \in State
  BY <1>1 DEF SearchInv, SearchTypeOK
<1>5. dp[0].score \in Scores
  BY <1>4 DEF State, Scores
<1>6. Walked'
  <2>1. Costed(<<>>) /\ Cost(<<>>) = ZeroScore
    BY CostEmpty DEF Costed
  <2>2. Combine(ZeroScore, dp[0].score) = dp[0].score
    BY <1>5, CombineZero
  <2> QED
    BY <1>1, <2>1, <2>2 DEF Walked
<1> QED
  BY <1>1, <1>2, <1>3, <1>6 DEF SearchInv

\* What the walk takes at a position: the candidate that is best there.
LEMMA ChoiceIs ==
    ASSUME SearchInv, Choose
    PROVE  LET c == dp[at].choice
           IN  /\ c \in CandidatesAt(at) /\ Fitting(c, at) /\ c \in Choice
               /\ Score(c) \in Scores
               /\ at + c.len \in 0 .. Len(target) /\ at + c.len > at
               /\ dp[at + c.len].reached
               /\ dp[at + c.len].score \in Scores
               /\ dp[at].score = Combine(Score(c), dp[at + c.len].score)
<1>1. /\ phase = "walk" /\ at \in 0 .. Len(target) - 1 /\ dp[at].reached
      /\ Len(target) \in Nat
  BY DEF SearchInv, SearchTypeOK, Choose
<1>2. Weighing(at) /\ Settled(at)
  BY <1>1, InvWeighing DEF SearchInv, Walking
<1> DEFINE c == dp[at].choice
<1>3. c \in CandidatesAt(at) /\ Usable(c, at) /\ dp[at].score = Total(c, at)
  BY <1>1, <1>2 DEF Settled, Settles
<1> HIDE DEF c
<1>4. /\ Fitting(c, at) /\ c \in Choice /\ Score(c) \in Scores
      /\ at + c.len \in at + 1 .. Len(target) /\ dp[at + c.len].score \in Scores
  BY <1>2, <1>3, TotalIs
<1> QED
  BY <1>1, <1>3, <1>4 DEF Usable, Total, c

\* The walk goes on to where the best chunk ends.
LEMMA InvChoose ==
    ASSUME SearchInv, Choose
    PROVE  SearchInv'
<1>0. PICK pos, c, next : pos = at /\ c = dp[at].choice /\ next = at + c.len
  OBVIOUS
<1>1. /\ phase = "walk" /\ pos = at
      /\ at' = next /\ chunks' = Append(chunks, c)
      /\ UNCHANGED <<indexes, phase, target, opts, dp>>
      /\ Len(target) \in Nat /\ at \in 0 .. Len(target) /\ chunks \in Seq(Choice)
      /\ dp \in [0 .. Len(target) -> State] /\ Walked
  BY <1>0 DEF Choose, SearchInv, SearchTypeOK, Walking
<1>2. /\ c \in Choice /\ Score(c) \in Scores
      /\ next \in 0 .. Len(target) /\ dp[next].reached
      /\ dp[next].score \in Scores
      /\ dp[pos].score = Combine(Score(c), dp[next].score)
  BY <1>0, ChoiceIs
<1>3. SearchTypeOK'
  BY <1>1, <1>2 DEF SearchInv, SearchTypeOK
<1>4. ASSUME NEW p \in 0 .. Len(target) - 1 PROVE Settled(p)'
  BY <1>1, SettledAsBefore DEF SearchInv, Walking
<1>5. /\ Costed(chunks') /\ Cost(chunks) \in Scores
      /\ Cost(chunks') = Combine(Cost(chunks), Score(c))
  BY <1>1, <1>2, CostAppend DEF Walked
<1>6. Combine(Cost(chunks'), dp[next].score) = dp[0].score
  <2>1. Combine(Cost(chunks'), dp[next].score)
          = Combine(Cost(chunks), Combine(Score(c), dp[next].score))
    BY <1>2, <1>5, CombineAssociative
  <2> QED
    BY <1>1, <1>2, <2>1 DEF Walked
<1>7. chunks' # <<>>
  BY <1>1, <1>2, AppendProperties
<1>8. Walked'
  BY <1>1, <1>2, <1>5, <1>6, <1>7 DEF Walked
<1> QED
  BY <1>1, <1>3, <1>4, <1>8 DEF SearchInv, Walking

\* The walk ends where the value does, and so does the check.
LEMMA InvChosen ==
    ASSUME SearchInv, Chosen \/ Check
    PROVE  SearchInv'
<1>1. /\ phase \in {"walk", "check"} /\ phase' \in {"check", "planned", "rejected"}
      /\ UNCHANGED <<indexes, target, opts, at, dp, chunks>>
      /\ Len(target) \in Nat /\ at = Len(target) /\ Walked
  BY DEF Chosen, Check, SearchInv, SearchTypeOK, Walking, Walked
<1>2. SearchTypeOK'
  BY <1>1 DEF SearchInv, SearchTypeOK, Phases
<1>3. ASSUME NEW p \in 0 .. Len(target) - 1 PROVE Settled(p)'
  BY <1>1, SettledAsBefore DEF SearchInv, Walking
<1>4. Walked'
  BY <1>1 DEF Walked
<1> QED
  BY <1>1, <1>2, <1>3, <1>4 DEF SearchInv

\* Every step keeps the invariant.
LEMMA SearchInvStep == SearchInv /\ [SearchNext]_searchVars => SearchInv'
<1> SUFFICES ASSUME SearchInv, [SearchNext]_searchVars PROVE SearchInv'
  OBVIOUS
<1>1. CASE TimeOut \/ Uncovered
  <2>1. phase' = "failed" /\ UNCHANGED <<indexes, target, opts, at, dp, chunks>>
        /\ phase # "idle"
    BY <1>1 DEF TimeOut, Uncovered
  <2>2. SearchTypeOK'
    BY <2>1 DEF SearchInv, SearchTypeOK, Phases
  <2> QED
    BY <2>1, <2>2 DEF SearchInv, Walking
<1>2. CASE UNCHANGED searchVars
  <2>1. SearchTypeOK' /\ (Walked' <=> Walked)
    BY <1>2 DEF searchVars, SearchInv, SearchTypeOK, Walked
  <2>2. \A pos : Settled(pos)' <=> Settled(pos)
    BY <1>2 DEF searchVars, Settled, Settles, CandidatesAt, CandidatesIn, Usable, Total
  <2> QED
    BY <1>2, <2>1, <2>2 DEF searchVars, SearchInv
<1> QED
  BY <1>1, <1>2, InvBegin, InvWeigh, InvWeighed, InvChoose, InvChosen DEF SearchNext

\* The invariant holds always.
LEMMA SearchInvHolds == SearchSpec => []SearchInv
  BY SearchInvInit, SearchInvStep, PTL DEF SearchSpec

\* Neither the search nor the walk ever leaves the value, and the table keeps
\* its shape, whatever the indexes say and wherever the clock stops a call.
THEOREM SearchTypeCorrect == SearchSpec => []SearchTypeOK
<1>1. SearchInv => SearchTypeOK
  BY DEF SearchInv
<1> QED
  BY <1>1, SearchInvHolds, PTL

\* The walk takes the chunks that were scored: it does not get stuck, ends with
\* the value, and has paid what the search said the whole would cost.
THEOREM WalkCorrect == SearchSpec => []WalkFollowsSearch
<1>1. ASSUME SearchInv PROVE WalkFollowsSearch
  <2>1. CASE phase \in Walking
    <3>1. Walked /\ at \in 0 .. Len(target) /\ dp[Len(target)] = End
      BY <1>1, <2>1 DEF SearchInv, SearchTypeOK, Walking
    <3>2. Cost(chunks) \in Scores
      <4>1. PICK t \in [0 .. Len(chunks) -> Scores] : Cost(chunks) = t[Len(chunks)]
        BY <3>1, CostTrace DEF Walked
      <4> QED
        BY <3>1, <4>1 DEF Walked, Costed
    <3>3. phase # "walk" => Cost(chunks) = dp[0].score
      BY <3>1, <3>2, CombineZero DEF Walked, End
    <3> QED
      BY <3>1, <3>3 DEF Walked, WalkFollowsSearch
  <2> QED
    BY <2>1 DEF WalkFollowsSearch, Walking
<1> QED
  BY <1>1, SearchInvHolds, PTL

-----------------------------------------------------------------------------
(* What a plan spells *)

\* Chunks that lie one after the other, from the start of the value to end.
Tiles(cs, end, p) ==
    /\ p \in [0 .. Len(cs) -> 0 .. Len(target)]
    /\ p[0] = 0 /\ p[Len(cs)] = end
    /\ \A i \in 1 .. Len(cs) : p[i] = p[i - 1] + cs[i].len /\ Fitting(cs[i], p[i - 1])

\* What the walk has chosen lies so up to where it is; and if the indexes were
\* built from their streams, no plan has been refused.
PlanInv ==
    /\ phase \in Walking => \E p : Tiles(chunks, at, p)
    /\ (\A n \in DOMAIN indexes : Genuine(indexes[n])) => phase # "rejected"

\* The bytes of a gram are those of the sequence, from where it starts.
LEMMA GramElements ==
    ASSUME NEW s \in Seq(Bytes), NEW o \in Nat, NEW k \in Nat, o + k <= Len(s)
    PROVE  /\ Gram(s, o, k) \in Seq(Bytes)
           /\ Len(Gram(s, o, k)) = k
           /\ \A i \in 1 .. k : Gram(s, o, k)[i] = s[o + i]
<1> DEFINE lo == o + 1
           hi == o + k
<1>1. /\ lo \in 1 .. Len(s) + 1 /\ hi \in lo - 1 .. Len(s)
      /\ hi - lo + 1 = k /\ \A i \in 1 .. k : lo + i - 1 = o + i
  BY LenProperties
<1> HIDE DEF lo, hi
<1>2. /\ SubSeq(s, lo, hi) \in Seq(Bytes) /\ Len(SubSeq(s, lo, hi)) = hi - lo + 1
      /\ \A i \in 1 .. hi - lo + 1 : SubSeq(s, lo, hi)[i] = s[lo + i - 1]
  BY <1>1, SubSeqProperties
<1> QED
  BY <1>1, <1>2 DEF Gram, lo, hi

\* What a chunk of a genuine index reads is what the value has in its place.
LEMMA SpelledIs ==
    ASSUME indexes \in Libraries, target \in Seq(Bytes),
           \A n \in DOMAIN indexes : Genuine(indexes[n]),
           NEW c, NEW pos \in 0 .. Len(target), Fitting(c, pos)
    PROVE  Readable(c) /\ Spelled(c) = Gram(target, pos, c.len)
<1>1. CASE IsLiteral(c)
  BY <1>1 DEF Fitting, Readable, Spelled
<1>2. CASE ~IsLiteral(c)
  <2> DEFINE prefix == indexes[c.by].prefix
             stream == indexes[c.by].stream
  <2>1. /\ c.by \in DOMAIN indexes /\ c.offset \in Nat /\ c.len \in Nat
        /\ c.offset + c.len <= Len(prefix)
        /\ Gram(prefix, c.offset, c.len) = Gram(target, pos, c.len)
    BY <1>2 DEF Fitting, Located, Choice
  <2>2. prefix \in Seq(Bytes) /\ stream \in Seq(Bytes) /\ IsPrefix(prefix, stream)
    BY <2>1, Parts DEF Genuine
  <2> HIDE DEF prefix, stream
  <2>3. /\ Len(prefix) \in Nat /\ Len(stream) \in Nat /\ Len(prefix) <= Len(stream)
        /\ SubSeq(prefix, 1, Len(prefix)) = SubSeq(stream, 1, Len(prefix))
    BY <2>2 DEF IsPrefix
  <2>4. \A i \in 1 .. Len(prefix) : prefix[i] = stream[i]
    <3> TAKE i \in 1 .. Len(prefix)
    <3>1. SubSeq(prefix, 1, Len(prefix))[i] = prefix[i]
      BY <2>2, <2>3
    <3>2. SubSeq(stream, 1, Len(prefix))[i] = stream[i]
      BY <2>2, <2>3
    <3> QED
      BY <2>3, <3>1, <3>2
  <2>5. Gram(stream, c.offset, c.len) = Gram(prefix, c.offset, c.len)
    <3> DEFINE a == Gram(stream, c.offset, c.len)
               b == Gram(prefix, c.offset, c.len)
    <3>1. /\ c.offset \in Nat /\ c.len \in Nat
          /\ c.offset + c.len <= Len(prefix) /\ c.offset + c.len <= Len(stream)
      BY <2>1, <2>3
    <3>2. /\ a \in Seq(Bytes) /\ Len(a) = c.len
          /\ \A i \in 1 .. c.len : a[i] = stream[c.offset + i]
      BY <2>2, <3>1, GramElements
    <3>3. /\ b \in Seq(Bytes) /\ Len(b) = c.len
          /\ \A i \in 1 .. c.len : b[i] = prefix[c.offset + i]
      BY <2>2, <3>1, GramElements
    <3> HIDE DEF a, b
    <3>4. \A i \in 1 .. c.len : a[i] = b[i]
      <4> TAKE i \in 1 .. c.len
      <4>1. c.offset + i \in 1 .. Len(prefix)
        BY <2>1, <2>3
      <4> QED
        BY <2>4, <3>2, <3>3, <4>1
    <3>5. a = b
      BY <3>2, <3>3, <3>4, SeqEqual
    <3> QED
      BY <3>5 DEF a, b
  <2> QED
    BY <1>2, <2>1, <2>3, <2>5 DEF Readable, Spelled, prefix, stream
<1> QED
  BY <1>1, <1>2

SpellSteps(cs) == [i \in 1 .. Len(cs) |-> [s \in Seq(Bytes) |-> s \o Spelled(cs[i])]]

\* A plan spells what its chunks read, one after the other.
LEMMA SpellTrace ==
    ASSUME NEW cs, Len(cs) \in Nat, DOMAIN cs = 1 .. Len(cs),
           \A i \in 1 .. Len(cs) : Spelled(cs[i]) \in Seq(Bytes)
    PROVE  \E t \in [0 .. Len(cs) -> Seq(Bytes)] :
             Trace(<<>>, SpellSteps(cs), Len(cs), t) /\ Spells(cs) = t[Len(cs)]
<1> DEFINE n == Len(cs)
           step == SpellSteps(cs)
           Table(f) ==
             f = [s \in SUBSET DOMAIN cs |->
                    IF s = {} THEN <<>> ELSE f[s \ {Max(s)}] \o Spelled(cs[Max(s)])]
           f == CHOOSE f : Table(f)
<1>1. Spells(cs) = f[DOMAIN cs]
  BY DEF Spells, FoldLeft, MapThenFoldSet
<1>2. n \in Nat /\ DOMAIN cs = 1 .. n /\ <<>> \in Seq(Bytes)
  OBVIOUS
<1>3. step \in [1 .. n -> [Seq(Bytes) -> Seq(Bytes)]]
  BY <1>2, ConcatProperties DEF SpellSteps
<1>4. PICK g \in [SUBSET (1 .. n) -> Seq(Bytes)] : FoldTable(<<>>, step, 1 .. n, g)
  <2> HIDE DEF n, step
  <2> QED
    BY <1>2, <1>3, FoldTableExists
<1>5. Table(g)
  <2>1. ASSUME NEW s \in SUBSET (1 .. n), s # {}
        PROVE  step[Max(s)][g[s \ {Max(s)}]] = g[s \ {Max(s)}] \o Spelled(cs[Max(s)])
    <3>1. Max(s) \in 1 .. n
      BY <1>2, <2>1, MaxOf
    <3>2. g[s \ {Max(s)}] \in Seq(Bytes)
      BY <1>4
    <3> QED
      BY <3>1, <3>2 DEF SpellSteps
  <2> HIDE DEF step, n
  <2> QED
    BY <1>2, <1>4, <2>1 DEF FoldTable
<1>6. Table(f)
  <2> HIDE DEF Table
  <2> QED
    BY <1>5
<1> HIDE DEF f
<1>7. f[{}] = <<>>
  BY <1>2, <1>6
<1>8. ASSUME NEW m \in 1 .. n, f[1 .. m - 1] \in Seq(Bytes)
      PROVE  f[1 .. m] = step[m][f[1 .. m - 1]]
  <2>1. /\ 1 .. m # {} /\ 1 .. m \in SUBSET (1 .. n)
        /\ (1 .. m) \ {m} = 1 .. m - 1 /\ Max(1 .. m) = m
    <3>1. m \in Nat \ {0} /\ m <= n /\ n \in Nat
      BY <1>2
    <3> HIDE DEF n
    <3>2. Max(1 .. m) = m
      BY <3>1, MaxOfStretch
    <3> QED
      BY <3>1, <3>2
  <2>2. f[1 .. m] = f[1 .. m - 1] \o Spelled(cs[m])
    BY <1>2, <1>6, <2>1
  <2> QED
    BY <1>8, <2>2 DEF SpellSteps
<1>9. \E t \in [0 .. n -> Seq(Bytes)] : Trace(<<>>, step, n, t) /\ f[1 .. n] = t[n]
  <2>1. PICK m, V, base, st, h :
          /\ m = n /\ V = Seq(Bytes) /\ base = <<>> /\ st = step /\ h = f
    OBVIOUS
  <2>2. m \in Nat /\ base \in V /\ st \in [1 .. m -> [V -> V]] /\ h[{}] = base
    BY <1>2, <1>3, <1>7, <2>1
  <2>3. \A i \in 1 .. m : h[1 .. i - 1] \in V => h[1 .. i] = st[i][h[1 .. i - 1]]
    BY <1>8, <2>1
  <2> HIDE DEF n, step
  <2>4. \E t \in [0 .. m -> V] : Trace(base, st, m, t) /\ h[1 .. m] = t[m]
    BY ONLY <2>2, <2>3, FoldValues, SMTT(30)
  <2> QED
    BY <2>1, <2>4
<1> HIDE DEF n, step
<1> QED
  BY <1>1, <1>2, <1>9 DEF n, step

\* Stretches of a sequence that follow each other make one.
LEMMA GramsJoin ==
    ASSUME NEW s \in Seq(Bytes), NEW a \in 0 .. Len(s), NEW k \in Nat, a + k <= Len(s)
    PROVE  /\ SubSeq(s, 1, a) \o Gram(s, a, k) = SubSeq(s, 1, a + k)
           /\ Gram(s, a, k) \in Seq(Bytes)
<1>1. 1 \in 1 .. Len(s) + 1 /\ a \in 1 - 1 .. Len(s) /\ a + k \in a .. Len(s)
  OBVIOUS
<1>2. SubSeq(s, 1, a) \o SubSeq(s, a + 1, a + k) = SubSeq(s, 1, a + k)
  BY <1>1, ConcatAdjacentSubSeq
<1>3. Gram(s, a, k) \in Seq(Bytes)
  BY <1>1 DEF Gram
<1> QED
  BY <1>2, <1>3 DEF Gram

\* A plan whose chunks lie one after the other to the end of the value spells
\* the value.
LEMMA TilesSpell ==
    ASSUME indexes \in Libraries, target \in Seq(Bytes), chunks \in Seq(Choice),
           \A n \in DOMAIN indexes : Genuine(indexes[n]),
           NEW p, Tiles(chunks, Len(target), p)
    PROVE  Sound
<1> DEFINE n == Len(chunks)
<1>1. n \in Nat /\ DOMAIN chunks = 1 .. n /\ Len(target) \in Nat
  BY LenProperties
<1>2. ASSUME NEW i \in 1 .. n
      PROVE  /\ p[i - 1] \in 0 .. Len(target) /\ p[i] \in 0 .. Len(target)
             /\ p[i] = p[i - 1] + chunks[i].len /\ chunks[i].len \in Nat
             /\ Readable(chunks[i])
             /\ Spelled(chunks[i]) = Gram(target, p[i - 1], chunks[i].len)
  <2>1. i - 1 \in 0 .. n /\ i \in 0 .. n
    BY <1>1
  <2>2. p[i - 1] \in 0 .. Len(target) /\ p[i] \in 0 .. Len(target)
    BY <2>1 DEF Tiles
  <2>3. p[i] = p[i - 1] + chunks[i].len /\ Fitting(chunks[i], p[i - 1])
    BY <1>2 DEF Tiles
  <2> QED
    BY <2>2, <2>3, SpelledIs DEF Fitting, Choice
<1>3. ASSUME NEW i \in 1 .. n
      PROVE  /\ Spelled(chunks[i]) \in Seq(Bytes)
             /\ SubSeq(target, 1, p[i - 1]) \o Spelled(chunks[i]) = SubSeq(target, 1, p[i])
  <2> DEFINE a == p[i - 1]
             k == chunks[i].len
  <2>1. /\ target \in Seq(Bytes) /\ a \in 0 .. Len(target) /\ k \in Nat
        /\ a + k <= Len(target) /\ p[i] = a + k
        /\ Spelled(chunks[i]) = Gram(target, a, k)
    BY <1>1, <1>2
  <2> HIDE DEF a, k
  <2>2. /\ SubSeq(target, 1, a) \o Gram(target, a, k) = SubSeq(target, 1, a + k)
        /\ Gram(target, a, k) \in Seq(Bytes)
    BY <2>1, GramsJoin
  <2> QED
    BY <2>1, <2>2 DEF a
<1>4. PICK t \in [0 .. n -> Seq(Bytes)] :
        Trace(<<>>, SpellSteps(chunks), n, t) /\ Spells(chunks) = t[n]
  BY <1>1, <1>3, SpellTrace
<1> DEFINE Good == {i \in Nat : i <= n => t[i] = SubSeq(target, 1, p[i])}
<1>5. Nat \subseteq Good
  <2>1. 0 \in Good
    <3>1. t[0] = <<>> /\ p[0] = 0
      BY <1>4 DEF Trace, Tiles
    <3>2. SubSeq(target, 1, 0) = <<>>
      BY SubSeqEmpty
    <3> QED
      BY <3>1, <3>2
  <2>2. ASSUME NEW i \in Nat, i \in Good PROVE i + 1 \in Good
    <3> SUFFICES ASSUME i + 1 <= n PROVE t[i + 1] = SubSeq(target, 1, p[i + 1])
      OBVIOUS
    <3>1. i + 1 \in 1 .. n /\ (i + 1) - 1 = i /\ i \in 0 .. n
          /\ t[i] = SubSeq(target, 1, p[i])
      BY <1>1, <2>2
    <3>2. t[i] \in Seq(Bytes) /\ t[i + 1] = SpellSteps(chunks)[i + 1][t[i]]
      BY <1>4, <3>1 DEF Trace
    <3>3. t[i + 1] = t[i] \o Spelled(chunks[i + 1])
      BY <3>1, <3>2 DEF SpellSteps
    <3>4. SubSeq(target, 1, p[i]) \o Spelled(chunks[i + 1]) = SubSeq(target, 1, p[i + 1])
      BY <1>3, <3>1
    <3> QED
      BY <3>1, <3>3, <3>4
  <2> HIDE DEF Good
  <2> QED
    BY <2>1, <2>2, Induction
<1>6. Spells(chunks) = target
  <2>0. p[n] = Len(target)
    BY DEF Tiles
  <2>1. t[n] = SubSeq(target, 1, p[n])
    <3>1. n \in Good
      BY ONLY <1>1, <1>5
    <3>2. n <= n
      BY ONLY <1>1
    <3> QED
      BY ONLY <3>1, <3>2
  <2>2. SubSeq(target, 1, Len(target)) = target
    BY SubSeqFull
  <2> QED
    BY <1>4, <2>0, <2>1, <2>2
<1> QED
  BY <1>1, <1>2, <1>6 DEF Sound

\* The chunks lie as they did while the value and the indexes are the same.
LEMMA TilesStay ==
    ASSUME UNCHANGED <<indexes, target, opts>>, NEW cs, NEW end, NEW p, Tiles(cs, end, p)
    PROVE  Tiles(cs, end, p)'
  BY DEF Tiles, Fitting, Located

\* A chunk more goes where the others end.
LEMMA InvPlanChoose ==
    ASSUME SearchInv, PlanInv, Choose
    PROVE  \E p : Tiles(chunks, at, p)'
<1>0. PICK pos, c, next, cs : pos = at /\ c = dp[at].choice /\ next = at + c.len /\ cs = chunks
  OBVIOUS
<1>1. /\ phase = "walk" /\ pos = at /\ cs = chunks /\ cs \in Seq(Choice)
      /\ at' = next /\ chunks' = Append(cs, c)
      /\ UNCHANGED <<indexes, target, opts>>
      /\ Len(target) \in Nat
  BY <1>0 DEF Choose, SearchInv, SearchTypeOK
<1>2. c \in Choice /\ Fitting(c, pos) /\ next \in 0 .. Len(target) /\ next = pos + c.len
  BY <1>0, ChoiceIs
<1>3. PICK p : Tiles(cs, pos, p)
  BY <1>1 DEF PlanInv, Walking
<1> DEFINE n == Len(cs)
           q == [i \in 0 .. n + 1 |-> IF i = n + 1 THEN next ELSE p[i]]
<1>4. /\ n \in Nat /\ Len(chunks') = n + 1
      /\ \A i \in 1 .. n : chunks'[i] = cs[i]
      /\ chunks'[n + 1] = c
  BY <1>1, <1>2, AppendProperties, LenProperties
<1>5. /\ q \in [0 .. n + 1 -> 0 .. Len(target)]
      /\ q[0] = 0 /\ q[n] = pos /\ q[n + 1] = next
      /\ \A i \in 1 .. n : q[i] = p[i] /\ q[i - 1] = p[i - 1]
  BY <1>2, <1>3, <1>4 DEF Tiles
<1>6. \A i \in 1 .. n + 1 : q[i] = q[i - 1] + chunks'[i].len /\ Fitting(chunks'[i], q[i - 1])
  <2> TAKE i \in 1 .. n + 1
  <2>1. CASE i \in 1 .. n
    BY <1>3, <1>4, <1>5, <2>1 DEF Tiles
  <2>2. CASE i = n + 1
    <3>1. q[i - 1] = pos /\ q[i] = next /\ chunks'[i] = c
      BY <1>4, <1>5, <2>2
    <3> QED
      BY <1>2, <3>1
  <2> QED
    BY <1>4, <2>1, <2>2
<1> HIDE DEF q
<1>7. PICK ds : ds = chunks'
  OBVIOUS
<1>8. Tiles(ds, next, q)
  BY <1>4, <1>5, <1>6, <1>7 DEF Tiles
<1>9. Tiles(ds, next, q)'
  BY <1>1, <1>8, TilesStay
<1> QED
  BY <1>1, <1>7, <1>9

\* Every step keeps the plan in order.
LEMMA PlanInvStep == SearchInv /\ PlanInv /\ [SearchNext]_searchVars => PlanInv'
<1> SUFFICES ASSUME SearchInv, PlanInv, [SearchNext]_searchVars PROVE PlanInv'
  OBVIOUS
<1>1. CASE Begin \/ Weigh \/ TimeOut \/ Uncovered
  <2>1. phase' \in {"search", "failed"}
    BY <1>1 DEF Begin, Weigh, TimeOut, Uncovered
  <2> QED
    BY <2>1 DEF PlanInv, Walking
<1>2. CASE Weighed
  <2>1. /\ phase' = "walk" /\ at = 0 /\ chunks = <<>> /\ at' = at /\ chunks' = chunks
        /\ UNCHANGED <<indexes, target, opts>> /\ Len(target) \in Nat
    BY <1>2 DEF Weighed, SearchInv, SearchTypeOK
  <2> DEFINE p == [i \in 0 .. 0 |-> 0]
  <2>2. Tiles(<<>>, 0, p)
    BY <2>1 DEF Tiles
  <2> HIDE DEF p
  <2>3. Tiles(<<>>, 0, p)'
    BY <2>1, <2>2, TilesStay
  <2> QED
    BY <2>1, <2>3 DEF PlanInv
<1>3. CASE Choose
  <2>1. phase' = "walk"
    BY <1>3 DEF Choose
  <2> QED
    BY <1>3, <2>1, InvPlanChoose DEF PlanInv
<1>4. CASE Chosen \/ Check \/ UNCHANGED searchVars
  <2>1. /\ UNCHANGED <<indexes, target, opts, at, chunks>>
        /\ phase' \in Walking => phase \in Walking
        /\ phase' = "rejected" => phase = "rejected" \/ (phase = "check" /\ ~Sound)
    BY <1>4 DEF Chosen, Check, searchVars, Walking
  <2>2. PICK cs, end : cs = chunks /\ end = at
    OBVIOUS
  <2>3. phase' \in Walking => \E p : Tiles(chunks, at, p)'
    <3> SUFFICES ASSUME phase' \in Walking PROVE \E p : Tiles(chunks, at, p)'
      OBVIOUS
    <3>1. PICK p : Tiles(cs, end, p)
      BY <2>1, <2>2 DEF PlanInv
    <3>2. Tiles(cs, end, p)'
      BY <2>1, <3>1, TilesStay
    <3> QED
      BY <2>1, <2>2, <3>2
  <2>4. ASSUME \A n \in DOMAIN indexes : Genuine(indexes[n]), phase = "check"
        PROVE  Sound
    <3>1. /\ indexes \in Libraries /\ target \in Seq(Bytes) /\ chunks \in Seq(Choice)
          /\ at = Len(target)
      BY <2>4 DEF SearchInv, SearchTypeOK, Walking, Walked
    <3>2. PICK p : Tiles(chunks, at, p)
      BY <2>4 DEF PlanInv, Walking
    <3> QED
      BY <2>4, <3>1, <3>2, TilesSpell
  <2>5. (\A n \in DOMAIN indexes' : Genuine(indexes'[n])) => phase' # "rejected"
    BY <2>1, <2>4 DEF PlanInv
  <2> QED
    BY <2>3, <2>5 DEF PlanInv, Genuine
<1> QED
  BY <1>1, <1>2, <1>3, <1>4 DEF SearchNext

\* A planner whose indexes were built from their streams never refuses what it
\* has planned.
THEOREM GenuinePlansCorrect == SearchSpec => []GenuinePlansPass
<1>1. SearchInit => PlanInv
  BY DEF SearchInit, PlanInv, Walking
<1>2. PlanInv => GenuinePlansPass
  BY DEF PlanInv, GenuinePlansPass
<1> QED
  BY <1>1, <1>2, SearchInvHolds, PlanInvStep, PTL DEF SearchSpec

-----------------------------------------------------------------------------
(* All ways to cover the value *)

\* What a chunk costs comes on top of what the others do, wherever it stands.
LEMMA CostFirst ==
    ASSUME NEW C, \A x \in C : Score(x) \in Scores, NEW c \in C, NEW cs \in Seq(C)
    PROVE  /\ Cost(cs) \in Scores
           /\ Cost(<<c>> \o cs) = Combine(Score(c), Cost(cs))
           /\ <<c>> \o cs \in Seq(C)
<1> DEFINE n == Len(cs)
           ds == <<c>> \o cs
<1>1. n \in Nat /\ DOMAIN cs = 1 .. n /\ \A i \in 1 .. n : cs[i] \in C
  BY LenProperties
<1>2. /\ ds \in Seq(C) /\ Len(ds) = n + 1 /\ DOMAIN ds = 1 .. n + 1
      /\ ds[1] = c /\ \A i \in 1 .. n : ds[i + 1] = cs[i]
  <2>1. <<c>> \in Seq(C) /\ Len(<<c>>) = 1 /\ <<c>>[1] = c
    OBVIOUS
  <2>2. /\ ds \in Seq(C) /\ Len(ds) = 1 + n
        /\ \A i \in 1 .. 1 + n : ds[i] = IF i <= 1 THEN <<c>>[i] ELSE cs[i - 1]
    BY <2>1, ConcatProperties
  <2>3. ASSUME NEW i \in 1 .. n PROVE ds[i + 1] = cs[i]
    <3>1. i + 1 \in 1 .. 1 + n /\ ~(i + 1 <= 1) /\ (i + 1) - 1 = i
      BY <1>1
    <3> QED
      BY <2>2, <3>1
  <2>4. ds[1] = c
    BY <1>1, <2>1, <2>2
  <2>5. DOMAIN ds = 1 .. n + 1 /\ Len(ds) = n + 1
    BY <1>1, <2>2, LenProperties
  <2> QED
    BY <2>2, <2>3, <2>4, <2>5
<1> HIDE DEF ds
<1>3. Costed(cs)
  BY <1>1 DEF Costed
<1>4. Costed(ds)
  <2>1. \A i \in 1 .. n + 1 : i = 1 \/ (i - 1 \in 1 .. n /\ ds[i] = ds[(i - 1) + 1])
    BY <1>1
  <2>2. \A i \in 1 .. n + 1 : ds[i] \in C
    BY <1>1, <1>2, <2>1
  <2> QED
    BY <1>1, <1>2, <2>2 DEF Costed
<1>5. PICK t \in [0 .. n -> Scores] :
        Trace(ZeroScore, CostSteps(cs), n, t) /\ Cost(cs) = t[n]
  BY <1>3, CostTrace
<1>6. PICK u \in [0 .. n + 1 -> Scores] :
        Trace(ZeroScore, CostSteps(ds), n + 1, u) /\ Cost(ds) = u[n + 1]
  BY <1>2, <1>4, CostTrace
<1>7. ASSUME NEW i \in 1 .. n
      PROVE  t[i - 1] \in Scores /\ t[i] = Combine(t[i - 1], Score(cs[i]))
  <2>1. t[i - 1] \in Scores
    BY <1>1, <1>5
  <2>2. t[i] = CostSteps(cs)[i][t[i - 1]]
    BY <1>5 DEF Trace
  <2> QED
    BY <2>1, <2>2 DEF CostSteps
<1>8. ASSUME NEW i \in 1 .. n + 1
      PROVE  u[i - 1] \in Scores /\ u[i] = Combine(u[i - 1], Score(ds[i]))
  <2>1. u[i - 1] \in Scores
    BY <1>1, <1>6
  <2>2. u[i] = CostSteps(ds)[i][u[i - 1]]
    BY <1>6 DEF Trace
  <2> QED
    BY <1>2, <2>1, <2>2 DEF CostSteps
<1>9. Score(c) \in Scores /\ \A i \in 1 .. n : Score(cs[i]) \in Scores
  BY <1>1
<1> DEFINE Good == {i \in Nat : i <= n => u[i + 1] = Combine(Score(c), t[i])}
<1>10. 0 \in Good
  <2>1. 1 \in 1 .. n + 1 /\ 1 - 1 = 0 /\ u[0] = ZeroScore /\ t[0] = ZeroScore
    BY <1>1, <1>5, <1>6 DEF Trace
  <2>2. u[1] = Combine(ZeroScore, Score(c))
    BY <1>2, <1>8, <2>1
  <2> QED
    BY <1>9, <2>1, <2>2, CombineZero
<1>11. ASSUME NEW i \in Nat, i \in Good PROVE i + 1 \in Good
  <2> SUFFICES ASSUME i + 1 <= n PROVE u[(i + 1) + 1] = Combine(Score(c), t[i + 1])
    OBVIOUS
  <2>1. PICK j, k : j = i + 1 /\ k = i + 2
    OBVIOUS
  <2>2. /\ j \in 1 .. n /\ j - 1 = i /\ k \in 1 .. n + 1 /\ k - 1 = j /\ (i + 1) + 1 = k
        /\ j + 1 = k /\ u[j] = Combine(Score(c), t[i])
    BY <1>1, <1>11, <2>1
  <2>3. u[k] = Combine(u[j], Score(cs[j]))
    BY <1>2, <1>8, <2>2
  <2>4. t[i] \in Scores /\ t[j] = Combine(t[i], Score(cs[j]))
    BY <1>7, <2>2
  <2>5. u[k] = Combine(Score(c), t[j])
    BY <1>9, <2>2, <2>3, <2>4, CombineAssociative
  <2> QED
    BY <2>1, <2>2, <2>5
<1>12. n \in Good
  <2> HIDE DEF Good
  <2> QED
    BY <1>1, <1>10, <1>11, Induction
<1>13. t[n] \in Scores /\ u[n + 1] = Combine(Score(c), t[n])
  BY <1>1, <1>5, <1>12
<1> QED
  BY <1>2, <1>5, <1>6, <1>13 DEF ds

\* The lists that begin with a chunk.
After(c, lists) == {<<c>> \o rest : rest \in lists}

\* The recursive function in the definition of Covers: K[pos] is what there is
\* to begin with at a position.
CoverTable(n, K, f) ==
    f = [pos \in 0 .. n |->
           IF pos = n THEN {<<>>} ELSE UNION {After(c, f[pos + c.len]) : c \in K[pos]}]

\* There is such a function, since every chunk leads on.
LEMMA CoverTableExists ==
    ASSUME NEW n \in Nat, NEW K,
           \A pos \in 0 .. n - 1 : \A c \in K[pos] : pos + c.len \in pos + 1 .. n
    PROVE  \E f : CoverTable(n, K, f)
<1> DEFINE From(f, pos) ==
             IF pos = n THEN {<<>>} ELSE UNION {After(c, f[pos + c.len]) : c \in K[pos]}
           Good == {m \in Nat : m <= n =>
                      \E f : /\ f = [pos \in 0 .. n |-> f[pos]]
                             /\ \A pos \in n - m .. n : f[pos] = From(f, pos)}
<1>1. ASSUME NEW f, NEW g, NEW pos \in 0 .. n, \A p \in pos + 1 .. n : f[p] = g[p]
      PROVE  From(f, pos) = From(g, pos)
  <2>1. CASE pos = n
    BY <2>1
  <2>2. CASE pos # n
    <3>1. \A c \in K[pos] : f[pos + c.len] = g[pos + c.len]
      BY <1>1, <2>2
    <3>2. {After(c, f[pos + c.len]) : c \in K[pos]} = {After(c, g[pos + c.len]) : c \in K[pos]}
      BY <3>1
    <3> QED
      BY <2>2, <3>2
  <2> QED
    BY <2>1, <2>2
<1>2. 0 \in Good
  <2> DEFINE f == [pos \in 0 .. n |-> {<<>>}]
  <2>1. n - 0 .. n = {n}
    OBVIOUS
  <2>2. f = [pos \in 0 .. n |-> f[pos]] /\ f[n] = From(f, n)
    OBVIOUS
  <2> HIDE DEF f, From
  <2>3. \A pos \in n - 0 .. n : f[pos] = From(f, pos)
    BY <2>1, <2>2
  <2> QED
    BY <2>2, <2>3
<1> HIDE DEF From
<1>3. ASSUME NEW m \in Nat, m \in Good PROVE m + 1 \in Good
  <2> SUFFICES ASSUME m + 1 <= n
               PROVE  \E f : /\ f = [pos \in 0 .. n |-> f[pos]]
                             /\ \A pos \in n - (m + 1) .. n : f[pos] = From(f, pos)
    OBVIOUS
  <2>1. PICK f : \A pos \in n - m .. n : f[pos] = From(f, pos)
    BY <1>3
  <2> HIDE DEF Good
  <2> DEFINE g == [pos \in 0 .. n |-> From(f, pos)]
  <2>2. \A pos \in 0 .. n : g[pos] = From(f, pos)
    OBVIOUS
  <2>3. g = [pos \in 0 .. n |-> g[pos]]
    OBVIOUS
  <2> HIDE DEF g
  <2>4. \A pos \in n - m .. n : g[pos] = f[pos] /\ pos \in 0 .. n
    BY <2>1, <2>2
  <2>5. ASSUME NEW pos \in n - (m + 1) .. n PROVE g[pos] = From(g, pos)
    <3>1. pos \in 0 .. n /\ \A p \in pos + 1 .. n : p \in n - m .. n
      BY <2>5
    <3>2. \A p \in pos + 1 .. n : f[p] = g[p]
      BY <2>4, <3>1
    <3> QED
      BY <1>1, <2>2, <3>1, <3>2
  <2> QED
    BY <2>3, <2>5
<1>4. n \in Good
  <2> HIDE DEF Good
  <2> QED
    BY <1>2, <1>3, Induction
<1>5. PICK f : /\ f = [pos \in 0 .. n |-> f[pos]]
               /\ \A pos \in n - n .. n : f[pos] = From(f, pos)
  BY <1>4
<1>6. \A pos \in 0 .. n : f[pos] = From(f, pos)
  BY <1>5
<1>7. f = [pos \in 0 .. n |-> From(f, pos)]
  BY <1>5, <1>6
<1> QED
  BY <1>7 DEF CoverTable, From

\* The ways to cover the rest of the value: none is needed at its end; elsewhere
\* a chunk that there is, and a way on from where it ends.
LEMMA CoversAre ==
    ASSUME target \in Seq(Bytes), NEW idxs,
           \A pos \in 0 .. Len(target) - 1 : \A c \in CandidatesIn(idxs, pos) :
              pos + c.len \in pos + 1 .. Len(target)
    PROVE  /\ Covers(idxs)[Len(target)] = {<<>>}
           /\ \A pos \in 0 .. Len(target) - 1 :
                Covers(idxs)[pos] =
                  UNION {After(c, Covers(idxs)[pos + c.len]) : c \in CandidatesIn(idxs, pos)}
<1>1. PICK n, K : n = Len(target) /\ K = [pos \in 0 .. n - 1 |-> CandidatesIn(idxs, pos)]
  OBVIOUS
<1>2. n \in Nat /\ \A pos \in 0 .. n - 1 : K[pos] = CandidatesIn(idxs, pos)
  BY <1>1
<1>3. \A pos \in 0 .. n - 1 : \A c \in K[pos] : pos + c.len \in pos + 1 .. n
  BY <1>1, <1>2
<1> DEFINE Table(f) ==
      f = [pos \in 0 .. Len(target) |->
             IF pos = Len(target) THEN {<<>>}
             ELSE UNION {{<<c>> \o rest : rest \in f[pos + c.len]} :
                         c \in CandidatesIn(idxs, pos)}]
<1>4. Covers(idxs) = CHOOSE f : Table(f)
  BY DEF Covers
<1>5. ASSUME NEW f PROVE CoverTable(n, K, f) <=> Table(f)
  <2>1. \A pos \in 0 .. n : pos = n \/ K[pos] = CandidatesIn(idxs, pos)
    BY <1>2
  <2> QED
    BY <1>1, <2>1 DEF CoverTable, After
<1>6. \E f : CoverTable(n, K, f)
  BY <1>2, <1>3, CoverTableExists
<1> HIDE DEF Table
<1>7. Table(Covers(idxs))
  BY <1>4, <1>5, <1>6
<1>8. PICK f : f = Covers(idxs)
  OBVIOUS
<1>9. CoverTable(n, K, f)
  BY <1>5, <1>7, <1>8
<1>10. f[n] = {<<>>}
  BY <1>2, <1>9 DEF CoverTable
<1>11. \A pos \in 0 .. n - 1 : f[pos] = UNION {After(c, f[pos + c.len]) : c \in K[pos]}
  <2> TAKE pos \in 0 .. n - 1
  <2>1. pos \in 0 .. n /\ pos # n
    BY <1>2
  <2> QED
    BY <1>9, <2>1 DEF CoverTable
<1> QED
  BY <1>1, <1>2, <1>8, <1>10, <1>11

\* The chunks that have a cost.
Priced == {c \in Choice : Score(c) \in Scores}

\* For each chunk to begin with, in idxs, there is a candidate as long that
\* costs no more.
Matched(idxs, pos) ==
    \A c \in CandidatesIn(idxs, pos) :
      /\ c \in Priced
      /\ \E d \in CandidatesAt(pos) : d.len = c.len /\ ~Precedes(Score(c), Score(d))

\* Then no way to cover the rest of the value with the chunks of idxs costs less
\* than what the search has found.
LEMMA NothingCheaper ==
    ASSUME SearchInv, phase \in Walking, NEW idxs,
           \A pos \in 0 .. Len(target) - 1 : Matched(idxs, pos),
           NEW pos \in 0 .. Len(target), NEW cs \in Covers(idxs)[pos]
    PROVE  dp[pos].reached /\ ~Precedes(Cost(cs), dp[pos].score)
<1>1. PICK n, covers : n = Len(target) /\ covers = Covers(idxs)
  OBVIOUS
<1>2. /\ n \in Nat /\ n = Len(target) /\ target \in Seq(Bytes) /\ dp[n] = End
      /\ \A p \in 0 .. n - 1 : Weighing(p) /\ Settled(p) /\ Matched(idxs, p)
  BY <1>1, InvWeighing DEF SearchInv, SearchTypeOK, Walking
<1>3. ASSUME NEW p \in 0 .. n - 1, NEW c \in CandidatesIn(idxs, p)
      PROVE  /\ c \in Priced /\ p + c.len \in p + 1 .. n
             /\ \E d \in CandidatesAt(p) : d.len = c.len /\ ~Precedes(Score(c), Score(d))
  <2>1. PICK d \in CandidatesAt(p) : d.len = c.len /\ ~Precedes(Score(c), Score(d))
    BY <1>2 DEF Matched
  <2>2. p + d.len \in p + 1 .. n
    BY <1>2, TotalIs
  <2> QED
    BY <1>2, <2>1, <2>2 DEF Matched
<1>4. /\ covers[n] = {<<>>}
      /\ \A p \in 0 .. n - 1 :
           covers[p] = UNION {After(c, covers[p + c.len]) : c \in CandidatesIn(idxs, p)}
  BY <1>1, <1>2, <1>3, CoversAre
<1> DEFINE Fine(p) ==
             \A ds \in covers[p] :
                ds \in Seq(Priced) /\ dp[p].reached /\ ~Precedes(Cost(ds), dp[p].score)
           Good == {m \in Nat : \A p \in 0 .. n : n - p <= m => Fine(p)}
<1>5. ASSUME NEW p \in 0 .. n - 1, NEW c \in CandidatesIn(idxs, p),
             Fine(p + c.len), NEW ds \in After(c, covers[p + c.len])
      PROVE  ds \in Seq(Priced) /\ dp[p].reached /\ ~Precedes(Cost(ds), dp[p].score)
  <2>1. PICK rest \in covers[p + c.len] : ds = <<c>> \o rest
    BY DEF After
  <2>2. /\ rest \in Seq(Priced) /\ dp[p + c.len].reached
        /\ ~Precedes(Cost(rest), dp[p + c.len].score)
    BY <1>5
  <2>3. c \in Priced /\ \A x \in Priced : Score(x) \in Scores
    BY <1>3 DEF Priced
  <2>4. /\ ds \in Seq(Priced) /\ Cost(rest) \in Scores
        /\ Cost(ds) = Combine(Score(c), Cost(rest))
    BY <2>1, <2>2, <2>3, CostFirst
  <2>5. PICK d \in CandidatesAt(p) : d.len = c.len /\ ~Precedes(Score(c), Score(d))
    BY <1>3
  <2>6. /\ Score(d) \in Scores /\ dp[p + c.len].score \in Scores /\ Total(d, p) \in Scores
        /\ Total(d, p) = Combine(Score(d), dp[p + c.len].score)
    BY <1>2, <2>5, TotalIs DEF Total
  <2>7. dp[p].reached /\ ~Precedes(Total(d, p), dp[p].score)
    BY <1>2, <2>2, <2>5 DEF Settled, Settles, Usable
  <2>8. dp[p].score \in Scores
    <3>1. dp[p] \in State
      BY <1>2 DEF Weighing
    <3> QED
      BY <3>1 DEF State, Scores
  <2>9. ~Precedes(Cost(ds), Combine(Score(d), Cost(rest)))
    BY <2>3, <2>4, <2>5, <2>6, CombineGrows
  <2>10. ~Precedes(Combine(Score(d), Cost(rest)), Total(d, p))
    BY <2>2, <2>4, <2>6, PrecedesOrders
  <2>11. Combine(Score(d), Cost(rest)) \in Scores /\ Cost(ds) \in Scores
    BY <2>3, <2>4, <2>6, CombineIs
  <2>12. ~Precedes(Cost(ds), Total(d, p))
    BY <2>6, <2>9, <2>10, <2>11, PrecedesOrders
  <2> QED
    BY <2>4, <2>6, <2>7, <2>8, <2>11, <2>12, PrecedesOrders
<1>6. Fine(n)
  <2>1. <<>> \in Seq(Priced) /\ Cost(<<>>) = ZeroScore /\ ZeroScore \in Scores
    BY CostEmpty, CombineZero DEF Scores, ZeroScore
  <2>2. dp[n].reached /\ dp[n].score = ZeroScore
    BY <1>2 DEF End
  <2> QED
    BY <1>4, <2>1, <2>2, PrecedesOrders
<1>7. 0 \in Good
  <2>1. \A p \in 0 .. n : n - p <= 0 => p = n
    BY <1>2
  <2> HIDE DEF Fine
  <2> QED
    BY <1>6, <2>1
<1>8. ASSUME NEW m \in Nat, m \in Good PROVE m + 1 \in Good
  <2> SUFFICES ASSUME NEW p \in 0 .. n, n - p <= m + 1 PROVE Fine(p)
    BY DEF Good
  <2>1. CASE p = n
    BY <1>6, <2>1
  <2>2. CASE p # n
    <3>1. p \in 0 .. n - 1
      BY <1>2, <2>2
    <3>2. ASSUME NEW c \in CandidatesIn(idxs, p) PROVE Fine(p + c.len)
      <4>1. p + c.len \in p + 1 .. n
        BY <1>3, <3>1
      <4>2. p + c.len \in 0 .. n /\ n - (p + c.len) <= m
        BY <1>2, <3>1, <4>1
      <4> QED
        BY <1>8, <4>2
    <3>3. ASSUME NEW ds \in covers[p]
          PROVE  \E c \in CandidatesIn(idxs, p) : ds \in After(c, covers[p + c.len])
      BY <1>4, <3>1
    <3> QED
      BY <1>5, <3>1, <3>2, <3>3
  <2> QED
    BY <2>1, <2>2
<1>9. n \in Good
  <2> HIDE DEF Good
  <2> QED
    BY <1>2, <1>7, <1>8, Induction
<1> QED
  BY <1>1, <1>2, <1>9

\* Where there is something found, there is a way that costs just that.
LEMMA FoundIsPaid ==
    ASSUME SearchInv, phase = "walk", NEW pos \in 0 .. Len(target), dp[pos].reached
    PROVE  \E cs \in Covers(indexes)[pos] : Cost(cs) = dp[pos].score
<1>1. PICK n, covers : n = Len(target) /\ covers = Covers(indexes)
  OBVIOUS
<1>2. /\ n \in Nat /\ n = Len(target) /\ target \in Seq(Bytes) /\ dp[n] = End
      /\ \A p \in 0 .. n - 1 : Weighing(p) /\ Settled(p)
  BY <1>1, InvWeighing DEF SearchInv, SearchTypeOK, Walking
<1>3. ASSUME NEW p \in 0 .. n - 1, NEW c \in CandidatesIn(indexes, p)
      PROVE  c \in Priced /\ p + c.len \in p + 1 .. n /\ c \in CandidatesAt(p)
  BY <1>2, TotalIs DEF CandidatesAt, Priced
<1>4. /\ covers[n] = {<<>>}
      /\ \A p \in 0 .. n - 1 :
           covers[p] = UNION {After(c, covers[p + c.len]) : c \in CandidatesIn(indexes, p)}
  <2>1. \A p \in 0 .. Len(target) - 1 : \A c \in CandidatesIn(indexes, p) :
           p + c.len \in p + 1 .. Len(target)
    BY <1>2, <1>3
  <2>2. /\ Covers(indexes)[Len(target)] = {<<>>}
        /\ \A p \in 0 .. Len(target) - 1 :
             Covers(indexes)[p] =
               UNION {After(c, Covers(indexes)[p + c.len]) : c \in CandidatesIn(indexes, p)}
    BY ONLY <1>2, <2>1, CoversAre
  <2> QED
    BY ONLY <1>1, <2>2
<1> DEFINE Fine(p) ==
             dp[p].reached => \E ds \in covers[p] : ds \in Seq(Priced) /\ Cost(ds) = dp[p].score
           Good == {m \in Nat : \A p \in 0 .. n : n - p <= m => Fine(p)}
<1>5. ASSUME NEW p \in 0 .. n - 1, dp[p].reached,
             \A c \in CandidatesIn(indexes, p) : Fine(p + c.len)
      PROVE  \E ds \in covers[p] : ds \in Seq(Priced) /\ Cost(ds) = dp[p].score
  <2>1. PICK c : c = dp[p].choice
    OBVIOUS
  <2>2. c \in CandidatesIn(indexes, p) /\ Usable(c, p) /\ dp[p].score = Total(c, p)
    BY <1>2, <1>5, <2>1 DEF Settled, Settles, CandidatesAt
  <2>3. c \in Priced /\ \A x \in Priced : Score(x) \in Scores
    BY <1>3, <2>2 DEF Priced
  <2>4. PICK rest \in covers[p + c.len] :
          rest \in Seq(Priced) /\ Cost(rest) = dp[p + c.len].score
    BY <1>5, <2>2 DEF Usable
  <2>5. PICK ds : ds = <<c>> \o rest
    OBVIOUS
  <2>6. ds \in Seq(Priced) /\ Cost(ds) = Combine(Score(c), Cost(rest))
    BY <2>3, <2>4, <2>5, CostFirst
  <2>7. ds \in After(c, covers[p + c.len])
    BY <2>4, <2>5 DEF After
  <2>8. ds \in covers[p]
    BY <1>4, <2>2, <2>7
  <2> QED
    BY <2>2, <2>4, <2>6, <2>8 DEF Total
<1>6. Fine(n)
  <2>1. <<>> \in Seq(Priced) /\ Cost(<<>>) = ZeroScore
    BY CostEmpty
  <2>2. dp[n].score = ZeroScore
    BY <1>2 DEF End
  <2> QED
    BY <1>4, <2>1, <2>2
<1>7. 0 \in Good
  <2>1. \A p \in 0 .. n : n - p <= 0 => p = n
    BY <1>2
  <2> HIDE DEF Fine
  <2> QED
    BY <1>6, <2>1
<1>8. ASSUME NEW m \in Nat, m \in Good PROVE m + 1 \in Good
  <2> SUFFICES ASSUME NEW p \in 0 .. n, n - p <= m + 1 PROVE Fine(p)
    BY DEF Good
  <2>1. CASE p = n
    BY <1>6, <2>1
  <2>2. CASE p # n
    <3>1. p \in 0 .. n - 1
      BY <1>2, <2>2
    <3>2. ASSUME NEW c \in CandidatesIn(indexes, p) PROVE Fine(p + c.len)
      <4>1. p + c.len \in p + 1 .. n
        BY <1>3, <3>1
      <4>2. p + c.len \in 0 .. n /\ n - (p + c.len) <= m
        BY <1>2, <3>1, <4>1
      <4> QED
        BY <1>8, <4>2
    <3> QED
      BY <1>5, <3>1, <3>2
  <2> QED
    BY <2>1, <2>2
<1>9. n \in Good
  <2> HIDE DEF Good
  <2> QED
    BY <1>2, <1>7, <1>8, Induction
<1> QED
  BY <1>1, <1>2, <1>9

\* The search finds, from each position on, the least cost of all ways to cover
\* the rest of the value with the chunks that the indexes offer, and finds
\* nothing exactly where there is no way to.
THEOREM SearchFindsBest == SearchSpec => []SearchIsOptimal
<1>1. ASSUME SearchInv PROVE SearchIsOptimal
  <2> SUFFICES ASSUME phase = "walk", NEW pos \in 0 .. Len(target)
               PROVE  IF Covers(indexes)[pos] = {} THEN ~dp[pos].reached
                      ELSE /\ dp[pos].reached
                           /\ dp[pos].score \in {Cost(cs) : cs \in Covers(indexes)[pos]}
                           /\ \A cs \in Covers(indexes)[pos] :
                                ~Precedes(Cost(cs), dp[pos].score)
    BY DEF SearchIsOptimal
  <2>1. ASSUME NEW p \in 0 .. Len(target) - 1 PROVE Matched(indexes, p)
    <3> SUFFICES ASSUME NEW c \in CandidatesAt(p)
                 PROVE  c \in Priced /\ ~Precedes(Score(c), Score(c))
      BY DEF Matched, CandidatesAt
    <3>1. c \in Choice /\ Score(c) \in Scores
      BY <1>1, InvWeighing, TotalIs
    <3> QED
      BY <3>1, PrecedesOrders DEF Priced
  <2>2. \A cs \in Covers(indexes)[pos] :
           dp[pos].reached /\ ~Precedes(Cost(cs), dp[pos].score)
    BY <1>1, <2>1, NothingCheaper DEF Walking
  <2>3. dp[pos].reached => \E cs \in Covers(indexes)[pos] : Cost(cs) = dp[pos].score
    BY <1>1, FoundIsPaid
  <2> QED
    BY <2>2, <2>3
<1> QED
  BY <1>1, SearchInvHolds, PTL

\* The first of the offsets at which an index holds a gram is kept, so that what
\* the index without a cap finds, this one finds no later.
LEMMA FirstIsKept ==
    ASSUME indexes \in Libraries, NEW n \in DOMAIN indexes, NEW needle,
           Len(needle) \in Nat, NEW o \in Find(Uncapped(indexes[n]), needle)
    PROVE  /\ o \in Nat /\ o + Len(needle) <= Len(indexes[n].prefix)
           /\ Gram(indexes[n].prefix, o, Len(needle)) = needle
           /\ \E first \in Find(indexes[n], needle) : first <= o
<1>1. PICK index : index = indexes[n]
  OBVIOUS
<1>2. /\ index \in Index /\ index.cap \in Nat \ {0} /\ index.maxK \in Nat
      /\ Len(index.prefix) \in Nat
  BY <1>1, Parts DEF Index
<1> DEFINE all == Occurrences(index.prefix, needle)
           loose == Uncapped(index)
           shallow == {k \in 1 .. index.maxK : Fits(index, k)}
           deep == {k \in 1 .. loose.maxK : Fits(loose, k)}
<1>3. loose.prefix = index.prefix /\ loose.maxK = Depth(index)
  BY <1>2 DEF Uncapped, Index
<1>4. Depth(index) \in Nat
  <2>1. IsFiniteSet(shallow)
    <3>1. PICK m : m = index.maxK /\ m \in Int
      BY <1>2
    <3>2. IsFiniteSet(1 .. m)
      BY <3>1, FS_Interval
    <3>3. shallow \subseteq 1 .. m
      BY <3>1
    <3> HIDE DEF shallow
    <3> QED
      BY <3>2, <3>3, FS_Subset
  <2> QED
    BY <2>1, FS_CardinalityType DEF Depth
<1>5. Depth(loose) <= Depth(index) /\ Depth(loose) \in Nat
  <2>1. IsFiniteSet(1 .. Depth(index)) /\ Cardinality(1 .. Depth(index)) = Depth(index)
    BY <1>4, FS_Interval
  <2>2. deep \subseteq 1 .. Depth(index)
    BY <1>3
  <2>3. Depth(loose) = Cardinality(deep)
    BY DEF Depth
  <2> HIDE DEF deep, loose
  <2>4. IsFiniteSet(deep) /\ Cardinality(deep) <= Cardinality(1 .. Depth(index))
    BY <2>1, <2>2, FS_Subset
  <2>5. Cardinality(deep) \in Nat
    BY <2>4, FS_CardinalityType
  <2> QED
    BY <2>1, <2>3, <2>4, <2>5
<1>6. Len(needle) \in 1 .. Depth(loose) /\ o \in Retained(loose, needle)
  BY <1>1 DEF Find
<1>7. o \in all /\ all \in SUBSET Nat
  BY <1>3, <1>6 DEF Retained, Occurrences
<1>8. /\ o \in Nat /\ o + Len(needle) <= Len(index.prefix)
      /\ Gram(index.prefix, o, Len(needle)) = needle
  BY <1>2, <1>7 DEF Occurrences
<1> HIDE DEF all, loose
<1>9. PICK first \in all : \A m \in all : first <= m
  BY <1>7, LeastNumber
<1>10. {p \in all : p < first} = {}
  <2>1. ASSUME NEW p \in all, p < first PROVE FALSE
    <3>1. first <= p /\ p \in Nat /\ first \in Nat
      BY <1>7, <1>9
    <3> QED
      BY <2>1, <3>1
  <2> QED
    BY <2>1
<1>11. first \in Retained(index, needle)
  <2>1. Cardinality({p \in all : p < first}) < index.cap
    <3>1. Cardinality({p \in all : p < first}) = 0
      BY <1>10, FS_EmptySet, Zenon
    <3> QED
      BY <1>2, <3>1
  <2> QED
    BY <1>9, <2>1 DEF Retained, all
<1>12. first \in Find(index, needle)
  BY <1>4, <1>5, <1>6, <1>11 DEF Find
<1> QED
  BY <1>1, <1>7, <1>8, <1>9, <1>12

\* What is read from nearer the start of a stream takes no more bytes.
LEMMA NearerIsCheaper ==
    ASSUME NEW c \in Choice, NEW d \in Choice, ~IsLiteral(c), ~IsLiteral(d),
           d.len = c.len, d.offset <= c.offset, c.offset < Words, c.len < Words,
           Score(c) \in Scores, Score(d) \in Scores
    PROVE  ~Precedes(Score(c), Score(d))
<1>1. VarintLen(d.offset) <= VarintLen(c.offset)
  BY VarintLenGrows DEF Choice
<1>2. /\ Score(c) = <<LocatedCost(c.offset, c.len), 1, c.len>>
      /\ Score(d) = <<LocatedCost(d.offset, c.len), 1, c.len>>
  BY DEF Score
<1>3. /\ VarintLen(d.offset) \in Nat /\ VarintLen(c.offset) \in Nat
      /\ VarintLen(c.len) \in Nat
  <2>1. d.offset \in Nat /\ c.offset \in Nat /\ c.len \in Nat /\ d.offset < Words
    BY CodecAssumption DEF Choice
  <2> QED
    BY <2>1, VarintLenIs, CodecAssumption
<1>4. Score(d)[1] <= Score(c)[1]
  BY <1>1, <1>2, <1>3 DEF LocatedCost
<1>5. Score(d)[2] = Score(c)[2] /\ Score(d)[3] = Score(c)[3]
  BY <1>2
<1>6. \A n \in 1 .. 3 : Score(c)[n] \in Nat /\ Score(d)[n] \in Nat
  BY DEF Scores
<1> QED
  BY <1>4, <1>5, <1>6, PrecedesIs

\* The cap on the offsets kept per gram costs nothing: the value cannot be covered
\* better, or at all, with the offsets that are dropped.
THEOREM CapIsFree == SearchSpec => []CapLosesNothing
<1>1. ASSUME SearchInv PROVE CapLosesNothing
  <2> DEFINE loose == [n \in DOMAIN indexes |-> Uncapped(indexes[n])]
  <2> SUFFICES ASSUME phase = "walk"
               PROVE  \A cs \in Covers(loose)[0] :
                        dp[0].reached /\ ~Precedes(Cost(cs), dp[0].score)
    BY DEF CapLosesNothing
  <2>1. indexes \in Libraries /\ target \in Seq(Bytes) /\ opts \in Options
        /\ Len(target) \in Nat
    BY <1>1 DEF SearchInv, SearchTypeOK
  <2>2. PICK idxs : idxs = loose
    OBVIOUS
  <2>3. DOMAIN idxs = DOMAIN indexes /\ \A n \in DOMAIN indexes : idxs[n] = Uncapped(indexes[n])
    BY <2>2
  <2>4. ASSUME NEW pos \in 0 .. Len(target) - 1, NEW c \in CandidatesIn(idxs, pos)
        PROVE  /\ c \in Priced
               /\ \E d \in CandidatesAt(pos) : d.len = c.len /\ ~Precedes(Score(c), Score(d))
    <3>1. CASE opts.literals /\ c = [by |-> 0, offset |-> pos, len |-> 1]
      <4>1. c \in CandidatesAt(pos)
        BY <3>1, CandidatesInAre DEF CandidatesAt
      <4>2. c \in Choice /\ Score(c) \in Scores
        BY <2>1, <4>1, CandidatesFit, ScoreIs DEF Fitting
      <4> QED
        BY <4>1, <4>2, PrecedesOrders DEF Priced
    <3>2. ASSUME NEW n \in DOMAIN idxs, NEW k \in 1 .. opts.maxK, pos + k <= Len(target),
                 NEW o \in Find(idxs[n], Gram(target, pos, k)),
                 c = [by |-> n, offset |-> o, len |-> k]
          PROVE  /\ c \in Priced
                 /\ \E d \in CandidatesAt(pos) :
                      d.len = c.len /\ ~Precedes(Score(c), Score(d))
      <4>1. PICK gram : gram = Gram(target, pos, k)
        OBVIOUS
      <4>2. /\ k \in Nat \ {0} /\ pos \in Nat /\ Len(gram) = k /\ opts.maxK \in Nat
            /\ n \in DOMAIN indexes
        BY <2>1, <2>3, <4>1, GramLen DEF Options
      <4>3. /\ o \in Nat /\ o + k <= Len(indexes[n].prefix)
            /\ Gram(indexes[n].prefix, o, k) = gram
            /\ \E first \in Find(indexes[n], gram) : first <= o
        BY <2>1, <2>3, <3>2, <4>1, <4>2, FirstIsKept
      <4>4. PICK first \in Find(indexes[n], gram) : first <= o
        BY <4>3
      <4>5. PICK d : d = [by |-> n, offset |-> first, len |-> k]
        OBVIOUS
      <4>6. d \in CandidatesAt(pos)
        BY <3>2, <4>1, <4>2, <4>4, <4>5, CandidatesInAre DEF CandidatesAt
      <4>7. /\ n \in Nat \ {0} /\ Len(indexes[n].prefix) \in Nat
            /\ Len(indexes[n].prefix) < Words
        BY <2>1, <4>2, Parts
      <4>8. Fitting(c, pos) /\ ~IsLiteral(c)
        BY <2>1, <3>2, <4>1, <4>2, <4>3, <4>7 DEF Fitting, Located, IsLiteral, Choice
      <4>9. Fitting(d, pos) /\ ~IsLiteral(d)
        BY <2>1, <4>5, <4>6, <4>7, CandidatesFit DEF IsLiteral
      <4>10. c \in Choice /\ Score(c) \in Scores /\ d \in Choice /\ Score(d) \in Scores
        BY <2>1, <4>8, <4>9, ScoreIs DEF Fitting
      <4>11. /\ d.len = c.len /\ d.offset <= c.offset /\ c.offset < Words /\ c.len < Words
        BY <3>2, <4>2, <4>3, <4>4, <4>5, <4>7, WordsLarge
      <4>12. ~Precedes(Score(c), Score(d))
        BY <4>8, <4>9, <4>10, <4>11, NearerIsCheaper
      <4> QED
        BY <4>6, <4>10, <4>11, <4>12 DEF Priced
    <3> QED
      BY <3>1, <3>2, CandidatesInAre
  <2>5. \A pos \in 0 .. Len(target) - 1 : Matched(idxs, pos)
    BY <2>4 DEF Matched
  <2>6. 0 \in 0 .. Len(target)
    BY <2>1
  <2>7. \A cs \in Covers(idxs)[0] : dp[0].reached /\ ~Precedes(Cost(cs), dp[0].score)
    BY <1>1, <2>5, <2>6, NothingCheaper DEF Walking
  <2> QED
    BY <2>2, <2>7
<1> QED
  BY <1>1, SearchInvHolds, PTL

-----------------------------------------------------------------------------
(* What the plan takes when it is encoded *)

\* A number below the base takes one byte.
LEMMA OneByteVarint ==
    ASSUME NEW n \in Nat, n < VarintBase
    PROVE  VarintLen(n) = 1
<1>0. VarintBase \in Nat \ {0} /\ VarintBytes \in Nat \ {0}
  BY CodecAssumption
<1>1. VarintBase ^ 1 = VarintBase
  <2>1. VarintBase ^ 0 = 1
    BY PowerAssumption
  <2>2. 0 \in 0 .. VarintBytes - 1
    BY <1>0
  <2>3. VarintBase ^ (0 + 1) = VarintBase * VarintBase ^ 0
    BY <2>2, PowerAssumption
  <2> QED
    BY <1>0, <2>1, <2>3
<1>2. ASSUME NEW m \in 1 .. VarintBytes, m > 1 PROVE ~(n >= VarintBase ^ (m - 1))
  <2>1. m - 1 \in 0 .. VarintBytes /\ 1 \in 0 .. m - 1
    BY <1>0, <1>2
  <2>2. VarintBase ^ 1 <= VarintBase ^ (m - 1) /\ VarintBase ^ (m - 1) \in Nat
    BY <2>1, Powers
  <2> QED
    BY <1>0, <1>1, <2>2
<1>3. \A m \in 1 .. VarintBytes :
        n < VarintBase ^ m /\ (m > 1 => n >= VarintBase ^ (m - 1)) <=> m = 1
  BY <1>0, <1>1, <1>2
<1>4. 1 \in 1 .. VarintBytes
  BY <1>0
<1> QED
  BY <1>3, <1>4 DEF VarintLen

\* Chunks that take the bytes they are scored with, but for one that a literal
\* is scored with too much.
Excess(c) == IF IsLiteral(c) THEN 1 ELSE 0
Told == {c \in Priced : EncodedBytes(c) \in Nat /\ EncodedBytes(c) + Excess(c) = Score(c)[1]}

\* All candidates are such.
LEMMA FittingTold ==
    ASSUME indexes \in Libraries, FewStreams, NEW c, NEW pos, Fitting(c, pos)
    PROVE  c \in Told
<1>1. c \in Priced /\ c.len \in Nat \ {0} /\ c.offset \in Nat
  BY ScoreIs DEF Priced, Fitting, Choice
<1>2. CASE IsLiteral(c)
  <2>1. VarintLen(1) \in Nat
    BY VarintLenIs, WordsLarge, CodecAssumption
  <2>2. EncodedBytes(c) = 1 + VarintLen(1) + 1 /\ Score(c)[1] = 3 + VarintLen(1)
    BY <1>2 DEF EncodedBytes, Score, LiteralCost
  <2> QED
    BY <1>1, <1>2, <2>1, <2>2 DEF Told, Excess
<1>3. CASE ~IsLiteral(c)
  <2>1. /\ c.by \in DOMAIN indexes /\ c.by \in Nat \ {0}
        /\ c.offset + c.len <= Len(indexes[c.by].prefix)
        /\ Len(indexes[c.by].prefix) < Words /\ Len(indexes[c.by].prefix) \in Nat
    BY <1>3, Parts, LenProperties DEF Fitting, Located
  <2>2. c.offset < Words /\ c.len < Words
    BY <1>1, <2>1, WordsLarge
  <2>3. VarintLen(c.offset) \in Nat /\ VarintLen(c.len) \in Nat
    BY <1>1, <2>2, VarintLenIs, CodecAssumption
  <2>4. VarintLen(c.by - 1) = 1
    <3>1. Len(indexes) <= VarintBase /\ indexes \in Seq(Index) /\ VarintBase \in Nat
      BY PlannerAssumption, CodecAssumption DEF FewStreams
    <3>2. c.by \in 1 .. Len(indexes) /\ Len(indexes) \in Nat
      BY <2>1, <3>1, LenProperties
    <3>3. c.by - 1 \in Nat /\ c.by - 1 < VarintBase
      BY <3>1, <3>2
    <3> QED
      BY <3>3, OneByteVarint
  <2>5. /\ EncodedBytes(c) = 1 + VarintLen(c.by - 1) + VarintLen(c.offset) + VarintLen(c.len) + 1
        /\ Score(c)[1] = 1 + 1 + VarintLen(c.offset) + VarintLen(c.len) + 1
    BY <1>3 DEF EncodedBytes, Score, LocatedCost
  <2> QED
    BY <1>1, <1>3, <2>3, <2>4, <2>5 DEF Told, Excess
<1> QED
  BY <1>2, <1>3

\* The bytes of such chunks, and one for each literal, add up to the first part
\* of what they cost.
LEMMA EncodedCost ==
    ASSUME NEW cs \in Seq(Told)
    PROVE  /\ EncodedLen(cs) + Cardinality(LiteralsIn(cs)) = Cost(cs)[1]
           /\ Cost(cs) \in Scores
           /\ EncodedLen(cs) \in Nat /\ Cardinality(LiteralsIn(cs)) \in Nat
<1>1. PICK n : n = Len(cs)
  OBVIOUS
<1>2. /\ n \in Nat /\ DOMAIN cs = 1 .. n
      /\ \A i \in 1 .. n : cs[i] \in Told /\ Score(cs[i]) \in Scores
  BY <1>1, LenProperties, ElementOfSeq DEF Told, Priced
<1>3. Costed(cs)
  BY <1>1, <1>2 DEF Costed
<1>4. PICK t \in [0 .. n -> Scores] :
        Trace(ZeroScore, CostSteps(cs), n, t) /\ Cost(cs) = t[n]
  BY <1>1, <1>3, CostTrace
<1>5. PICK e : e = [i \in 1 .. n |-> EncodedBytes(cs[i])]
  OBVIOUS
<1>6. \A i \in 1 .. n : e[i] \in Nat /\ e[i] + Excess(cs[i]) = Score(cs[i])[1]
  BY <1>2, <1>5 DEF Told
<1> DEFINE L(m) == {i \in 1 .. m : IsLiteral(cs[i])}
           Good == {m \in Nat : m <= n =>
                      /\ IsFiniteSet(L(m)) /\ SumOf(e, 1 .. m) \in Nat
                      /\ SumOf(e, 1 .. m) + Cardinality(L(m)) = t[m][1]}
<1>7. 0 \in Good
  <2>1. 1 .. 0 = {} /\ L(0) = {}
    OBVIOUS
  <2>2. t[0][1] = 0
    BY <1>4 DEF Trace, ZeroScore
  <2>3. SumOf(e, {}) = 0 /\ IsFiniteSet({}) /\ Cardinality({}) = 0
    BY SumEmpty, FS_EmptySet
  <2> QED
    BY <2>1, <2>2, <2>3
<1>8. ASSUME NEW m \in Nat, m \in Good PROVE m + 1 \in Good
  <2> SUFFICES ASSUME m + 1 <= n
               PROVE  /\ IsFiniteSet(L(m + 1)) /\ SumOf(e, 1 .. m + 1) \in Nat
                      /\ SumOf(e, 1 .. m + 1) + Cardinality(L(m + 1)) = t[m + 1][1]
    OBVIOUS
  <2>1. m \in 0 .. n /\ m + 1 \in 1 .. n /\ m + 1 \in 0 .. n
    BY <1>2
  <2>2. /\ IsFiniteSet(L(m)) /\ SumOf(e, 1 .. m) \in Nat
        /\ SumOf(e, 1 .. m) + Cardinality(L(m)) = t[m][1]
    BY <1>8, <2>1
  <2>3. SumOf(e, 1 .. m + 1) = SumOf(e, 1 .. m) + e[m + 1] /\ e[m + 1] \in Nat
    <3>1. \A i \in 1 .. m + 1 : e[i] \in Nat
      BY <1>2, <1>6, <2>1
    <3>2. m + 1 \in 1 .. m + 1
      OBVIOUS
    <3>3. SumOf(e, 1 .. m + 1) = SumOf(e, 1 .. m) + e[m + 1]
      BY ONLY <3>1, m \in Nat, SumUpTo
    <3> QED
      BY <3>1, <3>2, <3>3
  <2>4. t[m + 1][1] = t[m][1] + Score(cs[m + 1])[1] /\ t[m][1] \in Nat
    <3>1. t[m] \in Scores /\ Score(cs[m + 1]) \in Scores
      BY <1>2, <1>4, <2>1
    <3>2. t[m + 1] = CostSteps(cs)[m + 1][t[(m + 1) - 1]]
      BY <1>4, <2>1 DEF Trace
    <3>3. t[m + 1] = Combine(t[m], Score(cs[m + 1]))
      BY <1>1, <2>1, <3>1, <3>2 DEF CostSteps
    <3>4. 1 \in 1 .. 3
      OBVIOUS
    <3> QED
      BY <3>1, <3>3, <3>4, CombineIs DEF Scores
  <2>5. IsFiniteSet(L(m + 1)) /\ Cardinality(L(m + 1)) = Cardinality(L(m)) + Excess(cs[m + 1])
    <3>1. CASE IsLiteral(cs[m + 1])
      <4>1. L(m + 1) = L(m) \union {m + 1} /\ m + 1 \notin L(m)
        BY <3>1
      <4> HIDE DEF L
      <4>2. /\ IsFiniteSet(L(m) \union {m + 1})
            /\ Cardinality(L(m) \union {m + 1}) = Cardinality(L(m)) + 1
        BY <2>2, <4>1, FS_AddElement
      <4> QED
        BY <3>1, <4>1, <4>2 DEF Excess
    <3>2. CASE ~IsLiteral(cs[m + 1])
      <4>1. L(m + 1) = L(m)
        BY <3>2
      <4> HIDE DEF L
      <4>2. Cardinality(L(m)) \in Nat
        BY <2>2, FS_CardinalityType
      <4> QED
        BY <2>2, <3>2, <4>1, <4>2 DEF Excess
    <3> QED
      BY <3>1, <3>2
  <2>6. Cardinality(L(m)) \in Nat /\ Excess(cs[m + 1]) \in Nat
    BY <2>2, FS_CardinalityType DEF Excess
  <2>7. e[m + 1] + Excess(cs[m + 1]) = Score(cs[m + 1])[1]
    BY <1>6, <2>1
  <2> HIDE DEF L
  <2>8. PICK a, b, c, d, x, y :
          /\ a = SumOf(e, 1 .. m) /\ b = e[m + 1] /\ c = Cardinality(L(m))
          /\ d = Excess(cs[m + 1]) /\ x = t[m][1] /\ y = Score(cs[m + 1])[1]
    OBVIOUS
  <2>9. /\ a \in Nat /\ b \in Nat /\ c \in Nat /\ d \in Nat /\ a + c = x /\ b + d = y
    BY <2>2, <2>3, <2>6, <2>7, <2>8
  <2>10. (a + b) + (c + d) = x + y
    BY <2>9
  <2>11. SumOf(e, 1 .. m + 1) = a + b
    BY <2>3, <2>8
  <2>12. Cardinality(L(m + 1)) = c + d
    BY <2>5, <2>8
  <2>13. t[m + 1][1] = x + y
    BY <2>4, <2>8
  <2>14. a + b \in Nat
    BY <2>9
  <2> QED
    BY <2>5, <2>10, <2>11, <2>12, <2>13, <2>14
<1>9. n \in Good
  <2> HIDE DEF Good
  <2> QED
    BY <1>2, <1>7, <1>8, Induction
<1>10. EncodedLen(cs) = SumOf(e, 1 .. n)
  BY <1>2, <1>5 DEF EncodedLen, SumOf
<1>11. LiteralsIn(cs) = L(n)
  BY <1>2 DEF LiteralsIn
<1> HIDE DEF L
<1>12. /\ SumOf(e, 1 .. n) + Cardinality(L(n)) = t[n][1]
       /\ SumOf(e, 1 .. n) \in Nat /\ IsFiniteSet(L(n))
  BY <1>2, <1>9
<1>13. t[n] \in Scores /\ Cardinality(L(n)) \in Nat
  BY <1>2, <1>4, <1>12, FS_CardinalityType
<1> QED
  BY <1>4, <1>10, <1>11, <1>12, <1>13

\* Covers are made of what the chunks to choose from are.
LEMMA CoversMadeOf ==
    ASSUME target \in Seq(Bytes), NEW idxs, NEW C,
           \A pos \in 0 .. Len(target) - 1 : \A c \in CandidatesIn(idxs, pos) :
              c \in C /\ pos + c.len \in pos + 1 .. Len(target)
    PROVE  \A pos \in 0 .. Len(target) : Covers(idxs)[pos] \subseteq Seq(C)
<1>1. PICK n, covers : n = Len(target) /\ covers = Covers(idxs)
  OBVIOUS
<1>2. n \in Nat
  BY <1>1, LenProperties
<1>3. /\ covers[n] = {<<>>}
      /\ \A p \in 0 .. n - 1 :
           covers[p] = UNION {After(c, covers[p + c.len]) : c \in CandidatesIn(idxs, p)}
  BY <1>1, CoversAre
<1> DEFINE Good == {m \in Nat : \A p \in 0 .. n : n - p <= m => covers[p] \subseteq Seq(C)}
<1>4. covers[n] \subseteq Seq(C)
  <2>1. <<>> \in Seq(C)
    OBVIOUS
  <2> QED
    BY <1>3, <2>1
<1>5. 0 \in Good
  <2>1. \A p \in 0 .. n : n - p <= 0 => p = n
    BY <1>2
  <2> QED
    BY <1>4, <2>1
<1>6. ASSUME NEW m \in Nat, m \in Good PROVE m + 1 \in Good
  <2> SUFFICES ASSUME NEW p \in 0 .. n, n - p <= m + 1, NEW ds \in covers[p]
               PROVE  ds \in Seq(C)
    OBVIOUS
  <2>1. CASE p = n
    BY <1>4, <2>1
  <2>2. CASE p # n
    <3>1. p \in 0 .. n - 1
      BY <1>2, <2>2
    <3>2. PICK c \in CandidatesIn(idxs, p) : ds \in After(c, covers[p + c.len])
      BY <1>3, <3>1
    <3>3. c \in C /\ p + c.len \in p + 1 .. n
      BY <1>1, <3>1, <3>2
    <3>4. p + c.len \in 0 .. n /\ n - (p + c.len) <= m
      BY <1>2, <3>1, <3>3
    <3>5. covers[p + c.len] \subseteq Seq(C)
      BY <1>6, <3>4
    <3>6. PICK rest \in Seq(C) : ds = <<c>> \o rest
      BY <3>2, <3>5 DEF After
    <3>7. <<c>> \in Seq(C)
      BY <3>3
    <3> QED
      BY <3>6, <3>7, ConcatProperties
  <2> QED
    BY <2>1, <2>2
<1>7. n \in Good
  <2> HIDE DEF Good
  <2> QED
    BY <1>2, <1>5, <1>6, Induction
<1> QED
  BY <1>1, <1>2, <1>7

\* The chunks that have been chosen are such.
LEMMA ChunksTold ==
    ASSUME SearchInv, PlanInv, FewStreams, phase \in Walking
    PROVE  chunks \in Seq(Told)
<1>1. indexes \in Libraries /\ chunks \in Seq(Choice)
  BY DEF SearchInv, SearchTypeOK
<1>2. PICK p : Tiles(chunks, at, p)
  BY DEF PlanInv
<1>3. \A i \in 1 .. Len(chunks) : chunks[i] \in Told
  BY <1>1, <1>2, FittingTold DEF Tiles
<1>4. Len(chunks) \in Nat /\ DOMAIN chunks = 1 .. Len(chunks)
  BY <1>1, LenProperties
<1>5. chunks \in [1 .. Len(chunks) -> Told]
  BY <1>1, <1>3, <1>4
<1> QED
  BY <1>4, <1>5

\* So are those that there are to choose from.
LEMMA CandidatesTold ==
    ASSUME SearchInv, phase # "idle", FewStreams,
           NEW pos \in 0 .. Len(target) - 1, NEW c \in CandidatesIn(indexes, pos)
    PROVE  c \in Told /\ pos + c.len \in pos + 1 .. Len(target)
<1>1. Weighing(pos) /\ c \in CandidatesAt(pos) /\ indexes \in Libraries
  BY InvWeighing DEF CandidatesAt, SearchInv, SearchTypeOK
<1> QED
  BY <1>1, TotalIs, FittingTold

\* No way to cover the value costs less than the plan.
LEMMA PlanIsCheapest ==
    ASSUME SearchInv, phase = "planned", FewStreams, NEW cs \in Covers(indexes)[0],
           Cost(chunks) \in Scores
    PROVE  ~Precedes(Cost(cs), Cost(chunks))
<1>1. /\ phase \in Walking /\ Len(target) \in Nat /\ at = Len(target) /\ Walked
      /\ dp[Len(target)] = End
  BY DEF SearchInv, SearchTypeOK, Walking, Walked
<1>2. Cost(chunks) = dp[0].score
  BY <1>1, CombineZero DEF Walked, End
<1>3. ASSUME NEW p \in 0 .. Len(target) - 1 PROVE Matched(indexes, p)
  <2> SUFFICES ASSUME NEW c \in CandidatesAt(p)
               PROVE  c \in Priced /\ ~Precedes(Score(c), Score(c))
    BY DEF Matched, CandidatesAt
  <2>1. c \in Priced /\ Score(c) \in Scores
    BY CandidatesTold DEF CandidatesAt, Told, Priced
  <2> QED
    BY <2>1, PrecedesOrders
<1>4. 0 \in 0 .. Len(target)
  BY <1>1
<1> QED
  BY <1>1, <1>2, <1>3, <1>4, NothingCheaper

\* The invariant about plans is one.
LEMMA PlanInvHolds == SearchSpec => []PlanInv
<1>1. SearchInit => PlanInv
  BY DEF SearchInit, PlanInv, Walking
<1> QED
  BY <1>1, SearchInvHolds, PlanInvStep, PTL DEF SearchSpec

\* However many literals are used, the plan falls short of SPEC.md section 9 by
\* no more than what Choice::score counts too much for them.
THEOREM FewestBytesNearly == SearchSpec => []FewestBytesButForLiterals
<1>1. ASSUME SearchInv, PlanInv PROVE FewestBytesButForLiterals
  <2> SUFFICES ASSUME FewStreams, phase = "planned", NEW cs \in Covers(indexes)[0]
               PROVE  EncodedLen(chunks) + Cardinality(LiteralsIn(chunks))
                        <= EncodedLen(cs) + Cardinality(LiteralsIn(cs))
    BY DEF FewestBytesButForLiterals
  <2>1. phase \in Walking /\ target \in Seq(Bytes) /\ 0 \in 0 .. Len(target)
    BY <1>1 DEF SearchInv, SearchTypeOK, Walking
  <2>2. cs \in Seq(Told)
    BY <1>1, <2>1, CandidatesTold, CoversMadeOf
  <2>3. chunks \in Seq(Told)
    BY <1>1, <2>1, ChunksTold
  <2>4. Cost(chunks) \in Scores /\ Cost(cs) \in Scores
    BY <2>2, <2>3, EncodedCost
  <2>5. Cost(chunks)[1] <= Cost(cs)[1]
    <3>1. Cost(chunks)[1] \in Nat /\ Cost(cs)[1] \in Nat
      BY <2>4 DEF Scores
    <3> QED
      BY <1>1, <2>4, <3>1, PlanIsCheapest, PrecedesIs
  <2> QED
    BY <2>2, <2>3, <2>5, EncodedCost
<1> QED
  BY <1>1, SearchInvHolds, PlanInvHolds, PTL

\* So where no literals are allowed, what SPEC.md section 9 says of the encoded
\* bytes is so.
THEOREM FewestBytesWithoutLiterals ==
    SearchSpec => [](FewStreams /\ ~opts.literals => FewestBytes)
<1>1. ASSUME SearchInv, PlanInv, FewestBytesButForLiterals
      PROVE  FewStreams /\ ~opts.literals => FewestBytes
  <2> SUFFICES ASSUME FewStreams, ~opts.literals, phase = "planned",
                      NEW cs \in Covers(indexes)[0]
               PROVE  EncodedLen(chunks) <= EncodedLen(cs)
    BY DEF FewestBytes
  <2>1. phase \in Walking /\ target \in Seq(Bytes) /\ 0 \in 0 .. Len(target)
        /\ indexes \in Libraries
    BY <1>1 DEF SearchInv, SearchTypeOK, Walking
  <2> DEFINE Found == {c \in Told : ~IsLiteral(c)}
  <2>2. ASSUME NEW p \in 0 .. Len(target) - 1, NEW c \in CandidatesIn(indexes, p)
        PROVE  c \in Found /\ p + c.len \in p + 1 .. Len(target)
    <3>1. c \in Told /\ p + c.len \in p + 1 .. Len(target)
      BY <1>1, <2>2, CandidatesTold
    <3>2. ~IsLiteral(c)
      <4>1. PICK n \in DOMAIN indexes : c.by = n
        BY <1>1, <2>2, CandidatesInAre
      <4> QED
        BY <2>1, <4>1, Parts DEF IsLiteral
    <3> QED
      BY <3>1, <3>2
  <2>3. cs \in Seq(Found)
    <3> HIDE DEF Found
    <3> QED
      BY <2>1, <2>2, CoversMadeOf
  <2>4. cs \in Seq(Told) /\ LiteralsIn(cs) = {}
    <3>1. Found \subseteq Told
      OBVIOUS
    <3>2. \A i \in DOMAIN cs : cs[i] \in Found
      BY <2>3, ElementOfSeq, LenProperties
    <3> QED
      BY <2>3, <3>1, <3>2, SeqMonotonic DEF LiteralsIn
  <2>5. chunks \in Seq(Told)
    BY <1>1, <2>1, ChunksTold
  <2>6. EncodedLen(chunks) + Cardinality(LiteralsIn(chunks)) <= EncodedLen(cs) + 0
    BY <1>1, <2>4, FS_EmptySet DEF FewestBytesButForLiterals
  <2> QED
    BY <2>4, <2>5, <2>6, EncodedCost
<1> QED
  BY <1>1, SearchInvHolds, PlanInvHolds, FewestBytesNearly, PTL
=============================================================================
