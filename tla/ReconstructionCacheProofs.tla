---------------------- MODULE ReconstructionCacheProofs ----------------------
(***************************************************************************)
(* Proofs about ReconstructionCache, for any number of readers, plans and  *)
(* reads.                                                                  *)
(***************************************************************************)
EXTENDS ReconstructionCache, Recursion

\* The steps of a reader.
Moves(r) == Begin(r) \/ ReaderStep(r) \/ Cancel(r)

\* What is read has a value with a length.
LEMMA ValueTyped ==
    ASSUME CacheTypeOK, NEW r \in Readers, pc[r] # "idle"
    PROVE  Value(r) \in Values /\ Size[Value(r)] \in Nat
  BY CacheAssumption, EnvelopeAssumption DEF CacheTypeOK, Value, Envelope

\* The initial state is well typed.
LEMMA TypeInit == CacheInit => CacheTypeOK
<1> SUFFICES ASSUME CacheInit PROVE CacheTypeOK
  OBVIOUS
<1>1. pc \in [Readers -> PCs] /\ \A r \in Readers : pc[r] = "idle"
  BY DEF CacheInit, PCs
<1>2. \A r \in Readers : holder # r
  BY CacheAssumption DEF CacheInit
<1>3. \A r \in Readers : pc[r] = "evict" <=> holder = r
  BY <1>1, <1>2
<1>4. plan \in [Readers -> Asked \union {Absent}] /\ bytes \in [Readers -> Nat]
  BY DEF CacheInit
<1>5. overlapped \in BOOLEAN
  BY Zenon DEF CacheInit
<1> QED
  BY <1>1, <1>3, <1>4, <1>5 DEF CacheInit, CacheTypeOK

\* A step outside the mutex keeps the types.
LEMMA TypeOutside ==
    ASSUME CacheTypeOK, NEW r \in Readers,
           Begin(r) \/ Get(r) \/ Reconstruct(r) \/ Cancel(r) \/ Publish(r)
    PROVE  CacheTypeOK'
<1>1. CASE Begin(r)
  BY <1>1 DEF CacheTypeOK, Begin, Goto, stateVars, historyVars, PCs
<1>2. CASE Get(r)
  BY <1>2 DEF CacheTypeOK, Get, Goto, Leave, stateVars, historyVars, PCs
<1>3. CASE Reconstruct(r)
  BY <1>3 DEF CacheTypeOK, Reconstruct, Goto, Leave, stateVars, historyVars, PCs
<1>4. CASE Cancel(r)
  BY <1>4 DEF CacheTypeOK, Cancel, Goto, Leave, stateVars, historyVars, PCs
<1>5. CASE Publish(r)
  BY <1>5 DEF CacheTypeOK, Publish, Goto, Leave, stateVars, historyVars, PCs
<1> QED
  BY <1>1, <1>2, <1>3, <1>4, <1>5

\* A step that takes, uses or gives back the mutex keeps the types.
LEMMA TypeUnderMutex ==
    ASSUME CacheTypeOK, NEW r \in Readers, Insert(r) \/ Evict(r) \/ Add(r)
    PROVE  CacheTypeOK'
<1>1. CASE Insert(r)
  <2>1. CASE Known(Value(r)) /\ ReturnSize(r, SizeIfKnown) /\ UNCHANGED before
    <3>1. \A s \in Readers : pc'[s] = "evict" <=> holder' = s
      BY <1>1, <2>1, CacheAssumption DEF CacheTypeOK, Insert, ReturnSize, Goto
    <3>2. bytes' \in [Readers -> Nat]
      BY <2>1 DEF CacheTypeOK, ReturnSize, SizeIfKnown
    <3>3. overlapped' \in BOOLEAN
      BY <2>1, Zenon DEF ReturnSize
    <3> QED
      BY <1>1, <2>1, <3>1, <3>2, <3>3
      DEF CacheTypeOK, Insert, ReturnSize, Goto, stateVars, PCs
  <2>2. CASE ~Known(Value(r)) /\ Goto(r, "evict") /\ holder' = r
             /\ before' = values /\ UNCHANGED <<bytes, overlapped>>
    <3>1. \A s \in Readers : pc'[s] = "evict" <=> holder' = s
      BY <1>1, <2>2, CacheAssumption DEF CacheTypeOK, Insert, Goto
    <3> QED
      BY <1>1, <2>2, <3>1 DEF CacheTypeOK, Insert, Goto, stateVars, PCs
  <2> QED
    BY <1>1, <2>1, <2>2 DEF Insert
<1>2. CASE Evict(r)
  <2>1. PICK victim \in values : Remove(victim)
    BY <1>2 DEF Evict
  <2>2. current_bytes' \in Nat /\ values' \in SUBSET Values
    BY <2>1, EnvelopeAssumption DEF CacheTypeOK, Remove, Minus
  <2> QED
    BY <1>2, <2>2 DEF CacheTypeOK, Evict, readerVars, historyVars
<1>3. CASE Add(r)
  <2>1. current_bytes' \in Nat /\ values' \in SUBSET Values
    BY <1>3, ValueTyped DEF CacheTypeOK, Add, stateVars
  <2> QED
    BY <1>3, <2>1, CacheAssumption DEF CacheTypeOK, Add, ReturnSize, Goto, PCs
<1> QED
  BY <1>1, <1>2, <1>3

\* Every step keeps the types.
LEMMA TypeStep == CacheTypeOK /\ [CacheNext]_vars => CacheTypeOK'
<1> SUFFICES ASSUME CacheTypeOK, [CacheNext]_vars PROVE CacheTypeOK'
  OBVIOUS
<1>1. ASSUME NEW r \in Readers, Moves(r) PROVE CacheTypeOK'
  BY <1>1, TypeOutside, TypeUnderMutex DEF Moves, ReaderStep
<1>2. CASE UNCHANGED vars
  BY <1>2 DEF CacheTypeOK, vars, readerVars, stateVars, historyVars
<1> QED
  BY <1>1, <1>2 DEF CacheNext, Moves, Finished

\* The locals of every reader are set where it uses them, and the mutex of the
\* cache is held by exactly the reader that is in the eviction loop.
THEOREM CacheTypeCorrect == CacheSpec => []CacheTypeOK
  BY TypeInit, TypeStep, PTL DEF CacheSpec

-----------------------------------------------------------------------------

\* As long as no two readers have been storing a size at once, there is at most
\* one that has a size to store; outside the mutex that size, or the counter if
\* there is none, is the size of the cache.
InOrder ==
    ~overlapped =>
      /\ \A r, s \in Readers : pc[r] = "publish" /\ pc[s] = "publish" => r = s
      /\ holder = NoReader =>
           /\ \A r \in Readers : pc[r] = "publish" => bytes[r] = current_bytes
           /\ (\A r \in Readers : pc[r] # "publish")
                => reconstruction_cache_bytes = current_bytes

\* A step that changes no size and starts no publication keeps the order.
LEMMA OrderOutside ==
    ASSUME CacheTypeOK, InOrder, NEW r \in Readers,
           Begin(r) \/ Get(r) \/ Reconstruct(r) \/ Cancel(r)
    PROVE  InOrder'
  BY DEF CacheTypeOK, InOrder, Begin, Get, Reconstruct, Cancel, Leave, Goto,
         stateVars, historyVars

\* So does insertion, by whichever way it returns.
LEMMA OrderInsertion ==
    ASSUME CacheTypeOK, InOrder, NEW r \in Readers, Insert(r) \/ Evict(r) \/ Add(r)
    PROVE  InOrder'
<1>1. CASE Insert(r)
  <2>1. CASE Known(Value(r))
    <3>1. /\ bytes' = [bytes EXCEPT ![r] = current_bytes]
          /\ pc' = [pc EXCEPT ![r] = "publish"]
          /\ overlapped' = (overlapped \/ \E s \in Readers : pc[s] = "publish")
          /\ UNCHANGED current_bytes
      BY <1>1, <2>1 DEF Insert, ReturnSize, SizeIfKnown, Goto, stateVars
    <3>2. bytes'[r] = current_bytes /\ pc'[r] = "publish"
      BY <3>1 DEF CacheTypeOK
    <3>3. \A s \in Readers : pc'[s] = "publish" => s = r \/ pc[s] = "publish"
      BY <3>1 DEF CacheTypeOK
    <3> QED
      BY <3>1, <3>2, <3>3 DEF InOrder
  <2>2. CASE ~Known(Value(r))
    BY <1>1, <2>2, CacheAssumption
    DEF CacheTypeOK, InOrder, Insert, Goto, stateVars
  <2> QED
    BY <2>1, <2>2
<1>2. CASE Evict(r)
  BY <1>2, CacheAssumption
  DEF CacheTypeOK, InOrder, Evict, readerVars, historyVars
<1>3. CASE Add(r)
  BY <1>3 DEF CacheTypeOK, InOrder, Add, ReturnSize, Goto
<1> QED
  BY <1>1, <1>2, <1>3

\* The one reader with a size to store stores it.
LEMMA OrderPublish ==
    ASSUME CacheTypeOK, InOrder, NEW r \in Readers, Publish(r)
    PROVE  InOrder'
  BY DEF CacheTypeOK, InOrder, Publish, Leave, Goto, stateVars, historyVars

\* Every step keeps the order.
LEMMA OrderStep == CacheTypeOK /\ InOrder /\ [CacheNext]_vars => InOrder'
<1> SUFFICES ASSUME CacheTypeOK, InOrder, [CacheNext]_vars PROVE InOrder'
  OBVIOUS
<1>1. ASSUME NEW r \in Readers, Moves(r) PROVE InOrder'
  BY <1>1, OrderOutside, OrderInsertion, OrderPublish DEF Moves, ReaderStep
<1>2. CASE UNCHANGED vars
  BY <1>2 DEF InOrder, vars, readerVars, stateVars, historyVars
<1> QED
  BY <1>1, <1>2 DEF CacheNext, Moves, Finished

\* The size that metrics reports is the size of the cache whenever nobody has
\* one to store, for any number of readers none of which have overlapped.
THEOREM ReportedCorrect == CacheSpec => []ReportedWhenQuiet
<1>1. CacheInit => InOrder
  BY DEF CacheInit, InOrder
<1>2. InOrder => ReportedWhenQuiet
  BY DEF InOrder, ReportedWhenQuiet
<1> QED
  BY <1>1, <1>2, OrderStep, CacheTypeCorrect, PTL DEF CacheSpec

-----------------------------------------------------------------------------

\* The size of a set of values is a sum.
LEMMA SizeIsSum == \A S : SizeOf(S) = SumOf(Size, S)
  BY DEF SizeOf, SumOf

\* What a size is, and what inserting and evicting a value does to it.
LEMMA SizeFacts ==
    ASSUME NEW S \in SUBSET Values, IsFiniteSet(S)
    PROVE  /\ SizeOf({}) = 0
           /\ SizeOf(S) \in Nat
           /\ \A v \in Values \ S : SizeOf(S \union {v}) = SizeOf(S) + Size[v]
           /\ \A v \in S : SizeOf(S) = SizeOf(S \ {v}) + Size[v]
           /\ \A v \in S : SizeOf(S \ {v}) \in Nat
<1>1. \A v \in Values : Size[v] \in Nat
  BY EnvelopeAssumption
<1>2. SizeOf({}) = 0 /\ SizeOf(S) \in Nat
  BY <1>1, SizeIsSum, SumEmpty, SumType
<1>3. ASSUME NEW v \in Values \ S PROVE SizeOf(S \union {v}) = SizeOf(S) + Size[v]
  BY <1>1, SizeIsSum, SumAdd
<1>4. ASSUME NEW v \in S
      PROVE  SizeOf(S) = SizeOf(S \ {v}) + Size[v] /\ SizeOf(S \ {v}) \in Nat
  <2> DEFINE T == S \ {v}
  <2>1. T \in SUBSET Values /\ v \in Values \ T /\ T \union {v} = S
    OBVIOUS
  <2>2. IsFiniteSet(T)
    BY FS_Subset
  <2> HIDE DEF T
  <2>3. SizeOf(T \union {v}) = SizeOf(T) + Size[v] /\ SizeOf(T) \in Nat
    BY <1>1, <2>1, <2>2, SizeIsSum, SumAdd, SumType
  <2> QED
    BY <2>1, <2>3 DEF T
<1> QED
  BY <1>2, <1>3, <1>4

\* In the loop the value is still to be inserted and could be; of the values
\* there were when the mutex was taken, some have been evicted, the last of
\* them when there was no room.
EvictionDue ==
    \A r \in Readers : pc[r] = "evict" =>
      /\ CacheBytes # 0 /\ Size[Value(r)] <= CacheBytes
      /\ Value(r) \notin before
      /\ values \subseteq before
      /\ values = before \/ \E w \in before \ values :
            SizeOf(values \union {w}) + Size[Value(r)] > CacheBytes

Accounts ==
    /\ IsFiniteSet(values)
    /\ BytesAccounted
    /\ EvictionDue

\* Steps outside the mutex leave the cache, and a loop that is under way, alone.
LEMMA AccountsOutside ==
    ASSUME CacheTypeOK, Accounts, NEW r \in Readers,
           Begin(r) \/ Get(r) \/ Reconstruct(r) \/ Cancel(r) \/ Publish(r)
    PROVE  Accounts'
<1>1. UNCHANGED <<values, current_bytes, before>>
  BY DEF Begin, Get, Reconstruct, Cancel, Publish, stateVars, historyVars
<1>2. ASSUME NEW s \in Readers, pc'[s] = "evict"
      PROVE  pc[s] = "evict" /\ Value(s)' = Value(s)
  BY <1>2 DEF CacheTypeOK, Begin, Get, Reconstruct, Cancel, Publish, Goto, Leave, Value
<1>3. EvictionDue'
  BY <1>1, <1>2 DEF Accounts, EvictionDue
<1> QED
  BY <1>1, <1>3 DEF Accounts, BytesAccounted

\* Insertion starts with the values that are there.
LEMMA AccountsInsert ==
    ASSUME CacheTypeOK, Accounts, NEW r \in Readers, Insert(r)
    PROVE  Accounts'
<1>1. UNCHANGED <<values, current_bytes, plan>>
  BY DEF Insert, stateVars
<1>2. ASSUME NEW s \in Readers PROVE pc[s] # "evict"
  BY CacheAssumption DEF CacheTypeOK, Insert
<1>3. CASE Known(Value(r)) /\ Goto(r, "publish")
  BY <1>1, <1>2, <1>3 DEF CacheTypeOK, Accounts, EvictionDue, BytesAccounted, Goto
<1>4. CASE ~Known(Value(r)) /\ Goto(r, "evict") /\ before' = values
  <2>1. CacheBytes # 0 /\ Size[Value(r)] <= CacheBytes /\ Value(r) \notin values
    BY <1>4, ValueTyped, CacheAssumption DEF Known, Insert
  <2>2. \A s \in Readers : pc'[s] = "evict" => s = r
    BY <1>2, <1>4 DEF CacheTypeOK, Goto
  <2> QED
    BY <1>1, <1>4, <2>1, <2>2 DEF Accounts, EvictionDue, BytesAccounted, Value
<1> QED
  BY <1>3, <1>4 DEF Insert, ReturnSize

\* A round of the loop evicts what the loop cannot do without.
LEMMA AccountsEvict ==
    ASSUME CacheTypeOK, Accounts, NEW r \in Readers, Evict(r)
    PROVE  Accounts'
<1>1. PICK w \in values : Remove(w)
  BY DEF Evict
<1>2. w \in Values /\ Size[w] \in Nat
  BY EnvelopeAssumption DEF CacheTypeOK
<1>3. IsFiniteSet(values')
  BY <1>1, FS_Subset DEF Remove, Accounts
<1>4. /\ SizeOf(values) = SizeOf(values \ {w}) + Size[w]
      /\ SizeOf(values \ {w}) \in Nat
  BY SizeFacts DEF CacheTypeOK, Accounts
<1>5. BytesAccounted'
  BY <1>1, <1>2, <1>4, CacheAssumption DEF Accounts, BytesAccounted, Remove, Minus
<1>6. UNCHANGED <<pc, plan, before>>
  BY DEF Evict, readerVars, historyVars
<1>7. ASSUME NEW s \in Readers, pc[s] = "evict" PROVE s = r
  BY <1>7 DEF CacheTypeOK, Evict
<1>8. SizeOf(values' \union {w}) + Size[Value(r)] > CacheBytes
  <2>1. values' \union {w} = values
    BY <1>1 DEF Remove
  <2> QED
    BY <2>1 DEF Accounts, BytesAccounted, Evict, Full
<1>9. w \in before \ values' /\ values' \subseteq before
  BY <1>1 DEF Accounts, EvictionDue, Evict, Remove
<1>10. EvictionDue'
  BY <1>6, <1>7, <1>8, <1>9 DEF Accounts, EvictionDue, Value
<1> QED
  BY <1>3, <1>5, <1>10 DEF Accounts

\* When the loop ends there is room: an empty cache has no size.
LEMMA RoomAtLast ==
    ASSUME CacheTypeOK, Accounts, NEW r \in Readers, Add(r)
    PROVE  ~Full(Value(r))
<1>1. Size[Value(r)] \in Nat /\ Size[Value(r)] <= CacheBytes
  BY ValueTyped DEF Accounts, EvictionDue, Add
<1>2. SizeOf({}) = 0
  BY SizeIsSum, SumEmpty
<1> QED
  BY <1>1, <1>2, CacheAssumption DEF Accounts, BytesAccounted, Add, Full

\* The value that is inserted is counted once.
LEMMA AccountsAdd ==
    ASSUME CacheTypeOK, Accounts, NEW r \in Readers, Add(r)
    PROVE  Accounts'
<1>1. /\ values' = values \union {Value(r)}
      /\ current_bytes' = current_bytes + Size[Value(r)]
      /\ current_bytes + Size[Value(r)] <= CacheBytes
  BY RoomAtLast, ValueTyped, CacheAssumption DEF CacheTypeOK, Add, Full
<1>2. Value(r) \in Values \ values
  BY ValueTyped DEF Accounts, EvictionDue, Add
<1>3. SizeOf(values') = SizeOf(values) + Size[Value(r)]
  BY <1>1, <1>2, SizeFacts DEF CacheTypeOK, Accounts
<1>4. IsFiniteSet(values')
  BY <1>1, FS_AddElement DEF Accounts
<1>5. \A s \in Readers : pc'[s] # "evict"
  BY DEF CacheTypeOK, Add, ReturnSize, Goto
<1> QED
  BY <1>1, <1>3, <1>4, <1>5 DEF Accounts, BytesAccounted, EvictionDue

\* Every step keeps the accounts.
LEMMA AccountsStep == CacheTypeOK /\ Accounts /\ [CacheNext]_vars => Accounts'
<1> SUFFICES ASSUME CacheTypeOK, Accounts, [CacheNext]_vars PROVE Accounts'
  OBVIOUS
<1>1. ASSUME NEW r \in Readers, Moves(r) PROVE Accounts'
  BY <1>1, AccountsOutside, AccountsInsert, AccountsEvict, AccountsAdd
  DEF Moves, ReaderStep
<1>2. CASE UNCHANGED vars
  BY <1>2
  DEF Accounts, BytesAccounted, EvictionDue, Value, vars, readerVars, stateVars,
      historyVars
<1> QED
  BY <1>1, <1>2 DEF CacheNext, Moves, Finished

\* The accounts start out right.
LEMMA AccountsInit == CacheInit => Accounts
<1> SUFFICES ASSUME CacheInit PROVE Accounts
  OBVIOUS
<1>1. SizeOf({}) = 0
  BY SizeIsSum, SumEmpty
<1> QED
  BY <1>1, FS_EmptySet, CacheAssumption
  DEF CacheInit, Accounts, BytesAccounted, EvictionDue

\* current_bytes is the size of the values in the cache and never above what
\* was allowed, whoever inserts, repeats an insertion or evicts, and in whatever
\* order the map yields its victims.
THEOREM AccountsCorrect == CacheSpec => []BytesAccounted
<1>1. Accounts => BytesAccounted
  BY DEF Accounts
<1> QED
  BY <1>1, AccountsInit, AccountsStep, CacheTypeCorrect, PTL DEF CacheSpec

-----------------------------------------------------------------------------

\* The values as others see them.
Seen == IF holder = NoReader THEN values ELSE before

\* A step of a reader inserts what it reads, or changes nothing others can see.
LEMMA InsertionSeen ==
    ASSUME CacheTypeOK, Accounts, NEW r \in Readers, Moves(r)
    PROVE  Seen' = Seen \/ \E v \in Values : Seen' \in Inserted(Seen, v)
<1>0. r # NoReader
  BY CacheAssumption
<1>1. CASE Begin(r) \/ Get(r) \/ Reconstruct(r) \/ Cancel(r) \/ Publish(r)
  BY <1>1
  DEF Seen, Begin, Get, Reconstruct, Cancel, Publish, stateVars, historyVars
<1>2. CASE Insert(r)
  BY <1>0, <1>2 DEF Seen, Insert, ReturnSize, stateVars
<1>3. CASE Evict(r)
  BY <1>0, <1>3 DEF CacheTypeOK, Seen, Evict, historyVars
<1>4. CASE Add(r)
  <2> DEFINE v == Value(r)
  <2>1. v \in Values /\ Size[v] \in Nat
    BY <1>4, ValueTyped DEF Add
  <2>2. Seen = before /\ Seen' = values \union {v}
    BY <1>0, <1>4, RoomAtLast DEF CacheTypeOK, Add, ReturnSize, Seen
  <2>3. SizeOf(values) + Size[v] <= CacheBytes
    BY <1>4, <2>1, RoomAtLast, CacheAssumption
    DEF CacheTypeOK, Accounts, BytesAccounted, Full
  <2>4. /\ v \notin before /\ values \in SUBSET before
        /\ values = before \/ \E w \in before \ values :
              SizeOf(values \union {w}) + Size[v] > CacheBytes
    BY <1>4 DEF Accounts, EvictionDue, Add
  <2> HIDE DEF v
  <2>5. values \union {v} \in Inserted(before, v)
    <3>1. CacheBytes # 0 /\ ~(Size[v] > CacheBytes)
      BY <1>4, <2>1, CacheAssumption DEF Accounts, EvictionDue, Add, v
    <3> QED
      BY <2>3, <2>4, <3>1 DEF Inserted
  <2> QED
    BY <2>1, <2>2, <2>5
<1> QED
  BY <1>1, <1>2, <1>3, <1>4 DEF Moves, ReaderStep

\* The abstract cache inserts in the same way.
LEMMA SameInsertion ==
    \A cached, v : Atomic!Inserted(cached, v) = Inserted(cached, v)
<1>1. \A S : Atomic!SizeOf(S) = SizeOf(S)
  BY DEF SizeOf, Atomic!SizeOf, MapThenSumSet, Atomic!MapThenSumSet,
         MapThenFoldSet, Atomic!MapThenFoldSet
<1> QED
  BY <1>1 DEF Inserted, Atomic!Inserted

\* What the readers do to the cache step by step is, to each other, one
\* insertion after the other: the cache that PiLsmDb takes for granted.
THEOREM CacheIsAtomic == CacheSpec => InsertsAreAtomic
<1>1. CacheInit => Seen = {}
  BY DEF CacheInit, Seen
<1>2. CacheTypeOK /\ Accounts /\ [CacheNext]_vars => [Atomic!Insertion]_Seen
  <2> SUFFICES ASSUME CacheTypeOK, Accounts, [CacheNext]_vars
      PROVE Seen' = Seen \/ \E v \in Values : Seen' \in Inserted(Seen, v)
    BY SameInsertion DEF Atomic!Insertion, Seen
  <2>1. CASE UNCHANGED vars
    BY <2>1 DEF Seen, vars, stateVars, historyVars
  <2> QED
    BY <2>1, InsertionSeen DEF CacheNext, Moves, Finished
<1> QED
  BY <1>1, <1>2, AccountsInit, AccountsStep, CacheTypeCorrect, PTL
  DEF CacheSpec, InsertsAreAtomic, Atomic!Spec, Seen
=============================================================================
