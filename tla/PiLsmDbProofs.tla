---------------------------- MODULE PiLsmDbProofs ----------------------------
(***************************************************************************)
(* Theorems about PiLsmDb, for any tasks, keys, values, streams, runtimes  *)
(* and calls: its invariants, and that it implements LogicalStore, every   *)
(* state mapping to one of the store of logical byte strings (the mapping  *)
(* is at the end of PiLsmDb) and every step to one of that store or none.  *)
(***************************************************************************)
EXTENDS PiLsmDb, SequenceTheorems, TLAPS

-----------------------------------------------------------------------------
(* Envelopes and plans *)

\* What a plain put stores is an envelope.
LEMMA RawIsEnvelope ==
    ASSUME NEW v \in Values
    PROVE  Raw(v) \in Envelope
BY EnvelopeAssumption DEF Raw, Envelope, FrameLen

\* What the planner returns for v is a plan that carries the hash of v.
LEMMA PlansAreEnvelopes ==
    ASSUME NEW rt \in Runtime, NEW o \in Opts, NEW v \in Values,
           NEW p \in Plans(rt, o, v)
    PROVE  /\ p \in Envelope
           /\ p.hash = v
           /\ Reconstructs(rt.registry, p)
<1>1. PICK c \in Chunkings[rt.target, o, v] : p = PlanFor(v, c)
  BY DEF Plans, Candidates
<1>2. Chunkings[rt.target, o, v] \subseteq Chunking
  BY PlanningAssumption DEF Runtime
<1>3. PlanFor(v, c) \in Envelope /\ PlanFor(v, c).hash = v
  BY <1>1, <1>2 DEF PlanFor, Chunking, Envelope
<1> QED
  BY <1>1, <1>3 DEF Plans

\* Taking a task out of a queue leaves a queue.
LEMMA WithoutIsSeq ==
    ASSUME NEW S, NEW q \in Seq(S), NEW t
    PROVE  Without(q, t) \in Seq(S)
<1>1. CASE \E i \in DOMAIN q : q[i] = t
  <2> DEFINE at == CHOOSE i \in DOMAIN q : q[i] = t
  <2>1. at \in 1 .. Len(q)
    BY <1>1
  <2>2. SubSeq(q, 1, at - 1) \in Seq(S) /\ SubSeq(q, at + 1, Len(q)) \in Seq(S)
    <3>1. \A i \in 1 .. at - 1 : q[i] \in S
      BY <2>1
    <3>2. \A i \in at + 1 .. Len(q) : q[i] \in S
      BY <2>1
    <3> QED
      BY <2>1, <3>1, <3>2, SubSeqProperties
  <2>3. Without(q, t) = SubSeq(q, 1, at - 1) \o SubSeq(q, at + 1, Len(q))
    BY <1>1 DEF Without
  <2> QED
    BY <2>2, <2>3
<1>2. CASE ~\E i \in DOMAIN q : q[i] = t
  BY <1>2 DEF Without
<1> QED
  BY <1>1, <1>2

-----------------------------------------------------------------------------
(* Types *)

USE DEF PCs, Ops, RewriteOps, RewriteStatus, PlanningPCs, PlannedPCs, ReadingPCs

\* The database as it is opened is well typed.
LEMMA TypeInit == Init => TypeOK
<1> SUFFICES ASSUME Init PROVE TypeOK
  OBVIOUS
<1>1. StoreTypeOK
  BY ExistingAssumption DEF Init, StoreInit, StoreTypeOK, Version
<1>2. LocalsSet
  BY DEF Init, LocalsSet
<1>3. runtime \in Runtime
  BY PiLsmDbAssumption DEF Init
<1> QED
  BY <1>1, <1>2, <1>3 DEF Init, TypeOK, Results

\* A task that is not idle has a call, and its call a key.
LEMMA KeyOfCall ==
    ASSUME TypeOK, NEW t \in Tasks, pc[t] # "idle"
    PROVE  call[t] \in Call /\ Key(t) \in Keys
BY DEF TypeOK, LocalsSet, Key, Call

\* Queueing for a guard (lock_key) keeps the queues well typed.
LEMMA QueueTyped ==
    ASSUME TypeOK, NEW t \in Tasks, NEW k \in Keys, Queue(t, k)
    PROVE  waiters' \in [Keys -> Seq(Tasks)]
<1>1. Append(waiters[k], t) \in Seq(Tasks)
  BY DEF TypeOK
<1> QED
  BY <1>1 DEF TypeOK, Queue

\* So does dropping a guard.
LEMMA UnlockTyped ==
    ASSUME TypeOK, NEW t \in Tasks, Unlock(t)
    PROVE  holder' \in [Keys -> Tasks \union {NoTask}]
BY DEF TypeOK, Unlock

\* So does moving on to another await.
LEMMA GotoTyped ==
    ASSUME TypeOK, NEW t \in Tasks, NEW place \in PCs, Goto(t, place)
    PROVE  pc' \in [Tasks -> PCs]
BY DEF TypeOK, Goto

\* And so does answering a call.
LEMMA AnswerTyped ==
    ASSUME TypeOK, NEW t \in Tasks, NEW r \in Results \union Values \union {Absent},
           Answer(t, r)
    PROVE  /\ pc' = [pc EXCEPT ![t] = "reply"]
           /\ pc' \in [Tasks -> PCs]
           /\ result' \in [Tasks -> Results \union Values \union {Absent}]
BY DEF TypeOK, Answer, Goto

\* What every step that leaves the store alone keeps.
LEMMA StoreUnchanged ==
    ASSUME TypeOK, UNCHANGED storeVars PROVE StoreTypeOK'
BY DEF TypeOK, StoreTypeOK, storeVars

\* The store holds rows if what is put is a row.
LEMMA PutTyped ==
    ASSUME TypeOK, NEW k \in Keys, NEW e \in Row, StorePut(k, e)
    PROVE  StoreTypeOK'
BY DEF TypeOK, StoreTypeOK, StorePut, Version

\* A flush copies rows.
LEMMA FlushTyped ==
    ASSUME TypeOK, StoreFlush PROVE StoreTypeOK'
BY DEF TypeOK, StoreTypeOK, StoreFlush

\* A row that decodes is an envelope; raw bytes that decode are what they spell.
LEMMA RowRead ==
    ASSUME TypeOK, NEW k \in Keys, StoreGet(k) # Absent, Decodable(StoreGet(k))
    PROVE  /\ StoreGet(k) \in Envelope
           /\ StoreGet(k).kind = "raw" => Logical(StoreGet(k)) = StoreGet(k).spells
BY EnvelopeAssumption DEF TypeOK, StoreTypeOK, Version, Row, StoreGet, Decodable, Logical

\* Invoke keeps the types.
LEMMA TypeInvoke ==
    ASSUME TypeOK, NEW t \in Tasks, Invoke(t) PROVE TypeOK'
<1>1. PICK c \in Calls :
        /\ call' = [call EXCEPT ![t] = c]
        /\ IF c.op = "get"
           THEN Goto(t, "get") /\ UNCHANGED waiters
           ELSE Goto(t, "lock") /\ Queue(t, c.key)
  BY DEF Invoke
<1>2. /\ c \in Call /\ c.key \in Keys
      /\ c.op \in {"put", "putplan"} => c.value \in Values
  BY PiLsmDbAssumption DEF Call
<1>3. waiters' \in [Keys -> Seq(Tasks)]
  <2>1. CASE c.op = "get"
    BY <1>1, <2>1 DEF TypeOK
  <2>2. CASE c.op # "get"
    BY <1>1, <1>2, <2>2, QueueTyped
  <2> QED
    BY <2>1, <2>2
<1>4. StoreTypeOK'
  BY StoreUnchanged DEF Invoke
<1>5. pc' \in [Tasks -> PCs] /\ call' \in [Tasks -> Call \union {Absent}]
  BY <1>1, <1>2 DEF TypeOK, Goto
<1>6. LocalsSet'
  BY <1>1, <1>2 DEF TypeOK, LocalsSet, Goto, Invoke, Locals
<1> QED
  BY <1>3, <1>4, <1>5, <1>6 DEF TypeOK, Invoke, Locals

\* Acquire keeps the types.
LEMMA TypeAcquire ==
    ASSUME TypeOK, NEW t \in Tasks, Acquire(t) PROVE TypeOK'
<1>1. Key(t) \in Keys
  BY KeyOfCall DEF Acquire
<1>2. waiters' \in [Keys -> Seq(Tasks)] /\ holder' \in [Keys -> Tasks \union {NoTask}]
  BY <1>1, HeadTailProperties DEF TypeOK, Acquire
<1>3. StoreTypeOK'
  BY StoreUnchanged DEF Acquire
<1>4. pc' \in [Tasks -> PCs]
  BY DEF TypeOK, Acquire, Goto
<1>5. LocalsSet'
  BY DEF TypeOK, LocalsSet, Goto, Acquire, Locals
<1> QED
  BY <1>2, <1>3, <1>4, <1>5 DEF TypeOK, Acquire, Locals

\* Encode keeps the types.
LEMMA TypeEncode ==
    ASSUME TypeOK, NEW t \in Tasks, Encode(t) PROVE TypeOK'
<1>1. StoreTypeOK'
  BY StoreUnchanged DEF Encode
<1>2. CASE AnswerUnlocking(t, "error") /\ UNCHANGED env
  <2>1. LocalsSet'
    BY <1>2 DEF TypeOK, LocalsSet, AnswerUnlocking, Answer, Goto, Encode
  <2> QED
    BY <1>1, <1>2, <2>1, UnlockTyped, AnswerTyped
    DEF TypeOK, AnswerUnlocking, DropGuard, Encode, Results
<1>3. CASE \E p \in Plans(runtime, DefaultOpts, call[t].value) :
              /\ env' = [env EXCEPT ![t] = p]
              /\ Goto(t, "write") /\ HoldGuard(t) /\ UNCHANGED result
  <2>1. call[t].op = "putplan" /\ call[t].value \in Values
    BY DEF Encode, TypeOK, LocalsSet
  <2>2. PICK p \in Envelope :
              /\ env' = [env EXCEPT ![t] = p]
              /\ Goto(t, "write") /\ HoldGuard(t) /\ UNCHANGED result
    BY <1>3, <2>1, PlansAreEnvelopes, PlanningAssumption DEF TypeOK
  <2>3. LocalsSet'
    BY <2>1, <2>2 DEF TypeOK, LocalsSet, Goto, Encode
  <2> QED
    BY <1>1, <2>2, <2>3, GotoTyped DEF TypeOK, HoldGuard, lockVars, Encode
<1> QED
  BY <1>2, <1>3 DEF Encode

\* Write keeps the types.
LEMMA TypeWrite ==
    ASSUME TypeOK, NEW t \in Tasks, Write(t) PROVE TypeOK'
<1>1. call[t] \in Call /\ Key(t) \in Keys
  BY KeyOfCall DEF Write
<1>2. ToWrite(t) \in Row
  <2>1. CASE call[t].op = "put"
    BY <2>1, RawIsEnvelope DEF TypeOK, LocalsSet, Write, ToWrite, Row
  <2>2. CASE call[t].op # "put"
    BY <2>2 DEF TypeOK, ToWrite, Row
  <2> QED
    BY <2>1, <2>2
<1>3. StoreTypeOK'
  BY <1>1, <1>2, PutTyped DEF Write
<1>4. LocalsSet'
  BY DEF TypeOK, LocalsSet, Goto, Write, Locals
<1> QED
  BY <1>3, <1>4, GotoTyped DEF TypeOK, Write, Locals, lockVars

\* Ack keeps the types.
LEMMA TypeAck ==
    ASSUME TypeOK, NEW t \in Tasks, Ack(t) PROVE TypeOK'
<1>1. StoreTypeOK'
  BY StoreUnchanged DEF Ack
<1>2. LocalsSet'
  BY DEF TypeOK, LocalsSet, AnswerUnlocking, Answer, Goto, Ack, Locals
<1>3. /\ pc' \in [Tasks -> PCs]
      /\ result' \in [Tasks -> Results \union Values \union {Absent}]
  BY DEF TypeOK, AnswerUnlocking, Answer, Goto, Ack, Results
<1>4. holder' \in [Keys -> Tasks \union {NoTask}] /\ waiters' = waiters
  BY DEF TypeOK, AnswerUnlocking, DropGuard, HoldGuard, lockVars, Unlock, Ack
<1> QED
  BY <1>1, <1>2, <1>3, <1>4 DEF TypeOK, Ack, Locals

\* Flush keeps the types.
LEMMA TypeFlush ==
    ASSUME TypeOK, NEW t \in Tasks, Flush(t) PROVE TypeOK'
<1>1. StoreTypeOK'
  BY FlushTyped DEF Flush
<1>2. LocalsSet'
  BY DEF TypeOK, LocalsSet, AnswerUnlocking, Answer, Goto, Flush, Locals
<1> QED
  BY <1>1, <1>2, AnswerTyped, UnlockTyped
  DEF TypeOK, AnswerUnlocking, DropGuard, Flush, Locals, Results

\* Get keeps the types.
LEMMA TypeGet ==
    ASSUME TypeOK, NEW t \in Tasks, Get(t) PROVE TypeOK'
<1> DEFINE e == StoreGet(Key(t))
<1>1. Key(t) \in Keys
  BY KeyOfCall DEF Get
<1>2. e # Absent /\ Decodable(e) => e \in Envelope
  BY <1>1, RowRead
<1>3. \/ \E r \in Results \union Values \union {Absent} : Answer(t, r) /\ UNCHANGED env
      \/ /\ e \in Envelope
         /\ env' = [env EXCEPT ![t] = e]
         /\ Goto(t, "lookup")
         /\ UNCHANGED result
  BY <1>2 DEF Get, Results, Envelope
<1>4. StoreTypeOK'
  BY StoreUnchanged DEF Get
<1>5. LocalsSet'
  BY <1>3 DEF TypeOK, LocalsSet, Answer, Goto, Get
<1>6. /\ pc' \in [Tasks -> PCs]
      /\ result' \in [Tasks -> Results \union Values \union {Absent}]
      /\ env' \in [Tasks -> Envelope \union {Absent}]
  <2>1. CASE \E r \in Results \union Values \union {Absent} :
                Answer(t, r) /\ UNCHANGED env
    BY <2>1, AnswerTyped DEF TypeOK
  <2>2. CASE /\ e \in Envelope
             /\ env' = [env EXCEPT ![t] = e]
             /\ Goto(t, "lookup")
             /\ UNCHANGED result
    BY <2>2, GotoTyped DEF TypeOK
  <2> QED
    BY <1>3, <2>1, <2>2
<1> QED
  BY <1>4, <1>5, <1>6 DEF TypeOK, Get, lockVars

\* Both steps of reconstruct_plan answer, go on to the streams, or go on to plan.
LEMMA TypeReconstructed ==
    ASSUME TypeOK, NEW t \in Tasks, NEW v \in Values, pc[t] \in ReadingPCs,
           Reconstructed(t, v), UNCHANGED <<storeVars, call, src, env, lockVars, runtime, calls>>,
           cache' \in SUBSET Values
    PROVE  TypeOK'
<1>1. StoreTypeOK'
  BY StoreUnchanged
<1>2. \/ Answer(t, v) /\ UNCHANGED logical
      \/ /\ call[t].op # "get"
         /\ logical' = [logical EXCEPT ![t] = v]
         /\ Goto(t, "plan")
         /\ UNCHANGED result
  BY DEF Reconstructed
<1>3. LocalsSet'
  BY <1>2 DEF TypeOK, LocalsSet, Answer, Goto
<1> QED
  BY <1>1, <1>2, <1>3, AnswerTyped, GotoTyped DEF TypeOK, lockVars

\* LookUp keeps the types.
LEMMA TypeLookUp ==
    ASSUME TypeOK, NEW t \in Tasks, LookUp(t) PROVE TypeOK'
<1>1. env[t].hash \in Values
  BY DEF TypeOK, LocalsSet, LookUp, Envelope
<1>2. StoreTypeOK'
  BY StoreUnchanged DEF LookUp
<1>3. CASE Reconstructed(t, env[t].hash)
  BY <1>1, <1>3, TypeReconstructed DEF LookUp, TypeOK
<1>4. CASE Answer(t, "error") /\ UNCHANGED logical
  <2>1. LocalsSet'
    BY <1>4 DEF TypeOK, LocalsSet, Answer, Goto, LookUp
  <2> QED
    BY <1>2, <1>4, <2>1, AnswerTyped DEF TypeOK, LookUp, lockVars, Results
<1>5. CASE Goto(t, "reconstruct") /\ UNCHANGED <<result, logical>>
  <2>1. LocalsSet'
    BY <1>5 DEF TypeOK, LocalsSet, Goto, LookUp
  <2> QED
    BY <1>2, <1>5, <2>1, GotoTyped DEF TypeOK, LookUp, lockVars
<1> QED
  BY <1>3, <1>4, <1>5 DEF LookUp

\* Reconstruct keeps the types.
LEMMA TypeReconstruct ==
    ASSUME TypeOK, NEW t \in Tasks, Reconstruct(t) PROVE TypeOK'
<1>1. env[t].hash \in Values /\ env[t].spells \in Values
  BY DEF TypeOK, LocalsSet, Reconstruct, Envelope
<1>2. CASE Answer(t, "error") /\ UNCHANGED <<logical, cache>>
  <2>1. LocalsSet'
    BY <1>2 DEF TypeOK, LocalsSet, Answer, Goto, Reconstruct
  <2> QED
    BY <1>2, <2>1, StoreUnchanged, AnswerTyped
    DEF TypeOK, Reconstruct, lockVars, Results
<1>3. CASE cache' \in CachesWith(env[t].hash) /\ Reconstructed(t, env[t].spells)
  <2>1. cache' \in SUBSET Values
    BY <1>1, <1>3 DEF TypeOK, CachesWith, Inserted
  <2> QED
    BY <1>1, <1>3, <2>1, TypeReconstructed DEF Reconstruct
<1> QED
  BY <1>2, <1>3 DEF Reconstruct

\* Read keeps the types.
LEMMA TypeRead ==
    ASSUME TypeOK, NEW t \in Tasks, Read(t) PROVE TypeOK'
<1> DEFINE e == StoreGet(Key(t))
<1>1. Key(t) \in Keys /\ call[t] \in Call /\ pc[t] = "read"
  BY KeyOfCall DEF Read
<1>2. StoreTypeOK'
  BY StoreUnchanged DEF Read
<1>3. CASE /\ \E r \in Results : AnswerUnlocking(t, r)
           /\ UNCHANGED <<call, Locals>>
  <2>1. LocalsSet'
    BY <1>1, <1>3 DEF TypeOK, LocalsSet, AnswerUnlocking, Answer, Goto, Locals
  <2> QED
    BY <1>2, <1>3, <2>1, AnswerTyped, UnlockTyped
    DEF TypeOK, AnswerUnlocking, DropGuard, Read, Locals
<1>4. CASE /\ e # Absent /\ Decodable(e)
           /\ src' = [src EXCEPT ![t] = e]
           /\ env' = [env EXCEPT ![t] = e]
           /\ Goto(t, "lookup")
           /\ Unlock(t)
           /\ UNCHANGED <<call, result, logical, waiters>>
  <2>1. e \in Envelope
    BY <1>1, <1>4, RowRead
  <2>2. LocalsSet'
    BY <1>1, <1>4, <2>1 DEF TypeOK, LocalsSet, Goto
  <2>3. /\ src' \in [Tasks -> Envelope \union {Absent}]
        /\ env' \in [Tasks -> Envelope \union {Absent}]
    BY <1>4, <2>1 DEF TypeOK
  <2>4. pc' \in [Tasks -> PCs] /\ holder' \in [Keys -> Tasks \union {NoTask}]
    BY <1>4, GotoTyped, UnlockTyped
  <2> QED
    BY <1>2, <1>4, <2>2, <2>3, <2>4 DEF TypeOK, Read
<1>5. CASE /\ call[t].op = "vacuum"
           /\ call' = [call EXCEPT ![t].op = "plan"]
           /\ Goto(t, "lock")
           /\ Unlock(t)
           /\ Queue(t, Key(t))
           /\ UNCHANGED <<result, Locals>>
  <2>1. call'[t] \in Call
    BY <1>1, <1>5 DEF TypeOK, Call
  <2>2. call' \in [Tasks -> Call \union {Absent}]
    BY <1>5, <2>1 DEF TypeOK
  <2>3. LocalsSet'
    BY <1>1, <1>5, <2>1 DEF TypeOK, LocalsSet, Goto, Locals
  <2> QED
    BY <1>1, <1>2, <1>5, <2>2, <2>3, GotoTyped, UnlockTyped, QueueTyped
    DEF TypeOK, Read, Locals
<1>6. CASE /\ e # Absent /\ Decodable(e)
           /\ src' = [src EXCEPT ![t] = e]
           /\ logical' = [logical EXCEPT ![t] = e.spells]
           /\ Goto(t, "plan")
           /\ Unlock(t)
           /\ UNCHANGED <<call, result, env, waiters>>
  <2>1. e \in Envelope /\ e.spells \in Values
    BY <1>1, <1>6, RowRead DEF Envelope
  <2>2. LocalsSet'
    BY <1>1, <1>6, <2>1 DEF TypeOK, LocalsSet, Goto
  <2>3. /\ src' \in [Tasks -> Envelope \union {Absent}]
        /\ logical' \in [Tasks -> Values \union {Absent}]
    BY <1>6, <2>1 DEF TypeOK
  <2>4. pc' \in [Tasks -> PCs] /\ holder' \in [Keys -> Tasks \union {NoTask}]
    BY <1>6, GotoTyped, UnlockTyped
  <2> QED
    BY <1>2, <1>6, <2>2, <2>3, <2>4 DEF TypeOK, Read
<1> QED
  BY <1>3, <1>4, <1>5, <1>6 DEF Read, Results

\* Plan keeps the types.
LEMMA TypePlan ==
    ASSUME TypeOK, NEW t \in Tasks, Plan(t) PROVE TypeOK'
<1>1. call[t] \in Call /\ Key(t) \in Keys
  BY KeyOfCall DEF Plan
<1>2. StoreTypeOK'
  BY StoreUnchanged DEF Plan
<1>3. CASE /\ \E r \in Results : Answer(t, r)
           /\ UNCHANGED <<env, waiters>>
  <2>1. LocalsSet'
    BY <1>3 DEF TypeOK, LocalsSet, Answer, Goto, Plan
  <2> QED
    BY <1>2, <1>3, <2>1, AnswerTyped DEF TypeOK, Plan
<1>4. CASE /\ \E p \in Plans(runtime, call[t].opts, logical[t]) :
                  ~Refused(t, p) /\ env' = [env EXCEPT ![t] = p]
           /\ Goto(t, "relock")
           /\ Queue(t, Key(t))
           /\ UNCHANGED result
  <2>1. logical[t] \in Values /\ call[t].opts \in Opts
    BY <1>1 DEF TypeOK, LocalsSet, Plan, Call
  <2>2. PICK p \in Envelope : env' = [env EXCEPT ![t] = p]
    BY <1>4, <2>1, PlansAreEnvelopes DEF TypeOK
  <2>3. LocalsSet'
    BY <1>4, <2>2 DEF TypeOK, LocalsSet, Goto, Plan
  <2> QED
    BY <1>1, <1>2, <1>4, <2>2, <2>3, GotoTyped, QueueTyped DEF TypeOK, Plan
<1> QED
  BY <1>3, <1>4 DEF Plan, Results

\* Recheck keeps the types.
LEMMA TypeRecheck ==
    ASSUME TypeOK, NEW t \in Tasks, Recheck(t) PROVE TypeOK'
<1>1. StoreTypeOK'
  BY StoreUnchanged DEF Recheck
<1>2. CASE \E r \in Results : AnswerUnlocking(t, r)
  <2>1. LocalsSet'
    BY <1>2 DEF TypeOK, LocalsSet, AnswerUnlocking, Answer, Goto, Recheck, Locals
  <2> QED
    BY <1>1, <1>2, <2>1, AnswerTyped, UnlockTyped
    DEF TypeOK, AnswerUnlocking, DropGuard, Recheck, Locals
<1>3. CASE Goto(t, "rewrite") /\ HoldGuard(t) /\ UNCHANGED result
  <2>1. LocalsSet'
    BY <1>3 DEF TypeOK, LocalsSet, Goto, Recheck, Locals
  <2> QED
    BY <1>1, <1>3, <2>1, GotoTyped DEF TypeOK, HoldGuard, lockVars, Recheck, Locals
<1> QED
  BY <1>2, <1>3 DEF Recheck, Results

\* Rewrite keeps the types.
LEMMA TypeRewrite ==
    ASSUME TypeOK, NEW t \in Tasks, Rewrite(t) PROVE TypeOK'
<1>1. Key(t) \in Keys /\ env[t] \in Row
  BY KeyOfCall DEF TypeOK, LocalsSet, Rewrite, Row
<1>2. StoreTypeOK'
  BY <1>1, PutTyped DEF Rewrite
<1>3. LocalsSet'
  BY DEF TypeOK, LocalsSet, Goto, Rewrite, Locals
<1> QED
  BY <1>2, <1>3, GotoTyped DEF TypeOK, Rewrite, Locals, lockVars

\* Return keeps the types.
LEMMA TypeReturn ==
    ASSUME TypeOK, NEW t \in Tasks, Return(t) PROVE TypeOK'
<1>1. StoreTypeOK'
  BY StoreUnchanged DEF Return
<1>2. LocalsSet'
  BY DEF TypeOK, LocalsSet, Goto, Return, Forget
<1> QED
  BY <1>1, <1>2, GotoTyped DEF TypeOK, Return, Forget, lockVars, Results

\* EngineError keeps the types.
LEMMA TypeEngineError ==
    ASSUME TypeOK, NEW t \in Tasks, EngineError(t) PROVE TypeOK'
<1>1. StoreTypeOK'
  BY StoreUnchanged DEF EngineError
<1>2. Answer(t, "error")
  BY DEF EngineError, AnswerUnlocking
<1>3. LocalsSet'
  BY <1>2 DEF TypeOK, LocalsSet, Answer, Goto, EngineError, Locals
<1>4. holder' \in [Keys -> Tasks \union {NoTask}] /\ waiters' = waiters
  BY DEF TypeOK, AnswerUnlocking, DropGuard, lockVars, Unlock, EngineError
<1> QED
  BY <1>1, <1>2, <1>3, <1>4, AnswerTyped DEF TypeOK, EngineError, Locals, Results

\* Cancel keeps the types.
LEMMA TypeCancel ==
    ASSUME TypeOK, NEW t \in Tasks, Cancel(t) PROVE TypeOK'
<1>1. Key(t) \in Keys
  BY KeyOfCall DEF Cancel
<1>2. StoreTypeOK'
  BY StoreUnchanged DEF Cancel
<1>3. waiters' \in [Keys -> Seq(Tasks)]
  BY <1>1, WithoutIsSeq DEF TypeOK, Cancel
<1>4. LocalsSet'
  BY DEF TypeOK, LocalsSet, Goto, Cancel, Forget
<1> QED
  BY <1>2, <1>3, <1>4, GotoTyped DEF TypeOK, Cancel, Forget, Results

\* Restart keeps the types.
LEMMA TypeRestart ==
    ASSUME TypeOK, Restart PROVE TypeOK'
<1>1. StoreTypeOK'
  BY DEF TypeOK, StoreTypeOK, Restart, StoreCrash
<1>2. LocalsSet'
  BY DEF LocalsSet, Restart
<1>3. runtime' \in Runtime
  BY PiLsmDbAssumption DEF Restart
<1> QED
  BY <1>1, <1>2, <1>3 DEF TypeOK, Restart, Results

\* No step of the wrapper breaks the types.
LEMMA TypeStep == TypeOK /\ [Next]_vars => TypeOK'
<1> SUFFICES ASSUME TypeOK, [Next]_vars PROVE TypeOK'
  OBVIOUS
<1>1. CASE TaskNext
  BY <1>1, TypeInvoke, TypeAcquire, TypeEncode, TypeWrite, TypeAck, TypeFlush,
     TypeGet, TypeLookUp, TypeReconstruct, TypeRead, TypePlan, TypeRecheck, TypeRewrite,
     TypeReturn, TypeEngineError, TypeCancel
  DEF TaskNext, Step
<1>2. CASE BackgroundFlush
  BY <1>2, FlushTyped DEF TypeOK, LocalsSet, BackgroundFlush, taskVars, lockVars
<1>3. CASE Restart
  BY <1>3, TypeRestart
<1>4. CASE UNCHANGED vars
  BY <1>4, StoreUnchanged DEF TypeOK, LocalsSet, vars, taskVars, lockVars
<1> QED
  BY <1>1, <1>2, <1>3, <1>4 DEF Next

\* Types, and the locals set at each await, are as TypeOK says: in particular
\* nothing but an envelope, or nothing at all, is ever stored.
THEOREM TypeCorrect == Spec => []TypeOK
BY TypeInit, TypeStep, PTL DEF Spec

-----------------------------------------------------------------------------
(* Guards *)

USE DEF GuardedPCs

\* A step that moves t neither into nor out of the guarded part.
LEMMA GuardUntouched ==
    ASSUME TypeOK, GuardsHeld, NEW t \in Tasks, NEW place,
           pc' = [pc EXCEPT ![t] = place],
           place \in GuardedPCs <=> pc[t] \in GuardedPCs,
           call'[t].key = call[t].key \/ pc[t] \notin GuardedPCs,
           \A u \in Tasks \ {t} : call'[u] = call[u],
           holder' = holder
    PROVE  GuardsHeld'
BY DEF TypeOK, GuardsHeld, Guarded, Key

\* A step that takes t out of it and drops the guard.
LEMMA GuardDropped ==
    ASSUME TypeOK, GuardsHeld, NEW t \in Tasks, NEW place,
           pc' = [pc EXCEPT ![t] = place],
           pc[t] \in GuardedPCs, place \notin GuardedPCs,
           \A u \in Tasks \ {t} : call'[u] = call[u],
           holder' = [holder EXCEPT ![Key(t)] = NoTask]
    PROVE  GuardsHeld'
<1>1. Key(t) \in Keys /\ holder[Key(t)] = t
  BY KeyOfCall DEF GuardsHeld, Guarded
<1> SUFFICES ASSUME NEW u \in Tasks, NEW k \in Keys
             PROVE  Guarded(u, k)' <=> holder'[k] = u
  BY DEF GuardsHeld
<1>2. CASE u = t
  <2>1. ~Guarded(u, k)'
    BY <1>2 DEF TypeOK, Guarded
  <2>2. holder'[k] # u
    BY <1>1, <1>2, PiLsmDbAssumption DEF TypeOK, GuardsHeld, Guarded
  <2> QED
    BY <2>1, <2>2
<1>3. CASE u # t
  <2>1. Guarded(u, k)' <=> Guarded(u, k)
    BY <1>3 DEF TypeOK, Guarded, Key
  <2>2. holder'[k] = u <=> holder[k] = u
    BY <1>1, <1>3, PiLsmDbAssumption DEF TypeOK
  <2> QED
    BY <2>1, <2>2 DEF GuardsHeld
<1> QED
  BY <1>2, <1>3

\* The step that takes a guard finds it free.
LEMMA GuardAcquired ==
    ASSUME TypeOK, GuardsHeld, NEW t \in Tasks, Acquire(t)
    PROVE  GuardsHeld'
<1>1. Key(t) \in Keys
  BY KeyOfCall DEF Acquire
<1> SUFFICES ASSUME NEW u \in Tasks, NEW k \in Keys
             PROVE  Guarded(u, k)' <=> holder'[k] = u
  BY DEF GuardsHeld
<1>2. CASE u = t
  <2>1. Guarded(u, k)' <=> k = Key(t)
    BY <1>2 DEF TypeOK, Acquire, Goto, Guarded, Key
  <2>2. holder'[k] = u <=> k = Key(t)
    BY <1>1, <1>2 DEF TypeOK, Acquire, GuardsHeld, Guarded
  <2> QED
    BY <2>1, <2>2
<1>3. CASE u # t
  <2>1. Guarded(u, k)' <=> Guarded(u, k)
    BY <1>3 DEF TypeOK, Acquire, Goto, Guarded, Key
  <2>2. holder'[k] = u <=> holder[k] = u
    BY <1>1, <1>3, PiLsmDbAssumption DEF TypeOK, Acquire
  <2> QED
    BY <2>1, <2>2 DEF GuardsHeld
<1> QED
  BY <1>2, <1>3

\* No step of a task leaves a guard behind, or takes one that is held.
LEMMA GuardByTask ==
    ASSUME TypeOK, GuardsHeld, NEW t \in Tasks,
           Invoke(t) \/ Step(t) \/ EngineError(t) \/ Cancel(t)
    PROVE  GuardsHeld'
<1>1. CASE Invoke(t)
  BY <1>1, GuardUntouched DEF Invoke, Goto, TypeOK
<1>2. CASE Acquire(t)
  BY <1>2, GuardAcquired
<1>3. CASE Encode(t)
  BY <1>3, GuardUntouched, GuardDropped
  DEF Encode, AnswerUnlocking, Answer, DropGuard, HoldGuard, lockVars, Unlock, Goto
<1>4. CASE Write(t)
  BY <1>4, GuardUntouched DEF Write, Goto, lockVars
<1>5. CASE Ack(t)
  BY <1>5, GuardUntouched, GuardDropped
  DEF Ack, AnswerUnlocking, Answer, DropGuard, HoldGuard, lockVars, Unlock, Goto
<1>6. CASE Flush(t)
  BY <1>6, GuardDropped DEF Flush, AnswerUnlocking, Answer, DropGuard, Unlock, Goto
<1>7. CASE Get(t)
  BY <1>7, GuardUntouched DEF Get, Answer, Goto, lockVars
<1>8. CASE LookUp(t) \/ Reconstruct(t)
  BY <1>8, GuardUntouched
  DEF LookUp, Reconstruct, Reconstructed, Answer, Goto, lockVars
<1>9. CASE Read(t)
  <2>1. /\ pc[t] = "read"
        /\ \E place \in PCs \ GuardedPCs : pc' = [pc EXCEPT ![t] = place]
        /\ holder' = [holder EXCEPT ![Key(t)] = NoTask]
    BY <1>9 DEF Read, AnswerUnlocking, Answer, DropGuard, Unlock, Goto
  <2>2. \A u \in Tasks \ {t} : call'[u] = call[u]
    BY <1>9 DEF Read, TypeOK
  <2> QED
    BY <2>1, <2>2, GuardDropped
<1>10. CASE Plan(t)
  BY <1>10, GuardUntouched DEF Plan, Answer, Goto
<1>11. CASE Recheck(t)
  BY <1>11, GuardUntouched, GuardDropped
  DEF Recheck, AnswerUnlocking, Answer, DropGuard, HoldGuard, lockVars, Unlock, Goto
<1>12. CASE Rewrite(t)
  BY <1>12, GuardUntouched DEF Rewrite, Goto, lockVars
<1>13. CASE Return(t)
  BY <1>13, GuardUntouched DEF Return, Goto, lockVars, TypeOK
<1>14. CASE EngineError(t)
  BY <1>14, GuardUntouched, GuardDropped
  DEF EngineError, AnswerUnlocking, Answer, DropGuard, lockVars, Unlock, Goto
<1>15. CASE Cancel(t)
  <2>1. \A u \in Tasks \ {t} : call'[u] = call[u]
    BY <1>15 DEF Cancel, TypeOK
  <2>2. CASE pc[t] \in GuardedPCs
    BY <1>15, <2>1, <2>2, GuardDropped DEF Cancel, Goto
  <2>3. CASE pc[t] \notin GuardedPCs
    BY <1>15, <2>1, <2>3, GuardUntouched DEF Cancel, Goto
  <2> QED
    BY <2>2, <2>3
<1> QED
  BY <1>1, <1>2, <1>3, <1>4, <1>5, <1>6, <1>7, <1>8, <1>9, <1>10, <1>11, <1>12,
     <1>13, <1>14, <1>15 DEF Step

\* No step of the wrapper breaks the discipline of the guards.
LEMMA GuardStep == TypeOK /\ GuardsHeld /\ [Next]_vars => GuardsHeld'
<1> SUFFICES ASSUME TypeOK, GuardsHeld, [Next]_vars PROVE GuardsHeld'
  OBVIOUS
<1>1. CASE TaskNext
  BY <1>1, GuardByTask DEF TaskNext
<1>2. CASE BackgroundFlush
  BY <1>2 DEF BackgroundFlush, taskVars, lockVars, GuardsHeld, Guarded, Key
<1>3. CASE Restart
  BY <1>3, PiLsmDbAssumption DEF Restart, GuardsHeld, Guarded
<1>4. CASE UNCHANGED vars
  BY <1>4 DEF vars, taskVars, lockVars, GuardsHeld, Guarded, Key
<1> QED
  BY <1>1, <1>2, <1>3, <1>4 DEF Next

\* Nobody has a key's lock at first.
LEMMA GuardsInit == Init => GuardsHeld
  BY PiLsmDbAssumption DEF Init, GuardsHeld, Guarded

\* The guard of a key is held by exactly the task that is between taking it
\* and dropping it.
THEOREM GuardsCorrect == Spec => []GuardsHeld
  BY GuardsInit, GuardStep, TypeCorrect, PTL DEF Spec

-----------------------------------------------------------------------------
(* Queues *)

InQueue(q, t) == \E i \in DOMAIN q : q[i] = t
Distinct(q) == \A i, j \in DOMAIN q : q[i] = q[j] => i = j

\* A task that joins a queue.
LEMMA AppendQueue ==
    ASSUME NEW S, NEW q \in Seq(S), NEW t \in S, Distinct(q), ~InQueue(q, t)
    PROVE  /\ Distinct(Append(q, t))
           /\ \A u : InQueue(Append(q, t), u) <=> InQueue(q, u) \/ u = t
<1>1. /\ DOMAIN Append(q, t) = DOMAIN q \union {Len(q) + 1}
      /\ Append(q, t)[Len(q) + 1] = t
      /\ \A i \in DOMAIN q : Append(q, t)[i] = q[i] /\ i # Len(q) + 1
  BY AppendProperties
<1>2. Distinct(Append(q, t))
  BY <1>1 DEF Distinct, InQueue
<1>3. ASSUME NEW u PROVE InQueue(Append(q, t), u) <=> InQueue(q, u) \/ u = t
  BY <1>1 DEF InQueue
<1> QED
  BY <1>2, <1>3

\* The first in a queue leaves it.
LEMMA TailQueue ==
    ASSUME NEW S, NEW q \in Seq(S), q # <<>>, Distinct(q)
    PROVE  /\ Distinct(Tail(q))
           /\ \A u : InQueue(Tail(q), u) <=> InQueue(q, u) /\ u # Head(q)
<1>1. /\ DOMAIN q = 1 .. Len(q) /\ Len(q) \in Nat /\ Len(q) > 0
      /\ DOMAIN Tail(q) = 1 .. Len(q) - 1
      /\ \A i \in 1 .. Len(q) - 1 : Tail(q)[i] = q[i + 1]
      /\ Head(q) = q[1]
  BY HeadTailProperties, EmptySeq
<1>2. Distinct(Tail(q))
  BY <1>1 DEF Distinct
<1>3. ASSUME NEW u PROVE InQueue(Tail(q), u) <=> InQueue(q, u) /\ u # Head(q)
  <2>1. ASSUME InQueue(Tail(q), u) PROVE InQueue(q, u) /\ u # Head(q)
    <3>1. PICK i \in 1 .. Len(q) - 1 : q[i + 1] = u
      BY <1>1, <2>1 DEF InQueue
    <3>2. i + 1 \in DOMAIN q /\ 1 \in DOMAIN q /\ i + 1 # 1
      BY <1>1
    <3> QED
      BY <1>1, <3>1, <3>2 DEF InQueue, Distinct
  <2>2. ASSUME InQueue(q, u), u # Head(q) PROVE InQueue(Tail(q), u)
    <3>1. PICK i \in 1 .. Len(q) : q[i] = u
      BY <1>1, <2>2 DEF InQueue
    <3>2. i - 1 \in 1 .. Len(q) - 1 /\ Tail(q)[i - 1] = u
      BY <1>1, <2>2, <3>1
    <3> QED
      BY <1>1, <3>2 DEF InQueue
  <2> QED
    BY <2>1, <2>2
<1> QED
  BY <1>2, <1>3

\* What is before a place of a queue.
LEMMA CutBefore ==
    ASSUME NEW S, NEW q \in Seq(S), NEW at \in 1 .. Len(q)
    PROVE  /\ SubSeq(q, 1, at - 1) \in Seq(S)
           /\ Len(SubSeq(q, 1, at - 1)) = at - 1
           /\ \A i \in 1 .. at - 1 : SubSeq(q, 1, at - 1)[i] = q[i]
<1>1. \A i \in 1 .. at - 1 : q[i] \in S
  OBVIOUS
<1>2. SubSeq(q, 1, at - 1) \in Seq(S)
  BY <1>1, SubSeqProperties
<1>3. Len(SubSeq(q, 1, at - 1)) = at - 1
  OBVIOUS
<1>4. \A i \in 1 .. at - 1 : SubSeq(q, 1, at - 1)[i] = q[i]
  OBVIOUS
<1> QED
  BY <1>2, <1>3, <1>4

\* What is after it.
LEMMA CutAfter ==
    ASSUME NEW S, NEW q \in Seq(S), NEW at \in 1 .. Len(q)
    PROVE  /\ SubSeq(q, at + 1, Len(q)) \in Seq(S)
           /\ Len(SubSeq(q, at + 1, Len(q))) = Len(q) - at
           /\ \A i \in 1 .. Len(q) - at : SubSeq(q, at + 1, Len(q))[i] = q[at + i]
<1>1. \A i \in at + 1 .. Len(q) : q[i] \in S
  OBVIOUS
<1>2. SubSeq(q, at + 1, Len(q)) \in Seq(S)
  BY <1>1, SubSeqProperties
<1>3. Len(SubSeq(q, at + 1, Len(q))) = Len(q) - at
  OBVIOUS
<1>4. \A i \in 1 .. Len(q) - at : SubSeq(q, at + 1, Len(q))[i] = q[at + i]
  OBVIOUS
<1> QED
  BY <1>2, <1>3, <1>4

\* A queue without its element at some place.
LEMMA CutQueue ==
    ASSUME NEW S, NEW q \in Seq(S), NEW at \in 1 .. Len(q)
    PROVE  LET r == SubSeq(q, 1, at - 1) \o SubSeq(q, at + 1, Len(q))
           IN  /\ DOMAIN r = 1 .. Len(q) - 1
               /\ \A i \in 1 .. Len(q) - 1 : r[i] = IF i < at THEN q[i] ELSE q[i + 1]
<1> DEFINE a == SubSeq(q, 1, at - 1)
           b == SubSeq(q, at + 1, Len(q))
           r == a \o b
<1>1. /\ a \in Seq(S) /\ Len(a) = at - 1
      /\ \A i \in 1 .. at - 1 : a[i] = q[i]
  BY CutBefore, Zenon
<1>2. /\ b \in Seq(S) /\ Len(b) = Len(q) - at
      /\ \A i \in 1 .. Len(q) - at : b[i] = q[at + i]
  BY CutAfter, Zenon
<1> SUFFICES /\ DOMAIN r = 1 .. Len(q) - 1
             /\ \A i \in 1 .. Len(q) - 1 : r[i] = IF i < at THEN q[i] ELSE q[i + 1]
  BY Zenon
<1>3. a \in Seq(S) /\ b \in Seq(S)
  BY <1>1, <1>2, Zenon
<1> HIDE DEF a, b
<1>4. DOMAIN r = 1 .. Len(a) + Len(b)
  BY <1>3
<1>5. \A i \in 1 .. Len(a) : r[i] = a[i]
  BY <1>3
<1>6. ASSUME NEW i \in 1 .. Len(b) PROVE r[Len(a) + i] = b[i]
  BY <1>3
<1>7. Len(q) \in Nat
  BY LenProperties
<1> HIDE DEF r
<1>8. DOMAIN r = 1 .. Len(q) - 1
  BY <1>1, <1>2, <1>4, <1>7
<1>9. ASSUME NEW i \in 1 .. Len(q) - 1, i < at PROVE r[i] = q[i]
  <2>1. i \in 1 .. at - 1 /\ i \in 1 .. Len(a)
    BY <1>1, <1>9
  <2>2. r[i] = a[i] /\ a[i] = q[i]
    BY <1>1, <1>5, <2>1, Zenon
  <2> QED
    BY <2>2, Zenon
<1>10. ASSUME NEW i \in 1 .. Len(q) - 1, ~(i < at) PROVE r[i] = q[i + 1]
  <2>1. PICK j \in 1 .. Len(q) - at : i = at - 1 + j
    <3>1. i - (at - 1) \in 1 .. Len(q) - at /\ i = at - 1 + (i - (at - 1))
      BY <1>10, <1>7
    <3> QED BY <3>1
  <2>2. j \in 1 .. Len(b) /\ i = Len(a) + j
    BY <1>1, <1>2, <2>1
  <2>3. r[i] = b[j] /\ b[j] = q[at + j]
    BY <1>2, <1>6, <2>1, <2>2, Zenon
  <2>4. at + j = i + 1
    BY <2>1, <1>7
  <2> QED
    BY <2>3, <2>4, Zenon
<1> QED
  BY <1>8, <1>9, <1>10

\* A task leaves its place in a queue.
LEMMA WithoutQueue ==
    ASSUME NEW S, NEW q \in Seq(S), NEW t, InQueue(q, t), Distinct(q)
    PROVE  /\ Distinct(Without(q, t))
           /\ \A u : InQueue(Without(q, t), u) <=> InQueue(q, u) /\ u # t
<1> DEFINE at == CHOOSE i \in DOMAIN q : q[i] = t
           r == Without(q, t)
<1>1. at \in 1 .. Len(q) /\ q[at] = t /\ DOMAIN q = 1 .. Len(q) /\ Len(q) \in Nat
  BY DEF InQueue
<1>2. r = SubSeq(q, 1, at - 1) \o SubSeq(q, at + 1, Len(q))
  BY DEF Without, InQueue
<1> HIDE DEF at, r
<1>5. /\ DOMAIN r = 1 .. Len(q) - 1
      /\ \A i \in 1 .. Len(q) - 1 : r[i] = IF i < at THEN q[i] ELSE q[i + 1]
  <2>1. /\ DOMAIN (SubSeq(q, 1, at - 1) \o SubSeq(q, at + 1, Len(q))) = 1 .. Len(q) - 1
        /\ \A i \in 1 .. Len(q) - 1 :
              (SubSeq(q, 1, at - 1) \o SubSeq(q, at + 1, Len(q)))[i] =
                 IF i < at THEN q[i] ELSE q[i + 1]
    BY <1>1, CutQueue, Zenon
  <2> QED
    BY <1>2, <2>1, Zenon
<1>6. Distinct(r)
  <2> DEFINE from(i) == IF i < at THEN i ELSE i + 1
  <2>1. \A i \in DOMAIN r : from(i) \in DOMAIN q /\ r[i] = q[from(i)]
    BY <1>1, <1>5
  <2>2. \A i, j \in DOMAIN r : from(i) = from(j) => i = j
    BY <1>1, <1>5
  <2> HIDE DEF from
  <2> QED
    BY <2>1, <2>2 DEF Distinct
<1>7. ASSUME NEW u PROVE InQueue(r, u) <=> InQueue(q, u) /\ u # t
  <2>1. ASSUME InQueue(r, u) PROVE InQueue(q, u) /\ u # t
    <3>1. PICK i \in 1 .. Len(q) - 1 : r[i] = u
      BY <1>5, <2>1 DEF InQueue
    <3>2. \E j \in DOMAIN q : q[j] = u /\ j # at
      BY <1>1, <1>5, <3>1
    <3> QED
      BY <1>1, <3>2 DEF InQueue, Distinct
  <2>2. ASSUME InQueue(q, u), u # t PROVE InQueue(r, u)
    <3>1. PICK j \in 1 .. Len(q) : q[j] = u
      BY <1>1, <2>2 DEF InQueue
    <3>2. CASE j < at
      <4>1. j \in DOMAIN r /\ r[j] = u
        BY <1>1, <1>5, <3>1, <3>2
      <4> QED
        BY <4>1 DEF InQueue
    <3>3. CASE j > at
      <4>1. j - 1 \in DOMAIN r /\ r[j - 1] = u
        BY <1>1, <1>5, <3>1, <3>3
      <4> QED
        BY <4>1 DEF InQueue
    <3> QED
      BY <1>1, <2>2, <3>1, <3>2, <3>3
  <2> QED
    BY <2>1, <2>2
<1> QED
  BY <1>6, <1>7 DEF r

\* The two halves of QueuedOnce.
LEMMA QueuesApart ==
    QueuedOnce <=> \A k \in Keys :
                     /\ \A t \in Tasks : Waiting(t, k) <=> InQueue(waiters[k], t)
                     /\ Distinct(waiters[k])
  BY DEF QueuedOnce, InQueue, Distinct

\* A step that neither starts nor ends the wait of a task.
LEMMA QueueUntouched ==
    ASSUME QueuedOnce, waiters' = waiters,
           \A u \in Tasks, k \in Keys : Waiting(u, k)' <=> Waiting(u, k)
    PROVE  QueuedOnce'
  BY DEF QueuedOnce

\* A step that takes t into the queue of k.
LEMMA QueueJoined ==
    ASSUME TypeOK, QueuedOnce, NEW t \in Tasks, NEW k \in Keys,
           pc[t] \notin {"lock", "relock"},
           waiters' = [waiters EXCEPT ![k] = Append(@, t)],
           \A j \in Keys : Waiting(t, j)' <=> j = k,
           \A u \in Tasks \ {t}, j \in Keys : Waiting(u, j)' <=> Waiting(u, j)
    PROVE  QueuedOnce'
<1>1. waiters[k] \in Seq(Tasks) /\ Distinct(waiters[k])
      /\ \A u \in Tasks : Waiting(u, k) <=> InQueue(waiters[k], u)
  BY QueuesApart DEF TypeOK
<1>2. \A j \in Keys : ~InQueue(waiters[j], t)
  BY QueuesApart DEF Waiting
<1>3. /\ Distinct(Append(waiters[k], t))
      /\ \A u : InQueue(Append(waiters[k], t), u) <=> InQueue(waiters[k], u) \/ u = t
  BY <1>1, <1>2, AppendQueue
<1>4. waiters'[k] = Append(waiters[k], t) /\ \A j \in Keys \ {k} : waiters'[j] = waiters[j]
  BY DEF TypeOK
<1>5. ASSUME NEW j \in Keys
      PROVE  /\ \A u \in Tasks : Waiting(u, j)' <=> InQueue(waiters'[j], u)
             /\ Distinct(waiters'[j])
  BY <1>1, <1>2, <1>3, <1>4, QueuesApart
<1> QED
  BY <1>5 DEF QueuedOnce, InQueue, Distinct

\* A step that takes t out of the queue of its key.
LEMMA QueueLeft ==
    ASSUME TypeOK, QueuedOnce, NEW t \in Tasks,
           pc[t] \in {"lock", "relock"},
           Distinct(waiters'[Key(t)]),
           \A u \in Tasks :
              InQueue(waiters'[Key(t)], u) <=> InQueue(waiters[Key(t)], u) /\ u # t,
           \A j \in Keys \ {Key(t)} : waiters'[j] = waiters[j],
           \A j \in Keys : ~Waiting(t, j)',
           \A u \in Tasks \ {t}, j \in Keys : Waiting(u, j)' <=> Waiting(u, j)
    PROVE  QueuedOnce'
<1>1. Key(t) \in Keys
  BY KeyOfCall
<1>2. \A j \in Keys \ {Key(t)} : ~InQueue(waiters[j], t)
  BY QueuesApart DEF Waiting
<1>3. ASSUME NEW j \in Keys
      PROVE  /\ \A u \in Tasks : Waiting(u, j)' <=> InQueue(waiters'[j], u)
             /\ Distinct(waiters'[j])
  BY <1>1, <1>2, QueuesApart
<1> QED
  BY <1>3 DEF QueuedOnce, InQueue, Distinct

\* A step of a task that waits neither before nor after it.
LEMMA QueueAside ==
    ASSUME TypeOK, QueuedOnce, NEW t \in Tasks, NEW place,
           pc[t] \notin {"lock", "relock"}, place \notin {"lock", "relock"},
           Goto(t, place), UNCHANGED waiters,
           \A u \in Tasks \ {t} : call'[u] = call[u]
    PROVE  QueuedOnce'
<1>1. \A u \in Tasks \ {t} : pc'[u] = pc[u]
  BY DEF TypeOK, Goto
<1>2. pc'[t] = place
  BY DEF TypeOK, Goto
<1>3. \A u \in Tasks, k \in Keys : Waiting(u, k)' <=> Waiting(u, k)
  BY <1>1, <1>2 DEF Waiting, Key
<1> QED
  BY <1>3, QueueUntouched

\* A step that sends a task to wait for the key of its call.
LEMMA QueueSent ==
    ASSUME TypeOK, QueuedOnce, NEW t \in Tasks, NEW place \in {"lock", "relock"},
           NEW k \in Keys, pc[t] \notin {"lock", "relock"},
           Goto(t, place), Queue(t, k), call'[t].key = k,
           \A u \in Tasks \ {t} : call'[u] = call[u]
    PROVE  QueuedOnce'
<1>1. \A u \in Tasks \ {t} : pc'[u] = pc[u]
  BY DEF TypeOK, Goto
<1>2. pc'[t] = place
  BY DEF TypeOK, Goto
<1>3. \A j \in Keys : Waiting(t, j)' <=> j = k
  BY <1>2 DEF Waiting, Key
<1>4. \A u \in Tasks \ {t}, j \in Keys : Waiting(u, j)' <=> Waiting(u, j)
  BY <1>1 DEF Waiting, Key
<1> QED
  BY <1>3, <1>4, QueueJoined DEF Queue

\* The queue of a key through each step of a task.
LEMMA QueueByTask ==
    ASSUME TypeOK, QueuedOnce, NEW t \in Tasks,
           Invoke(t) \/ Step(t) \/ EngineError(t) \/ Cancel(t)
    PROVE  QueuedOnce'
<1>1. ASSUME Invoke(t) PROVE QueuedOnce'
  <2>1. PICK c \in Calls :
           /\ call' = [call EXCEPT ![t] = c]
           /\ \/ Goto(t, "get") /\ UNCHANGED waiters
              \/ Goto(t, "lock") /\ Queue(t, c.key)
    BY <1>1 DEF Invoke
  <2>2. c.key \in Keys /\ call'[t].key = c.key /\ \A u \in Tasks \ {t} : call'[u] = call[u]
    BY <2>1, PiLsmDbAssumption DEF TypeOK, Call
  <2>3. pc[t] = "idle"
    BY <1>1 DEF Invoke
  <2>4. CASE Goto(t, "get") /\ UNCHANGED waiters
    BY <2>2, <2>3, <2>4, QueueAside
  <2>5. CASE Goto(t, "lock") /\ Queue(t, c.key)
    BY <2>2, <2>3, <2>5, QueueSent
  <2> QED
    BY <2>1, <2>4, <2>5
<1>2. ASSUME Acquire(t) PROVE QueuedOnce'
  <2>1. Key(t) \in Keys
    BY <1>2, KeyOfCall DEF Acquire
  <2>2. waiters[Key(t)] \in Seq(Tasks) /\ Distinct(waiters[Key(t)])
    BY <2>1, QueuesApart DEF TypeOK
  <2>3. /\ waiters[Key(t)] # <<>> /\ Head(waiters[Key(t)]) = t
        /\ waiters' = [waiters EXCEPT ![Key(t)] = Tail(waiters[Key(t)])]
    BY <1>2 DEF Acquire
  <2>4. /\ Distinct(Tail(waiters[Key(t)]))
        /\ \A u : InQueue(Tail(waiters[Key(t)]), u) <=> InQueue(waiters[Key(t)], u) /\ u # t
    BY <2>2, <2>3, TailQueue
  <2>5. /\ \A j \in Keys : ~Waiting(t, j)'
        /\ \A u \in Tasks \ {t}, j \in Keys : Waiting(u, j)' <=> Waiting(u, j)
    BY <1>2 DEF Acquire, Goto, TypeOK, Waiting, Key
  <2>6. pc[t] \in {"lock", "relock"}
    BY <1>2 DEF Acquire
  <2>7. /\ waiters'[Key(t)] = Tail(waiters[Key(t)])
        /\ \A j \in Keys \ {Key(t)} : waiters'[j] = waiters[j]
    BY <2>1, <2>3 DEF TypeOK
  <2> QED
    BY <2>4, <2>5, <2>6, <2>7, QueueLeft, Zenon
<1>3. ASSUME Read(t) PROVE QueuedOnce'
  <2>1. pc[t] = "read" /\ Key(t) \in Keys
    BY <1>3, KeyOfCall DEF Read
  <2>2. CASE /\ call' = [call EXCEPT ![t].op = "plan"]
             /\ Goto(t, "lock") /\ Queue(t, Key(t))
    <3>1. call'[t].key = Key(t) /\ \A u \in Tasks \ {t} : call'[u] = call[u]
      BY <2>1, <2>2, KeyOfCall DEF TypeOK, Key, Call
    <3> QED
      BY <2>1, <2>2, <3>1, QueueSent
  <2>3. CASE /\ UNCHANGED <<call, waiters>>
             /\ Goto(t, "reply") \/ Goto(t, "lookup") \/ Goto(t, "plan")
    BY <2>1, <2>3, QueueAside
  <2> QED
    BY <1>3, <2>2, <2>3 DEF Read, AnswerUnlocking, Answer, DropGuard
<1>4. ASSUME Plan(t) PROVE QueuedOnce'
  <2>1. pc[t] = "plan" /\ Key(t) \in Keys /\ UNCHANGED call
    BY <1>4, KeyOfCall DEF Plan
  <2>2. CASE Goto(t, "relock") /\ Queue(t, Key(t))
    BY <2>1, <2>2, QueueSent DEF Key
  <2>3. CASE UNCHANGED waiters /\ Goto(t, "reply")
    BY <2>1, <2>3, QueueAside
  <2> QED
    BY <1>4, <2>2, <2>3 DEF Plan, Answer
<1>5. ASSUME Cancel(t) PROVE QueuedOnce'
  <2>1. /\ pc[t] # "idle" /\ Goto(t, "idle") /\ Key(t) \in Keys
        /\ \A u \in Tasks \ {t} : call'[u] = call[u]
    BY <1>5, KeyOfCall DEF Cancel, TypeOK
  <2>2. CASE pc[t] \notin {"lock", "relock"}
    <3>1. UNCHANGED waiters
      BY <1>5, <2>2 DEF Cancel
    <3> QED
      BY <2>1, <2>2, <3>1, QueueAside
  <2>3. CASE pc[t] \in {"lock", "relock"}
    <3>1. /\ waiters[Key(t)] \in Seq(Tasks) /\ Distinct(waiters[Key(t)])
          /\ InQueue(waiters[Key(t)], t)
      BY <2>1, <2>3, QueuesApart DEF TypeOK, Waiting
    <3>2. waiters' = [waiters EXCEPT ![Key(t)] = Without(waiters[Key(t)], t)]
      BY <1>5, <2>3 DEF Cancel
    <3>3. /\ Distinct(Without(waiters[Key(t)], t))
          /\ \A u : InQueue(Without(waiters[Key(t)], t), u)
                       <=> InQueue(waiters[Key(t)], u) /\ u # t
      BY <3>1, WithoutQueue
    <3>4. /\ \A j \in Keys : ~Waiting(t, j)'
          /\ \A u \in Tasks \ {t}, j \in Keys : Waiting(u, j)' <=> Waiting(u, j)
      BY <2>1 DEF Goto, TypeOK, Waiting, Key
    <3>5. /\ waiters'[Key(t)] = Without(waiters[Key(t)], t)
          /\ \A j \in Keys \ {Key(t)} : waiters'[j] = waiters[j]
      BY <2>1, <3>2 DEF TypeOK
    <3> QED
      BY <2>3, <3>3, <3>4, <3>5, QueueLeft, Zenon
  <2> QED
    BY <2>2, <2>3
<1>6. ASSUME Encode(t) \/ Write(t) \/ Ack(t) \/ Flush(t) \/ Get(t) \/ LookUp(t)
               \/ Reconstruct(t) \/ Recheck(t) \/ Rewrite(t) \/ Return(t) \/ EngineError(t)
      PROVE  QueuedOnce'
  <2>1. pc[t] \notin {"lock", "relock"} /\ UNCHANGED waiters
    BY <1>6 DEF Encode, Write, Ack, Flush, Get, LookUp, Reconstruct, Recheck, Rewrite,
                Return, EngineError, AnswerUnlocking, DropGuard, HoldGuard, lockVars
  <2>2. \E place \in PCs \ {"lock", "relock"} : Goto(t, place)
    BY <1>6 DEF Encode, Write, Ack, Flush, Get, LookUp, Reconstruct, Reconstructed, Recheck,
                Rewrite, Return, EngineError, AnswerUnlocking, Answer, PCs
  <2>3. \A u \in Tasks \ {t} : call'[u] = call[u]
    BY <1>6 DEF Encode, Write, Ack, Flush, Get, LookUp, Reconstruct, Recheck, Rewrite,
                Return, EngineError, TypeOK
  <2> QED
    BY <2>1, <2>2, <2>3, QueueAside
<1> QED
  BY <1>1, <1>2, <1>3, <1>4, <1>5, <1>6 DEF Step

\* Nobody waits at first.
LEMMA QueuesInit == Init => QueuedOnce
  BY DEF Init, QueuedOnce, Waiting

\* Each task that waits stands in the queue of its key, once.
LEMMA QueueStep == TypeOK /\ QueuedOnce /\ [Next]_vars => QueuedOnce'
<1> SUFFICES ASSUME TypeOK, QueuedOnce, [Next]_vars PROVE QueuedOnce'
  OBVIOUS
<1>1. CASE TaskNext
  BY <1>1, QueueByTask DEF TaskNext
<1>2. CASE BackgroundFlush
  BY <1>2 DEF BackgroundFlush, taskVars, lockVars, QueuedOnce, Waiting, Key
<1>3. CASE Restart
  BY <1>3 DEF Restart, QueuedOnce, Waiting
<1>4. CASE UNCHANGED vars
  BY <1>4 DEF vars, taskVars, lockVars, QueuedOnce, Waiting, Key
<1> QED
  BY <1>1, <1>2, <1>3, <1>4 DEF Next

\* The guard of a key is held by exactly the task inside it, and each task that
\* waits for it stands in its queue once, whoever is cancelled and whatever errs.
THEOREM GuardDisciplineCorrect == Spec => []GuardDiscipline
<1>1. Spec => []QueuedOnce
  BY QueuesInit, QueueStep, TypeCorrect, PTL DEF Spec
<1> QED
  BY <1>1, GuardsCorrect, PTL DEF GuardDiscipline

-----------------------------------------------------------------------------
(* Rewrites *)

\* The cache is keyed by the hash a plan carries, so a hit answers for a plan
\* that does not spell the value of its hash.  What follows is proved of a
\* database with no cache, and of one without such plans to begin with.
Honest(e) == e \in Envelope => e.spells = e.hash
HonestOrUncached == CacheBytes = 0 \/ \A e \in Existing : Honest(e)

\* Either nothing is cached, or every plan around is honest.
CacheHarmless ==
    \/ cache = {} /\ CacheBytes = 0
    \/ /\ \A k \in Keys : Honest(mem[k].env) /\ Honest(disk[k].env)
       /\ \A t \in Tasks : Honest(env[t])

\* What every rewrite knows of itself and its plan, whatever is in the store.
PlansKnown == \A t \in Tasks : KnowsPlan(t)
PlanInv == TypeOK /\ GuardsHeld /\ CacheHarmless /\ PlansKnown

\* A raw envelope spells what its hash says.
LEMMA RawIsHonest ==
    ASSUME NEW v \in Values PROVE Honest(Raw(v))
BY DEF Honest, Raw

\* A database opens with an empty cache over the rows that are there.
LEMMA CacheInit ==
    ASSUME HonestOrUncached, Init PROVE CacheHarmless
<1>1. \A k \in Keys : mem[k].env \in Existing /\ disk[k].env \in Existing
  BY DEF Init, StoreInit
<1>2. \A t \in Tasks : Honest(env[t])
  BY EnvelopeAssumption DEF Init, Honest
<1> QED
  BY <1>1, <1>2 DEF HonestOrUncached, CacheHarmless, Init

\* Rows and locals that come from nowhere but Existing, Raw and Plans.
LEMMA CacheStep ==
    ASSUME PlanInv, [Next]_vars PROVE CacheHarmless'
<1>1. CASE cache = {} /\ CacheBytes = 0
  <2>1. cache' = {}
    BY <1>1 DEF Next, TaskNext, Step, vars, Invoke, Acquire, Encode, Write, Ack, Flush, Get,
       Read, Plan, Recheck, Rewrite, Return, EngineError, Cancel, BackgroundFlush,
       Restart, LookUp, Reconstruct, CachesWith, Inserted
  <2> QED
    BY <1>1, <2>1 DEF CacheHarmless
<1>2. CASE /\ \A k \in Keys : Honest(mem[k].env) /\ Honest(disk[k].env)
           /\ \A t \in Tasks : Honest(env[t])
  <2>1. \A t \in Tasks : Honest(env'[t])
    <3>1. ASSUME NEW u \in Tasks, Encode(u) \/ Plan(u)
          PROVE  \A t \in Tasks : Honest(env'[t])
      <4>1. \/ UNCHANGED env
            \/ \E o \in Opts, v \in Values : \E p \in Plans(runtime, o, v) :
                  env' = [env EXCEPT ![u] = p]
        BY <3>1, KeyOfCall, PlanningAssumption
        DEF PlanInv, TypeOK, LocalsSet, Encode, Plan, Call
      <4>2. \A o \in Opts, v \in Values : \A p \in Plans(runtime, o, v) : Honest(p)
        BY DEF Plans, Reconstructs, Honest
      <4> QED
        BY <1>2, <4>1, <4>2 DEF PlanInv, TypeOK
    <3>2. ASSUME NEW u \in Tasks, Get(u) \/ Read(u)
          PROVE  \A t \in Tasks : Honest(env'[t])
      <4>1. Key(u) \in Keys
        BY <3>2, KeyOfCall DEF PlanInv, Get, Read
      <4>2. UNCHANGED env \/ env' = [env EXCEPT ![u] = StoreGet(Key(u))]
        BY <3>2 DEF Get, Read, Locals
      <4> QED
        BY <1>2, <4>1, <4>2 DEF PlanInv, TypeOK, StoreGet
    <3>3. ASSUME NEW u \in Tasks, Return(u) \/ Cancel(u)
          PROVE  \A t \in Tasks : Honest(env'[t])
      BY <1>2, <3>3, EnvelopeAssumption
      DEF PlanInv, TypeOK, Return, Cancel, Forget, Honest
    <3>4. CASE Restart
      BY <3>4, EnvelopeAssumption DEF Restart, Honest
    <3>5. CASE UNCHANGED env
      BY <1>2, <3>5
    <3> QED
      BY <3>1, <3>2, <3>3, <3>4, <3>5
      DEF Next, TaskNext, Step, vars, taskVars, Locals, Invoke, Acquire, Write, Ack, Flush,
          LookUp, Reconstruct, Recheck, Rewrite, EngineError, BackgroundFlush
  <2>2. \A k \in Keys : Honest(mem'[k].env) /\ Honest(disk'[k].env)
    <3>1. ASSUME NEW u \in Tasks, Write(u) \/ Rewrite(u)
          PROVE  \A k \in Keys : Honest(mem'[k].env) /\ Honest(disk'[k].env)
      <4>1. ASSUME Write(u) PROVE \E e : Honest(e) /\ StorePut(Key(u), e)
        <5>1. Honest(Absent)
          BY EnvelopeAssumption DEF Honest
        <5>2. Honest(ToWrite(u))
          BY <1>2, <4>1, <5>1, RawIsHonest DEF ToWrite, PlanInv, TypeOK, LocalsSet, Write
        <5> QED
          BY <4>1, <5>2 DEF Write
      <4>2. \E e : Honest(e) /\ StorePut(Key(u), e)
        BY <1>2, <3>1, <4>1 DEF Rewrite
      <4> QED
        BY <1>2, <4>2 DEF StorePut, PlanInv, TypeOK, StoreTypeOK
    <3>2. CASE StoreFlush \/ StoreCrash \/ UNCHANGED storeVars
      BY <1>2, <3>2 DEF StoreFlush, StoreCrash, storeVars
    <3> QED
      BY <3>1, <3>2
      DEF Next, TaskNext, Step, vars, Invoke, Acquire, Encode, Ack, Flush, Get,
          LookUp, Reconstruct, Read, Plan, Recheck, Return, EngineError, Cancel,
          BackgroundFlush, Restart
  <2> QED
    BY <2>1, <2>2 DEF CacheHarmless
<1> QED
  BY <1>1, <1>2 DEF PlanInv, CacheHarmless

\* A step that leaves alone what u knows of.
LEMMA KnowsKept ==
    ASSUME NEW u \in Tasks, KnowsPlan(u), pc'[u] = pc[u], call'[u] = call[u],
           src'[u] = src[u], env'[u] = env[u], logical'[u] = logical[u],
           runtime' = runtime
    PROVE  KnowsPlan(u)'
BY DEF KnowsPlan

\* A step of a task does so for the others.
LEMMA OthersKeep ==
    ASSUME TypeOK, NEW t \in Tasks, NEW u \in Tasks, u # t,
           Invoke(t) \/ Step(t) \/ EngineError(t) \/ Cancel(t)
    PROVE  /\ pc'[u] = pc[u] /\ call'[u] = call[u]
           /\ src'[u] = src[u] /\ env'[u] = env[u] /\ logical'[u] = logical[u]
           /\ runtime' = runtime
<1>1. pc'[u] = pc[u] /\ call'[u] = call[u]
  BY DEF TypeOK, Step, Invoke, Acquire, Encode, Write, Ack, Flush, Get, LookUp,
     Reconstruct, Reconstructed, Read, Plan, Recheck, Rewrite, Return, EngineError,
     Cancel, AnswerUnlocking, Answer, Goto
<1>2. src'[u] = src[u] /\ env'[u] = env[u] /\ logical'[u] = logical[u]
  BY DEF TypeOK, Step, Invoke, Acquire, Encode, Write, Ack, Flush, Get, LookUp,
     Reconstruct, Reconstructed, Read, Plan, Recheck, Rewrite, Return, EngineError,
     Cancel,
     Forget, Locals
<1>3. runtime' = runtime
  BY DEF Step, Invoke, Acquire, Encode, Write, Ack, Flush, Get, LookUp,
     Reconstruct, Reconstructed, Read, Plan, Recheck, Rewrite, Return, EngineError,
     Cancel
<1> QED
  BY <1>1, <1>2, <1>3

\* So what they know stays so.
LEMMA OthersKnow ==
    ASSUME PlanInv, NEW t \in Tasks, NEW u \in Tasks, u # t,
           Invoke(t) \/ Step(t) \/ EngineError(t) \/ Cancel(t)
    PROVE  KnowsPlan(u)'
  BY OthersKeep, KnowsKept DEF PlanInv, PlansKnown

\* Where nothing is to be known.
LEMMA NothingToKnow ==
    ASSUME NEW t \in Tasks,
           pc'[t] \notin PlanningPCs \union ReadingPCs,
           ~(pc'[t] = "write" /\ call'[t].op = "putplan")
    PROVE  KnowsPlan(t)'
BY DEF KnowsPlan

\* What allow_immediate_plan is about to put can be read back.
LEMMA EncodeKnows ==
    ASSUME PlanInv, NEW t \in Tasks, Encode(t) PROVE KnowsPlan(t)'
<1>1. CASE pc' = [pc EXCEPT ![t] = "reply"]
  BY <1>1, NothingToKnow DEF PlanInv, TypeOK
<1>2. CASE \E p \in Plans(runtime, DefaultOpts, call[t].value) :
              /\ env' = [env EXCEPT ![t] = p]
              /\ Goto(t, "write") /\ HoldGuard(t) /\ UNCHANGED result
  <2>1. call[t].value \in Values
    BY DEF Encode, PlanInv, TypeOK, LocalsSet
  <2>2. PICK p \in Plans(runtime, DefaultOpts, call[t].value) :
            env' = [env EXCEPT ![t] = p] /\ Goto(t, "write")
    BY <1>2
  <2>3. p \in Envelope /\ p.hash = call[t].value /\ Reconstructs(runtime.registry, p)
    BY <2>1, <2>2, PlansAreEnvelopes, PlanningAssumption DEF PlanInv, TypeOK
  <2> QED
    BY <2>2, <2>3 DEF Encode, PlanInv, TypeOK, KnowsPlan, Goto
<1> QED
  BY <1>1, <1>2 DEF Encode, AnswerUnlocking, Answer, Goto

\* A reconstructed plan, cached or not, spells what its hash says.
LEMMA ReconstructKnows ==
    ASSUME PlanInv, NEW t \in Tasks, LookUp(t) \/ Reconstruct(t) PROVE KnowsPlan(t)'
<1>1. CASE pc' = [pc EXCEPT ![t] = "reply"]
  BY <1>1, NothingToKnow DEF PlanInv, TypeOK
<1>2. CASE /\ call[t].op # "get"
           /\ \/ logical' = [logical EXCEPT ![t] = env[t].hash]
                 /\ env[t].hash \in cache
              \/ logical' = [logical EXCEPT ![t] = env[t].spells]
                 /\ Reconstructs(runtime.registry, env[t])
           /\ Goto(t, "plan")
  <2>1. env[t] \in Envelope /\ src[t] = env[t]
    BY <1>2 DEF PlanInv, TypeOK, LocalsSet, LookUp, Reconstruct, PlansKnown, KnowsPlan
  <2>2. env[t].spells = env[t].hash
    BY <1>2, <2>1 DEF PlanInv, CacheHarmless, Honest, Reconstructs
  <2>3. Logical(env[t]) = env[t].hash
    BY <2>1, <2>2, EnvelopeAssumption DEF Logical
  <2>4. logical'[t] = env[t].hash /\ src'[t] = src[t] /\ pc'[t] = "plan"
    BY <1>2, <2>2 DEF LookUp, Reconstruct, PlanInv, TypeOK, Goto
  <2> QED
    BY <2>1, <2>3, <2>4 DEF KnowsPlan
<1>3. CASE LookUp(t) /\ Goto(t, "reconstruct")
  BY <1>3 DEF LookUp, Goto, PlanInv, TypeOK, PlansKnown, KnowsPlan
<1> QED
  BY <1>1, <1>2, <1>3 DEF LookUp, Reconstruct, Reconstructed, Answer, Goto

\* A rewrite starts from the row it reads.
LEMMA ReadKnows ==
    ASSUME PlanInv, NEW t \in Tasks, Read(t) PROVE KnowsPlan(t)'
<1> DEFINE e == StoreGet(Key(t))
<1>1. CASE pc'[t] \in {"reply", "lock"}
  BY <1>1, NothingToKnow
<1>2. CASE /\ src' = [src EXCEPT ![t] = e]
           /\ env' = [env EXCEPT ![t] = e]
           /\ Goto(t, "lookup")
  BY <1>2 DEF PlanInv, TypeOK, KnowsPlan, Goto
<1>3. CASE /\ e # Absent /\ Decodable(e) /\ e.kind = "raw"
           /\ src' = [src EXCEPT ![t] = e]
           /\ logical' = [logical EXCEPT ![t] = e.spells]
           /\ Goto(t, "plan")
  <2>1. Logical(e) = e.spells
    BY <1>3, KeyOfCall, RowRead DEF PlanInv, Read
  <2> QED
    BY <1>3, <2>1 DEF PlanInv, TypeOK, KnowsPlan, Goto
<1> QED
  BY <1>1, <1>2, <1>3 DEF Read, AnswerUnlocking, Answer, Goto, PlanInv, TypeOK

\* A rewrite goes on only with a plan of its source, and a better one if it vacuums.
LEMMA PlanKnows ==
    ASSUME PlanInv, NEW t \in Tasks, Plan(t) PROVE KnowsPlan(t)'
<1>1. CASE pc' = [pc EXCEPT ![t] = "reply"]
  BY <1>1, NothingToKnow DEF PlanInv, TypeOK
<1>2. CASE /\ \E p \in Plans(runtime, call[t].opts, logical[t]) :
                  ~Refused(t, p) /\ env' = [env EXCEPT ![t] = p]
           /\ Goto(t, "relock")
  <2>1. logical[t] \in Values /\ call[t].opts \in Opts
    BY KeyOfCall DEF PlanInv, TypeOK, LocalsSet, Plan, Call
  <2>2. PICK p \in Plans(runtime, call[t].opts, logical[t]) :
            ~Refused(t, p) /\ env' = [env EXCEPT ![t] = p]
    BY <1>2
  <2>3. p.hash = logical[t] /\ Reconstructs(runtime.registry, p)
    BY <2>1, PlansAreEnvelopes DEF PlanInv, TypeOK
  <2>4. Logical(src[t]) = logical[t]
    BY DEF Plan, PlanInv, PlansKnown, KnowsPlan
  <2>5. call[t].op = "vacuum" => Improves(p, src[t])
    BY <2>2 DEF Refused
  <2> QED
    BY <1>2, <2>2, <2>3, <2>4, <2>5 DEF Plan, PlanInv, TypeOK, KnowsPlan, Goto
<1> QED
  BY <1>1, <1>2 DEF Plan, Answer, Goto

\* The second read changes nothing of this.
LEMMA RecheckKnows ==
    ASSUME PlanInv, NEW t \in Tasks, Recheck(t) PROVE KnowsPlan(t)'
<1>1. CASE pc' = [pc EXCEPT ![t] = "reply"]
  BY <1>1, NothingToKnow DEF PlanInv, TypeOK
<1>2. CASE Goto(t, "rewrite")
  BY <1>2 DEF Recheck, Locals, PlanInv, TypeOK, PlansKnown, KnowsPlan, Goto
<1> QED
  BY <1>1, <1>2 DEF Recheck, AnswerUnlocking, Answer, Goto

\* A step of a task adds to what it knows, as its await asks.
LEMMA TaskKnows ==
    ASSUME PlanInv, NEW t \in Tasks,
           Invoke(t) \/ Step(t) \/ EngineError(t) \/ Cancel(t)
    PROVE  KnowsPlan(t)'
<1>1. CASE Acquire(t) /\ pc[t] = "relock"
  BY <1>1 DEF Acquire, Goto, Locals, PlanInv, TypeOK, PlansKnown, KnowsPlan
<1>2. CASE \/ Acquire(t) /\ pc[t] = "lock"
           \/ Invoke(t) \/ Write(t) \/ Ack(t) \/ Flush(t) \/ Rewrite(t)
           \/ Return(t) \/ EngineError(t) \/ Cancel(t)
  <2>1. pc'[t] \notin PlanningPCs \union ReadingPCs
    BY <1>2 DEF PlanInv, TypeOK, Acquire, Invoke, Write, Ack, Flush, Rewrite, Return,
       EngineError, Cancel, AnswerUnlocking, Answer, Goto
  <2>2. ~(pc'[t] = "write" /\ call'[t].op = "putplan")
    BY <1>2 DEF PlanInv, TypeOK, Acquire, Invoke, Write, Ack, Flush, Rewrite, Return,
       EngineError, Cancel, AnswerUnlocking, Answer, Goto
  <2> QED
    BY <2>1, <2>2, NothingToKnow
<1>3. CASE Get(t)
  <2>1. call'[t].op = "get" /\ pc'[t] \in {"reply", "lookup"}
    BY <1>3 DEF Get, Answer, Goto, PlanInv, TypeOK, LocalsSet
  <2> QED
    BY <2>1 DEF KnowsPlan
<1> QED
  BY <1>1, <1>2, <1>3, EncodeKnows, ReconstructKnows, ReadKnows, PlanKnows, RecheckKnows
  DEF Step, Acquire

\* No step of the wrapper makes false what a task knows of its plan.
LEMMA PlansKnownStep == PlanInv /\ [Next]_vars => PlansKnown'
<1> SUFFICES ASSUME PlanInv, [Next]_vars, NEW u \in Tasks PROVE KnowsPlan(u)'
  BY DEF PlansKnown
<1>1. CASE TaskNext
  BY <1>1, TaskKnows, OthersKnow DEF TaskNext
<1>2. CASE BackgroundFlush \/ UNCHANGED vars
  BY <1>2, KnowsKept
  DEF BackgroundFlush, StoreFlush, vars, storeVars, taskVars, PlanInv, PlansKnown
<1>3. CASE Restart
  BY <1>3, NothingToKnow DEF Restart
<1> QED
  BY <1>1, <1>2, <1>3 DEF Next

\* All of the invariant that does not look at the store.
LEMMA PlanInvInit == HonestOrUncached /\ Init => PlanInv
<1> SUFFICES ASSUME HonestOrUncached, Init PROVE PlanInv
  OBVIOUS
<1>1. PlansKnown
  BY DEF Init, PlansKnown, KnowsPlan
<1> QED
  BY <1>1, TypeInit, CacheInit, PiLsmDbAssumption DEF PlanInv, Init, GuardsHeld, Guarded

\* Every step of the wrapper keeps it.
LEMMA PlanInvStep == PlanInv /\ [Next]_vars => PlanInv'
  BY TypeStep, GuardStep, CacheStep, PlansKnownStep DEF PlanInv

-----------------------------------------------------------------------------
(* The source of a rewrite *)

\* A task on its way to the write has just found its source in place, or was
\* there before and its row is untouched: a task that writes holds the guard of
\* the key it writes.
LEMMA SourceStep ==
    ASSUME TypeOK, GuardsHeld, [Next]_vars, NEW u \in Tasks, pc'[u] = "rewrite"
    PROVE  \/ StoreGet(Key(u))' = src'[u]
           \/ /\ pc[u] = "rewrite" /\ src'[u] = src[u] /\ Key(u)' = Key(u)
              /\ StoreGet(Key(u))' = StoreGet(Key(u))
<1>1. CASE TaskNext
  <2>1. PICK t \in Tasks : Invoke(t) \/ Step(t) \/ EngineError(t) \/ Cancel(t)
    BY <1>1 DEF TaskNext
  <2>2. CASE t = u
    <3>1. Recheck(u) /\ SourceUnchanged(u, StoreGet(Key(u)))
      BY <2>1, <2>2
      DEF TypeOK, Step, Invoke, Acquire, Encode, Write, Ack, Flush, Get, LookUp,
          Reconstruct, Reconstructed, Read, Plan, Recheck, Rewrite, Return,
          EngineError, Cancel, AnswerUnlocking, Answer, Goto
    <3> QED
      BY <3>1 DEF SourceUnchanged, StoreGet, Key, Recheck, storeVars, Locals
  <2>3. CASE t # u
    <3>1. pc[u] = "rewrite" /\ src'[u] = src[u] /\ call'[u] = call[u]
      BY <2>1, <2>3, OthersKeep
    <3>2. mem'[Key(u)] = mem[Key(u)]
      <4>1. CASE Write(t) \/ Rewrite(t)
        <5>1. Key(u) # Key(t)
          BY <2>3, <3>1, <4>1, KeyOfCall DEF GuardsHeld, Guarded, Write, Rewrite
        <5> QED
          BY <3>1, <4>1, <5>1, KeyOfCall
          DEF TypeOK, StoreTypeOK, Write, Rewrite, StorePut
      <4>2. CASE UNCHANGED mem
        BY <4>2
      <4> QED
        BY <2>1, <4>1, <4>2
        DEF Step, Invoke, Acquire, Encode, Ack, Flush, StoreFlush, Get, LookUp,
            Reconstruct, Read, Plan, Recheck, Return, EngineError, Cancel, storeVars
    <3> QED
      BY <3>1, <3>2 DEF Key, StoreGet
  <2> QED
    BY <2>2, <2>3
<1>2. CASE BackgroundFlush \/ UNCHANGED vars
  BY <1>2 DEF BackgroundFlush, StoreFlush, vars, storeVars, taskVars, Key, StoreGet
<1>3. CASE Restart
  BY <1>3 DEF Restart
<1> QED
  BY <1>1, <1>2, <1>3 DEF Next

SourcesKnown == \A t \in Tasks : KnowsSource(t)
Inv == PlanInv /\ SourcesKnown

\* The inductive invariant of the wrapper.
THEOREM Invariance ==
    ASSUME HonestOrUncached PROVE Spec => []Inv
<1>1. Init => Inv
  BY PlanInvInit DEF Inv, SourcesKnown, KnowsSource, Init
<1>2. Inv /\ [Next]_vars => Inv'
  BY PlanInvStep, SourceStep DEF Inv, PlanInv, SourcesKnown, KnowsSource
<1> QED
  BY <1>1, <1>2, PTL DEF Spec

\* What a rewrite knows wherever it is, is so: the bytes, the plan and, until it
\* writes, the source in place.
THEOREM KnowledgeCorrect ==
    ASSUME HonestOrUncached PROVE Spec => []RewriteKnows
<1>1. Inv => RewriteKnows
  BY DEF Inv, PlanInv, PlansKnown, SourcesKnown, RewriteKnows
<1> QED
  BY <1>1, Invariance, PTL

\* No rewrite undoes a put or a delete: it reaches the store only while the
\* bytes it has planned are those the key holds.
THEOREM RewritesCorrect ==
    ASSUME HonestOrUncached PROVE Spec => []RewritesFindTheirSource
<1>1. Inv => RewritesFindTheirSource
  <2> SUFFICES ASSUME Inv, NEW t \in Tasks, pc[t] = "rewrite"
               PROVE  /\ StoreGet(Key(t)) # Absent
                      /\ Logical(StoreGet(Key(t))) = Logical(env[t])
    BY DEF RewritesFindTheirSource
  <2>1. StoreGet(Key(t)) = src[t] /\ src[t] \in Envelope /\ env[t] \in Envelope
    BY DEF Inv, PlanInv, PlansKnown, KnowsPlan, SourcesKnown, KnowsSource, TypeOK, LocalsSet
  <2>2. Logical(src[t]) = env[t].hash /\ env[t].spells = env[t].hash
    BY DEF Inv, PlanInv, PlansKnown, KnowsPlan, SourcesKnown, KnowsSource, Reconstructs
  <2> QED
    BY <2>1, <2>2, EnvelopeAssumption DEF Logical
<1> QED
  BY <1>1, Invariance, PTL

\* Only Write and Rewrite store anything.
LEMMA StoresByWriting ==
    ASSUME TypeOK, Next, NEW t \in Tasks, Stores(t)
    PROVE  Write(t) \/ Rewrite(t)
<1>1. PICK u \in Tasks : Invoke(u) \/ Step(u) \/ EngineError(u) \/ Cancel(u)
  BY DEF Stores, Next, TaskNext, BackgroundFlush, Restart, taskVars
<1>2. u = t
  BY <1>1 DEF Stores, TypeOK, Step, Invoke, Acquire, Encode, Write, Ack, Flush, Get,
     LookUp, Reconstruct, Reconstructed, Read, Plan, Recheck, Rewrite, Return,
     EngineError, Cancel, AnswerUnlocking, Answer, Goto
<1> QED
  BY <1>1, <1>2 DEF Stores, TypeOK, Step, Invoke, Acquire, Encode, Ack, Flush, Get,
     LookUp, Reconstruct, Reconstructed, Read, Plan, Recheck, Return,
     EngineError, Cancel, AnswerUnlocking, Answer, Goto

\* A task that stores a plan has seen the planner reconstruct it.
LEMMA StoredReadBack ==
    ASSUME PlanInv, [Next]_vars
    PROVE  [\A t \in Tasks : Stores(t) =>
              LET e == mem'[Key(t)].env IN
              e # Absent => Reconstructs(runtime.registry, e)]_vars
<1> SUFFICES ASSUME Next, NEW t \in Tasks, Stores(t), mem'[Key(t)].env # Absent
             PROVE  Reconstructs(runtime.registry, mem'[Key(t)].env)
  OBVIOUS
<1>1. Write(t) \/ Rewrite(t)
  BY StoresByWriting DEF PlanInv
<1>2. CASE Write(t)
  <2>1. mem'[Key(t)].env = ToWrite(t)
    BY <1>2, KeyOfCall DEF Write, StorePut, PlanInv, TypeOK, StoreTypeOK
  <2>2. call[t].op = "putplan" => Reconstructs(runtime.registry, env[t])
    BY <1>2 DEF Write, PlanInv, PlansKnown, KnowsPlan
  <2>3. call[t].op \in {"put", "putplan", "delete"}
    BY <1>2 DEF Write, PlanInv, TypeOK, LocalsSet
  <2> QED
    BY <2>1, <2>2, <2>3 DEF ToWrite, Raw, Reconstructs
<1>3. CASE Rewrite(t)
  <2>1. mem'[Key(t)].env = env[t]
    BY <1>3, KeyOfCall DEF Rewrite, StorePut, PlanInv, TypeOK, StoreTypeOK
  <2> QED
    BY <1>3, <2>1 DEF Rewrite, PlanInv, PlansKnown, KnowsPlan
<1> QED
  BY <1>1, <1>2, <1>3

\* Every plan that is stored can be read back by the database that stores it.
THEOREM StoredPlansCorrect ==
    ASSUME HonestOrUncached PROVE Spec => StoredPlansReadBack
<1>1. Inv => PlanInv
  BY DEF Inv
<1>2. PlanInv /\ [Next]_vars =>
        [\A t \in Tasks : Stores(t) =>
           LET e == mem'[Key(t)].env IN
           e # Absent => Reconstructs(runtime.registry, e)]_vars
  BY StoredReadBack
<1> QED
  BY <1>1, <1>2, Invariance, PTL DEF Spec, StoredPlansReadBack

\* vacuum_meaning never leaves a worse plan, or an equal one, than it found.
THEOREM VacuumCorrect ==
    ASSUME HonestOrUncached PROVE Spec => VacuumImproves
<1>1. Inv /\ [Next]_vars =>
        [\A t \in Tasks : Stores(t) /\ call[t].op = "vacuum"
            => Improves(mem'[Key(t)].env, mem[Key(t)].env)]_vars
  <2> SUFFICES ASSUME Inv, Next, NEW t \in Tasks, Stores(t), call[t].op = "vacuum"
               PROVE  Improves(mem'[Key(t)].env, mem[Key(t)].env)
    OBVIOUS
  <2>1. Rewrite(t)
    BY StoresByWriting DEF Inv, PlanInv, TypeOK, LocalsSet, Write
  <2>2. mem'[Key(t)].env = env[t]
    BY <2>1, KeyOfCall DEF Rewrite, StorePut, Inv, PlanInv, TypeOK, StoreTypeOK
  <2> QED
    BY <2>1, <2>2 DEF Rewrite, Inv, PlanInv, PlansKnown, KnowsPlan, SourcesKnown, KnowsSource, StoreGet
<1> QED
  BY <1>1, Invariance, PTL DEF Spec, VacuumImproves

-----------------------------------------------------------------------------
(* The promise: calls *)

\* What a task can be doing at each await, beyond what TypeOK says of it.
CallFits(t) ==
    /\ pc[t] # "idle" =>
          /\ call[t].op \in {"put", "putplan"} <=> call[t].value \in Values
          /\ call[t].sync => call[t].op \in {"put", "putplan"}
    /\ pc[t] = "lock" => call[t].op # "get"
    /\ pc[t] \in {"read", "plan", "relock", "recheck", "rewrite"}
          => call[t].op \in RewriteOps
    /\ pc[t] \in {"lookup", "reconstruct"} => call[t].op \in RewriteOps \union {"get"}
    /\ pc[t] = "ack" => call[t].op # "get"
    /\ pc[t] = "flush" => call[t].sync

CallsFit == \A t \in Tasks : CallFits(t)

\* A call that starts fits, by what is assumed of Calls.
LEMMA InvokeFits ==
    ASSUME TypeOK, NEW t \in Tasks, Invoke(t) PROVE CallFits(t)'
<1>1. PICK c \in Calls :
         /\ call' = [call EXCEPT ![t] = c]
         /\ IF c.op = "get" THEN Goto(t, "get") ELSE Goto(t, "lock")
  BY DEF Invoke
<1>2. call'[t] = c
  BY <1>1 DEF TypeOK
<1>3. /\ c.op \in {"put", "putplan"} <=> c.value \in Values
      /\ c.sync => c.op \in {"put", "putplan"}
  BY PiLsmDbAssumption
<1>4. pc'[t] = IF c.op = "get" THEN "get" ELSE "lock"
  BY <1>1 DEF TypeOK, Goto
<1> QED
  BY <1>2, <1>3, <1>4 DEF CallFits

\* A call goes on fitting as its task moves on.
LEMMA StepFits ==
    ASSUME TypeOK, NEW t \in Tasks, CallFits(t), Step(t) \/ EngineError(t) \/ Cancel(t)
    PROVE  CallFits(t)'
<1>1. ASSUME Acquire(t) PROVE CallFits(t)'
  <2>1. /\ UNCHANGED call /\ pc[t] \in {"lock", "relock"}
        /\ pc'[t] = CASE pc[t] = "relock" -> "recheck"
                      [] call[t].op = "putplan" -> "encode"
                      [] call[t].op \in {"put", "delete"} -> "write"
                      [] OTHER -> "read"
    BY <1>1 DEF Acquire, Goto, TypeOK
  <2>2. call[t].op \in Ops
    BY <2>1, KeyOfCall DEF Call
  <2>3. CASE pc[t] = "relock"
    <3>1. pc'[t] = "recheck"
      BY <2>1, <2>3 DEF CallFits, RewriteOps
    <3> QED
      BY <2>1, <2>3, <3>1 DEF CallFits
  <2>4. CASE pc[t] = "lock" /\ call[t].op = "putplan"
    <3>1. pc'[t] = "encode"
      BY <2>1, <2>4
    <3> QED
      BY <2>1, <2>4, <3>1 DEF CallFits
  <2>5. CASE pc[t] = "lock" /\ call[t].op \in {"put", "delete"}
    <3>1. pc'[t] = "write"
      BY <2>1, <2>5
    <3> QED
      BY <2>1, <2>5, <3>1 DEF CallFits
  <2>6. CASE pc[t] = "lock" /\ call[t].op \notin {"putplan", "put", "delete"}
    <3>1. pc'[t] = "read"
      BY <2>1, <2>6
    <3> QED
      BY <2>1, <2>2, <2>6, <3>1 DEF CallFits, Ops, RewriteOps
  <2> QED
    BY <2>1, <2>3, <2>4, <2>5, <2>6
<1>2. ASSUME Read(t) PROVE CallFits(t)'
  <2>1. pc[t] = "read" /\ call[t] \in Call /\ call[t].op \in RewriteOps
    BY <1>2, KeyOfCall DEF Read, CallFits
  <2>2. CASE call' = [call EXCEPT ![t].op = "plan"] /\ Goto(t, "lock")
    <3>1. pc'[t] = "lock" /\ call'[t] = [call[t] EXCEPT !.op = "plan"]
      BY <2>1, <2>2 DEF TypeOK, Goto
    <3>2. /\ call'[t].op = "plan" /\ call'[t].value = call[t].value
          /\ call'[t].sync = call[t].sync
      BY <2>1, <3>1 DEF Call
    <3> QED
      BY <2>1, <3>1, <3>2 DEF CallFits, RewriteOps
  <2>3. CASE UNCHANGED call /\ (Goto(t, "reply") \/ Goto(t, "lookup") \/ Goto(t, "plan"))
    <3>1. pc'[t] \in {"reply", "lookup", "plan"}
      BY <2>3 DEF TypeOK, Goto
    <3> QED
      BY <2>1, <2>3, <3>1 DEF CallFits
  <2> QED
    BY <1>2, <2>2, <2>3 DEF Read, AnswerUnlocking, Answer
<1>3. ASSUME Cancel(t) \/ Return(t) PROVE CallFits(t)'
  <2>1. pc'[t] = "idle"
    BY <1>3 DEF Cancel, Return, Goto, TypeOK
  <2> QED
    BY <2>1 DEF CallFits
<1>4. ASSUME UNCHANGED call, pc[t] # "idle", pc'[t] \in {"write", "lookup", "reply"},
             pc'[t] = "lookup" => call[t].op = "get"
      PROVE  CallFits(t)'
  BY <1>4 DEF CallFits
<1>5. ASSUME Encode(t) \/ Get(t) \/ EngineError(t) PROVE CallFits(t)'
  <2>1. UNCHANGED call /\ pc[t] # "idle" /\ pc'[t] \in {"write", "lookup", "reply"}
    BY <1>5 DEF Encode, Get, EngineError, AnswerUnlocking, Answer, Goto, TypeOK
  <2>2. pc'[t] = "lookup" => call[t].op = "get"
    BY <1>5 DEF Encode, Get, EngineError, AnswerUnlocking, Answer, Goto, TypeOK, LocalsSet
  <2> QED
    BY <1>4, <2>1, <2>2
<1>6. ASSUME Write(t) \/ Rewrite(t) PROVE CallFits(t)'
  <2>1. /\ UNCHANGED call /\ pc'[t] = "ack" /\ pc[t] # "idle"
        /\ call[t].op # "get"
    BY <1>6 DEF Write, Rewrite, Goto, TypeOK, LocalsSet, CallFits, RewriteOps
  <2> QED
    BY <2>1 DEF CallFits
<1>7. ASSUME Ack(t) \/ Flush(t) PROVE CallFits(t)'
  <2>1. UNCHANGED call /\ pc[t] \in {"ack", "flush"}
    BY <1>7 DEF Ack, Flush
  <2>2. Goto(t, "reply") \/ (Goto(t, "flush") /\ call[t].sync)
    BY <1>7, Zenon DEF Ack, Flush, AnswerUnlocking, Answer
  <2>3. CASE Goto(t, "reply")
    BY <2>1, <2>3 DEF CallFits, Goto, TypeOK
  <2>4. CASE Goto(t, "flush") /\ call[t].sync
    <3>1. pc'[t] = "flush"
      BY <2>4 DEF Goto, TypeOK
    <3> QED
      BY <2>1, <2>4, <3>1 DEF CallFits
  <2> QED
    BY <2>2, <2>3, <2>4
<1>8. ASSUME LookUp(t) \/ Reconstruct(t) PROVE CallFits(t)'
  <2>1. /\ UNCHANGED call /\ pc[t] \in {"lookup", "reconstruct"}
        /\ \/ pc'[t] \in {"reply", "reconstruct"}
           \/ pc'[t] = "plan" /\ call[t].op # "get"
    BY <1>8 DEF LookUp, Reconstruct, Reconstructed, Answer, Goto, TypeOK
  <2> QED
    BY <2>1 DEF CallFits
<1>9. ASSUME Plan(t) \/ Recheck(t) PROVE CallFits(t)'
  <2>1. /\ UNCHANGED call /\ pc[t] \in {"plan", "recheck"}
        /\ pc'[t] \in {"reply", "relock", "rewrite"}
    BY <1>9 DEF Plan, Recheck, AnswerUnlocking, Answer, Goto, TypeOK
  <2> QED
    BY <2>1 DEF CallFits
<1> QED
  BY <1>1, <1>2, <1>3, <1>5, <1>6, <1>7, <1>8, <1>9 DEF Step

\* So do the calls of all tasks through every step.
LEMMA CallsFitStep == TypeOK /\ CallsFit /\ [Next]_vars => CallsFit'
<1> SUFFICES ASSUME TypeOK, CallsFit, [Next]_vars, NEW u \in Tasks PROVE CallFits(u)'
  BY DEF CallsFit
<1>1. CASE TaskNext
  <2>1. PICK t \in Tasks : Invoke(t) \/ Step(t) \/ EngineError(t) \/ Cancel(t)
    BY <1>1 DEF TaskNext
  <2>2. CASE u = t
    BY <2>1, <2>2, InvokeFits, StepFits DEF CallsFit
  <2>3. CASE u # t
    BY <2>1, <2>3, OthersKeep DEF CallsFit, CallFits
  <2> QED
    BY <2>2, <2>3
<1>2. CASE BackgroundFlush \/ UNCHANGED vars
  BY <1>2 DEF BackgroundFlush, vars, taskVars, CallsFit, CallFits
<1>3. CASE Restart
  BY <1>3 DEF Restart, CallFits
<1> QED
  BY <1>1, <1>2, <1>3 DEF Next

-----------------------------------------------------------------------------
(* Sessions *)

Sessions == [t \in Tasks |-> SessionOf(t)]

\* The session of a task in some phase of its call.
InPhase(t, phase, answer) ==
    [phase |-> phase, op |-> AbstractOp(call[t].op), key |-> Key(t),
     value |-> call[t].value, sync |-> call[t].sync, answer |-> answer]

IdleHere ==
    [phase |-> "idle", op |-> "rewrite", key |-> Absent, value |-> Absent,
     sync |-> FALSE, answer |-> "none"]

\* Where a call has not taken effect.
PendingAt(t) ==
    \/ pc[t] \in {"lock", "relock", "encode", "write", "get", "read", "plan",
                  "recheck", "rewrite"}
    \/ pc[t] \in ReadingPCs /\ call[t].op # "get"

\* What each place of a task maps to, before a step and after it.
LEMMA PendingSession ==
    ASSUME NEW t \in Tasks
    PROVE  /\ PendingAt(t) => SessionOf(t) = InPhase(t, "pending", "none")
           /\ PendingAt(t)' => SessionOf(t)' = InPhase(t, "pending", "none")'
BY DEF PendingAt, SessionOf, InPhase, Phase, AnswerOf, ReadingPCs

\* A write that is applied.
LEMMA WrittenSession ==
    ASSUME NEW t \in Tasks
    PROVE  /\ pc[t] \in {"ack", "flush"}
                => SessionOf(t) = InPhase(t, "applied", "none")
           /\ pc'[t] \in {"ack", "flush"}
                => SessionOf(t)' = InPhase(t, "applied", "none")'
BY DEF SessionOf, InPhase, Phase, AnswerOf, ReadingPCs

\* A get that has read a plan.
LEMMA ReadSession ==
    ASSUME NEW t \in Tasks
    PROVE  /\ pc[t] \in ReadingPCs /\ call[t].op = "get"
                => SessionOf(t) = InPhase(t, "applied", Logical(env[t]))
           /\ pc'[t] \in ReadingPCs /\ call'[t].op = "get"
                => SessionOf(t)' = InPhase(t, "applied", Logical(env[t]))'
BY DEF SessionOf, InPhase, Phase, AnswerOf, ReadingPCs

\* A call that has failed.
LEMMA FailedSession ==
    ASSUME NEW t \in Tasks
    PROVE  /\ pc[t] = "reply" /\ result[t] = "error"
                => SessionOf(t) = InPhase(t, "failed", "none")
           /\ pc'[t] = "reply" /\ result'[t] = "error"
                => SessionOf(t)' = InPhase(t, "failed", "none")'
BY DEF SessionOf, InPhase, Phase, AnswerOf, ReadingPCs

\* A get that has its answer.
LEMMA GotSession ==
    ASSUME NEW t \in Tasks
    PROVE  /\ pc[t] = "reply" /\ result[t] # "error" /\ call[t].op = "get"
              /\ call[t].sync = FALSE
                => SessionOf(t) = InPhase(t, "applied", result[t])
           /\ pc'[t] = "reply" /\ result'[t] # "error" /\ call'[t].op = "get"
              /\ call'[t].sync = FALSE
                => SessionOf(t)' = InPhase(t, "applied", result[t])'
BY DEF SessionOf, InPhase, Phase, AnswerOf, ReadingPCs

\* Any other call that has its answer.
LEMMA DoneSession ==
    ASSUME NEW t \in Tasks
    PROVE  /\ pc[t] = "reply" /\ result[t] # "error" /\ call[t].op # "get"
                => /\ call[t].sync = FALSE => SessionOf(t) = InPhase(t, "applied", "none")
                   /\ call[t].sync = TRUE => SessionOf(t) = InPhase(t, "synced", "none")
           /\ pc'[t] = "reply" /\ result'[t] # "error" /\ call'[t].op # "get"
                => /\ call'[t].sync = FALSE
                         => SessionOf(t)' = InPhase(t, "applied", "none")'
                   /\ call'[t].sync = TRUE
                         => SessionOf(t)' = InPhase(t, "synced", "none")'
BY DEF SessionOf, InPhase, Phase, AnswerOf, ReadingPCs

\* No call at all.
LEMMA NoSession ==
    ASSUME NEW t \in Tasks
    PROVE  /\ pc[t] = "idle" => SessionOf(t) = IdleHere
           /\ pc'[t] = "idle" => SessionOf(t)' = IdleHere'
BY DEF SessionOf, IdleHere

\* A step of a task moves its own session.
LEMMA OthersSession ==
    ASSUME TypeOK, NEW t \in Tasks, NEW u \in Tasks, u # t,
           Invoke(t) \/ Step(t) \/ EngineError(t) \/ Cancel(t)
    PROVE  SessionOf(u)' = SessionOf(u)
<1>1. pc'[u] = pc[u] /\ call'[u] = call[u] /\ env'[u] = env[u]
  BY OthersKeep
<1>2. result'[u] = result[u]
  BY DEF TypeOK, Step, Invoke, Acquire, Encode, Write, Ack, Flush, Get, LookUp,
     Reconstruct, Reconstructed, Read, Plan, Recheck, Rewrite, Return, EngineError,
     Cancel, AnswerUnlocking, Answer, Goto
<1> QED
  BY <1>1, <1>2 DEF SessionOf, Phase, AnswerOf, Key

\* The sessions after a step, then.
LEMMA OneSession ==
    ASSUME TypeOK, NEW t \in Tasks,
           Invoke(t) \/ Step(t) \/ EngineError(t) \/ Cancel(t)
    PROVE  Sessions' = [Sessions EXCEPT ![t] = SessionOf(t)']
BY OthersSession DEF Sessions

-----------------------------------------------------------------------------
(* Steps of the abstract store *)

Moves(t, phase, answer) ==
    Sessions' = [Sessions EXCEPT ![t] = InPhase(t, phase, answer)]
Kept == MeaningOf(mem)' = MeaningOf(mem) /\ MeaningOf(disk)' = MeaningOf(disk)

\* A step a caller sees nothing of.
LEMMA AbstractStutter ==
    ASSUME Kept, Sessions' = Sessions
    PROVE  UNCHANGED Promise!lvars
BY DEF Kept, Sessions, Promise!lvars

\* A session that moves to another phase of its call.
LEMMA NewPhase ==
    ASSUME NEW t \in Tasks, NEW old, NEW new, NEW answer,
           SessionOf(t) = InPhase(t, old, answer), Moves(t, new, answer)
    PROVE  Sessions' = [Sessions EXCEPT ![t].phase = new]
<1>1. [InPhase(t, old, answer) EXCEPT !.phase = new] = InPhase(t, new, answer)
  BY DEF InPhase
<1> QED
  BY <1>1 DEF Moves, Sessions

WithAnswer(t, phase, answer) ==
    [Sessions EXCEPT ![t].phase = phase, ![t].answer = answer]

\* A session that moves to another phase with another answer.
LEMMA NewAnswer ==
    ASSUME NEW t \in Tasks, NEW old, NEW new, NEW was, NEW answer,
           SessionOf(t) = InPhase(t, old, was), Moves(t, new, answer)
    PROVE  Sessions' = WithAnswer(t, new, answer)
<1>1. [[InPhase(t, old, was) EXCEPT !.phase = new] EXCEPT !.answer = answer]
         = InPhase(t, new, answer)
  <2>1. [InPhase(t, old, was) EXCEPT !.phase = new] = InPhase(t, new, was)
    BY DEF InPhase
  <2>2. [InPhase(t, new, was) EXCEPT !.answer = answer] = InPhase(t, new, answer)
    BY DEF InPhase
  <2> QED
    BY <2>1, <2>2
<1>2. WithAnswer(t, new, answer)
        = [Sessions EXCEPT ![t] = [[SessionOf(t) EXCEPT !.phase = new]
                                     EXCEPT !.answer = answer]]
  BY DEF Sessions, WithAnswer
<1> QED
  BY <1>1, <1>2 DEF Moves

\* A call fails.
LEMMA AbstractFail ==
    ASSUME NEW t \in Tasks, NEW answer, NEW phase \in {"pending", "applied"},
           SessionOf(t) = InPhase(t, phase, answer), Moves(t, "failed", "none"), Kept
    PROVE  Promise!Fail(t)
<1>1. Sessions[t] = InPhase(t, phase, answer)
  BY DEF Sessions
<1>2. Sessions' = WithAnswer(t, "failed", "none")
  BY NewAnswer, Zenon
<1> QED
  BY <1>1, <1>2 DEF WithAnswer, Kept, Sessions, InPhase, Promise!Fail, Promise!NoAnswer

\* A rewrite takes effect, which is none.
LEMMA AbstractRewrite ==
    ASSUME NEW t \in Tasks, call[t].op \in RewriteOps,
           SessionOf(t) = InPhase(t, "pending", "none"), Moves(t, "applied", "none"), Kept
    PROVE  Promise!Rewrite(t)
<1>1. Sessions[t] = InPhase(t, "pending", "none")
  BY DEF Sessions
<1>2. Sessions' = [Sessions EXCEPT ![t].phase = "applied"]
  BY NewPhase
<1>3. AbstractOp(call[t].op) = "rewrite"
  BY DEF AbstractOp, RewriteOps
<1> QED
  BY <1>1, <1>2, <1>3
  DEF Kept, Sessions, InPhase, Promise!Rewrite, Promise!Pending, Promise!Move

\* A get takes effect.
LEMMA AbstractGet ==
    ASSUME NEW t \in Tasks, call[t].op = "get", Key(t) \in Keys,
           SessionOf(t) = InPhase(t, "pending", "none"),
           Moves(t, "applied", Logical(mem[Key(t)].env)), Kept
    PROVE  Promise!Get(t)
<1> DEFINE found == Logical(mem[Key(t)].env)
<1>1. Sessions[t] = InPhase(t, "pending", "none")
  BY DEF Sessions
<1>2. Sessions' = WithAnswer(t, "applied", found)
  BY NewAnswer, Zenon
<1>3. AbstractOp(call[t].op) = "get"
  BY DEF AbstractOp, RewriteOps
<1>4. MeaningOf(mem)[Sessions[t].key] = found
  BY <1>1 DEF InPhase, MeaningOf
<1> QED
  BY <1>1, <1>2, <1>3, <1>4
  DEF WithAnswer, Kept, Sessions, InPhase, Promise!Get, Promise!Pending

\* A put takes effect.
LEMMA AbstractPut ==
    ASSUME NEW t \in Tasks, call[t].op \in {"put", "putplan"}, Key(t) \in Keys,
           SessionOf(t) = InPhase(t, "pending", "none"), Moves(t, "applied", "none"),
           MeaningOf(mem)' = [MeaningOf(mem) EXCEPT ![Key(t)] = call[t].value],
           MeaningOf(disk)' = MeaningOf(disk)
    PROVE  Promise!Put(t)
<1>1. Sessions[t] = InPhase(t, "pending", "none")
  BY DEF Sessions
<1>2. Sessions' = [Sessions EXCEPT ![t].phase = "applied"]
  BY NewPhase
<1>3. AbstractOp(call[t].op) = "put"
  BY DEF AbstractOp, RewriteOps
<1>4. /\ Sessions[t].phase = "pending" /\ Sessions[t].op = "put"
      /\ Sessions[t].key = Key(t) /\ Sessions[t].value = call[t].value
  BY <1>1, <1>3 DEF InPhase
<1> QED
  BY <1>2, <1>4
  DEF Sessions, Promise!Put, Promise!Pending, Promise!Move

\* A delete takes effect.
LEMMA AbstractDelete ==
    ASSUME NEW t \in Tasks, call[t].op = "delete", Key(t) \in Keys,
           SessionOf(t) = InPhase(t, "pending", "none"), Moves(t, "applied", "none"),
           MeaningOf(mem)' = [MeaningOf(mem) EXCEPT ![Key(t)] = Absent],
           MeaningOf(disk)' = MeaningOf(disk)
    PROVE  Promise!Delete(t)
<1>1. Sessions[t] = InPhase(t, "pending", "none")
  BY DEF Sessions
<1>2. Sessions' = [Sessions EXCEPT ![t].phase = "applied"]
  BY NewPhase
<1>3. AbstractOp(call[t].op) = "delete"
  BY DEF AbstractOp, RewriteOps
<1>4. /\ Sessions[t].phase = "pending" /\ Sessions[t].op = "delete"
      /\ Sessions[t].key = Key(t)
  BY <1>1, <1>3 DEF InPhase
<1> QED
  BY <1>2, <1>4
  DEF Sessions, Promise!Delete, Promise!Pending, Promise!Move

\* A put that asked for it is made durable.
LEMMA AbstractPersist ==
    ASSUME NEW t \in Tasks, call[t].sync,
           SessionOf(t) = InPhase(t, "applied", "none"), Moves(t, "synced", "none"),
           MeaningOf(mem)' = MeaningOf(mem), MeaningOf(disk)' = MeaningOf(mem)
    PROVE  Promise!Persist(t)
<1>1. Sessions[t] = InPhase(t, "applied", "none")
  BY DEF Sessions
<1>2. Sessions' = [Sessions EXCEPT ![t].phase = "synced"]
  BY NewPhase
<1>3. Sessions[t].phase = "applied" /\ (Sessions[t].sync <=> call[t].sync)
  BY <1>1 DEF InPhase
<1> QED
  BY <1>2, <1>3 DEF Sessions, Promise!Persist, Promise!Move

-----------------------------------------------------------------------------
(* Steps of the wrapper *)

TaskStep(t) == Invoke(t) \/ Step(t) \/ EngineError(t) \/ Cancel(t)
CallKept(t) ==
    /\ AbstractOp(call'[t].op) = AbstractOp(call[t].op) /\ Key(t)' = Key(t)
    /\ call'[t].value = call[t].value /\ call'[t].sync = call[t].sync

\* The call stays as it is while its phase changes.
LEMMA MovesTo ==
    ASSUME TypeOK, NEW t \in Tasks, TaskStep(t), CallKept(t), NEW phase, NEW answer,
           SessionOf(t)' = InPhase(t, phase, answer)'
    PROVE  Moves(t, phase, answer)
<1>1. InPhase(t, phase, answer)' = InPhase(t, phase, answer)
  BY DEF InPhase, CallKept
<1> QED
  BY <1>1, OneSession DEF TaskStep, Moves

\* Only puts are made durable before they are answered.
LEMMA NoSync ==
    ASSUME TypeOK, NEW t \in Tasks, CallFits(t), pc[t] # "idle",
           call[t].op \notin {"put", "putplan"}
    PROVE  call[t].sync = FALSE
<1>1. call[t].sync \in BOOLEAN
  BY KeyOfCall DEF Call
<1>2. ~call[t].sync
  BY Zenon DEF CallFits
<1> QED
  BY <1>1, <1>2, Zenon

\* A step of a task that stays pending is no step.
LEMMA StaysPending ==
    ASSUME TypeOK, NEW t \in Tasks, TaskStep(t), CallKept(t),
           PendingAt(t), PendingAt(t)', Kept
    PROVE  UNCHANGED Promise!lvars
<1>1. SessionOf(t) = InPhase(t, "pending", "none")
  BY PendingSession
<1>2. Moves(t, "pending", "none")
  BY PendingSession, MovesTo
<1>3. Sessions' = Sessions
  BY <1>1, <1>2 DEF Moves, Sessions
<1> QED
  BY <1>3, AbstractStutter

\* An error is a failure wherever it happens.
LEMMA ErrorFails ==
    ASSUME TypeOK, NEW t \in Tasks, TaskStep(t), call' = call, Answer(t, "error"),
           pc[t] \notin {"idle", "reply"}, Kept
    PROVE  Promise!Fail(t)
<1>1. pc'[t] = "reply" /\ result'[t] = "error"
  BY DEF Answer, Goto, TypeOK
<1>2. Moves(t, "failed", "none")
  <2>1. CallKept(t)
    BY DEF CallKept, Key
  <2> QED
    BY <1>1, <2>1, FailedSession, MovesTo
<1>3. \/ SessionOf(t) = InPhase(t, "pending", "none")
      \/ SessionOf(t) = InPhase(t, "applied", "none")
      \/ SessionOf(t) = InPhase(t, "applied", Logical(env[t]))
  <2>1. \/ PendingAt(t) \/ pc[t] \in {"ack", "flush"}
        \/ pc[t] \in ReadingPCs /\ call[t].op = "get"
    BY DEF TypeOK, PCs, PendingAt, ReadingPCs
  <2> QED
    BY <2>1, PendingSession, WrittenSession, ReadSession
<1> QED
  BY <1>2, <1>3, AbstractFail

\* A rewrite that leaves with its answer has changed nothing.
LEMMA RewriteDone ==
    ASSUME TypeOK, NEW t \in Tasks, CallFits(t), TaskStep(t), call' = call, NEW r,
           Answer(t, r), r # "error", PendingAt(t), call[t].op \in RewriteOps, Kept
    PROVE  Promise!Rewrite(t)
<1>1. pc'[t] = "reply" /\ result'[t] # "error" /\ call'[t].op # "get"
  BY DEF Answer, Goto, TypeOK, RewriteOps
<1>2. call'[t].sync = FALSE
  BY NoSync DEF PendingAt, RewriteOps, ReadingPCs
<1>3. CallKept(t)
  BY DEF CallKept, Key
<1>4. Moves(t, "applied", "none")
  BY <1>1, <1>2, <1>3, DoneSession, MovesTo
<1> QED
  BY <1>4, PendingSession, AbstractRewrite

\* A get that answers at once answers with what the key means.
LEMMA GetAnswers ==
    ASSUME TypeOK, NEW t \in Tasks, CallFits(t), TaskStep(t), call' = call,
           pc[t] = "get", Answer(t, Logical(mem[Key(t)].env)), Kept
    PROVE  Promise!Get(t) \/ Promise!Fail(t)
<1> DEFINE v == Logical(mem[Key(t)].env)
<1>1. call[t].op = "get" /\ Key(t) \in Keys
  BY KeyOfCall DEF TypeOK, LocalsSet
<1>2. CASE v = "error"
  BY <1>2, ErrorFails
<1>3. CASE v # "error"
  <2>1. pc'[t] = "reply" /\ result'[t] = v
    BY DEF Answer, Goto, TypeOK
  <2>2. call'[t].sync = FALSE
    BY <1>1, NoSync
  <2>3. CallKept(t)
    BY DEF CallKept, Key
  <2>4. SessionOf(t)' = InPhase(t, "applied", result[t])'
    BY <1>1, <1>3, <2>1, <2>2, GotSession
  <2>5. Moves(t, "applied", v)
    <3>1. Sessions' = [Sessions EXCEPT ![t] = InPhase(t, "applied", result[t])']
      BY <2>4, OneSession DEF TaskStep
    <3>2. InPhase(t, "applied", result[t])' = InPhase(t, "applied", v)
      BY <2>1, <2>3 DEF InPhase, CallKept
    <3> QED
      BY <3>1, <3>2 DEF Moves
  <2> QED
    BY <1>1, <2>5, PendingSession, AbstractGet DEF PendingAt
<1> QED
  BY <1>2, <1>3

-----------------------------------------------------------------------------
(* Every step of a task *)

PromiseStep == Promise!Next \/ UNCHANGED Promise!lvars

\* What a step starts from.
Refining == PlanInv /\ CallsFit /\ RewritesFindTheirSource

\* Most steps leave the store alone.
LEMMA StoreKept ==
    ASSUME UNCHANGED storeVars PROVE Kept
BY DEF storeVars, Kept, MeaningOf

\* The steps of the abstract store of one task.
LEMMA AbstractSteps ==
    ASSUME NEW t \in Tasks,
           \/ Promise!Request(t) \/ Promise!Put(t) \/ Promise!Delete(t)
           \/ Promise!Get(t) \/ Promise!Rewrite(t) \/ Promise!Persist(t)
           \/ Promise!Fail(t) \/ Promise!Answer(t) \/ Promise!Abandon(t)
           \/ UNCHANGED Promise!lvars
    PROVE  PromiseStep
BY DEF PromiseStep, Promise!Next

\* Invoke is a request.
LEMMA InvokeRefines ==
    ASSUME TypeOK, NEW t \in Tasks, Invoke(t) PROVE Promise!Request(t)
<1>1. PICK c \in Calls :
         /\ call' = [call EXCEPT ![t] = c]
         /\ Goto(t, "get") \/ Goto(t, "lock")
  BY DEF Invoke
<1>2. /\ c \in Call
      /\ c.op \in {"put", "putplan"} <=> c.value \in Values
      /\ c.sync => c.op \in {"put", "putplan"}
  BY <1>1, PiLsmDbAssumption
<1>3. PendingAt(t)' /\ call'[t] = c
  BY <1>1 DEF PendingAt, TypeOK, Goto
<1> DEFINE op == AbstractOp(c.op)
           asked == [phase |-> "pending", op |-> op, key |-> c.key, value |-> c.value,
                     sync |-> c.sync, answer |-> "none"]
<1>4. SessionOf(t)' = asked
  BY <1>3, PendingSession DEF InPhase, Key
<1>5. Sessions' = [Sessions EXCEPT ![t] = asked]
  BY <1>4, OneSession
<1>6. op \in {"put", "delete", "get", "rewrite"}
      /\ (op = "put" <=> c.op \in {"put", "putplan"})
  BY <1>2 DEF AbstractOp, Call, Ops, RewriteOps
<1>7. /\ c.key \in Keys /\ c.sync \in BOOLEAN
      /\ c.value \in (Values \union {Corrupt}) \union {Absent}
      /\ c.value \in Values \union {Corrupt} <=> c.value \in Values
  BY <1>2, EnvelopeAssumption DEF Call
<1>8. /\ op = "put" <=> c.value \in Values \union {Corrupt}
      /\ c.sync => op = "put"
  BY <1>2, <1>6, <1>7, Zenon
<1>9. Sessions[t].phase = "idle"
  BY NoSession DEF Sessions, Invoke, IdleHere
<1>10. Kept
  BY StoreKept DEF Invoke
<1> HIDE DEF op
<1>11. \E o \in {"put", "delete", "get", "rewrite"}, k \in Keys,
          v \in (Values \union {Corrupt}) \union {Absent}, s \in BOOLEAN :
          /\ o = "put" <=> v \in Values \union {Corrupt}
          /\ s => o = "put"
          /\ Sessions' = [Sessions EXCEPT ![t] =
                            [phase |-> "pending", op |-> o, key |-> k,
                             value |-> v, sync |-> s, answer |-> "none"]]
  BY <1>5, <1>6, <1>7, <1>8, Zenon
<1> QED
  BY <1>9, <1>10, <1>11, Zenon
  DEF Sessions, Kept, Promise!Request, Promise!Slots, Promise!NoAnswer

\* Taking the guard is nothing a caller sees.
LEMMA AcquireRefines ==
    ASSUME TypeOK, NEW t \in Tasks, Acquire(t) PROVE UNCHANGED Promise!lvars
<1>1. PendingAt(t)
  BY DEF Acquire, PendingAt
<1>2. pc'[t] \in {"recheck", "encode", "write", "read"}
  BY DEF Acquire, Goto, TypeOK
<1>3. PendingAt(t)'
  BY <1>2 DEF PendingAt
<1>4. CallKept(t) /\ Kept
  BY StoreKept DEF Acquire, CallKept, Key
<1> QED
  BY <1>1, <1>3, <1>4, StaysPending DEF TaskStep, Step

\* Nor is planning a put; if it fails, so does the put.
LEMMA EncodeRefines ==
    ASSUME TypeOK, NEW t \in Tasks, Encode(t)
    PROVE  UNCHANGED Promise!lvars \/ Promise!Fail(t)
<1>1. CallKept(t) /\ Kept /\ call' = call /\ pc[t] = "encode"
  BY StoreKept DEF Encode, CallKept, Key
<1>2. CASE Answer(t, "error")
  BY <1>1, <1>2, ErrorFails DEF TaskStep, Step
<1>3. CASE Goto(t, "write")
  <2>1. PendingAt(t) /\ PendingAt(t)'
    BY <1>1, <1>3 DEF PendingAt, Goto, TypeOK
  <2> QED
    BY <1>1, <2>1, StaysPending DEF TaskStep, Step
<1> QED
  BY <1>2, <1>3 DEF Encode, AnswerUnlocking

\* Writing is where a put and a delete take effect.
LEMMA WriteRefines ==
    ASSUME Refining, NEW t \in Tasks, Write(t)
    PROVE  Promise!Put(t) \/ Promise!Delete(t)
<1>1. /\ TypeOK /\ pc[t] = "write" /\ pc'[t] = "ack" /\ call' = call
      /\ Key(t) \in Keys /\ call[t].op \in {"put", "putplan", "delete"}
  BY KeyOfCall DEF Refining, PlanInv, Write, Goto, TypeOK, LocalsSet
<1>2. CallKept(t)
  BY <1>1 DEF CallKept, Key
<1>3. SessionOf(t) = InPhase(t, "pending", "none")
  BY <1>1, PendingSession DEF PendingAt
<1>4. Moves(t, "applied", "none")
  BY <1>1, <1>2, WrittenSession, MovesTo DEF TaskStep, Step
<1>5. /\ MeaningOf(mem)' = [MeaningOf(mem) EXCEPT ![Key(t)] = Logical(ToWrite(t))]
      /\ MeaningOf(disk)' = MeaningOf(disk)
  BY <1>1 DEF Write, StorePut, MeaningOf, TypeOK, StoreTypeOK
<1>6. CASE call[t].op = "delete"
  <2>1. Logical(ToWrite(t)) = Absent
    BY <1>6 DEF ToWrite, Logical
  <2> QED
    BY <1>1, <1>3, <1>4, <1>5, <1>6, <2>1, AbstractDelete
<1>7. CASE call[t].op = "put"
  <2>1. call[t].value \in Values
    BY <1>1, <1>7 DEF TypeOK, LocalsSet
  <2>2. Logical(Raw(call[t].value)) = call[t].value
    BY <2>1, RawIsEnvelope, EnvelopeAssumption DEF Raw, Logical
  <2>3. ToWrite(t) = Raw(call[t].value)
    BY <1>7 DEF ToWrite
  <2> QED
    BY <1>1, <1>3, <1>4, <1>5, <1>7, <2>2, <2>3, AbstractPut
<1>8. CASE call[t].op = "putplan"
  <2>1. /\ env[t] \in Envelope /\ env[t].hash = call[t].value
        /\ env[t].spells = env[t].hash
    BY <1>1, <1>8 DEF Refining, PlanInv, PlansKnown, KnowsPlan, Reconstructs
  <2>2. Logical(env[t]) = call[t].value
    BY <2>1, EnvelopeAssumption DEF Logical
  <2>3. ToWrite(t) = env[t]
    BY <1>8 DEF ToWrite
  <2> QED
    BY <1>1, <1>3, <1>4, <1>5, <1>8, <2>2, <2>3, AbstractPut
<1> QED
  BY <1>1, <1>6, <1>7, <1>8

\* Its answer was there from then on, unless it is to be made durable.
LEMMA AckRefines ==
    ASSUME Refining, NEW t \in Tasks, Ack(t) PROVE UNCHANGED Promise!lvars
<1>1. /\ TypeOK /\ CallFits(t) /\ pc[t] = "ack" /\ call' = call /\ Kept
      /\ call[t].op # "get"
  BY StoreKept DEF Refining, PlanInv, CallsFit, CallFits, Ack
<1>2. CallKept(t)
  BY <1>1 DEF CallKept, Key
<1>3. SessionOf(t) = InPhase(t, "applied", "none")
  BY <1>1, WrittenSession
<1>4. SessionOf(t)' = InPhase(t, "applied", "none")'
  <2>1. CASE Goto(t, "flush")
    <3>1. pc'[t] = "flush"
      BY <1>1, <2>1 DEF Goto, TypeOK
    <3> QED
      BY <3>1, WrittenSession
  <2>2. ASSUME NEW r \in {"Rewritten", "ok"}, Answer(t, r), call[t].sync = FALSE
        PROVE  SessionOf(t)' = InPhase(t, "applied", "none")'
    <3>1. pc'[t] = "reply" /\ result'[t] # "error"
      BY <1>1, <2>2 DEF Answer, Goto, TypeOK
    <3> QED
      BY <1>1, <2>2, <3>1, DoneSession
  <2>3. CASE call[t].op \in RewriteOps /\ Answer(t, "Rewritten")
    <3>1. call[t].sync = FALSE
      BY <1>1, <2>3, NoSync DEF RewriteOps
    <3> QED
      BY <2>2, <2>3, <3>1
  <2>4. CASE ~call[t].sync /\ Answer(t, "ok")
    <3>1. call[t].sync \in BOOLEAN
      BY <1>1, KeyOfCall DEF Call
    <3>2. call[t].sync = FALSE
      BY <2>4, <3>1, Zenon
    <3> QED
      BY <2>2, <2>4, <3>2
  <2>5. \/ call[t].op \in RewriteOps /\ Answer(t, "Rewritten")
        \/ ~call[t].sync /\ Answer(t, "ok")
        \/ Goto(t, "flush")
    BY Zenon DEF Ack, AnswerUnlocking
  <2> QED
    BY <2>1, <2>3, <2>4, <2>5
<1>5. Moves(t, "applied", "none")
  BY <1>1, <1>2, <1>4, MovesTo DEF TaskStep, Step
<1>6. Sessions' = Sessions
  BY <1>3, <1>5 DEF Moves, Sessions
<1> QED
  BY <1>1, <1>6, AbstractStutter

\* A put that asked for it is durable once it has been flushed.
LEMMA FlushRefines ==
    ASSUME Refining, NEW t \in Tasks, Flush(t) PROVE Promise!Persist(t)
<1>1. /\ TypeOK /\ CallFits(t) /\ pc[t] = "flush" /\ call' = call
      /\ StoreFlush /\ Answer(t, "ok")
  BY DEF Refining, PlanInv, CallsFit, Flush, AnswerUnlocking
<1>2. call[t].sync
  BY <1>1, Zenon DEF CallFits
<1>3. call[t].sync = TRUE
  <2>1. call[t].sync \in BOOLEAN
    BY <1>1, KeyOfCall DEF Call
  <2> QED
    BY <1>2, <2>1, Zenon
<1>4. call[t].op # "get"
  <2>1. call[t].op \in {"put", "putplan"}
    BY <1>1, <1>2, Zenon DEF CallFits
  <2> QED
    BY <2>1
<1>5. pc'[t] = "reply" /\ result'[t] # "error"
  BY <1>1 DEF Answer, Goto, TypeOK
<1>6. CallKept(t)
  BY <1>1 DEF CallKept, Key
<1>7. Moves(t, "synced", "none")
  BY <1>1, <1>3, <1>4, <1>5, <1>6, DoneSession, MovesTo DEF TaskStep, Step
<1>8. SessionOf(t) = InPhase(t, "applied", "none")
  BY <1>1, WrittenSession
<1>9. MeaningOf(mem)' = MeaningOf(mem) /\ MeaningOf(disk)' = MeaningOf(mem)
  BY <1>1 DEF StoreFlush, MeaningOf
<1> QED
  BY <1>2, <1>7, <1>8, <1>9, AbstractPersist

\* A get takes effect when it reads, although a plan is yet to be reconstructed.
LEMMA GetRefines ==
    ASSUME Refining, NEW t \in Tasks, Get(t)
    PROVE  Promise!Get(t) \/ Promise!Fail(t)
<1> DEFINE e == StoreGet(Key(t))
<1>1. /\ TypeOK /\ CallFits(t) /\ pc[t] = "get" /\ call' = call /\ Kept
      /\ call[t].op = "get" /\ Key(t) \in Keys /\ TaskStep(t)
  BY StoreKept, KeyOfCall
  DEF Refining, PlanInv, CallsFit, Get, TypeOK, LocalsSet, TaskStep, Step
<1>2. CASE e = Absent /\ Answer(t, Absent)
  <2>1. Logical(mem[Key(t)].env) = Absent
    BY <1>2 DEF StoreGet, Logical
  <2> QED
    BY <1>1, <1>2, <2>1, GetAnswers
<1>3. CASE Answer(t, "error")
  BY <1>1, <1>3, ErrorFails
<1>4. CASE e # Absent /\ Decodable(e) /\ e.kind = "raw" /\ Answer(t, e.spells)
  <2>1. Logical(mem[Key(t)].env) = e.spells
    BY <1>1, <1>4, RowRead DEF StoreGet
  <2> QED
    BY <1>1, <1>4, <2>1, GetAnswers
<1>5. CASE env' = [env EXCEPT ![t] = e] /\ Goto(t, "lookup")
  <2>1. pc'[t] = "lookup" /\ env'[t] = mem[Key(t)].env
    BY <1>1, <1>5 DEF Goto, TypeOK, StoreGet
  <2>2. SessionOf(t)' = InPhase(t, "applied", Logical(env[t]))'
    BY <1>1, <2>1, ReadSession DEF ReadingPCs
  <2>3. Sessions' = [Sessions EXCEPT ![t] = InPhase(t, "applied", Logical(env[t]))']
    BY <1>1, <2>2, OneSession DEF TaskStep
  <2>4. InPhase(t, "applied", Logical(env[t]))'
          = InPhase(t, "applied", Logical(mem[Key(t)].env))
    BY <1>1, <2>1 DEF InPhase, Key
  <2>5. Moves(t, "applied", Logical(mem[Key(t)].env))
    BY <2>3, <2>4 DEF Moves
  <2> QED
    BY <1>1, <2>5, PendingSession, AbstractGet DEF PendingAt
<1> QED
  BY <1>2, <1>3, <1>4, <1>5 DEF Get

\* The bytes a get has read are those it answers with, wherever it has them from.
LEMMA ReconstructedRefines ==
    ASSUME Refining, NEW t \in Tasks, LookUp(t) \/ Reconstruct(t), NEW v,
           v = Logical(env[t]), Reconstructed(t, v)
    PROVE  UNCHANGED Promise!lvars \/ Promise!Fail(t)
<1>1. /\ TypeOK /\ CallFits(t) /\ pc[t] \in ReadingPCs /\ call' = call /\ Kept
      /\ TaskStep(t)
  BY StoreKept
  DEF Refining, PlanInv, CallsFit, LookUp, Reconstruct, TaskStep, Step, ReadingPCs
<1>2. CallKept(t)
  BY <1>1 DEF CallKept, Key
<1>3. CASE call[t].op # "get"
  <2>1. PendingAt(t)
    BY <1>1, <1>3 DEF PendingAt
  <2>2. pc'[t] = "plan"
    BY <1>1, <1>3 DEF Reconstructed, Goto, TypeOK
  <2>3. PendingAt(t)'
    BY <2>2 DEF PendingAt
  <2> QED
    BY <1>1, <1>2, <2>1, <2>3, StaysPending
<1>4. CASE call[t].op = "get" /\ v = "error"
  BY <1>1, <1>4, ErrorFails DEF Reconstructed, ReadingPCs
<1>5. CASE call[t].op = "get" /\ v # "error"
  <2>1. pc'[t] = "reply" /\ result'[t] = v
    BY <1>1, <1>5 DEF Reconstructed, Answer, Goto, TypeOK
  <2>2. call'[t].sync = FALSE
    BY <1>1, <1>5, NoSync DEF ReadingPCs
  <2>3. SessionOf(t)' = InPhase(t, "applied", result[t])'
    BY <1>1, <1>5, <2>1, <2>2, GotSession
  <2>4. Sessions' = [Sessions EXCEPT ![t] = InPhase(t, "applied", result[t])']
    BY <1>1, <2>3, OneSession DEF TaskStep
  <2>5. InPhase(t, "applied", result[t])' = InPhase(t, "applied", v)
    BY <1>2, <2>1 DEF InPhase, CallKept
  <2>6. SessionOf(t) = InPhase(t, "applied", v)
    BY <1>1, <1>5, ReadSession
  <2>7. Sessions' = Sessions
    BY <2>4, <2>5, <2>6 DEF Sessions
  <2> QED
    BY <1>1, <2>7, AbstractStutter
<1> QED
  BY <1>3, <1>4, <1>5

\* Asking the cache: it answers for the hash of a plan, so the plan must be honest.
LEMMA LookUpRefines ==
    ASSUME Refining, NEW t \in Tasks, LookUp(t)
    PROVE  UNCHANGED Promise!lvars \/ Promise!Fail(t)
<1>1. /\ TypeOK /\ CallFits(t) /\ pc[t] = "lookup" /\ call' = call /\ Kept
      /\ TaskStep(t) /\ env[t] \in Envelope
  BY StoreKept
  DEF Refining, PlanInv, CallsFit, LookUp, TaskStep, Step, TypeOK, LocalsSet, ReadingPCs
<1>2. CASE Answer(t, "error")
  BY <1>1, <1>2, ErrorFails
<1>3. CASE env[t].hash \in cache /\ Reconstructed(t, env[t].hash)
  <2>1. env[t].spells = env[t].hash
    BY <1>1, <1>3 DEF Refining, PlanInv, CacheHarmless, Honest
  <2>2. Logical(env[t]) = env[t].hash
    BY <1>1, <2>1, EnvelopeAssumption DEF Logical
  <2> QED
    BY <1>3, <2>2, ReconstructedRefines
<1>4. CASE Goto(t, "reconstruct") /\ UNCHANGED <<result, logical, env>>
  <2>1. CallKept(t)
    BY <1>1 DEF CallKept, Key
  <2>2. pc'[t] = "reconstruct"
    BY <1>1, <1>4 DEF Goto, TypeOK
  <2>3. CASE call[t].op # "get"
    <3>1. PendingAt(t) /\ PendingAt(t)'
      BY <1>1, <2>2, <2>3 DEF PendingAt, ReadingPCs
    <3> QED
      BY <1>1, <2>1, <3>1, StaysPending
  <2>4. CASE call[t].op = "get"
    <3>1. SessionOf(t)' = InPhase(t, "applied", Logical(env[t]))'
      BY <1>1, <2>2, <2>4, ReadSession DEF ReadingPCs
    <3>2. SessionOf(t) = InPhase(t, "applied", Logical(env[t]))
      BY <1>1, <2>4, ReadSession DEF ReadingPCs
    <3>3. InPhase(t, "applied", Logical(env[t]))' = InPhase(t, "applied", Logical(env[t]))
      BY <1>1, <1>4 DEF InPhase, Key
    <3>4. Sessions' = Sessions
      BY <1>1, <3>1, <3>2, <3>3, OneSession DEF Sessions, TaskStep
    <3> QED
      BY <1>1, <3>4, AbstractStutter
  <2> QED
    BY <2>3, <2>4
<1> QED
  BY <1>2, <1>3, <1>4 DEF LookUp

\* Reading the streams, which gives what the plan spells or an error.
LEMMA ReconstructRefines ==
    ASSUME Refining, NEW t \in Tasks, Reconstruct(t)
    PROVE  UNCHANGED Promise!lvars \/ Promise!Fail(t)
<1>1. /\ TypeOK /\ pc[t] = "reconstruct" /\ call' = call /\ Kept
      /\ TaskStep(t) /\ env[t] \in Envelope
  BY StoreKept
  DEF Refining, PlanInv, Reconstruct, TaskStep, Step, TypeOK, LocalsSet, ReadingPCs
<1>2. CASE Answer(t, "error")
  BY <1>1, <1>2, ErrorFails
<1>3. CASE Reconstructs(runtime.registry, env[t]) /\ Reconstructed(t, env[t].spells)
  <2>1. Logical(env[t]) = env[t].spells
    BY <1>1, <1>3, EnvelopeAssumption DEF Logical, Reconstructs
  <2> QED
    BY <1>3, <2>1, ReconstructedRefines
<1> QED
  BY <1>2, <1>3 DEF Reconstruct

\* The first read of a rewrite: skips, fails or goes on.
LEMMA ReadRefines ==
    ASSUME Refining, NEW t \in Tasks, Read(t)
    PROVE  UNCHANGED Promise!lvars \/ Promise!Fail(t) \/ Promise!Rewrite(t)
<1>1. /\ TypeOK /\ CallFits(t) /\ pc[t] = "read" /\ Kept /\ TaskStep(t)
      /\ call[t].op \in RewriteOps /\ call[t] \in Call /\ PendingAt(t)
  BY StoreKept, KeyOfCall
  DEF Refining, PlanInv, CallsFit, CallFits, Read, TaskStep, Step, PendingAt
<1>2. CASE call' = call /\ Answer(t, "error")
  BY <1>1, <1>2, ErrorFails
<1>3. ASSUME call' = call, NEW r \in {"SkippedMissingKey", "KeptAlreadyPlanned"},
             Answer(t, r)
      PROVE  Promise!Rewrite(t)
  BY <1>1, <1>3, RewriteDone
<1>4. CASE call' = call /\ (Goto(t, "lookup") \/ Goto(t, "plan"))
  <2>1. pc'[t] \in {"lookup", "plan"} /\ call'[t].op # "get"
    BY <1>1, <1>4 DEF Goto, TypeOK, RewriteOps
  <2>2. PendingAt(t)'
    BY <2>1 DEF PendingAt, ReadingPCs
  <2>3. CallKept(t)
    BY <1>4 DEF CallKept, Key
  <2> QED
    BY <1>1, <2>2, <2>3, StaysPending
<1>5. CASE call' = [call EXCEPT ![t].op = "plan"] /\ Goto(t, "lock")
  <2>1. pc'[t] = "lock" /\ call'[t] = [call[t] EXCEPT !.op = "plan"]
    BY <1>1, <1>5 DEF Goto, TypeOK
  <2>2. CallKept(t)
    <3>1. /\ call'[t].op = "plan" /\ call'[t].key = call[t].key
          /\ call'[t].value = call[t].value /\ call'[t].sync = call[t].sync
      BY <1>1, <2>1 DEF Call
    <3>2. AbstractOp("plan") = "rewrite" /\ AbstractOp(call[t].op) = "rewrite"
      BY <1>1 DEF AbstractOp, RewriteOps
    <3> QED
      BY <3>1, <3>2 DEF CallKept, Key
  <2>3. PendingAt(t)'
    BY <2>1 DEF PendingAt
  <2> QED
    BY <1>1, <2>2, <2>3, StaysPending
<1> QED
  BY <1>2, <1>3, <1>4, <1>5 DEF Read, AnswerUnlocking

\* Planning and the second read: skip, fail or go on.
LEMMA PlanRefines ==
    ASSUME Refining, NEW t \in Tasks, Plan(t) \/ Recheck(t)
    PROVE  UNCHANGED Promise!lvars \/ Promise!Fail(t) \/ Promise!Rewrite(t)
<1>1. /\ TypeOK /\ CallFits(t) /\ pc[t] \in {"plan", "recheck"} /\ Kept /\ TaskStep(t)
      /\ call[t].op \in RewriteOps /\ call' = call /\ PendingAt(t)
  BY StoreKept
  DEF Refining, PlanInv, CallsFit, CallFits, Plan, Recheck, TaskStep, Step, PendingAt
<1>2. CASE Answer(t, "error")
  BY <1>1, <1>2, ErrorFails
<1>3. ASSUME NEW r \in {"SkippedPlanningFailed", "SkippedNotImproved",
                        "SkippedMissingKey", "SkippedStaleSource"}, Answer(t, r)
      PROVE  Promise!Rewrite(t)
  BY <1>1, <1>3, RewriteDone
<1>4. CASE Goto(t, "relock") \/ Goto(t, "rewrite")
  <2>1. pc'[t] \in {"relock", "rewrite"}
    BY <1>1, <1>4 DEF Goto, TypeOK
  <2>2. PendingAt(t)' /\ CallKept(t)
    BY <1>1, <2>1 DEF PendingAt, CallKept, Key
  <2> QED
    BY <1>1, <2>2, StaysPending
<1> QED
  BY <1>2, <1>3, <1>4 DEF Plan, Recheck, AnswerUnlocking

\* The write of a rewrite, over a source that spells the same bytes.
LEMMA RewriteRefines ==
    ASSUME Refining, NEW t \in Tasks, Rewrite(t) PROVE Promise!Rewrite(t)
<1>1. /\ TypeOK /\ CallFits(t) /\ pc[t] = "rewrite" /\ TaskStep(t) /\ pc'[t] = "ack"
      /\ call[t].op \in RewriteOps /\ call' = call /\ Key(t) \in Keys
  BY KeyOfCall
  DEF Refining, PlanInv, CallsFit, CallFits, Rewrite, TaskStep, Step, TypeOK, Goto
<1>2. Logical(mem[Key(t)].env) = Logical(env[t])
  BY <1>1 DEF Refining, RewritesFindTheirSource, StoreGet
<1>3. Kept
  BY <1>1, <1>2 DEF Rewrite, StorePut, Kept, MeaningOf, TypeOK, StoreTypeOK
<1>4. CallKept(t)
  BY <1>1 DEF CallKept, Key
<1>5. Moves(t, "applied", "none")
  BY <1>1, <1>4, WrittenSession, MovesTo
<1>6. SessionOf(t) = InPhase(t, "pending", "none")
  BY <1>1, PendingSession DEF PendingAt
<1> QED
  BY <1>1, <1>3, <1>5, <1>6, AbstractRewrite

\* The answer is handed to the caller.
LEMMA ReturnRefines ==
    ASSUME Refining, NEW t \in Tasks, Return(t) PROVE Promise!Answer(t)
<1>1. /\ TypeOK /\ CallFits(t) /\ pc[t] = "reply" /\ pc'[t] = "idle" /\ Kept
      /\ TaskStep(t) /\ call[t].sync \in BOOLEAN
  BY StoreKept, KeyOfCall
  DEF Refining, PlanInv, CallsFit, Return, TaskStep, Step, TypeOK, Goto, Call
<1>2. Sessions' = [Sessions EXCEPT ![t] = IdleHere]
  <2>1. SessionOf(t)' = IdleHere
    BY <1>1, NoSession DEF IdleHere
  <2> QED
    BY <1>1, <2>1, OneSession DEF TaskStep
<1>3. \/ Sessions[t].phase = "applied" /\ Sessions[t].sync = FALSE
      \/ Sessions[t].phase \in {"synced", "failed"}
  <2>1. CASE result[t] = "error"
    BY <1>1, <2>1, FailedSession DEF Sessions, InPhase
  <2>2. CASE result[t] # "error" /\ call[t].op = "get"
    <3>1. call[t].sync = FALSE
      BY <1>1, <2>2, NoSync
    <3>2. SessionOf(t) = InPhase(t, "applied", result[t])
      BY <1>1, <2>2, <3>1, GotSession
    <3> QED
      BY <3>1, <3>2 DEF Sessions, InPhase
  <2>3. CASE result[t] # "error" /\ call[t].op # "get"
    <3>1. CASE call[t].sync = FALSE
      <4>1. SessionOf(t) = InPhase(t, "applied", "none")
        BY <1>1, <2>3, <3>1, DoneSession
      <4> QED
        BY <3>1, <4>1 DEF Sessions, InPhase
    <3>2. CASE call[t].sync = TRUE
      <4>1. SessionOf(t) = InPhase(t, "synced", "none")
        BY <1>1, <2>3, <3>2, DoneSession
      <4> QED
        BY <4>1 DEF Sessions, InPhase
    <3> QED
      BY <1>1, <3>1, <3>2
  <2> QED
    BY <2>1, <2>2, <2>3
<1>4. \/ Sessions[t].phase = "applied" /\ ~Sessions[t].sync
      \/ Sessions[t].phase \in {"synced", "failed"}
  BY <1>3, Zenon
<1> QED
  BY <1>1, <1>2, <1>4, Zenon
  DEF Kept, Sessions, IdleHere, Promise!Answer, Promise!IdleSession, Promise!NoAnswer

\* A call that is dropped ends wherever it is.
LEMMA CancelRefines ==
    ASSUME Refining, NEW t \in Tasks, Cancel(t) PROVE Promise!Abandon(t)
<1>1. /\ TypeOK /\ pc[t] # "idle" /\ pc'[t] = "idle" /\ Kept /\ TaskStep(t)
  BY StoreKept DEF Refining, PlanInv, Cancel, TaskStep, Step, TypeOK, Goto
<1>2. Sessions' = [Sessions EXCEPT ![t] = IdleHere]
  <2>1. SessionOf(t)' = IdleHere
    BY <1>1, NoSession DEF IdleHere
  <2> QED
    BY <1>1, <2>1, OneSession DEF TaskStep
<1>3. Sessions[t].phase # "idle"
  BY <1>1 DEF Sessions, SessionOf, Phase
<1> QED
  BY <1>1, <1>2, <1>3
  DEF Kept, Sessions, IdleHere, Promise!Abandon, Promise!IdleSession, Promise!NoAnswer

\* Whatever a task does is a step of the abstract store, or none.
LEMMA TaskRefines ==
    ASSUME Refining, NEW t \in Tasks, TaskStep(t) PROVE PromiseStep
<1>1. TypeOK
  BY DEF Refining, PlanInv
<1>2. CASE EngineError(t)
  <2>1. /\ call' = call /\ Answer(t, "error") /\ Kept
        /\ pc[t] \notin {"idle", "reply"}
    BY <1>2, StoreKept DEF EngineError, AnswerUnlocking
  <2>2. Promise!Fail(t)
    BY <1>1, <2>1, ErrorFails
  <2> QED
    BY <2>2, AbstractSteps
<1>3. CASE Invoke(t)
  BY <1>1, <1>3, InvokeRefines, AbstractSteps
<1>4. CASE Acquire(t) \/ Encode(t)
  BY <1>1, <1>4, AcquireRefines, EncodeRefines, AbstractSteps
<1>5. CASE Write(t) \/ Ack(t) \/ Flush(t)
  BY <1>5, WriteRefines, AckRefines, FlushRefines, AbstractSteps
<1>6. CASE Get(t) \/ LookUp(t) \/ Reconstruct(t)
  BY <1>6, GetRefines, LookUpRefines, ReconstructRefines, AbstractSteps
<1>7. CASE Read(t) \/ Plan(t) \/ Recheck(t) \/ Rewrite(t)
  BY <1>7, ReadRefines, PlanRefines, RewriteRefines, AbstractSteps
<1>8. CASE Return(t) \/ Cancel(t)
  BY <1>8, ReturnRefines, CancelRefines, AbstractSteps
<1> QED
  BY <1>2, <1>3, <1>4, <1>5, <1>6, <1>7, <1>8 DEF TaskStep, Step

-----------------------------------------------------------------------------
(* The refinement *)

\* A database that opens is a store of the bytes its rows spell.
LEMMA InitRefines ==
    ASSUME Init PROVE Promise!Init
<1>1. \A k \in Keys : mem[k].env \in Row
  BY ExistingAssumption DEF Init, StoreInit
<1>2. \A e \in Row : Logical(e) \in (Values \union {Corrupt}) \union {Absent}
  BY DEF Row, Envelope, Logical
<1>3. MeaningOf(mem) \in [Keys -> (Values \union {Corrupt}) \union {Absent}]
  BY <1>1, <1>2 DEF MeaningOf
<1>4. MeaningOf(disk) = MeaningOf(mem)
  BY DEF Init, StoreInit
<1>5. \A t \in Tasks : SessionOf(t) = IdleHere
  BY NoSession DEF Init
<1> QED
  BY <1>3, <1>4, <1>5
  DEF IdleHere, Promise!Init, Promise!Slots, Promise!IdleSession, Promise!NoAnswer

\* A flush makes the store durable, and a crash falls back to what is.
LEMMA NextRefines ==
    ASSUME Refining, [Next]_vars PROVE PromiseStep
<1>1. CASE TaskNext
  BY <1>1, TaskRefines DEF TaskNext, TaskStep
<1>2. CASE BackgroundFlush
  <2>1. MeaningOf(mem)' = MeaningOf(mem) /\ MeaningOf(disk)' = MeaningOf(mem)
    BY <1>2 DEF BackgroundFlush, StoreFlush, MeaningOf
  <2>2. Sessions' = Sessions
    BY <1>2 DEF BackgroundFlush, taskVars, Sessions, SessionOf, Phase, AnswerOf, Key
  <2>3. Promise!Sync
    BY <2>1, <2>2 DEF Sessions, Promise!Sync
  <2> QED
    BY <2>3 DEF PromiseStep, Promise!Next
<1>3. CASE Restart
  <2>1. MeaningOf(mem)' = MeaningOf(disk) /\ MeaningOf(disk)' = MeaningOf(disk)
    BY <1>3 DEF Restart, StoreCrash, MeaningOf
  <2>2. Sessions' = [t \in Tasks |-> IdleHere]
    <3>1. \A t \in Tasks : SessionOf(t)' = IdleHere
      BY <1>3, NoSession DEF Restart, IdleHere
    <3> QED
      BY <3>1 DEF Sessions
  <2>3. Promise!Crash
    BY <2>1, <2>2 DEF Sessions, IdleHere, Promise!Crash, Promise!IdleSession,
       Promise!NoAnswer
  <2> QED
    BY <2>3 DEF PromiseStep, Promise!Next
<1>4. CASE UNCHANGED vars
  <2>1. Sessions' = Sessions
    BY <1>4 DEF vars, taskVars, Sessions, SessionOf, Phase, AnswerOf, Key
  <2>2. Kept
    BY <1>4, StoreKept DEF vars
  <2> QED
    BY <2>1, <2>2, AbstractStutter DEF PromiseStep
<1> QED
  BY <1>1, <1>2, <1>3, <1>4 DEF Next

\* The wrapper keeps the promise: puts, deletes and gets are those of a store of
\* logical byte strings, rewrites are nothing, a failed call has happened or has
\* not, and a durable put survives a crash.
THEOREM PromiseKept ==
    ASSUME HonestOrUncached PROVE Spec => KeepsPromise
<1>1. Init => CallsFit
  BY DEF Init, CallsFit, CallFits
<1>2. Spec => []CallsFit
  BY <1>1, CallsFitStep, TypeCorrect, PTL DEF Spec
<1>3. Inv => PlanInv
  BY DEF Inv
<1>4. PlanInv /\ CallsFit /\ RewritesFindTheirSource /\ [Next]_vars
        => [Promise!Next]_(Promise!lvars)
  BY NextRefines DEF Refining, PromiseStep
<1>5. Init => Promise!Init
  BY InitRefines
<1> QED
  BY <1>2, <1>3, <1>4, <1>5, Invariance, RewritesCorrect, PTL
  DEF Spec, KeepsPromise, Promise!Spec
=============================================================================
