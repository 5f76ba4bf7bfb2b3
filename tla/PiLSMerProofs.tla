---------------------------- MODULE PiLSMerProofs ----------------------------
(***************************************************************************)
(* Proofs about PiLSMer and CommandLine: what is true of the wrapper alone *)
(* and of the filter alone stays true of the two over one engine, for any  *)
(* tasks, keys, calls, compactors and jobs, and under any commands; what   *)
(* commands answer, report and migrate is so.                              *)
(***************************************************************************)
EXTENDS CommandLine, PiLsmDbProofs, CompactionFilterProofs

\* A job can replace the source of a rewrite after it has been checked, but not
\* by anything that means something else.
SourcesMean ==
    \A t \in Tasks :
        pc[t] = "rewrite" => Logical(StoreGet(Key(t))) = Logical(src[t])

SystemInv == PlanInv /\ FilterInv /\ SourcesMean

\* What the wrapper does is what the filter expects to go on meanwhile.
LEMMA WrapperMoves ==
    ASSUME TypeOK, [Next]_vars
    PROVE  StoreMoves
<1>1. ASSUME NEW t \in Tasks, Write(t) PROVE StoreMoves
  <2>1. Key(t) \in Keys
    BY <1>1, KeyOfCall DEF Write
  <2>2. ToWrite(t) \in Row
    BY <1>1, RawIsRow DEF ToWrite, Write, TypeOK, LocalsSet, Row
  <2> QED
    BY <1>1, <2>1, <2>2 DEF Write, StoreMoves
<1>2. ASSUME NEW t \in Tasks, Rewrite(t) PROVE StoreMoves
  <2>1. Key(t) \in Keys
    BY <1>2, KeyOfCall DEF Rewrite
  <2>2. env[t] \in Row
    BY <1>2 DEF Rewrite, TypeOK, LocalsSet, Row
  <2> QED
    BY <1>2, <2>1, <2>2 DEF Rewrite, StoreMoves
<1>3. CASE StoreFlush \/ StoreCrash \/ UNCHANGED storeVars
  BY <1>3 DEF StoreMoves
<1> QED
  BY <1>1, <1>2, <1>3
  DEF Next, TaskNext, Step, vars, Invoke, Acquire, Encode, Ack, Flush, Get, LookUp,
      Reconstruct, Read, Plan, Recheck, Return, EngineError, Cancel, BackgroundFlush,
      Restart

\* A step of the wrapper leaves the job alone, and what it knows stays true.
LEMMA FilterInvByWrapper ==
    ASSUME TypeOK, TypeOK', FilterInv, [Next]_vars, UNCHANGED filterVars
    PROVE  FilterInv'
<1>1. TypesOK'
  BY DEF TypeOK, FilterInv, TypesOK, FilterTypeOK, filterVars
<1> QED
  BY <1>1, WrapperMoves, InvStoreMoves DEF FilterInv

\* What a job leaves spells what its hash says, if what it has read does.
LEMMA CompactedHonest ==
    ASSUME FilterInv, CommitJob, NEW k \in Keys, NEW v \in {mem[k], disk[k]},
           Honest(v.env)
    PROVE  Honest(Compacted(v, k).env)
<1>1. CASE Compacted(v, k) = v
  BY <1>1
<1>2. CASE v.seq = job.rows[k].seq /\ Compacted(v, k) = job.out[k]
  <2>1. v.env = job.rows[k].env
    BY <1>2 DEF FilterInv, RowsAsRead, CommitJob
  <2>2. Filtered(k, job.out[k].env)
    BY DEF FilterInv, OutReplaces, CommitJob
  <2> QED
    BY <1>2, <2>1, <2>2 DEF Filtered, Replaces, Reconstructs, Honest
<1> QED
  BY <1>1, <1>2 DEF Compacted

\* A step of the filter leaves every task as it was.
LEMMA TypesByFilter ==
    ASSUME TypeOK, FilterInv', Compaction
    PROVE  TypeOK'
<1>1. StoreTypeOK'
  BY DEF FilterInv, TypesOK
<1> QED
  BY <1>1 DEF TypeOK, LocalsSet, Compaction, taskVars, lockVars, Locals, Call

\* It leaves rows as honest.
LEMMA PlanInvByFilter ==
    ASSUME PlanInv, FilterInv, FilterInv', Compaction
    PROVE  PlanInv'
<1>2. TypeOK'
  BY TypesByFilter DEF PlanInv
<1>3. GuardsHeld'
  BY DEF PlanInv, GuardsHeld, Guarded, Key, Compaction, taskVars, lockVars
<1>4. CacheHarmless'
  <2>1. CASE cache = {} /\ CacheBytes = 0
    BY <2>1 DEF Compaction, CacheHarmless
  <2>2. CASE /\ \A k \in Keys : Honest(mem[k].env) /\ Honest(disk[k].env)
             /\ \A t \in Tasks : Honest(env[t])
    <3>1. \A t \in Tasks : Honest(env'[t])
      BY <2>2 DEF Compaction, taskVars
    <3>2. ASSUME CommitJob, NEW k \in Keys
          PROVE  Honest(mem'[k].env) /\ Honest(disk'[k].env)
      BY <2>2, <3>2, CompactedHonest DEF CommitJob
    <3>3. CASE UNCHANGED storeVars
      BY <2>2, <3>1, <3>3 DEF storeVars, CacheHarmless
    <3> QED
      BY <3>1, <3>2, <3>3
      DEF Compaction, FilterNext, RunCompactor, StartJob, FilterRow, AbortJob,
          CacheHarmless
  <2> QED
    BY <2>1, <2>2 DEF PlanInv, CacheHarmless
<1>5. PlansKnown'
  BY DEF PlanInv, PlansKnown, KnowsPlan, Compaction, taskVars
<1> QED
  BY <1>2, <1>3, <1>4, <1>5 DEF PlanInv

\* Between the second read of a rewrite and its write the row keeps its meaning.
LEMMA SourcesMeanStep ==
    ASSUME SystemInv, [SystemNext]_allVars
    PROVE  SourcesMean'
<1>1. CASE [Next]_vars
  BY <1>1, SourceStep DEF SystemInv, PlanInv, SourcesMean
<1>2. CASE Compaction
  <2> SUFFICES ASSUME NEW t \in Tasks, pc'[t] = "rewrite"
               PROVE  Logical(StoreGet(Key(t)))' = Logical(src'[t])
    BY DEF SourcesMean
  <2>1. pc[t] = "rewrite" /\ src' = src /\ call' = call
    BY <1>2 DEF Compaction, taskVars
  <2>2. Key(t) \in Keys
    BY <2>1, KeyOfCall DEF SystemInv, PlanInv
  <2>3. Logical(mem'[Key(t)].env) = Logical(mem[Key(t)].env)
    BY <1>2, <2>2, FilterKeepsMeaning DEF SystemInv, Compaction
  <2> QED
    BY <2>1, <2>3 DEF SystemInv, SourcesMean, StoreGet, Key
<1> QED
  BY <1>1, <1>2 DEF SystemNext, allVars

SystemTypes == TypeOK /\ FilterInv

\* The types of the whole, whatever rows were left by earlier sessions.
LEMMA SystemTyped == SystemSpec => []SystemTypes
<1>1. SystemInit => SystemTypes
  BY TypeInit, InvInit DEF SystemInit, SystemTypes, Init, FilterStart
<1>2. SystemTypes /\ [SystemNext]_allVars => SystemTypes'
  <2>1. ASSUME SystemTypes, [Next]_vars, UNCHANGED filterVars PROVE SystemTypes'
    BY <2>1, TypeStep, FilterInvByWrapper DEF SystemTypes
  <2>2. ASSUME SystemTypes, Compaction PROVE SystemTypes'
    BY <2>2, InvStep, TypesByFilter DEF SystemTypes, Compaction
  <2> QED
    BY <2>1, <2>2 DEF SystemNext, allVars
<1> QED
  BY <1>1, <1>2, PTL DEF SystemSpec

\* The inductive invariant of the whole.
LEMMA SystemInvariance ==
    ASSUME HonestOrUncached PROVE SystemSpec => []SystemInv
<1>1. SystemInit => SystemInv
  BY PlanInvInit, InvInit DEF SystemInit, SystemInv, SourcesMean, Init, FilterStart
<1>2. SystemInv /\ [SystemNext]_allVars => SystemInv'
  <2> SUFFICES ASSUME SystemInv, [SystemNext]_allVars PROVE PlanInv' /\ FilterInv'
    BY SourcesMeanStep DEF SystemInv
  <2>1. CASE [Next]_vars /\ UNCHANGED filterVars
    <3>1. PlanInv'
      BY <2>1, PlanInvStep DEF SystemInv
    <3> QED
      BY <2>1, <3>1, FilterInvByWrapper DEF SystemInv, PlanInv
  <2>2. CASE Compaction
    <3>1. FilterInv'
      BY <2>2, InvStep DEF SystemInv, Compaction
    <3> QED
      BY <2>2, <3>1, PlanInvByFilter DEF SystemInv
  <2> QED
    BY <2>1, <2>2 DEF SystemNext, allVars
<1> QED
  BY <1>1, <1>2, PTL DEF SystemSpec

-----------------------------------------------------------------------------

\* No rewrite undoes a put or a delete, with jobs committing anywhere in it.
THEOREM SystemRewritesCorrect ==
    ASSUME HonestOrUncached PROVE SystemSpec => []RewritesFindTheirSource
<1>1. SystemInv => RewritesFindTheirSource
  <2> SUFFICES ASSUME SystemInv, NEW t \in Tasks, pc[t] = "rewrite"
               PROVE  /\ StoreGet(Key(t)) # Absent
                      /\ Logical(StoreGet(Key(t))) = Logical(env[t])
    BY DEF RewritesFindTheirSource
  <2>1. src[t] \in Envelope /\ env[t] \in Envelope /\ logical[t] \in Values
    BY DEF SystemInv, PlanInv, TypeOK, LocalsSet, PlanningPCs, PlannedPCs
  <2>2. /\ Logical(StoreGet(Key(t))) = logical[t]
        /\ env[t].hash = logical[t] /\ env[t].spells = env[t].hash
    BY DEF SystemInv, PlanInv, PlansKnown, KnowsPlan, SourcesMean, Reconstructs,
           PlanningPCs, PlannedPCs
  <2>3. StoreGet(Key(t)) # Absent
    BY <2>1, <2>2, EnvelopeAssumption DEF Logical
  <2> QED
    BY <2>1, <2>2, <2>3, EnvelopeAssumption DEF Logical
<1> QED
  BY <1>1, SystemInvariance, PTL

\* Jobs change what no key means, with any calls of the wrapper going on.
THEOREM SystemJobsCorrect ==
    ASSUME HonestOrUncached PROVE SystemSpec => JobsKeepMeaning
<1>1. SystemInv /\ [SystemNext]_allVars
        => [FilterNext => \A k \in Keys :
              /\ Logical(mem'[k].env) = Logical(mem[k].env)
              /\ Logical(disk'[k].env) = Logical(disk[k].env)]_<<storeVars, filterVars>>
  BY FilterKeepsMeaning DEF SystemInv
<1> QED
  BY <1>1, SystemInvariance, PTL DEF SystemSpec, JobsKeepMeaning

\* A job does nothing that a caller of the wrapper could see.
LEMMA CompactionHidden ==
    ASSUME SystemInv, Compaction PROVE UNCHANGED Promise!lvars
<1>1. \A k \in Keys : /\ Logical(mem'[k].env) = Logical(mem[k].env)
                      /\ Logical(disk'[k].env) = Logical(disk[k].env)
  BY FilterKeepsMeaning DEF SystemInv, Compaction
<1>2. Kept
  BY <1>1 DEF Kept, MeaningOf
<1>3. Sessions' = Sessions
  BY DEF Compaction, taskVars, Sessions, SessionOf, Phase, AnswerOf, Key
<1> QED
  BY <1>2, <1>3, AbstractStutter

\* The wrapper keeps its promise with jobs rewriting the store underneath it.
THEOREM SystemPromiseKept ==
    ASSUME HonestOrUncached PROVE SystemSpec => KeepsPromise
<1>1. SystemInit => CallsFit
  BY DEF SystemInit, Init, CallsFit, CallFits
<1>2. SystemInv /\ CallsFit /\ [SystemNext]_allVars => CallsFit'
  <2>1. ASSUME SystemInv, CallsFit, [Next]_vars PROVE CallsFit'
    BY <2>1, CallsFitStep DEF SystemInv, PlanInv
  <2>2. ASSUME CallsFit, Compaction PROVE CallsFit'
    BY <2>2 DEF Compaction, taskVars, CallsFit, CallFits
  <2> QED
    BY <2>1, <2>2 DEF SystemNext, allVars
<1>3. SystemSpec => []CallsFit
  BY <1>1, <1>2, SystemInvariance, PTL DEF SystemSpec
<1>4. SystemInit => Promise!Init
  BY InitRefines DEF SystemInit
<1>5. SystemInv /\ CallsFit /\ RewritesFindTheirSource /\ [SystemNext]_allVars
        => [Promise!Next]_(Promise!lvars)
  <2>1. ASSUME SystemInv, CallsFit, RewritesFindTheirSource, [Next]_vars
        PROVE  PromiseStep
    BY <2>1, NextRefines DEF Refining, SystemInv
  <2>2. ASSUME SystemInv, Compaction PROVE PromiseStep
    BY <2>2, CompactionHidden DEF PromiseStep
  <2> QED
    BY <2>1, <2>2 DEF SystemNext, allVars, PromiseStep
<1> QED
  BY <1>3, <1>4, <1>5, SystemInvariance, SystemRewritesCorrect, PTL
  DEF SystemSpec, KeepsPromise, Promise!Spec

-----------------------------------------------------------------------------
(* What of the app-level rewrite contract a filter leaves standing *)

\* A key's lock is held by the one task that has it, with jobs about.
LEMMA SystemGuarded == SystemSpec => [](SystemTypes /\ GuardsHeld)
<1>1. SystemInit => GuardsHeld
  BY GuardsInit DEF SystemInit
<1>2. SystemTypes /\ GuardsHeld /\ [SystemNext]_allVars => GuardsHeld'
  <2>1. ASSUME TypeOK, GuardsHeld, [Next]_vars PROVE GuardsHeld'
    BY <2>1, GuardStep
  <2>2. ASSUME GuardsHeld, Compaction PROVE GuardsHeld'
    BY <2>2 DEF GuardsHeld, Guarded, Key, Compaction, taskVars, lockVars
  <2> QED
    BY <2>1, <2>2 DEF SystemTypes, SystemNext, allVars
<1> QED
  BY <1>1, <1>2, SystemTyped, PTL DEF SystemSpec

\* The source of t's rewrite is gone.
SourceLost(t) == pc[t] = "rewrite" /\ StoreGet(Key(t)) # src[t]

\* Where the contract of RewritesReplaceTheirSource is broken, a job broke it: no
\* step of the wrapper, nor of a filter before it commits, takes away the source
\* a rewrite is about to replace, for anything that may be in the cache.
THEOREM SourcesLostOnlyToJobs ==
    SystemSpec => [][\A t \in Tasks : SourceLost(t)' => SourceLost(t) \/ CommitJob]_allVars
<1>1. SystemTypes /\ GuardsHeld /\ [SystemNext]_allVars
        => [\A t \in Tasks : SourceLost(t)' => SourceLost(t) \/ CommitJob]_allVars
  <2> SUFFICES ASSUME SystemTypes, GuardsHeld, [SystemNext]_allVars,
                      NEW t \in Tasks, SourceLost(t)', ~CommitJob
               PROVE  SourceLost(t)
    OBVIOUS
  <2>1. CASE [Next]_vars
    BY <2>1, SourceStep DEF SystemTypes, SourceLost
  <2>2. CASE Compaction
    <3>1. UNCHANGED storeVars /\ pc' = pc /\ src' = src /\ Key(t)' = Key(t)
      BY <2>2 DEF Compaction, FilterNext, RunCompactor, StartJob, FilterRow, AbortJob,
                  taskVars, Key
    <3> QED
      BY <3>1 DEF SourceLost, StoreGet, storeVars
  <2> QED
    BY <2>1, <2>2 DEF SystemNext, allVars
<1> QED
  BY <1>1, SystemGuarded, PTL DEF SystemSpec

\* And a row that has replaced it means what it meant: the rewrite that lands on
\* another envelope than it planned from still changes no value.
THEOREM LostSourcesMeanTheSame ==
    ASSUME HonestOrUncached PROVE SystemSpec => []SourcesMean
<1>1. SystemInv => SourcesMean
  BY DEF SystemInv
<1> QED
  BY <1>1, SystemInvariance, PTL

-----------------------------------------------------------------------------
(* What each keeps of its own with the other about *)

\* The guard discipline, with jobs about: they neither lock nor queue.
THEOREM SystemGuardDiscipline == SystemSpec => []GuardDiscipline
<1>1. SystemInit => QueuedOnce
  BY QueuesInit DEF SystemInit
<1>2. SystemTypes /\ QueuedOnce /\ [SystemNext]_allVars => QueuedOnce'
  <2>1. ASSUME TypeOK, QueuedOnce, [Next]_vars PROVE QueuedOnce'
    BY <2>1, QueueStep
  <2>2. ASSUME QueuedOnce, Compaction PROVE QueuedOnce'
    BY <2>2 DEF QueuedOnce, Waiting, Key, Compaction, taskVars, lockVars
  <2> QED
    BY <2>1, <2>2 DEF SystemTypes, SystemNext, allVars
<1> QED
  BY <1>1, <1>2, SystemGuarded, PTL DEF SystemSpec, GuardDiscipline

\* A task stores no plan that its database cannot read, even where a job has
\* replaced the row it planned from.
THEOREM SystemStoredPlans ==
    ASSUME HonestOrUncached PROVE SystemSpec => StoredPlansReadBack
<1>1. ASSUME PlanInv, [SystemNext]_allVars
      PROVE  [\A t \in Tasks : Stores(t) =>
                LET e == mem'[Key(t)].env IN
                e # Absent => Reconstructs(runtime.registry, e)]_vars
  <2>1. CASE [Next]_vars
    BY <1>1, <2>1, StoredReadBack
  <2>2. CASE Compaction
    <3>1. \A t \in Tasks : ~Stores(t)
      BY <2>2 DEF Stores, Compaction, taskVars
    <3> QED
      BY <3>1
  <2> QED
    BY <1>1, <2>1, <2>2 DEF SystemNext, allVars
<1>2. SystemInv => PlanInv
  BY DEF SystemInv
<1> QED
  BY <1>1, <1>2, SystemInvariance, PTL DEF SystemSpec, StoredPlansReadBack

\* What a committed job does to rows is as the filter alone does it, with the
\* calls of the wrapper in place of the writes of CompactionFilter: protected
\* rows stay, what is left reads, and a forced job leaves nothing raw.
THEOREM SystemJobRules ==
    SystemSpec => ProtectedRowsKept /\ FilteredPlansReadBack /\ ForcedJobLeavesNoRaw
<1>1. SystemTypes /\ [SystemNext]_allVars
        => [\A k \in RewrittenBy(CommitJob) :
              /\ supplier.snapshotSafe => ~Pinned(disk[k])
              /\ disk[k].env # Absent /\ Decodable(disk[k].env)]_<<storeVars, filterVars>>
  BY CommitSpares DEF SystemTypes
<1>2. SystemTypes /\ [SystemNext]_allVars
        => [\A k \in RewrittenBy(CommitJob) :
              Reconstructs(supplier.rt.registry, disk'[k].env)]_<<storeVars, filterVars>>
  BY CommitReadsBack DEF SystemTypes
<1>3. SystemTypes /\ [SystemNext]_allVars
        => [\A k \in job.keys :
              /\ CommitJob
              /\ supplier.mode = "ForceRawToPlan"
              /\ disk[k].seq = job.rows[k].seq
              /\ supplier.snapshotSafe => ~Pinned(disk[k])
              /\ disk[k].env # Absent /\ Decodable(disk[k].env)
              => disk'[k].env.kind = "plan"]_<<storeVars, filterVars>>
  BY CommitForces DEF SystemTypes
<1> QED
  BY <1>1, <1>2, <1>3, SystemTyped, PTL
  DEF SystemSpec, ProtectedRowsKept, FilteredPlansReadBack, ForcedJobLeavesNoRaw

\* No plan is rewritten back and forth by jobs between which tasks rewrite too.
THEOREM SystemPlansImprove ==
    LimitsWithinDefaults => (SystemSpec => PlansOnlyImprove)
<1> SUFFICES ASSUME LimitsWithinDefaults PROVE SystemSpec => PlansOnlyImprove
  OBVIOUS
<1>1. SystemTypes /\ [SystemNext]_allVars
        => [\A k \in RewrittenBy(CommitJob) :
              disk[k].env.kind = "plan" =>
                /\ supplier.mode = "VacuumMeaning"
                /\ Improves(disk'[k].env, disk[k].env)]_<<storeVars, filterVars>>
  BY CommitImproves DEF SystemTypes
<1> QED
  BY <1>1, SystemTyped, PTL DEF SystemSpec, PlansOnlyImprove

\* The statistics explain the job, whatever the tasks write meanwhile.
THEOREM SystemStats == SystemSpec => []StatsExplainJob
<1>1. SystemInit => JobBooks
  BY DEF SystemInit, FilterInit, NoJob, JobBooks
<1>2. SystemTypes /\ JobBooks /\ [SystemNext]_allVars => JobBooks'
  <2>1. ASSUME TypesOK, JobBooks, UNCHANGED filterVars PROVE JobBooks'
    BY <2>1, BooksAside
  <2>2. ASSUME TypesOK, JobBooks, FilterNext PROVE JobBooks'
    BY <2>2, BooksStep
  <2> QED
    BY <2>1, <2>2 DEF SystemTypes, FilterInv, SystemNext, Compaction, allVars
<1>3. SystemTypes /\ JobBooks => StatsExplainJob
  BY BooksExplain DEF SystemTypes, FilterInv
<1> QED
  BY <1>1, <1>2, <1>3, SystemTyped, PTL DEF SystemSpec

-----------------------------------------------------------------------------
(* Every row reads *)

\* One stream profile: what any process of the database registers, the others
\* register too, and every row that was left there reads with it.  Values and
\* plans are within the limits; PiLsmDb checks neither when it stores one.
OneProfile ==
    \A r \in Runtimes :
      /\ \A q \in Runtimes : q.registry = r.registry
      /\ \A s \in Suppliers : s.rt.registry \subseteq r.registry
      /\ \A e \in Existing : ReadsWith(r.registry, e)

PlansFit ==
    \A s \in Streams, o \in Opts, v \in Values :
        \A c \in Chunkings[s, o, v] : c.chunks <= MaxChunkCount

EverythingFits ==
    /\ \A v \in Values : Size[v] <= MaxLogicalLen /\ Size[v] <= MaxReconstruct
    /\ PlansFit

\* Plans come no longer than the planner makes them.
LEMMA PlanFits ==
    ASSUME PlansFit, NEW rt \in Runtime, NEW o \in Opts, NEW v \in Values,
           NEW p \in Plans(rt, o, v)
    PROVE  p.chunks <= MaxChunkCount
<1>1. PICK c \in Chunkings[rt.target, o, v] : p = PlanFor(v, c)
  BY DEF Plans, Candidates
<1> QED
  BY <1>1 DEF PlanFor, PlansFit, Runtime

\* What is in the store reads, and what a task has in hand could be stored.
RowsRead ==
    /\ runtime \in Runtimes /\ supplier \in Suppliers
    /\ \A k \in Keys : Reads(mem[k].env) /\ Reads(disk[k].env)
    /\ \A t \in Tasks : env[t] \in Envelope => env[t].chunks <= MaxChunkCount

\* A task takes its envelope from the store or from the planner.
LEMMA EnvsFit ==
    ASSUME PlansFit, PlanInv, RowsRead, [Next]_vars, NEW u \in Tasks,
           env'[u] \in Envelope
    PROVE  env'[u].chunks <= MaxChunkCount
<1>1. ASSUME NEW t \in Tasks, Encode(t) \/ Plan(t)
      PROVE  env'[u].chunks <= MaxChunkCount
  <2>1. \/ UNCHANGED env
        \/ \E o \in Opts, v \in Values : \E p \in Plans(runtime, o, v) :
              env' = [env EXCEPT ![t] = p]
    BY <1>1, KeyOfCall, PlanningAssumption
    DEF PlanInv, TypeOK, LocalsSet, Encode, Plan, Call, PlanningPCs, PlannedPCs
  <2> QED
    BY <2>1, PlanFits DEF PlanInv, TypeOK, RowsRead
<1>2. ASSUME NEW t \in Tasks, Get(t) \/ Read(t)
      PROVE  env'[u].chunks <= MaxChunkCount
  <2>1. \/ UNCHANGED env
        \/ /\ StoreGet(Key(t)) # Absent /\ Decodable(StoreGet(Key(t)))
           /\ env' = [env EXCEPT ![t] = StoreGet(Key(t))]
    BY <1>2 DEF Get, Read, Locals
  <2> QED
    BY <2>1 DEF PlanInv, TypeOK, RowsRead, Decodable
<1>3. ASSUME NEW t \in Tasks, Return(t) \/ Cancel(t)
      PROVE  env'[u].chunks <= MaxChunkCount
  BY <1>3, EnvelopeAssumption DEF PlanInv, TypeOK, RowsRead, Return, Cancel, Forget
<1>4. CASE Restart
  BY <1>4, EnvelopeAssumption DEF Restart
<1>5. CASE UNCHANGED env
  BY <1>5 DEF RowsRead
<1> QED
  BY <1>1, <1>2, <1>3, <1>4, <1>5
  DEF Next, TaskNext, Step, vars, taskVars, Locals, Invoke, Acquire, Write, Ack, Flush,
      LookUp, Reconstruct, Recheck, Rewrite, EngineError, BackgroundFlush

\* What a task is about to store reads.
LEMMA ToStoreReads ==
    ASSUME EverythingFits, PlanInv, RowsRead, NEW t \in Tasks
    PROVE  /\ Write(t) => Reads(ToWrite(t))
           /\ Rewrite(t) => Reads(env[t])
<1>1. ASSUME NEW e \in Envelope, e.chunks <= MaxChunkCount,
             Reconstructs(runtime.registry, e)
      PROVE  Reads(e)
  BY <1>1, EnvelopeAssumption DEF Reads, EverythingFits, Decodable, Reconstructs, Envelope
<1>2. ASSUME NEW v \in Values PROVE Reads(Raw(v))
  BY <1>2, RawIsEnvelope, EnvelopeAssumption DEF Reads, EverythingFits, Decodable, Raw
<1>3. ASSUME Write(t) PROVE Reads(ToWrite(t))
  <2>1. call[t].op \in {"put", "putplan", "delete"}
        /\ (call[t].op = "put" => call[t].value \in Values)
        /\ (call[t].op = "putplan" =>
              env[t] \in Envelope /\ Reconstructs(runtime.registry, env[t]))
    BY <1>3 DEF Write, PlanInv, TypeOK, LocalsSet, PlansKnown, KnowsPlan
  <2> QED
    BY <1>1, <1>2, <2>1 DEF ToWrite, Reads, RowsRead
<1>4. ASSUME Rewrite(t) PROVE Reads(env[t])
  <2>1. env[t] \in Envelope /\ Reconstructs(runtime.registry, env[t])
    BY <1>4 DEF Rewrite, PlanInv, TypeOK, LocalsSet, PlansKnown, KnowsPlan, PlannedPCs
  <2> QED
    BY <1>1, <2>1 DEF RowsRead
<1> QED
  BY <1>3, <1>4

\* The wrapper stores nothing that does not read.
LEMMA RowsReadByWrapper ==
    ASSUME OneProfile, EverythingFits, PlanInv, RowsRead, [Next]_vars, UNCHANGED filterVars
    PROVE  RowsRead'
<1>1. runtime' \in Runtimes /\ runtime'.registry = runtime.registry
  BY DEF RowsRead, OneProfile, Next, TaskNext, Step, vars, Invoke, Acquire, Encode, Write,
     Ack, Flush, Get, LookUp, Reconstruct, Read, Plan, Recheck, Rewrite, Return,
     EngineError, Cancel, BackgroundFlush, Restart
<1>2. \A e : Reads(e)' <=> Reads(e)
  BY <1>1 DEF Reads, Reconstructs
<1>3. ASSUME NEW t \in Tasks, Write(t) \/ Rewrite(t)
      PROVE  \A k \in Keys : Reads(mem'[k].env) /\ Reads(disk'[k].env)
  <2>1. \E e : Reads(e) /\ StorePut(Key(t), e)
    BY <1>3, ToStoreReads DEF Write, Rewrite
  <2> QED
    BY <2>1 DEF RowsRead, PlanInv, TypeOK, StoreTypeOK, StorePut
<1>4. ASSUME StoreFlush \/ StoreCrash \/ UNCHANGED storeVars
      PROVE  \A k \in Keys : Reads(mem'[k].env) /\ Reads(disk'[k].env)
  BY <1>4 DEF RowsRead, StoreFlush, StoreCrash, storeVars
<1>5. \A k \in Keys : Reads(mem'[k].env) /\ Reads(disk'[k].env)
  BY <1>3, <1>4 DEF RowsRead,
      Next, TaskNext, Step, vars, Invoke, Acquire, Encode, Ack, Flush, Get,
      LookUp, Reconstruct, Read, Plan, Recheck, Return, EngineError, Cancel,
      BackgroundFlush, Restart
<1> QED
  BY <1>1, <1>2, <1>5, EnvsFit DEF RowsRead, EverythingFits, filterVars

\* What a job may put in the place of a row reads if the row does.
LEMMA ReplacementReads ==
    ASSUME OneProfile, EverythingFits, FilterInv, RowsRead, NEW k \in Keys, NEW e,
           Replaces(k, e)
    PROVE  Reads(e)
<1> DEFINE row == job.rows[k].env
<1>1. row \in Envelope /\ row.hash \in Values
  BY JobParts, DecodableIsEnvelope DEF FilterInv, TypesOK, Replaces
<1>2. supplier.rt \in Runtime /\ supplier.rt.registry \subseteq runtime.registry
  BY JobParts DEF FilterInv, TypesOK, OneProfile, RowsRead
<1>3. e \in Plans(supplier.rt, DefaultOpts, row.hash) /\ Reconstructs(supplier.rt.registry, e)
  BY DEF Replaces
<1>4. e \in Envelope /\ e.kind = "plan" /\ e.hash \in Values
      /\ e.chunks <= MaxChunkCount
  BY <1>1, <1>2, <1>3, PlansSpell, PlanFits, PlanningAssumption DEF EverythingFits
<1> QED
  BY <1>2, <1>3, <1>4, EnvelopeAssumption
  DEF Reads, Decodable, Reconstructs, EverythingFits

\* Nor does a job leave anything that does not read.
LEMMA RowsReadByFilter ==
    ASSUME OneProfile, EverythingFits, FilterInv, RowsRead, Compaction
    PROVE  RowsRead'
<1>1. /\ runtime' = runtime /\ env' = env /\ supplier' \in Suppliers
      /\ \A e : Reads(e)' <=> Reads(e)
  BY DEF Compaction, taskVars, FilterNext, RunCompactor, StartJob, FilterRow, CommitJob,
         AbortJob, RowsRead, Reads
<1>2. ASSUME NEW k \in Keys, CommitJob, NEW v \in {mem[k], disk[k]}
      PROVE  Reads(Compacted(v, k).env)
  <2>1. CASE Compacted(v, k) = v
    BY <2>1 DEF RowsRead
  <2>2. CASE v.seq = job.rows[k].seq /\ Compacted(v, k) = job.out[k]
    <3>1. v.env = job.rows[k].env
      BY <1>2, <2>2 DEF FilterInv, RowsAsRead, CommitJob
    <3>2. Filtered(k, job.out[k].env)
      BY <1>2 DEF FilterInv, OutReplaces, CommitJob
    <3> QED
      BY <2>2, <3>1, <3>2, ReplacementReads DEF Filtered, RowsRead
  <2> QED
    BY <2>1, <2>2 DEF Compacted
<1>3. CASE CommitJob
  BY <1>1, <1>2, <1>3 DEF CommitJob, RowsRead
<1>4. CASE UNCHANGED storeVars
  BY <1>1, <1>4 DEF storeVars, RowsRead
<1> QED
  BY <1>3, <1>4 DEF Compaction, FilterNext, RunCompactor, StartJob, FilterRow, AbortJob

\* With one stream profile, and values and plans within the limits, every key
\* reads, whatever was put, planned, vacuumed, compacted, cancelled or lost.
THEOREM SystemRowsRead ==
    ASSUME HonestOrUncached, OneProfile, EverythingFits
    PROVE  SystemSpec => []EveryRowReads
<1>1. SystemInit => RowsRead
  <2> SUFFICES ASSUME SystemInit PROVE RowsRead
    OBVIOUS
  <2>1. \A k \in Keys : mem[k].env \in Existing /\ disk[k].env \in Existing
    BY DEF SystemInit, Init, StoreInit
  <2>2. \A t \in Tasks : env[t] \notin Envelope
    BY EnvelopeAssumption DEF SystemInit, Init
  <2>3. runtime \in Runtimes
    BY DEF SystemInit, Init
  <2>4. \A e \in Existing : Reads(e)
    <3> SUFFICES ASSUME NEW e \in Existing, e # Absent PROVE Reads(e)
      BY DEF Reads
    <3>1. ReadsWith(runtime.registry, e)
      BY <2>3 DEF OneProfile
    <3>2. e.hash \in Values
      BY <3>1, DecodableIsEnvelope, ExistingAssumption DEF ReadsWith
    <3> QED
      BY <3>1, <3>2 DEF Reads, ReadsWith, EverythingFits
  <2> QED
    BY <2>1, <2>2, <2>3, <2>4
    DEF SystemInit, Init, FilterInit, RowsRead
<1>2. SystemInv /\ RowsRead /\ [SystemNext]_allVars => RowsRead'
  <2>1. ASSUME SystemInv, RowsRead, [Next]_vars, UNCHANGED filterVars PROVE RowsRead'
    BY <2>1, RowsReadByWrapper DEF SystemInv
  <2>2. ASSUME SystemInv, RowsRead, Compaction PROVE RowsRead'
    BY <2>2, RowsReadByFilter DEF SystemInv
  <2> QED
    BY <2>1, <2>2 DEF SystemNext, allVars
<1>3. RowsRead => EveryRowReads
  BY DEF RowsRead, EveryRowReads, StoreGet
<1> QED
  BY <1>1, <1>2, <1>3, SystemInvariance, PTL DEF SystemSpec

-----------------------------------------------------------------------------
(* The commands *)

\* What a process does to the database is what the wrapper and the compactors
\* do to it.
LEMMA CliIsSystem == [CliNext]_cliAll => [SystemNext]_allVars
<1> SUFFICES ASSUME CliNext PROVE [SystemNext]_allVars
  BY DEF cliAll
<1>1. CASE Open \/ Unparsable \/ Explain \/ BeginScan \/ ScanRow \/ EndScan
           \/ BudgetSpent \/ EndLoop \/ ScanOrFlushFails
  BY <1>1 DEF Open, Unparsable, Explain, BeginScan, ScanRow, EndScan, BudgetSpent,
              EndLoop, ScanOrFlushFails
<1>2. CASE Exit \/ Kill
  BY <1>2 DEF Exit, Kill, Gone, SystemNext, Next
<1>3. CASE Single \/ Visit \/ Answered \/ InCall \/ EngineStep
  BY <1>3, CommandLineAssumption
  DEF Single, Visit, Await, Answered, InCall, EngineStep, SystemNext, Next, TaskNext, Step
<1>4. CASE FlushAll
  BY <1>4 DEF FlushAll, Persist, SystemNext, Next, BackgroundFlush
<1>5. CASE Compacts
  BY <1>5 DEF Compacts, SystemNext
<1> QED
  BY <1>1, <1>2, <1>3, <1>4, <1>5 DEF CliNext, ProcessStep

\* So all that is proved of the whole is true of it under the commands.
THEOREM CommandsAreSystem == CliSpec => SystemSpec
  BY CliIsSystem, PTL DEF CliSpec, CliInit, SystemSpec

\* The invariants of the whole, under the commands.
LEMMA CliSystemTypes == CliSpec => []SystemTypes
  BY CommandsAreSystem, SystemTyped, PTL

\* So does the inductive invariant.
LEMMA CliSystemInv == ASSUME HonestOrUncached PROVE CliSpec => []SystemInv
  BY CommandsAreSystem, SystemInvariance, PTL

\* The promise is kept under the commands: whatever they call, in whatever order,
\* with the compactor of this process or of another at work.
THEOREM CommandsKeepPromise ==
    ASSUME HonestOrUncached PROVE CliSpec => KeepsPromise
  BY CommandsAreSystem, SystemPromiseKept, PTL

\* A call is in progress until it replies; meanwhile the store counts up.
LEMMA CallProgress ==
    ASSUME SystemTypes, NEW t \in Tasks, Step(t) \/ EngineError(t), pc[t] # "reply"
    PROVE  pc[t] # "idle" /\ pc'[t] # "idle" /\ seq' \in Nat /\ seq <= seq'
<1>1. pc[t] # "idle" /\ pc'[t] # "idle"
  BY DEF SystemTypes, TypeOK, Step, Acquire, Encode, Write, Ack, Flush, Get, LookUp,
     Reconstruct, Reconstructed, Read, Plan, Recheck, Rewrite, Return, EngineError,
     AnswerUnlocking, Answer, Goto
<1>2. seq \in Nat
  BY DEF SystemTypes, TypeOK, StoreTypeOK
<1>3. seq' = seq \/ seq' = seq + 1
  BY DEF Step, Acquire, Encode, Write, Ack, Flush, StoreFlush, Get, LookUp, Reconstruct,
     Read, Plan, Recheck, Rewrite, StorePut, Return, EngineError, storeVars
<1> QED
  BY <1>1, <1>2, <1>3

CliTypes == CliTypeOK /\ began \in Nat

\* The first process is still to be started.
LEMMA CliTypesInit == CliInit => CliTypes
<1> SUFFICES ASSUME CliInit PROVE CliTypes
  OBVIOUS
<1>1. seq = 0 /\ \A t \in Tasks : pc[t] = "idle"
  BY DEF CliInit, SystemInit, Init, StoreInit
<1>2. \A k \in Keys : Logical(mem[k].env) \in Values \union {Absent, Corrupt}
  <2> SUFFICES ASSUME NEW k \in Keys, NEW e, e = mem[k].env, e \in Row
               PROVE  Logical(e) \in Values \union {Absent, Corrupt}
    BY ExistingAssumption DEF CliInit, SystemInit, Init, StoreInit
  <2> QED
    BY DEF Row, Envelope, Logical
<1>3. report \in VacuumAllReport
  BY DEF CliInit, NoReport, VacuumAllReport
<1>4. Cli \in Tasks
  BY CommandLineAssumption
<1> QED
  BY <1>1, <1>2, <1>3, <1>4 DEF CliInit, CliTypes, CliTypeOK, Phases

\* Steps of the process that are not calls.
LEMMA CliTypesProcess ==
    ASSUME SystemTypes, CliTypes,
           \/ Open \/ Unparsable \/ Explain \/ BeginScan \/ ScanRow \/ EndScan
           \/ BudgetSpent \/ EndLoop \/ ScanOrFlushFails
    PROVE  CliTypes'
<1>0. seq \in Nat
  BY DEF SystemTypes, TypeOK, StoreTypeOK
<1>1. /\ UNCHANGED <<pc, seq, allowed>>
      /\ began' = began \/ began' = seq
  BY DEF Open, Unparsable, Explain, BeginScan, ScanRow, EndScan, BudgetSpent,
         EndLoop, ScanOrFlushFails, allVars, vars, storeVars, taskVars
<1>2. phase \notin {"call"} /\ phase' \in Phases \ {"call"}
  BY DEF Open, Unparsable, Explain, BeginScan, ScanRow, EndScan, BudgetSpent,
         EndLoop, ScanOrFlushFails, Fails, NextStatement, Phases, CliTypes, CliTypeOK
<1>3. script' \in Seq(Statement)
  <2>1. \A c \in Commands : c.script \in Seq(Statement)
    BY CommandLineAssumption
  <2>2. script # <<>> => Tail(script) \in Seq(Statement)
    BY DEF CliTypes, CliTypeOK
  <2> QED
    BY <2>1, <2>2
    DEF Open, Unparsable, Explain, BeginScan, ScanRow, EndScan, BudgetSpent,
        EndLoop, ScanOrFlushFails, Fails, NextStatement, CliTypes, CliTypeOK
<1>4. phase' \in {"scan", "loop", "flush"} => script' # <<>>
  BY DEF Open, Unparsable, Explain, BeginScan, ScanRow, EndScan, BudgetSpent,
         EndLoop, ScanOrFlushFails, Fails, NextStatement, CliTypes, CliTypeOK
<1>5. keys' \in SUBSET Keys /\ todo' \in SUBSET Keys
  BY DEF Open, Unparsable, Explain, BeginScan, ScanRow, EndScan, BudgetSpent,
         EndLoop, ScanOrFlushFails, Fails, NextStatement, CliTypes, CliTypeOK
<1>6. report' \in VacuumAllReport
  <2>1. NoReport \in VacuumAllReport
    BY DEF NoReport, VacuumAllReport
  <2>2. [report EXCEPT !.timed_out = TRUE] \in VacuumAllReport
    BY DEF CliTypes, CliTypeOK, VacuumAllReport
  <2> QED
    BY <2>1, <2>2
    DEF Open, Unparsable, Explain, BeginScan, ScanRow, EndScan, BudgetSpent,
        EndLoop, ScanOrFlushFails, Fails, NextStatement, CliTypes, CliTypeOK
<1> QED
  BY <1>0, <1>1, <1>2, <1>3, <1>4, <1>5, <1>6 DEF CliTypes, CliTypeOK

\* Statements that make a call: it is under way from then on.
LEMMA CliTypesAwait ==
    ASSUME SystemTypes, CliTypes, Single \/ Visit
    PROVE  CliTypes'
<1>1. /\ Invoke(Cli) /\ phase' = "call" /\ UNCHANGED <<script, keys, report, began>>
      /\ script # <<>> /\ todo' \in SUBSET todo
  BY DEF Single, Visit, Await, CliTypes, CliTypeOK
<1>2. /\ \E place \in {"get", "lock"} : pc' = [pc EXCEPT ![Cli] = place]
      /\ seq' = seq
  BY <1>1 DEF Invoke, Goto, storeVars
<1>3. pc'[Cli] # "idle" /\ \A t \in Tasks \ {Cli} : pc'[t] = "idle"
  BY <1>2, CommandLineAssumption DEF SystemTypes, TypeOK, CliTypes, CliTypeOK
<1>4. allowed' \in [Keys -> SUBSET (Values \union {Absent, Corrupt})]
  <2>1. Writes => Current.op \in {"put", "delete"} /\ Meaning \in Values \union {Absent}
    <3>1. Current \in Statement
      BY <1>1 DEF CliTypes, CliTypeOK, Current
    <3> QED
      BY <3>1 DEF Writes, Meaning, Statement
  <2> QED
    BY <2>1 DEF Single, Visit, CliTypes, CliTypeOK
<1> QED
  BY <1>1, <1>2, <1>3, <1>4 DEF CliTypes, CliTypeOK, Phases

Tally(r, c) == [r EXCEPT !.visited = @ + 1, ![c] = @ + 1]

\* What an answer adds to the report.
LEMMA Tallied ==
    ASSUME NEW r \in VacuumAllReport, NEW status
    PROVE  LET q == Tally(r, Counted(status)) IN
           /\ q \in VacuumAllReport
           /\ q.visited = r.visited + 1 /\ q.timed_out = r.timed_out
           /\ \/ /\ status = "Rewritten" /\ q.rewritten = r.rewritten + 1
                 /\ q.kept + q.stale_or_missing = r.kept + r.stale_or_missing
              \/ /\ status # "Rewritten" /\ q.rewritten = r.rewritten
                 /\ q.kept + q.stale_or_missing = r.kept + r.stale_or_missing + 1
<1>0. /\ r.visited \in Nat /\ r.rewritten \in Nat /\ r.kept \in Nat
      /\ r.stale_or_missing \in Nat /\ r.timed_out \in BOOLEAN
  BY DEF VacuumAllReport
<1> DEFINE q == Tally(r, Counted(status))
<1> HIDE DEF q
<1>1. CASE status = "Rewritten"
  <2>1. q = Tally(r, "rewritten")
    BY <1>1 DEF Counted, q
  <2>2. q = [visited |-> r.visited + 1, rewritten |-> r.rewritten + 1, kept |-> r.kept,
             stale_or_missing |-> r.stale_or_missing, timed_out |-> r.timed_out]
    BY <2>1 DEF Tally, VacuumAllReport
  <2>3. q \in VacuumAllReport
    BY <1>0, <2>2 DEF VacuumAllReport
  <2> QED
    BY <1>0, <1>1, <2>2, <2>3 DEF q
<1>2. CASE status \in {"SkippedMissingKey", "SkippedStaleSource"}
  <2>1. q = Tally(r, "stale_or_missing")
    BY <1>2 DEF Counted, q
  <2>2. q = [visited |-> r.visited + 1, rewritten |-> r.rewritten, kept |-> r.kept,
             stale_or_missing |-> r.stale_or_missing + 1, timed_out |-> r.timed_out]
    BY <2>1 DEF Tally, VacuumAllReport
  <2>3. q \in VacuumAllReport
    BY <1>0, <2>2 DEF VacuumAllReport
  <2> QED
    BY <1>0, <1>2, <2>2, <2>3 DEF q
<1>3. CASE status \notin {"Rewritten", "SkippedMissingKey", "SkippedStaleSource"}
  <2>1. q = Tally(r, "kept")
    BY <1>3 DEF Counted, q
  <2>2. q = [visited |-> r.visited + 1, rewritten |-> r.rewritten, kept |-> r.kept + 1,
             stale_or_missing |-> r.stale_or_missing, timed_out |-> r.timed_out]
    BY <2>1 DEF Tally, VacuumAllReport
  <2>3. q \in VacuumAllReport
    BY <1>0, <2>2 DEF VacuumAllReport
  <2> QED
    BY <1>0, <1>3, <2>2, <2>3 DEF q
<1> QED
  BY <1>1, <1>2, <1>3

\* A call that is under way, and one that has been answered.
LEMMA CliTypesCall ==
    ASSUME SystemTypes, CliTypes, InCall \/ EngineStep \/ Answered
    PROVE  CliTypes'
<1>0. Cli \in Tasks /\ seq \in Nat /\ pc \in [Tasks -> PCs]
  BY CommandLineAssumption DEF SystemTypes, TypeOK, StoreTypeOK
<1>1. CASE InCall \/ (EngineStep /\ EngineError(Cli))
  <2>1. phase = "call" /\ UNCHANGED cliVars /\ pc[Cli] # "reply"
    BY <1>0, <1>1 DEF InCall, EngineStep, EngineError, CliTypes, CliTypeOK
  <2>2. pc'[Cli] # "idle" /\ seq' \in Nat /\ seq <= seq'
    BY <1>0, <1>1, <2>1, CallProgress DEF InCall
  <2>3. \A t \in Tasks \ {Cli} : pc'[t] = pc[t]
    BY <1>0, <1>1, OthersKeep DEF InCall, SystemTypes
  <2> QED
    BY <1>0, <2>1, <2>2, <2>3 DEF CliTypes, CliTypeOK, cliVars, processVars
<1>2. CASE EngineStep /\ BackgroundFlush
  BY <1>2
  DEF EngineStep, BackgroundFlush, StoreFlush, taskVars, CliTypes, CliTypeOK, cliVars, processVars
<1>3. CASE Answered
  <2>1. /\ pc' = [pc EXCEPT ![Cli] = "idle"] /\ seq' = seq
        /\ UNCHANGED <<keys, todo, began, allowed>> /\ script # <<>>
    BY <1>3 DEF Answered, Return, Goto, storeVars, Fails, NextStatement, CliTypes, CliTypeOK
  <2>2. pc'[Cli] = "idle" /\ \A t \in Tasks \ {Cli} : pc'[t] = "idle"
    BY <1>0, <2>1 DEF CliTypes, CliTypeOK
  <2>3. /\ phase' \in Phases \ {"call"}
        /\ script' \in Seq(Statement)
        /\ phase' \in {"scan", "loop", "flush"} => script' # <<>>
    <3>1. Tail(script) \in Seq(Statement)
      BY <2>1 DEF CliTypes, CliTypeOK
    <3> QED
      BY <1>3, <2>1, <3>1 DEF Answered, Fails, NextStatement, Phases, CliTypes, CliTypeOK
  <2>4. report' \in VacuumAllReport
    <3>1. ASSUME report' = [report EXCEPT !.visited = @ + 1,
                                          ![Counted(result[Cli])] = @ + 1]
          PROVE  report' \in VacuumAllReport
      BY <3>1, Tallied DEF CliTypes, CliTypeOK, Tally
    <3> QED
      BY <1>3, <3>1 DEF Answered, Fails, NextStatement, CliTypes, CliTypeOK
  <2> QED
    BY <1>0, <2>1, <2>2, <2>3, <2>4 DEF CliTypes, CliTypeOK
<1> QED
  BY <1>1, <1>2, <1>3 DEF EngineStep

\* What ends a statement or a process, and what goes on beside it.
LEMMA CliTypesElsewhere ==
    ASSUME SystemTypes, CliTypes, Exit \/ Kill \/ FlushAll \/ Compacts
    PROVE  CliTypes'
<1>0. Cli \in Tasks /\ seq \in Nat
  BY CommandLineAssumption DEF SystemTypes, TypeOK, StoreTypeOK
<1>1. CASE Gone
  <2>1. /\ pc' = [t \in Tasks |-> "idle"] /\ seq' = seq
        /\ phase' = "closed" /\ script' = <<>> /\ keys' = {} /\ todo' = {}
        /\ report' = NoReport /\ began' = 0 /\ allowed' = allowed
    BY <1>1 DEF Gone, Restart, StoreCrash
  <2>2. NoReport \in VacuumAllReport
    BY DEF NoReport, VacuumAllReport
  <2> QED
    BY <1>0, <2>1, <2>2 DEF CliTypes, CliTypeOK, Phases
<1>2. CASE FlushAll
  <2>1. /\ UNCHANGED <<pc, seq, keys, todo, report, began>> /\ script # <<>>
        /\ phase = "flush" /\ phase' = "ready" /\ script' = Tail(script)
    BY <1>2
    DEF FlushAll, Persist, StoreFlush, NextStatement, taskVars, CliTypes, CliTypeOK
  <2>2. script' \in Seq(Statement)
    BY <2>1 DEF CliTypes, CliTypeOK
  <2>3. allowed' \in [Keys -> SUBSET (Values \union {Absent, Corrupt})]
    <3>1. Current \in Statement
      BY <2>1 DEF CliTypes, CliTypeOK, Current
    <3>2. Writes => Meaning \in Values \union {Absent}
      BY <3>1 DEF Writes, Meaning, Statement
    <3> QED
      BY <1>2, <3>2 DEF FlushAll, CliTypes, CliTypeOK
  <2> QED
    BY <2>1, <2>2, <2>3 DEF CliTypes, CliTypeOK, Phases
<1>3. CASE Compacts
  <2>1. UNCHANGED <<pc, seq, cliVars>>
    BY <1>3 DEF Compacts, Compaction, taskVars, FilterNext, RunCompactor, StartJob,
                FilterRow, CommitJob, AbortJob, storeVars
  <2> QED
    BY <2>1 DEF CliTypes, CliTypeOK, cliVars, processVars
<1> QED
  BY <1>1, <1>2, <1>3 DEF Exit, Kill

\* Every step keeps the types.
LEMMA CliTypesStep == SystemTypes /\ CliTypes /\ [CliNext]_cliAll => CliTypes'
<1> SUFFICES ASSUME SystemTypes, CliTypes, [CliNext]_cliAll PROVE CliTypes'
  OBVIOUS
<1>1. CASE UNCHANGED cliAll
  BY <1>1 DEF cliAll, allVars, vars, storeVars, taskVars, cliVars, processVars,
              CliTypes, CliTypeOK
<1>2. CASE CliNext
  BY <1>2, CliTypesProcess, CliTypesAwait, CliTypesCall, CliTypesElsewhere
  DEF CliNext, ProcessStep
<1> QED
  BY <1>1, <1>2

\* A statement is carried out by at most one call at a time, from its first
\* step to its last, for any scripts.
THEOREM CliTypeCorrect == CliSpec => []CliTypeOK
<1>1. CliTypes => CliTypeOK
  BY DEF CliTypes
<1> QED
  BY <1>1, CliSystemTypes, CliTypesInit, CliTypesStep, PTL DEF CliSpec

-----------------------------------------------------------------------------
(* What a call does *)

\* What a step of a call, or the engine failing it, does to the store, and what
\* the call can answer after it.
CallMoves(t) ==
    \/ /\ pc[t] = "write" /\ call[t].op \in {"put", "putplan", "delete"}
       /\ StorePut(Key(t), ToWrite(t))
       /\ pc'[t] = "ack"
    \/ /\ pc[t] = "rewrite" /\ call[t].op \in RewriteOps
       /\ StorePut(Key(t), env[t])
       /\ pc'[t] = "ack"
    \/ /\ pc[t] = "flush" /\ call[t].op \notin RewriteOps
       /\ StoreFlush
       /\ pc'[t] = "reply"
    \/ /\ pc[t] \in {"ack", "flush"}
       /\ UNCHANGED storeVars
       /\ \/ pc'[t] = "flush" /\ call[t].op \notin RewriteOps
          \/ /\ pc'[t] = "reply"
             /\ call[t].op \in RewriteOps => result'[t] \in {"Rewritten", "error"}
    \/ /\ pc[t] \notin {"ack", "flush"}
       /\ UNCHANGED storeVars
       /\ pc'[t] \notin {"ack", "flush", "idle"}
       /\ pc'[t] = "reply" =>
             \/ result'[t] = "error" \/ call[t].op = "get"
             \/ call[t].op \in RewriteOps /\ result'[t] # "Rewritten"

\* vacuum_meaning goes on as plan_key; every other call stays what it is.
SameCall(t) ==
    /\ call'[t].key = call[t].key /\ call'[t].value = call[t].value
    /\ call'[t].op = call[t].op \/ (call[t].op = "vacuum" /\ call'[t].op = "plan")

\* Every step of a call that has not been answered is one of these.
LEMMA CallMove ==
    ASSUME TypeOK, NEW t \in Tasks, CallFits(t), Step(t) \/ EngineError(t),
           pc[t] # "reply"
    PROVE  CallMoves(t) /\ SameCall(t)
<1>0. /\ pc \in [Tasks -> PCs] /\ result \in [Tasks -> Results \union Values \union {Absent}]
      /\ call \in [Tasks -> Call \union {Absent}]
  BY DEF TypeOK
<1>1. ASSUME Acquire(t) PROVE CallMoves(t) /\ SameCall(t)
  <2>1. /\ UNCHANGED <<storeVars, call>> /\ pc[t] \in {"lock", "relock"}
        /\ pc'[t] \in {"recheck", "encode", "write", "read"}
    BY <1>0, <1>1 DEF Acquire, Goto
  <2> QED
    BY <2>1 DEF CallMoves, SameCall
<1>2. ASSUME Encode(t) PROVE CallMoves(t) /\ SameCall(t)
  <2>1. /\ UNCHANGED <<storeVars, call>> /\ pc[t] = "encode"
        /\ pc'[t] = "write" \/ (pc'[t] = "reply" /\ result'[t] = "error")
    BY <1>0, <1>2 DEF Encode, AnswerUnlocking, Answer, Goto
  <2> QED
    BY <2>1 DEF CallMoves, SameCall
<1>3. ASSUME Write(t) PROVE CallMoves(t) /\ SameCall(t)
  BY <1>0, <1>3 DEF Write, Goto, CallMoves, SameCall, TypeOK, LocalsSet
<1>4. ASSUME Ack(t) PROVE CallMoves(t) /\ SameCall(t)
  <2>1. /\ UNCHANGED <<storeVars, call>> /\ pc[t] = "ack"
        /\ \/ pc'[t] = "flush" /\ call[t].op \notin RewriteOps
           \/ pc'[t] = "reply" /\ call[t].op \notin RewriteOps
           \/ pc'[t] = "reply" /\ result'[t] = "Rewritten"
    BY <1>0, <1>4 DEF Ack, AnswerUnlocking, Answer, Goto
  <2> QED
    BY <2>1 DEF CallMoves, SameCall
<1>5. ASSUME Flush(t) PROVE CallMoves(t) /\ SameCall(t)
  <2>1. call[t].op \notin RewriteOps
    BY <1>5 DEF Flush, CallFits, RewriteOps
  <2> QED
    BY <1>0, <1>5, <2>1
    DEF Flush, AnswerUnlocking, Answer, Goto, CallMoves, SameCall
<1>6. ASSUME Get(t) PROVE CallMoves(t) /\ SameCall(t)
  <2>1. call[t].op = "get"
    BY <1>6 DEF Get, TypeOK, LocalsSet
  <2>2. UNCHANGED <<storeVars, call>> /\ pc[t] = "get" /\ pc'[t] \in {"reply", "lookup"}
    BY <1>0, <1>6 DEF Get, Answer, Goto
  <2> QED
    BY <2>1, <2>2 DEF CallMoves, SameCall
<1>7. ASSUME LookUp(t) \/ Reconstruct(t) PROVE CallMoves(t) /\ SameCall(t)
  <2>1. /\ UNCHANGED <<storeVars, call>> /\ pc[t] \in {"lookup", "reconstruct"}
        /\ pc'[t] \in {"reply", "plan", "reconstruct"}
        /\ pc'[t] = "reply" => result'[t] = "error" \/ call[t].op = "get"
    BY <1>0, <1>7 DEF LookUp, Reconstruct, Reconstructed, Answer, Goto
  <2> QED
    BY <2>1 DEF CallMoves, SameCall
<1>8. ASSUME Read(t) PROVE CallMoves(t) /\ SameCall(t)
  <2>1. SameCall(t)
    <3>1. CASE UNCHANGED call
      BY <3>1 DEF SameCall
    <3>2. CASE call[t].op = "vacuum" /\ call' = [call EXCEPT ![t].op = "plan"]
      BY <1>0, <1>8, <3>2, KeyOfCall DEF SameCall, Read, Call
    <3> QED
      BY <1>8, <3>1, <3>2 DEF Read
  <2>2. /\ UNCHANGED storeVars /\ pc[t] = "read" /\ call[t].op \in RewriteOps
        /\ \/ pc'[t] \in {"lookup", "lock", "plan"}
           \/ /\ pc'[t] = "reply"
              /\ result'[t] \in {"error", "SkippedMissingKey", "KeptAlreadyPlanned"}
    BY <1>0, <1>8 DEF Read, AnswerUnlocking, Answer, Goto, CallFits
  <2> QED
    BY <2>1, <2>2 DEF CallMoves
<1>9. ASSUME Plan(t) PROVE CallMoves(t) /\ SameCall(t)
  <2>1. /\ UNCHANGED <<storeVars, call>> /\ pc[t] = "plan" /\ call[t].op \in RewriteOps
        /\ \/ pc'[t] = "relock"
           \/ /\ pc'[t] = "reply"
              /\ result'[t] \in {"error", "SkippedPlanningFailed", "SkippedNotImproved"}
    BY <1>0, <1>9 DEF Plan, Answer, Goto, CallFits
  <2> QED
    BY <2>1 DEF CallMoves, SameCall
<1>10. ASSUME Recheck(t) PROVE CallMoves(t) /\ SameCall(t)
  <2>1. /\ UNCHANGED <<storeVars, call>> /\ pc[t] = "recheck" /\ call[t].op \in RewriteOps
        /\ \/ pc'[t] = "rewrite"
           \/ /\ pc'[t] = "reply"
              /\ result'[t] \in {"SkippedMissingKey", "SkippedStaleSource"}
    BY <1>0, <1>10 DEF Recheck, AnswerUnlocking, Answer, Goto, CallFits
  <2> QED
    BY <2>1 DEF CallMoves, SameCall
<1>11. ASSUME Rewrite(t) PROVE CallMoves(t) /\ SameCall(t)
  BY <1>0, <1>11 DEF Rewrite, Goto, CallMoves, SameCall, CallFits
<1>12. ASSUME EngineError(t) PROVE CallMoves(t) /\ SameCall(t)
  <2>1. /\ UNCHANGED <<storeVars, call>> /\ pc'[t] = "reply" /\ result'[t] = "error"
    BY <1>0, <1>12 DEF EngineError, AnswerUnlocking, Answer, Goto
  <2> QED
    BY <2>1 DEF CallMoves, SameCall
<1> QED
  BY <1>1, <1>2, <1>3, <1>4, <1>5, <1>6, <1>7, <1>8, <1>9, <1>10, <1>11, <1>12
  DEF Step, Return

\* The call under way is the one that the statement asks for.
CallMatches ==
    /\ phase = "loop" => IsBulk
    /\ phase = "call" =>
          /\ IsBulk => call[Cli].op \in RewriteOps
          /\ Current.op = "migrate" => call[Cli].op = "replan"
          /\ Writes => /\ call[Cli].op = Current.op
                       /\ call[Cli].key = Current.key
                       /\ call[Cli].value = Current.value
          /\ ~Writes => call[Cli].op \notin {"put", "putplan", "delete"}

CliCalling == CliTypes /\ CallsFit /\ CallMatches

\* A call as it is made.
LEMMA AwaitMatches ==
    ASSUME SystemTypes, CliTypes, CallMatches, Single \/ Visit
    PROVE  /\ call'[Cli] \in Calls /\ Key(Cli)' \in Keys
           /\ phase' = "call" /\ pc'[Cli] \in {"get", "lock"}
           /\ UNCHANGED <<storeVars, script>>
           /\ CallMatches'
<1>0. Cli \in Tasks /\ pc \in [Tasks -> PCs] /\ call \in [Tasks -> Call \union {Absent}]
  BY CommandLineAssumption DEF SystemTypes, TypeOK
<1>1. Invoke(Cli) /\ phase' = "call" /\ script' = script
  BY DEF Single, Visit, Await
<1>2. call'[Cli] \in Calls /\ Key(Cli)' \in Keys
  BY <1>0, <1>1, PiLsmDbAssumption DEF Invoke, Key, Call
<1>3. pc'[Cli] \in {"get", "lock"} /\ UNCHANGED storeVars
  BY <1>0, <1>1 DEF Invoke, Goto
<1>4. ASSUME Single PROVE CallMatches'
  <2>1. /\ call'[Cli].op = Current.op /\ call'[Cli].key = Current.key
        /\ call'[Cli].value = Current.value
        /\ Current.op \in SingleOps \ {"explain", "unparsable"}
    BY <1>4 DEF Single, Await
  <2>2. Current' = Current /\ ~IsBulk
    BY <1>1, <2>1 DEF Current, IsBulk, BulkOps, SingleOps
  <2> QED
    BY <1>1, <2>1, <2>2 DEF CallMatches, IsBulk, Writes, BulkOps, SingleOps
<1>5. ASSUME Visit PROVE CallMatches'
  <2>1. call'[Cli].op = RewriteOf(Current.op) /\ Current.op \in BulkOps
    BY <1>5 DEF Visit, Await, CallMatches, IsBulk
  <2>2. Current' = Current
    BY <1>1 DEF Current
  <2>3. call'[Cli].op \in RewriteOps /\ (Current.op = "migrate" => call'[Cli].op = "replan")
    BY <2>1 DEF BulkOps, RewriteOf, RewriteOps
  <2> QED
    BY <1>1, <2>1, <2>2, <2>3 DEF CallMatches, IsBulk, BulkOps, Writes, RewriteOps
<1> QED
  BY <1>1, <1>2, <1>3, <1>4, <1>5

\* While it is under way the process waits.
LEMMA CallGoesOn ==
    ASSUME SystemTypes, CliCalling, InCall \/ (EngineStep /\ EngineError(Cli))
    PROVE  /\ phase = "call" /\ Key(Cli) \in Keys /\ UNCHANGED cliVars
           /\ CallMoves(Cli) /\ SameCall(Cli)
           /\ CallMatches'
<1>1. Cli \in Tasks /\ phase = "call" /\ pc[Cli] \notin {"idle", "reply"}
      /\ UNCHANGED cliVars
  BY CommandLineAssumption DEF InCall, EngineStep, EngineError, CliCalling, CliTypes, CliTypeOK
<1>2. CallMoves(Cli) /\ SameCall(Cli)
  BY <1>1, CallMove DEF SystemTypes, CliCalling, CallsFit, InCall, EngineStep
<1>3. CallMatches'
  BY <1>1, <1>2
  DEF SameCall, CliCalling, CallMatches, cliVars, processVars, Current, IsBulk, Writes,
      RewriteOps
<1> QED
  BY <1>1, <1>2, <1>3, KeyOfCall DEF SystemTypes

\* Elsewhere than in a call the process changes nothing of the call.
LEMMA CallMatchesStep ==
    ASSUME SystemTypes, CliCalling, [CliNext]_cliAll
    PROVE  CallMatches'
<1>1. CASE Single \/ Visit
  BY <1>1, AwaitMatches DEF CliCalling
<1>2. CASE InCall \/ (EngineStep /\ EngineError(Cli))
  BY <1>2, CallGoesOn
<1>3. CASE EngineStep /\ BackgroundFlush
  BY <1>3 DEF EngineStep, BackgroundFlush, taskVars, cliVars, processVars, CliCalling,
              CallMatches, Current, IsBulk, Writes
<1>4. CASE Compacts
  BY <1>4 DEF Compacts, Compaction, taskVars, cliVars, processVars, CliCalling,
              CallMatches, Current, IsBulk, Writes
<1>5. CASE Open \/ Unparsable \/ Explain \/ BeginScan \/ ScanRow \/ EndScan
           \/ BudgetSpent \/ EndLoop \/ ScanOrFlushFails \/ Exit \/ Kill \/ FlushAll
           \/ Answered
  <2>1. phase' # "call" /\ (phase' = "loop" => IsBulk /\ script' = script)
    BY <1>5
    DEF Open, Unparsable, Explain, BeginScan, ScanRow, EndScan, BudgetSpent, EndLoop,
        ScanOrFlushFails, Exit, Kill, Gone, FlushAll, Answered, Fails, NextStatement,
        CliCalling, CallMatches
  <2> QED
    BY <2>1 DEF CallMatches, IsBulk, Current
<1>6. CASE UNCHANGED cliAll
  BY <1>6 DEF cliAll, allVars, vars, taskVars, cliVars, processVars, CliCalling,
              CallMatches, Current, IsBulk, Writes
<1> QED
  BY <1>1, <1>2, <1>3, <1>4, <1>5, <1>6 DEF CliNext, ProcessStep, EngineStep

\* So it always is.
LEMMA CallsMatch == CliSpec => [](SystemTypes /\ CliCalling)
<1>1. CliInit => CallMatches /\ CallsFit
  BY DEF CliInit, CallMatches, SystemInit, Init, CallsFit, CallFits
<1>2. SystemTypes /\ CallsFit /\ [SystemNext]_allVars => CallsFit'
  <2>1. ASSUME SystemTypes, CallsFit, [Next]_vars PROVE CallsFit'
    BY <2>1, CallsFitStep DEF SystemTypes
  <2>2. ASSUME CallsFit, Compaction PROVE CallsFit'
    BY <2>2 DEF Compaction, taskVars, CallsFit, CallFits
  <2> QED
    BY <2>1, <2>2 DEF SystemNext, allVars
<1>3. SystemTypes /\ CliCalling /\ [CliNext]_cliAll => CliCalling'
  BY <1>2, CliIsSystem, CliTypesStep, CallMatchesStep DEF CliCalling
<1>4. CliTypes /\ CallMatches /\ CallsFit => CliCalling
  BY DEF CliCalling
<1> QED
  BY <1>1, <1>3, <1>4, CliSystemTypes, CliTypesInit, PTL DEF CliSpec

-----------------------------------------------------------------------------
(* What has been answered *)

\* A write that has been applied is in the store; the meaning it gives its key
\* has been allowed since it was asked for.
AnswersInv ==
    /\ AnswersHold
    /\ phase \in {"call", "flush"} /\ Writes =>
          /\ Current.key \in Keys /\ Meaning \in allowed[Current.key]
          /\ \/ phase = "flush" \/ pc[Cli] \in {"ack", "flush"}
             \/ pc[Cli] = "reply" /\ result[Cli] # "error"
             => Logical(mem[Current.key].env) = Meaning

\* What a put or a delete makes of its row means what was asked for.
LEMMA WrittenMeans ==
    ASSUME SystemTypes, CliCalling, phase = "call", pc[Cli] = "write",
           call[Cli].op \in {"put", "putplan", "delete"}
    PROVE  Writes /\ Logical(ToWrite(Cli)) = Meaning
<1>1. Writes /\ call[Cli].op = Current.op /\ call[Cli].value = Current.value
  BY DEF CliCalling, CallMatches
<1>2. call[Cli].op = "put" => call[Cli].value \in Values
  BY CommandLineAssumption DEF CliCalling, CallsFit, CallFits
<1>3. \A v \in Values : Logical(Raw(v)) = v
  BY EnvelopeAssumption, RawIsEnvelope DEF Logical, Raw
<1> QED
  BY <1>1, <1>2, <1>3, EnvelopeAssumption DEF Writes, Meaning, ToWrite, Logical

\* A call gives its key the meaning that was asked for, or none a new one.
LEMMA AnswersInCall ==
    ASSUME SystemTypes, CliCalling, RewritesFindTheirSource, AnswersInv,
           InCall \/ (EngineStep /\ EngineError(Cli))
    PROVE  AnswersInv'
<1>0. /\ phase = "call" /\ Key(Cli) \in Keys /\ UNCHANGED cliVars
      /\ CallMoves(Cli) /\ CallMatches
  BY CallGoesOn DEF CliCalling
<1>1. /\ UNCHANGED <<phase, script, allowed>>
      /\ (Writes' <=> Writes) /\ Current' = Current /\ Meaning' = Meaning
  BY <1>0 DEF cliVars, processVars, Writes, Meaning, Current
<1>2. /\ mem \in [Keys -> Version] /\ disk \in [Keys -> Version] /\ Cli \in Tasks
  BY CommandLineAssumption DEF SystemTypes, TypeOK, StoreTypeOK
<1>3. Writes => Key(Cli) = Current.key /\ call[Cli].op \in {"put", "delete"}
  BY <1>0 DEF CallMatches, Key, Writes
<1>4. ASSUME pc[Cli] = "write", call[Cli].op \in {"put", "putplan", "delete"},
             StorePut(Key(Cli), ToWrite(Cli))
      PROVE  AnswersInv'
  <2>1. Writes /\ Logical(ToWrite(Cli)) = Meaning
    BY <1>0, <1>4, WrittenMeans
  <2>2. /\ mem'[Key(Cli)].env = ToWrite(Cli) /\ disk' = disk
        /\ \A k \in Keys \ {Key(Cli)} : mem'[k] = mem[k]
    BY <1>0, <1>2, <1>4 DEF StorePut
  <2> QED
    BY <1>0, <1>1, <1>3, <2>1, <2>2 DEF AnswersInv, AnswersHold
<1>5. ASSUME pc[Cli] = "rewrite", call[Cli].op \in RewriteOps,
             StorePut(Key(Cli), env[Cli])
      PROVE  AnswersInv'
  <2>1. /\ mem'[Key(Cli)].env = env[Cli] /\ disk' = disk
        /\ \A k \in Keys \ {Key(Cli)} : mem'[k] = mem[k]
    BY <1>0, <1>2, <1>5 DEF StorePut
  <2>2. Logical(mem[Key(Cli)].env) = Logical(env[Cli])
    BY <1>2, <1>5 DEF RewritesFindTheirSource, StoreGet
  <2>3. ~Writes
    BY <1>3, <1>5 DEF RewriteOps
  <2> QED
    BY <1>1, <2>1, <2>2, <2>3 DEF AnswersInv, AnswersHold
<1>6. ASSUME pc[Cli] = "flush", StoreFlush PROVE AnswersInv'
  <2>1. disk' = mem /\ mem' = mem
    BY <1>6 DEF StoreFlush
  <2> QED
    BY <1>0, <1>1, <1>6, <2>1 DEF AnswersInv, AnswersHold
<1>7. ASSUME UNCHANGED storeVars,
             \/ pc[Cli] \in {"ack", "flush"}
             \/ /\ pc'[Cli] \notin {"ack", "flush"}
                /\ pc'[Cli] = "reply" => result'[Cli] = "error" \/ ~Writes
      PROVE  AnswersInv'
  <2>1. mem' = mem /\ disk' = disk
    BY <1>7 DEF storeVars
  <2> QED
    BY <1>0, <1>1, <1>7, <2>1 DEF AnswersInv, AnswersHold
<1>8. call[Cli].op = "get" \/ call[Cli].op \in RewriteOps => ~Writes
  BY <1>3 DEF RewriteOps
<1> QED
  BY <1>0, <1>4, <1>5, <1>6, <1>7, <1>8 DEF CallMoves


\* So does nothing that the process does between its calls, nor a crash, a flush
\* or a compactor.
LEMMA AnswersElsewhere ==
    ASSUME SystemTypes, FilterInv, CliCalling, AnswersInv, [CliNext]_cliAll,
           ~(InCall \/ (EngineStep /\ EngineError(Cli)))
    PROVE  AnswersInv'
<1>0. allowed \in [Keys -> SUBSET (Values \union {Absent, Corrupt})]
  BY DEF CliCalling, CliTypes, CliTypeOK
<1>1. ASSUME Single PROVE AnswersInv'
  <2>1. /\ phase' = "call" /\ pc'[Cli] \in {"get", "lock"} /\ Key(Cli)' \in Keys
        /\ UNCHANGED <<storeVars, script>> /\ CallMatches'
    BY <1>1, AwaitMatches DEF CliCalling
  <2>2. Current' = Current /\ Meaning' = Meaning /\ (Writes' <=> Writes)
    BY <2>1 DEF Current, Meaning, Writes
  <2>3. mem' = mem /\ disk' = disk
    BY <2>1 DEF storeVars
  <2>4. CASE Writes
    <3>1. Current.key \in Keys
      BY <2>1, <2>2, <2>4 DEF CallMatches, Key
    <3>2. allowed' = [allowed EXCEPT ![Current.key] = @ \union {Meaning}]
      BY <1>1, <2>4 DEF Single
    <3>3. /\ \A k \in Keys : allowed[k] \subseteq allowed'[k]
          /\ Meaning \in allowed'[Current.key]
      BY <1>0, <3>1, <3>2
    <3> QED
      BY <2>1, <2>2, <2>3, <3>1, <3>3 DEF AnswersInv, AnswersHold
  <2>5. CASE ~Writes
    BY <1>1, <2>2, <2>3, <2>5 DEF Single, AnswersInv, AnswersHold
  <2> QED
    BY <2>4, <2>5
<1>2. ASSUME Visit PROVE AnswersInv'
  <2>1. ~Writes' /\ UNCHANGED <<storeVars, allowed>>
    BY <1>2, AwaitMatches
    DEF CliCalling, CallMatches, Visit, IsBulk, BulkOps, Writes, Current
  <2> QED
    BY <2>1 DEF AnswersInv, AnswersHold, storeVars
<1>3. ASSUME Open \/ Unparsable \/ Explain \/ BeginScan \/ ScanRow \/ EndScan
             \/ BudgetSpent \/ EndLoop \/ ScanOrFlushFails
      PROVE  AnswersInv'
  <2>1. UNCHANGED <<mem, disk, allowed>>
    BY <1>3
    DEF Open, Unparsable, Explain, BeginScan, ScanRow, EndScan, BudgetSpent, EndLoop,
        ScanOrFlushFails, allVars, vars, storeVars
  <2>2. phase' \notin {"call", "flush"} \/ (IsBulk /\ script' = script)
    BY <1>3
    DEF Open, Unparsable, Explain, BeginScan, ScanRow, EndScan, BudgetSpent, EndLoop,
        ScanOrFlushFails, Fails, NextStatement, CliCalling, CallMatches
  <2>3. phase' \notin {"call", "flush"} \/ ~Writes'
    BY <2>2 DEF IsBulk, BulkOps, Writes, Current
  <2> QED
    BY <2>1, <2>3 DEF AnswersInv, AnswersHold
<1>4. ASSUME Answered PROVE AnswersInv'
  <2>2. UNCHANGED <<mem, disk, allowed>>
    BY <1>4 DEF Answered, Return, storeVars
  <2>3. /\ phase = "call" /\ pc[Cli] = "reply"
        /\ phase' \in {"call", "flush"} =>
              phase' = "flush" /\ result[Cli] # "error" /\ script' = script
    BY <1>4 DEF Answered, Fails, NextStatement
  <2>4. script' = script => Current' = Current /\ Meaning' = Meaning /\ (Writes' <=> Writes)
    BY DEF Current, Meaning, Writes
  <2> QED
    BY <2>2, <2>3, <2>4 DEF AnswersInv, AnswersHold
<1>5. ASSUME FlushAll PROVE AnswersInv'
  <2>1. phase = "flush" /\ phase' = "ready" /\ disk' = mem /\ mem' = mem
    BY <1>5 DEF FlushAll, Persist, StoreFlush, NextStatement
  <2>2. allowed' = IF Writes THEN [allowed EXCEPT ![Current.key] = {Meaning}]
                   ELSE allowed
    BY <1>5 DEF FlushAll
  <2> QED
    BY <1>0, <2>1, <2>2 DEF AnswersInv, AnswersHold
<1>6. ASSUME Exit \/ Kill PROVE AnswersInv'
  <2>1. mem' = disk /\ disk' = disk /\ allowed' = allowed /\ phase' = "closed"
    BY <1>6 DEF Exit, Kill, Gone, Restart, StoreCrash
  <2> QED
    BY <2>1 DEF AnswersInv, AnswersHold
<1>7. ASSUME EngineStep, BackgroundFlush PROVE AnswersInv'
  <2>1. disk' = mem /\ mem' = mem /\ UNCHANGED <<allowed, phase, script, pc, result>>
    BY <1>7 DEF EngineStep, BackgroundFlush, StoreFlush, taskVars, cliVars, processVars
  <2> QED
    BY <2>1 DEF AnswersInv, AnswersHold, Current, Meaning, Writes
<1>8. ASSUME Compacts PROVE AnswersInv'
  <2>1. UNCHANGED <<allowed, phase, script, pc, result>>
    BY <1>8 DEF Compacts, Compaction, taskVars, cliVars, processVars
  <2>2. \A k \in Keys : /\ Logical(mem'[k].env) = Logical(mem[k].env)
                        /\ Logical(disk'[k].env) = Logical(disk[k].env)
    BY <1>8, FilterKeepsMeaning DEF Compacts, Compaction
  <2> QED
    BY <2>1, <2>2 DEF AnswersInv, AnswersHold, Current, Meaning, Writes
<1>9. ASSUME UNCHANGED cliAll PROVE AnswersInv'
  BY <1>9 DEF cliAll, allVars, vars, storeVars, taskVars, cliVars, processVars,
              AnswersInv, AnswersHold, Current, Meaning, Writes
<1> QED
  BY <1>1, <1>2, <1>3, <1>4, <1>5, <1>6, <1>7, <1>8, <1>9
  DEF CliNext, ProcessStep, EngineStep

\* What a command has answered holds from then on, in any script, with crashes,
\* engine errors and compactors at any point; what it has not answered has
\* happened or not.
THEOREM AnswersCorrect ==
    ASSUME HonestOrUncached PROVE CliSpec => []AnswersHold
<1>1. CliInit => AnswersInv
  <2> SUFFICES ASSUME CliInit PROVE AnswersInv
    OBVIOUS
  <2>1. phase = "closed" /\ disk = mem
        /\ allowed = [k \in Keys |-> {Logical(mem[k].env)}]
    BY DEF CliInit, SystemInit, Init, StoreInit
  <2> QED
    BY <2>1 DEF AnswersInv, AnswersHold
<1>2. CliSpec => []RewritesFindTheirSource
  BY CommandsAreSystem, SystemRewritesCorrect, PTL
<1>3. SystemTypes /\ CliCalling /\ RewritesFindTheirSource /\ AnswersInv
        /\ [CliNext]_cliAll => AnswersInv'
  BY AnswersInCall, AnswersElsewhere DEF SystemTypes
<1>4. AnswersInv => AnswersHold
  BY DEF AnswersInv
<1> QED
  BY <1>1, <1>2, <1>3, <1>4, CallsMatch, PTL DEF CliSpec

-----------------------------------------------------------------------------
(* What is reported *)

\* The keys written since the loop began, and whether the call under way has
\* written its own.
Newer == {k \in Keys : mem[k].seq > began}
HasWritten ==
    /\ phase = "call"
    /\ pc[Cli] = "ack" \/ (pc[Cli] = "reply" /\ result[Cli] = "Rewritten")
InLoop == phase \in {"loop", "call", "flush"} /\ IsBulk
HasFailed == phase = "call" /\ pc[Cli] = "reply" /\ result[Cli] = "error"

\* The loop's books: every key it has passed is visited or under way, and the
\* keys that have a new version are those it has counted as rewritten, with the
\* one of the call that has just written.
Books ==
    /\ todo \subseteq keys
    /\ Newer \subseteq keys \ todo
    /\ phase = "call" => Key(Cli) \in keys \ todo /\ (Key(Cli) \in Newer => HasWritten)
    /\ seq = began + report.rewritten + (IF HasWritten THEN 1 ELSE 0)
    /\ Cardinality(Newer) = seq - began
    /\ report.visited = report.rewritten + report.kept + report.stale_or_missing
    /\ Cardinality(keys \ todo) = report.visited + (IF phase = "call" THEN 1 ELSE 0)
    /\ phase = "flush" => report.timed_out \/ todo = {}

ReportInv ==
    /\ IsFiniteSet(keys)
    /\ phase = "scan" => report = NoReport
    /\ InLoop /\ ~HasFailed => Books

\* What the steps below need of the types.
LEMMA BookTypes ==
    ASSUME SystemTypes, CliCalling
    PROVE  /\ seq \in Nat /\ began \in Nat /\ began <= seq
           /\ mem \in [Keys -> Version] /\ \A k \in Keys : mem[k].seq \in Nat
           /\ \A k \in Keys : mem[k].seq <= seq
           /\ report \in VacuumAllReport
           /\ report.visited \in Nat /\ report.rewritten \in Nat
           /\ report.kept \in Nat /\ report.stale_or_missing \in Nat
           /\ keys \in SUBSET Keys /\ todo \in SUBSET Keys
           /\ Cli \in Tasks
<1>1. mem \in [Keys -> Version] /\ seq \in Nat
  BY DEF SystemTypes, TypeOK, StoreTypeOK
<1>2. \A k \in Keys : mem[k].seq \in Nat
  BY <1>1 DEF Version
<1>3. report \in VacuumAllReport
  BY DEF CliCalling, CliTypes, CliTypeOK
<1> QED
  BY <1>1, <1>2, <1>3, CommandLineAssumption
  DEF SystemTypes, FilterInv, OneVersion, CliCalling, CliTypes, CliTypeOK, VacuumAllReport

\* The loop begins with nothing counted and nothing new.
LEMMA ReportBegins ==
    ASSUME SystemTypes, CliCalling, ReportInv, EndScan
    PROVE  ReportInv'
<1>1. keys' = keys /\ mem' = mem /\ seq' = seq
  BY DEF EndScan, NextStatement, allVars, vars, storeVars
<1>2. CASE phase' = "ready"
  BY <1>1, <1>2 DEF ReportInv, InLoop
<1>3. ASSUME phase' = "loop", todo' = keys, began' = seq, report' = report
      PROVE  ReportInv'
  <2>1. Newer' = {}
    BY <1>1, <1>3, BookTypes DEF Newer
  <2>2. keys' \ todo' = {}
    BY <1>1, <1>3
  <2>3. /\ report'.visited = 0 /\ report'.rewritten = 0
        /\ report'.kept = 0 /\ report'.stale_or_missing = 0
    BY <1>3 DEF ReportInv, EndScan, NoReport
  <2>4. Cardinality(Newer') = 0 /\ Cardinality(keys' \ todo') = 0
    BY <2>1, <2>2, FS_EmptySet
  <2>5. ~HasWritten' /\ phase' = "loop"
    BY <1>3 DEF HasWritten
  <2>6. seq' - began' = 0 /\ seq' = began' + 0 + 0
    BY <1>1, <1>3, BookTypes
  <2>7. todo' \subseteq keys' /\ Newer' \subseteq keys' \ todo'
    BY <1>1, <1>3, <2>1
  <2>8. Books'
    BY <2>3, <2>4, <2>5, <2>6, <2>7 DEF Books
  <2> QED
    BY <1>1, <1>3, <2>8 DEF ReportInv
<1> QED
  BY <1>2, <1>3 DEF EndScan, NextStatement

\* The next key is one that no call has written.
LEMMA ReportVisits ==
    ASSUME SystemTypes, CliCalling, ReportInv, Visit
    PROVE  ReportInv'
<1>1. PICK k \in todo : Await(RewriteOf(Current.op), k) /\ todo' = todo \ {k}
  BY DEF Visit
<1>2. /\ phase = "loop" /\ IsBulk /\ Books
      /\ k \in keys
  BY <1>1 DEF Visit, CliCalling, CallMatches, ReportInv, InLoop, HasFailed, Books
<1>3. /\ UNCHANGED <<mem, seq, keys, report, began>>
      /\ phase' = "call" /\ pc'[Cli] \in {"get", "lock"} /\ Key(Cli)' = k
  BY <1>1, AwaitMatches DEF CliCalling, Visit, Await, Key, storeVars
<1>4. Newer' = Newer /\ k \notin Newer /\ ~HasWritten' /\ ~HasWritten
  BY <1>1, <1>2, <1>3 DEF Newer, Books, HasWritten
<1>5. Cardinality(keys \ (todo \ {k})) = Cardinality(keys \ todo) + 1
  <2>1. keys \ (todo \ {k}) = (keys \ todo) \union {k} /\ k \notin keys \ todo
    BY <1>1, <1>2
  <2>2. IsFiniteSet(keys \ todo)
    BY FS_Difference DEF ReportInv
  <2> QED
    BY <2>1, <2>2, FS_AddElement
<1>6. Books'
  BY <1>1, <1>2, <1>3, <1>4, <1>5, BookTypes DEF Books
<1> QED
  BY <1>3, <1>6 DEF ReportInv

\* A rewrite gives its key a new version, the first since the loop began.
LEMMA ReportWrites ==
    ASSUME SystemTypes, CliCalling, Books, IsFiniteSet(keys), phase = "call",
           ~HasWritten, NEW e, StorePut(Key(Cli), e), pc'[Cli] = "ack",
           UNCHANGED cliVars, Key(Cli)' = Key(Cli)
    PROVE  Books'
<1> DEFINE k == Key(Cli)
<1>1. UNCHANGED <<phase, keys, todo, report, began>>
  BY DEF cliVars, processVars
<1>2. k \in Keys /\ k \in keys \ todo /\ k \notin Newer
  BY BookTypes DEF Books
<1>3. mem' = [mem EXCEPT ![k] = [seq |-> seq + 1, env |-> e]] /\ seq' = seq + 1
  BY DEF StorePut
<1>4. mem'[k].seq = seq + 1 /\ \A j \in Keys \ {k} : mem'[j] = mem[j]
  BY <1>2, <1>3, BookTypes
<1> HIDE DEF k
<1>5. Newer' = Newer \union {k}
  BY <1>1, <1>2, <1>4, BookTypes DEF Newer
<1>6. IsFiniteSet(Newer)
  BY FS_Subset, FS_Difference DEF Books
<1>7. Cardinality(Newer') = Cardinality(Newer) + 1
  BY <1>2, <1>5, <1>6, FS_AddElement
<1>8. HasWritten'
  BY <1>1 DEF HasWritten
<1> QED
  BY <1>1, <1>2, <1>3, <1>5, <1>7, <1>8, BookTypes DEF Books, k

\* The other steps of a call write nothing.
LEMMA ReportInCall ==
    ASSUME SystemTypes, CliCalling, ReportInv,
           InCall \/ (EngineStep /\ EngineError(Cli))
    PROVE  ReportInv'
<1>0. /\ phase = "call" /\ UNCHANGED cliVars
      /\ CallMoves(Cli) /\ SameCall(Cli) /\ CallMatches /\ pc[Cli] # "reply"
  BY CallGoesOn DEF CliCalling, InCall, EngineStep, EngineError
<1>1. UNCHANGED <<phase, script, keys, todo, report, began>>
  BY <1>0 DEF cliVars, processVars
<1>2. SUFFICES ASSUME InLoop, ~HasFailed' PROVE Books'
  BY <1>0, <1>1 DEF ReportInv, InLoop, IsBulk, Current
<1>3. Books /\ call[Cli].op \in RewriteOps /\ Key(Cli)' = Key(Cli)
  BY <1>0, <1>2 DEF ReportInv, HasFailed, CallMatches, InLoop, SameCall, Key
<1>4. ASSUME pc[Cli] = "rewrite", StorePut(Key(Cli), env[Cli]), pc'[Cli] = "ack"
      PROVE  Books'
  BY <1>0, <1>3, <1>4, ReportWrites DEF ReportInv, HasWritten
<1>5. ASSUME UNCHANGED storeVars, HasWritten' <=> HasWritten PROVE Books'
  BY <1>1, <1>3, <1>5, BookTypes DEF Books, Newer, storeVars
<1>6. call[Cli].op \notin {"put", "putplan", "delete", "get"}
  BY <1>3 DEF RewriteOps
<1>7. pc[Cli] # "flush"
  BY <1>6, CommandLineAssumption DEF CliCalling, CallsFit, CallFits
<1> QED
  BY <1>0, <1>1, <1>2, <1>3, <1>4, <1>5, <1>6, <1>7
  DEF CallMoves, HasWritten, HasFailed

\* An answer is counted as what it says the call has done.
LEMMA ReportAnswered ==
    ASSUME SystemTypes, CliCalling, ReportInv, Answered
    PROVE  ReportInv'
<1>1. /\ UNCHANGED <<mem, seq, keys, todo, began>>
      /\ phase = "call" /\ pc[Cli] = "reply"
  BY DEF Answered, Return, Fails, NextStatement, storeVars
<1>2. CASE phase' \in {"failed", "ready"} \/ (phase' = "flush" /\ ~IsBulk /\ script' = script)
  BY <1>1, <1>2 DEF ReportInv, InLoop, IsBulk, Current
<1>3. ASSUME result[Cli] # "error", IsBulk, phase' = "loop", script' = script,
             report' = Tally(report, Counted(result[Cli]))
      PROVE  ReportInv'
  <2>1. Books
    BY <1>1, <1>3 DEF ReportInv, InLoop, HasFailed
  <2>2. HasWritten <=> result[Cli] = "Rewritten"
    BY <1>1 DEF HasWritten
  <2>3. /\ report'.visited = report.visited + 1
        /\ report' \in VacuumAllReport
        /\ \/ /\ HasWritten /\ report'.rewritten = report.rewritten + 1
              /\ report'.kept + report'.stale_or_missing
                    = report.kept + report.stale_or_missing
           \/ /\ ~HasWritten /\ report'.rewritten = report.rewritten
              /\ report'.kept + report'.stale_or_missing
                    = report.kept + report.stale_or_missing + 1
    BY <1>3, <2>2, BookTypes, Tallied
  <2>4. Newer' = Newer /\ ~HasWritten'
    BY <1>1, <1>3 DEF Newer, HasWritten
  <2>5. /\ report'.rewritten \in Nat /\ report'.kept \in Nat
        /\ report'.stale_or_missing \in Nat
    BY <2>3 DEF VacuumAllReport
  <2>6. Books'
    BY <1>1, <1>3, <2>1, <2>3, <2>4, <2>5, BookTypes DEF Books
  <2> QED
    BY <1>1, <1>3, <2>6 DEF ReportInv
<1> QED
  BY <1>2, <1>3 DEF Answered, Fails, NextStatement, Tally, IsBulk, BulkOps, SingleOps

\* A job gives no key a new version.
LEMMA JobsKeepNewer ==
    ASSUME SystemTypes, Compacts
    PROVE  Newer' = Newer /\ seq' = seq
<1>1. began' = began /\ seq' = seq
  BY DEF Compacts, Compaction, cliVars, FilterNext, RunCompactor, StartJob, FilterRow,
         CommitJob, AbortJob, storeVars
<1>2. \A k \in Keys : mem'[k].seq = mem[k].seq
  <2>1. CASE CommitJob
    BY <2>1 DEF CommitJob, Compacted, SystemTypes, FilterInv, OutReplaces
  <2>2. CASE UNCHANGED storeVars
    BY <2>2 DEF storeVars
  <2> QED
    BY <2>1, <2>2
    DEF Compacts, Compaction, FilterNext, RunCompactor, StartJob, FilterRow, AbortJob
<1> QED
  BY <1>1, <1>2 DEF Newer

\* Every step keeps the books.
LEMMA ReportStep ==
    ASSUME SystemTypes, CliCalling, ReportInv, [CliNext]_cliAll
    PROVE  ReportInv'
<1>1. CASE EndScan
  BY <1>1, ReportBegins
<1>2. CASE Visit
  BY <1>2, ReportVisits
<1>3. CASE InCall \/ (EngineStep /\ EngineError(Cli))
  BY <1>3, ReportInCall
<1>4. CASE Answered
  BY <1>4, ReportAnswered
<1>5. ASSUME Single PROVE ReportInv'
  <2>1. keys' = keys /\ phase' = "call" /\ script' = script /\ ~IsBulk
    BY <1>5 DEF Single, Await, IsBulk, BulkOps, SingleOps
  <2>2. ~IsBulk'
    BY <2>1 DEF IsBulk, Current
  <2> QED
    BY <2>1, <2>2 DEF ReportInv, InLoop
<1>6. ASSUME Open \/ Unparsable \/ Explain \/ ScanOrFlushFails \/ FlushAll PROVE ReportInv'
  <2>1. keys' = keys /\ phase' \notin {"scan", "loop", "call", "flush"}
    BY <1>6
    DEF Open, Unparsable, Explain, ScanOrFlushFails, FlushAll, Fails, NextStatement
  <2> QED
    BY <2>1 DEF ReportInv, InLoop
<1>7. ASSUME BeginScan \/ Exit \/ Kill PROVE ReportInv'
  <2>1. keys' = {} /\ phase' \in {"scan", "closed"} /\ report' = NoReport
    BY <1>7 DEF BeginScan, Exit, Kill, Gone
  <2> QED
    BY <2>1, FS_EmptySet DEF ReportInv, InLoop
<1>8. ASSUME ScanRow PROVE ReportInv'
  <2>1. /\ phase' \in {"scan", "failed"} /\ report' = report /\ phase = "scan"
        /\ keys' = keys \/ \E k \in todo : keys' = keys \union {k}
    BY <1>8 DEF ScanRow, Fails
  <2>2. IsFiniteSet(keys')
    BY <2>1, FS_AddElement DEF ReportInv
  <2> QED
    BY <2>1, <2>2 DEF ReportInv, InLoop
<1>9. ASSUME BudgetSpent \/ EndLoop PROVE ReportInv'
  <2>1. /\ UNCHANGED <<mem, seq, keys, todo, began, script>>
        /\ phase = "loop" /\ phase' = "flush"
    BY <1>9 DEF BudgetSpent, EndLoop, allVars, vars, storeVars
  <2>2. /\ report'.visited = report.visited /\ report'.rewritten = report.rewritten
        /\ report'.kept = report.kept
        /\ report'.stale_or_missing = report.stale_or_missing
        /\ report'.timed_out \/ todo = {}
    BY <1>9, BookTypes DEF BudgetSpent, EndLoop, VacuumAllReport
  <2>3. Newer' = Newer /\ ~HasWritten /\ ~HasWritten' /\ ~HasFailed
    BY <2>1 DEF Newer, HasWritten, HasFailed
  <2>4. InLoop' => InLoop
    BY <2>1 DEF InLoop, IsBulk, Current
  <2>5. Books => Books'
    BY <2>1, <2>2, <2>3 DEF Books
  <2> QED
    BY <2>1, <2>3, <2>4, <2>5 DEF ReportInv
<1>10. ASSUME Compacts PROVE ReportInv'
  <2>1. Newer' = Newer /\ seq' = seq
    BY <1>10, JobsKeepNewer
  <2>2. UNCHANGED <<keys, todo, report, began, script, phase, pc, call, result>>
    BY <1>10 DEF Compacts, Compaction, taskVars, cliVars, processVars
  <2> QED
    BY <2>1, <2>2
    DEF ReportInv, InLoop, HasFailed, HasWritten, Books, IsBulk, Current, Key
<1>11. ASSUME (EngineStep /\ BackgroundFlush) \/ UNCHANGED cliAll PROVE ReportInv'
  <2>1. UNCHANGED <<mem, seq, keys, todo, report, began, script, phase, pc, call, result>>
    BY <1>11
    DEF EngineStep, BackgroundFlush, StoreFlush, cliAll, allVars, vars, storeVars,
        taskVars, cliVars, processVars
  <2> QED
    BY <2>1
    DEF ReportInv, InLoop, HasFailed, HasWritten, Books, IsBulk, Current, Key, Newer
<1> QED
  BY <1>1, <1>2, <1>3, <1>4, <1>5, <1>6, <1>7, <1>8, <1>9, <1>10, <1>11
  DEF CliNext, ProcessStep, EngineStep

\* What plan_all, vacuum_all and migrate_all report is what they have done to
\* the store, for any keys, whatever calls fail and jobs commit meanwhile.
THEOREM ReportsCorrect == CliSpec => []ReportExplainsStore
<1>1. CliInit => ReportInv
  BY FS_EmptySet DEF CliInit, ReportInv, InLoop
<1>2. SystemTypes /\ CliCalling /\ ReportInv /\ [CliNext]_cliAll => ReportInv'
  BY ReportStep
<1>3. SystemTypes /\ CliCalling /\ ReportInv => ReportExplainsStore
  <2> SUFFICES ASSUME SystemTypes, CliCalling, ReportInv, BulkDone
               PROVE  ReportExplainsStore
    BY DEF ReportExplainsStore
  <2>1. Books /\ ~HasWritten /\ phase = "flush"
    BY DEF ReportInv, InLoop, HasFailed, HasWritten, BulkDone
  <2> QED
    BY <2>1, BookTypes DEF Books, ReportExplainsStore, Newer
<1> QED
  BY <1>1, <1>2, <1>3, CallsMatch, PTL DEF CliSpec

-----------------------------------------------------------------------------
(* Migration *)

\* What a database can be migrated with beside the compactors that run: they
\* register no stream that the migration does not, and read either nothing but
\* its target, or nothing that it writes.
OnTarget(rt) == \A s \in Suppliers : s.rt.registry \subseteq {rt.target}
Migratable(rt) ==
    /\ \A s \in Suppliers : s.rt.registry \subseteq rt.registry
    /\ \/ OnTarget(rt)
       \/ /\ \A s \in Suppliers : rt.target \notin s.rt.registry
          /\ \A o \in Opts, v \in Values :
                \A c \in Chunkings[rt.target, o, v] : c.stream = rt.target

Migrates(statement) == statement.op = "migrate"
CompactorsAside ==
    \A c \in Commands : \A n \in DOMAIN c.script :
        Migrates(c.script[n]) => Migratable(c.runtime)

RowDecodes(e) == e = Absent \/ Decodable(e)

\* A row that migration has rewritten, and that no compactor can undo.
Migrated(e) ==
    /\ e # Absent /\ Decodable(e) /\ e.kind = "plan"
    /\ Reconstructs({runtime.target}, e)
    /\ ~OnTarget(runtime) => e.stream = runtime.target

\* A plan that a rewrite has made of a row that decodes has migrated it.
LEMMA PlannedMigrates ==
    ASSUME PlansFit, Migratable(runtime), runtime \in Runtime, NEW o \in Opts,
           NEW v \in Values, NEW source, Decodable(source), Logical(source) = v,
           source # Absent, NEW e \in Plans(runtime, o, v)
    PROVE  Migrated(e) /\ ReadsWith(runtime.registry, e) /\ RowDecodes(e)
<1>1. PICK c \in Chunkings[runtime.target, o, v] : e = PlanFor(v, c)
  BY DEF Plans, Candidates
<1>2. runtime.target \in Streams
  BY DEF Runtime
<1>3. c \in Chunking /\ c.stream \in {runtime.target, NoStream}
  BY <1>2, PlanningAssumption, StreamAssumption
<1>4. /\ e.kind = "plan" /\ e.hash = v /\ e.stream = c.stream /\ e.spells = c.spells
      /\ e.chunks = c.chunks /\ e.chunks <= MaxChunkCount
  BY <1>1, PlanFits DEF PlanFor
<1>5. Reconstructs(runtime.registry, e) /\ Reconstructs({runtime.target}, e)
  BY <1>3, <1>4 DEF Plans, Reconstructs
<1>6. e \in Envelope
  BY <1>1, <1>3 DEF PlanFor, Chunking, Envelope
<1>7. e # Absent /\ e # Corrupt
  BY <1>6, EnvelopeAssumption
<1>8. Size[v] <= MaxLogicalLen
  BY EnvelopeAssumption DEF Decodable, Logical
<1>9. Decodable(e)
  BY <1>4, <1>7, <1>8 DEF Decodable
<1>10. ~OnTarget(runtime) => e.stream = runtime.target
  BY <1>2, <1>4 DEF Migratable
<1> QED
  BY <1>4, <1>5, <1>7, <1>9, <1>10 DEF Migrated, ReadsWith, RowDecodes

\* What a job puts in the place of a row, seen by a migration.
LEMMA JobsAside ==
    ASSUME PlansFit, SystemTypes, supplier \in Suppliers, Compaction, NEW k \in Keys
    PROVE  \/ mem'[k].env = mem[k].env
           \/ /\ RowDecodes(mem[k].env) /\ mem[k].env # Absent
              /\ RowDecodes(mem'[k].env)
              /\ Migratable(runtime) => ReadsWith(runtime.registry, mem'[k].env)
              /\ Migratable(runtime) /\ Migrated(mem[k].env) => Migrated(mem'[k].env)
<1>1. CASE mem'[k].env # mem[k].env
  <2>1. CommitJob
    BY <1>1 DEF Compaction, FilterNext, RunCompactor, StartJob, FilterRow, AbortJob,
                storeVars
  <2>2. mem'[k].env = job.out[k].env /\ mem[k].env = job.rows[k].env
    BY <1>1, <2>1 DEF CommitJob, Compacted, SystemTypes, FilterInv, RowsAsRead
  <2> DEFINE row == mem[k].env
             e == mem'[k].env
  <2>3. Replaces(k, e)
    BY <1>1, <2>1, <2>2 DEF CommitJob, SystemTypes, FilterInv, OutReplaces, Filtered
  <2>4. row \in Envelope /\ row.hash \in Values /\ row # Absent /\ Decodable(row)
    BY <2>2, <2>3, JobParts, DecodableIsEnvelope
    DEF SystemTypes, FilterInv, TypesOK, Replaces
  <2>5. supplier.rt \in Runtime
    BY JobParts DEF SystemTypes, FilterInv, TypesOK
  <2>6. /\ e \in Plans(supplier.rt, DefaultOpts, row.hash)
        /\ Reconstructs(supplier.rt.registry, e)
        /\ row.kind = "plan" => Reconstructs(supplier.rt.registry, row)
    BY <2>2, <2>3 DEF Replaces
  <2> HIDE DEF e, row
  <2>7. /\ e \in Envelope /\ e.kind = "plan" /\ e.hash = row.hash
        /\ e.chunks <= MaxChunkCount
    BY <2>4, <2>5, <2>6, PlansSpell, PlanFits, PlanningAssumption
  <2>8. e # Absent /\ e # Corrupt /\ Decodable(e)
    BY <2>4, <2>7, EnvelopeAssumption DEF Decodable
  <2>9. ASSUME Migratable(runtime) PROVE ReadsWith(runtime.registry, e)
    BY <2>6, <2>8, <2>9 DEF ReadsWith, Migratable, Reconstructs
  <2>10. ASSUME Migratable(runtime), Migrated(row) PROVE Migrated(e)
    <3>1. CASE OnTarget(runtime)
      BY <2>6, <2>7, <2>8, <3>1 DEF Migrated, OnTarget, Reconstructs
    <3>2. CASE ~OnTarget(runtime)
      <4>1. row.stream = runtime.target /\ runtime.target \notin supplier.rt.registry
        BY <2>10, <3>2 DEF Migratable, Migrated
      <4>2. runtime.target # NoStream
        BY EnvelopeAssumption DEF SystemTypes, TypeOK, Runtime
      <4> QED
        BY <2>6, <2>10, <4>1, <4>2 DEF Migrated, Reconstructs
    <3> QED
      BY <3>1, <3>2
  <2> QED
    BY <2>4, <2>8, <2>9, <2>10 DEF RowDecodes, e, row
<1> QED
  BY <1>1

\* What the call on a key knows of its row, which a job may replace meanwhile.
CallMigrates ==
    LET row == mem[Key(Cli)].env
        read == ReadsWith(runtime.registry, row)
    IN  /\ pc[Cli] \in ReadingPCs => Decodable(src[Cli]) /\ (row = src[Cli] \/ read)
        /\ pc[Cli] \in PlanningPCs => Decodable(src[Cli])
        /\ pc[Cli] \in PlanningPCs \union {"ack", "reply"} => read
        /\ pc[Cli] \in PlannedPCs =>
              env[Cli] \in Plans(runtime, call[Cli].opts, logical[Cli])
        /\ HasWritten => Migrated(row)

MigratesOn ==
    /\ HasFailed' \/ CallMigrates'
    /\ cache' = {} /\ runtime' = runtime
    /\ \/ mem' = mem
       \/ /\ mem' = [mem EXCEPT ![Key(Cli)] = [seq |-> seq + 1, env |-> env[Cli]]]
          /\ RowDecodes(env[Cli])

\* A step of replan_key: it has failed, or it knows what the next await takes.
LEMMA MigrationCall ==
    ASSUME CacheBytes = 0, PlansFit, SystemInv, CliCalling, phase = "call",
           Current.op = "migrate", Migratable(runtime), cache = {}, CallMigrates,
           pc[Cli] # "reply", Step(Cli) \/ EngineError(Cli), UNCHANGED cliVars
    PROVE  MigratesOn
<1> DEFINE row == mem[Key(Cli)].env
<1>0. /\ Cli \in Tasks /\ phase' = "call"
      /\ pc \in [Tasks -> PCs] /\ src \in [Tasks -> Envelope \union {Absent}]
      /\ env \in [Tasks -> Envelope \union {Absent}]
      /\ result \in [Tasks -> Results \union Values \union {Absent}]
      /\ logical \in [Tasks -> Values \union {Absent}]
  BY CommandLineAssumption DEF SystemInv, PlanInv, TypeOK, cliVars, processVars
<1>1. /\ call[Cli].op = "replan" /\ call[Cli].op \in RewriteOps
      /\ call[Cli] \in Call /\ Key(Cli) \in Keys
  BY <1>0, KeyOfCall
  DEF SystemInv, PlanInv, CliCalling, CallMatches, RewriteOps, CliTypes, CliTypeOK
<1>2. runtime' = runtime
  BY DEF Step, Acquire, Encode, Write, Ack, Flush, Get, LookUp, Reconstruct, Read, Plan,
         Recheck, Rewrite, Return, EngineError
<1>3. ASSUME mem' = mem, call' = call
      PROVE  /\ row' = row /\ (Migrated(row)' <=> Migrated(row))
             /\ ReadsWith(runtime.registry, row)' <=> ReadsWith(runtime.registry, row)
  BY <1>2, <1>3 DEF Key, Migrated, ReadsWith, Reconstructs
<1>4. CASE EngineError(Cli)
  <2>1. HasFailed' /\ mem' = mem /\ cache' = cache
    BY <1>0, <1>4 DEF EngineError, AnswerUnlocking, Answer, Goto, HasFailed, storeVars
  <2> QED
    BY <1>2, <2>1 DEF MigratesOn
<1>5. CASE Acquire(Cli)
  <2>1. /\ UNCHANGED <<mem, call, src, env, logical, cache>>
        /\ \/ pc[Cli] = "relock" /\ pc'[Cli] = "recheck"
           \/ pc[Cli] = "lock" /\ pc'[Cli] = "read"
    BY <1>0, <1>1, <1>5 DEF Acquire, Goto, storeVars, Locals
  <2>2. CallMigrates'
    BY <1>2, <1>3, <2>1
    DEF CallMigrates, HasWritten, ReadingPCs, PlanningPCs, PlannedPCs
  <2> QED
    BY <1>2, <2>1, <2>2 DEF MigratesOn
<1>6. CASE Ack(Cli)
  <2>1. /\ UNCHANGED <<mem, call, src, env, logical, cache>>
        /\ pc[Cli] = "ack" /\ pc'[Cli] = "reply"
    BY <1>0, <1>1, <1>6 DEF Ack, AnswerUnlocking, Answer, Goto, storeVars, Locals
  <2>2. CallMigrates'
    BY <1>0, <1>2, <1>3, <2>1
    DEF CallMigrates, HasWritten, ReadingPCs, PlanningPCs, PlannedPCs
  <2> QED
    BY <1>2, <2>1, <2>2 DEF MigratesOn
<1>7. CASE LookUp(Cli)
  <2>1. /\ UNCHANGED <<mem, call, src, env, cache>> /\ pc[Cli] = "lookup"
        /\ \/ pc'[Cli] = "reply" /\ result'[Cli] = "error"
           \/ pc'[Cli] = "reconstruct"
    BY <1>0, <1>7 DEF LookUp, Answer, Goto, storeVars
  <2>2. HasFailed' \/ CallMigrates'
    BY <1>0, <1>2, <1>3, <2>1
    DEF CallMigrates, HasFailed, HasWritten, ReadingPCs, PlanningPCs, PlannedPCs
  <2> QED
    BY <1>2, <2>1, <2>2 DEF MigratesOn
<1>8. CASE Reconstruct(Cli)
  <2>1. /\ UNCHANGED <<mem, call, src, env>> /\ pc[Cli] = "reconstruct" /\ cache' = {}
        /\ \/ pc'[Cli] = "reply" /\ result'[Cli] = "error"
           \/ pc'[Cli] = "plan" /\ Reconstructs(runtime.registry, env[Cli])
    BY <1>0, <1>1, <1>8
    DEF Reconstruct, Reconstructed, Answer, Goto, storeVars, CachesWith, Inserted
  <2>2. env[Cli] = src[Cli] /\ src[Cli] \in Envelope
    BY <1>0, <1>1, <2>1
    DEF SystemInv, PlanInv, PlansKnown, KnowsPlan, TypeOK, LocalsSet, ReadingPCs
  <2>3. pc'[Cli] = "plan" => ReadsWith(runtime.registry, row)
    BY <2>1, <2>2 DEF CallMigrates, ReadingPCs, ReadsWith
  <2>4. HasFailed' \/ CallMigrates'
    BY <1>0, <1>2, <1>3, <2>1, <2>3
    DEF CallMigrates, HasFailed, HasWritten, ReadingPCs, PlanningPCs, PlannedPCs
  <2> QED
    BY <1>2, <2>1, <2>4 DEF MigratesOn
<1>9. CASE Read(Cli)
  <2>1. /\ UNCHANGED <<mem, call, cache>> /\ pc[Cli] = "read"
        /\ \/ /\ row = Absent /\ pc'[Cli] = "reply"
              /\ result'[Cli] = "SkippedMissingKey"
           \/ pc'[Cli] = "reply" /\ result'[Cli] = "error"
           \/ /\ row # Absent /\ Decodable(row)
              /\ src'[Cli] = row /\ pc'[Cli] = "lookup"
           \/ /\ row # Absent /\ Decodable(row) /\ row.kind = "raw"
              /\ src'[Cli] = row /\ pc'[Cli] = "plan"
    BY <1>0, <1>1, <1>9 DEF Read, AnswerUnlocking, Answer, Goto, storeVars, StoreGet
  <2>2. pc'[Cli] \in {"reply", "plan"} /\ ~HasFailed' => ReadsWith(runtime.registry, row)
    BY <1>0, <2>1 DEF HasFailed, ReadsWith
  <2>3. HasFailed' \/ CallMigrates'
    BY <1>0, <1>2, <1>3, <2>1, <2>2
    DEF CallMigrates, HasFailed, HasWritten, ReadingPCs, PlanningPCs, PlannedPCs
  <2> QED
    BY <1>2, <2>1, <2>3 DEF MigratesOn
<1>10. CASE Plan(Cli)
  <2>1. /\ UNCHANGED <<mem, call, src, logical, cache>> /\ pc[Cli] = "plan"
        /\ \/ /\ pc'[Cli] = "reply"
              /\ result'[Cli] \in {"error", "SkippedPlanningFailed", "SkippedNotImproved"}
           \/ /\ pc'[Cli] = "relock"
              /\ env'[Cli] \in Plans(runtime, call[Cli].opts, logical[Cli])
    BY <1>0, <1>10 DEF Plan, Answer, Goto, storeVars
  <2>2. CallMigrates'
    BY <1>0, <1>2, <1>3, <2>1
    DEF CallMigrates, HasWritten, ReadingPCs, PlanningPCs, PlannedPCs
  <2> QED
    BY <1>2, <2>1, <2>2 DEF MigratesOn
<1>11. CASE Recheck(Cli)
  <2>1. /\ UNCHANGED <<mem, call, src, env, logical, cache>> /\ pc[Cli] = "recheck"
        /\ \/ /\ pc'[Cli] = "reply"
              /\ result'[Cli] \in {"SkippedMissingKey", "SkippedStaleSource"}
           \/ pc'[Cli] = "rewrite"
    BY <1>0, <1>11 DEF Recheck, AnswerUnlocking, Answer, Goto, storeVars, Locals
  <2>2. CallMigrates'
    BY <1>0, <1>2, <1>3, <2>1
    DEF CallMigrates, HasWritten, ReadingPCs, PlanningPCs, PlannedPCs
  <2> QED
    BY <1>2, <2>1, <2>2 DEF MigratesOn
<1>12. CASE Rewrite(Cli)
  <2>1. /\ UNCHANGED <<call, src, env, logical, cache>> /\ pc[Cli] = "rewrite"
        /\ pc'[Cli] = "ack"
        /\ mem' = [mem EXCEPT ![Key(Cli)] = [seq |-> seq + 1, env |-> env[Cli]]]
    BY <1>0, <1>12 DEF Rewrite, Goto, StorePut, Locals
  <2>2. /\ src[Cli] \in Envelope /\ logical[Cli] \in Values
        /\ Logical(src[Cli]) = logical[Cli] /\ Decodable(src[Cli])
        /\ env[Cli] \in Plans(runtime, call[Cli].opts, logical[Cli])
    BY <1>0, <2>1
    DEF SystemInv, PlanInv, PlansKnown, KnowsPlan, TypeOK, LocalsSet, CallMigrates,
        PlanningPCs, PlannedPCs
  <2>3. /\ Migrated(env[Cli]) /\ ReadsWith(runtime.registry, env[Cli])
        /\ RowDecodes(env[Cli])
    BY <1>1, <2>2, PlannedMigrates, EnvelopeAssumption DEF Call, SystemInv, PlanInv, TypeOK
  <2>4. row' = env[Cli]
    BY <1>1, <2>1 DEF SystemInv, PlanInv, TypeOK, StoreTypeOK, Key
  <2>5. Migrated(row)' /\ ReadsWith(runtime.registry, row)'
    BY <1>2, <2>3, <2>4 DEF Migrated
  <2>6. CallMigrates'
    BY <2>1, <2>5 DEF CallMigrates, ReadingPCs, PlanningPCs, PlannedPCs
  <2> QED
    BY <1>2, <2>1, <2>3, <2>6 DEF MigratesOn
<1>13. CASE Encode(Cli) \/ Write(Cli) \/ Get(Cli) \/ Flush(Cli) \/ Return(Cli)
  BY <1>0, <1>1, <1>13
  DEF Encode, Write, Get, Flush, Return, SystemInv, PlanInv, TypeOK, LocalsSet,
      CliCalling, CallsFit, CallFits
<1> QED
  BY <1>4, <1>5, <1>6, <1>7, <1>8, <1>9, <1>10, <1>11, <1>12, <1>13 DEF Step

\* The statements to come can be carried out with the runtime there is.
ScriptFits == \A n \in DOMAIN script : Migrates(script[n]) => Migratable(runtime)

\* A key that the loop has passed.
PassedBy(k) ==
    /\ ReadsWith(runtime.registry, mem[k].env)
    /\ report.kept + report.stale_or_missing = 0 => Migrated(mem[k].env)

\* What the scan has found decodes; what the loop has passed reads with both
\* streams, and with the target alone if all of it has been rewritten.
Scanned ==
    \A k \in Keys \ todo :
        RowDecodes(mem[k].env) /\ (k \in keys \/ mem[k].env = Absent)
Moved ==
    /\ todo \subseteq keys
    /\ \A k \in Keys : RowDecodes(mem[k].env) /\ (k \in keys \/ mem[k].env = Absent)
    /\ \A k \in keys \ todo : (phase = "call" /\ k = Key(Cli)) \/ PassedBy(k)
    /\ phase = "call" => Key(Cli) \in keys /\ CallMigrates
    /\ phase = "flush" => todo = {}

Migrating ==
    phase \in {"loop", "call", "flush"} /\ Current.op = "migrate" /\ ~HasFailed

MigrationInv ==
    /\ cache = {} /\ supplier \in Suppliers
    /\ ScriptFits
    /\ phase = "scan" => Scanned
    /\ Migrating => Moved

\* A process keeps the streams it has opened the database with.
LEMMA RuntimeStays == [CliNext]_cliAll => Exit \/ Kill \/ runtime' = runtime
  BY DEF CliNext, ProcessStep, Open, Unparsable, Explain, BeginScan, ScanRow, EndScan,
         BudgetSpent, EndLoop, ScanOrFlushFails, FlushAll, EngineStep, BackgroundFlush,
         Compacts, Compaction, InCall, Step, Acquire, Encode, Write, Ack, Flush, Get,
         LookUp, Reconstruct, Read, Plan, Recheck, Rewrite, Return, EngineError,
         Single, Visit, Await, Invoke, Answered, cliAll, allVars, vars

\* With the cache off nothing is cached; a compactor is one of those there are.
LEMMA NothingCached ==
    ASSUME CacheBytes = 0, cache = {}, supplier \in Suppliers, [CliNext]_cliAll
    PROVE  cache' = {} /\ supplier' \in Suppliers
<1>1. [SystemNext]_allVars
  BY CliIsSystem
<1>2. ASSUME [Next]_vars, UNCHANGED filterVars PROVE cache' = {} /\ supplier' = supplier
  BY <1>2
  DEF Next, TaskNext, Step, vars, Invoke, Acquire, Encode, Write, Ack, Flush, Get,
      LookUp, Reconstruct, Read, Plan, Recheck, Rewrite, Return, EngineError, Cancel,
      BackgroundFlush, Restart, CachesWith, Inserted, filterVars
<1>3. ASSUME Compaction PROVE cache' = {} /\ supplier' \in Suppliers
  BY <1>3 DEF Compaction, FilterNext, RunCompactor, StartJob, FilterRow, CommitJob,
              AbortJob
<1> QED
  BY <1>1, <1>2, <1>3 DEF SystemNext, allVars

\* The script only gets shorter.
LEMMA ScriptFitsStep ==
    ASSUME CompactorsAside, SystemTypes, CliTypes, ScriptFits, [CliNext]_cliAll
    PROVE  ScriptFits'
<1>1. CASE Exit \/ Kill
  BY <1>1 DEF Exit, Kill, Gone, ScriptFits
<1>2. CASE Open
  <2>1. PICK c \in Commands : c.runtime = runtime /\ script' = c.script
    BY <1>2 DEF Open
  <2>2. runtime' = runtime
    BY <1>2 DEF Open, allVars, vars
  <2> QED
    BY <2>1, <2>2 DEF CompactorsAside, ScriptFits, Migratable, OnTarget
<1>3. ASSUME script' \in {script, Tail(script)}, runtime' = runtime,
             script' # script => script # <<>>
      PROVE  ScriptFits'
  <2>1. CASE script' = script
    BY <1>3, <2>1 DEF ScriptFits, Migratable, OnTarget
  <2>2. CASE script' = Tail(script) /\ script # <<>>
    <3>1. script \in Seq(Statement)
      BY DEF CliTypes, CliTypeOK
    <3>2. \A n \in DOMAIN script' : n + 1 \in DOMAIN script /\ script'[n] = script[n + 1]
      BY <2>2, <3>1
    <3> QED
      BY <1>3, <3>2 DEF ScriptFits, Migratable, OnTarget
  <2> QED
    BY <1>3, <2>1, <2>2
<1>4. CASE ~(Exit \/ Kill \/ Open)
  <2>1. script' \in {script, Tail(script)} /\ (script' # script => script # <<>>)
    BY <1>4
    DEF CliNext, ProcessStep, Single, Unparsable, Explain, BeginScan, ScanRow, EndScan,
        Visit, BudgetSpent, EndLoop, Answered, FlushAll, InCall, ScanOrFlushFails,
        EngineStep, Compacts, Await, Fails, NextStatement, cliVars, processVars, cliAll,
        CliTypes, CliTypeOK
  <2>2. runtime' = runtime
    BY <1>4, RuntimeStays
  <2> QED
    BY <1>3, <2>1, <2>2
<1> QED
  BY <1>1, <1>2, <1>4

\* The loop begins with rows that decode, and has passed none.
LEMMA MigrationBegins ==
    ASSUME CliCalling, MigrationInv, EndScan PROVE Migrating' => Moved'
<1>1. phase = "scan" /\ todo = {} /\ keys' = keys /\ mem' = mem /\ Scanned
  BY DEF EndScan, NextStatement, allVars, vars, storeVars, MigrationInv
<1>2. SUFFICES ASSUME Migrating' PROVE Moved'
  OBVIOUS
<1>3. phase' = "loop" /\ todo' = keys
  BY <1>2 DEF EndScan, NextStatement, Migrating
<1> QED
  BY <1>1, <1>3, CommandLineAssumption
  DEF Moved, Scanned, RowDecodes, CliCalling, CliTypes, CliTypeOK

\* It visits one key at a time.
LEMMA MigrationVisits ==
    ASSUME SystemTypes, CliCalling, MigrationInv, Visit, runtime' = runtime
    PROVE  Migrating' => Moved'
<1>1. PICK k \in todo : Await(RewriteOf(Current.op), k) /\ todo' = todo \ {k}
  BY DEF Visit
<1>2. /\ phase = "loop" /\ UNCHANGED <<mem, keys, report, script>>
      /\ phase' = "call" /\ pc'[Cli] \in {"get", "lock"} /\ Key(Cli)' = k
  BY <1>1, AwaitMatches DEF CliCalling, Visit, Await, Key, storeVars
<1>3. SUFFICES ASSUME Migrating' PROVE Moved'
  OBVIOUS
<1>4. Moved
  BY <1>2, <1>3 DEF Migrating, MigrationInv, HasFailed, Current
<1>5. CallMigrates'
  BY <1>2 DEF CallMigrates, HasWritten, ReadingPCs, PlanningPCs, PlannedPCs
<1>6. \A j \in Keys : PassedBy(j)' <=> PassedBy(j)
  BY <1>2 DEF PassedBy, Migrated, ReadsWith, Reconstructs
<1> QED
  BY <1>1, <1>2, <1>4, <1>5, <1>6 DEF Moved, RowDecodes, CliCalling, CliTypes, CliTypeOK

\* What a call writes decodes, and no other row changes.
LEMMA MigrationInCall ==
    ASSUME CacheBytes = 0, PlansFit, SystemInv, CliCalling, MigrationInv,
           InCall \/ (EngineStep /\ EngineError(Cli))
    PROVE  Migrating' => Moved'
<1>0. SUFFICES ASSUME Migrating' PROVE Moved'
  OBVIOUS
<1>1. /\ phase = "call" /\ UNCHANGED cliVars /\ SameCall(Cli) /\ pc[Cli] # "reply"
      /\ Key(Cli) \in Keys
  BY CallGoesOn DEF SystemTypes, SystemInv, PlanInv, InCall, EngineStep, EngineError
<1>2. UNCHANGED <<phase, script, keys, todo, report>> /\ Key(Cli)' = Key(Cli)
  BY <1>1 DEF cliVars, processVars, SameCall, Key
<1>3. Moved /\ Current.op = "migrate" /\ CallMigrates
  BY <1>0, <1>1, <1>2 DEF Migrating, MigrationInv, Moved, HasFailed, Current
<1>4. Migratable(runtime)
  <2>1. script \in Seq(Statement) /\ script # <<>>
    BY <1>1 DEF CliCalling, CliTypes, CliTypeOK
  <2>2. 1 \in DOMAIN script /\ Current = script[1]
    BY <2>1 DEF Current
  <2> QED
    BY <1>3, <2>2 DEF MigrationInv, ScriptFits, Migrates
<1>5. MigratesOn
  BY <1>1, <1>3, <1>4, MigrationCall DEF InCall, EngineStep, MigrationInv
<1>6. CallMigrates'
  BY <1>0, <1>5 DEF MigratesOn, Migrating
<1>7. /\ \A k \in Keys \ {Key(Cli)} : mem'[k] = mem[k]
      /\ RowDecodes(mem'[Key(Cli)].env)
  BY <1>1, <1>3, <1>5 DEF MigratesOn, Moved, SystemInv, PlanInv, TypeOK, StoreTypeOK
<1>8. \A k \in Keys \ {Key(Cli)} : PassedBy(k)' <=> PassedBy(k)
  BY <1>2, <1>5, <1>7 DEF MigratesOn, PassedBy, Migrated, ReadsWith, Reconstructs
<1> QED
  BY <1>1, <1>2, <1>3, <1>6, <1>7, <1>8
  DEF Moved, RowDecodes, CliCalling, CliTypes, CliTypeOK

\* An answer that is not an error says that the key reads, and one that counts
\* nothing kept and nothing stale that it has been migrated.
LEMMA MigrationAnswered ==
    ASSUME SystemTypes, CliCalling, MigrationInv, Answered, runtime' = runtime
    PROVE  Migrating' => Moved'
<1>0. SUFFICES ASSUME Migrating' PROVE Moved'
  OBVIOUS
<1>1. /\ UNCHANGED <<mem, keys, todo>> /\ phase = "call" /\ pc[Cli] = "reply"
      /\ phase' # "call"
  BY DEF Answered, Return, Fails, NextStatement, storeVars
<1>2. /\ phase' \in {"loop", "flush"} /\ result[Cli] # "error" /\ script' = script
  BY <1>0 DEF Answered, Fails, NextStatement, Migrating
<1>3. IsBulk /\ Current.op = "migrate"
  BY <1>0, <1>2 DEF Migrating, Current, IsBulk, BulkOps
<1>4. phase' = "loop" /\ report' = Tally(report, Counted(result[Cli]))
  BY <1>2, <1>3
  DEF Answered, Fails, NextStatement, Tally, IsBulk, BulkOps, SingleOps
<1>5. Moved /\ CallMigrates
  BY <1>1, <1>2, <1>3 DEF MigrationInv, Migrating, Moved, HasFailed
<1>6. /\ report'.kept + report'.stale_or_missing = 0 =>
            /\ report.kept + report.stale_or_missing = 0
            /\ result[Cli] = "Rewritten"
  <2>1. PICK r, q : r = report /\ q = Tally(r, Counted(result[Cli]))
    OBVIOUS
  <2>2. r \in VacuumAllReport
    BY <2>1, BookTypes
  <2>3. /\ r.kept \in Nat /\ r.stale_or_missing \in Nat
        /\ q.kept \in Nat /\ q.stale_or_missing \in Nat
        /\ \/ result[Cli] = "Rewritten"
              /\ q.kept + q.stale_or_missing = r.kept + r.stale_or_missing
           \/ q.kept + q.stale_or_missing = r.kept + r.stale_or_missing + 1
    BY <2>1, <2>2, Tallied DEF VacuumAllReport
  <2>4. report' = q
    BY <1>4, <2>1
  <2> QED
    BY <2>1, <2>3, <2>4
<1>7. ReadsWith(runtime.registry, mem[Key(Cli)].env)
      /\ (result[Cli] = "Rewritten" => Migrated(mem[Key(Cli)].env))
  BY <1>1, <1>5 DEF CallMigrates, HasWritten
<1>8. \A k \in Keys : Migrated(mem[k].env)' <=> Migrated(mem[k].env)
  BY <1>1 DEF Migrated, ReadsWith, Reconstructs
<1>9. \A k \in keys \ todo : PassedBy(k)'
  BY <1>1, <1>5, <1>6, <1>7, <1>8, BookTypes DEF Moved, PassedBy
<1> QED
  BY <1>1, <1>4, <1>5, <1>9 DEF Moved, RowDecodes

\* A compactor leaves a row that reads readable, and one migrated as it is.
LEMMA MigrationBeside ==
    ASSUME PlansFit, SystemTypes, CliCalling, MigrationInv, Compacts
    PROVE  /\ phase' = "scan" => Scanned'
           /\ Migrating' => Moved'
<1>1. /\ Compaction /\ UNCHANGED <<phase, script, keys, todo, report>>
      /\ UNCHANGED <<pc, call, src, env, logical, result, runtime>>
  BY DEF Compacts, Compaction, taskVars, cliVars, processVars
<1>2. \A e : /\ Migrated(e)' <=> Migrated(e)
             /\ ReadsWith(runtime.registry, e)' <=> ReadsWith(runtime.registry, e)
             /\ RowDecodes(e)' <=> RowDecodes(e)
  BY <1>1 DEF Migrated, ReadsWith, Reconstructs, RowDecodes
<1>3. \A k \in Keys :
        \/ mem'[k].env = mem[k].env
        \/ /\ RowDecodes(mem[k].env) /\ mem[k].env # Absent
           /\ RowDecodes(mem'[k].env)
           /\ Migratable(runtime) => ReadsWith(runtime.registry, mem'[k].env)
           /\ Migratable(runtime) /\ Migrated(mem[k].env) => Migrated(mem'[k].env)
  BY <1>1, JobsAside DEF MigrationInv
<1>4. ASSUME phase' = "scan" PROVE Scanned'
  BY <1>1, <1>3, <1>4 DEF MigrationInv, Scanned, RowDecodes
<1>5. ASSUME Migrating' PROVE Moved'
  <2>1. Migrating /\ Moved
    BY <1>1, <1>5 DEF Migrating, MigrationInv, HasFailed, Current
  <2>2. Migratable(runtime)
    <3>1. script \in Seq(Statement) /\ script # <<>>
      BY <2>1 DEF CliCalling, CliTypes, CliTypeOK, Migrating
    <3>2. 1 \in DOMAIN script /\ Current = script[1]
      BY <3>1 DEF Current
    <3> QED
      BY <2>1, <3>2 DEF Migrating, MigrationInv, ScriptFits, Migrates
  <2>3. /\ \A k \in Keys :
              /\ RowDecodes(mem'[k].env)
              /\ mem[k].env = Absent => mem'[k].env = Absent
              /\ ReadsWith(runtime.registry, mem[k].env)
                    => ReadsWith(runtime.registry, mem'[k].env)
              /\ mem'[k].env # mem[k].env => ReadsWith(runtime.registry, mem'[k].env)
              /\ Migrated(mem[k].env) => Migrated(mem'[k].env)
    BY <1>3, <2>1, <2>2 DEF Moved
  <2>4. \A k \in Keys : PassedBy(k) => PassedBy(k)'
    BY <1>1, <1>2, <2>3 DEF PassedBy
  <2>5. Key(Cli)' = Key(Cli) /\ (HasWritten' <=> HasWritten) /\ keys \subseteq Keys
    BY <1>1 DEF Key, HasWritten, CliCalling, CliTypes, CliTypeOK
  <2>6. phase = "call" => CallMigrates'
    <3>1. SUFFICES ASSUME CallMigrates, Key(Cli) \in Keys PROVE CallMigrates'
      BY <2>1, <2>5 DEF Moved
    <3> DEFINE k == Key(Cli)
    <3>2. /\ mem'[k].env = src[Cli] \/ mem[k].env # src[Cli]
             \/ ReadsWith(runtime.registry, mem'[k].env)
          /\ ReadsWith(runtime.registry, mem[k].env)
                    => ReadsWith(runtime.registry, mem'[k].env)
          /\ Migrated(mem[k].env) => Migrated(mem'[k].env)
      BY <2>3, <3>1
    <3> QED
      BY <1>1, <1>2, <2>5, <3>1, <3>2 DEF CallMigrates
  <2> QED
    BY <1>1, <1>2, <2>1, <2>3, <2>4, <2>5, <2>6 DEF Moved
<1> QED
  BY <1>4, <1>5

\* Every step keeps it.
LEMMA MigrationStep ==
    ASSUME CacheBytes = 0, PlansFit, CompactorsAside,
           SystemInv, SystemTypes, CliCalling, MigrationInv, [CliNext]_cliAll
    PROVE  MigrationInv'
<1>1. /\ cache' = {} /\ supplier' \in Suppliers /\ ScriptFits'
      /\ Exit \/ Kill \/ runtime' = runtime
  BY NothingCached, ScriptFitsStep, RuntimeStays DEF MigrationInv, CliCalling
<1>2. SUFFICES /\ phase' = "scan" => Scanned'
               /\ Migrating' => Moved'
  BY <1>1 DEF MigrationInv
<1>3. CASE EndScan
  BY <1>3, MigrationBegins DEF EndScan, NextStatement
<1>4. CASE Visit
  BY <1>1, <1>4, MigrationVisits DEF Visit, Await, Exit, Kill, Gone
<1>5. CASE InCall \/ (EngineStep /\ EngineError(Cli))
  BY <1>5, CallGoesOn, MigrationInCall DEF cliVars, processVars
<1>6. CASE Answered
  <2>1. runtime' = runtime /\ phase' # "scan"
    BY <1>6 DEF Answered, Return, Fails, NextStatement
  <2> QED
    BY <1>6, <2>1, MigrationAnswered
<1>7. CASE Compacts
  BY <1>7, MigrationBeside
<1>8. CASE Single
  <2>1. phase' = "call" /\ script' = script /\ Current.op # "migrate"
    BY <1>8 DEF Single, Await, SingleOps
  <2> QED
    BY <2>1 DEF Migrating, Current
<1>9. CASE Open \/ Unparsable \/ Explain \/ ScanOrFlushFails \/ FlushAll \/ Exit \/ Kill
  BY <1>9 DEF Open, Unparsable, Explain, ScanOrFlushFails, FlushAll, Exit, Kill, Gone,
              Fails, NextStatement, Migrating
<1>10. CASE BeginScan
  BY <1>10 DEF BeginScan, Migrating, Scanned
<1>11. CASE ScanRow
  <2>1. phase = "scan" /\ phase' \in {"scan", "failed"} /\ mem' = mem
    BY <1>11 DEF ScanRow, Fails, allVars, vars, storeVars
  <2>2. ASSUME phase' = "scan" PROVE Scanned'
    <3>1. PICK k \in todo : /\ RowDecodes(mem[k].env) /\ todo' = todo \ {k}
                            /\ keys' = IF mem[k].env = Absent THEN keys
                                       ELSE keys \union {k}
      BY <1>11, <2>2 DEF ScanRow, Fails, StoreGet, RowDecodes
    <3> QED
      BY <2>1, <3>1 DEF MigrationInv, Scanned, RowDecodes
  <2> QED
    BY <2>1, <2>2 DEF Migrating
<1>12. CASE BudgetSpent \/ EndLoop
  <2>1. /\ phase = "loop" /\ phase' = "flush" /\ UNCHANGED <<script, keys, todo>>
        /\ UNCHANGED <<mem, runtime>>
        /\ Current.op = "migrate" => todo = {} /\ report' = report
    BY <1>12 DEF BudgetSpent, EndLoop, allVars, vars, storeVars
  <2>2. Migrating' => Moved /\ Current.op = "migrate"
    BY <2>1 DEF Migrating, MigrationInv, HasFailed, Current
  <2>3. \A e : Migrated(e)' <=> Migrated(e)
    BY <2>1 DEF Migrated
  <2> QED
    BY <2>1, <2>2, <2>3 DEF Moved, PassedBy, RowDecodes
<1>13. ASSUME (EngineStep /\ BackgroundFlush) \/ UNCHANGED cliAll
       PROVE  (phase' = "scan" => Scanned') /\ (Migrating' => Moved')
  <2>1. /\ UNCHANGED <<mem, runtime, phase, script, keys, todo, report>>
        /\ UNCHANGED <<pc, call, src, env, logical, result>>
    BY <1>13
    DEF EngineStep, BackgroundFlush, StoreFlush, cliAll, allVars, vars, storeVars,
        taskVars, cliVars, processVars
  <2> QED
    BY <2>1
    DEF MigrationInv, Scanned, Migrating, Moved, PassedBy, CallMigrates, HasFailed,
        HasWritten, Migrated, RowDecodes, Current, Key
<1> QED
  BY <1>3, <1>4, <1>5, <1>6, <1>7, <1>8, <1>9, <1>10, <1>11, <1>12, <1>13
  DEF CliNext, ProcessStep, EngineStep

\* migrate does what it says, for any rows that were there, with calls failing
\* and jobs committing at any point: what it has visited reads, and with the
\* target alone when it reports nothing kept and nothing stale.
THEOREM MigrationCorrect ==
    ASSUME CacheBytes = 0, PlansFit, CompactorsAside
    PROVE  CliSpec => []MigrationComplete
<1>1. HonestOrUncached
  BY DEF HonestOrUncached
<1>2. CliInit => MigrationInv
  BY DEF CliInit, SystemInit, Init, FilterInit, MigrationInv, ScriptFits, Migrating
<1>3. SystemInv /\ SystemTypes /\ CliCalling /\ MigrationInv /\ [CliNext]_cliAll
        => MigrationInv'
  BY MigrationStep
<1>4. SystemTypes /\ CliCalling /\ MigrationInv => MigrationComplete
  <2> SUFFICES ASSUME SystemTypes, CliCalling, MigrationInv, BulkDone,
                      Current.op = "migrate", NEW k \in Keys
               PROVE  /\ ReadsWith(runtime.registry, mem[k].env)
                      /\ report.kept + report.stale_or_missing = 0 =>
                            ReadsWith({runtime.target}, mem[k].env)
    BY DEF MigrationComplete
  <2>1. phase = "flush" /\ Moved /\ todo = {}
    BY DEF BulkDone, MigrationInv, Migrating, HasFailed, Moved
  <2>2. CASE mem[k].env = Absent
    BY <2>2 DEF ReadsWith
  <2>3. CASE k \in keys
    BY <2>1, <2>3 DEF Moved, PassedBy, Migrated, ReadsWith
  <2> QED
    BY <2>1, <2>2, <2>3 DEF Moved
<1> QED
  BY <1>1, <1>2, <1>3, <1>4, CliSystemInv, CallsMatch, PTL DEF CliSpec

=============================================================================
