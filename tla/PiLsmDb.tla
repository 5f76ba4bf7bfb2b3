------------------------------- MODULE PiLsmDb -------------------------------
(***************************************************************************)
(* The wrapper (pilsmer-slate/src/lib.rs): tasks call put, delete, get,    *)
(* plan_key, vacuum_meaning and replan_key concurrently.  A step of a task *)
(* runs from one await to the next, so pc[t] names the await task t is at: *)
(*                                                                         *)
(*   lock, relock    lock_key(..).await, the first and the second time     *)
(*   encode          planning under the guard (allow_immediate_plan)       *)
(*   write           inner.put / inner.delete of a user's write            *)
(*   ack             that write is applied and not yet acknowledged        *)
(*   flush           inner.flush of await_durable                          *)
(*   get, read       inner.get, without and with the guard                 *)
(*   lookup          asking the reconstruction cache, without the guard    *)
(*   reconstruct     reading a plan's chunks, without the guard            *)
(*   plan            planning a rewrite, without the guard                 *)
(*   recheck         the second inner.get, under the guard                 *)
(*   rewrite         inner.put of the planned envelope, under the guard    *)
(*   reply           done; the guard is dropped                            *)
(*                                                                         *)
(* The source hash that plan_key and its kin carry across the unguarded    *)
(* awaits is the source envelope itself, src[t].                           *)
(***************************************************************************)
EXTENDS SlateStore, Planning, CacheInsertion, Sequences

CONSTANTS
    Tasks, NoTask,
    Runtimes,           \* what an opened database can be configured with
    RewriteLimits,      \* VacuumOptions.max_reconstruct_bytes of the callers
    Calls,              \* the calls the environment makes
    MaxCalls            \* bound on the number of calls

VARIABLES
    pc, call, result,   \* of each task: where it is, what it does, its answer
    src, env, logical,  \* its locals: envelope read, envelope to write, bytes
    holder, waiters,    \* KeyLocks: the guard of each key and its FIFO queue
    cache,              \* ReconstructionCache: values, keyed by their hash
    runtime,            \* registry and planner the database was opened with
    calls

taskVars == <<pc, call, result, src, env, logical>>
lockVars == <<holder, waiters>>
vars == <<storeVars, taskVars, lockVars, cache, runtime, calls>>

Ops == {"put", "putplan", "delete", "get", "plan", "vacuum", "replan"}
RewriteOps == {"plan", "vacuum", "replan"}
Call == [op : Ops, key : Keys, value : Values \union {Absent},
         opts : Opts, sync : BOOLEAN]

ASSUME PiLsmDbAssumption ==
    /\ NoTask \notin Tasks
    /\ Runtimes \subseteq Runtime
    /\ Calls \subseteq Call
    /\ \A c \in Calls : c.op \in {"put", "putplan"} <=> c.value \in Values
    /\ \A c \in Calls : c.sync => c.op \in {"put", "putplan"}
    /\ RewriteLimits \union {CacheBytes, MaxCalls} \subseteq Nat

PCs == {"idle", "lock", "relock", "encode", "write", "ack", "flush", "get",
        "read", "lookup", "reconstruct", "plan", "recheck", "rewrite", "reply"}

\* Where a task holds the guard of its key.
GuardedPCs == {"encode", "write", "ack", "flush", "read", "recheck", "rewrite"}

RewriteStatus == {"Rewritten", "KeptAlreadyPlanned", "SkippedMissingKey",
                  "SkippedStaleSource", "SkippedPlanningFailed",
                  "SkippedNotImproved"}
Results == RewriteStatus \union {"none", "ok", "error"}

Key(t) == call[t].key

\* Where a rewrite has planned, and where it has its plan.
PlanningPCs == {"plan", "relock", "recheck", "rewrite"}
PlannedPCs == {"relock", "recheck", "rewrite"}
ReadingPCs == {"lookup", "reconstruct"}

\* What is set of a task's call and locals at each await.
LocalsSet ==
    \A t \in Tasks :
        /\ pc[t] # "idle" =>
              /\ call[t] \in Call
              /\ call[t].op \in {"put", "putplan"} => call[t].value \in Values
        /\ pc[t] = "get" => call[t].op = "get"
        /\ pc[t] \in ReadingPCs /\ call[t].op # "get" => src[t] \in Envelope
        /\ pc[t] = "encode" => call[t].op = "putplan"
        /\ pc[t] = "write" => call[t].op \in {"put", "putplan", "delete"}
        /\ pc[t] \in PlanningPCs => src[t] \in Envelope /\ logical[t] \in Values
        /\ pc[t] \in PlannedPCs \union ReadingPCs => env[t] \in Envelope

\* Type invariant; each local variable of a call is set at the awaits where the
\* code has it.
TypeOK ==
    /\ StoreTypeOK
    /\ pc \in [Tasks -> PCs]
    /\ call \in [Tasks -> Call \union {Absent}]
    /\ LocalsSet
    /\ result \in [Tasks -> Results \union Values \union {Absent}]
    /\ src \in [Tasks -> Envelope \union {Absent}]
    /\ env \in [Tasks -> Envelope \union {Absent}]
    /\ logical \in [Tasks -> Values \union {Absent}]
    /\ holder \in [Keys -> Tasks \union {NoTask}]
    /\ waiters \in [Keys -> Seq(Tasks)]
    /\ cache \in SUBSET Values
    /\ runtime \in Runtime
    /\ calls \in Nat

Init ==
    /\ StoreInit
    /\ pc = [t \in Tasks |-> "idle"]
    /\ call = [t \in Tasks |-> Absent]
    /\ result = [t \in Tasks |-> "none"]
    /\ src = [t \in Tasks |-> Absent]
    /\ env = [t \in Tasks |-> Absent]
    /\ logical = [t \in Tasks |-> Absent]
    /\ holder = [k \in Keys |-> NoTask]
    /\ waiters = [k \in Keys |-> <<>>]
    /\ cache = {}
    /\ runtime \in Runtimes
    /\ calls = 0

-----------------------------------------------------------------------------
(* Guards, control flow *)

Goto(t, place) == pc' = [pc EXCEPT ![t] = place]

\* lock_key queues for the tokio mutex of the key, which is fair.
Queue(t, k) == waiters' = [waiters EXCEPT ![k] = Append(@, t)]
Unlock(t) == holder' = [holder EXCEPT ![Key(t)] = NoTask]

\* Bug seeded for HoldGuard: the guard is dropped before the write.
DropGuard(t) == Unlock(t) /\ UNCHANGED waiters
HoldGuard(t) == UNCHANGED lockVars

\* Bug seeded for Without: a cancelled call stays in the queue.
LeftInQueue(q, t) == q

Without(q, t) ==
    LET at == CHOOSE i \in DOMAIN q : q[i] = t
    IN  IF \E i \in DOMAIN q : q[i] = t
        THEN SubSeq(q, 1, at - 1) \o SubSeq(q, at + 1, Len(q))
        ELSE q

Answer(t, r) == Goto(t, "reply") /\ result' = [result EXCEPT ![t] = r]

\* Bug seeded for AnswerUnlocking: the guard is leaked.
AnswerLeaking(t, r) == Answer(t, r) /\ HoldGuard(t)
AnswerUnlocking(t, r) == Answer(t, r) /\ DropGuard(t)

Locals == <<src, env, logical>>

\* The locals of a task die with its call.
Forget(t) ==
    /\ src' = [src EXCEPT ![t] = Absent]
    /\ env' = [env EXCEPT ![t] = Absent]
    /\ logical' = [logical EXCEPT ![t] = Absent]

Invoke(t) ==
    /\ pc[t] = "idle"
    /\ calls < MaxCalls
    /\ calls' = calls + 1
    /\ \E c \in Calls :
          /\ call' = [call EXCEPT ![t] = c]
          /\ IF c.op = "get"
             THEN Goto(t, "get") /\ UNCHANGED waiters
             ELSE Goto(t, "lock") /\ Queue(t, c.key)
    /\ UNCHANGED <<storeVars, result, Locals, holder, cache, runtime>>

Acquire(t) ==
    /\ pc[t] \in {"lock", "relock"}
    /\ holder[Key(t)] = NoTask
    /\ waiters[Key(t)] # <<>>
    /\ Head(waiters[Key(t)]) = t
    /\ holder' = [holder EXCEPT ![Key(t)] = t]
    /\ waiters' = [waiters EXCEPT ![Key(t)] = Tail(@)]
    /\ Goto(t, CASE pc[t] = "relock" -> "recheck"
                 [] call[t].op = "putplan" -> "encode"
                 [] call[t].op \in {"put", "delete"} -> "write"
                 [] OTHER -> "read")
    /\ UNCHANGED <<storeVars, call, result, Locals, cache, runtime, calls>>

-----------------------------------------------------------------------------
(* The reconstruction cache *)

\* Readers insert what they have reconstructed, in no step of their own that
\* others could see (ReconstructionCache, InsertsAreAtomic).
CachesWith(v) == Inserted(cache, v)

-----------------------------------------------------------------------------
(* put, delete *)

\* put_with_options, allow_immediate_plan: planning fails the put.
Encode(t) ==
    /\ pc[t] = "encode"
    /\ \/ /\ AnswerUnlocking(t, "error")
          /\ UNCHANGED env
       \/ /\ \E p \in Plans(runtime, DefaultOpts, call[t].value) :
                env' = [env EXCEPT ![t] = p]
          /\ Goto(t, "write")
          /\ HoldGuard(t)
          /\ UNCHANGED result
    /\ UNCHANGED <<storeVars, call, src, logical, cache, runtime, calls>>

\* Bug seeded for ToWrite: the value is stored without an envelope.
WriteBare(t) == IF call[t].op = "delete" THEN Absent ELSE call[t].value

ToWrite(t) ==
    CASE call[t].op = "delete" -> Absent
      [] call[t].op = "put" -> Raw(call[t].value)
      [] OTHER -> env[t]

Write(t) ==
    /\ pc[t] = "write"
    /\ StorePut(Key(t), ToWrite(t))
    /\ Goto(t, "ack")
    /\ UNCHANGED <<call, result, Locals, lockVars, cache, runtime, calls>>

\* inner.put has returned.
Ack(t) ==
    /\ pc[t] = "ack"
    /\ \/ /\ call[t].op \in RewriteOps
          /\ AnswerUnlocking(t, "Rewritten")
       \/ /\ call[t].op \notin RewriteOps /\ ~call[t].sync
          /\ AnswerUnlocking(t, "ok")
       \/ /\ call[t].op \notin RewriteOps /\ call[t].sync
          /\ Goto(t, "flush")
          /\ HoldGuard(t)
          /\ UNCHANGED result
    /\ UNCHANGED <<storeVars, call, Locals, cache, runtime, calls>>

Flush(t) ==
    /\ pc[t] = "flush"
    /\ StoreFlush
    /\ AnswerUnlocking(t, "ok")
    /\ UNCHANGED <<call, Locals, cache, runtime, calls>>

-----------------------------------------------------------------------------
(* get *)

\* One inner.get, no guard: raw bytes are returned as they are, a plan is
\* reconstructed from what was read even if the row has changed since.
Get(t) ==
    /\ pc[t] = "get"
    /\ LET e == StoreGet(Key(t)) IN
          \/ /\ e = Absent
             /\ Answer(t, Absent)
             /\ UNCHANGED env
          \/ /\ e # Absent /\ ~Decodable(e)
             /\ Answer(t, "error")
             /\ UNCHANGED env
          \/ /\ e # Absent /\ Decodable(e) /\ e.kind = "raw"
             /\ Answer(t, e.spells)
             /\ UNCHANGED env
          \/ /\ e # Absent /\ Decodable(e) /\ e.kind = "plan"
             /\ env' = [env EXCEPT ![t] = e]
             /\ Goto(t, "lookup")
             /\ UNCHANGED result
    /\ UNCHANGED <<storeVars, call, src, logical, lockVars, cache, runtime, calls>>

\* reconstruct_plan is done, for a get or for a rewrite of a planned value.
Reconstructed(t, v) ==
    IF call[t].op = "get"
    THEN Answer(t, v) /\ UNCHANGED logical
    ELSE /\ logical' = [logical EXCEPT ![t] = v]
         /\ Goto(t, "plan")
         /\ UNCHANGED result

\* VacuumOptions can set a limit of their own.
Limits(t) == IF call[t].op = "get" THEN {MaxReconstruct} ELSE RewriteLimits

\* The limit first, then the cache, which is keyed by the hash alone.
LookUp(t) ==
    /\ pc[t] = "lookup"
    /\ \E limit \in Limits(t) :
          \/ /\ Size[env[t].hash] > limit
             /\ Answer(t, "error")
             /\ UNCHANGED logical
          \/ /\ Size[env[t].hash] <= limit
             /\ env[t].hash \in cache
             /\ Reconstructed(t, env[t].hash)
          \/ /\ Size[env[t].hash] <= limit
             /\ env[t].hash \notin cache
             /\ Goto(t, "reconstruct")
             /\ UNCHANGED <<result, logical>>
    /\ UNCHANGED <<storeVars, call, src, env, lockVars, cache, runtime, calls>>

\* Then the streams; meanwhile others may have cached the same value.
Reconstruct(t) ==
    /\ pc[t] = "reconstruct"
    /\ \/ /\ ~Reconstructs(runtime.registry, env[t])
          /\ Answer(t, "error")
          /\ UNCHANGED <<logical, cache>>
       \/ /\ Reconstructs(runtime.registry, env[t])
          /\ cache' \in CachesWith(env[t].hash)
          /\ Reconstructed(t, env[t].spells)
    /\ UNCHANGED <<storeVars, call, src, env, lockVars, runtime, calls>>

-----------------------------------------------------------------------------
(* plan_key, vacuum_meaning, replan_key *)

\* read_current_envelope under the guard, and what each of the three does with
\* it.  vacuum_meaning hands a raw value to plan_key, which locks and reads
\* all over again.
Read(t) ==
    /\ pc[t] = "read"
    /\ LET e == StoreGet(Key(t))
           op == call[t].op
       IN  \/ /\ e = Absent
              /\ AnswerUnlocking(t, "SkippedMissingKey")
              /\ UNCHANGED <<call, Locals>>
           \/ /\ e # Absent /\ ~Decodable(e)
              /\ AnswerUnlocking(t, "error")
              /\ UNCHANGED <<call, Locals>>
           \/ /\ e # Absent /\ Decodable(e)
              /\ e.kind = "plan" /\ op = "plan"
              /\ AnswerUnlocking(t, "KeptAlreadyPlanned")
              /\ UNCHANGED <<call, Locals>>
           \/ /\ e # Absent /\ Decodable(e)
              /\ e.kind = "plan" /\ op # "plan"
              /\ src' = [src EXCEPT ![t] = e]
              /\ env' = [env EXCEPT ![t] = e]
              /\ Goto(t, "lookup")
              /\ Unlock(t)
              /\ UNCHANGED <<call, result, logical, waiters>>
           \/ /\ e # Absent /\ Decodable(e)
              /\ e.kind = "raw" /\ op = "vacuum"
              /\ call' = [call EXCEPT ![t].op = "plan"]
              /\ Goto(t, "lock")
              /\ Unlock(t)
              /\ Queue(t, Key(t))
              /\ UNCHANGED <<result, Locals>>
           \/ /\ e # Absent /\ Decodable(e)
              /\ e.kind = "raw" /\ op # "vacuum"
              /\ src' = [src EXCEPT ![t] = e]
              /\ logical' = [logical EXCEPT ![t] = e.spells]
              /\ Goto(t, "plan")
              /\ Unlock(t)
              /\ UNCHANGED <<call, result, env, waiters>>
    /\ UNCHANGED <<storeVars, cache, runtime, calls>>

\* Bug seeded for Refused: <= for <, and no comparison in replan_key.
RefusedIfWorse(t, p) == call[t].op = "vacuum" /\ Improves(src[t], p)

\* A plan is dropped if vacuum_meaning finds it no better than the one in
\* place, or replan_key finds it to be the one in place.
Refused(t, p) ==
    \/ call[t].op = "vacuum" /\ ~Improves(p, src[t])
    \/ call[t].op = "replan" /\ p = src[t]

Plan(t) ==
    /\ pc[t] = "plan"
    /\ LET plans == Plans(runtime, call[t].opts, logical[t]) IN
          \/ /\ Answer(t, "SkippedPlanningFailed")
             /\ UNCHANGED <<env, waiters>>
          \/ /\ PlanningErrs(runtime, call[t].opts, logical[t])
             /\ Answer(t, "error")
             /\ UNCHANGED <<env, waiters>>
          \/ /\ \E p \in plans : Refused(t, p)
             /\ Answer(t, "SkippedNotImproved")
             /\ UNCHANGED <<env, waiters>>
          \/ /\ \E p \in plans :
                    ~Refused(t, p) /\ env' = [env EXCEPT ![t] = p]
             /\ Goto(t, "relock")
             /\ Queue(t, Key(t))
             /\ UNCHANGED result
    /\ UNCHANGED <<storeVars, call, src, logical, holder, cache, runtime, calls>>

\* Bug seeded for SourceUnchanged: the hash is not compared.
RowStillThere(t, e) == e # Absent

\* The hash of the row read again is the source hash.
SourceUnchanged(t, e) == e = src[t]

\* write_if_source_unchanged: the guard again, and the row must be there and
\* hash to the source hash.
Recheck(t) ==
    /\ pc[t] = "recheck"
    /\ LET e == StoreGet(Key(t)) IN
          \/ /\ e = Absent
             /\ AnswerUnlocking(t, "SkippedMissingKey")
          \/ /\ e # Absent /\ ~SourceUnchanged(t, e)
             /\ AnswerUnlocking(t, "SkippedStaleSource")
          \/ /\ e # Absent /\ SourceUnchanged(t, e)
             /\ Goto(t, "rewrite")
             /\ HoldGuard(t)
             /\ UNCHANGED result
    /\ UNCHANGED <<storeVars, call, Locals, cache, runtime, calls>>

Rewrite(t) ==
    /\ pc[t] = "rewrite"
    /\ StorePut(Key(t), env[t])
    /\ Goto(t, "ack")
    /\ UNCHANGED <<call, result, Locals, lockVars, cache, runtime, calls>>

-----------------------------------------------------------------------------
(* Returns, failures, restarts *)

\* The caller takes the answer; the future and its locals are dropped.
Return(t) ==
    /\ pc[t] = "reply"
    /\ Goto(t, "idle")
    /\ call' = [call EXCEPT ![t] = Absent]
    /\ result' = [result EXCEPT ![t] = "none"]
    /\ Forget(t)
    /\ UNCHANGED <<storeVars, lockVars, cache, runtime, calls>>

\* An error of the engine leaves the call by `?`, dropping the guard.  The
\* write of a task at "ack" has been applied all the same.
EngineError(t) ==
    /\ pc[t] \in {"write", "ack", "flush", "get", "read", "recheck", "rewrite"}
    /\ IF pc[t] = "get" THEN Answer(t, "error") /\ UNCHANGED lockVars
       ELSE AnswerUnlocking(t, "error")
    /\ UNCHANGED <<storeVars, call, Locals, cache, runtime, calls>>

\* The caller drops the future: the guard is dropped with it, or the task
\* leaves the queue it waits in.
Cancel(t) ==
    /\ pc[t] # "idle"
    /\ Goto(t, "idle")
    /\ holder' = IF pc[t] \in GuardedPCs
                 THEN [holder EXCEPT ![Key(t)] = NoTask] ELSE holder
    /\ waiters' = IF pc[t] \in {"lock", "relock"}
                  THEN [waiters EXCEPT ![Key(t)] = Without(@, t)] ELSE waiters
    /\ call' = [call EXCEPT ![t] = Absent]
    /\ result' = [result EXCEPT ![t] = "none"]
    /\ Forget(t)
    /\ UNCHANGED <<storeVars, cache, runtime, calls>>

\* The engine flushes on its own.
BackgroundFlush ==
    /\ StoreFlush
    /\ UNCHANGED <<taskVars, lockVars, cache, runtime, calls>>

\* The process dies and the database is opened again, perhaps with another
\* stream profile (build_runtime, build_migration_runtime).
Restart ==
    /\ StoreCrash
    /\ pc' = [t \in Tasks |-> "idle"]
    /\ call' = [t \in Tasks |-> Absent]
    /\ result' = [t \in Tasks |-> "none"]
    /\ src' = [t \in Tasks |-> Absent]
    /\ env' = [t \in Tasks |-> Absent]
    /\ logical' = [t \in Tasks |-> Absent]
    /\ holder' = [k \in Keys |-> NoTask]
    /\ waiters' = [k \in Keys |-> <<>>]
    /\ cache' = {}
    /\ runtime' \in Runtimes
    /\ UNCHANGED calls

-----------------------------------------------------------------------------

\* The steps a scheduled task takes by itself.
Step(t) ==
    \/ Acquire(t) \/ Encode(t) \/ Write(t) \/ Ack(t) \/ Flush(t)
    \/ Get(t) \/ LookUp(t) \/ Reconstruct(t) \/ Read(t) \/ Plan(t) \/ Recheck(t)
    \/ Rewrite(t) \/ Return(t)

TaskNext == \E t \in Tasks : Invoke(t) \/ Step(t) \/ EngineError(t) \/ Cancel(t)

Next == TaskNext \/ BackgroundFlush \/ Restart

Spec == Init /\ [][Next]_vars

\* The runtime polls every task that can make progress; callers, errors,
\* background flushes and crashes are never obliged to happen.
FairSpec == Spec /\ \A t \in Tasks : WF_vars(Step(t))
-----------------------------------------------------------------------------
(* Properties *)

Waiting(t, k) == pc[t] \in {"lock", "relock"} /\ Key(t) = k
Guarded(t, k) == pc[t] \in GuardedPCs /\ Key(t) = k

\* The guard of a key is held by exactly the task that is between lock_key and
\* the drop of the guard, whichever way the call was left: no two tasks are in
\* there for one key, no guard outlives its call, and a task queues for a key
\* once while it waits and not at all when it has stopped waiting.
GuardsHeld == \A t \in Tasks, k \in Keys : Guarded(t, k) <=> holder[k] = t

QueuedOnce == \A k \in Keys :
    /\ \A t \in Tasks :
          Waiting(t, k) <=> \E i \in DOMAIN waiters[k] : waiters[k][i] = t
    /\ \A i, j \in DOMAIN waiters[k] : waiters[k][i] = waiters[k][j] => i = j

GuardDiscipline == GuardsHeld /\ QueuedOnce

\* A rewrite that reaches the store finds there an envelope of the very bytes
\* it has planned, although it let go of the guard to plan: no put and no
\* delete has come between, or the rewrite would undo it.
RewritesFindTheirSource ==
    \A t \in Tasks : pc[t] = "rewrite" =>
        /\ StoreGet(Key(t)) # Absent
        /\ Logical(StoreGet(Key(t))) = Logical(env[t])

\* What a rewrite knows wherever it is, which is why the properties above and
\* below hold: the bytes it has in hand are those its source spells, and so
\* are those of its plan; the plan can be read back, and is better than the
\* source where that was asked for; and from the second read until the write
\* the source is in place.
KnowsPlan(t) ==
    /\ pc[t] \in ReadingPCs /\ call[t].op # "get" => src[t] = env[t]
    /\ pc[t] \in PlanningPCs => Logical(src[t]) = logical[t]
    /\ pc[t] \in PlannedPCs =>
          /\ env[t].hash = logical[t]
          /\ Reconstructs(runtime.registry, env[t])
          /\ call[t].op = "vacuum" => Improves(env[t], src[t])
    /\ pc[t] = "write" /\ call[t].op = "putplan" =>
          /\ env[t] \in Envelope
          /\ env[t].hash = call[t].value
          /\ Reconstructs(runtime.registry, env[t])

KnowsSource(t) == pc[t] = "rewrite" => StoreGet(Key(t)) = src[t]

RewriteKnows == \A t \in Tasks : KnowsPlan(t) /\ KnowsSource(t)

Stores(t) == pc[t] \in {"write", "rewrite"} /\ pc'[t] = "ack"

\* A plan is stored, by an immediate put or by a rewrite, only if the database
\* that stores it can read it back: every stream it uses is registered and the
\* chunks spell the value, even where the index was built over other bytes.
StoredPlansReadBack ==
    [][\A t \in Tasks : Stores(t) =>
          LET e == mem'[Key(t)].env IN
          e # Absent => Reconstructs(runtime.registry, e)]_vars

\* vacuum_meaning replaces a plan only by one of a strictly lower score than
\* the plan that is in place when it writes.
VacuumImproves ==
    [][\A t \in Tasks : Stores(t) /\ call[t].op = "vacuum"
          => Improves(mem'[Key(t)].env, mem[Key(t)].env)]_vars

\* What get can do with a row.
Reads(e) ==
    e # Absent =>
      /\ Decodable(e)
      /\ e.kind = "plan" => /\ Size[e.hash] <= MaxReconstruct
                            /\ Reconstructs(runtime.registry, e)

\* README.md, "Correctness Contract": what put, compaction or vacuum has stored
\* under a key can be read back from it.
EveryRowReads == \A k \in Keys : Reads(StoreGet(k))

\* A call that is being polled returns: nobody waits for a key's guard
\* forever, whatever the other callers do, cancel or run into.
CallsReturn == \A t \in Tasks : pc[t] # "idle" ~> pc[t] = "idle"

\* The wrapper keeps the promise of LogicalStore: take each envelope for the
\* bytes it spells, a call that has written or read for one that has taken
\* effect, and every rewrite for a no-op.
Phase(t) ==
    CASE pc[t] = "idle" -> "idle"
      [] pc[t] \in {"ack", "flush"} -> "applied"
      [] pc[t] \in ReadingPCs /\ call[t].op = "get" -> "applied"
      [] pc[t] = "reply" /\ result[t] = "error" -> "failed"
      [] pc[t] = "reply" /\ result[t] # "error" /\ call[t].sync -> "synced"
      [] pc[t] = "reply" /\ result[t] # "error" /\ ~call[t].sync -> "applied"
      [] OTHER -> "pending"

AnswerOf(t) ==
    CASE call[t].op = "get" /\ pc[t] \in ReadingPCs -> Logical(env[t])
      [] call[t].op = "get" /\ pc[t] = "reply" /\ result[t] # "error" -> result[t]
      [] OTHER -> "none"

AbstractOp(op) ==
    CASE op \in RewriteOps -> "rewrite" [] op = "putplan" -> "put" [] OTHER -> op

SessionOf(t) ==
    IF pc[t] = "idle"
    THEN [phase |-> "idle", op |-> "rewrite", key |-> Absent, value |-> Absent,
          sync |-> FALSE, answer |-> "none"]
    ELSE [phase |-> Phase(t), op |-> AbstractOp(call[t].op), key |-> Key(t),
          value |-> call[t].value, sync |-> call[t].sync, answer |-> AnswerOf(t)]

MeaningOf(rows) == [k \in Keys |-> Logical(rows[k].env)]

Promise == INSTANCE LogicalStore WITH
    Values  <- Values \union {Corrupt},
    store   <- MeaningOf(mem),
    stable  <- MeaningOf(disk),
    session <- [t \in Tasks |-> SessionOf(t)]

KeepsPromise == Promise!Spec
=============================================================================
