# PiLSMer in TLA+

PiLSMer stores values in SlateDB either as raw bytes or as *reconstruction
plans*: lists of places in a known byte stream (pi, e, sqrt 2, a SHA-256 counter)
where the bytes occur. A write stores raw bytes; later a rewrite of one key, a
command over all of them, or a compaction job turns them into plans or makes
plans smaller. The promise to callers is that none of this shows: `get` returns
what was put.

This directory holds a specification of that promise, models of the code that
has to keep it, the TLC runs that check the models, and machine-checked proofs
of the results that matter most for any number of tasks, keys and values.

## The system

| component | code | state | operations | interacts with |
|---|---|---|---|---|
| wrapper `PiLsmDb` | `pilsmer-slate/src/lib.rs` | a lock per key, the reconstruction cache, counters | `put`, `delete`, `get`, `plan_key`, `vacuum_meaning`, `replan_key`, scans, `flush`, `close` | awaits SlateDB, the planner and the reconstructor; callers run concurrently and can drop a call at any await |
| compaction filter | `pilsmer-slate/src/compaction_filter.rs` | mode and statistics, shared by the filters of one supplier | `filter`, called by the engine for each row of a job | the engine commits what the filter leaves; no key lock is taken |
| compactor runner | `lib.rs:45-117` | a task that runs for a while | `run_compactor_with_options` | another process or another task than the writers |
| envelopes and plan codec | `pilsmer-core/src/envelope.rs`, `plan.rs`, `codec.rs` | none | encode, decode under limits | every read and every write |
| planner | `planner.rs`, `stream_index.rs` | indexes of stream prefixes | `plan_with_options` | reconstructs each plan it makes before it returns it |
| reconstructor | `reconstruct.rs`, `stream.rs` | a registry of streams | `reconstruct_with_limit` | reads, rewrites, the planner, the filter |
| reconstruction cache | `lib.rs:193-248` | values by logical hash, their total size, a counter of that size that is published afterwards | get, insert with eviction | reads, rewrites and scans, all concurrent |
| command line | `pilsmer-cli/src/main.rs` | the keys of a scan, a report | single calls, a shell, bulk plan, vacuum and migrate, explain, metrics, compact, benchmarks | opens a database with one stream profile, or two to migrate; `compact` is a process of its own |
| explain, metrics | `explain.rs`, `lib.rs` | counters | reports | read only |

What is hard here:

- **Rewrites do not hold the lock while they plan.** `plan_key` and its kin read
  under the key's guard, drop it to reconstruct and plan, take it again, compare
  hashes and write. A put, a delete, another rewrite or a compaction can come
  between any two of these steps.
- **Compaction takes no lock at all**, and works on rows as of its start.
- **Calls end anywhere**: futures are dropped at an await, the engine returns
  errors before or after a write has been applied, the process dies.
- **Commands end anywhere too**: a command over all keys stops at the first key
  that errs, is killed, or runs out of its time budget, with the keys before
  that rewritten; a line of the shell is answered only after a flush.
- **A plan can lie**: the index is handed bytes by its builder; rows are what
  earlier sessions, with other streams, have left.
- **Limits**: decode limits, reconstruction limits, the size of the cache, the
  snapshot a job must respect.
- **Hand-kept numbers**: the cache's size, the counter stored after the cache's
  mutex is released, reports that others act on.

`PROJECT.json` lists these hazards at the lines where they bite, with the
properties that cover them.

## The modules

| module | what it is |
|---|---|
| `LogicalStore` | the promise: a key/value store of logical bytes where a rewrite is a no-op; crashes fall back to a state made durable |
| `Envelopes` | rows, envelopes, when they decode, when a plan reconstructs, how plans are scored |
| `Planning` | what the planner is to its callers: some plan of some chunking, checked by reconstruction |
| `SlateStore` | the engine as the wrapper uses it (external): newest version of each key, its sequence number, what is durable |
| `CacheInsertion`, `AtomicCache` | what an insertion into the reconstruction cache promises, and a cache that does nothing else |
| `PiLsmDb` | the wrapper's calls, one action from one await to the next |
| `CompactionFilter` | the filter, the engine's jobs around it, and writes going on meanwhile |
| `PiLSMer` | the two together over one engine |
| `CommandLine` | commands as processes: scripts of statements that call the wrapper, with a compactor elsewhere |
| `ReconstructionCache` | the cache and its counter, step by step, under many readers |
| `Codec`, `Streams` | varints and the cursor; how the two kinds of stream are read |
| `Format` | a row read symbol by symbol: frame, payload, reconstruction; how rows are written; what `explain` says of them |
| `StreamIndex` | the k-gram tables over a stream's prefix: what they retain under the cap and the memory budget, what is found in them and at what cost |
| `Planner` | the search, the walk and the self check of one call after another of `plan_with_options` |
| `PiLsmDbProofs`, `CompactionFilterProofs`, `PiLSMerProofs`, `ReconstructionCacheProofs`, `PlannerProofs`, `FormatProofs` | theorems |
| `CodecProofs` | theorems about varints, which the last two need |
| `Recursion` | lemmas about sums over sets and folds over sequences |
| `MCPlanning`, `MCPiLsmDb`, `MCCompactionFilter`, `MCPiLSMer`, `MCCommandLine`, `MCReconstructionCache`, `MCPlanner`, `MCFormat` | instances for TLC |

`Planning`, `SlateStore` and `CacheInsertion` extend `Envelopes`; `PiLsmDb`
extends the three, `CompactionFilter` the first two; `PiLSMer` extends `PiLsmDb`
and `CompactionFilter`, and `CommandLine` extends `PiLSMer`. `AtomicCache` and
`ReconstructionCache` extend `CacheInsertion`. `Format` extends `Streams`, which
extends `Codec`; `StreamIndex` extends `Codec` and `Planner` extends
`StreamIndex`; `Planner` looks inside what `Planning` takes as given and shares
no state with it.

Two refinements: `PiLsmDb` into `LogicalStore` (`Promise == INSTANCE
LogicalStore WITH ...`), and `ReconstructionCache` into `AtomicCache` (`Atomic ==
INSTANCE AtomicCache WITH ...`).

### Envelopes and plans

An envelope is the record of what the storage layer can tell apart: raw or
plan, the bytes it *spells*, the value whose *hash* it carries, the stream its
chunks read, its chunk count and encoded length. A plan whose bytes and hash
disagree is a legal envelope: it decodes, and fails when it is reconstructed.
The logical length a plan states is taken to be that of the value of its hash.
A row that does not decode is `Corrupt`. Hashes are injective on `Values`.

`Logical(e)` is the meaning of a row, the bytes that it stands for. It appears
in properties only; no code computes it.

### PiLsmDb

| state | code |
|---|---|
| `mem`, `disk`, `seq` | `PiLsmDb.inner`: newest version of each key, durable version, last sequence number |
| `pc`, `call`, `src`, `env`, `logical`, `result` | a task inside a call: the await it is at, its arguments and its local variables |
| `holder`, `waiters` | `KeyLocks`: who has the `OwnedMutexGuard` of a key, and tokio's FIFO queue for it |
| `cache` | `ReconstructionCache.values` |
| `runtime` | the stream registry and the planner of `PiLsmOptions` |

The actions follow the awaits, because a task can be overtaken, or dropped,
only there: `Invoke`; `Acquire` (`lock_key`); `Encode`, `Write`, `Ack`, `Flush`
(`put_with_options` and `delete`); `Get`; `LookUp` and `Reconstruct`
(`reconstruct_plan`); `Read`, `Plan`, `Recheck`, `Rewrite` (the three rewrites
and `write_if_source_unchanged`); `Return`; `EngineError` (the `?` after an
engine call); `Cancel` (the future is dropped); `BackgroundFlush`; `Restart`.
A write is applied at `Write` or `Rewrite` and acknowledged at `Ack`, so that
it can take effect in a call that fails. Values of `src` stand for source
hashes: the hash covers the encoded bytes. An insertion into the cache is one
step here, any of the outcomes `Inserted` allows; that the code's insertion,
which is many steps under a mutex, can be taken for that is what
`ReconstructionCache` shows.

### CompactionFilter

`FilterEntry` is `filter_entry`, its disjuncts in the order of the code's early
returns; `Leave`, `Keep` and `Fail` are what it can do with a row, with the
counters each of them bumps. A job works on the durable rows as of its start
(`job.rows`), collects its output (`job.out`), and replaces the versions it has
read, if they are still there, when it commits. `AbortJob` is a job that fails,
or whose compactor is stopped or dies; nothing of it remains. `Written`,
`StoreFlush` and `StoreCrash` are the rest of the system, as seen from the
store, for the runs of this module alone.

### CommandLine

| state | code |
|---|---|
| `phase`, `script` | where the process is, and the statements it has still to carry out: one command, or the lines that a shell reads |
| `keys`, `todo` | the keys a scan has collected; those it has still to pass, or the loop has still to visit |
| `report` | `VacuumAllReport` |
| `allowed`, `began` | history: what each key may mean given what has been answered; the sequence number when a loop began |

`Open` builds the runtime and opens the database. `Single` makes the one call
of a command and `Answered` is its return; `Explain` reads a row and decodes it;
`Unparsable` is a line of the shell that is an error by the time it is reached.
`BeginScan`, `ScanRow` and `EndScan` are the iterators of the bulk commands and
of `metrics`, `Visit` the next key of a loop, `BudgetSpent` the clock that
`vacuum_all` looks at, `EndLoop` its end; `Counted` is the `match` that fills
the report. `FlushAll` is the `flush` after which a write is answered.
`InCall` is any step of the wrapper under the call; `EngineStep` is what its
engine does by itself; `ScanOrFlushFails` and the `error` of `Answered` are the
`?` that end `main`. `Exit` and `Kill` end the process and lose what is not
durable. A clean `close` would flush first; ending without it admits more
behaviours, and costs nothing, because by then every statement has been flushed.
`Compacts` is `pilsmer compact`, a process of its own, at any moment.

The rows to begin with include those of profiles that this process has not
opened, as another `--stream` or `--prefix-bytes` has left them.

### ReconstructionCache

A reader begins with a plan (`Begin`), asks the cache under its mutex (`Get`),
reconstructs without it (`Reconstruct`, or `Cancel`: the only await), inserts
(`Insert`, then `Evict` and `Add` under the mutex, `holder`), and after the guard
has been dropped stores the size it was told in the counter (`Publish`). Readers
stand for gets, rewrites and the rows of scans, which do the same.
`InsertsAreAtomic` shows that others see an insertion as one step of
`AtomicCache`, whose `Inserted` is the operator `PiLsmDb` uses.

### StreamIndex and Planner

An index is the prefix it was handed, the stream that the reconstructor will
read, and its options; `Depth` and `Retained` are what `from_prefix` and
`PackedKGramTable::build` make of them, as sets of offsets, for the packing of
keys and the binary search change nothing that is found. `Planner` takes one
turn of the loop over positions per `Weigh`, with the clock (`TimeOut`) at every
64th position, one chunk per `Choose`, and ends in `Check`. `dp` and `chunks`
are the code's. Ties go to the first candidate listed, which `Place` orders.
`Covers` enumerates all ways to cover the value and appears in properties only.

### Codec, Streams and Format

`Format` is what happens to one row: `ReadFrame` (`ValueEnvelope::decode`),
`ReadRaw` (`decode_raw_payload`), `ReadHeader`, `ReadStream`, `ReadChunkCount`,
`ReadChunk`, `ReadEnd` (`decode_payload`, in its order), `ReadBytes` and
`Verify` (`reconstruct_with_limit`). `payload` and `at` are the cursor, `left`
the loop counters. A byte carries one digit of `VarintBase` and the flag that
more follow; a word has `Words` values, and `ReadVarint` drops what does not fit
one, as shifting does. A hash, a checksum, a fingerprint and a seed are one
symbol each; the checksum, a sum modulo the prime `CrcModulus`, differs whenever one
symbol does, as CRC-32 does for one byte. Why a row is refused is not told
apart (`FrameOk` is the checks of `decode` in their order): every caller treats a
row that does not decode alike, whichever check has refused it. Fields that
nothing depends on are left out, and the footer of the ceremonial codec is the
three numbers it repeats. Reading in `Streams` follows
the code's block arithmetic and may panic; `Stretch`, for the properties only,
takes each byte from its place. `ExplainPlan` is what `explain` makes of a plan
that has been decoded, and `LocatedUserBytes` what `metrics` derives from it,
with the saturating subtraction. Payloads are no longer than a word can say.

The module shows what `Envelopes` assumes of rows: `Decodable` for the rows the
wrapper writes is `RoundTrip`, `Reconstructs` is `ReadsWhatItNames`.

## The properties

Of the wrapper:

- `GuardDiscipline`: the guard of a key belongs to exactly the task between
  `lock_key` and the drop, and queues hold exactly those who wait.
- `RewritesFindTheirSource`: a rewrite reaches the store only while the key
  still means what was planned: no lost update.
- `RewriteKnows`: what a rewrite knows at each await (see the proofs).
- `StoredPlansReadBack`: no plan is stored that cannot be read back.
- `VacuumImproves`: `vacuum_meaning` strictly improves the plan *in place*.
- `CallsReturn` (liveness).
- `EveryRowReads`: whatever a session with one stream profile has stored reads
  back.
- `KeepsPromise`: the wrapper implements `LogicalStore`.

Of the filter: `StatsExplainJob`, `JobsKeepMeaning`, `ProtectedRowsKept`,
`PlansOnlyImprove`, `FilteredPlansReadBack`, `ForcedJobLeavesNoRaw`.

Of commands:

- `AnswersHold`: what has been answered is never lost, whatever stops, is killed
  or compacts, and what has not been answered has happened or has not.
- `ReportExplainsStore`: the numbers of a bulk report are those of the versions
  it has written.
- `MigrationComplete`: after a report with nothing kept and nothing stale, every
  value reads with the target stream alone.
- `CommandsEnd` (liveness).

Of the cache: `BytesAccounted` (the size kept by hand is that of the values and
within the limit), `ReportedWhenQuiet` (so is the published one, once nobody has
a size to store), `InsertsAreAtomic`, `MutexFreed` (liveness).

Of the planner: `SearchIsOptimal` (against all covers of every suffix),
`CapLosesNothing` (against all covers by offsets dropped from the index too),
`WalkFollowsSearch`, `GenuinePlansPass`, `FewestBytesButForLiterals` (against the
bytes that `encode_payload` writes for every cover; `FewestBytes` without the
allowance for literals is what the run `LiteralScore` refutes).

Of rows: `RoundTrip` (what is written within the limits is read back),
`DecodedPlansSound` (whatever decodes is consistent), `DamageRefused`,
`ReadsWhatItNames` (reconstruction gives the bytes at the places named, or
fails, and never panics under the default bound on offsets),
`ExplainsWhatItHolds` (lengths, purity and ratio of any row that decodes, without
reconstructing it).

`TypeOK`, `FilterTypeOK`, `CliTypeOK`, `CacheTypeOK`, `SearchTypeOK` and
`FormatTypeOK` are the type invariants; they also say which local variables are
set at which point.

### The refinement

`KeepsPromise` maps each row to its `Logical` bytes and each task to a session
of `LogicalStore`. A put, a delete or a get takes effect when the engine call
does; a rewrite's store step must leave the logical store as it is, or no step
of `LogicalStore` matches it. `AnswerOf` binds the bytes that `get` answers to
those that the key held when `get` read it. An answered durable put is in every
later crash's store.

## The runs

| run | instance | shows |
|---|---|---|
| `Wrapper` | 2 tasks, 1 key, 3 calls, 2 values, both runtimes, no cache | safety of every operation under interleaving, cancellation, errors and crashes |
| `WrapperLiveness` | 3 tasks, 1 key, 3 calls | every call that is polled returns |
| `Filter` | 2 keys, 8 suppliers, 2 jobs and a write or 1 job and 2 writes | what a job does to each kind of row, against writes, flushes, crashes and another job |
| `System` | 2 tasks, 1 key, 2 calls, 1 job, a cache of 2 bytes for values of 2 and 3 | jobs committing between the steps of tasks, with hits and misses in the cache |
| `CommandLine` | 2 keys, one of 8 scripts with every statement, 1 job elsewhere, 3 streams | commands failing, being killed and being overtaken by a compactor, at every step |
| `Cache` | 3 readers, 4 reads, 7 plans, a cache of 4 bytes for values of 1, 2, 3 and 5 | racing insertions, evictions, hits, failures and publications |
| `Planner` | 11 sets of indexes, values of up to 4 bytes over 2, `VarintBase` 2 | the search finds the best cover, the walk takes it, the check passes it; it encodes in the fewest bytes but for literals |
| `LiteralScore` | an index with a gram at offset 9, `VarintBase` 3 | a cover in more bytes than needed |
| `Format` | 2 streams, plans of up to 2 chunks of 9 kinds over 5 lists of streams, in both codecs; values of up to 5 bytes; 3 rows damaged in every way and forged in every symbol | rows are read as they were written, or not at all, and explained as they are |
| `UnreadablePut`, `UnplannedVacuum`, `StaleRewrite` | as above | where the code differs from the documents (below) |

Why these bounds are enough to see what could go wrong: keys are independent
in the wrapper, so it has one; a job and a bulk command treat several, so
`Filter` and `CommandLine` have two.
A lost update takes a rewrite and one other call on its key; three calls allow
two writes in the course of a rewrite (away from the source and back to it).
The values have different sizes and the planner knows one of them in two
chunkings of different score, so that both outcomes of every comparison occur;
for the other the index has a lying chunking on one stream and none on the
other. The rows to begin with include every kind: nothing, raw, planned on
either stream, a plan with a false hash, and bytes that are no envelope.
Job bounds (`JobsAndWrites`): the jobs of a compactor share only the statistics
and the store, so two are enough to see one job's counts leak into another's,
and two writes let a row be overwritten before and during a job or twice during
one.

A process inherits nothing from an earlier one but the rows, and the rows to
begin with are those that other commands leave, so `CommandLine` gives one
command (`MaxCommands`). Its shell is the script that writes, plans everything,
reads and fails. A bulk command makes at most one call a key, so that `MaxCalls`
never binds.

Three readers are the fewest of which one can insert while two others have
sizes to store; four bytes hold some pairs of values and not others, the value
of five is too large, and with four reads a value can be evicted and come back.

The planner's values are long enough for covers of one to four chunks, with
chunks of one to three bytes; the indexes reach the cap, the end of the memory
budget, prefixes shorter than k, no prefix, two streams with the same grams, and
bytes that are not the stream's. `VarintBase` stands for 2^7: small, so that
offsets below ten differ in what they cost, as offsets below and above 128 and
16384 do. `ClockEvery` is 2 for 64, so that a search can run out of time in the
middle. No state is left over from one call of the planner to the next.

Rows are made of bytes with two binary digits, in words of five: numbers of one,
two and three bytes occur, and the last byte of the longest has, as in the code,
one digit that fits and others that do not. Each decode limit is met and passed
by some plan. `MaxOffset` is half the largest word, the default. Blocks of four
bytes are read from within, across their borders and up to the last offset that
is allowed.

`MaxCalls`, `MaxJobs`, `MaxWrites`, `MaxCommands` and `MaxReads` bound counters
in guards. Sequence numbers are bounded by the same. `Size` and the limits are
small numbers whose order is what matters. Tasks are symmetric in `Wrapper` and
`System`, keys in `Filter`; runs with a liveness property use no symmetry. All
runs check for deadlock: with `MaxCalls` reached, background flushes and restarts
are still enabled, so a deadlock among tasks would show as a violation of
`CallsReturn`, not as a deadlock; in `ReconstructionCache` and `Format` a last
state repeats (`Finished`).

Each property is also run against a seeded fault: the operators marked "Bug
seeded for ..." in the modules are those definitions with a plausible mistake in
them (a dropped guard, a missing check, `<=` for `<`), and TLC refutes the
property when one of them takes the place of the original.

### Fairness

`FairSpec` asks weak fairness of `Step(t)` for each task: tokio polls a task
that has been woken, and its mutex hands the guard to the waiters in order,
which the queue models. It asks nothing of callers, of errors, of cancellation,
of background flushes, of crashes. A future that its caller keeps but never
polls, and an engine call that never returns, are outside the model; with
either, the code does stop, holding the guard.

`FairCliSpec` asks weak fairness of `ProcessStep`, what the one thread of the
command does next, and nothing of those who give, kill and fail commands or run
compactors. `CacheSpec` asks it of each reader's `ReaderStep`: the operating
system runs a thread that can run. Reads are begun and dropped at will.

## What the documents say and the code does not

1. `UnreadablePut`: `put` accepts a value longer than `DecodeLimits` allows to
   be decoded, and `get` fails on it for good. The README's correctness contract
   says that `get` returns the value after any successful `put`.
2. `UnplannedVacuum`: a `VacuumMeaning` job meets a raw value that cannot be
   planned and fails with an engine error. The specification document keeps
   such errors to `ForceRawToPlan`.
3. `StaleRewrite`: a job that commits between the recheck of
   `write_if_source_unchanged` and its `put` has changed the source, and the
   rewrite goes ahead. Both envelopes spell the same bytes, so no value is lost
   (`RewritesFindTheirSource` and `KeepsPromise` are proved of the whole
   system); a better plan can be replaced by a worse one. How far it goes is
   proved too: in the wrapper alone the contract holds (`RewriteKnows`), in the
   whole system only the commit of a job ever takes a source away
   (`SourcesLostOnlyToJobs`), and what it leaves there spells the same bytes
   (`LostSourcesMeanTheSame`).
4. `LiteralScore`: the planner scores a literal byte as four encoded bytes; it
   takes three. With literals allowed, a chunk at an offset of 16384 or more can
   be chosen where literals are shorter, though the specification document puts
   encoded bytes first. The plan is longer than the shortest by no more bytes
   than that one has literals (`FewestBytesNearly`), and where literals are not
   allowed it is the shortest (`FewestBytesWithoutLiterals`).
5. The size of the cache is returned under its mutex and stored in the counter
   of `metrics` after the mutex is released (`lib.rs:993`, `lib.rs:1096`), so two
   readers can store theirs in the wrong order, and the counter then stays wrong
   until the next insertion. The README asks for the cache's size to be
   reported (`README.md:158`). Without its first line, `~overlapped`,
   `ReportedWhenQuiet` is refuted in twelve steps; with it, it is proved. There
   is no run for it.

## The proofs

Every theorem holds for all values of the constants (tasks, keys, values,
streams, planners, calls, rows left by earlier sessions, compactors, readers),
from the named assumptions of the modules: the types of the constants, that
`NoTask` and `NoReader` are not among the tasks and the readers, that a call's
arguments fit its operation.

| module | theorem | states |
|---|---|---|
| `PiLsmDbProofs` | `TypeCorrect` | `Spec => []TypeOK` |
| | `GuardDisciplineCorrect` | `Spec => []GuardDiscipline` |
| | `KnowledgeCorrect` (H) | `Spec => []RewriteKnows` |
| | `RewritesCorrect` (H) | `Spec => []RewritesFindTheirSource` |
| | `StoredPlansCorrect` (H) | `Spec => StoredPlansReadBack` |
| | `VacuumCorrect` (H) | `Spec => VacuumImproves` |
| | `PromiseKept` (H) | `Spec => KeepsPromise` |
| `CompactionFilterProofs` | `FilterTypeCorrect` | `FilterSpec => []FilterTypeOK` |
| | `JobsMeaningCorrect` | `FilterSpec => JobsKeepMeaning` |
| | `ProtectedRowsCorrect` | `FilterSpec => ProtectedRowsKept` |
| | `PlansImproveCorrect` (L) | `FilterSpec => PlansOnlyImprove` |
| | `FilteredPlansCorrect` | `FilterSpec => FilteredPlansReadBack` |
| | `ForcedJobCorrect` | `FilterSpec => ForcedJobLeavesNoRaw` |
| | `StatsCorrect` | `FilterSpec => []StatsExplainJob` |
| `PiLSMerProofs` | `SystemRewritesCorrect` (H) | `SystemSpec => []RewritesFindTheirSource` |
| | `SystemJobsCorrect` (H) | `SystemSpec => JobsKeepMeaning` |
| | `SystemPromiseKept` (H) | `SystemSpec => KeepsPromise` |
| | `SystemGuardDiscipline` | `SystemSpec => []GuardDiscipline` |
| | `SystemStoredPlans` (H) | `SystemSpec => StoredPlansReadBack` |
| | `SystemJobRules` | `SystemSpec => ProtectedRowsKept /\ FilteredPlansReadBack /\ ForcedJobLeavesNoRaw` |
| | `SystemPlansImprove` (L) | `SystemSpec => PlansOnlyImprove` |
| | `SystemStats` | `SystemSpec => []StatsExplainJob` |
| | `SourcesLostOnlyToJobs` | `SystemSpec =>` no step but `CommitJob` takes away the source of a rewrite |
| | `LostSourcesMeanTheSame` (H) | `SystemSpec => []SourcesMean` |
| | `SystemRowsRead` (H, R) | `SystemSpec => []EveryRowReads` |
| | `CommandsAreSystem` | `CliSpec => SystemSpec` |
| | `CommandsKeepPromise` (H) | `CliSpec => KeepsPromise` |
| | `CliTypeCorrect` | `CliSpec => []CliTypeOK` |
| | `AnswersCorrect` (H) | `CliSpec => []AnswersHold` |
| | `ReportsCorrect` | `CliSpec => []ReportExplainsStore` |
| | `MigrationCorrect` (M) | `CliSpec => []MigrationComplete` |
| `ReconstructionCacheProofs` | `CacheTypeCorrect` | `CacheSpec => []CacheTypeOK` |
| | `ReportedCorrect` | `CacheSpec => []ReportedWhenQuiet` |
| | `AccountsCorrect` | `CacheSpec => []BytesAccounted` |
| | `CacheIsAtomic` | `CacheSpec => InsertsAreAtomic` |
| `PlannerProofs` | `SearchTypeCorrect` | `SearchSpec => []SearchTypeOK` |
| | `SearchFindsBest` | `SearchSpec => []SearchIsOptimal` |
| | `CapIsFree` | `SearchSpec => []CapLosesNothing` |
| | `WalkCorrect` | `SearchSpec => []WalkFollowsSearch` |
| | `FewestBytesNearly` | `SearchSpec => []FewestBytesButForLiterals` |
| | `FewestBytesWithoutLiterals` | `SearchSpec => [](FewStreams /\ ~opts.literals => FewestBytes)` |
| | `GenuinePlansCorrect` | `SearchSpec => []GenuinePlansPass` |
| `CodecProofs` | `VarintRoundTrip` | `ReadVarint` of what `PutVarint` wrote is the number, and the place behind it |
| `FormatProofs` | `CounterReads` | `ReadCounter` gives the byte at each place of the counter stream |
| | `FormatTypeCorrect` | `FormatSpec => []FormatTypeOK` |
| | `DamageCorrect` | `FormatSpec => []DamageRefused` |
| | `DecodesSoundPlans` | `FormatSpec => []DecodedPlansSound` |
| | `ReadsCorrectly` (B) | `FormatSpec => []ReadsWhatItNames` |
| | `ExplainsCorrectly` | `FormatSpec => []ExplainsWhatItHolds` |
| | `RoundTripCorrect` | `FormatSpec => []RoundTrip` |

(H) assumes `HonestOrUncached`. The cache is keyed by the logical hash alone, so
a hit answers for a plan that does not itself spell the value of its hash; a
database that starts with such a row *and* has a cache would replan it into an
honest plan, which is harmless but changes what the row means. The theorems
therefore assume that there is no cache, the default, or no such row to begin
with. (L) assumes `LimitsWithinDefaults`: `score_plan` in the filter measures a
plan under the default limits, and a plan that the database can decode and the
default limits cannot has no score to compare. (R) assumes `OneProfile` and
`EverythingFits`: all processes of the database, compactors included, register
the streams that the rows left there read, and values and plans are within the
decode and reconstruction limits. Without the second, `UnreadablePut` is a
counterexample; without the first, a database opened with another `--stream`.
(M) assumes that there is no cache, `PlansFit` (plans are no longer than
`max_chunk_count`) and `CompactorsAside`: a compactor beside a migration registers
no stream that the migration does not, and either none but the target, or not
the target, with the migration's own plans reading from nothing else. A compactor
that vacuums with the old profile while rows are migrated does undo
a migration, so the last is needed. (B) assumes `BlocksFit`: the largest offset and
the longest chunk that are allowed, and a block, add up to no more than a word
can say. The default `max_offset` is half of the largest word, and the longest
chunk 2^20, so they are far from it; without it `end_offset + 31` would
saturate and the slice after it panic. `FewStreams`, in
`FewestBytesButForLiterals` itself, says that there are no more streams than one
byte of a varint can tell apart: 128, when no plan of more than 64 decodes.
`CrcAssumption` and `SumAssumption` are about the checksum that stands for
CRC-32 (see **Rows**), not about the code. The values of the constants in the runs meet
these assumptions, so that no theorem holds for want of a case.

**The wrapper.** `RewritesFindTheirSource` is not inductive: it says nothing
of a rewrite before it reaches the store. The invariant `Inv` is `PlanInv` (the
types, `GuardsHeld`, `CacheHarmless` and `PlansKnown`) and `SourcesKnown`; it
follows a rewrite from its first read. The bytes it has in hand are those its
source spells (`Read`, `Reconstruct`, with `CacheHarmless` for a hit); its plan
carries their hash and reads back (`Plan`, by the planner's own check), and
scores lower if that was asked for; from `Recheck` until `Rewrite` the source is
in place, because only the holder of the key's guard writes to the key, which is
what `GuardsHeld` is for. One lemma per action shows each conjunct preserved;
each theorem follows from `Inv` alone. `PlanInv` is inductive without
`SourcesKnown`, which is what the whole system, where it is false, needs.

The other half of `GuardDiscipline` is about queues: appending, taking the head
and dropping an element each keep a sequence free of duplicates and change its
elements by one (`AppendQueue`, `TailQueue`, `CutQueue`), and the tasks that
wait change by the same one.

**The promise.** `NextRefines` shows that each step of `PiLsmDb`, from a state
in `Refining` (`PlanInv`, calls that fit, and `RewritesFindTheirSource`), maps to
a step of `LogicalStore` or to none, with one lemma per action. The steps that
matter are `Write`, where a put or a delete takes effect, `Get`, where an answer
is fixed, `Rewrite`, where `RewritesFindTheirSource` makes the new row mean what
the old one did, and `Flush`, which is `Persist`; all others move a session or
stutter.

**The filter.** `FilterInv` says that a sequence number stands for one version
of a row (`OneVersion`), that the rows of a job are as it has read them
(`RowsAsRead`), and that whatever it has put out may take the place of what it
has read (`OutReplaces`, in terms of `Replaces`: the same meaning, a plan that
reconstructs, a better score for a plan, and no protected row). `CommitReplaces`
brings that to the rows that a commit changes, and the theorems follow.

**The system.** A job may replace the source of a rewrite after its recheck, so
`SourcesKnown` fails there (`StaleRewrite`). What remains is `SourcesMean`: the
row still means what the source meant. With `PlanInv` and `FilterInv` it is
inductive: each component keeps its own invariant, and is for the other no more
than the moves of the store that it was proved under (`WrapperMoves`,
`PlanInvByFilter`). `RewritesFindTheirSource` is weaker than `SourcesKnown` and
still what the refinement needs, so `SystemPromiseKept` follows, with a
compaction as a stutter. `SourcesLostOnlyToJobs` needs neither the cache nor the
rows to be honest: it rests on the guards (`SystemGuarded`) and on `SourceStep`,
the lemma by which `SourcesKnown` is inductive without jobs.

The rest of what is proved of each component alone is so of the whole as well
(`SystemGuardDiscipline` to `SystemStats`), because its lemmas ask no more of a step
than that it is one of the component's or leaves the component's state alone:
`CommitSpares` and its kin are about a commit whatever was written before it. What
does not carry over is `RewriteKnows`, for the same reason as `SourcesKnown`, and
`VacuumImproves`: a rewrite that has been overtaken by a job improves the plan it has
checked and may be no improvement on the one in place.

**Rows and commands.** `RowsRead` says that every row, current or durable, reads
with the one profile, and that no plan in a task's hands is too long; what is put
fits, and what plans has been checked against the profile. `CommandsAreSystem`
shows that every step of a command is one of the wrapper, of a compactor, or of
neither, so that all invariants of the system hold under commands. On top of
them, `CliCalling` ties the statement in progress to the call that carries it
out. `AnswersInv` adds to `AnswersHold` that a write which has been applied is in
the store with a meaning its key may have. `Books` says that the keys with a new
version since the loop began are as many as are counted, and follows a rewrite
from its write to its return so that none is counted twice or missed
(`ReportInv`). In a migration, every key that the loop has passed reads, and if
nothing is reported kept or stale its row is `Migrated`, which no compactor that
stands aside can undo (`MigrationInv`).

**The cache.** `InOrder` says that, unless two readers have been storing sizes
at once, at most one has a size to store, and that outside the mutex this size,
or else the counter, is the size of the cache. `Accounts` says that
`current_bytes` is the sum of the sizes of the values, and that in the eviction loop
some of the values there were when the mutex was taken are gone, the last of
them when there was no room (`EvictionDue`). So the cache that the loop leaves
is one that `Inserted` allows from the one it found, which is `CacheIsAtomic`.

**Sums and folds.** `BytesAccounted`, `StatsExplainJob` and the costs of plans are
folds, which the community modules define by recursive functions over the subsets
of a set. The library's induction theorems take operators as parameters, which
no installed prover can instantiate; but its `WFMin` and
`FS_StrictSubsetOrderingWellFounded` speak of sets alone. `Recursion` derives
from them an induction over the subsets of a finite set and one over the
numbers (`SubsetInduction`, `Induction`), each for a property given as a set, then
that the recursive function of a sum or of a fold exists, that an element can be
added to a sum in any order (`SumAdd`), and that a fold is a trace of its steps
(`FoldValues`).

**The planner.** `SearchInv` says that each position the search has passed is
`Settled`: `dp` holds a candidate whose total no other usable candidate precedes.
Ties are broken by `Place`, so that the candidate which is chosen exists and is
unique: tuples of numbers are well ordered from left to right (`LeastTuple`).
In the walk, the cost of what has been taken and the score of what is left add up
to the score of the whole (`Walked`). `PlanInv` adds that the chunks taken
tile the value, and `TilesSpell` that tiles which a genuine index has found spell it.
For optimality, the recursive function in `Covers` is shown to exist, since every
candidate is at least one byte long (`CoverTableExists`); then, from the end of
the value to its start, no cover precedes what `dp` holds (`NothingCheaper`), and
`dp` holds the cost of one (`FoundIsPaid`). `NothingCheaper` is stated for the
candidates of any indexes that ours match, chunk by chunk, at no greater cost:
`CapIsFree` follows because the first occurrence of a gram is always kept
(`FirstIsKept`) and a smaller offset takes no longer a varint (`VarintLenGrows`).
For `FewestBytesNearly` the score of a cover is compared with what its chunks take
in `encode_payload`, which `Planner` adds up on its own: they differ by one byte
for each literal and by nothing else (`EncodedCost`), so `NothingCheaper` carries
over to lengths.
The provers have no rule for exponentiation, so `Codec` states the two equations
of powers of `VarintBase` as `PowerAssumption`, which TLC evaluates. Streams
are assumed shorter than 2^64 bytes.

**Rows.** `CodecProofs` shows that a varint takes as many bytes as its number
needs, and that reading bytes back gives the number and the place after it
(`VarintRoundTrip`). What a reader sees of a forged or damaged row need not be
anything that was written, so `FormatInv` speaks of the plan in the making
alone: every chunk is `SoundChunk`, the counts are within the limits (`Counted`),
and the plan would take, written again with what is still announced, no more room
than has been read (`Roomy`): reading a number consumes at least the bytes that
writing it takes. So a decoded plan is within `MaxEncodedPlanLen`. `InputRows`
says what all rows have in common, damaged or not, of which `FrameParts` takes an
intact one apart. `SpellInv` adds that the bytes known so far are what the
chunks read so far spell, and that each of these could be reached. `ReadCounter`
takes the blocks from `offset \div BlockLen` to the one the end falls in and
slices them; `CounterReads` shows that this is the byte at each place, for any
block length. The exclusive or of two bytes is a constant of `Format`, any
function from bytes to bytes, for which `MCFormat` puts `^^`.
`InputAssumption` gives the rows to begin with their types: fields fit a word,
seeds and fingerprints are symbols.

For `RoundTrip`, `PayloadLaid` finds the places `a` and `b` at which the streams
and the chunks of a plan start in its payload, wherever varints of any length put
them. `StreamThere` and `ChunkThere` say what is read at such a place: the stream
that was written, and the chunk, if it is one decode allows (`SoundChunk`),
otherwise nothing. So, while the row of `p` is read, the cursor is at the place
of the next stream or chunk, what has been decoded is a prefix of `p`, and the row
is refused only if `p` is inconsistent or beyond a limit (`Follows`); at the end
the prefix is all of `p`. `FollowsRaw` is the same for raw values, and
`ReadsBack` states both for every row that was written.

For `DamageRefused`: the length in a frame fits no shorter and no longer row, for
reading the first bytes of a number either fails or reads the number (`CutReads`),
so a row cut short or run on is refused (`CutIsShort`). One wrong byte is a matter
of the checksum. CRC-32 tells any two rows that differ in one byte apart; the
model's `Crc` is a weighted sum modulo a prime `CrcModulus`, large enough for the
rows that damage is done to (`SumAssumption`), and is proved to do the same
(`CrcTells`, from `NoFactor`: a prime divides no product of smaller numbers). A
damaged row therefore never gets beyond its frame (`StopsAtFrame`).

What only TLC checks: liveness (`CallsReturn`, `CommandsEnd`, `MutexFreed`), for
fairness is a matter of `ENABLED`, out of the prover's reach. Every invariant, action
property and refinement of a passing run is stated by a theorem.

## What is not modelled

- The counters of the wrapper other than the size of the cache, and timings:
  they are reported and never read back.
- Parsing and printing in the command line; its benchmarks, which generate
  values and measure around calls of the wrapper; the counting object store,
  which delegates to another and counts. The website, scripts and CI.
- Older versions of a key, snapshots and the merge of sorted runs inside
  SlateDB: `retention_min_seq` is any number a job may be given.
- Concurrent jobs: one job at a time; jobs of one engine work on disjoint runs.
  Two that share a supplier would also share its counters, each bump one atomic
  addition; what each job has counted could then not be told from the sum, so
  `StatsExplainJob` is about jobs that follow each other.
- A cache together with rows whose chunks do not spell the value of their hash
  (`HonestOrUncached`, in the runs as in the theorems): a hit would answer for them.
- The engine's default of waiting for durability in `put`: the model lets a put
  be acknowledged before it is durable, which admits more behaviours.
- Planning errors other than the ones in `Planning` (arithmetic overflow,
  out-of-range stream reads) are among its `PlanningErrs`.
- `PlanStream` lists of several streams outside `Format`: a plan's stream is the
  one its chunks read; the command line indexes one stream.
- Two databases open on one path: SlateDB fences the older writer. Two commands
  that write at once are therefore not modelled either; a compactor beside a
  command is.
- What has no line of its own in the code is marked external in `PROJECT.json`:
  the engine flushing by itself (`BackgroundFlush`), the caller who takes an answer
  (`Return`), a process that ends or is killed (`Gone`, `Kill`).
- The digits of the constants, the hash functions, CRC-32 itself.
- Error types: the models tell errors apart where the code does.

## Plan

Done, in this order: `LogicalStore`, `Envelopes`, `Planning`, `SlateStore`,
`PiLsmDb`, `CompactionFilter` and `PiLSMer` with their runs; `PiLsmDbProofs`;
`Codec`, `StreamIndex` and `Planner`; `Streams` and `Format`; `CommandLine`;
`ReconstructionCache`; the proofs of the filter, of the queues, of the promise,
of the whole system and of the cache; the proofs of the commands, of sums and
folds, of the planner, of varints, of rows and of their round trip; the proofs of
damage, of how far findings 3 and 4 go, and of what each component keeps of its
own in the whole.

What could follow: fencing of a second writer on one path, with the engine's own
protocol.
