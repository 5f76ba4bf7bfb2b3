-------------------------- MODULE CompactionFilter --------------------------
(***************************************************************************)
(* The compaction filter (pilsmer-slate/src/compaction_filter.rs) inside a *)
(* compaction job of the engine.  The engine (external) hands the filter   *)
(* the durable row of each key of the job, one at a time, keeps what the   *)
(* filter answers, and puts the results in place of those rows, under the  *)
(* same sequence numbers, when the job ends; a job that fails or is        *)
(* stopped changes nothing.  Meanwhile the keys can be written.            *)
(***************************************************************************)
EXTENDS SlateStore, Planning, FiniteSetsExt

CONSTANTS
    Suppliers,          \* the filter suppliers that compactors are run with
    NoSnapshot,         \* retention_min_seq = None
    DefaultLogicalLen,  \* DecodeLimits::default(), which plan_score uses
    DefaultChunkCount,
    MaxJobs,            \* bound on the number of jobs
    MaxWrites           \* bound on the number of writes while jobs run

VARIABLES
    supplier,   \* PiLsmCompactionFilterSupplier of the compactor that runs
    stats,      \* its stats, shared by the filters it makes
    job,        \* the job that runs, with the filter made for it
    jobs

filterVars == <<supplier, stats, job, jobs>>

Modes == {"Disabled", "Normal", "ForceRawToPlan", "VacuumMeaning"}

\* snapshotSafe: with_snapshot_safe_filtering; strict: with_strict_envelopes.
Supplier == [mode : Modes, rt : Runtime, strict : BOOLEAN, snapshotSafe : BOOLEAN]

ASSUME FilterAssumption ==
    /\ Suppliers \subseteq Supplier
    /\ NoSnapshot \notin Nat
    /\ {DefaultLogicalLen, DefaultChunkCount, MaxJobs, MaxWrites} \subseteq Nat

Counters == {"raw_values_converted", "raw_bytes_converted", "plans_improved",
             "plans_kept", "raw_values_kept_after_planning_failure",
             "corrupt_or_unknown_kept", "snapshot_protected_entries",
             "tombstones_or_merges_kept", "errors"}
ZeroStats == [c \in Counters |-> 0]

Errors == {"none", "decode", "planning", "check", "reconstruct"}

Job == [phase : {"none", "running", "failed"},
        minSeq : Nat \union {NoSnapshot},  \* retention_min_seq of the job
        keys : SUBSET Keys,         \* the keys the job compacts
        todo : SUBSET Keys,         \* those whose row is still to be filtered
        rows : [Keys -> Version],   \* the rows as the job reads them
        out : [Keys -> Version],    \* the rows as it will leave them
        since : [Counters -> Nat],  \* the stats when it started
        error : Errors]             \* what the filter returned to fail the job

\* Type invariant; a job has failed exactly when the filter has returned an
\* error.
FilterTypeOK ==
    /\ supplier \in Supplier
    /\ stats \in [Counters -> Nat]
    /\ job \in Job
    /\ job.todo \subseteq job.keys
    /\ job.phase = "failed" <=> job.error # "none"
    /\ jobs \in Nat

NoJob == [phase |-> "none", minSeq |-> NoSnapshot, keys |-> {}, todo |-> {},
          rows |-> [k \in Keys |-> [seq |-> 0, env |-> Absent]],
          out |-> [k \in Keys |-> [seq |-> 0, env |-> Absent]],
          since |-> ZeroStats, error |-> "none"]

FilterInit ==
    /\ supplier \in Suppliers
    /\ stats = ZeroStats
    /\ job = NoJob
    /\ jobs = 0

-----------------------------------------------------------------------------

\* run_compactor_with_options stops its compactor when its time is up; another
\* one is run with another supplier.
RunCompactor ==
    /\ job.phase = "none"
    /\ supplier' \in Suppliers
    /\ stats' = ZeroStats
    /\ UNCHANGED <<storeVars, job, jobs>>

\* The engine starts a job over the durable rows of some keys, and
\* create_compaction_filter makes the filter for it.
StartJob ==
    /\ job.phase = "none"
    /\ jobs < MaxJobs
    /\ jobs' = jobs + 1
    /\ \E K \in (SUBSET Keys) \ {{}}, m \in 0 .. seq \union {NoSnapshot} :
          job' = [phase |-> "running", minSeq |-> m, keys |-> K, todo |-> K,
                  rows |-> disk, out |-> disk, since |-> stats, error |-> "none"]
    /\ UNCHANGED <<storeVars, supplier, stats>>

Bump(counts) ==
    stats' = [c \in Counters |->
                 IF c \in DOMAIN counts THEN stats[c] + counts[c] ELSE stats[c]]
One(c) == [x \in {c} |-> 1]

\* The filter is done with the row of k: it leaves e as the row, and counts.
Leave(k, e, counts) ==
    /\ job' = [job EXCEPT !.todo = @ \ {k}, !.out[k].env = e]
    /\ Bump(counts)

Keep(k, counter) == Leave(k, job.rows[k].env, One(counter))

\* Bug seeded for Fail: the error is counted but not returned.
FailUnnoticed(error) ==
    /\ job' = [job EXCEPT !.error = error]
    /\ Bump(One("errors"))

\* An error from filter() fails the job.
Fail(error) ==
    /\ job' = [job EXCEPT !.phase = "failed", !.error = error]
    /\ Bump(One("errors"))

\* Bug seeded for SafeToModify: off by one.
SafeUpToSnapshot(row) == job.minSeq # NoSnapshot => row.seq <= job.minSeq

\* snapshot_safe_to_modify
SafeToModify(row) == job.minSeq # NoSnapshot => row.seq < job.minSeq

\* plan_score: a plan that the default limits refuse to decode is worse than
\* any that they do not.
Scored(p) == Size[p.hash] <= DefaultLogicalLen /\ p.chunks <= DefaultChunkCount
\* Bug seeded for FilterImproves: <= for <.
FilterNoWorse(new, old) == Scored(new) /\ (Scored(old) => ~Improves(old, new))
FilterImproves(new, old) == Scored(new) /\ (Scored(old) => Improves(new, old))

\* Bug seeded for KeepsUnplanned: a forced job tolerates failures too.
PlanningMayFail == supplier.mode # "VacuumMeaning"

\* The mode in which a raw value that cannot be planned is left as it is.
KeepsUnplanned == supplier.mode = "Normal"

\* Bug seeded for Converted: encoded bytes are counted, not logical ones.
ConvertedEncoded(e) ==
    [raw_values_converted |-> 1, raw_bytes_converted |-> e.len]
Converted(e) ==
    [raw_values_converted |-> 1, raw_bytes_converted |-> Size[e.hash]]

PlanRaw(k, e) ==
    \/ \E p \in Plans(supplier.rt, DefaultOpts, e.hash) :
          Leave(k, p, Converted(e))
    \/ /\ KeepsUnplanned
       /\ Keep(k, "raw_values_kept_after_planning_failure")
    \/ /\ ~KeepsUnplanned
       /\ Fail("planning")
    \/ /\ PlanningErrs(supplier.rt, DefaultOpts, e.hash)
       /\ Fail("check")

ImprovePlan(k, e) ==
    \/ /\ ~Reconstructs(supplier.rt.registry, e)
       /\ Fail("reconstruct")
    \/ /\ Reconstructs(supplier.rt.registry, e)
       /\ \/ \E p \in Plans(supplier.rt, DefaultOpts, e.hash) :
                IF FilterImproves(p, e)
                THEN Leave(k, p, One("plans_improved"))
                ELSE Keep(k, "plans_kept")
          \/ Keep(k, "plans_kept")
          \/ /\ PlanningErrs(supplier.rt, DefaultOpts, e.hash)
             /\ Fail("check")

\* filter_entry, on the row of k.
FilterEntry(k) ==
    LET row == job.rows[k]
        e == row.env
    IN  \/ /\ supplier.snapshotSafe /\ ~SafeToModify(row)
           /\ Keep(k, "snapshot_protected_entries")
        \/ /\ supplier.snapshotSafe => SafeToModify(row)
           /\ \/ /\ e = Absent
                 /\ Keep(k, "tombstones_or_merges_kept")
              \/ /\ e # Absent /\ ~Decodable(e) /\ supplier.strict
                 /\ Fail("decode")
              \/ /\ e # Absent /\ ~Decodable(e) /\ ~supplier.strict
                 /\ Keep(k, "corrupt_or_unknown_kept")
              \/ /\ e # Absent /\ Decodable(e) /\ supplier.mode = "Disabled"
                 /\ Leave(k, e, <<>>)
              \/ /\ e # Absent /\ Decodable(e) /\ supplier.mode # "Disabled"
                 /\ e.kind = "raw"
                 /\ PlanRaw(k, e)
              \/ /\ e # Absent /\ Decodable(e) /\ e.kind = "plan"
                 /\ supplier.mode = "VacuumMeaning"
                 /\ ImprovePlan(k, e)
              \/ /\ e # Absent /\ Decodable(e) /\ e.kind = "plan"
                 /\ supplier.mode \in {"Normal", "ForceRawToPlan"}
                 /\ Keep(k, "plans_kept")

FilterRow ==
    /\ job.phase = "running"
    /\ \E k \in job.todo : FilterEntry(k)
    /\ UNCHANGED <<storeVars, supplier, jobs>>

\* The row that version v becomes when the job commits; a version written
\* since the job read its rows is none of the job's.
Compacted(v, k) ==
    IF k \in job.keys /\ v.seq = job.rows[k].seq THEN job.out[k] ELSE v

\* The engine replaces the rows of the job by what the filter made of them.
CommitJob ==
    /\ job.phase = "running" /\ job.todo = {}
    /\ mem' = [k \in Keys |-> Compacted(mem[k], k)]
    /\ disk' = [k \in Keys |-> Compacted(disk[k], k)]
    /\ job' = NoJob
    /\ UNCHANGED <<seq, supplier, stats, jobs>>

\* The engine gives the job up: the filter has failed it, the compactor is
\* stopped (run_compactor_with_options), or its process dies.
AbortJob ==
    /\ job.phase \in {"running", "failed"}
    /\ job' = NoJob
    /\ UNCHANGED <<storeVars, supplier, stats, jobs>>

FilterNext == RunCompactor \/ StartJob \/ FilterRow \/ CommitJob \/ AbortJob

-----------------------------------------------------------------------------
(* What goes on in the database while jobs run, seen from the store: a     *)
(* value is put raw or deleted, the engine flushes, the process dies.      *)

Written ==
    /\ seq < MaxWrites
    /\ \E k \in Keys, e \in {Absent} \union {Raw(v) : v \in Values} : StorePut(k, e)

Elsewhere ==
    /\ Written \/ StoreFlush \/ StoreCrash
    /\ UNCHANGED filterVars

FilterStart == StoreInit /\ FilterInit

FilterSpec ==
    FilterStart /\ [][FilterNext \/ Elsewhere]_<<storeVars, filterVars>>

-----------------------------------------------------------------------------
(* Properties *)

\* A job changes the meaning of no key, in memory or durable: what it commits
\* spells the same bytes as what it read, and never comes back over a value
\* written, or a tombstone laid, while it ran.
JobsKeepMeaning ==
    [][FilterNext => \A k \in Keys :
          /\ Logical(mem'[k].env) = Logical(mem[k].env)
          /\ Logical(disk'[k].env) = Logical(disk[k].env)]_<<storeVars, filterVars>>

\* Rows that a committed job has rewritten in the durable store.
RewrittenBy(step) == {k \in Keys : step /\ disk'[k].env # disk[k].env}

\* Rows a snapshot may still have to see as they are.
Pinned(row) == job.minSeq # NoSnapshot /\ row.seq >= job.minSeq

\* A job rewrites no row that retention_min_seq protects (unless snapshot-safe
\* filtering is off), no tombstone, and no row it cannot decode.
ProtectedRowsKept ==
    [][\A k \in RewrittenBy(CommitJob) :
          /\ supplier.snapshotSafe => ~Pinned(disk[k])
          /\ disk[k].env # Absent /\ Decodable(disk[k].env)
      ]_<<storeVars, filterVars>>

\* Once a row is a plan only VacuumMeaning touches it, and only for a strictly
\* better score: jobs never rewrite a plan back and forth.
PlansOnlyImprove ==
    [][\A k \in RewrittenBy(CommitJob) :
          disk[k].env.kind = "plan" =>
             /\ supplier.mode = "VacuumMeaning"
             /\ Improves(disk'[k].env, disk[k].env)]_<<storeVars, filterVars>>

\* What the filter leaves as a plan can be read back by whoever registers the
\* streams the filter was built with.
FilteredPlansReadBack ==
    [][\A k \in RewrittenBy(CommitJob) :
          Reconstructs(supplier.rt.registry, disk'[k].env)]_<<storeVars, filterVars>>

\* A ForceRawToPlan job is all or nothing: if it commits, it leaves raw none of
\* the values it was allowed to touch.
ForcedJobLeavesNoRaw ==
    [][\A k \in job.keys :
          /\ CommitJob
          /\ supplier.mode = "ForceRawToPlan"
          /\ disk[k].seq = job.rows[k].seq
          /\ supplier.snapshotSafe => ~Pinned(disk[k])
          /\ disk[k].env # Absent /\ Decodable(disk[k].env)
          => disk'[k].env.kind = "plan"]_<<storeVars, filterVars>>

\* The rows a job counts as converted and improved are the rows it has changed,
\* and it counts every other row it has seen under exactly one reason to keep it.
Count(c) == stats[c] - job.since[c]
Changed(kind) ==
    {k \in job.keys \ job.todo :
        job.rows[k].env # job.out[k].env /\ job.rows[k].env.kind = kind}

StatsExplainJob ==
    job.phase # "none" =>
      /\ Count("raw_values_converted") = Cardinality(Changed("raw"))
      /\ Count("raw_bytes_converted") =
            MapThenSumSet(LAMBDA k : Size[job.rows[k].env.hash], Changed("raw"))
      /\ Count("plans_improved") = Cardinality(Changed("plan"))
      /\ supplier.mode # "Disabled" =>
            MapThenSumSet(Count, Counters \ {"raw_bytes_converted", "errors"})
               = Cardinality(job.keys \ job.todo)

\* SPEC.md section 20: planning that fails is an engine error in no mode but
\* ForceRawToPlan.
OnlyForcedPlanningFails ==
    job.error = "planning" => supplier.mode = "ForceRawToPlan"
=============================================================================
