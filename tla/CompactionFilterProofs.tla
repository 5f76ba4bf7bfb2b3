------------------------ MODULE CompactionFilterProofs ------------------------
(***************************************************************************)
(* Proofs about CompactionFilter, for any keys, values, compactors, rows   *)
(* left by earlier sessions, jobs and writes.                              *)
(***************************************************************************)
EXTENDS CompactionFilter, Recursion

filterAndStore == <<storeVars, filterVars>>

TypesOK == StoreTypeOK /\ FilterTypeOK

USE DEF Modes, Errors, Counters

-----------------------------------------------------------------------------
(* Rows and plans *)

\* What is put raw is an envelope.
LEMMA RawIsRow ==
    ASSUME NEW v \in Values
    PROVE  Raw(v) \in Row
BY EnvelopeAssumption DEF Raw, Envelope, FrameLen, Row

\* What the planner returns for v is a plan that spells v and can be read.
LEMMA PlansSpell ==
    ASSUME NEW rt \in Runtime, NEW v \in Values,
           NEW p \in Plans(rt, DefaultOpts, v)
    PROVE  /\ p \in Envelope /\ p.kind = "plan"
           /\ p.hash = v /\ Logical(p) = v
           /\ Reconstructs(rt.registry, p)
<1>1. PICK c \in Chunkings[rt.target, DefaultOpts, v] : p = PlanFor(v, c)
  BY DEF Plans, Candidates
<1>2. c \in Chunking
  BY PlanningAssumption DEF Runtime
<1>3. p \in Envelope /\ p.kind = "plan" /\ p.hash = v
  BY <1>1, <1>2 DEF PlanFor, Chunking, Envelope
<1>4. Reconstructs(rt.registry, p)
  BY DEF Plans
<1>5. Logical(p) = v
  BY <1>3, <1>4, EnvelopeAssumption DEF Reconstructs, Logical
<1> QED
  BY <1>3, <1>4, <1>5

\* A row that decodes is an envelope.
LEMMA DecodableIsEnvelope ==
    ASSUME NEW e \in Row, e # Absent, Decodable(e)
    PROVE  e \in Envelope /\ e.hash \in Values /\ e.kind \in {"raw", "plan"}
  BY DEF Row, Decodable, Envelope

-----------------------------------------------------------------------------
(* What the filter makes of a row *)

\* e can take the place of the row that the job has read for k.
Replaces(k, e) ==
    LET row == job.rows[k]
    IN  /\ supplier.snapshotSafe => ~Pinned(row)
        /\ row.env # Absent /\ Decodable(row.env)
        /\ Logical(e) = Logical(row.env)
        /\ e \in Plans(supplier.rt, DefaultOpts, row.env.hash)
        /\ e.kind = "plan"
        /\ Reconstructs(supplier.rt.registry, e)
        /\ row.env.kind = "plan" =>
              /\ supplier.mode = "VacuumMeaning" /\ FilterImproves(e, row.env)
              /\ Reconstructs(supplier.rt.registry, row.env)

\* The job may not leave the row of k raw.
MustPlan(k) ==
    /\ supplier.mode = "ForceRawToPlan"
    /\ supplier.snapshotSafe => ~Pinned(job.rows[k])
    /\ job.rows[k].env # Absent /\ Decodable(job.rows[k].env)

Filtered(k, e) == e = job.rows[k].env \/ Replaces(k, e)

\* Rows, suppliers and jobs, taken apart.
LEMMA JobParts ==
    ASSUME FilterTypeOK, NEW k \in Keys
    PROVE  /\ job.rows[k] \in Version /\ job.rows[k].env \in Row
           /\ job.rows[k].seq \in Nat
           /\ job.minSeq \in Nat \union {NoSnapshot}
           /\ supplier.rt \in Runtime /\ supplier.mode \in Modes
           /\ supplier.snapshotSafe \in BOOLEAN
<1>1. job \in Job /\ supplier \in Supplier
  BY DEF FilterTypeOK
<1> QED
  BY <1>1 DEF Job, Supplier, Version

\* A row that it is safe to modify is not pinned by a snapshot.
LEMMA SafeIsUnpinned ==
    ASSUME FilterTypeOK, NEW k \in Keys, SafeToModify(job.rows[k])
    PROVE  ~Pinned(job.rows[k])
  BY JobParts, FilterAssumption DEF SafeToModify, Pinned

\* What can come of filtering the row of k: it is left as something that can
\* take its place, or the job fails.
Leaves(k, e) == job' = [job EXCEPT !.todo = @ \ {k}, !.out[k].env = e]
FailsWith(error) == job' = [job EXCEPT !.phase = "failed", !.error = error]
Outcome(k) ==
    /\ stats' \in [Counters -> Nat]
    /\ \/ \E e \in Row : /\ Leaves(k, e)
                         /\ Filtered(k, e)
                         /\ MustPlan(k) => e.kind = "plan"
       \/ \E error \in Errors \ {"none"} : FailsWith(error)

\* The statistics stay numbers.
LEMMA BumpTyped ==
    ASSUME FilterTypeOK, NEW counts, Bump(counts),
           \A c \in DOMAIN counts : counts[c] \in Nat
    PROVE  stats' \in [Counters -> Nat]
  BY DEF FilterTypeOK, Bump

\* A row that is kept is an outcome.
LEMMA KeepOutcome ==
    ASSUME FilterTypeOK, NEW k \in Keys, NEW c \in Counters, Keep(k, c),
           MustPlan(k) => job.rows[k].env.kind = "plan"
    PROVE  Outcome(k)
<1>1. stats' \in [Counters -> Nat]
  BY BumpTyped DEF Keep, Leave, One
<1>2. Leaves(k, job.rows[k].env) /\ Filtered(k, job.rows[k].env)
  BY DEF Keep, Leave, Leaves, Filtered
<1> QED
  BY <1>1, <1>2, JobParts DEF Outcome

\* So is a failure.
LEMMA FailOutcome ==
    ASSUME FilterTypeOK, NEW k, NEW error \in Errors \ {"none"}, Fail(error)
    PROVE  Outcome(k)
<1>1. stats' \in [Counters -> Nat]
  BY BumpTyped DEF Fail, One
<1>2. FailsWith(error)
  BY DEF Fail, FailsWith
<1> QED
  BY <1>1, <1>2 DEF Outcome

\* A raw value, when the mode lets it be planned.
LEMMA PlanRawOutcome ==
    ASSUME FilterTypeOK, NEW k \in Keys,
           supplier.snapshotSafe => SafeToModify(job.rows[k]),
           job.rows[k].env # Absent, Decodable(job.rows[k].env),
           job.rows[k].env.kind = "raw",
           PlanRaw(k, job.rows[k].env)
    PROVE  Outcome(k)
<1> DEFINE e == job.rows[k].env
<1>1. e \in Envelope /\ e.hash \in Values /\ Logical(e) = e.hash
  BY JobParts, DecodableIsEnvelope, EnvelopeAssumption DEF Decodable, Logical, Row
<1>2. ASSUME NEW p \in Plans(supplier.rt, DefaultOpts, e.hash),
             Leave(k, p, Converted(e))
      PROVE  Outcome(k)
  <2>1. p \in Row /\ p.kind = "plan" /\ Logical(p) = e.hash
        /\ Reconstructs(supplier.rt.registry, p)
    BY <1>1, JobParts, PlansSpell DEF Row
  <2>2. Filtered(k, p)
    BY <1>1, <2>1, SafeIsUnpinned DEF Filtered, Replaces
  <2>3. \A c \in DOMAIN Converted(e) : Converted(e)[c] \in Nat
    BY <1>1, EnvelopeAssumption DEF Converted
  <2>4. stats' \in [Counters -> Nat]
    BY <1>2, <2>3, BumpTyped DEF Leave
  <2> QED
    BY <1>2, <2>1, <2>2, <2>4 DEF Outcome, Leave, Leaves
<1>3. ASSUME KeepsUnplanned, Keep(k, "raw_values_kept_after_planning_failure")
      PROVE  Outcome(k)
  BY <1>3, KeepOutcome DEF MustPlan, KeepsUnplanned
<1>4. ASSUME Fail("planning") \/ Fail("check") PROVE Outcome(k)
  BY <1>4, FailOutcome
<1> QED
  BY <1>2, <1>3, <1>4 DEF PlanRaw

\* A plan, when it is looked at again.
LEMMA ImprovePlanOutcome ==
    ASSUME FilterTypeOK, NEW k \in Keys,
           supplier.snapshotSafe => SafeToModify(job.rows[k]),
           job.rows[k].env # Absent, Decodable(job.rows[k].env),
           job.rows[k].env.kind = "plan", supplier.mode = "VacuumMeaning",
           ImprovePlan(k, job.rows[k].env)
    PROVE  Outcome(k)
<1> DEFINE e == job.rows[k].env
<1>1. e \in Envelope /\ e.hash \in Values
  BY JobParts, DecodableIsEnvelope
<1>2. ASSUME Reconstructs(supplier.rt.registry, e),
             NEW p \in Plans(supplier.rt, DefaultOpts, e.hash),
             FilterImproves(p, e), Leave(k, p, One("plans_improved"))
      PROVE  Outcome(k)
  <2>1. p \in Row /\ p.kind = "plan" /\ Logical(p) = e.hash
        /\ Reconstructs(supplier.rt.registry, p)
    BY <1>1, JobParts, PlansSpell DEF Row
  <2>2. Logical(e) = e.hash
    BY <1>1, <1>2, EnvelopeAssumption DEF Reconstructs, Logical
  <2>3. Filtered(k, p)
    BY <1>2, <2>1, <2>2, SafeIsUnpinned DEF Filtered, Replaces
  <2>4. stats' \in [Counters -> Nat]
    BY <1>2, BumpTyped DEF Leave, One
  <2> QED
    BY <1>2, <2>1, <2>3, <2>4 DEF Outcome, Leave, Leaves
<1>3. ASSUME Keep(k, "plans_kept") PROVE Outcome(k)
  BY <1>3, KeepOutcome
<1>4. ASSUME Fail("reconstruct") \/ Fail("check") PROVE Outcome(k)
  BY <1>4, FailOutcome
<1> QED
  BY <1>2, <1>3, <1>4 DEF ImprovePlan

\* filter_entry in every mode.
LEMMA EntryOutcome ==
    ASSUME FilterTypeOK, NEW k \in Keys, FilterEntry(k)
    PROVE  Outcome(k)
<1> DEFINE row == job.rows[k]
           e == row.env
<1>1. ASSUME supplier.snapshotSafe, ~SafeToModify(row),
             Keep(k, "snapshot_protected_entries")
      PROVE  Outcome(k)
  <2>1. Pinned(row)
    BY <1>1, JobParts, FilterAssumption DEF SafeToModify, Pinned
  <2> QED
    BY <1>1, <2>1, KeepOutcome DEF MustPlan
<1>2. ASSUME e = Absent, Keep(k, "tombstones_or_merges_kept") PROVE Outcome(k)
  BY <1>2, KeepOutcome DEF MustPlan
<1>3. ASSUME ~Decodable(e), Keep(k, "corrupt_or_unknown_kept") PROVE Outcome(k)
  BY <1>3, KeepOutcome DEF MustPlan
<1>4. ASSUME Fail("decode") PROVE Outcome(k)
  BY <1>4, FailOutcome
<1>5. ASSUME supplier.mode = "Disabled", Leave(k, e, <<>>) PROVE Outcome(k)
  <2>1. stats' \in [Counters -> Nat]
    BY <1>5 DEF FilterTypeOK, Leave, Bump
  <2> QED
    BY <1>5, <2>1, JobParts DEF Outcome, Filtered, MustPlan, Leave, Leaves
<1>6. ASSUME e.kind = "plan", Keep(k, "plans_kept") PROVE Outcome(k)
  BY <1>6, KeepOutcome
<1> QED
  BY <1>1, <1>2, <1>3, <1>4, <1>5, <1>6, PlanRawOutcome, ImprovePlanOutcome
  DEF FilterEntry

\* What leaving a row does to the job.
LEMMA LeavesEffect ==
    ASSUME FilterTypeOK, NEW k \in Keys, NEW e \in Row, Leaves(k, e)
    PROVE  /\ job' \in Job
           /\ job'.phase = job.phase /\ job'.error = job.error
           /\ job'.minSeq = job.minSeq /\ job'.rows = job.rows
           /\ job'.keys = job.keys /\ job'.todo = job.todo \ {k}
           /\ job'.out[k].env = e /\ job'.out[k].seq = job.out[k].seq
           /\ \A j \in Keys \ {k} : job'.out[j] = job.out[j]
<1>1. job \in Job /\ job.out \in [Keys -> Version] /\ job.todo \in SUBSET Keys
  BY DEF FilterTypeOK, Job
<1>2. job.out[k] \in Version
  BY <1>1
<1>3. [job.out[k] EXCEPT !.env = e] \in Version
  BY <1>2 DEF Version
<1>4. job' = [job EXCEPT !.todo = job.todo \ {k},
                         !.out = [job.out EXCEPT ![k] = [job.out[k] EXCEPT !.env = e]]]
  BY <1>1, Zenon DEF Leaves
<1>5. job'.out = [job.out EXCEPT ![k] = [job.out[k] EXCEPT !.env = e]]
  BY <1>1, <1>4 DEF Job
<1>6. job'.out \in [Keys -> Version]
  BY <1>1, <1>3, <1>5
<1>7. /\ job'.phase = job.phase /\ job'.error = job.error
      /\ job'.minSeq = job.minSeq /\ job'.rows = job.rows
      /\ job'.keys = job.keys /\ job'.todo = job.todo \ {k}
  BY <1>1, <1>4 DEF Job
<1>8. job' \in Job
  BY <1>1, <1>3, <1>4 DEF Job
<1> QED
  BY <1>1, <1>2, <1>5, <1>7, <1>8 DEF Version

\* What failing does to it.
LEMMA FailsEffect ==
    ASSUME FilterTypeOK, NEW error \in Errors, FailsWith(error)
    PROVE  /\ job' \in Job
           /\ job'.phase = "failed" /\ job'.error = error
           /\ job'.minSeq = job.minSeq /\ job'.rows = job.rows
           /\ job'.keys = job.keys /\ job'.todo = job.todo
           /\ job'.out = job.out
  BY DEF FilterTypeOK, FailsWith, Job

-----------------------------------------------------------------------------
(* Types *)

\* The job that is none is a job.
LEMMA NoJobTyped == NoJob \in Job
<1>1. ZeroStats \in [Counters -> Nat]
  BY DEF ZeroStats
<1>2. [seq |-> 0, env |-> Absent] \in Version
  BY DEF Version, Row
<1> QED
  BY <1>1, <1>2 DEF NoJob, Job

\* The initial state is well typed.
LEMMA FilterTypeInit == FilterStart => TypesOK
<1> SUFFICES ASSUME FilterStart PROVE TypesOK
  OBVIOUS
<1>1. mem \in [Keys -> Version] /\ seq \in Nat
  BY ExistingAssumption DEF FilterStart, StoreInit, Version
<1>2. supplier \in Supplier /\ stats \in [Counters -> Nat] /\ jobs \in Nat
  BY FilterAssumption DEF FilterStart, FilterInit, ZeroStats
<1>3. job.todo \subseteq job.keys /\ (job.phase = "failed" <=> job.error # "none")
  BY DEF FilterStart, FilterInit, NoJob
<1> QED
  BY <1>1, <1>2, <1>3, NoJobTyped
  DEF TypesOK, StoreTypeOK, FilterTypeOK, FilterStart, StoreInit, FilterInit

\* Starting a job over any keys keeps the types.
LEMMA TypeStartJob ==
    ASSUME TypesOK, StartJob
    PROVE  TypesOK'
<1>1. PICK K \in (SUBSET Keys) \ {{}}, m \in 0 .. seq \union {NoSnapshot} :
        job' = [phase |-> "running", minSeq |-> m, keys |-> K, todo |-> K,
                rows |-> disk, out |-> disk, since |-> stats, error |-> "none"]
  BY DEF StartJob
<1>2. job' \in Job
  BY <1>1 DEF TypesOK, StoreTypeOK, FilterTypeOK, Job
<1>3. job'.todo = job'.keys /\ job'.phase = "running" /\ job'.error = "none"
  BY <1>1
<1> QED
  BY <1>2, <1>3 DEF TypesOK, StoreTypeOK, FilterTypeOK, StartJob, storeVars

\* Filtering a row keeps the types.
LEMMA TypeFilterRow ==
    ASSUME TypesOK, FilterRow
    PROVE  TypesOK'
<1>1. PICK k \in job.todo : FilterEntry(k)
  BY DEF FilterRow
<1>2. k \in Keys /\ job.phase = "running" /\ job.error = "none"
  BY DEF TypesOK, FilterTypeOK, FilterRow, Job
<1>3. Outcome(k)
  BY <1>1, <1>2, EntryOutcome DEF TypesOK
<1>4. ASSUME NEW e \in Row, Leaves(k, e) PROVE TypesOK'
  BY <1>2, <1>3, <1>4, LeavesEffect
  DEF TypesOK, StoreTypeOK, FilterTypeOK, FilterRow, storeVars, Outcome
<1>5. ASSUME NEW error \in Errors \ {"none"}, FailsWith(error) PROVE TypesOK'
  BY <1>2, <1>3, <1>5, FailsEffect
  DEF TypesOK, StoreTypeOK, FilterTypeOK, FilterRow, storeVars, Outcome
<1> QED
  BY <1>3, <1>4, <1>5 DEF Outcome

\* The end of a job, whichever way, keeps the types.
LEMMA TypeEndJob ==
    ASSUME TypesOK, CommitJob \/ AbortJob
    PROVE  TypesOK'
<1>1. job' = NoJob /\ job'.todo \subseteq job'.keys
      /\ (job'.phase = "failed" <=> job'.error # "none")
  BY DEF CommitJob, AbortJob, NoJob
<1>2. CASE CommitJob
  <2>1. \A k \in Keys, v \in Version : Compacted(v, k) \in Version
    BY DEF TypesOK, FilterTypeOK, Job, Compacted
  <2>2. mem' \in [Keys -> Version] /\ disk' \in [Keys -> Version]
    BY <1>2, <2>1 DEF CommitJob, TypesOK, StoreTypeOK
  <2> QED
    BY <1>1, <1>2, <2>2, NoJobTyped
    DEF CommitJob, TypesOK, StoreTypeOK, FilterTypeOK
<1>3. CASE AbortJob
  BY <1>1, <1>3, NoJobTyped
  DEF AbortJob, TypesOK, StoreTypeOK, FilterTypeOK, storeVars
<1> QED
  BY <1>2, <1>3

\* What goes on elsewhere keeps the types.
LEMMA TypeElsewhere ==
    ASSUME TypesOK, Elsewhere
    PROVE  TypesOK'
<1>1. FilterTypeOK'
  BY DEF TypesOK, FilterTypeOK, Elsewhere, filterVars
<1>2. ASSUME NEW k \in Keys, NEW e \in Row, StorePut(k, e) PROVE StoreTypeOK'
  BY <1>2 DEF TypesOK, StoreTypeOK, StorePut, Version
<1>3. CASE Written
  BY <1>1, <1>2, <1>3, RawIsRow DEF TypesOK, Written, Row
<1>4. CASE StoreFlush \/ StoreCrash
  BY <1>1, <1>4 DEF TypesOK, StoreTypeOK, StoreFlush, StoreCrash
<1> QED
  BY <1>3, <1>4 DEF Elsewhere

\* Every step keeps the types.
LEMMA FilterTypeStep ==
    TypesOK /\ [FilterNext \/ Elsewhere]_filterAndStore => TypesOK'
<1> SUFFICES ASSUME TypesOK, [FilterNext \/ Elsewhere]_filterAndStore
             PROVE  TypesOK'
  OBVIOUS
<1>1. CASE RunCompactor
  <2>1. supplier' \in Supplier /\ stats' \in [Counters -> Nat]
    BY <1>1, FilterAssumption DEF RunCompactor, ZeroStats
  <2> QED
    BY <1>1, <2>1 DEF TypesOK, StoreTypeOK, FilterTypeOK, RunCompactor, storeVars
<1>2. CASE StartJob
  BY <1>2, TypeStartJob
<1>3. CASE FilterRow
  BY <1>3, TypeFilterRow
<1>4. CASE CommitJob \/ AbortJob
  BY <1>4, TypeEndJob
<1>5. CASE Elsewhere
  BY <1>5, TypeElsewhere
<1>6. CASE UNCHANGED filterAndStore
  BY <1>6 DEF TypesOK, StoreTypeOK, FilterTypeOK, filterAndStore, storeVars, filterVars
<1> QED
  BY <1>1, <1>2, <1>3, <1>4, <1>5, <1>6 DEF FilterNext

\* Jobs, rows and statistics are what they should be in every reachable state,
\* and a job has failed exactly when the filter returned an error.
THEOREM FilterTypeCorrect == FilterSpec => []FilterTypeOK
<1>1. TypesOK => FilterTypeOK
  BY DEF TypesOK
<1> QED
  BY <1>1, FilterTypeInit, FilterTypeStep, PTL DEF FilterSpec, filterAndStore

-----------------------------------------------------------------------------
(* What a job knows of the rows it will replace *)

\* A sequence number names one version of a key: the durable row and the one
\* in memory are the same if their numbers are, and none is from the future.
OneVersion ==
    \A k \in Keys :
      /\ mem[k].seq <= seq /\ disk[k].seq <= seq
      /\ mem[k].seq = disk[k].seq => mem[k].env = disk[k].env

\* So are the rows a job has read and those that are there, until it ends.
RowsAsRead ==
    job.phase # "none" =>
      \A k \in Keys :
        /\ job.rows[k].seq <= seq
        /\ mem[k].seq = job.rows[k].seq => mem[k].env = job.rows[k].env
        /\ disk[k].seq = job.rows[k].seq => disk[k].env = job.rows[k].env

\* What a job will leave can take the place of what it has read.
OutReplaces ==
    job.phase # "none" =>
      /\ \A k \in Keys : /\ job.out[k].seq = job.rows[k].seq
                         /\ Filtered(k, job.out[k].env)
      /\ \A k \in job.keys \ job.todo : MustPlan(k) => job.out[k].env.kind = "plan"

FilterInv == TypesOK /\ OneVersion /\ RowsAsRead /\ OutReplaces

\* No job has read anything to begin with.
LEMMA InvInit == FilterStart => FilterInv
<1> SUFFICES ASSUME FilterStart PROVE FilterInv
  OBVIOUS
<1>1. OneVersion
  BY DEF FilterStart, StoreInit, OneVersion
<1>2. job.phase = "none"
  BY DEF FilterStart, FilterInit, NoJob
<1> QED
  BY <1>1, <1>2, FilterTypeInit DEF FilterInv, RowsAsRead, OutReplaces

\* A job starts with the durable rows, and would leave them.
LEMMA InvStartJob ==
    ASSUME FilterInv, StartJob
    PROVE  (OneVersion /\ RowsAsRead /\ OutReplaces)'
<1>1. /\ job'.rows = disk /\ job'.out = disk /\ job'.todo = job'.keys
      /\ mem' = mem /\ disk' = disk /\ seq' = seq /\ supplier' = supplier
  BY DEF StartJob, storeVars
<1> QED
  BY <1>1 DEF FilterInv, OneVersion, RowsAsRead, OutReplaces, Filtered

\* Filtering a row leaves something that can take its place.
LEMMA InvFilterRow ==
    ASSUME FilterInv, FilterRow
    PROVE  (OneVersion /\ RowsAsRead /\ OutReplaces)'
<1>1. PICK k \in job.todo : FilterEntry(k)
  BY DEF FilterRow
<1>2. k \in Keys /\ job.phase = "running"
  BY DEF FilterInv, TypesOK, FilterTypeOK, FilterRow, Job
<1>3. Outcome(k)
  BY <1>1, <1>2, EntryOutcome DEF FilterInv, TypesOK
<1>4. mem' = mem /\ disk' = disk /\ seq' = seq /\ supplier' = supplier
  BY DEF FilterRow, storeVars
<1>5. job'.rows = job.rows /\ job'.minSeq = job.minSeq
  BY <1>2, <1>3, LeavesEffect, FailsEffect DEF FilterInv, TypesOK, Outcome
<1>6. OneVersion' /\ RowsAsRead'
  BY <1>2, <1>4, <1>5 DEF FilterInv, OneVersion, RowsAsRead
<1>7. \A j \in Keys : MustPlan(j)' <=> MustPlan(j)
  BY <1>4, <1>5 DEF MustPlan, Pinned
<1>8. ASSUME NEW j \in Keys, Filtered(j, job'.out[j].env)
      PROVE  Filtered(j, job.out[j].env)'
  BY <1>4, <1>5, <1>8 DEF Filtered, Replaces, Pinned
<1>9. ASSUME NEW e \in Row, Leaves(k, e), Filtered(k, e), MustPlan(k) => e.kind = "plan"
      PROVE  OutReplaces'
  <2>1. /\ job'.out[k].env = e /\ job'.out[k].seq = job.out[k].seq
        /\ \A j \in Keys \ {k} : job'.out[j] = job.out[j]
        /\ job'.todo = job.todo \ {k} /\ job'.keys = job.keys
    BY <1>2, <1>9, LeavesEffect DEF FilterInv, TypesOK
  <2>2. Filtered(k, job.out[k].env)'
    BY <1>2, <1>8, <1>9, <2>1
  <2>3. \A j \in Keys \ {k} : Filtered(j, job.out[j].env)'
    BY <1>2, <1>8, <2>1 DEF FilterInv, OutReplaces
  <2>4. \A j \in Keys : job'.out[j].seq = job'.rows[j].seq
    BY <1>2, <1>5, <2>1 DEF FilterInv, OutReplaces
  <2>5. \A j \in job'.keys \ job'.todo : MustPlan(j)' => job'.out[j].env.kind = "plan"
    BY <1>2, <1>7, <1>9, <2>1 DEF FilterInv, TypesOK, FilterTypeOK, Job, OutReplaces
  <2> QED
    BY <2>2, <2>3, <2>4, <2>5 DEF OutReplaces
<1>10. ASSUME NEW error \in Errors, FailsWith(error) PROVE OutReplaces'
  <2>1. job'.out = job.out /\ job'.todo = job.todo /\ job'.keys = job.keys
    BY <1>10, FailsEffect DEF FilterInv, TypesOK
  <2>2. \A j \in Keys : Filtered(j, job.out[j].env)'
    BY <1>2, <1>8, <2>1 DEF FilterInv, OutReplaces
  <2> QED
    BY <1>2, <1>5, <1>7, <2>1, <2>2
    DEF FilterInv, TypesOK, FilterTypeOK, Job, OutReplaces
<1> QED
  BY <1>3, <1>6, <1>9, <1>10 DEF Outcome

\* A job that is committed puts versions in the place of their equals.
LEMMA InvCommitJob ==
    ASSUME FilterInv, CommitJob
    PROVE  (OneVersion /\ RowsAsRead /\ OutReplaces)'
<1>1. job'.phase = "none" /\ job.phase # "none" /\ seq' = seq
  BY DEF CommitJob, NoJob
<1>2. \A k \in Keys : mem'[k] = Compacted(mem[k], k) /\ disk'[k] = Compacted(disk[k], k)
  BY DEF CommitJob
<1>3. \A k \in Keys, v \in Version :
        v.seq <= seq => Compacted(v, k).seq = v.seq
  BY <1>1 DEF FilterInv, OutReplaces, Compacted
<1>4. \A k \in Keys : mem[k] \in Version /\ disk[k] \in Version
  BY DEF FilterInv, TypesOK, StoreTypeOK
<1>5. OneVersion'
  BY <1>1, <1>2, <1>3, <1>4 DEF FilterInv, OneVersion, Compacted
<1> QED
  BY <1>1, <1>5 DEF RowsAsRead, OutReplaces

\* What else happens to the store: a row is written, it is flushed, it crashes.
StoreMoves ==
    \/ \E k \in Keys, e \in Row : StorePut(k, e)
    \/ StoreFlush \/ StoreCrash \/ UNCHANGED storeVars

\* Writes take numbers no job has read; flushes and crashes make the two rows
\* of a key the same.
LEMMA InvStoreMoves ==
    ASSUME FilterInv, StoreMoves, UNCHANGED filterVars
    PROVE  (OneVersion /\ RowsAsRead /\ OutReplaces)'
<1>1. job' = job /\ supplier' = supplier
  BY DEF filterVars
<1>2. OutReplaces'
  BY <1>1 DEF FilterInv, OutReplaces, Filtered, Replaces, MustPlan, Pinned
<1>3. /\ mem \in [Keys -> Version] /\ disk \in [Keys -> Version] /\ seq \in Nat
      /\ \A k \in Keys : mem[k].seq \in Nat /\ disk[k].seq \in Nat
      /\ \A k \in Keys : job.rows[k].seq \in Nat
  BY JobParts DEF FilterInv, TypesOK, StoreTypeOK, Version
<1>4. ASSUME NEW k \in Keys, NEW e, StorePut(k, e) PROVE OneVersion' /\ RowsAsRead'
  <2>1. /\ mem'[k].seq = seq + 1 /\ \A j \in Keys \ {k} : mem'[j] = mem[j]
        /\ disk' = disk /\ seq' = seq + 1
    BY <1>3, <1>4 DEF StorePut
  <2> QED
    BY <1>1, <1>3, <2>1 DEF FilterInv, OneVersion, RowsAsRead
<1>5. CASE StoreFlush \/ StoreCrash
  BY <1>1, <1>2, <1>5 DEF FilterInv, OneVersion, RowsAsRead, StoreFlush, StoreCrash
<1>6. CASE UNCHANGED storeVars
  BY <1>1, <1>2, <1>6 DEF FilterInv, OneVersion, RowsAsRead, storeVars
<1> QED
  BY <1>2, <1>4, <1>5, <1>6 DEF StoreMoves

\* Every step keeps the invariant.
LEMMA InvStep ==
    FilterInv /\ [FilterNext \/ Elsewhere]_filterAndStore => FilterInv'
<1> SUFFICES ASSUME FilterInv, [FilterNext \/ Elsewhere]_filterAndStore
             PROVE  (OneVersion /\ RowsAsRead /\ OutReplaces)'
  BY FilterTypeStep DEF FilterInv
<1>1. CASE RunCompactor
  BY <1>1 DEF FilterInv, RunCompactor, storeVars, OneVersion, RowsAsRead, OutReplaces
<1>2. CASE StartJob
  BY <1>2, InvStartJob
<1>3. CASE FilterRow
  BY <1>3, InvFilterRow
<1>4. CASE CommitJob
  BY <1>4, InvCommitJob
<1>5. CASE AbortJob
  <2>1. job'.phase = "none"
    BY <1>5 DEF AbortJob, NoJob
  <2> QED
    BY <1>5, <2>1 DEF FilterInv, AbortJob, storeVars, OneVersion, RowsAsRead, OutReplaces
<1>6. CASE Elsewhere
  BY <1>6, InvStoreMoves, RawIsRow DEF Elsewhere, Written, StoreMoves, Row
<1>7. CASE UNCHANGED filterAndStore
  BY <1>7 DEF FilterInv, filterAndStore, storeVars, filterVars, OneVersion, RowsAsRead,
              OutReplaces, Filtered, Replaces, MustPlan, Pinned
<1> QED
  BY <1>1, <1>2, <1>3, <1>4, <1>5, <1>6, <1>7 DEF FilterNext

\* The inductive invariant holds always.
LEMMA InvHolds == FilterSpec => []FilterInv
  BY InvInit, InvStep, PTL DEF FilterSpec, filterAndStore

-----------------------------------------------------------------------------
(* What jobs may do *)

\* A row that the commit of a job changes is the row it has read, and the new
\* one can take its place.
LEMMA CommitReplaces ==
    ASSUME FilterInv, CommitJob, NEW k \in Keys, disk'[k].env # disk[k].env
    PROVE  /\ k \in job.keys /\ disk[k].seq = job.rows[k].seq
           /\ disk[k].env = job.rows[k].env
           /\ disk'[k].env = job.out[k].env
           /\ Replaces(k, disk'[k].env)
<1>1. disk'[k] = Compacted(disk[k], k)
  BY DEF CommitJob
<1>2. job.phase # "none"
  BY DEF CommitJob
<1>3. k \in job.keys /\ disk[k].seq = job.rows[k].seq /\ disk'[k] = job.out[k]
  BY <1>1 DEF Compacted
<1> QED
  BY <1>2, <1>3 DEF FilterInv, RowsAsRead, OutReplaces, Filtered

\* A step of the filter changes what no key means.
LEMMA FilterKeepsMeaning ==
    ASSUME FilterInv, FilterNext, NEW k \in Keys
    PROVE  /\ Logical(mem'[k].env) = Logical(mem[k].env)
           /\ Logical(disk'[k].env) = Logical(disk[k].env)
<1>1. CASE CommitJob
  <2>1. mem'[k] = Compacted(mem[k], k) /\ disk'[k] = Compacted(disk[k], k)
    BY <1>1 DEF CommitJob
  <2>2. Logical(job.out[k].env) = Logical(job.rows[k].env)
    BY <1>1 DEF CommitJob, FilterInv, OutReplaces, Filtered, Replaces
  <2> QED
    BY <1>1, <2>1, <2>2 DEF CommitJob, FilterInv, RowsAsRead, Compacted
<1>2. CASE RunCompactor \/ StartJob \/ FilterRow \/ AbortJob
  BY <1>2 DEF RunCompactor, StartJob, FilterRow, AbortJob, storeVars
<1> QED
  BY <1>1, <1>2 DEF FilterNext

\* No job changes what any key means, in memory or durable, whatever is written
\* or lost while it runs and however many jobs there are.
THEOREM JobsMeaningCorrect == FilterSpec => JobsKeepMeaning
<1>1. FilterInv /\ [FilterNext \/ Elsewhere]_filterAndStore
        => [FilterNext => \A k \in Keys :
              /\ Logical(mem'[k].env) = Logical(mem[k].env)
              /\ Logical(disk'[k].env) = Logical(disk[k].env)]_filterAndStore
  BY FilterKeepsMeaning
<1> QED
  BY <1>1, InvHolds, PTL DEF FilterSpec, JobsKeepMeaning, filterAndStore

\* A commit rewrites no row that is protected, whatever was written meanwhile.
LEMMA CommitSpares ==
    ASSUME FilterInv, NEW k \in RewrittenBy(CommitJob)
    PROVE  /\ supplier.snapshotSafe => ~Pinned(disk[k])
           /\ disk[k].env # Absent /\ Decodable(disk[k].env)
<1>1. CommitJob /\ k \in Keys /\ disk'[k].env # disk[k].env
  BY DEF RewrittenBy
<1> QED
  BY <1>1, CommitReplaces DEF Replaces, Pinned

\* No job rewrites a row that a snapshot may have to see, a tombstone, or a row
\* that does not decode.
THEOREM ProtectedRowsCorrect == FilterSpec => ProtectedRowsKept
<1>1. FilterInv /\ [FilterNext \/ Elsewhere]_filterAndStore
        => [\A k \in RewrittenBy(CommitJob) :
              /\ supplier.snapshotSafe => ~Pinned(disk[k])
              /\ disk[k].env # Absent /\ Decodable(disk[k].env)]_filterAndStore
  BY CommitSpares
<1> QED
  BY <1>1, InvHolds, PTL DEF FilterSpec, ProtectedRowsKept, filterAndStore

\* The limits of a database are no wider than the default ones, under which the
\* filter scores the plans it compares.
LimitsWithinDefaults ==
    MaxLogicalLen <= DefaultLogicalLen /\ MaxChunkCount <= DefaultChunkCount

\* A commit improves the plans it replaces.
LEMMA CommitImproves ==
    ASSUME LimitsWithinDefaults, FilterInv, NEW k \in RewrittenBy(CommitJob),
           disk[k].env.kind = "plan"
    PROVE  supplier.mode = "VacuumMeaning" /\ Improves(disk'[k].env, disk[k].env)
<1>1. CommitJob /\ k \in Keys /\ disk'[k].env # disk[k].env
  BY DEF RewrittenBy
<1>2. Replaces(k, disk'[k].env) /\ disk[k].env = job.rows[k].env
  BY <1>1, CommitReplaces
<1>3. Scored(disk[k].env)
  <2>1. disk[k].env \in Row
    BY <1>1 DEF FilterInv, TypesOK, StoreTypeOK, Version
  <2>2. disk[k].env # Absent /\ Decodable(disk[k].env)
    BY <1>2 DEF Replaces
  <2>3. Size[disk[k].env.hash] \in Nat /\ disk[k].env.chunks \in Nat
    BY <2>1, <2>2, DecodableIsEnvelope, EnvelopeAssumption DEF Envelope
  <2> QED
    BY <2>2, <2>3, EnvelopeAssumption, FilterAssumption
    DEF Decodable, Scored, LimitsWithinDefaults
<1> QED
  BY <1>2, <1>3 DEF Replaces, FilterImproves

\* Then a job that touches a plan makes its score strictly lower: no sequence
\* of jobs comes back to a plan it has replaced.
THEOREM PlansImproveCorrect == LimitsWithinDefaults => (FilterSpec => PlansOnlyImprove)
<1> SUFFICES ASSUME LimitsWithinDefaults PROVE FilterSpec => PlansOnlyImprove
  OBVIOUS
<1>1. FilterInv /\ [FilterNext \/ Elsewhere]_filterAndStore
        => [\A k \in RewrittenBy(CommitJob) :
              disk[k].env.kind = "plan" =>
                /\ supplier.mode = "VacuumMeaning"
                /\ Improves(disk'[k].env, disk[k].env)]_filterAndStore
  BY CommitImproves
<1> QED
  BY <1>1, InvHolds, PTL DEF FilterSpec, PlansOnlyImprove, filterAndStore

\* What a commit leaves reads with the streams of its compactor.
LEMMA CommitReadsBack ==
    ASSUME FilterInv, NEW k \in RewrittenBy(CommitJob)
    PROVE  Reconstructs(supplier.rt.registry, disk'[k].env)
<1>1. CommitJob /\ k \in Keys /\ disk'[k].env # disk[k].env
  BY DEF RewrittenBy
<1> QED
  BY <1>1, CommitReplaces DEF Replaces

\* Whatever a job has rewritten can be read by whoever registers the streams
\* of its compactor.
THEOREM FilteredPlansCorrect == FilterSpec => FilteredPlansReadBack
<1>1. FilterInv /\ [FilterNext \/ Elsewhere]_filterAndStore
        => [\A k \in RewrittenBy(CommitJob) :
              Reconstructs(supplier.rt.registry, disk'[k].env)]_filterAndStore
  BY CommitReadsBack
<1> QED
  BY <1>1, InvHolds, PTL DEF FilterSpec, FilteredPlansReadBack, filterAndStore

\* The commit of a forced job leaves nothing raw that it could touch.
LEMMA CommitForces ==
    ASSUME FilterInv, NEW k \in job.keys, CommitJob,
           supplier.mode = "ForceRawToPlan", disk[k].seq = job.rows[k].seq,
           supplier.snapshotSafe => ~Pinned(disk[k]),
           disk[k].env # Absent, Decodable(disk[k].env)
    PROVE  disk'[k].env.kind = "plan"
<1>1. k \in Keys /\ job.todo = {} /\ job.phase # "none"
  BY DEF FilterInv, TypesOK, FilterTypeOK, Job, CommitJob
<1>2. disk[k].env = job.rows[k].env
  BY <1>1 DEF FilterInv, RowsAsRead
<1>3. MustPlan(k)
  BY <1>2 DEF MustPlan, Pinned
<1>4. disk'[k] = job.out[k]
  BY <1>1 DEF CommitJob, Compacted
<1> QED
  BY <1>1, <1>3, <1>4 DEF FilterInv, OutReplaces

\* A forced job that commits leaves raw no value it was allowed to touch, for
\* any rows and any plans that cannot be found.
THEOREM ForcedJobCorrect == FilterSpec => ForcedJobLeavesNoRaw
<1>1. FilterInv /\ [FilterNext \/ Elsewhere]_filterAndStore
        => [\A k \in job.keys :
              /\ CommitJob
              /\ supplier.mode = "ForceRawToPlan"
              /\ disk[k].seq = job.rows[k].seq
              /\ supplier.snapshotSafe => ~Pinned(disk[k])
              /\ disk[k].env # Absent /\ Decodable(disk[k].env)
              => disk'[k].env.kind = "plan"]_filterAndStore
  BY CommitForces
<1> QED
  BY <1>1, InvHolds, PTL DEF FilterSpec, ForcedJobLeavesNoRaw, filterAndStore

-----------------------------------------------------------------------------
(* What the statistics say *)

\* The counters each row that is filtered goes to one of.
Reasons == Counters \ {"raw_bytes_converted", "errors"}

\* The sums in the statistics, with the weights as functions.
Bytes == [k \in Keys |-> Size[job.rows[k].env.hash]]
Tallies == [c \in Counters |-> Count(c)]

\* The statistics explain the job, and count forwards.
JobBooks ==
    job.phase # "none" =>
      /\ IsFiniteSet(job.keys \ job.todo)
      /\ \A c \in Counters : job.since[c] <= stats[c]
      /\ Count("raw_values_converted") = Cardinality(Changed("raw"))
      /\ Count("raw_bytes_converted") = SumOf(Bytes, Changed("raw"))
      /\ Count("plans_improved") = Cardinality(Changed("plan"))
      /\ \A k \in Changed("raw") : job.rows[k].env.hash \in Values
      /\ supplier.mode # "Disabled" =>
            SumOf(Tallies, Reasons) = Cardinality(job.keys \ job.todo)

\* The counters are finitely many.
LEMMA FiniteReasons == IsFiniteSet(Reasons) /\ IsFiniteSet(Counters)
<1>1. ASSUME NEW a, NEW b, NEW c PROVE IsFiniteSet({a, b, c})
  <2>1. IsFiniteSet(({a} \union {b}) \union {c})
    BY FS_Singleton, FS_AddElement
  <2> QED
    BY <2>1
<1>2. Counters = {"raw_values_converted", "raw_bytes_converted", "plans_improved"}
         \union ({"plans_kept", "raw_values_kept_after_planning_failure",
                  "corrupt_or_unknown_kept"}
         \union {"snapshot_protected_entries", "tombstones_or_merges_kept", "errors"})
  OBVIOUS
<1> HIDE DEF Counters
<1>3. IsFiniteSet(Counters)
  BY <1>1, <1>2, FS_Union
<1> QED
  BY <1>3, FS_Subset DEF Reasons

\* The sum of the bytes, as a sum of weights.
LEMMA BytesSum ==
    ASSUME FilterTypeOK, NEW S \in SUBSET Keys, IsFiniteSet(S),
           \A k \in S : Bytes[k] \in Nat
    PROVE  MapThenSumSet(LAMBDA k : Size[job.rows[k].env.hash], S) = SumOf(Bytes, S)
<1> DEFINE Table(f) ==
      f = [s \in SUBSET S |-> IF s = {} THEN 0
             ELSE Size[job.rows[Some(s)].env.hash] + f[s \ {Some(s)}]]
           f == CHOOSE f : Table(f)
<1>1. MapThenSumSet(LAMBDA k : Size[job.rows[k].env.hash], S) = f[S]
  BY DEF MapThenSumSet, MapThenFoldSet, Some
<1>2. \A s \in SUBSET S : s # {} => Bytes[Some(s)] = Size[job.rows[Some(s)].env.hash]
  BY DEF Bytes, Some
<1>3. \A g : Table(g) <=> SumTable(Bytes, S, g)
  BY <1>2 DEF SumTable
<1>4. \E g : SumTable(Bytes, S, g)
  BY SumTableExists
<1>5. SumTable(Bytes, S, f)
  <2> HIDE DEF Table
  <2> QED
    BY <1>3, <1>4
<1> HIDE DEF f
<1> QED
  BY <1>1, <1>5, SumFromTable

\* The sum of the counters, as a sum of weights.
LEMMA TalliesSum ==
    ASSUME \A c \in Counters : Count(c) \in Nat
    PROVE  MapThenSumSet(Count, Reasons) = SumOf(Tallies, Reasons)
<1> DEFINE Table(f) ==
      f = [s \in SUBSET Reasons |-> IF s = {} THEN 0
             ELSE Count(Some(s)) + f[s \ {Some(s)}]]
           f == CHOOSE f : Table(f)
<1>1. MapThenSumSet(Count, Reasons) = f[Reasons]
  BY DEF MapThenSumSet, MapThenFoldSet, Some
<1>2. \A s \in SUBSET Reasons : s # {} => Tallies[Some(s)] = Count(Some(s))
  BY DEF Tallies, Some, Reasons
<1>3. \A g : Table(g) <=> SumTable(Tallies, Reasons, g)
  BY <1>2 DEF SumTable
<1>4. \A c \in Reasons : Tallies[c] \in Nat
  BY DEF Tallies, Reasons
<1>5. \E g : SumTable(Tallies, Reasons, g)
  BY <1>4, FiniteReasons, SumTableExists
<1>6. SumTable(Tallies, Reasons, f)
  <2> HIDE DEF Table
  <2> QED
    BY <1>3, <1>5
<1> HIDE DEF f
<1> QED
  BY <1>1, <1>4, <1>6, FiniteReasons, SumFromTable

\* What is counted of a row that is left as e.
KeptRow(k, e) ==
    /\ e = job.rows[k].env
    /\ \/ \E c \in Reasons \ {"raw_values_converted", "plans_improved"} : Bump(One(c))
       \/ supplier.mode = "Disabled" /\ Bump(<<>>)
PlannedRow(k, e) ==
    /\ e # job.rows[k].env
    /\ job.rows[k].env.kind = "raw" /\ job.rows[k].env.hash \in Values
    /\ Bump(Converted(job.rows[k].env))
ImprovedRow(k, e) ==
    /\ e # job.rows[k].env
    /\ job.rows[k].env.kind = "plan"
    /\ Bump(One("plans_improved"))
RowCounted(k) ==
    \/ \E e \in Row : Leaves(k, e) /\ (KeptRow(k, e) \/ PlannedRow(k, e) \/ ImprovedRow(k, e))
    \/ \E error \in Errors : FailsWith(error) /\ Bump(One("errors"))

\* A row that is kept is counted under a reason.
LEMMA KeepCounted ==
    ASSUME FilterTypeOK, NEW k \in Keys, NEW c, Keep(k, c),
           c \in Reasons \ {"raw_values_converted", "plans_improved"}
    PROVE  RowCounted(k)
<1>1. Leaves(k, job.rows[k].env) /\ Bump(One(c))
  BY DEF Keep, Leave, Leaves
<1> QED
  BY <1>1, JobParts DEF RowCounted, KeptRow

\* An error is counted under errors.
LEMMA FailCounted ==
    ASSUME NEW k, NEW error \in Errors, Fail(error)
    PROVE  RowCounted(k)
  BY DEF Fail, FailsWith, RowCounted

\* So are the rows that are planned: a plan is no raw value.
LEMMA PlanRawCounted ==
    ASSUME FilterTypeOK, NEW k \in Keys,
           job.rows[k].env # Absent, Decodable(job.rows[k].env),
           job.rows[k].env.kind = "raw",
           PlanRaw(k, job.rows[k].env)
    PROVE  RowCounted(k)
<1> DEFINE e == job.rows[k].env
<1>1. e.hash \in Values
  BY JobParts, DecodableIsEnvelope
<1>2. ASSUME NEW p \in Plans(supplier.rt, DefaultOpts, e.hash),
             Leave(k, p, Converted(e))
      PROVE  RowCounted(k)
  <2>1. p \in Row /\ p.kind = "plan"
    BY <1>1, JobParts, PlansSpell DEF Row
  <2>2. PlannedRow(k, p)
    BY <1>1, <1>2, <2>1 DEF PlannedRow, Leave
  <2> QED
    BY <1>2, <2>1, <2>2 DEF RowCounted, Leave, Leaves
<1>3. ASSUME Keep(k, "raw_values_kept_after_planning_failure") PROVE RowCounted(k)
  BY <1>3, KeepCounted DEF Reasons
<1>4. ASSUME Fail("planning") \/ Fail("check") PROVE RowCounted(k)
  BY <1>4, FailCounted
<1> QED
  BY <1>2, <1>3, <1>4 DEF PlanRaw

\* And the plans that are improved: a plan with a better score is another one.
LEMMA ImprovePlanCounted ==
    ASSUME FilterTypeOK, NEW k \in Keys,
           job.rows[k].env # Absent, Decodable(job.rows[k].env),
           job.rows[k].env.kind = "plan",
           ImprovePlan(k, job.rows[k].env)
    PROVE  RowCounted(k)
<1> DEFINE e == job.rows[k].env
<1>1. e \in Envelope /\ e.hash \in Values
  BY JobParts, DecodableIsEnvelope
<1>2. ASSUME NEW p \in Plans(supplier.rt, DefaultOpts, e.hash),
             FilterImproves(p, e), Leave(k, p, One("plans_improved"))
      PROVE  RowCounted(k)
  <2>1. p \in Envelope /\ p \in Row /\ p.kind = "plan"
    BY <1>1, JobParts, PlansSpell DEF Row
  <2>2. e.len \in Nat /\ e.chunks \in Nat
    BY <1>1 DEF Envelope
  <2>3. p # e
    BY <1>2, <2>2 DEF FilterImproves, Scored, Improves, Score
  <2>4. ImprovedRow(k, p)
    BY <1>2, <2>3 DEF ImprovedRow, Leave
  <2> QED
    BY <1>2, <2>1, <2>4 DEF RowCounted, Leave, Leaves
<1>3. ASSUME Keep(k, "plans_kept") PROVE RowCounted(k)
  BY <1>3, KeepCounted DEF Reasons
<1>4. ASSUME Fail("reconstruct") \/ Fail("check") PROVE RowCounted(k)
  BY <1>4, FailCounted
<1> QED
  BY <1>2, <1>3, <1>4 DEF ImprovePlan

\* filter_entry counts every row it is done with.
LEMMA EntryCounted ==
    ASSUME FilterTypeOK, NEW k \in Keys, FilterEntry(k)
    PROVE  RowCounted(k)
<1> DEFINE e == job.rows[k].env
<1>1. ASSUME NEW c \in {"snapshot_protected_entries", "tombstones_or_merges_kept",
                        "corrupt_or_unknown_kept", "plans_kept"},
             Keep(k, c)
      PROVE  RowCounted(k)
  BY <1>1, KeepCounted DEF Reasons
<1>2. ASSUME Fail("decode") PROVE RowCounted(k)
  BY <1>2, FailCounted
<1>3. ASSUME supplier.mode = "Disabled", Leave(k, e, <<>>) PROVE RowCounted(k)
  <2>1. Leaves(k, e) /\ KeptRow(k, e)
    BY <1>3 DEF Leave, Leaves, KeptRow
  <2> QED
    BY <2>1, JobParts DEF RowCounted
<1> QED
  BY <1>1, <1>2, <1>3, PlanRawCounted, ImprovePlanCounted DEF FilterEntry

\* What the next state's statistics are counted against.
LEMMA SameBasis ==
    ASSUME FilterTypeOK, NEW k \in Keys,
           \/ \E e \in Row : Leaves(k, e)
           \/ \E error \in Errors : FailsWith(error)
    PROVE  job'.since = job.since /\ job'.rows = job.rows /\ job'.keys = job.keys
  BY LeavesEffect, FailsEffect DEF FilterTypeOK, Job, Leaves, FailsWith

\* A row more has been filtered, and one of the reasons counts one more.
LEMMA CountsOneMore ==
    ASSUME FilterTypeOK, JobBooks, job.phase # "none", job'.since = job.since,
           NEW c \in Reasons, stats'[c] = stats[c] + 1,
           \A d \in Reasons \ {c} : stats'[d] = stats[d]
    PROVE  SumOf(Tallies, Reasons)' = SumOf(Tallies, Reasons) + 1
<1>1. /\ stats \in [Counters -> Nat] /\ job.since \in [Counters -> Nat]
      /\ \A d \in Counters : job.since[d] <= stats[d]
  BY DEF FilterTypeOK, Job, JobBooks
<1>2. \A d \in Reasons : Tallies[d] = stats[d] - job.since[d] /\ Tallies[d] \in Nat
  BY <1>1 DEF Tallies, Count, Reasons
<1>3. \A d \in Reasons : Tallies'[d] = stats'[d] - job.since[d]
  BY DEF Tallies, Count, Reasons
<1>4. /\ stats[c] \in Nat /\ job.since[c] \in Nat
      /\ Tallies[c] = stats[c] - job.since[c] /\ Tallies'[c] = stats'[c] - job.since[c]
  BY <1>1, <1>2, <1>3 DEF Reasons
<1>5. Tallies'[c] = Tallies[c] + 1
  BY <1>4
<1>6. \A d \in Reasons \ {c} : Tallies'[d] = Tallies[d]
  BY <1>2, <1>3
<1>7. SumOf(Tallies', Reasons) = SumOf(Tallies, Reasons) + 1
  BY <1>2, <1>5, <1>6, FiniteReasons, SumBump
<1>8. SumOf(Tallies, Reasons)' = SumOf(Tallies', Reasons)
  BY DEF SumOf, MapThenSumSet, MapThenFoldSet, Reasons
<1> QED
  BY <1>7, <1>8

\* The sums of the next state are sums of its weights.
LEMMA BytesNext == SumOf(Bytes, Changed("raw"))' = SumOf(Bytes', Changed("raw")')
  BY DEF SumOf, MapThenSumSet, MapThenFoldSet

\* The tallies' sum stays the same if the reasons do.
LEMMA TalliesNext ==
    ASSUME FilterTypeOK, JobBooks, job.phase # "none", job'.since = job.since,
           \A d \in Reasons : stats'[d] = stats[d]
    PROVE  SumOf(Tallies, Reasons)' = SumOf(Tallies, Reasons)
<1>1. SumOf(Tallies, Reasons)' = SumOf(Tallies', Reasons)
  BY DEF SumOf, MapThenSumSet, MapThenFoldSet, Reasons
<1>2. \A d \in Reasons : Tallies'[d] = Tallies[d]
  BY DEF Tallies, Count, Reasons
<1>3. \A d \in Reasons : Tallies[d] \in Nat
  BY DEF FilterTypeOK, Job, JobBooks, Tallies, Count, Reasons
<1> QED
  BY <1>1, <1>2, <1>3, FiniteReasons, SumSame

\* Leaving the row of k adds it to those that have been filtered, and to those
\* that have been changed if it is left as something else.
LEMMA LeavesChanged ==
    ASSUME FilterTypeOK, NEW k \in job.todo, NEW e \in Row, Leaves(k, e)
    PROVE  /\ job'.keys \ job'.todo = (job.keys \ job.todo) \union {k}
           /\ k \notin job.keys \ job.todo
           /\ \A kind \in {"raw", "plan"} :
                Changed(kind)' =
                  IF e # job.rows[k].env /\ job.rows[k].env.kind = kind
                  THEN Changed(kind) \union {k} ELSE Changed(kind)
<1>1. job.keys \subseteq Keys /\ job.todo \subseteq job.keys
  BY DEF FilterTypeOK, Job
<1>2. /\ job'.rows = job.rows /\ job'.keys = job.keys /\ job'.todo = job.todo \ {k}
      /\ job'.out[k].env = e /\ \A j \in Keys \ {k} : job'.out[j] = job.out[j]
  BY <1>1, LeavesEffect
<1> QED
  BY <1>1, <1>2 DEF Changed

\* Filtering a row keeps the books.
LEMMA BooksFilterRow ==
    ASSUME FilterTypeOK, JobBooks, FilterRow
    PROVE  JobBooks'
<1> USE DEF Count
<1>1. PICK k \in job.todo : FilterEntry(k)
  BY DEF FilterRow
<1>2. /\ k \in Keys /\ job.keys \subseteq Keys /\ job.phase = "running"
      /\ stats \in [Counters -> Nat] /\ job.since \in [Counters -> Nat]
  BY DEF FilterTypeOK, FilterRow, Job
<1>3. RowCounted(k)
  BY <1>1, <1>2, EntryCounted
<1>4. job'.since = job.since /\ job'.rows = job.rows /\ job'.keys = job.keys
  BY <1>2, <1>3, SameBasis DEF RowCounted
<1>5. Bytes' = Bytes /\ supplier' = supplier
  BY <1>4 DEF Bytes, FilterRow
<1> DEFINE Done == job.keys \ job.todo
<1>6. /\ IsFiniteSet(Done) /\ \A c \in Counters : job.since[c] <= stats[c]
      /\ Count("raw_values_converted") = Cardinality(Changed("raw"))
      /\ Count("raw_bytes_converted") = SumOf(Bytes, Changed("raw"))
      /\ Count("plans_improved") = Cardinality(Changed("plan"))
      /\ \A j \in Changed("raw") : job.rows[j].env.hash \in Values
      /\ supplier.mode # "Disabled" => SumOf(Tallies, Reasons) = Cardinality(Done)
  BY <1>2 DEF JobBooks
<1>7. \A kind : Changed(kind) \subseteq Done /\ IsFiniteSet(Changed(kind))
  BY <1>6, FS_Subset DEF Changed
<1>8. ASSUME NEW e \in Row, Leaves(k, e), KeptRow(k, e) \/ PlannedRow(k, e) \/ ImprovedRow(k, e)
      PROVE  JobBooks'
  <2>1. /\ job'.keys \ job'.todo = Done \union {k} /\ k \notin Done
        /\ \A kind \in {"raw", "plan"} :
             Changed(kind)' = IF e # job.rows[k].env /\ job.rows[k].env.kind = kind
                              THEN Changed(kind) \union {k} ELSE Changed(kind)
    BY <1>8, LeavesChanged
  <2>2. /\ IsFiniteSet(Done \union {k})
        /\ Cardinality(Done \union {k}) = Cardinality(Done) + 1
    BY <1>6, <2>1, FS_AddElement
  <2>3. \A kind : /\ Cardinality(Changed(kind) \union {k}) = Cardinality(Changed(kind)) + 1
                  /\ Cardinality(Changed(kind)) \in Nat
    BY <1>7, <2>1, FS_AddElement, FS_CardinalityType
  <2>4. CASE KeptRow(k, e)
    <3>1. Changed("raw")' = Changed("raw") /\ Changed("plan")' = Changed("plan")
      BY <2>1, <2>4 DEF KeptRow
    <3>2. ASSUME NEW c \in Reasons \ {"raw_values_converted", "plans_improved"},
                 Bump(One(c))
          PROVE  JobBooks'
      <4>1. /\ stats'[c] = stats[c] + 1 /\ \A d \in Counters \ {c} : stats'[d] = stats[d]
        BY <3>2 DEF Bump, One, Reasons
      <4>2. SumOf(Tallies, Reasons)' = SumOf(Tallies, Reasons) + 1
        BY <1>2, <1>4, <4>1, CountsOneMore DEF Reasons
      <4>3. \A d \in Counters : job'.since[d] <= stats'[d]
        BY <1>2, <1>4, <1>6, <3>2, <4>1 DEF Reasons
      <4>4. Count("raw_values_converted")' = Cardinality(Changed("raw"))'
        BY <1>4, <1>6, <3>1, <3>2, <4>1 DEF Reasons
      <4>5. Count("raw_bytes_converted")' = SumOf(Bytes, Changed("raw"))'
        BY <1>4, <1>5, <1>6, <3>1, <3>2, <4>1, BytesNext DEF Reasons
      <4>6. Count("plans_improved")' = Cardinality(Changed("plan"))'
        BY <1>4, <1>6, <3>1, <3>2, <4>1 DEF Reasons
      <4> QED
        BY <1>4, <1>5, <1>6, <2>1, <2>2, <3>1, <4>2, <4>3, <4>4, <4>5, <4>6 DEF JobBooks
    <3>3. ASSUME supplier.mode = "Disabled", Bump(<<>>) PROVE JobBooks'
      <4>1. \A d \in Counters : stats'[d] = stats[d]
        BY <3>3 DEF Bump
      <4>2. SumOf(Bytes, Changed("raw"))' = SumOf(Bytes, Changed("raw"))
        BY <1>5, <3>1, BytesNext
      <4> QED
        BY <1>4, <1>5, <1>6, <2>1, <2>2, <3>1, <3>3, <4>1, <4>2 DEF JobBooks
    <3> QED
      BY <2>4, <3>2, <3>3 DEF KeptRow
  <2>5. CASE PlannedRow(k, e)
    <3> DEFINE row == job.rows[k].env
    <3>1. /\ Changed("raw")' = Changed("raw") \union {k}
          /\ Changed("plan")' = Changed("plan")
      BY <2>1, <2>5 DEF PlannedRow
    <3>2. /\ stats'["raw_values_converted"] = stats["raw_values_converted"] + 1
          /\ stats'["raw_bytes_converted"] = stats["raw_bytes_converted"] + Size[row.hash]
          /\ \A d \in Counters \ {"raw_values_converted", "raw_bytes_converted"} :
               stats'[d] = stats[d]
      BY <2>5 DEF PlannedRow, Bump, Converted
    <3>3. Size[row.hash] \in Nat /\ Bytes[k] = Size[row.hash]
      BY <1>2, <2>5, EnvelopeAssumption DEF PlannedRow, Bytes
    <3>4. SumOf(Tallies, Reasons)' = SumOf(Tallies, Reasons) + 1
      BY <1>2, <1>4, <3>2, CountsOneMore DEF Reasons
    <3>5. \A d \in Counters : job'.since[d] <= stats'[d]
      BY <1>2, <1>4, <1>6, <3>2, <3>3
    <3>6. \A j \in Changed("raw") \union {k} : Bytes[j] \in Nat
      BY <1>2, <1>6, <3>3, EnvelopeAssumption DEF Bytes, Changed
    <3>7. SumOf(Bytes, Changed("raw") \union {k}) = SumOf(Bytes, Changed("raw")) + Bytes[k]
      BY <1>7, <2>1, <3>6, SumAdd
    <3>8. SumOf(Bytes, Changed("raw"))' = SumOf(Bytes, Changed("raw") \union {k})
      BY <1>5, <3>1, BytesNext
    <3>9. Count("raw_bytes_converted")' = SumOf(Bytes, Changed("raw"))'
      BY <1>2, <1>4, <1>6, <3>2, <3>3, <3>7, <3>8
    <3>10. Count("raw_values_converted")' = Cardinality(Changed("raw"))'
      BY <1>2, <1>4, <1>6, <2>3, <3>1, <3>2
    <3>11. Count("plans_improved")' = Cardinality(Changed("plan"))'
      BY <1>4, <1>6, <3>1, <3>2
    <3>12. \A j \in Changed("raw")' : job'.rows[j].env.hash \in Values
      BY <1>4, <1>6, <2>5, <3>1 DEF PlannedRow
    <3> QED
      BY <1>5, <1>6, <2>1, <2>2, <3>4, <3>5, <3>9, <3>10, <3>11, <3>12 DEF JobBooks
  <2>6. CASE ImprovedRow(k, e)
    <3>1. /\ Changed("raw")' = Changed("raw")
          /\ Changed("plan")' = Changed("plan") \union {k}
      BY <2>1, <2>6 DEF ImprovedRow
    <3>2. /\ stats'["plans_improved"] = stats["plans_improved"] + 1
          /\ \A d \in Counters \ {"plans_improved"} : stats'[d] = stats[d]
      BY <2>6 DEF ImprovedRow, Bump, One
    <3>3. SumOf(Tallies, Reasons)' = SumOf(Tallies, Reasons) + 1
      BY <1>2, <1>4, <3>2, CountsOneMore DEF Reasons
    <3>4. \A d \in Counters : job'.since[d] <= stats'[d]
      BY <1>2, <1>4, <1>6, <3>2
    <3>5. Count("raw_bytes_converted")' = SumOf(Bytes, Changed("raw"))'
      BY <1>4, <1>5, <1>6, <3>1, <3>2, BytesNext
    <3>6. Count("raw_values_converted")' = Cardinality(Changed("raw"))'
      BY <1>4, <1>6, <3>1, <3>2
    <3>7. Count("plans_improved")' = Cardinality(Changed("plan"))'
      BY <1>2, <1>4, <1>6, <2>3, <3>1, <3>2
    <3>8. \A j \in Changed("raw")' : job'.rows[j].env.hash \in Values
      BY <1>4, <1>6, <3>1
    <3> QED
      BY <1>5, <1>6, <2>1, <2>2, <3>3, <3>4, <3>5, <3>6, <3>7, <3>8 DEF JobBooks
  <2> QED
    BY <1>8, <2>4, <2>5, <2>6
<1>9. ASSUME NEW error \in Errors, FailsWith(error), Bump(One("errors")) PROVE JobBooks'
  <2>1. job'.todo = job.todo /\ job'.out = job.out
    BY <1>9, FailsEffect
  <2>2. /\ stats'["errors"] = stats["errors"] + 1
        /\ \A d \in Counters \ {"errors"} : stats'[d] = stats[d]
    BY <1>9 DEF Bump, One
  <2>3. Changed("raw")' = Changed("raw") /\ Changed("plan")' = Changed("plan")
    BY <1>4, <2>1 DEF Changed
  <2>4. SumOf(Bytes, Changed("raw"))' = SumOf(Bytes, Changed("raw"))
    BY <1>5, <2>3, BytesNext
  <2>5. SumOf(Tallies, Reasons)' = SumOf(Tallies, Reasons)
    BY <1>2, <1>4, <2>2, TalliesNext DEF Reasons
  <2>6. \A c \in Counters : job'.since[c] <= stats'[c]
    BY <1>2, <1>4, <1>6, <2>2
  <2>7. /\ Count("raw_values_converted")' = Count("raw_values_converted")
        /\ Count("raw_bytes_converted")' = Count("raw_bytes_converted")
        /\ Count("plans_improved")' = Count("plans_improved")
    BY <1>4, <2>2
  <2> QED
    BY <1>4, <1>5, <1>6, <2>1, <2>3, <2>4, <2>5, <2>6, <2>7 DEF JobBooks
<1> QED
  BY <1>3, <1>8, <1>9 DEF RowCounted

\* A job starts with nothing filtered and nothing counted.
LEMMA BooksStartJob ==
    ASSUME TypesOK, StartJob
    PROVE  JobBooks'
<1>1. /\ job'.since = stats /\ stats' = stats /\ job'.todo = job'.keys
      /\ stats \in [Counters -> Nat]
  BY DEF StartJob, TypesOK, FilterTypeOK
<1>2. job'.keys \ job'.todo = {} /\ Changed("raw")' = {} /\ Changed("plan")' = {}
  BY <1>1 DEF Changed
<1>3. \A c \in Counters : Count(c)' = 0 /\ job'.since[c] <= stats'[c]
  BY <1>1 DEF Count
<1>4. SumOf(Bytes, Changed("raw"))' = 0
  BY <1>2, BytesNext, SumEmpty
<1>5. \A c \in Reasons : Tallies'[c] = 0
  BY <1>3 DEF Tallies, Reasons
<1>6. SumOf(Tallies', Reasons) = 0
  BY <1>5, FiniteReasons, SumZero
<1>7. SumOf(Tallies, Reasons)' = SumOf(Tallies', Reasons)
  BY DEF SumOf, MapThenSumSet, MapThenFoldSet, Reasons
<1>8. IsFiniteSet({}) /\ Cardinality({}) = 0
  BY FS_EmptySet
<1> QED
  BY <1>2, <1>3, <1>4, <1>6, <1>7, <1>8 DEF JobBooks

\* Nothing that leaves the job alone disturbs the books.
LEMMA BooksAside ==
    ASSUME TypesOK, JobBooks, UNCHANGED filterVars
    PROVE  JobBooks'
<1>1. job' = job /\ stats' = stats /\ supplier' = supplier
  BY DEF filterVars
<1>2. CASE job.phase # "none"
  <2>1. Changed("raw")' = Changed("raw") /\ Changed("plan")' = Changed("plan")
        /\ Bytes' = Bytes
    BY <1>1 DEF Changed, Bytes
  <2>2. SumOf(Bytes, Changed("raw"))' = SumOf(Bytes, Changed("raw"))
    BY <2>1, BytesNext
  <2>3. SumOf(Tallies, Reasons)' = SumOf(Tallies, Reasons)
    BY <1>1, <1>2, TalliesNext DEF TypesOK
  <2> QED
    BY <1>1, <2>1, <2>2, <2>3 DEF JobBooks, Count
<1> QED
  BY <1>1, <1>2 DEF JobBooks

\* The books are kept by every step.
LEMMA BooksStep ==
    TypesOK /\ JobBooks /\ [FilterNext \/ Elsewhere]_filterAndStore => JobBooks'
<1> SUFFICES ASSUME TypesOK, JobBooks, [FilterNext \/ Elsewhere]_filterAndStore
             PROVE  JobBooks'
  OBVIOUS
<1>1. ASSUME job'.phase = "none" PROVE JobBooks'
  BY <1>1 DEF JobBooks
<1>2. CASE RunCompactor \/ CommitJob \/ AbortJob
  BY <1>1, <1>2 DEF RunCompactor, CommitJob, AbortJob, NoJob
<1>3. CASE StartJob
  BY <1>3, BooksStartJob
<1>4. CASE FilterRow
  BY <1>4, BooksFilterRow DEF TypesOK
<1>5. CASE Elsewhere \/ UNCHANGED filterAndStore
  BY <1>5, BooksAside DEF Elsewhere, filterAndStore
<1> QED
  BY <1>2, <1>3, <1>4, <1>5 DEF FilterNext

\* Books that are kept explain the job.
LEMMA BooksExplain ==
    ASSUME TypesOK, JobBooks PROVE StatsExplainJob
<1> SUFFICES ASSUME job.phase # "none" PROVE StatsExplainJob
  BY DEF StatsExplainJob
<1>1. /\ FilterTypeOK /\ job.keys \subseteq Keys
      /\ stats \in [Counters -> Nat] /\ job.since \in [Counters -> Nat]
  BY DEF TypesOK, FilterTypeOK, Job
<1>2. Changed("raw") \subseteq job.keys \ job.todo /\ Changed("raw") \subseteq Keys
  BY <1>1 DEF Changed
<1>3. IsFiniteSet(Changed("raw"))
  BY <1>2, FS_Subset DEF JobBooks
<1>4. \A k \in Changed("raw") : Bytes[k] \in Nat
  BY <1>2, EnvelopeAssumption DEF JobBooks, Bytes
<1>5. MapThenSumSet(LAMBDA k : Size[job.rows[k].env.hash], Changed("raw"))
        = SumOf(Bytes, Changed("raw"))
  BY <1>1, <1>2, <1>3, <1>4, BytesSum
<1>6. \A c \in Counters : Count(c) \in Nat
  BY <1>1 DEF JobBooks, Count
<1>7. MapThenSumSet(Count, Reasons) = SumOf(Tallies, Reasons)
  BY <1>6, TalliesSum
<1> QED
  BY <1>5, <1>7 DEF StatsExplainJob, JobBooks, Reasons

\* The rows a job counts as converted and improved are those it has changed,
\* the bytes it counts are those of the values it has converted, and it counts
\* every row it is done with under exactly one reason.
THEOREM StatsCorrect == FilterSpec => []StatsExplainJob
<1>1. FilterStart => TypesOK /\ JobBooks
  BY FilterTypeInit DEF FilterStart, FilterInit, NoJob, JobBooks
<1> QED
  BY <1>1, FilterTypeStep, BooksStep, BooksExplain, PTL DEF FilterSpec, filterAndStore
=============================================================================
