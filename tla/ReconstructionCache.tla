------------------------- MODULE ReconstructionCache -------------------------
(***************************************************************************)
(* The reconstruction cache (pilsmer-slate/src/lib.rs) under the calls and *)
(* scans that read planned values: each asks the cache, reconstructs what  *)
(* it does not find, inserts it, and only after the cache's mutex has been *)
(* released stores the size it was told in the counter that metrics reads. *)
(* Readers run on the threads of the runtime, so the steps of one come     *)
(* between any two of another; the eviction loop runs under the mutex.     *)
(***************************************************************************)
EXTENDS CacheInsertion

CONSTANTS
    Readers, NoReader,
    Asked,          \* the plans that are read
    Registry,       \* the streams that are registered
    MaxReads        \* bound on the number of reads

ASSUME CacheAssumption ==
    /\ NoReader \notin Readers
    /\ Asked \subseteq Envelope
    /\ \A p \in Asked : p.kind = "plan"
    /\ {CacheBytes, MaxReads} \subseteq Nat

VARIABLES
    pc, plan,       \* of each reader: where it is, the plan it reads
    bytes,          \* of each reader: the size that its insertion returned
    values, current_bytes,  \* ReconstructionCacheState
    holder,         \* the reader that holds the mutex
    reconstruction_cache_bytes,     \* the counter
    reads,
    before,         \* history: values when the mutex was taken
    overlapped      \* history: has a size been returned while another was not
                    \* yet stored

readerVars == <<pc, plan, bytes>>
stateVars == <<values, current_bytes>>
historyVars == <<before, overlapped>>
vars == <<readerVars, stateVars, holder, reconstruction_cache_bytes, reads, historyVars>>

PCs == {"idle", "get", "reconstruct", "insert", "evict", "publish"}

\* The value that r reads, by which the cache keys it.
Value(r) == plan[r].hash

\* Type invariant; the mutex is held by the reader in the loop, and by nobody
\* when no reader is there.
CacheTypeOK ==
    /\ pc \in [Readers -> PCs]
    /\ plan \in [Readers -> Asked \union {Absent}]
    /\ bytes \in [Readers -> Nat]
    /\ values \in SUBSET Values /\ before \in SUBSET Values
    /\ {current_bytes, reconstruction_cache_bytes, reads} \subseteq Nat
    /\ overlapped \in BOOLEAN
    /\ \A r \in Readers : pc[r] = "evict" <=> holder = r
    /\ \A r \in Readers : pc[r] # "idle" => plan[r] \in Asked

CacheInit ==
    /\ pc = [r \in Readers |-> "idle"]
    /\ plan = [r \in Readers |-> Absent]
    /\ bytes = [r \in Readers |-> 0]
    /\ values = {} /\ current_bytes = 0
    /\ holder = NoReader
    /\ reconstruction_cache_bytes = 0
    /\ reads = 0
    /\ before = {} /\ overlapped = FALSE

-----------------------------------------------------------------------------

Goto(r, place) == pc' = [pc EXCEPT ![r] = place]
Leave(r) ==
    /\ Goto(r, "idle")
    /\ plan' = [plan EXCEPT ![r] = Absent]
    /\ bytes' = [bytes EXCEPT ![r] = 0]

\* reconstruct_plan, PiLsmIterator::next: plans over the limit are refused
\* before the cache is asked.
Begin(r) ==
    /\ pc[r] = "idle" /\ reads < MaxReads
    /\ \E p \in Asked :
          /\ Size[p.hash] <= MaxReconstruct
          /\ plan' = [plan EXCEPT ![r] = p]
    /\ Goto(r, "get")
    /\ reads' = reads + 1
    /\ UNCHANGED <<bytes, stateVars, holder, reconstruction_cache_bytes, historyVars>>

\* ReconstructionCache::get, under the mutex; a hit is the answer.
Get(r) ==
    /\ pc[r] = "get" /\ holder = NoReader
    /\ \/ Value(r) \in values /\ Leave(r)
       \/ Value(r) \notin values /\ Goto(r, "reconstruct") /\ UNCHANGED <<plan, bytes>>
    /\ UNCHANGED <<stateVars, holder, reconstruction_cache_bytes, reads, historyVars>>

\* The streams are read without the mutex; only what could be read is inserted.
Reconstruct(r) ==
    /\ pc[r] = "reconstruct"
    /\ \/ Reconstructs(Registry, plan[r]) /\ Goto(r, "insert") /\ UNCHANGED <<plan, bytes>>
       \/ ~Reconstructs(Registry, plan[r]) /\ Leave(r)
    /\ UNCHANGED <<stateVars, holder, reconstruction_cache_bytes, reads, historyVars>>

\* The caller drops the read at its only await.
Cancel(r) ==
    /\ pc[r] = "reconstruct"
    /\ Leave(r)
    /\ UNCHANGED <<stateVars, holder, reconstruction_cache_bytes, reads, historyVars>>

\* Bug seeded for ReturnSize: the guard outlives the insertion.
ReturnSizeLocked(r, n) ==
    /\ bytes' = [bytes EXCEPT ![r] = n]
    /\ Goto(r, "publish")
    /\ UNCHANGED holder
    /\ overlapped' = (overlapped \/ \E s \in Readers : pc[s] = "publish")

\* Insertion returns, and with it the guard of the mutex is dropped.
ReturnSize(r, n) ==
    /\ bytes' = [bytes EXCEPT ![r] = n]
    /\ Goto(r, "publish")
    /\ holder' = NoReader
    /\ overlapped' = (overlapped \/ \E s \in Readers : pc[s] = "publish")

\* Bug seeded for Known: a value that is there is inserted again.
KnownTooLarge(v) == CacheBytes = 0 \/ Size[v] > CacheBytes
Known(v) == CacheBytes = 0 \/ Size[v] > CacheBytes \/ v \in values

\* Bug seeded for SizeIfKnown: a value that is not inserted counts as nothing.
NothingInserted == 0
SizeIfKnown == current_bytes

\* insert, up to the loop.
Insert(r) ==
    /\ pc[r] = "insert" /\ holder = NoReader
    /\ \/ /\ Known(Value(r))
          /\ ReturnSize(r, SizeIfKnown)
          /\ UNCHANGED before
       \/ /\ ~Known(Value(r))
          /\ Goto(r, "evict")
          /\ holder' = r
          /\ before' = values
          /\ UNCHANGED <<bytes, overlapped>>
    /\ UNCHANGED <<plan, stateVars, reconstruction_cache_bytes, reads>>

\* Bug seeded for Full: a value that would just fit does not.
FullAtLimit(v) == current_bytes + Size[v] >= CacheBytes
Full(v) == current_bytes + Size[v] > CacheBytes

Minus(m, n) == IF m > n THEN m - n ELSE 0

\* Bug seeded for Remove: the victim stays in the map.
RemoveNothing(v) == UNCHANGED stateVars
Remove(v) ==
    /\ values' = values \ {v}
    /\ current_bytes' = Minus(current_bytes, Size[v])

\* One round of the loop: the victim is whichever key the map yields first.
Evict(r) ==
    /\ pc[r] = "evict"
    /\ Full(Value(r))
    /\ \E victim \in values : Remove(victim)
    /\ UNCHANGED <<readerVars, holder, reconstruction_cache_bytes, reads, historyVars>>

\* The loop ends, or is left because there is no victim.
Add(r) ==
    /\ pc[r] = "evict"
    /\ Full(Value(r)) => values = {}
    /\ IF Full(Value(r)) THEN UNCHANGED stateVars
       ELSE /\ current_bytes' = current_bytes + Size[Value(r)]
            /\ values' = values \union {Value(r)}
    /\ ReturnSize(r, current_bytes')
    /\ UNCHANGED <<plan, reconstruction_cache_bytes, reads, before>>

\* set_reconstruction_cache_bytes, and the read is answered.
Publish(r) ==
    /\ pc[r] = "publish"
    /\ reconstruction_cache_bytes' = bytes[r]
    /\ Leave(r)
    /\ UNCHANGED <<stateVars, holder, reads, historyVars>>

ReaderStep(r) ==
    \/ Get(r) \/ Reconstruct(r) \/ Insert(r) \/ Evict(r) \/ Add(r) \/ Publish(r)

Finished ==
    /\ reads = MaxReads /\ \A r \in Readers : pc[r] = "idle"
    /\ UNCHANGED vars

CacheNext == (\E r \in Readers : Begin(r) \/ ReaderStep(r) \/ Cancel(r)) \/ Finished

\* The thread of a reader that can run is run; reads are begun and dropped at
\* will.
CacheSpec ==
    CacheInit /\ [][CacheNext]_vars /\ \A r \in Readers : WF_vars(ReaderStep(r))

-----------------------------------------------------------------------------
(* Properties *)

\* current_bytes is kept by hand: through insertions that race, repeat each
\* other and evict, it is the size of the values that are cached (so that
\* saturating_sub never has to saturate), and never more than was allowed.
BytesAccounted ==
    /\ current_bytes = SizeOf(values)
    /\ current_bytes <= CacheBytes

\* Whatever insertions do under the mutex, others see each happen in one step,
\* and evict no more than it has to: what PiLsmDb takes for granted.
Atomic == INSTANCE AtomicCache WITH
    cached <- IF holder = NoReader THEN values ELSE before

InsertsAreAtomic == Atomic!Spec

\* The counter behind metrics (README.md: enabling the cache reports a purity
\* violation) is the size of the cache when nobody has one to store, for as
\* long as no two readers have been storing theirs at once.
ReportedWhenQuiet ==
    /\ ~overlapped
    /\ holder = NoReader
    /\ \A r \in Readers : pc[r] # "publish"
    => reconstruction_cache_bytes = current_bytes

\* The mutex that every read needs is given back: the loop always finds a
\* victim or room.
MutexFreed == holder # NoReader ~> holder = NoReader
=============================================================================
