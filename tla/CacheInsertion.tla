---------------------------- MODULE CacheInsertion ----------------------------
(***************************************************************************)
(* What an insertion into the reconstruction cache promises                *)
(* (pilsmer-slate/src/lib.rs, ReconstructionCache::insert): PiLsmDb takes  *)
(* it for one step, ReconstructionCache is the code.                       *)
(***************************************************************************)
EXTENDS Envelopes, FiniteSetsExt

CONSTANTS
    CacheBytes          \* PiLsmOptions.reconstruction_cache_bytes

SizeOf(S) == MapThenSumSet(LAMBDA v : Size[v], S)

\* What the cache can be after v has been inserted into it: it is as it was if
\* v is there or is too large; otherwise victims, in no particular order, are
\* evicted one at a time and only while v does not fit.
Inserted(cached, v) ==
    IF CacheBytes = 0 \/ Size[v] > CacheBytes \/ v \in cached THEN {cached}
    ELSE {S \union {v} : S \in
            {T \in SUBSET cached :
                /\ SizeOf(T) + Size[v] <= CacheBytes
                /\ T = cached \/ \E w \in cached \ T :
                      SizeOf(T \union {w}) + Size[v] > CacheBytes}}
=============================================================================
