----------------------------- MODULE SlateStore -----------------------------
(***************************************************************************)
(* SlateDB as the wrapper uses it (external: the engine is a dependency).  *)
(* A write becomes visible at once under a fresh sequence number and is    *)
(* made durable later, with everything written before it, by a flush: the  *)
(* engine's own or one that is asked for.  A crash loses what no flush has *)
(* covered.  Only the newest version of a key is kept: nothing in the      *)
(* wrapper reads an older one.                                             *)
(***************************************************************************)
EXTENDS Envelopes

CONSTANTS
    Keys,
    Existing    \* rows that earlier sessions may have left in the database

ASSUME ExistingAssumption == Existing \subseteq Row

VARIABLES
    mem,    \* mem[k]: the version of k that a get returns
    disk,   \* disk[k]: the version of k that survives a crash
    seq     \* the last sequence number given out

storeVars == <<mem, disk, seq>>

Version == [seq : Nat, env : Row]

StoreTypeOK ==
    /\ mem \in [Keys -> Version]
    /\ disk \in [Keys -> Version]
    /\ seq \in Nat

StoreInit ==
    /\ mem \in [Keys -> [seq : {0}, env : Existing]]
    /\ disk = mem
    /\ seq = 0

StoreGet(k) == mem[k].env

\* Db::put, and Db::delete with e = Absent.
StorePut(k, e) ==
    /\ mem' = [mem EXCEPT ![k] = [seq |-> seq + 1, env |-> e]]
    /\ seq' = seq + 1
    /\ UNCHANGED disk

StoreFlush ==
    /\ disk' = mem
    /\ UNCHANGED <<mem, seq>>

StoreCrash ==
    /\ mem' = disk
    /\ UNCHANGED <<disk, seq>>
=============================================================================
