------------------------------- MODULE PiLSMer -------------------------------
(***************************************************************************)
(* The whole: the wrapper's tasks and the compaction filter's jobs over    *)
(* one engine.  A compactor is a task of the same process                  *)
(* (open_with_compaction_filter) or another process                        *)
(* (run_compactor_with_options), so a restart of the database does not end *)
(* its job; when its own process dies, that is AbortJob.  Jobs take no key *)
(* lock: they can commit between any two steps of a task.                  *)
(***************************************************************************)
EXTENDS PiLsmDb, CompactionFilter

allVars == <<vars, filterVars>>

SystemInit == Init /\ FilterInit

Compaction ==
    /\ FilterNext
    /\ UNCHANGED <<taskVars, lockVars, cache, runtime, calls>>

SystemNext ==
    \/ Next /\ UNCHANGED filterVars
    \/ Compaction

SystemSpec == SystemInit /\ [][SystemNext]_allVars

-----------------------------------------------------------------------------
(* Properties; KeepsPromise, RewritesFindTheirSource and EveryRowReads are *)
(* checked of the whole as well.                                           *)

\* SPEC.md section 14, the app-level rewrite contract: a rewrite is written
\* only if the source envelope is unchanged.
RewritesReplaceTheirSource ==
    \A t \in Tasks : pc[t] = "rewrite" => StoreGet(Key(t)) = src[t]
=============================================================================
