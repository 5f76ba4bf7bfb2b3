---------------------------- MODULE LogicalStore ----------------------------
(***************************************************************************)
(* What PiLSMer promises its callers (README.md, "Correctness Contract"):  *)
(* a key/value store of logical byte strings, in which a call to           *)
(* plan_key, vacuum_meaning or replan_key is a no-op.  Envelopes, plans,   *)
(* streams, key locks and compaction do not exist at this level.           *)
(*                                                                         *)
(* A call takes effect at one instant between its request and its answer.  *)
(* A call that fails may or may not have taken effect.  A crash takes the  *)
(* store back to the last state that was made durable; a put that asked to *)
(* be durable is answered only after such a state includes it.             *)
(***************************************************************************)
CONSTANTS Keys, Values, Absent, Tasks

VARIABLES
    store,      \* store[k]: the logical bytes of k, or Absent
    stable,     \* what a crash falls back to
    session     \* session[t]: the call task t is making

lvars == <<store, stable, session>>

NoAnswer == "none"
IdleSession ==
    [phase |-> "idle", op |-> "rewrite", key |-> Absent, value |-> Absent,
     sync |-> FALSE, answer |-> NoAnswer]

Slots == Values \union {Absent}

Init ==
    /\ store \in [Keys -> Slots]
    /\ stable = store
    /\ session = [t \in Tasks |-> IdleSession]

Move(t, phase) == session' = [session EXCEPT ![t].phase = phase]

Request(t) ==
    /\ session[t].phase = "idle"
    /\ \E op \in {"put", "delete", "get", "rewrite"}, k \in Keys,
          v \in Slots, s \in BOOLEAN :
          /\ op = "put" <=> v \in Values
          /\ s => op = "put"
          /\ session' = [session EXCEPT ![t] =
                          [phase |-> "pending", op |-> op, key |-> k,
                           value |-> v, sync |-> s, answer |-> NoAnswer]]
    /\ UNCHANGED <<store, stable>>

Pending(t, op) == session[t].phase = "pending" /\ session[t].op = op

Put(t) ==
    /\ Pending(t, "put")
    /\ store' = [store EXCEPT ![session[t].key] = session[t].value]
    /\ Move(t, "applied")
    /\ UNCHANGED stable

Delete(t) ==
    /\ Pending(t, "delete")
    /\ store' = [store EXCEPT ![session[t].key] = Absent]
    /\ Move(t, "applied")
    /\ UNCHANGED stable

Get(t) ==
    /\ Pending(t, "get")
    /\ session' = [session EXCEPT ![t].phase = "applied",
                                  ![t].answer = store[session[t].key]]
    /\ UNCHANGED <<store, stable>>

\* Planning, vacuuming and migrating a key: nothing a caller could see.
Rewrite(t) ==
    /\ Pending(t, "rewrite")
    /\ Move(t, "applied")
    /\ UNCHANGED <<store, stable>>

\* The durable form of a put waits for the store it wrote to be durable.
Persist(t) ==
    /\ session[t].phase = "applied" /\ session[t].sync
    /\ stable' = store
    /\ Move(t, "synced")
    /\ UNCHANGED store

Sync ==
    /\ stable' = store
    /\ UNCHANGED <<store, session>>

Fail(t) ==
    /\ session[t].phase \in {"pending", "applied"}
    /\ session' = [session EXCEPT ![t].phase = "failed",
                                  ![t].answer = NoAnswer]
    /\ UNCHANGED <<store, stable>>

Answer(t) ==
    /\ \/ session[t].phase = "applied" /\ ~session[t].sync
       \/ session[t].phase \in {"synced", "failed"}
    /\ session' = [session EXCEPT ![t] = IdleSession]
    /\ UNCHANGED <<store, stable>>

\* The caller drops the future: the call ends wherever it is.
Abandon(t) ==
    /\ session[t].phase # "idle"
    /\ session' = [session EXCEPT ![t] = IdleSession]
    /\ UNCHANGED <<store, stable>>

Crash ==
    /\ store' = stable
    /\ session' = [t \in Tasks |-> IdleSession]
    /\ UNCHANGED stable

Next ==
    \/ \E t \in Tasks :
          \/ Request(t) \/ Put(t) \/ Delete(t) \/ Get(t) \/ Rewrite(t)
          \/ Persist(t) \/ Fail(t) \/ Answer(t) \/ Abandon(t)
    \/ Sync
    \/ Crash

Spec == Init /\ [][Next]_lvars
=============================================================================
