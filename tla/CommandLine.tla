---------------------------- MODULE CommandLine ----------------------------
(***************************************************************************)
(* The commands (pilsmer-cli/src/main.rs): a process opens the database    *)
(* with one stream profile, or with two to migrate, carries out the        *)
(* statements of its script one after the other, and ends.  A command is a *)
(* script of one statement; a shell reads more than one.  An error leaves  *)
(* main by `?`, with nothing undone, flushed or closed.  Meanwhile         *)
(* `pilsmer compact` may run in another process.                           *)
(***************************************************************************)
EXTENDS PiLSMer

CONSTANTS
    Cli,            \* the one task that the process makes its calls from
    Commands,       \* the commands that are given
    MaxCommands     \* bound on their number

VARIABLES
    phase,      \* where the process is
    script,     \* the statements still to be carried out
    keys,       \* those a scan has found
    todo,       \* those it has still to pass, or the loop over them to visit
    report,     \* VacuumAllReport
    commands,
    began,      \* history: the sequence number when the loop began
    allowed     \* history: what a key may mean, after what has been answered

processVars == <<phase, script, keys, todo, report>>
cliVars == <<processVars, commands, began, allowed>>
cliAll == <<allVars, cliVars>>

SingleOps == {"put", "get", "delete", "explain", "plan", "vacuum", "unparsable"}
BulkOps == {"planall", "vacuumall", "migrate"}

\* A command or a line of the shell; budget: VacuumMeaning has one.
Statement ==
    [op : SingleOps \union BulkOps \union {"metrics"}, key : Keys \union {Absent},
     value : Values \union {Absent}, opts : Opts, budget : BOOLEAN]

Phases == {"closed", "ready", "scan", "loop", "call", "flush", "failed"}

VacuumAllReport ==
    [visited : Nat, rewritten : Nat, kept : Nat, stale_or_missing : Nat,
     timed_out : BOOLEAN]
NoReport == [visited |-> 0, rewritten |-> 0, kept |-> 0, stale_or_missing |-> 0,
             timed_out |-> FALSE]

ASSUME CommandLineAssumption ==
    /\ Cli \in Tasks
    /\ \A c \in Commands : c.runtime \in Runtimes /\ c.script \in Seq(Statement)
    /\ MaxCommands \in Nat

Current == Head(script)
IsBulk == Current.op \in BulkOps

\* Type invariant; a statement is being carried out from its first step to its
\* last, and only then does the process have a call to the wrapper under way.
CliTypeOK ==
    /\ phase \in Phases
    /\ script \in Seq(Statement)
    /\ phase \in {"scan", "loop", "call", "flush"} => script # <<>>
    /\ keys \in SUBSET Keys /\ todo \in SUBSET Keys
    /\ report \in VacuumAllReport
    /\ began <= seq
    /\ allowed \in [Keys -> SUBSET (Values \union {Absent, Corrupt})]
    /\ pc[Cli] # "idle" <=> phase = "call"
    /\ \A t \in Tasks \ {Cli} : pc[t] = "idle"

CliInit ==
    /\ SystemInit
    /\ phase = "closed"
    /\ script = <<>>
    /\ keys = {} /\ todo = {}
    /\ report = NoReport
    /\ commands = 0
    /\ began = 0
    /\ allowed = [k \in Keys |-> {Logical(mem[k].env)}]

-----------------------------------------------------------------------------
(* The process *)

\* build_runtime or build_migration_runtime, and PiLsmDb::open: a database is
\* only ever opened with the streams it is asked to.
Open ==
    /\ phase = "closed"
    /\ commands < MaxCommands
    /\ commands' = commands + 1
    /\ \E c \in Commands :
          /\ c.runtime = runtime
          /\ script' = c.script
    /\ phase' = "ready"
    /\ UNCHANGED <<allVars, keys, todo, report, began, allowed>>

\* The process ends: what has not been flushed is gone.
Gone ==
    /\ Restart
    /\ phase' = "closed"
    /\ script' = <<>>
    /\ keys' = {} /\ todo' = {}
    /\ report' = NoReport
    /\ began' = 0
    /\ UNCHANGED <<filterVars, commands, allowed>>

\* close, or the end of main by an error.
Exit ==
    /\ phase = "failed" \/ (phase = "ready" /\ script = <<>>)
    /\ Gone

\* From outside, at any moment.
Kill == phase # "closed" /\ Gone

Fails ==
    /\ phase' = "failed"
    /\ UNCHANGED <<script, keys, todo, report>>

\* On to the next statement.
NextStatement ==
    /\ phase' = "ready"
    /\ script' = Tail(script)
    /\ UNCHANGED <<keys, todo, report>>

-----------------------------------------------------------------------------
(* Statements that are one call *)

\* Bug seeded for Await: the call is made and not awaited.
Spawn(op, k) ==
    /\ Invoke(Cli)
    /\ call'[Cli].op = op
    /\ call'[Cli].key = k
    /\ call'[Cli].value = Current.value
    /\ call'[Cli].opts = Current.opts
    /\ UNCHANGED phase

\* The process awaits a call to the wrapper.
Await(op, k) ==
    /\ Invoke(Cli)
    /\ call'[Cli].op = op
    /\ call'[Cli].key = k
    /\ call'[Cli].value = Current.value
    /\ call'[Cli].opts = Current.opts
    /\ phase' = "call"

\* What a write may make of its key, answered or not.
Meaning == IF Current.op = "put" THEN Current.value ELSE Absent
Writes == Current.op \in {"put", "delete"}

Single ==
    /\ phase = "ready" /\ script # <<>>
    /\ Current.op \in SingleOps \ {"explain", "unparsable"}
    /\ Await(Current.op, Current.key)
    /\ allowed' = IF Writes
                  THEN [allowed EXCEPT ![Current.key] = @ \union {Meaning}]
                  ELSE allowed
    /\ UNCHANGED <<filterVars, script, keys, todo, report, commands, began>>

\* A line of the shell is parsed when those before it have been carried out.
Unparsable ==
    /\ phase = "ready" /\ script # <<>> /\ Current.op = "unparsable"
    /\ Fails
    /\ UNCHANGED <<allVars, commands, began, allowed>>

\* PiLsmDb::explain reads the row and decodes it, and no more.
Explain ==
    /\ phase = "ready" /\ script # <<>> /\ Current.op = "explain"
    /\ LET e == StoreGet(Current.key) IN
          \/ (e # Absent => ~Decodable(e)) /\ Fails
          \/ e # Absent /\ Decodable(e) /\ NextStatement
    /\ UNCHANGED <<allVars, commands, began, allowed>>

-----------------------------------------------------------------------------
(* plan_all, vacuum_all, migrate_all *)

BeginScan ==
    /\ phase = "ready" /\ script # <<>>
    /\ IsBulk \/ Current.op = "metrics"
    /\ phase' = "scan"
    /\ keys' = {} /\ todo' = Keys
    /\ report' = NoReport
    /\ UNCHANGED <<allVars, script, commands, began, allowed>>

\* PiLsmEnvelopeIterator::next, PiLsmExplainIterator::next: rows are decoded,
\* plans are not reconstructed, and one bad row is the end of the command.
ScanRow ==
    /\ phase = "scan"
    /\ \E k \in todo :
          LET e == StoreGet(k) IN
          \/ /\ e # Absent => Decodable(e)
             /\ keys' = IF e = Absent THEN keys ELSE keys \union {k}
             /\ todo' = todo \ {k}
             /\ UNCHANGED <<phase, script, report>>
          \/ /\ e # Absent /\ ~Decodable(e)
             /\ Fails
    /\ UNCHANGED <<allVars, commands, began, allowed>>

EndScan ==
    /\ phase = "scan" /\ todo = {}
    /\ \/ /\ Current.op = "metrics"
          /\ NextStatement
          /\ UNCHANGED began
       \/ /\ IsBulk
          /\ phase' = "loop"
          /\ todo' = keys
          /\ began' = seq
          /\ UNCHANGED <<script, keys, report>>
    /\ UNCHANGED <<allVars, commands, allowed>>

RewriteOf(op) ==
    CASE op = "planall" -> "plan" [] op = "vacuumall" -> "vacuum"
      [] op = "migrate" -> "replan"

\* The next key of the loop; vacuum_all looks at the clock before each.
Visit ==
    /\ phase = "loop"
    /\ \E k \in todo :
          /\ Await(RewriteOf(Current.op), k)
          /\ todo' = todo \ {k}
    /\ UNCHANGED <<filterVars, script, keys, report, commands, began, allowed>>

BudgetSpent ==
    /\ phase = "loop" /\ todo # {}
    /\ Current.op = "vacuumall" /\ Current.budget
    /\ report' = [report EXCEPT !.timed_out = TRUE]
    /\ phase' = "flush"
    /\ UNCHANGED <<allVars, script, keys, todo, commands, began, allowed>>

EndLoop ==
    /\ phase = "loop" /\ todo = {}
    /\ phase' = "flush"
    /\ UNCHANGED <<allVars, script, keys, todo, report, commands, began, allowed>>

\* Bug seeded for Counted: whatever is not missing or stale has been rewritten.
CountedRewritten(status) ==
    IF status \in {"SkippedMissingKey", "SkippedStaleSource"}
    THEN "stale_or_missing" ELSE "rewritten"

Counted(status) ==
    CASE status = "Rewritten" -> "rewritten"
      [] status \in {"SkippedMissingKey", "SkippedStaleSource"} -> "stale_or_missing"
      [] OTHER -> "kept"

\* The call has returned; a key that is not there ends a get.
Answered ==
    /\ phase = "call" /\ pc[Cli] = "reply"
    /\ Return(Cli)
    /\ \/ /\ result[Cli] = "error" \/ (Current.op = "get" /\ result[Cli] = Absent)
          /\ Fails
       \/ /\ result[Cli] \notin {"error", Absent} /\ Current.op = "get"
          /\ NextStatement
       \/ /\ result[Cli] # "error" /\ Current.op \in SingleOps \ {"get"}
          /\ phase' = "flush"
          /\ UNCHANGED <<script, keys, todo, report>>
       \/ /\ result[Cli] # "error" /\ IsBulk
          /\ report' = [report EXCEPT !.visited = @ + 1,
                                      ![Counted(result[Cli])] = @ + 1]
          /\ phase' = "loop"
          /\ UNCHANGED <<script, keys, todo>>
    /\ UNCHANGED <<filterVars, commands, began, allowed>>

\* Bug seeded for Persist: the answer is given before the flush.
PersistLater == UNCHANGED storeVars
Persist == StoreFlush

\* db.flush, after which a write is answered.
FlushAll ==
    /\ phase = "flush"
    /\ Persist
    /\ NextStatement
    /\ allowed' = IF Writes THEN [allowed EXCEPT ![Current.key] = {Meaning}]
                  ELSE allowed
    /\ UNCHANGED <<taskVars, lockVars, cache, runtime, calls, filterVars,
                   commands, began>>

-----------------------------------------------------------------------------

\* The engine fails a scan or a flush; EngineError has the calls.
ScanOrFlushFails ==
    /\ phase \in {"scan", "flush"}
    /\ Fails
    /\ UNCHANGED <<allVars, commands, began, allowed>>

\* A step inside the wrapper.
InCall ==
    /\ phase = "call" /\ pc[Cli] # "reply"
    /\ Step(Cli)
    /\ UNCHANGED <<filterVars, cliVars>>

EngineStep ==
    /\ EngineError(Cli) \/ BackgroundFlush
    /\ UNCHANGED <<filterVars, cliVars>>

\* `pilsmer compact`, in its own process.
Compacts == Compaction /\ UNCHANGED cliVars

ProcessStep ==
    \/ Exit \/ Single \/ Unparsable \/ Explain
    \/ BeginScan \/ ScanRow \/ EndScan \/ Visit \/ BudgetSpent \/ EndLoop
    \/ Answered \/ FlushAll \/ InCall

CliNext ==
    \/ Open \/ Kill \/ ProcessStep
    \/ ScanOrFlushFails \/ EngineStep \/ Compacts

CliSpec == CliInit /\ [][CliNext]_cliAll

\* A process that is running is run on; commands are given, killed and failed
\* at will, and compactors stop and start.
FairCliSpec == CliSpec /\ WF_cliAll(ProcessStep)

-----------------------------------------------------------------------------
(* Properties *)

\* Whatever has been answered holds from then on: a put or a delete that has
\* been answered is never lost, to a crash, to a bulk command that stops half
\* way, to one that is killed between two keys, or to a compactor; and one that
\* has not been answered has either taken effect or not.
AnswersHold ==
    \A k \in Keys : {Logical(mem[k].env), Logical(disk[k].env)} \subseteq allowed[k]

\* What a bulk command reports is what it has done: it has written a new
\* version of as many keys as it says it has rewritten, looked at each key it
\* found once, and at all of them unless it says that time ran out.
BulkDone == phase = "flush" /\ IsBulk

ReportExplainsStore ==
    BulkDone =>
      /\ seq = began + report.rewritten
      /\ Cardinality({k \in Keys : mem[k].seq > began}) = report.rewritten
      /\ report.visited = report.rewritten + report.kept + report.stale_or_missing
      /\ report.visited = Cardinality(keys \ todo)
      /\ report.timed_out \/ todo = {}

\* README.md: migrate replans existing values from one constant to another.
\* When it says that it has kept none and found none stale, every value reads
\* with the target stream alone, and stays so in a crash once it has been
\* flushed; while it says anything, every value reads with both.
ReadsWith(registry, e) ==
    e # Absent => Decodable(e) /\ (e.kind = "plan" => Reconstructs(registry, e))

MigrationComplete ==
    BulkDone /\ Current.op = "migrate" =>
      \A k \in Keys :
        /\ ReadsWith(runtime.registry, mem[k].env)
        /\ report.kept + report.stale_or_missing = 0 =>
              ReadsWith({runtime.target}, mem[k].env)

\* A command that is left to run ends: none waits for a guard that a call
\* before it in the same process has kept, and no loop visits a key for ever.
CommandsEnd == phase # "closed" ~> phase = "closed"
=============================================================================
