-------------------------- MODULE DirectExecution --------------------------
(***************************************************************************)
(* Direct runs: one executor, no graph, no event store.  A run loads the   *)
(* Working Set, writes what it loaded into its run directory, executes,    *)
(* revises the Working Set on the version it loaded and writes a summary.  *)
(* Processes may run the same run_id again, one after the other or at the  *)
(* same time, and may die or fail to write a file anywhere.                *)
(*                                                                         *)
(* A run may be made for a handoff, which is claimed in the Working Set    *)
(* before the run and consumed or released by the run's own revision.      *)
(*                                                                         *)
(* Revisions of the Working Set are atomic, as VersionedTask promises.     *)
(***************************************************************************)
EXTENDS Naturals, Sequences

CONSTANTS
  Procs,       \* processes
  Runs,        \* run ids
  Handoffs,    \* runtime_handoff_candidate items in next_candidate_moves
  MaxVersion,  \* bound on the versions of the Working Set
  MaxFaults,   \* bound on the processes that die and the writes that fail
  NULL         \* no run, or no file

ASSUME BoundsAssumption ==
  /\ MaxVersion \in Nat \ {0}
  /\ MaxFaults \in Nat

ASSUME NullAssumption == NULL \notin Runs \union {"succeeded", "failed"}

VARIABLES
  log,       \* source_run_id and revision_reason of each version
  moves,     \* the handoffs in the current Working Set
  context,   \* version in context/working_set.json of each run (0: no file)
  summary,   \* status in run_summary.json of each run
  pc,        \* where each process is in DirectRunEngine.run
  run,       \* the run it makes
  loaded,    \* the Working Set it has loaded
  faults     \* history: how many processes died and writes failed

vars == <<log, moves, context, summary, pc, run, loaded, faults>>

(* A checkpoint of a task graph has the status of the graph in its reason.  *)
Reason == {"task_created", "handoff_claimed", "handoff_recovered", "handoff_reconciled",
           "direct_run_completed", "direct_run_failed",
           "checkpoint_open", "checkpoint_failed", "checkpoint_succeeded"}
Revision == [run : Runs \union {NULL}, reason : Reason]
Outcome == {"succeeded", "failed"}
Step == {"off", "check", "look", "write", "execute", "revise", "summary",
         "release", "report"}

Version == Len(log)
Open == [status |-> "open", run |-> NULL]
ClaimedBy(r) == [status |-> "claimed", run |-> r]
ConsumedBy(r) == [status |-> "consumed", run |-> r]
Move == {Open} \union {ClaimedBy(r) : r \in Runs} \union {ConsumedBy(r) : r \in Runs}

Init ==
  /\ log = <<[run |-> NULL, reason |-> "task_created"]>>
  /\ moves = [h \in Handoffs |-> Open]
  /\ context = [r \in Runs |-> 0]
  /\ summary = [r \in Runs |-> NULL]
  /\ pc = [p \in Procs |-> "off"]
  /\ run = [p \in Procs |-> NULL]
  /\ loaded = [p \in Procs |-> NULL]
  /\ faults = 0

Goto(p, step) == pc' = [pc EXCEPT ![p] = step]

(* The call returns or raises. *)
Leave(p) ==
  /\ Goto(p, "off")
  /\ run' = [run EXCEPT ![p] = NULL]
  /\ loaded' = [loaded EXCEPT ![p] = NULL]

Revise(r, reason) ==
  /\ Version < MaxVersion
  /\ log' = Append(log, [run |-> r, reason |-> reason])

-----------------------------------------------------------------------------
(* Handoffs *)

(* claim_runtime_handoff and the revision that stores it: the planner claims *)
(* an open handoff for the run it is about to start.                        *)
ClaimHandoff(h, r) ==
  /\ moves[h] = Open
  /\ context[r] = 0 /\ \A p \in Procs : run[p] # r
  /\ Revise(r, "handoff_claimed")
  /\ moves' = [moves EXCEPT ![h] = ClaimedBy(r)]
  /\ UNCHANGED <<context, summary, pc, run, loaded, faults>>

Claims(r, ms) == {h \in Handoffs : ms[h] = ClaimedBy(r)}

(* finalize_runtime_handoff_claim raises when a run owns two claims. *)
Finalizable(r, ms) == \A g, h \in Claims(r, ms) : g = h

\* Slip: the claim is consumed whatever the outcome.
FinalizedAsSucceeded(r, ms, outcome) ==
  [h \in Handoffs |-> IF h \in Claims(r, ms) THEN ConsumedBy(r) ELSE ms[h]]

(* finalize_runtime_handoff_claim: success consumes the claim of the run, *)
(* failure opens it again.                                                *)
Finalized(r, ms, outcome) ==
  [h \in Handoffs |->
     IF h \notin Claims(r, ms) THEN ms[h]
     ELSE IF outcome = "succeeded" THEN ConsumedBy(r) ELSE Open]

(* recover_runtime_handoff_claim: a person takes the one claim of a run away. *)
RecoverHandoff(h) ==
  /\ moves[h].status = "claimed"
  /\ Finalizable(moves[h].run, moves)
  /\ Revise(moves[h].run, "handoff_recovered")
  /\ moves' = [moves EXCEPT ![h] = Open]
  /\ UNCHANGED <<context, summary, pc, run, loaded, faults>>

-----------------------------------------------------------------------------
(* DirectRunEngine.run *)

(* run is called, and loads the task and its Working Set. *)
Run(p, r) ==
  /\ pc[p] = "off"
  /\ run' = [run EXCEPT ![p] = r]
  /\ loaded' = [loaded EXCEPT ![p] = [version |-> Version, moves |-> moves]]
  /\ Goto(p, "check")
  /\ UNCHANGED <<log, moves, context, summary, faults>>

(* A run with a summary is not made again: FileExistsError. *)
CheckSummary(p) ==
  /\ pc[p] = "check"
  /\ IF summary[run[p]] = NULL
     THEN Goto(p, "look") /\ UNCHANGED <<run, loaded>>
     ELSE Leave(p)
  /\ UNCHANGED <<log, moves, context, summary, faults>>

\* Slip: what an earlier call left in the run directory is overwritten.
LookAndOverwrite(p) ==
  /\ pc[p] = "look"
  /\ Goto(p, "write")
  /\ UNCHANGED <<log, moves, context, summary, run, loaded, faults>>

(* _write_json_if_same: a context from another version of the Working Set, *)
(* left by an earlier call, raises.  One file stands for the three of them. *)
LookAtContext(p) ==
  /\ pc[p] = "look"
  /\ CASE context[run[p]] = 0 -> Goto(p, "write") /\ UNCHANGED <<run, loaded>>
       [] context[run[p]] = loaded[p].version -> Goto(p, "execute") /\ UNCHANGED <<run, loaded>>
       [] OTHER -> Leave(p)
  /\ UNCHANGED <<log, moves, context, summary, faults>>

(* The file was missing when the process looked, and is written. *)
WriteContext(p) ==
  /\ pc[p] = "write"
  /\ context' = [context EXCEPT ![run[p]] = loaded[p].version]
  /\ Goto(p, "execute")
  /\ UNCHANGED <<log, moves, summary, run, loaded, faults>>

\* Slip: the summary is written before the Working Set is revised.
ExecuteAndSummarize(p) ==
  /\ pc[p] = "execute"
  /\ Goto(p, "summary") \/ Goto(p, "release")
  /\ UNCHANGED <<log, moves, context, summary, run, loaded, faults>>

(* The executor succeeds; or it raises, or its artifacts are not valid. *)
Execute(p) ==
  /\ pc[p] = "execute"
  /\ Goto(p, "revise") \/ Goto(p, "release")
  /\ UNCHANGED <<log, moves, context, summary, run, loaded, faults>>

\* Slip: the revision is not conditional on the version that was loaded.
RevisedAnyway(p) == loaded[p].version <= Version

(* update_working_set accepts the version the run has loaded. *)
Unrevised(p) == loaded[p].version = Version

(* The revision of a successful run; a conflict or two claims raise. *)
ReviseCompleted(p) ==
  /\ pc[p] = "revise"
  /\ \/ /\ Unrevised(p) /\ Finalizable(run[p], loaded[p].moves)
        /\ Revise(run[p], "direct_run_completed")
        /\ moves' = Finalized(run[p], loaded[p].moves, "succeeded")
        /\ Goto(p, "summary")
     \/ /\ ~(Unrevised(p) /\ Finalizable(run[p], loaded[p].moves))
        /\ Goto(p, "release")
        /\ UNCHANGED <<log, moves>>
  /\ UNCHANGED <<context, summary, run, loaded, faults>>

(* The summary of a successful run, after which the call returns. *)
WriteSummary(p) ==
  /\ pc[p] = "summary"
  /\ summary' = [summary EXCEPT ![run[p]] = "succeeded"]
  /\ Leave(p)
  /\ UNCHANGED <<log, moves, context, faults>>

(* Anything that was raised: a revision on the version the run loaded, which *)
(* gives the handoff back.  What that raises is noted and swallowed.         *)
ReviseFailed(p) ==
  /\ pc[p] = "release"
  /\ \/ /\ Unrevised(p) /\ Finalizable(run[p], loaded[p].moves)
        /\ Revise(run[p], "direct_run_failed")
        /\ moves' = Finalized(run[p], loaded[p].moves, "failed")
     \/ /\ ~(Unrevised(p) /\ Finalizable(run[p], loaded[p].moves))
        /\ UNCHANGED <<log, moves>>
  /\ Goto(p, "report")
  /\ UNCHANGED <<context, summary, run, loaded, faults>>

(* The summary of a failed run, whatever is there; the exception goes on. *)
WriteFailure(p) ==
  /\ pc[p] = "report"
  /\ summary' = [summary EXCEPT ![run[p]] = "failed"]
  /\ Leave(p)
  /\ UNCHANGED <<log, moves, context, faults>>

(* A write fails: before the executor the exception leaves the call, after *)
(* it the run has failed, and in the handler it leaves the call again.     *)
WriteError(p) ==
  /\ faults < MaxFaults
  /\ faults' = faults + 1
  /\ \/ pc[p] \in {"write", "report"} /\ Leave(p)
     \/ pc[p] \in {"revise", "summary"} /\ Goto(p, "release") /\ UNCHANGED <<run, loaded>>
     \/ pc[p] = "release" /\ Goto(p, "report") /\ UNCHANGED <<run, loaded>>
  /\ UNCHANGED <<log, moves, context, summary>>

Crash(p) ==
  /\ pc[p] # "off"
  /\ faults < MaxFaults
  /\ faults' = faults + 1
  /\ Leave(p)
  /\ UNCHANGED <<log, moves, context, summary>>

RunStep(p) ==
  \/ CheckSummary(p)
  \/ LookAtContext(p)
  \/ WriteContext(p)
  \/ Execute(p)
  \/ ReviseCompleted(p)
  \/ WriteSummary(p)
  \/ ReviseFailed(p)
  \/ WriteFailure(p)
  \/ WriteError(p)

Next ==
  \/ \E h \in Handoffs, r \in Runs : ClaimHandoff(h, r)
  \/ \E h \in Handoffs : RecoverHandoff(h)
  \/ \E p \in Procs, r \in Runs : Run(p, r)
  \/ \E p \in Procs : RunStep(p) \/ Crash(p)

Spec == Init /\ [][Next]_vars

-----------------------------------------------------------------------------
(* Properties *)

(* The values of the variables, and what a process in a call relies on: it   *)
(* executes under the context file of its run, or under one somebody else    *)
(* has written over it, and never under a Working Set of the future.         *)
TypeOK ==
  /\ log \in Seq(Revision) /\ log # <<>>
  /\ moves \in [Handoffs -> Move]
  /\ context \in [Runs -> 0 .. Version]
  /\ summary \in [Runs -> Outcome \union {NULL}]
  /\ pc \in [Procs -> Step]
  /\ run \in [Procs -> Runs \union {NULL}]
  /\ \A p \in Procs :
       IF pc[p] = "off"
       THEN run[p] = NULL /\ loaded[p] = NULL
       ELSE run[p] \in Runs /\ loaded[p].version \in 1 .. Version
  /\ faults \in 0 .. MaxFaults

ByRun(i, r) ==
  log[i].run = r /\ log[i].reason \in {"direct_run_completed", "direct_run_failed"}

(* A run revises the Working Set at most once, with its success or with its  *)
(* failure, however often its run_id is run again, at the same time or after *)
(* a crash: the context file admits one version of the Working Set only, and *)
(* the store one revision of it.                                             *)
RunRevisesOnce ==
  \A r \in Runs : \A i, j \in 1 .. Len(log) : ByRun(i, r) /\ ByRun(j, r) => i = j

(* A version of the Working Set holds the success of run r. *)
SucceededIn(versions, r) ==
  \E i \in 1 .. Len(versions) :
    /\ versions[i].run = r
    /\ versions[i].reason \in {"direct_run_completed", "checkpoint_succeeded", "handoff_reconciled"}

(* What others take for a success is in the Working Set: a summary that says  *)
(* the run succeeded is never there without, or before, the revision that     *)
(* holds its results, a handoff is consumed by such a run only, and a run     *)
(* whose success the Working Set holds does not own a handoff any more.       *)
SuccessIsMaterialized ==
  /\ \A r \in Runs :
       /\ summary[r] = "succeeded" => SucceededIn(log, r)
       /\ SucceededIn(log, r) => Claims(r, moves) = {}
  /\ \A h \in Handoffs : moves[h].status = "consumed" => SucceededIn(log, moves[h].run)

(* A handoff is consumed by a run that has succeeded, and for good: no        *)
(* failure, recovery or claim takes it back or gives it to another run.       *)
ConsumedForGood ==
  [][\A h \in Handoffs :
       /\ moves'[h].status = "consumed" => SucceededIn(log', moves'[h].run)
       /\ moves[h].status = "consumed" => moves'[h] = moves[h]]_vars

(* A claim is ended by the run that owns it or by a person who names that     *)
(* run: no stale process consumes, releases or overwrites what was recovered  *)
(* meanwhile and claimed for another run.                                     *)
OnlyOwnerEndsClaim ==
  [][\A h \in Handoffs, r \in Runs :
       moves[h] = ClaimedBy(r) /\ moves'[h] # moves[h] =>
         /\ Len(log') = Len(log) + 1
         /\ log'[Len(log')].run = r
         /\ \A g \in Handoffs : g # h => moves'[g] = moves[g]]_vars

(* The summary of a run is terminal: once written, it stays                  *)
(* (src/planner/direct_execution.py:178-181).                                *)
TerminalSummary ==
  [][\A r \in Runs : summary[r] # NULL => summary'[r] = summary[r]]_vars
=============================================================================
