-------------------------- MODULE HandoffExecution --------------------------
(***************************************************************************)
(* Direct runs and task graphs that revise one task, and the handoffs they *)
(* are made for: what synchronize does to the claim of its run beside the  *)
(* direct runs of DirectExecution and the people who recover claims or     *)
(* reconcile them with a run that has succeeded.                           *)
(*                                                                         *)
(* Of a task graph there is its status in the event store; how it comes    *)
(* about is in RuntimeEventStore, and what else a checkpoint revises is in *)
(* TaskGraphExecution.                                                     *)
(***************************************************************************)
EXTENDS DirectExecution

CONSTANTS
  Coordinators,  \* processes that run, resume or reconcile task graphs
  GraphRuns      \* the run ids that are task graphs

ASSUME GraphRunsAssumption == GraphRuns \subseteq Runs

VARIABLES
  status,  \* status of each graph in the event store, "none" if there is none
  call     \* where each coordinator is, and what it has in memory

graphVars == <<status, call>>
directVars == <<context, summary, pc, run, loaded, faults>>

Ended == {"failed", "succeeded"}
GraphStatus == {"none", "open"} \union Ended
Idle == [at |-> "off"]
Loading == [at : {"load"}, run : GraphRuns, snapshot : {"open"} \union Ended, reconciles : BOOLEAN]
Revising == [at : {"sync"}, run : GraphRuns, snapshot : {"open"} \union Ended, reconciles : BOOLEAN,
             version : 1 .. MaxVersion, moves : [Handoffs -> Move]]

HandoffInit ==
  /\ Init
  /\ status = [r \in GraphRuns |-> "none"]
  /\ call = [c \in Coordinators |-> Idle]

Enter(c, r, st, reconciles) ==
  call' = [call EXCEPT ![c] = [at |-> "load", run |-> r, snapshot |-> st, reconciles |-> reconciles]]

Return(c) == call' = [call EXCEPT ![c] = Idle]

(* The status a graph may have next: an open one may end, for good. *)
Later(st) == IF st \in Ended THEN {st} ELSE {"open"} \union Ended

-----------------------------------------------------------------------------
(* The coordinator *)

(* What a snapshot may say of a graph: one that has failed looks open while  *)
(* another process executes a node of it.                                    *)
Seen(st) == IF st = "failed" THEN {"failed", "open"} ELSE {st}

(* run, resume and resolve: the engine does what it can, and the snapshot    *)
(* says what has become of the graph.                                        *)
RunGraph(c, r) ==
  /\ call[c] = Idle
  /\ \E st \in Later(status[r]) :
       /\ status' = [status EXCEPT ![r] = st]
       /\ \E seen \in Seen(st) : Enter(c, r, seen, FALSE)
  /\ UNCHANGED <<log, moves, directVars>>

(* Another process executes nodes of the graph, or a person decides one. *)
Progress(r) ==
  /\ status[r] = "open"
  /\ \E st \in Ended : status' = [status EXCEPT ![r] = st]
  /\ UNCHANGED <<log, moves, directVars, call>>

\* Slip: the claim of any graph is reconciled with a success.
ReconcileAnyGraph(c, r) ==
  /\ call[c] = Idle
  /\ status[r] # "none"
  /\ Enter(c, r, "succeeded", TRUE)
  /\ UNCHANGED <<log, moves, directVars, status>>

(* A person reconciles the claim of a graph that has succeeded. *)
ReconcileGraph(c, r) ==
  /\ call[c] = Idle
  /\ status[r] = "succeeded"
  /\ Enter(c, r, "succeeded", TRUE)
  /\ UNCHANGED <<log, moves, directVars, status>>
-----------------------------------------------------------------------------
(* synchronize *)

Snapshot(c) == call[c].snapshot

(* The reason of the revision, with the status of the checkpoint.            *)
CheckpointReason(st) ==
  CASE st = "open" -> "checkpoint_open"
    [] st = "failed" -> "checkpoint_failed"
    [] st = "succeeded" -> "checkpoint_succeeded"

(* The Working Set holds a checkpoint of the graph with that status; the     *)
(* revision of a reconciliation is one too.                                  *)
Recorded(r, st) ==
  \E i \in 1 .. Version :
    /\ log[i].run = r
    /\ log[i].reason \in {CheckpointReason(st)} \union
                         (IF st = "succeeded" THEN {"handoff_reconciled"} ELSE {})

(* The Working Set is loaded. *)
LoadWorkingSet(c) ==
  /\ call[c].at = "load"
  /\ call[c].reconciles \/ Snapshot(c) # "succeeded" \/ ~Recorded(call[c].run, "succeeded")
  /\ call' = [call EXCEPT ![c] = [at |-> "sync", run |-> @.run, snapshot |-> @.snapshot,
                                  reconciles |-> @.reconciles, version |-> Version, moves |-> moves]]
  /\ UNCHANGED <<log, moves, directVars, status>>

(* It holds the checkpoint of the snapshot, and nothing is revised.  A graph *)
(* that has not succeeded may have more than one checkpoint with its status. *)
LoadUpToDate(c) ==
  /\ call[c].at = "load"
  /\ ~call[c].reconciles
  /\ Recorded(call[c].run, Snapshot(c))
  /\ Return(c)
  /\ UNCHANGED <<log, moves, directVars, status>>

(* reconcile_runtime_handoff_claim needs the one claim of the run;           *)
(* finalize_runtime_handoff_claim must not find two if the run has ended.    *)
Agrees(c) ==
  LET claims == Claims(call[c].run, call[c].moves)
  IN  /\ call[c].reconciles => claims # {}
      /\ Snapshot(c) \in Ended => Finalizable(call[c].run, call[c].moves)

(* What becomes of the handoffs: only a run that has ended ends its claim.   *)
HandoffsAfter(c) ==
  IF Snapshot(c) \in Ended THEN Finalized(call[c].run, call[c].moves, Snapshot(c)) ELSE call[c].moves

(* The Working Set is revised, if it is the version that was loaded. *)
Synchronize(c) ==
  /\ call[c].at = "sync"
  /\ Agrees(c)
  /\ call[c].version = Version
  /\ Revise(call[c].run, IF call[c].reconciles THEN "handoff_reconciled" ELSE CheckpointReason(Snapshot(c)))
  /\ moves' = HandoffsAfter(c)
  /\ Return(c)
  /\ UNCHANGED <<directVars, status>>

(* Otherwise it is loaded again, three times in all. *)
SynchronizeAgain(c) ==
  /\ call[c].at = "sync"
  /\ Agrees(c)
  /\ call[c].version # Version
  /\ Enter(c, call[c].run, Snapshot(c), call[c].reconciles)
  /\ UNCHANGED <<log, moves, directVars, status>>

(* The call raises (after three conflicts, or for the claims of its run), or *)
(* its process dies: the graph and the Working Set stay as they are.         *)
GiveUp(c) ==
  /\ call[c] # Idle
  /\ Return(c)
  /\ UNCHANGED <<log, moves, directVars, status>>

CoordinatorStep(c) ==
  \/ \E r \in GraphRuns : RunGraph(c, r) \/ ReconcileGraph(c, r)
  \/ LoadWorkingSet(c)
  \/ LoadUpToDate(c)
  \/ Synchronize(c)
  \/ SynchronizeAgain(c)
  \/ GiveUp(c)

(* A handoff is claimed for a graph that is not registered yet. *)
DirectNext ==
  \/ \E h \in Handoffs, r \in Runs :
       (r \in GraphRuns => status[r] = "none") /\ ClaimHandoff(h, r)
  \/ \E h \in Handoffs : RecoverHandoff(h)
  \/ \E p \in Procs, r \in Runs \ GraphRuns : Run(p, r)
  \/ \E p \in Procs : RunStep(p) \/ Crash(p)

HandoffNext ==
  \/ DirectNext /\ UNCHANGED graphVars
  \/ \E c \in Coordinators : CoordinatorStep(c)
  \/ \E r \in GraphRuns : Progress(r)

HandoffSpec == HandoffInit /\ [][HandoffNext]_<<vars, graphVars>>

-----------------------------------------------------------------------------
(* Properties *)

(* The variables keep their domains, and no checkpoint is of a status that   *)
(* its graph never had.                                                      *)
HandoffTypeOK ==
  /\ TypeOK
  /\ status \in [GraphRuns -> GraphStatus]
  /\ call \in [Coordinators -> {Idle} \union Loading \union Revising]
  /\ \A r \in GraphRuns, st \in Ended : Recorded(r, st) => status[r] = st

Outcomes == INSTANCE RunOutcomes WITH Runs <- GraphRuns, outcome <- status
=============================================================================
