----------------------- MODULE HandoffExecutionProofs -----------------------
(* Proofs about HandoffExecution, and with it DirectExecution, for any        *)
(* processes, coordinators, runs, handoffs and versions.                      *)
EXTENDS HandoffExecution, TLAPS

USE BoundsAssumption, NullAssumption, GraphRunsAssumption

-----------------------------------------------------------------------------
(* The inductive invariant *)

AnyLoaded == [version : Nat \ {0}, moves : [Handoffs -> Move]]

(* What a process has loaded in a call. *)
LoadedTyped ==
  /\ Version <= MaxVersion
  /\ DOMAIN loaded = Procs
  /\ \A p \in Procs : pc[p] # "off" => loaded[p] \in AnyLoaded

(* Who works from the current version works from the current handoffs. *)
LoadedIsCurrent ==
  /\ \A p \in Procs : pc[p] # "off" /\ loaded[p].version = Version => loaded[p].moves = moves
  /\ \A c \in Coordinators : call[c].at = "sync" =>
       /\ call[c].version <= Version
       /\ call[c].version = Version => call[c].moves = moves

Executing == {"execute", "revise", "summary", "release", "report"}

(* A process executes under a context file of its run. *)
ContextFirst ==
  \A p \in Procs : pc[p] \in Executing => context[run[p]] # 0

(* Once a run has revised the Working Set, every process that is still making *)
(* it, or may begin to, works from a version before that revision.            *)
RevisedLater ==
  \A r \in Runs, i \in 1 .. Version : ByRun(i, r) =>
    /\ context[r] # 0 /\ context[r] < i
    /\ \A p \in Procs : run[p] = r /\ pc[p] \in Executing \union {"write"} =>
         loaded[p].version < i

(* A coordinator tells the Working Set what has become of its graph. *)
CallsAgree ==
  \A c \in Coordinators : call[c] # Idle =>
    /\ status[call[c].run] # "none"
    /\ Snapshot(c) \in Ended => status[call[c].run] = Snapshot(c)
    /\ call[c].reconciles => Snapshot(c) = "succeeded"

(* Checkpoints with an outcome are of graphs that have that outcome. *)
CheckpointsAgree ==
  \A i \in 1 .. Version :
    /\ log[i].reason \in {"checkpoint_succeeded", "handoff_reconciled"} =>
         log[i].run \in GraphRuns /\ status[log[i].run] = "succeeded"
    /\ log[i].reason = "checkpoint_failed" =>
         log[i].run \in GraphRuns /\ status[log[i].run] = "failed"

(* A process writes the summary of a success that is in the Working Set. *)
SummaryAfterRevision ==
  \A p \in Procs : pc[p] = "summary" => SucceededIn(log, run[p])

(* A part of SuccessIsMaterialized, which the step of a handoff preserves. *)
ConsumedBySuccess ==
  \A h \in Handoffs : moves[h].status = "consumed" => SucceededIn(log, moves[h].run)

HInv ==
  /\ HandoffTypeOK
  /\ LoadedTyped
  /\ LoadedIsCurrent
  /\ ContextFirst
  /\ RevisedLater
  /\ RunRevisesOnce
  /\ CallsAgree
  /\ CheckpointsAgree
  /\ SummaryAfterRevision
  /\ SuccessIsMaterialized
  /\ ConsumedBySuccess
-----------------------------------------------------------------------------
(* Revisions *)

(* A revision adds one entry to the log. *)
LEMMA ReviseLog ==
  ASSUME TypeOK, NEW r \in Runs, NEW reason \in Reason, Revise(r, reason)
  PROVE  /\ log' \in Seq(Revision) /\ log' # <<>>
         /\ Version \in Nat \ {0} /\ Version < MaxVersion
         /\ Version' = Version + 1
         /\ log'[Version + 1] = [run |-> r, reason |-> reason]
         /\ \A i \in 1 .. Version : log'[i] = log[i]
<1> DEFINE e == [run |-> r, reason |-> reason]
<1>1. e \in Revision
  BY DEF Revision
<1>2. log \in Seq(Revision) /\ log # <<>> /\ log' = Append(log, e) /\ Len(log) < MaxVersion
  BY DEF TypeOK, Revise, Version
<1> HIDE DEF e
<1>3. /\ log' \in Seq(Revision) /\ log' # <<>>
      /\ Len(log) \in Nat \ {0}
      /\ Len(log') = Len(log) + 1
      /\ log'[Len(log) + 1] = e
      /\ \A i \in 1 .. Len(log) : log'[i] = log[i]
  BY <1>1, <1>2
<1>4. QED
  BY <1>2, <1>3 DEF e, Version

SuccessReasons == {"direct_run_completed", "checkpoint_succeeded", "handoff_reconciled"}
FailureReasons == {"direct_run_failed", "checkpoint_failed", "handoff_recovered"}

TakesClaim(r) ==
  \E h \in Handoffs :
    /\ moves[h] = Open
    /\ context[r] = 0
    /\ r \in GraphRuns => status[r] = "none"
    /\ moves' = [moves EXCEPT ![h] = ClaimedBy(r)]

EndsClaim(r, outcome) == Finalizable(r, moves) /\ moves' = Finalized(r, moves, outcome)

(* What a step may do to the handoffs, and what the version it makes says.    *)
HandoffsStep ==
  \/ log' = log /\ moves' = moves
  \/ \E r \in Runs :
       \/ Revise(r, "handoff_claimed") /\ TakesClaim(r)
       \/ \E reason \in FailureReasons : Revise(r, reason) /\ EndsClaim(r, "failed")
       \/ \E reason \in SuccessReasons : Revise(r, reason) /\ EndsClaim(r, "succeeded")
       \/ Revise(r, "checkpoint_open") /\ moves' = moves

(* A claim names a run. *)
LEMMA MoveOfRun ==
  /\ \A m \in Move :
       /\ m.status = "claimed" => m.run \in Runs /\ m = ClaimedBy(m.run)
       /\ m.status = "consumed" => m.run \in Runs /\ m = ConsumedBy(m.run)
  /\ \A r \in Runs :
       /\ Open # ClaimedBy(r) /\ Open # ConsumedBy(r)
       /\ ClaimedBy(r).status = "claimed" /\ ClaimedBy(r).run = r
       /\ ConsumedBy(r).status = "consumed" /\ ConsumedBy(r).run = r
  /\ \A r, s \in Runs : ClaimedBy(r) # ConsumedBy(s) /\ (ClaimedBy(r) = ClaimedBy(s) => r = s)
  /\ Open.status = "open"
BY DEF Move, Open, ClaimedBy, ConsumedBy

(* Finalizing a claim leaves handoffs. *)
LEMMA FinalizedType ==
  ASSUME NEW r \in Runs, NEW ms \in [Handoffs -> Move], NEW outcome
  PROVE  Finalized(r, ms, outcome) \in [Handoffs -> Move]
BY DEF Finalized, Move

(* Recovering the one claim of a run is what its failure does to it. *)
LEMMA RecoverEndsClaim ==
  ASSUME TypeOK, NEW h \in Handoffs, RecoverHandoff(h)
  PROVE  moves[h].run \in Runs /\ EndsClaim(moves[h].run, "failed")
<1> DEFINE r == moves[h].run
<1>1. moves \in [Handoffs -> Move]
  BY DEF TypeOK
<1>2. r \in Runs /\ moves[h] = ClaimedBy(r)
  BY <1>1, MoveOfRun DEF RecoverHandoff
<1>3. Finalizable(r, moves) /\ moves' = [moves EXCEPT ![h] = Open]
  BY DEF RecoverHandoff
<1> HIDE DEF r
<1>4. \A g \in Handoffs : g \in Claims(r, moves) <=> g = h
  BY <1>2, <1>3 DEF Finalizable, Claims
<1>5. moves' = Finalized(r, moves, "failed")
  BY <1>1, <1>3, <1>4 DEF Finalized
<1>6. QED
  BY <1>2, <1>3, <1>5 DEF EndsClaim, r

(* What a process of a direct run does to the handoffs. *)
LEMMA DirectHandoffsStep ==
  ASSUME TypeOK, LoadedIsCurrent, NEW p \in Procs, RunStep(p) \/ Crash(p)
  PROVE  HandoffsStep
<1>1. CASE \/ CheckSummary(p) \/ LookAtContext(p) \/ WriteContext(p) \/ Execute(p)
           \/ WriteSummary(p) \/ WriteFailure(p) \/ WriteError(p) \/ Crash(p)
  <2>1. log' = log /\ moves' = moves
    BY <1>1 DEF CheckSummary, LookAtContext, WriteContext, Execute, WriteSummary, WriteFailure,
                WriteError, Crash
  <2>2. QED
    BY <2>1 DEF HandoffsStep
<1>2. ASSUME pc[p] # "off", Unrevised(p)
      PROVE  run[p] \in Runs /\ loaded[p].moves = moves
  BY <1>2 DEF TypeOK, LoadedIsCurrent, Unrevised
<1>3. CASE ReviseCompleted(p)
  <2>1. CASE Unrevised(p) /\ Finalizable(run[p], loaded[p].moves)
    <3>1. run[p] \in Runs /\ loaded[p].moves = moves
      BY <1>2, <1>3, <2>1 DEF ReviseCompleted
    <3>2. /\ Revise(run[p], "direct_run_completed")
          /\ moves' = Finalized(run[p], moves, "succeeded")
          /\ Finalizable(run[p], moves)
      BY <1>3, <2>1, <3>1 DEF ReviseCompleted
    <3>3. QED
      BY <3>1, <3>2 DEF HandoffsStep, EndsClaim, SuccessReasons
  <2>2. CASE ~(Unrevised(p) /\ Finalizable(run[p], loaded[p].moves))
    BY <1>3, <2>2 DEF ReviseCompleted, HandoffsStep
  <2>3. QED
    BY <2>1, <2>2
<1>4. CASE ReviseFailed(p)
  <2>1. CASE Unrevised(p) /\ Finalizable(run[p], loaded[p].moves)
    <3>1. run[p] \in Runs /\ loaded[p].moves = moves
      BY <1>2, <1>4, <2>1 DEF ReviseFailed
    <3>2. /\ Revise(run[p], "direct_run_failed")
          /\ moves' = Finalized(run[p], moves, "failed")
          /\ Finalizable(run[p], moves)
      BY <1>4, <2>1, <3>1 DEF ReviseFailed
    <3>3. QED
      BY <3>1, <3>2 DEF HandoffsStep, EndsClaim, FailureReasons
  <2>2. CASE ~(Unrevised(p) /\ Finalizable(run[p], loaded[p].moves))
    BY <1>4, <2>2 DEF ReviseFailed, HandoffsStep
  <2>3. QED
    BY <2>1, <2>2
<1>5. QED
  BY <1>1, <1>3, <1>4 DEF RunStep

(* The run and the snapshot a coordinator has. *)
LEMMA CallType ==
  ASSUME HandoffTypeOK, NEW c \in Coordinators
  PROVE  /\ call[c] # Idle <=> call[c].at \in {"load", "sync"}
         /\ call[c].at = "load" => call[c] \in Loading
         /\ call[c].at = "sync" => call[c] \in Revising
         /\ call[c] # Idle =>
              /\ call[c].run \in GraphRuns /\ call[c].run \in Runs
              /\ Snapshot(c) \in {"open"} \union Ended
              /\ call[c].reconciles \in BOOLEAN
<1>1. call[c] \in {Idle} \union Loading \union Revising
  BY DEF HandoffTypeOK
<1>2. Idle.at = "off"
  BY DEF Idle
<1>3. call[c] \in Loading => call[c].at = "load"
  BY DEF Loading
<1>4. call[c] \in Revising => call[c].at = "sync"
  BY DEF Revising
<1>5. call[c] \in Loading \union Revising =>
        /\ call[c].run \in GraphRuns /\ call[c].run \in Runs
        /\ Snapshot(c) \in {"open"} \union Ended
        /\ call[c].reconciles \in BOOLEAN
  BY DEF Loading, Revising, Snapshot
<1>6. QED
  BY <1>1, <1>2, <1>3, <1>4, <1>5

(* What synchronize does to the handoffs. *)
LEMMA SynchronizeHandoffsStep ==
  ASSUME HandoffTypeOK, LoadedIsCurrent, CallsAgree, NEW c \in Coordinators, Synchronize(c)
  PROVE  HandoffsStep
<1> DEFINE r == call[c].run
<1>1. call[c].at = "sync" /\ call[c].moves = moves /\ Agrees(c)
  BY DEF Synchronize, LoadedIsCurrent
<1>2. /\ r \in Runs /\ Snapshot(c) \in {"open"} \union Ended
      /\ call[c].reconciles => Snapshot(c) = "succeeded"
  BY <1>1, CallType DEF CallsAgree
<1>3. moves' = IF Snapshot(c) \in Ended THEN Finalized(r, moves, Snapshot(c)) ELSE moves
  BY <1>1 DEF Synchronize, HandoffsAfter
<1>4. Snapshot(c) \in Ended => Finalizable(r, moves)
  BY <1>1 DEF Agrees
<1>5. Revise(r, IF call[c].reconciles THEN "handoff_reconciled" ELSE CheckpointReason(Snapshot(c)))
  BY DEF Synchronize
<1> HIDE DEF r
<1>6. CASE Snapshot(c) = "open"
  <2>1. Revise(r, "checkpoint_open") /\ moves' = moves
    BY <1>2, <1>3, <1>5, <1>6 DEF Ended, CheckpointReason
  <2>2. QED
    BY <1>2, <2>1 DEF HandoffsStep
<1>7. CASE Snapshot(c) = "failed"
  <2>1. Revise(r, "checkpoint_failed") /\ EndsClaim(r, "failed")
    BY <1>2, <1>3, <1>4, <1>5, <1>7 DEF Ended, CheckpointReason, EndsClaim
  <2>2. QED
    BY <1>2, <2>1 DEF HandoffsStep, FailureReasons
<1>8. CASE Snapshot(c) = "succeeded"
  <2>1. /\ \E reason \in SuccessReasons : Revise(r, reason)
        /\ EndsClaim(r, "succeeded")
    BY <1>2, <1>3, <1>4, <1>5, <1>8 DEF Ended, CheckpointReason, EndsClaim, SuccessReasons
  <2>2. QED
    BY <1>2, <2>1 DEF HandoffsStep
<1>9. QED
  BY <1>2, <1>6, <1>7, <1>8 DEF Ended

(* Every step is one of these. *)
LEMMA EveryHandoffsStep ==
  ASSUME HandoffTypeOK, LoadedIsCurrent, CallsAgree, [HandoffNext]_<<vars, graphVars>>
  PROVE  HandoffsStep
<1>1. ASSUME NEW h \in Handoffs, NEW r \in Runs, r \in GraphRuns => status[r] = "none",
             ClaimHandoff(h, r)
      PROVE  HandoffsStep
  <2>1. Revise(r, "handoff_claimed") /\ TakesClaim(r)
    BY <1>1 DEF ClaimHandoff, TakesClaim
  <2>2. QED
    BY <2>1 DEF HandoffsStep
<1>2. ASSUME NEW h \in Handoffs, RecoverHandoff(h) PROVE HandoffsStep
  <2>1. moves[h].run \in Runs /\ EndsClaim(moves[h].run, "failed")
    BY <1>2, RecoverEndsClaim DEF HandoffTypeOK
  <2>2. Revise(moves[h].run, "handoff_recovered")
    BY <1>2 DEF RecoverHandoff
  <2>3. QED
    BY <2>1, <2>2 DEF HandoffsStep, FailureReasons
<1>3. ASSUME NEW p \in Procs, NEW r \in Runs, Run(p, r) PROVE HandoffsStep
  BY <1>3 DEF Run, HandoffsStep
<1>4. ASSUME NEW p \in Procs, RunStep(p) \/ Crash(p) PROVE HandoffsStep
  BY <1>4, DirectHandoffsStep DEF HandoffTypeOK
<1>5. ASSUME NEW c \in Coordinators,
             \/ \E r \in GraphRuns : RunGraph(c, r) \/ ReconcileGraph(c, r)
             \/ LoadWorkingSet(c) \/ LoadUpToDate(c) \/ SynchronizeAgain(c) \/ GiveUp(c)
      PROVE  HandoffsStep
  BY <1>5 DEF RunGraph, ReconcileGraph, LoadWorkingSet, LoadUpToDate, SynchronizeAgain, GiveUp,
              HandoffsStep
<1>6. ASSUME NEW c \in Coordinators, Synchronize(c) PROVE HandoffsStep
  BY <1>6, SynchronizeHandoffsStep
<1>7. ASSUME NEW r \in GraphRuns, Progress(r) PROVE HandoffsStep
  BY <1>7 DEF Progress, HandoffsStep
<1>8. CASE UNCHANGED <<vars, graphVars>>
  BY <1>8 DEF vars, HandoffsStep
<1>9. QED
  BY <1>1, <1>2, <1>3, <1>4, <1>5, <1>6, <1>7, <1>8 DEF HandoffNext, DirectNext, CoordinatorStep

(* The log grows, the handoffs stay handoffs. *)
LEMMA LogGrows ==
  ASSUME TypeOK, Version <= MaxVersion, HandoffsStep
  PROVE  /\ log' \in Seq(Revision) /\ log' # <<>>
         /\ moves' \in [Handoffs -> Move]
         /\ Version \in Nat \ {0} /\ Version' \in Nat \ {0}
         /\ Version' \in {Version, Version + 1} /\ Version' <= MaxVersion
         /\ Version' = Version => moves' = moves
         /\ \A i \in 1 .. Version : log'[i] = log[i]
<1>1. log \in Seq(Revision) /\ log # <<>> /\ moves \in [Handoffs -> Move]
  BY DEF TypeOK
<1>2. Version \in Nat \ {0}
  BY <1>1 DEF Version
<1>3. CASE log' = log /\ moves' = moves
  BY <1>1, <1>2, <1>3 DEF Version
<1>4. ASSUME NEW r \in Runs, NEW reason \in Reason, Revise(r, reason)
      PROVE  /\ log' \in Seq(Revision) /\ log' # <<>>
             /\ Version' \in Nat \ {0} /\ Version' = Version + 1 /\ Version' <= MaxVersion
             /\ \A i \in 1 .. Version : log'[i] = log[i]
  <2>1. /\ log' \in Seq(Revision) /\ log' # <<>>
        /\ Version < MaxVersion /\ Version' = Version + 1
        /\ \A i \in 1 .. Version : log'[i] = log[i]
    BY <1>4, ReviseLog
  <2>2. QED
    BY <1>2, <2>1
<1>5. /\ {"handoff_claimed", "checkpoint_open"} \subseteq Reason
      /\ FailureReasons \subseteq Reason /\ SuccessReasons \subseteq Reason
  BY DEF Reason, FailureReasons, SuccessReasons
<1>6. ASSUME NEW r \in Runs, TakesClaim(r) PROVE moves' \in [Handoffs -> Move]
  BY <1>1, <1>6 DEF TakesClaim, Move
<1>7. ASSUME NEW r \in Runs, NEW outcome, EndsClaim(r, outcome) PROVE moves' \in [Handoffs -> Move]
  BY <1>1, <1>7, FinalizedType DEF EndsClaim
<1>8. QED
  BY <1>1, <1>2, <1>3, <1>4, <1>5, <1>6, <1>7 DEF HandoffsStep

-----------------------------------------------------------------------------
(* Direct runs: the process that steps, and the others *)

(* What holds of the variables of the direct runs while a process is in a call. *)
ProcTyped(p) ==
  IF pc[p] = "off"
  THEN run[p] = NULL /\ loaded[p] = NULL
  ELSE run[p] \in Runs /\ loaded[p] \in AnyLoaded /\ loaded[p].version <= Version

DirectTyped ==
  /\ summary \in [Runs -> Outcome \union {NULL}]
  /\ pc \in [Procs -> Step]
  /\ run \in [Procs -> Runs \union {NULL}]
  /\ DOMAIN loaded = Procs
  /\ faults \in 0 .. MaxFaults
  /\ \A p \in Procs : ProcTyped(p)

LEMMA DirectTypedHolds ==
  ASSUME TypeOK, LoadedTyped
  PROVE  DirectTyped
BY DEF TypeOK, LoadedTyped, DirectTyped, ProcTyped

ProcAlone(p) ==
  \A q \in Procs : q # p => pc'[q] = pc[q] /\ run'[q] = run[q] /\ loaded'[q] = loaded[q]

(* A process that steps goes on with its run, or leaves its call. *)
ProcGoesOn(p) ==
  \/ /\ pc[p] # "off" /\ pc'[p] \in Step \ {"off"}
     /\ run'[p] = run[p] /\ loaded'[p] = loaded[p]
  \/ pc'[p] = "off" /\ run'[p] = NULL /\ loaded'[p] = NULL

LEMMA RunStepShape ==
  ASSUME DirectTyped, NEW p \in Procs, RunStep(p) \/ Crash(p)
  PROVE  /\ ProcAlone(p) /\ ProcGoesOn(p)
         /\ pc' \in [Procs -> Step]
         /\ run' \in [Procs -> Runs \union {NULL}]
         /\ DOMAIN loaded' = Procs
         /\ summary' \in [Runs -> Outcome \union {NULL}]
         /\ faults' \in 0 .. MaxFaults
<1> USE DEF DirectTyped, ProcAlone, ProcGoesOn, Goto, Leave, Step, Outcome
<1>1. CASE CheckSummary(p)
  BY <1>1 DEF CheckSummary
<1>2. CASE LookAtContext(p)
  <2>1. \/ Goto(p, "write") /\ UNCHANGED <<run, loaded>>
        \/ Goto(p, "execute") /\ UNCHANGED <<run, loaded>>
        \/ Leave(p)
    BY <1>2 DEF LookAtContext
  <2>2. pc[p] = "look" /\ UNCHANGED <<summary, faults>>
    BY <1>2 DEF LookAtContext
  <2>3. QED
    BY <2>1, <2>2
<1>3. CASE WriteContext(p)
  BY <1>3 DEF WriteContext
<1>4. CASE Execute(p)
  BY <1>4 DEF Execute
<1>5. CASE ReviseCompleted(p)
  <2>1. Goto(p, "summary") \/ Goto(p, "release")
    BY <1>5 DEF ReviseCompleted
  <2>2. pc[p] = "revise" /\ UNCHANGED <<summary, run, loaded, faults>>
    BY <1>5 DEF ReviseCompleted
  <2>3. QED
    BY <2>1, <2>2
<1>6. CASE WriteSummary(p)
  <2>1. run[p] \in Runs
    BY <1>6 DEF WriteSummary, ProcTyped
  <2>2. QED
    BY <1>6, <2>1 DEF WriteSummary
<1>7. CASE ReviseFailed(p)
  BY <1>7 DEF ReviseFailed
<1>8. CASE WriteFailure(p)
  BY <1>8 DEF WriteFailure
<1>9. CASE WriteError(p)
  <2>1. faults' \in 0 .. MaxFaults /\ summary' = summary
    BY <1>9 DEF WriteError
  <2>2. \/ Leave(p)
        \/ pc[p] # "off" /\ Goto(p, "release") /\ UNCHANGED <<run, loaded>>
        \/ pc[p] # "off" /\ Goto(p, "report") /\ UNCHANGED <<run, loaded>>
    BY <1>9 DEF WriteError
  <2>3. QED
    BY <2>1, <2>2
<1>10. CASE Crash(p)
  BY <1>10 DEF Crash
<1>11. QED
  BY <1>1, <1>2, <1>3, <1>4, <1>5, <1>6, <1>7, <1>8, <1>9, <1>10 DEF RunStep

(* The step that takes a process to where it is, and what it has seen. *)
LEMMA ProcCameFrom ==
  ASSUME DirectTyped, NEW p \in Procs, RunStep(p) \/ Crash(p)
  PROVE  /\ context' = context \/ WriteContext(p)
         /\ pc'[p] = "write" => context' = context /\ context[run[p]] = 0
         /\ pc'[p] = "execute" =>
              \/ WriteContext(p)
              \/ context' = context /\ pc[p] = "look" /\ context[run[p]] = loaded[p].version
         /\ pc'[p] \in Executing \ {"execute"} => pc[p] \in Executing /\ context' = context
         /\ pc'[p] = "summary" => ReviseCompleted(p) /\ Revise(run[p], "direct_run_completed")
<1> USE DEF DirectTyped, Goto, Leave, Executing
<1>1. CASE CheckSummary(p)
  BY <1>1 DEF CheckSummary
<1>2. CASE LookAtContext(p)
  <2>1. \/ context[run[p]] = 0 /\ Goto(p, "write")
        \/ context[run[p]] = loaded[p].version /\ Goto(p, "execute")
        \/ Leave(p)
    BY <1>2 DEF LookAtContext
  <2>2. pc[p] = "look" /\ context' = context
    BY <1>2 DEF LookAtContext
  <2>3. QED
    BY <2>1, <2>2
<1>3. CASE WriteContext(p)
  <2>1. pc'[p] = "execute"
    BY <1>3 DEF WriteContext
  <2>2. QED
    BY <1>3, <2>1
<1>4. CASE Execute(p)
  BY <1>4 DEF Execute
<1>5. CASE ReviseCompleted(p)
  <2>1. \/ Goto(p, "summary") /\ Revise(run[p], "direct_run_completed")
        \/ Goto(p, "release")
    BY <1>5 DEF ReviseCompleted
  <2>2. pc[p] = "revise" /\ context' = context
    BY <1>5 DEF ReviseCompleted
  <2>3. CASE Goto(p, "summary") /\ Revise(run[p], "direct_run_completed")
    <3>1. pc'[p] = "summary"
      BY <2>3
    <3>2. QED
      BY <1>5, <2>2, <2>3, <3>1
  <2>4. CASE Goto(p, "release")
    <3>1. pc'[p] = "release"
      BY <2>4
    <3>2. QED
      BY <2>2, <3>1
  <2>5. QED
    BY <2>1, <2>3, <2>4
<1>6. CASE WriteSummary(p)
  BY <1>6 DEF WriteSummary
<1>7. CASE ReviseFailed(p)
  BY <1>7 DEF ReviseFailed
<1>8. CASE WriteFailure(p)
  BY <1>8 DEF WriteFailure
<1>9. CASE WriteError(p)
  <2>1. context' = context
    BY <1>9 DEF WriteError
  <2>2. \/ Leave(p)
        \/ pc[p] \in Executing /\ Goto(p, "release")
        \/ pc[p] \in Executing /\ Goto(p, "report")
    BY <1>9 DEF WriteError
  <2>3. QED
    BY <2>1, <2>2
<1>10. CASE Crash(p)
  BY <1>10 DEF Crash
<1>11. QED
  BY <1>1, <1>2, <1>3, <1>4, <1>5, <1>6, <1>7, <1>8, <1>9, <1>10 DEF RunStep

(* Only the processes of direct runs change what direct runs work with. *)
LEMMA DirectOrElsewhere ==
  ASSUME [HandoffNext]_<<vars, graphVars>>
  PROVE  \/ UNCHANGED directVars
         \/ \E p \in Procs, r \in Runs : Run(p, r)
         \/ \E p \in Procs : RunStep(p) \/ Crash(p)
<1>1. ASSUME NEW h \in Handoffs, NEW r \in Runs, ClaimHandoff(h, r)
      PROVE  UNCHANGED directVars
  BY <1>1 DEF ClaimHandoff, directVars
<1>2. ASSUME NEW h \in Handoffs, RecoverHandoff(h)
      PROVE  UNCHANGED directVars
  BY <1>2 DEF RecoverHandoff, directVars
<1>3. ASSUME NEW c \in Coordinators, CoordinatorStep(c)
      PROVE  UNCHANGED directVars
  BY <1>3 DEF CoordinatorStep, RunGraph, ReconcileGraph, LoadWorkingSet, LoadUpToDate,
              Synchronize, SynchronizeAgain, GiveUp
<1>4. ASSUME NEW r \in GraphRuns, Progress(r)
      PROVE  UNCHANGED directVars
  BY <1>4 DEF Progress
<1>5. CASE UNCHANGED <<vars, graphVars>>
  BY <1>5 DEF vars, directVars
<1>6. QED
  BY <1>1, <1>2, <1>3, <1>4, <1>5 DEF HandoffNext, DirectNext

(* Every step keeps the variables of the direct runs in their domains. *)
LEMMA DirectTypeInductive ==
  ASSUME TypeOK, LoadedTyped, HandoffsStep, [HandoffNext]_<<vars, graphVars>>
  PROVE  TypeOK' /\ LoadedTyped'
<1> DEFINE typed ==
      /\ context' \in [Runs -> 0 .. Version]
      /\ summary' \in [Runs -> Outcome \union {NULL}]
      /\ pc' \in [Procs -> Step]
      /\ run' \in [Procs -> Runs \union {NULL}]
      /\ DOMAIN loaded' = Procs
      /\ faults' \in 0 .. MaxFaults
      /\ \A p \in Procs :
           IF pc'[p] = "off"
           THEN run'[p] = NULL /\ loaded'[p] = NULL
           ELSE run'[p] \in Runs /\ loaded'[p] \in AnyLoaded /\ loaded'[p].version <= Version
<1>1. DirectTyped /\ Version <= MaxVersion
  BY DirectTypedHolds DEF LoadedTyped
<1>2. /\ log' \in Seq(Revision) /\ log' # <<>>
      /\ moves' \in [Handoffs -> Move]
      /\ Version \in Nat \ {0} /\ Version' \in Nat \ {0}
      /\ Version' \in {Version, Version + 1} /\ Version' <= MaxVersion
  BY <1>1, LogGrows
<1>3. context \in [Runs -> 0 .. Version] /\ moves \in [Handoffs -> Move]
  BY DEF TypeOK
<1>4. typed
  <2>1. CASE UNCHANGED directVars
    BY <1>1, <1>3, <2>1 DEF directVars, DirectTyped, ProcTyped
  <2>2. ASSUME NEW p \in Procs, NEW r \in Runs, Run(p, r)
        PROVE  typed
    <3>1. [version |-> Version, moves |-> moves] \in AnyLoaded
      BY <1>2, <1>3 DEF AnyLoaded
    <3>2. /\ pc' = [pc EXCEPT ![p] = "check"] /\ run' = [run EXCEPT ![p] = r]
          /\ loaded' = [loaded EXCEPT ![p] = [version |-> Version, moves |-> moves]]
          /\ UNCHANGED <<context, summary, faults>>
      BY <2>2 DEF Run, Goto
    <3>3. loaded'[p].version = Version /\ loaded'[p] \in AnyLoaded
      BY <1>1, <3>1, <3>2 DEF DirectTyped
    <3>4. QED
      BY <1>1, <1>2, <1>3, <3>2, <3>3 DEF DirectTyped, ProcTyped, Step
  <2>3. ASSUME NEW p \in Procs, RunStep(p) \/ Crash(p)
        PROVE  typed
    <3>1. context' \in [Runs -> 0 .. Version]
      <4>1. WriteContext(p) => loaded[p].version \in 0 .. Version
        BY <1>1, <1>2 DEF WriteContext, DirectTyped, ProcTyped, AnyLoaded
      <4>2. WriteContext(p) => context' \in [Runs -> 0 .. Version]
        BY <1>3, <4>1 DEF WriteContext
      <4>3. QED
        BY <1>1, <1>3, <2>3, <4>2, ProcCameFrom
    <3>2. /\ ProcAlone(p) /\ ProcGoesOn(p)
          /\ pc' \in [Procs -> Step]
          /\ run' \in [Procs -> Runs \union {NULL}]
          /\ DOMAIN loaded' = Procs
          /\ summary' \in [Runs -> Outcome \union {NULL}]
          /\ faults' \in 0 .. MaxFaults
      BY <1>1, <2>3, RunStepShape
    <3>3. QED
      BY <1>1, <3>1, <3>2 DEF ProcAlone, ProcGoesOn, DirectTyped, ProcTyped
  <2>4. QED
    BY <2>1, <2>2, <2>3, DirectOrElsewhere
<1>5. context' \in [Runs -> 0 .. Version']
  BY <1>2, <1>4
<1>6. \A p \in Procs : loaded'[p] \in AnyLoaded => loaded'[p].version \in Nat \ {0}
  BY DEF AnyLoaded
<1>7. QED
  BY <1>2, <1>4, <1>5, <1>6 DEF TypeOK, LoadedTyped

-----------------------------------------------------------------------------
(* Task graphs *)

(* The outcome of a graph is final. *)
LEMMA StatusStays ==
  ASSUME status \in [GraphRuns -> GraphStatus], [HandoffNext]_<<vars, graphVars>>
  PROVE  /\ status' \in [GraphRuns -> GraphStatus]
         /\ \A r \in GraphRuns :
              /\ status[r] \in Ended => status'[r] = status[r]
              /\ status[r] # "none" => status'[r] # "none"
<1> USE DEF GraphStatus, Ended
<1>1. ASSUME NEW c \in Coordinators, NEW r \in GraphRuns, RunGraph(c, r)
      PROVE  \E st \in Later(status[r]) : status' = [status EXCEPT ![r] = st]
  BY <1>1 DEF RunGraph
<1>2. ASSUME NEW r \in GraphRuns, Progress(r)
      PROVE  status[r] = "open" /\ \E st \in Ended : status' = [status EXCEPT ![r] = st]
  BY <1>2 DEF Progress
<1>3. ASSUME NEW c \in Coordinators,
             \/ \E r \in GraphRuns : ReconcileGraph(c, r)
             \/ LoadWorkingSet(c) \/ LoadUpToDate(c) \/ Synchronize(c) \/ SynchronizeAgain(c)
             \/ GiveUp(c)
      PROVE  status' = status
  BY <1>3 DEF ReconcileGraph, LoadWorkingSet, LoadUpToDate, Synchronize, SynchronizeAgain, GiveUp
<1>4. CASE UNCHANGED graphVars
  BY <1>4 DEF graphVars
<1>5. \A r \in GraphRuns : \A st \in Later(status[r]) :
        /\ st \in GraphStatus \ {"none"}
        /\ status[r] \in Ended => st = status[r]
  BY DEF Later
<1>6. QED
  BY <1>1, <1>2, <1>3, <1>4, <1>5 DEF HandoffNext, CoordinatorStep

(* A coordinator that is in a call after its step has entered it, or goes on  *)
(* with the run and the snapshot it had.                                      *)
LEMMA CallShape ==
  ASSUME HandoffTypeOK, NEW c \in Coordinators, CoordinatorStep(c)
  PROVE  /\ \A d \in Coordinators : d # c => call'[d] = call[d]
         /\ DOMAIN call' = Coordinators
         /\ \/ call'[c] = Idle
            \/ \E r \in GraphRuns : RunGraph(c, r) \/ ReconcileGraph(c, r)
            \/ /\ LoadWorkingSet(c) /\ call[c] \in Loading
               /\ call'[c] = [at |-> "sync", run |-> call[c].run, snapshot |-> call[c].snapshot,
                               reconciles |-> call[c].reconciles, version |-> Version,
                               moves |-> moves]
            \/ /\ SynchronizeAgain(c) /\ call[c] \in Revising
               /\ call'[c] = [at |-> "load", run |-> call[c].run, snapshot |-> call[c].snapshot,
                               reconciles |-> call[c].reconciles]
<1> USE DEF Enter, Return, Snapshot
<1>1. DOMAIN call = Coordinators
  BY DEF HandoffTypeOK
<1>2. ASSUME NEW r \in GraphRuns, RunGraph(c, r) \/ ReconcileGraph(c, r)
      PROVE  /\ \A d \in Coordinators : d # c => call'[d] = call[d]
             /\ DOMAIN call' = Coordinators
  BY <1>1, <1>2 DEF RunGraph, ReconcileGraph
<1>3. CASE LoadWorkingSet(c)
  <2>1. call[c] \in Loading
    BY <1>3, CallType DEF LoadWorkingSet
  <2>2. call' = [call EXCEPT ![c] = [at |-> "sync", run |-> call[c].run,
                   snapshot |-> call[c].snapshot, reconciles |-> call[c].reconciles,
                   version |-> Version, moves |-> moves]]
    BY <1>3 DEF LoadWorkingSet
  <2>3. QED
    BY <1>1, <1>3, <2>1, <2>2
<1>4. CASE LoadUpToDate(c) \/ Synchronize(c) \/ GiveUp(c)
  <2>1. call' = [call EXCEPT ![c] = Idle]
    BY <1>4 DEF LoadUpToDate, Synchronize, GiveUp
  <2>2. QED
    BY <1>1, <2>1
<1>5. CASE SynchronizeAgain(c)
  <2>1. call[c] \in Revising
    BY <1>5, CallType DEF SynchronizeAgain
  <2>2. call' = [call EXCEPT ![c] = [at |-> "load", run |-> call[c].run,
                   snapshot |-> call[c].snapshot, reconciles |-> call[c].reconciles]]
    BY <1>5 DEF SynchronizeAgain
  <2>3. QED
    BY <1>1, <1>5, <2>1, <2>2
<1>6. QED
  BY <1>2, <1>3, <1>4, <1>5 DEF CoordinatorStep

(* A coordinator that enters a call has the status its graph has then. *)
LEMMA EnterAgrees ==
  ASSUME HandoffTypeOK, NEW c \in Coordinators, NEW r \in GraphRuns,
         RunGraph(c, r) \/ ReconcileGraph(c, r)
  PROVE  /\ call'[c] \in Loading
         /\ call'[c].run = r
         /\ status'[r] # "none"
         /\ call'[c].snapshot \in Ended => status'[r] = call'[c].snapshot
         /\ call'[c].reconciles => call'[c].snapshot = "succeeded"
<1>1. DOMAIN call = Coordinators /\ status \in [GraphRuns -> GraphStatus]
  BY DEF HandoffTypeOK
<1>2. PICK st \in {"open"} \union Ended, reconciles \in BOOLEAN :
        /\ Enter(c, r, st, reconciles)
        /\ status'[r] # "none"
        /\ st \in Ended => status'[r] = st
        /\ reconciles => st = "succeeded"
  <2>1. CASE RunGraph(c, r)
    <3>1. PICK st \in Later(status[r]) :
            /\ status' = [status EXCEPT ![r] = st]
            /\ \E seen \in Seen(st) : Enter(c, r, seen, FALSE)
      BY <2>1 DEF RunGraph
    <3>2. PICK seen \in Seen(st) : Enter(c, r, seen, FALSE)
      BY <3>1
    <3>3. /\ st \in {"open"} \union Ended
          /\ seen \in {"open"} \union Ended
          /\ seen \in Ended => st = seen
      BY <3>1, <3>2 DEF Later, Seen, Ended
    <3>4. status'[r] = st /\ st # "none"
      BY <1>1, <3>1, <3>3 DEF Ended
    <3>5. QED
      BY <3>2, <3>3, <3>4
  <2>2. CASE ReconcileGraph(c, r)
    BY <2>2 DEF ReconcileGraph, Ended
  <2>3. QED
    BY <2>1, <2>2
<1>3. call'[c] = [at |-> "load", run |-> r, snapshot |-> st, reconciles |-> reconciles]
  BY <1>1, <1>2 DEF Enter
<1>4. QED
  BY <1>2, <1>3 DEF Loading, Ended

(* Every step keeps the calls typed and in agreement with their graphs. *)
LEMMA CallsInductive ==
  ASSUME HandoffTypeOK, LoadedTyped, CallsAgree, [HandoffNext]_<<vars, graphVars>>
  PROVE  /\ call' \in [Coordinators -> {Idle} \union Loading \union Revising]
         /\ CallsAgree'
<1> DEFINE agrees(c) ==
      call'[c] # Idle =>
        /\ status'[call'[c].run] # "none"
        /\ call'[c].snapshot \in Ended => status'[call'[c].run] = call'[c].snapshot
        /\ call'[c].reconciles => call'[c].snapshot = "succeeded"
<1>1. call \in [Coordinators -> {Idle} \union Loading \union Revising]
  BY DEF HandoffTypeOK
<1>2. \A r \in GraphRuns :
        /\ status[r] \in Ended => status'[r] = status[r]
        /\ status[r] # "none" => status'[r] # "none"
  BY StatusStays DEF HandoffTypeOK
<1> DEFINE sameCall(c) ==
      call[c] # Idle /\ call'[c].run = call[c].run /\ call'[c].snapshot = call[c].snapshot
        /\ (call'[c].reconciles => call[c].reconciles)
<1>3. ASSUME NEW c \in Coordinators, sameCall(c)
      PROVE  agrees(c)
  <2>1. call[c].run \in GraphRuns
    BY <1>3, CallType
  <2>2. /\ status[call[c].run] # "none"
        /\ call[c].snapshot \in Ended => status[call[c].run] = call[c].snapshot
    BY <1>3 DEF CallsAgree, Snapshot
  <2>3. call[c].reconciles => call[c].snapshot = "succeeded"
    BY <1>3 DEF CallsAgree, Snapshot
  <2>4. /\ status'[call[c].run] # "none"
        /\ call[c].snapshot \in Ended => status'[call[c].run] = call[c].snapshot
    BY <1>2, <2>1, <2>2
  <2>5. QED
    BY <1>3, <2>3, <2>4
<1>4. ASSUME NEW c \in Coordinators, call'[c] = call[c]
      PROVE  agrees(c)
  BY <1>4, <1>3
<1>5. ASSUME NEW c \in Coordinators, CoordinatorStep(c)
      PROVE  call'[c] \in {Idle} \union Loading \union Revising /\ agrees(c)
  <2>1. CASE call'[c] = Idle
    BY <2>1
  <2>2. ASSUME NEW r \in GraphRuns, RunGraph(c, r) \/ ReconcileGraph(c, r)
        PROVE  call'[c] \in Loading /\ agrees(c)
    BY <2>2, EnterAgrees
  <2>3. CASE /\ LoadWorkingSet(c) /\ call[c] \in Loading
             /\ call'[c] = [at |-> "sync", run |-> call[c].run, snapshot |-> call[c].snapshot,
                             reconciles |-> call[c].reconciles, version |-> Version,
                             moves |-> moves]
    <3>1. Version \in 1 .. MaxVersion /\ moves \in [Handoffs -> Move]
      BY DEF HandoffTypeOK, TypeOK, LoadedTyped, Version
    <3>2. call'[c] \in Revising
      BY <2>3, <3>1 DEF Loading, Revising
    <3>3. call[c] # Idle
      BY <2>3 DEF Loading, Idle
    <3>4. agrees(c)
      BY <1>3, <2>3, <3>3
    <3>5. QED
      BY <3>2, <3>4
  <2>4. CASE /\ SynchronizeAgain(c) /\ call[c] \in Revising
             /\ call'[c] = [at |-> "load", run |-> call[c].run, snapshot |-> call[c].snapshot,
                             reconciles |-> call[c].reconciles]
    <3>1. call'[c] \in Loading
      BY <2>4 DEF Loading, Revising
    <3>2. call[c] # Idle
      BY <2>4 DEF Revising, Idle
    <3>3. agrees(c)
      BY <1>3, <2>4, <3>2
    <3>4. QED
      BY <3>1, <3>3
  <2>5. QED
    BY <1>5, <2>1, <2>2, <2>3, <2>4, CallShape
<1>6. CASE UNCHANGED call
  BY <1>1, <1>4, <1>6 DEF CallsAgree, Snapshot
<1>7. ASSUME NEW c \in Coordinators, CoordinatorStep(c)
      PROVE  /\ call' \in [Coordinators -> {Idle} \union Loading \union Revising]
             /\ \A d \in Coordinators : agrees(d)
  <2>1. ASSUME NEW d \in Coordinators
        PROVE  call'[d] \in {Idle} \union Loading \union Revising /\ agrees(d)
    <3> HIDE DEF agrees
    <3>1. CASE d = c
      BY <1>5, <1>7, <3>1
    <3>2. CASE d # c
      <4>1. call'[d] = call[d]
        BY <1>7, <3>2, CallShape
      <4>2. QED
        BY <1>1, <1>4, <4>1
    <3>3. QED
      BY <3>1, <3>2
  <2>2. \E v : call' = [call EXCEPT ![c] = v]
    <3>1. ASSUME NEW r \in GraphRuns, RunGraph(c, r) \/ ReconcileGraph(c, r)
          PROVE  \E v : call' = [call EXCEPT ![c] = v]
      <4>1. CASE RunGraph(c, r)
        <5>1. PICK seen : Enter(c, r, seen, FALSE)
          BY <4>1 DEF RunGraph
        <5>2. QED
          BY <5>1 DEF Enter
      <4>2. CASE ReconcileGraph(c, r)
        BY <4>2 DEF ReconcileGraph, Enter
      <4>3. QED
        BY <3>1, <4>1, <4>2
    <3>2. CASE LoadUpToDate(c) \/ Synchronize(c) \/ GiveUp(c)
      BY <3>2 DEF LoadUpToDate, Synchronize, GiveUp, Return
    <3>3. CASE LoadWorkingSet(c)
      BY <3>3 DEF LoadWorkingSet
    <3>4. CASE SynchronizeAgain(c)
      BY <3>4 DEF SynchronizeAgain, Enter
    <3>5. QED
      BY <1>7, <3>1, <3>2, <3>3, <3>4 DEF CoordinatorStep
  <2>3. call' = [d \in Coordinators |-> call'[d]]
    BY <1>1, <2>2
  <2>4. QED
    BY <2>1, <2>3
<1>8. QED
  BY <1>6, <1>7 DEF HandoffNext, graphVars, Progress, CallsAgree, Snapshot

-----------------------------------------------------------------------------
(* What a process or a coordinator has loaded *)

(* The current version always goes with the current handoffs. *)
LEMMA LoadedInductive ==
  ASSUME HandoffTypeOK, LoadedTyped, LoadedIsCurrent, HandoffsStep,
         [HandoffNext]_<<vars, graphVars>>
  PROVE  LoadedIsCurrent'
<1>1. DirectTyped /\ TypeOK
  BY DirectTypedHolds DEF HandoffTypeOK
<1>2. /\ Version \in Nat /\ Version' \in Nat /\ Version' \in {Version, Version + 1}
      /\ Version' = Version => moves' = moves
  BY <1>1, LogGrows DEF LoadedTyped
<1>3. ASSUME NEW p \in Procs, pc'[p] # "off", loaded'[p].version = Version'
      PROVE  loaded'[p].moves = moves'
  <2>1. ASSUME pc[p] # "off", loaded'[p] = loaded[p]
        PROVE  loaded'[p].moves = moves'
    <3>1. loaded[p].version \in Nat /\ loaded[p].version <= Version
      BY <1>1, <2>1 DEF DirectTyped, ProcTyped, AnyLoaded
    <3>2. Version' = Version
      BY <1>2, <1>3, <2>1, <3>1
    <3>3. QED
      BY <1>2, <1>3, <2>1, <3>2 DEF LoadedIsCurrent
  <2>2. CASE UNCHANGED directVars
    BY <1>3, <2>1, <2>2 DEF directVars
  <2>3. ASSUME NEW q \in Procs, NEW r \in Runs, Run(q, r)
        PROVE  loaded'[p].moves = moves'
    <3>1. /\ pc' = [pc EXCEPT ![q] = "check"]
          /\ loaded' = [loaded EXCEPT ![q] = [version |-> Version, moves |-> moves]]
          /\ moves' = moves
      BY <2>3 DEF Run, Goto
    <3>2. CASE p = q
      BY <1>1, <3>1, <3>2 DEF DirectTyped
    <3>3. CASE p # q
      BY <1>1, <1>3, <2>1, <3>1, <3>3 DEF DirectTyped
    <3>4. QED
      BY <3>2, <3>3
  <2>4. ASSUME NEW q \in Procs, RunStep(q) \/ Crash(q)
        PROVE  loaded'[p].moves = moves'
    <3>1. ProcAlone(q) /\ ProcGoesOn(q)
      BY <1>1, <2>4, RunStepShape
    <3>2. QED
      BY <1>3, <2>1, <3>1 DEF ProcAlone, ProcGoesOn
  <2>5. QED
    BY <2>2, <2>3, <2>4, DirectOrElsewhere
<1>4. ASSUME NEW c \in Coordinators, call'[c].at = "sync"
      PROVE  /\ call'[c].version <= Version'
             /\ call'[c].version = Version' => call'[c].moves = moves'
  <2>1. ASSUME call'[c] = call[c]
        PROVE  /\ call'[c].version <= Version'
               /\ call'[c].version = Version' => call'[c].moves = moves'
    <3>1. call[c] \in Revising
      BY <1>4, <2>1, CallType
    <3>2. call[c].version \in Nat
      BY <3>1 DEF Revising
    <3>3. /\ call[c].version <= Version
          /\ call[c].version = Version => call[c].moves = moves
      BY <1>4, <2>1 DEF LoadedIsCurrent
    <3>4. QED
      BY <1>2, <2>1, <3>2, <3>3
  <2>2. ASSUME NEW d \in Coordinators, CoordinatorStep(d)
        PROVE  /\ call'[c].version <= Version'
               /\ call'[c].version = Version' => call'[c].moves = moves'
    <3>1. CASE c # d
      BY <2>1, <2>2, <3>1, CallShape
    <3>2. CASE c = d
      <4>1. ASSUME NEW r \in GraphRuns, RunGraph(c, r) \/ ReconcileGraph(c, r)
            PROVE  FALSE
        BY <1>4, <4>1, EnterAgrees DEF Loading
      <4>2. call'[c] # Idle
        BY <1>4 DEF Idle
      <4>3. ASSUME call'[c] = [at |-> "load", run |-> call[c].run, snapshot |-> call[c].snapshot,
                               reconciles |-> call[c].reconciles]
            PROVE  FALSE
        BY <1>4, <4>3
      <4>4. /\ LoadWorkingSet(c)
            /\ call'[c] = [at |-> "sync", run |-> call[c].run, snapshot |-> call[c].snapshot,
                            reconciles |-> call[c].reconciles, version |-> Version,
                            moves |-> moves]
        BY <2>2, <3>2, <4>1, <4>2, <4>3, CallShape
      <4>5. log' = log /\ moves' = moves
        BY <4>4 DEF LoadWorkingSet
      <4>6. call'[c].version = Version /\ call'[c].moves = moves /\ Version' = Version
        BY <4>4, <4>5 DEF Version
      <4>7. QED
        BY <1>2, <4>5, <4>6
    <3>3. QED
      BY <3>1, <3>2
  <2>3. CASE call' = call
    BY <2>1, <2>3
  <2>4. QED
    BY <2>2, <2>3 DEF HandoffNext, graphVars, Progress
<1>5. QED
  BY <1>3, <1>4 DEF LoadedIsCurrent

-----------------------------------------------------------------------------
(* A run revises the Working Set once *)

(* A process executes under the context file of its run, and no file is       *)
(* taken away.                                                                *)
LEMMA ContextInductive ==
  ASSUME TypeOK, LoadedTyped, ContextFirst, [HandoffNext]_<<vars, graphVars>>
  PROVE  /\ ContextFirst'
         /\ \A r \in Runs : context[r] # 0 => context'[r] # 0
<1>1. DirectTyped /\ context \in [Runs -> 0 .. Version]
  BY DirectTypedHolds DEF TypeOK
<1>2. CASE UNCHANGED directVars
  BY <1>2 DEF directVars, ContextFirst
<1>3. ASSUME NEW p \in Procs, NEW r \in Runs, Run(p, r)
      PROVE  ContextFirst' /\ context' = context
  <2>1. /\ pc' = [pc EXCEPT ![p] = "check"] /\ run' = [run EXCEPT ![p] = r]
        /\ context' = context
    BY <1>3 DEF Run, Goto
  <2>2. QED
    BY <1>1, <2>1 DEF ContextFirst, DirectTyped, Executing
<1>4. ASSUME NEW p \in Procs, RunStep(p) \/ Crash(p)
      PROVE  /\ ContextFirst'
             /\ \A r \in Runs : context[r] # 0 => context'[r] # 0
  <2>1. ASSUME WriteContext(p)
        PROVE  /\ run[p] \in Runs /\ run' = run
               /\ context' = [context EXCEPT ![run[p]] = loaded[p].version]
               /\ loaded[p].version # 0
    BY <1>1, <2>1 DEF WriteContext, DirectTyped, ProcTyped, AnyLoaded
  <2>2. \A r \in Runs : context[r] # 0 => context'[r] # 0
    BY <1>1, <1>4, <2>1, ProcCameFrom
  <2>3. ProcAlone(p) /\ ProcGoesOn(p)
    BY <1>1, <1>4, RunStepShape
  <2>4. ASSUME pc'[p] \in Executing
        PROVE  context'[run'[p]] # 0
    <3>1. run'[p] = run[p] /\ pc[p] # "off" /\ run[p] \in Runs
      BY <1>1, <2>3, <2>4 DEF ProcGoesOn, Executing, DirectTyped, ProcTyped
    <3>2. CASE WriteContext(p)
      BY <1>1, <2>1, <3>1, <3>2
    <3>3. CASE pc'[p] = "execute" /\ ~WriteContext(p)
      <4>1. context' = context /\ context[run[p]] = loaded[p].version
        BY <1>1, <1>4, <3>3, ProcCameFrom
      <4>2. loaded[p].version # 0
        BY <1>1, <3>1 DEF DirectTyped, ProcTyped, AnyLoaded
      <4>3. QED
        BY <3>1, <4>1, <4>2
    <3>4. CASE pc'[p] # "execute"
      <4>1. pc[p] \in Executing /\ context' = context
        BY <1>1, <1>4, <2>4, <3>4, ProcCameFrom
      <4>2. QED
        BY <3>1, <4>1 DEF ContextFirst
    <3>5. QED
      BY <3>2, <3>3, <3>4
  <2>5. ASSUME NEW q \in Procs, q # p, pc'[q] \in Executing
        PROVE  context'[run'[q]] # 0
    <3>1. pc[q] \in Executing /\ run'[q] = run[q] /\ run[q] \in Runs
      BY <1>1, <2>3, <2>5 DEF ProcAlone, Executing, DirectTyped, ProcTyped
    <3>2. QED
      BY <2>2, <3>1 DEF ContextFirst
  <2>6. QED
    BY <2>2, <2>4, <2>5 DEF ContextFirst
<1>5. QED
  BY <1>2, <1>3, <1>4, DirectOrElsewhere DEF directVars

(* The revisions that say what has become of a run, and who makes them.       *)
ProcRevises(p) ==
  /\ pc[p] \in {"revise", "release"} /\ run[p] \in Runs /\ Unrevised(p)
  /\ Revise(run[p], "direct_run_completed") \/ Revise(run[p], "direct_run_failed")
  /\ UNCHANGED <<context, run, loaded>>
  /\ ProcAlone(p)

GraphRevises(c) ==
  /\ call[c].run \in GraphRuns
  /\ \/ status[call[c].run] = "failed" /\ Revise(call[c].run, "checkpoint_failed")
     \/ /\ status[call[c].run] = "succeeded"
        /\ \/ Revise(call[c].run, "checkpoint_succeeded")
           \/ Revise(call[c].run, "handoff_reconciled")

NeutralReasons == {"handoff_claimed", "handoff_recovered", "checkpoint_open"}

LogStep ==
  \/ log' = log
  \/ \E r \in Runs, reason \in NeutralReasons : Revise(r, reason)
  \/ \E p \in Procs : ProcRevises(p)
  \/ \E c \in Coordinators : GraphRevises(c)

LEMMA EveryLogStep ==
  ASSUME HandoffTypeOK, LoadedTyped, CallsAgree, [HandoffNext]_<<vars, graphVars>>
  PROVE  LogStep
<1>1. ASSUME NEW h \in Handoffs, NEW r \in Runs, ClaimHandoff(h, r)
      PROVE  LogStep
  BY <1>1 DEF ClaimHandoff, LogStep, NeutralReasons
<1>2. ASSUME NEW h \in Handoffs, RecoverHandoff(h)
      PROVE  LogStep
  <2>1. moves[h].run \in Runs
    BY <1>2, RecoverEndsClaim DEF HandoffTypeOK
  <2>2. QED
    BY <1>2, <2>1 DEF RecoverHandoff, LogStep, NeutralReasons
<1>3. ASSUME NEW p \in Procs, NEW r \in Runs, Run(p, r)
      PROVE  LogStep
  BY <1>3 DEF Run, LogStep
<1>4. ASSUME NEW p \in Procs, RunStep(p) \/ Crash(p)
      PROVE  LogStep
  <2>1. DirectTyped
    BY DirectTypedHolds DEF HandoffTypeOK
  <2>2. ProcAlone(p)
    BY <1>4, <2>1, RunStepShape
  <2>3. CASE log' = log
    BY <2>3 DEF LogStep
  <2>4. ASSUME log' # log
        PROVE  ProcRevises(p)
    <3>1. \/ ReviseCompleted(p) /\ Unrevised(p) /\ Revise(run[p], "direct_run_completed")
          \/ ReviseFailed(p) /\ Unrevised(p) /\ Revise(run[p], "direct_run_failed")
      BY <1>4, <2>4 DEF RunStep, CheckSummary, LookAtContext, WriteContext, Execute,
         ReviseCompleted, WriteSummary, ReviseFailed, WriteFailure, WriteError, Crash
    <3>2. pc[p] \in {"revise", "release"} /\ UNCHANGED <<context, run, loaded>>
      BY <3>1 DEF ReviseCompleted, ReviseFailed
    <3>3. run[p] \in Runs
      BY <2>1, <3>2 DEF DirectTyped, ProcTyped
    <3>4. QED
      BY <2>2, <3>1, <3>2, <3>3 DEF ProcRevises
  <2>5. QED
    BY <2>3, <2>4 DEF LogStep
<1>5. ASSUME NEW c \in Coordinators, Synchronize(c)
      PROVE  LogStep
  <2>1. call[c].at = "sync"
    BY <1>5 DEF Synchronize
  <2>2. /\ call[c].run \in GraphRuns /\ call[c].run \in Runs
        /\ Snapshot(c) \in {"open"} \union Ended
        /\ Snapshot(c) \in Ended => status[call[c].run] = Snapshot(c)
        /\ call[c].reconciles => Snapshot(c) = "succeeded"
    BY <2>1, CallType DEF CallsAgree
  <2>3. Revise(call[c].run,
               IF call[c].reconciles THEN "handoff_reconciled" ELSE CheckpointReason(Snapshot(c)))
    BY <1>5 DEF Synchronize
  <2>4. CASE Snapshot(c) = "open"
    <3>1. Revise(call[c].run, "checkpoint_open")
      BY <2>2, <2>3, <2>4 DEF CheckpointReason
    <3>2. QED
      BY <2>2, <3>1 DEF LogStep, NeutralReasons
  <2>5. CASE Snapshot(c) = "failed"
    <3>1. Revise(call[c].run, "checkpoint_failed") /\ status[call[c].run] = "failed"
      BY <2>2, <2>3, <2>5 DEF CheckpointReason, Ended
    <3>2. QED
      BY <2>2, <3>1 DEF LogStep, GraphRevises
  <2>6. CASE Snapshot(c) = "succeeded"
    <3>1. /\ \/ Revise(call[c].run, "checkpoint_succeeded")
             \/ Revise(call[c].run, "handoff_reconciled")
          /\ status[call[c].run] = "succeeded"
      BY <2>2, <2>3, <2>6 DEF CheckpointReason, Ended
    <3>2. QED
      BY <2>2, <3>1 DEF LogStep, GraphRevises
  <2>7. QED
    BY <2>2, <2>4, <2>5, <2>6 DEF Ended
<1>6. ASSUME NEW c \in Coordinators, CoordinatorStep(c), ~Synchronize(c)
      PROVE  LogStep
  BY <1>6 DEF CoordinatorStep, RunGraph, ReconcileGraph, LoadWorkingSet, LoadUpToDate,
              SynchronizeAgain, GiveUp, LogStep
<1>7. ASSUME NEW r \in GraphRuns, Progress(r)
      PROVE  LogStep
  BY <1>7 DEF Progress, LogStep
<1>8. CASE UNCHANGED <<vars, graphVars>>
  BY <1>8 DEF vars, LogStep
<1>9. QED
  BY <1>1, <1>2, <1>3, <1>4, <1>5, <1>6, <1>7, <1>8 DEF HandoffNext, DirectNext

(* A version is an old one, or says what has become of a run because somebody *)
(* who knows it has made it, or says nothing of that.                         *)
LEMMA NewVersion ==
  ASSUME HandoffTypeOK, LoadedTyped, LogStep, NEW i \in 1 .. Version'
  PROVE  \/ i \in 1 .. Version /\ log'[i] = log[i]
         \/ /\ i = Version + 1 /\ log'[i].reason \in NeutralReasons
         \/ /\ i = Version + 1
            /\ \E p \in Procs : ProcRevises(p) /\ log'[i].run = run[p]
            /\ log'[i].reason \in {"direct_run_completed", "direct_run_failed"}
         \/ /\ i = Version + 1
            /\ log'[i].run \in GraphRuns
            /\ \/ status[log'[i].run] = "failed" /\ log'[i].reason = "checkpoint_failed"
               \/ /\ status[log'[i].run] = "succeeded"
                  /\ log'[i].reason \in {"checkpoint_succeeded", "handoff_reconciled"}
<1>1. TypeOK
  BY DEF HandoffTypeOK
<1>2. Version \in Nat
  BY <1>1 DEF TypeOK, Version
<1>3. CASE log' = log
  BY <1>2, <1>3 DEF Version
<1>4. ASSUME NEW r \in Runs, NEW reason \in Reason, Revise(r, reason)
      PROVE  \/ i \in 1 .. Version /\ log'[i] = log[i]
             \/ i = Version + 1 /\ log'[i].run = r /\ log'[i].reason = reason
  <2>1. /\ Version' = Version + 1
        /\ log'[Version + 1] = [run |-> r, reason |-> reason]
        /\ \A j \in 1 .. Version : log'[j] = log[j]
    BY <1>1, <1>4, ReviseLog
  <2>2. QED
    BY <1>2, <2>1
<1>5. {"handoff_claimed", "handoff_recovered", "checkpoint_open", "direct_run_completed",
       "direct_run_failed", "checkpoint_failed", "checkpoint_succeeded",
       "handoff_reconciled"} \subseteq Reason
  BY DEF Reason
<1>6. ASSUME NEW r \in Runs, NEW reason \in NeutralReasons, Revise(r, reason)
      PROVE  \/ i \in 1 .. Version /\ log'[i] = log[i]
             \/ i = Version + 1 /\ log'[i].reason \in NeutralReasons
  BY <1>4, <1>5, <1>6 DEF NeutralReasons
<1>7. ASSUME NEW p \in Procs, ProcRevises(p)
      PROVE  \/ i \in 1 .. Version /\ log'[i] = log[i]
             \/ /\ i = Version + 1 /\ log'[i].run = run[p]
                /\ log'[i].reason \in {"direct_run_completed", "direct_run_failed"}
  <2>1. /\ run[p] \in Runs
        /\ Revise(run[p], "direct_run_completed") \/ Revise(run[p], "direct_run_failed")
    BY <1>7 DEF ProcRevises
  <2>2. QED
    BY <1>4, <1>5, <2>1
<1>8. ASSUME NEW c \in Coordinators, GraphRevises(c)
      PROVE  \/ i \in 1 .. Version /\ log'[i] = log[i]
             \/ /\ i = Version + 1
                /\ log'[i].run \in GraphRuns
                /\ \/ status[log'[i].run] = "failed" /\ log'[i].reason = "checkpoint_failed"
                   \/ /\ status[log'[i].run] = "succeeded"
                      /\ log'[i].reason \in {"checkpoint_succeeded", "handoff_reconciled"}
  <2> DEFINE g == call[c].run
  <2>1. /\ g \in GraphRuns /\ g \in Runs
        /\ \/ status[g] = "failed" /\ Revise(g, "checkpoint_failed")
           \/ /\ status[g] = "succeeded"
              /\ Revise(g, "checkpoint_succeeded") \/ Revise(g, "handoff_reconciled")
    BY <1>8 DEF GraphRevises
  <2> HIDE DEF g
  <2>2. QED
    BY <1>4, <1>5, <2>1
<1>9. QED
  BY <1>3, <1>6, <1>7, <1>8 DEF LogStep

(* A process that is past the context of its run has been so before the step, *)
(* or has seen or written the context it goes on under.                       *)
LEMMA PastContext ==
  ASSUME DirectTyped, [HandoffNext]_<<vars, graphVars>>,
         NEW p \in Procs, NEW r \in Runs, context[r] # 0,
         run'[p] = r, pc'[p] \in Executing \union {"write"}
  PROVE  /\ run[p] = r /\ pc[p] # "off" /\ loaded'[p] = loaded[p]
         /\ \/ pc[p] \in Executing \union {"write"}
            \/ loaded[p].version = context[r]
<1> USE DEF Executing
<1>1. CASE UNCHANGED directVars
  BY <1>1 DEF directVars
<1>2. ASSUME NEW q \in Procs, NEW s \in Runs, Run(q, s)
      PROVE  pc[p] = pc'[p] /\ run'[p] = run[p] /\ loaded'[p] = loaded[p]
  BY <1>2 DEF Run, Goto, DirectTyped
<1>3. ASSUME NEW q \in Procs, RunStep(q) \/ Crash(q)
      PROVE  /\ run[p] = r /\ pc[p] # "off" /\ loaded'[p] = loaded[p]
             /\ \/ pc[p] \in Executing \union {"write"}
                \/ loaded[p].version = context[r]
  <2>1. ProcAlone(q) /\ ProcGoesOn(q)
    BY <1>3, RunStepShape
  <2>2. CASE p # q
    BY <2>1, <2>2 DEF ProcAlone
  <2>3. CASE p = q
    <3>1. run[p] = r /\ pc[p] # "off" /\ loaded'[p] = loaded[p]
      BY <2>1, <2>3 DEF ProcGoesOn
    <3>2. pc'[p] # "write"
      BY <1>3, <2>3, <3>1, ProcCameFrom
    <3>3. pc'[p] = "execute" =>
            \/ pc[p] = "write"
            \/ loaded[p].version = context[r]
      BY <1>3, <2>3, <3>1, ProcCameFrom DEF WriteContext
    <3>4. pc'[p] \in Executing \ {"execute"} => pc[p] \in Executing
      BY <1>3, <2>3, ProcCameFrom
    <3>5. QED
      BY <3>1, <3>2, <3>3, <3>4
  <2>4. QED
    BY <2>2, <2>3
<1>4. QED
  BY <1>1, <1>2, <1>3, DirectOrElsewhere

(* A context file is rewritten by a process that has seen none. *)
LEMMA ContextCameFrom ==
  ASSUME TypeOK, LoadedTyped, [HandoffNext]_<<vars, graphVars>>, NEW r \in Runs
  PROVE  \/ context'[r] = context[r]
         \/ \E p \in Procs :
              pc[p] = "write" /\ run[p] = r /\ context'[r] = loaded[p].version
<1>1. DirectTyped /\ context \in [Runs -> 0 .. Version]
  BY DirectTypedHolds DEF TypeOK
<1>2. ASSUME NEW p \in Procs, WriteContext(p)
      PROVE  \/ context'[r] = context[r]
             \/ pc[p] = "write" /\ run[p] = r /\ context'[r] = loaded[p].version
  BY <1>1, <1>2 DEF WriteContext
<1>3. ASSUME NEW p \in Procs, RunStep(p) \/ Crash(p)
      PROVE  context' = context \/ WriteContext(p)
  BY <1>1, <1>3, ProcCameFrom
<1>4. ASSUME NEW p \in Procs, NEW s \in Runs, Run(p, s)
      PROVE  context' = context
  BY <1>4 DEF Run
<1>5. QED
  BY <1>2, <1>3, <1>4, DirectOrElsewhere DEF directVars

(* Nobody who may still revise for a run works from the version of its        *)
(* revision, or a later one.                                                  *)
LEMMA RevisedLaterInductive ==
  ASSUME HandoffTypeOK, LoadedTyped, ContextFirst, RevisedLater, HandoffsStep, LogStep,
         [HandoffNext]_<<vars, graphVars>>
  PROVE  RevisedLater'
<1>1. DirectTyped /\ TypeOK /\ context \in [Runs -> 0 .. Version]
  BY DirectTypedHolds DEF HandoffTypeOK, TypeOK
<1>2. Version \in Nat /\ Version' \in {Version, Version + 1}
  BY <1>1, LogGrows DEF LoadedTyped
<1>3. \A r \in Runs : context[r] # 0 => context'[r] # 0
  BY <1>1, ContextInductive
<1> DEFINE later(r, i) ==
      /\ context'[r] # 0 /\ context'[r] < i
      /\ \A p \in Procs : run'[p] = r /\ pc'[p] \in Executing \union {"write"} =>
           loaded'[p].version < i
<1>4. ASSUME NEW r \in Runs, NEW i \in 1 .. Version, ByRun(i, r)
      PROVE  later(r, i)
  <2>1. /\ context[r] # 0 /\ context[r] < i
        /\ \A p \in Procs : run[p] = r /\ pc[p] \in Executing \union {"write"} =>
             loaded[p].version < i
    BY <1>4 DEF RevisedLater
  <2>2. context'[r] # 0 /\ context'[r] < i
    BY <1>1, <1>3, <2>1, ContextCameFrom
  <2>3. ASSUME NEW p \in Procs, run'[p] = r, pc'[p] \in Executing \union {"write"}
        PROVE  loaded'[p].version < i
    BY <1>1, <2>1, <2>3, PastContext
  <2>4. QED
    BY <2>2, <2>3
<1>5. ASSUME NEW p \in Procs, ProcRevises(p)
      PROVE  later(run[p], Version + 1)
  <2>1. /\ run[p] \in Runs /\ pc[p] \in Executing
        /\ UNCHANGED <<context, run, loaded>>
        /\ \A q \in Procs : pc'[q] # "off" => pc[q] # "off"
    BY <1>5 DEF ProcRevises, ProcAlone, Executing
  <2>2. context'[run[p]] # 0 /\ context'[run[p]] < Version + 1
    BY <1>1, <1>2, <2>1 DEF ContextFirst
  <2>3. ASSUME NEW q \in Procs, pc'[q] \in Executing \union {"write"}
        PROVE  loaded'[q].version < Version + 1
    <3>1. pc[q] # "off"
      BY <2>1, <2>3 DEF Executing
    <3>2. loaded[q].version \in Nat /\ loaded[q].version <= Version
      BY <1>1, <3>1 DEF DirectTyped, ProcTyped, AnyLoaded
    <3>3. QED
      BY <1>2, <2>1, <3>2
  <2>4. QED
    BY <2>2, <2>3
<1>6. ASSUME NEW r \in Runs, NEW i \in 1 .. Version', ByRun(i, r)'
      PROVE  later(r, i)
  <2>1. log'[i].run = r /\ log'[i].reason \in {"direct_run_completed", "direct_run_failed"}
    BY <1>6 DEF ByRun
  <2>2. CASE i \in 1 .. Version /\ log'[i] = log[i]
    <3>1. ByRun(i, r)
      BY <2>1, <2>2 DEF ByRun
    <3>2. QED
      BY <1>4, <2>2, <3>1
  <2>3. CASE i = Version + 1 /\ \E p \in Procs : ProcRevises(p) /\ log'[i].run = run[p]
    BY <1>5, <2>1, <2>3
  <2>4. QED
    BY <2>1, <2>2, <2>3, NewVersion DEF NeutralReasons
<1>7. QED
  BY <1>6 DEF RevisedLater

(* So a run revises once. *)
LEMMA RunRevisesOnceInductive ==
  ASSUME HandoffTypeOK, LoadedTyped, RevisedLater, RunRevisesOnce, LogStep
  PROVE  RunRevisesOnce'
<1>1. DirectTyped /\ Version \in Nat
  BY DirectTypedHolds DEF HandoffTypeOK, TypeOK, Version
<1>2. ASSUME NEW r \in Runs, NEW i \in 1 .. Version', ByRun(i, r)'
      PROVE  \/ i \in 1 .. Version /\ ByRun(i, r)
             \/ i = Version + 1 /\ \E p \in Procs : ProcRevises(p) /\ run[p] = r
  <2>1. log'[i].run = r /\ log'[i].reason \in {"direct_run_completed", "direct_run_failed"}
    BY <1>2 DEF ByRun
  <2>2. QED
    BY <1>2, <2>1, NewVersion DEF ByRun, NeutralReasons
<1>3. ASSUME NEW p \in Procs, ProcRevises(p), NEW j \in 1 .. Version, ByRun(j, run[p])
      PROVE  FALSE
  <2>1. run[p] \in Runs /\ pc[p] \in Executing /\ loaded[p].version = Version
    BY <1>3 DEF ProcRevises, Executing, Unrevised
  <2>2. loaded[p].version < j
    BY <1>3, <2>1 DEF RevisedLater
  <2>3. QED
    BY <1>1, <2>1, <2>2
<1>4. ASSUME NEW r \in Runs, NEW i \in 1 .. Version', NEW j \in 1 .. Version',
             ByRun(i, r)', ByRun(j, r)'
      PROVE  i = j
  <2>1. CASE i \in 1 .. Version /\ ByRun(i, r) /\ j \in 1 .. Version /\ ByRun(j, r)
    BY <2>1 DEF RunRevisesOnce, Version
  <2>2. QED
    BY <1>2, <1>3, <1>4, <2>1
<1>5. QED
  BY <1>4 DEF RunRevisesOnce, Version

(* Checkpoints are of graphs that have the outcome, and keep it. *)
LEMMA CheckpointsInductive ==
  ASSUME HandoffTypeOK, LoadedTyped, CheckpointsAgree, LogStep,
         [HandoffNext]_<<vars, graphVars>>
  PROVE  /\ CheckpointsAgree'
         /\ \A r \in GraphRuns, st \in Ended : Recorded(r, st)' => status'[r] = st
<1>1. \A r \in GraphRuns : status[r] \in Ended => status'[r] = status[r]
  BY StatusStays DEF HandoffTypeOK
<1> DEFINE agrees(i) ==
      /\ log'[i].reason \in {"checkpoint_succeeded", "handoff_reconciled"} =>
           log'[i].run \in GraphRuns /\ status'[log'[i].run] = "succeeded"
      /\ log'[i].reason = "checkpoint_failed" =>
           log'[i].run \in GraphRuns /\ status'[log'[i].run] = "failed"
<1>2. ASSUME NEW i \in 1 .. Version'
      PROVE  agrees(i)
  <2>1. CASE i \in 1 .. Version /\ log'[i] = log[i]
    BY <1>1, <2>1 DEF CheckpointsAgree, Ended
  <2>2. CASE /\ log'[i].run \in GraphRuns
             /\ \/ status[log'[i].run] = "failed" /\ log'[i].reason = "checkpoint_failed"
                \/ /\ status[log'[i].run] = "succeeded"
                   /\ log'[i].reason \in {"checkpoint_succeeded", "handoff_reconciled"}
    BY <1>1, <2>2 DEF Ended
  <2>3. CASE log'[i].reason \in NeutralReasons \union {"direct_run_completed", "direct_run_failed"}
    BY <2>3 DEF NeutralReasons
  <2>4. QED
    BY <2>1, <2>2, <2>3, NewVersion
<1>3. ASSUME NEW r \in GraphRuns, NEW st \in Ended, Recorded(r, st)'
      PROVE  status'[r] = st
  <2>1. PICK i \in 1 .. Version' :
          /\ log'[i].run = r
          /\ log'[i].reason \in {CheckpointReason(st)} \union
                                (IF st = "succeeded" THEN {"handoff_reconciled"} ELSE {})
    BY <1>3 DEF Recorded
  <2>2. CASE st = "failed"
    BY <1>2, <2>1, <2>2 DEF CheckpointReason
  <2>3. CASE st = "succeeded"
    BY <1>2, <2>1, <2>3 DEF CheckpointReason
  <2>4. QED
    BY <2>2, <2>3 DEF Ended
<1>4. QED
  BY <1>2, <1>3 DEF CheckpointsAgree

-----------------------------------------------------------------------------
(* Success, and the claim of the run *)

(* A success stays in the Working Set; a new one has its revision.            *)
LEMMA SuccessStays ==
  ASSUME TypeOK, LoadedTyped, HandoffsStep, NEW r
  PROVE  SucceededIn(log, r) => SucceededIn(log', r)
<1>1. /\ Version \in Nat /\ Version' \in Nat /\ Version <= Version'
      /\ \A i \in 1 .. Version : log'[i] = log[i]
  BY LogGrows DEF LoadedTyped
<1>2. QED
  BY <1>1 DEF SucceededIn, Version

LEMMA RevisionSucceeds ==
  ASSUME TypeOK, NEW r \in Runs, NEW reason \in Reason, Revise(r, reason)
  PROVE  /\ reason \in SuccessReasons => SucceededIn(log', r)
         /\ \A s \in Runs : SucceededIn(log', s) =>
              SucceededIn(log, s) \/ (s = r /\ reason \in SuccessReasons)
<1>1. /\ Version \in Nat /\ Version' = Version + 1
      /\ log'[Version + 1] = [run |-> r, reason |-> reason]
      /\ \A i \in 1 .. Version : log'[i] = log[i]
  BY ReviseLog
<1>2. log'[Version + 1].run = r /\ log'[Version + 1].reason = reason
  BY <1>1
<1>3. Len(log') = Version + 1 /\ Len(log) = Version
  BY <1>1 DEF Version
<1>4. reason \in SuccessReasons => SucceededIn(log', r)
  BY <1>1, <1>2, <1>3 DEF SucceededIn, SuccessReasons
<1>5. ASSUME NEW s \in Runs, SucceededIn(log', s)
      PROVE  SucceededIn(log, s) \/ (s = r /\ reason \in SuccessReasons)
  <2>1. PICK i \in 1 .. Version + 1 : log'[i].run = s /\ log'[i].reason \in SuccessReasons
    BY <1>3, <1>5 DEF SucceededIn, SuccessReasons
  <2>2. CASE i \in 1 .. Version
    BY <1>1, <1>3, <2>1, <2>2 DEF SucceededIn, SuccessReasons
  <2>3. CASE i = Version + 1
    BY <1>2, <2>1, <2>3
  <2>4. QED
    BY <1>1, <2>1, <2>2, <2>3
<1>6. QED
  BY <1>4, <1>5

(* What ending the claim of run r does to the handoffs. *)
LEMMA EndsClaimShape ==
  ASSUME moves \in [Handoffs -> Move], NEW r \in Runs, NEW outcome \in Outcome,
         EndsClaim(r, outcome)
  PROVE  /\ \A h \in Handoffs :
              /\ moves[h] # ClaimedBy(r) => moves'[h] = moves[h]
              /\ moves[h] = ClaimedBy(r) =>
                   moves'[h] = IF outcome = "succeeded" THEN ConsumedBy(r) ELSE Open
         /\ \A g, h \in Handoffs : moves[g] = ClaimedBy(r) /\ moves[h] = ClaimedBy(r) => g = h
BY DEF EndsClaim, Finalizable, Finalized, Claims, Outcome

(* A run that takes a claim has not succeeded: neither has it executed, nor   *)
(* has its graph begun.                                                       *)
LEMMA ClaimsBeforeSuccess ==
  ASSUME RevisedLater, CheckpointsAgree, NEW r \in Runs, TakesClaim(r)
  PROVE  ~SucceededIn(log, r)
<1>1. context[r] = 0 /\ (r \in GraphRuns => status[r] = "none")
  BY DEF TakesClaim
<1>2. ASSUME NEW i \in 1 .. Version, log[i].run = r, log[i].reason = "direct_run_completed"
      PROVE  FALSE
  BY <1>1, <1>2 DEF RevisedLater, ByRun
<1>3. ASSUME NEW i \in 1 .. Version, log[i].run = r,
             log[i].reason \in {"checkpoint_succeeded", "handoff_reconciled"}
      PROVE  FALSE
  BY <1>1, <1>3 DEF CheckpointsAgree
<1>4. QED
  BY <1>2, <1>3 DEF SucceededIn, Version

(* Every kind of revision, with what it says of success. *)
LEMMA HandoffsStepSplit ==
  ASSUME TypeOK, HandoffsStep
  PROVE  \/ log' = log /\ moves' = moves
         \/ \E r \in Runs :
              /\ Version' = Version + 1 /\ log'[Version'].run = r
              /\ \/ TakesClaim(r)
                 \/ EndsClaim(r, "failed")
                 \/ moves' = moves
              /\ \A s \in Runs : SucceededIn(log', s) => SucceededIn(log, s)
         \/ \E r \in Runs :
              /\ Version' = Version + 1 /\ log'[Version'].run = r
              /\ EndsClaim(r, "succeeded")
              /\ SucceededIn(log', r)
              /\ \A s \in Runs : SucceededIn(log', s) => SucceededIn(log, s) \/ s = r
<1>1. ASSUME NEW r \in Runs, NEW reason \in Reason, Revise(r, reason)
      PROVE  /\ Version' = Version + 1 /\ log'[Version'].run = r
             /\ reason \in SuccessReasons => SucceededIn(log', r)
             /\ \A s \in Runs : SucceededIn(log', s) =>
                  SucceededIn(log, s) \/ (s = r /\ reason \in SuccessReasons)
  <2>1. Version' = Version + 1 /\ log'[Version + 1] = [run |-> r, reason |-> reason]
    BY <1>1, ReviseLog
  <2>2. log'[Version'].run = r
    BY <2>1
  <2>3. QED
    BY <1>1, <2>1, <2>2, RevisionSucceeds
<1>2. /\ FailureReasons \union {"handoff_claimed", "checkpoint_open"} \subseteq Reason
      /\ SuccessReasons \subseteq Reason
      /\ \A reason \in FailureReasons \union {"handoff_claimed", "checkpoint_open"} :
           reason \notin SuccessReasons
  BY DEF Reason, FailureReasons, SuccessReasons
<1>3. ASSUME NEW r \in Runs,
             NEW reason \in FailureReasons \union {"handoff_claimed", "checkpoint_open"},
             Revise(r, reason)
      PROVE  /\ Version' = Version + 1 /\ log'[Version'].run = r
             /\ \A s \in Runs : SucceededIn(log', s) => SucceededIn(log, s)
  BY <1>1, <1>2, <1>3
<1>4. ASSUME NEW r \in Runs, NEW reason \in SuccessReasons, Revise(r, reason)
      PROVE  /\ Version' = Version + 1 /\ log'[Version'].run = r
             /\ SucceededIn(log', r)
             /\ \A s \in Runs : SucceededIn(log', s) => SucceededIn(log, s) \/ s = r
  BY <1>1, <1>2, <1>4
<1>5. QED
  BY <1>3, <1>4 DEF HandoffsStep

(* No step takes a consumed handoff back, and only a success consumes one.    *)
LEMMA ConsumedInductive ==
  ASSUME TypeOK, LoadedTyped, ConsumedBySuccess, HandoffsStep
  PROVE  /\ ConsumedBySuccess'
         /\ \A h \in Handoffs : moves[h].status = "consumed" => moves'[h] = moves[h]
<1>1. moves \in [Handoffs -> Move] /\ moves' \in [Handoffs -> Move]
  BY LogGrows DEF TypeOK, LoadedTyped
<1>2. \A h \in Handoffs : moves[h].status = "consumed" => SucceededIn(log', moves[h].run)
  BY SuccessStays DEF ConsumedBySuccess
<1>3. CASE moves' = moves
  BY <1>2, <1>3 DEF ConsumedBySuccess
<1>4. ASSUME NEW r \in Runs, TakesClaim(r)
      PROVE  \A h \in Handoffs :
               /\ moves[h].status = "consumed" => moves'[h] = moves[h]
               /\ moves'[h].status = "consumed" => moves'[h] = moves[h]
  <2>1. PICK g \in Handoffs : moves[g] = Open /\ moves' = [moves EXCEPT ![g] = ClaimedBy(r)]
    BY <1>4 DEF TakesClaim
  <2>2. Open.status = "open" /\ ClaimedBy(r).status = "claimed"
    BY DEF Open, ClaimedBy
  <2>3. QED
    BY <1>1, <2>1, <2>2
<1>5. ASSUME NEW r \in Runs, NEW outcome \in Outcome, EndsClaim(r, outcome)
      PROVE  \A h \in Handoffs :
               /\ moves[h].status = "consumed" => moves'[h] = moves[h]
               /\ moves'[h].status = "consumed" =>
                    moves'[h] = moves[h] \/ (outcome = "succeeded" /\ moves'[h].run = r)
  <2>1. /\ Open.status = "open" /\ ClaimedBy(r).status = "claimed" /\ ConsumedBy(r).run = r
    BY DEF Open, ClaimedBy, ConsumedBy
  <2>2. QED
    BY <1>1, <1>5, <2>1, EndsClaimShape
<1>6. CASE \E r \in Runs : TakesClaim(r) \/ EndsClaim(r, "failed")
  BY <1>2, <1>4, <1>5, <1>6 DEF ConsumedBySuccess, Outcome
<1>7. CASE \E r \in Runs : EndsClaim(r, "succeeded") /\ SucceededIn(log', r)
  BY <1>2, <1>5, <1>7 DEF ConsumedBySuccess, Outcome
<1>8. QED
  BY <1>3, <1>6, <1>7, HandoffsStepSplit

(* A run whose success the Working Set holds does not own a handoff.          *)
LEMMA NoClaimAfterSuccess ==
  ASSUME TypeOK, LoadedTyped, RevisedLater, CheckpointsAgree, SuccessIsMaterialized, HandoffsStep,
         NEW s \in Runs, SucceededIn(log', s)
  PROVE  Claims(s, moves') = {}
<1>1. moves \in [Handoffs -> Move] /\ moves' \in [Handoffs -> Move]
  BY LogGrows DEF TypeOK, LoadedTyped
<1>2. SucceededIn(log, s) => \A h \in Handoffs : moves[h] # ClaimedBy(s)
  BY DEF SuccessIsMaterialized, Claims
<1>3. CASE moves' = moves /\ SucceededIn(log, s)
  BY <1>2, <1>3 DEF Claims
<1>4. ASSUME NEW r \in Runs, TakesClaim(r), SucceededIn(log, s)
      PROVE  Claims(s, moves') = {}
  <2>1. r # s
    BY <1>4, ClaimsBeforeSuccess
  <2>2. PICK g \in Handoffs : moves' = [moves EXCEPT ![g] = ClaimedBy(r)]
    BY <1>4 DEF TakesClaim
  <2>3. ClaimedBy(r) # ClaimedBy(s)
    BY <2>1, MoveOfRun
  <2>4. QED
    BY <1>1, <1>2, <1>4, <2>2, <2>3 DEF Claims
<1>5. ASSUME NEW r \in Runs, NEW outcome \in Outcome, EndsClaim(r, outcome),
             SucceededIn(log, s) \/ s = r
      PROVE  Claims(s, moves') = {}
  <2>1. Open # ClaimedBy(s) /\ ConsumedBy(r) # ClaimedBy(s)
    BY MoveOfRun
  <2>2. QED
    BY <1>1, <1>2, <1>5, <2>1, EndsClaimShape DEF Claims
<1>6. log' = log => SucceededIn(log, s)
  OBVIOUS
<1>7. QED
  BY <1>3, <1>4, <1>5, <1>6, HandoffsStepSplit DEF Outcome

(* A summary of success is written by a process that has revised.             *)
LEMMA SummaryCameFrom ==
  ASSUME DirectTyped, [HandoffNext]_<<vars, graphVars>>, NEW r \in Runs,
         summary'[r] = "succeeded"
  PROVE  \/ summary[r] = "succeeded"
         \/ \E p \in Procs : pc[p] = "summary" /\ run[p] = r
<1>1. ASSUME NEW p \in Procs, WriteSummary(p)
      PROVE  summary'[r] = summary[r] \/ (pc[p] = "summary" /\ run[p] = r)
  BY <1>1 DEF WriteSummary, DirectTyped
<1>2. ASSUME NEW p \in Procs, WriteFailure(p)
      PROVE  summary'[r] = summary[r] \/ summary'[r] = "failed"
  BY <1>2 DEF WriteFailure, DirectTyped
<1>3. ASSUME NEW p \in Procs, RunStep(p) \/ Crash(p), ~WriteSummary(p), ~WriteFailure(p)
      PROVE  summary' = summary
  BY <1>3 DEF RunStep, CheckSummary, LookAtContext, WriteContext, Execute, ReviseCompleted,
              ReviseFailed, WriteError, Crash
<1>4. ASSUME NEW p \in Procs, NEW s \in Runs, Run(p, s)
      PROVE  summary' = summary
  BY <1>4 DEF Run
<1>5. QED
  BY <1>1, <1>2, <1>3, <1>4, DirectOrElsewhere DEF directVars

LEMMA SummaryInductive ==
  ASSUME TypeOK, LoadedTyped, SummaryAfterRevision, HandoffsStep,
         [HandoffNext]_<<vars, graphVars>>
  PROVE  SummaryAfterRevision'
<1>1. DirectTyped
  BY DirectTypedHolds
<1>2. ASSUME NEW p \in Procs, pc[p] = "summary", run'[p] = run[p]
      PROVE  SucceededIn(log', run'[p])
  BY <1>2, SuccessStays DEF SummaryAfterRevision
<1>3. ASSUME NEW p \in Procs, pc'[p] = "summary"
      PROVE  SucceededIn(log', run'[p])
  <2>1. CASE UNCHANGED directVars
    BY <1>2, <1>3, <2>1 DEF directVars
  <2>2. ASSUME NEW q \in Procs, NEW r \in Runs, Run(q, r)
        PROVE  pc[p] = "summary" /\ run'[p] = run[p]
    BY <1>1, <1>3, <2>2 DEF Run, Goto, DirectTyped
  <2>3. ASSUME NEW q \in Procs, RunStep(q) \/ Crash(q), q # p
        PROVE  pc[p] = "summary" /\ run'[p] = run[p]
    BY <1>1, <1>3, <2>3, RunStepShape DEF ProcAlone
  <2>4. CASE RunStep(p) \/ Crash(p)
    <3>1. ReviseCompleted(p) /\ Revise(run[p], "direct_run_completed")
      BY <1>1, <1>3, <2>4, ProcCameFrom
    <3>2. run[p] \in Runs /\ run'[p] = run[p]
      BY <1>1, <3>1 DEF ReviseCompleted, DirectTyped, ProcTyped
    <3>3. QED
      BY <3>1, <3>2, RevisionSucceeds DEF Reason, SuccessReasons
  <2>5. QED
    BY <1>2, <2>1, <2>2, <2>3, <2>4, DirectOrElsewhere
<1>4. QED
  BY <1>3 DEF SummaryAfterRevision

LEMMA MaterializedInductive ==
  ASSUME TypeOK, LoadedTyped, RevisedLater, CheckpointsAgree, SummaryAfterRevision,
         SuccessIsMaterialized, ConsumedBySuccess', HandoffsStep,
         [HandoffNext]_<<vars, graphVars>>
  PROVE  SuccessIsMaterialized'
<1>1. DirectTyped
  BY DirectTypedHolds
<1>2. ASSUME NEW r \in Runs, summary'[r] = "succeeded"
      PROVE  SucceededIn(log', r)
  <2>1. SucceededIn(log, r)
    BY <1>1, <1>2, SummaryCameFrom DEF SuccessIsMaterialized, SummaryAfterRevision
  <2>2. QED
    BY <2>1, SuccessStays
<1>3. \A r \in Runs : SucceededIn(log', r) => Claims(r, moves') = {}
  BY NoClaimAfterSuccess
<1>4. QED
  BY <1>2, <1>3 DEF SuccessIsMaterialized, ConsumedBySuccess, Claims

-----------------------------------------------------------------------------
(* The invariant holds *)

LEMMA HInvInit ==
  ASSUME HandoffInit
  PROVE  HInv
<1>1. /\ log = <<[run |-> NULL, reason |-> "task_created"]>>
      /\ moves = [h \in Handoffs |-> Open]
      /\ context = [r \in Runs |-> 0] /\ summary = [r \in Runs |-> NULL]
      /\ pc = [p \in Procs |-> "off"] /\ run = [p \in Procs |-> NULL]
      /\ loaded = [p \in Procs |-> NULL] /\ faults = 0
      /\ status = [r \in GraphRuns |-> "none"] /\ call = [c \in Coordinators |-> Idle]
  BY DEF HandoffInit, Init
<1>2. /\ Len(log) = 1 /\ log # <<>> /\ log \in Seq(Revision)
      /\ log[1].run = NULL /\ log[1].reason = "task_created"
  <2>1. [run |-> NULL, reason |-> "task_created"] \in Revision
    BY DEF Revision, Reason
  <2>2. QED
    BY <1>1, <2>1
<1>3. Version = 1 /\ Version <= MaxVersion
  BY <1>2 DEF Version
<1>4. TypeOK
  BY <1>1, <1>2, <1>3 DEF TypeOK, Move, Outcome, Step
<1>5. \A c \in Coordinators : call[c] = Idle /\ call[c].at = "off"
  BY <1>1 DEF Idle
<1>6. ASSUME NEW r \in GraphRuns, NEW st \in Ended, Recorded(r, st)
      PROVE  FALSE
  <2>1. log[1].reason \in {CheckpointReason(st), "handoff_reconciled"}
    BY <1>3, <1>6 DEF Recorded
  <2>2. CheckpointReason(st) \in {"checkpoint_failed", "checkpoint_succeeded"}
    BY <1>6 DEF Ended, CheckpointReason
  <2>3. QED
    BY <1>2, <2>1, <2>2
<1>7. HandoffTypeOK
  BY <1>1, <1>4, <1>6 DEF HandoffTypeOK, GraphStatus
<1>8. \A r \in Runs : ~SucceededIn(log, r) /\ \A i \in 1 .. Version : ~ByRun(i, r)
  BY <1>2, <1>3 DEF SucceededIn, ByRun
<1>9. LoadedTyped /\ LoadedIsCurrent
  BY <1>1, <1>3, <1>5 DEF LoadedTyped, LoadedIsCurrent
<1>10. ContextFirst /\ SummaryAfterRevision
  BY <1>1 DEF ContextFirst, SummaryAfterRevision, Executing
<1>11. RevisedLater /\ RunRevisesOnce
  BY <1>8 DEF RevisedLater, RunRevisesOnce, Version
<1>12. CallsAgree
  BY <1>5 DEF CallsAgree
<1>13. CheckpointsAgree
  BY <1>2, <1>3 DEF CheckpointsAgree
<1>14. ConsumedBySuccess
  BY <1>1 DEF ConsumedBySuccess, Open
<1>15. SuccessIsMaterialized
  BY <1>1, <1>8, <1>14 DEF SuccessIsMaterialized, ConsumedBySuccess
<1>16. QED
  BY <1>7, <1>9, <1>10, <1>11, <1>12, <1>13, <1>14, <1>15 DEF HInv

LEMMA HInvStep ==
  ASSUME HInv, [HandoffNext]_<<vars, graphVars>>
  PROVE  HInv' /\ HandoffsStep
<1> USE DEF HInv
<1>1. TypeOK
  BY DEF HandoffTypeOK
<1>2. HandoffsStep /\ LogStep
  BY EveryHandoffsStep, EveryLogStep
<1>3. TypeOK' /\ LoadedTyped'
  BY <1>1, <1>2, DirectTypeInductive
<1>4. status' \in [GraphRuns -> GraphStatus]
  BY StatusStays DEF HandoffTypeOK
<1>5. call' \in [Coordinators -> {Idle} \union Loading \union Revising] /\ CallsAgree'
  BY CallsInductive
<1>6. /\ CheckpointsAgree'
      /\ \A r \in GraphRuns, st \in Ended : Recorded(r, st)' => status'[r] = st
  BY <1>2, CheckpointsInductive
<1>7. HandoffTypeOK'
  BY <1>3, <1>4, <1>5, <1>6 DEF HandoffTypeOK
<1>8. LoadedIsCurrent'
  BY <1>2, LoadedInductive
<1>9. ContextFirst'
  BY <1>1, ContextInductive
<1>10. RevisedLater' /\ RunRevisesOnce'
  BY <1>2, RevisedLaterInductive, RunRevisesOnceInductive
<1>11. SummaryAfterRevision' /\ ConsumedBySuccess' /\ SuccessIsMaterialized'
  BY <1>1, <1>2, SummaryInductive, ConsumedInductive, MaterializedInductive
<1>12. QED
  BY <1>2, <1>3, <1>5, <1>6, <1>7, <1>8, <1>9, <1>10, <1>11

(* In every reachable state: who works from the current version works from    *)
(* its handoffs, nobody works from a later version than the first revision of *)
(* its run, and checkpoints agree with their graphs.                          *)
THEOREM HandoffInvariantHolds == HandoffSpec => []HInv
<1>1. HandoffInit => HInv
  BY HInvInit
<1>2. HInv /\ [HandoffNext]_<<vars, graphVars>> => HInv'
  BY HInvStep
<1>3. QED
  BY <1>1, <1>2, PTL DEF HandoffSpec

(* The variables of direct runs and coordinators keep their domains, and no   *)
(* checkpoint is of a status its graph never had.                             *)
THEOREM HandoffTypeCorrect == HandoffSpec => []HandoffTypeOK
<1>1. HInv => HandoffTypeOK
  BY DEF HInv
<1>2. QED
  BY <1>1, HandoffInvariantHolds, PTL

(* However many processes make a direct run, at the same time or after a      *)
(* crash, it revises the Working Set at most once.                            *)
THEOREM RunRevisesOnceHolds == HandoffSpec => []RunRevisesOnce
<1>1. HInv => RunRevisesOnce
  BY DEF HInv
<1>2. QED
  BY <1>1, HandoffInvariantHolds, PTL

(* A summary of success has its revision and a consumed handoff that of its   *)
(* run, and who has succeeded owns no handoff: no run, graph, recovery or     *)
(* reconciliation leaves it one.                                              *)
THEOREM SuccessIsMaterializedHolds == HandoffSpec => []SuccessIsMaterialized
<1>1. HInv => SuccessIsMaterialized
  BY DEF HInv
<1>2. QED
  BY <1>1, HandoffInvariantHolds, PTL

(* A handoff is consumed by a success, and for good. *)
THEOREM ConsumedForGoodHolds == HandoffSpec => ConsumedForGood
<1> DEFINE forGood ==
      \A h \in Handoffs :
        /\ moves'[h].status = "consumed" => SucceededIn(log', moves'[h].run)
        /\ moves[h].status = "consumed" => moves'[h] = moves[h]
<1>1. HInv /\ [HandoffNext]_<<vars, graphVars>> => [forGood]_vars
  <2> SUFFICES ASSUME HInv, [HandoffNext]_<<vars, graphVars>> PROVE forGood
    OBVIOUS
  <2>1. HandoffsStep /\ TypeOK
    BY HInvStep DEF HInv, HandoffTypeOK
  <2>2. /\ ConsumedBySuccess'
        /\ \A h \in Handoffs : moves[h].status = "consumed" => moves'[h] = moves[h]
    BY <2>1, ConsumedInductive DEF HInv
  <2>3. QED
    BY <2>2 DEF ConsumedBySuccess
<1>2. QED
  BY <1>1, HandoffInvariantHolds, PTL DEF HandoffSpec, ConsumedForGood

(* A claim is ended by a revision of the run that owns it, and by one that    *)
(* ends no other claim.                                                       *)
THEOREM OnlyOwnerEndsClaimHolds == HandoffSpec => OnlyOwnerEndsClaim
<1> DEFINE ownerEnds ==
      \A h \in Handoffs, r \in Runs :
        moves[h] = ClaimedBy(r) /\ moves'[h] # moves[h] =>
          /\ Len(log') = Len(log) + 1
          /\ log'[Len(log')].run = r
          /\ \A g \in Handoffs : g # h => moves'[g] = moves[g]
<1>1. HInv /\ [HandoffNext]_<<vars, graphVars>> => [ownerEnds]_vars
  <2> SUFFICES ASSUME HInv, [HandoffNext]_<<vars, graphVars>>,
                      NEW h \in Handoffs, NEW r \in Runs,
                      moves[h] = ClaimedBy(r), moves'[h] # moves[h]
               PROVE  /\ Version' = Version + 1 /\ log'[Version'].run = r
                      /\ \A g \in Handoffs : g # h => moves'[g] = moves[g]
    BY DEF Version
  <2>1. HandoffsStep /\ TypeOK /\ moves \in [Handoffs -> Move]
    BY HInvStep DEF HInv, HandoffTypeOK, TypeOK
  <2>2. ASSUME NEW s \in Runs, TakesClaim(s)
        PROVE  FALSE
    <3>1. PICK g \in Handoffs : moves[g] = Open /\ moves' = [moves EXCEPT ![g] = ClaimedBy(s)]
      BY <2>2 DEF TakesClaim
    <3>2. g # h
      BY <3>1, MoveOfRun
    <3>3. QED
      BY <2>1, <3>1, <3>2
  <2>3. ASSUME NEW s \in Runs, NEW outcome \in Outcome, EndsClaim(s, outcome)
        PROVE  s = r /\ \A g \in Handoffs : g # h => moves'[g] = moves[g]
    <3>1. moves[h] = ClaimedBy(s)
      BY <2>1, <2>3, EndsClaimShape
    <3>2. s = r
      BY <3>1 DEF ClaimedBy
    <3>3. QED
      BY <2>1, <2>3, <3>1, <3>2, EndsClaimShape
  <2>4. QED
    BY <2>1, <2>2, <2>3, HandoffsStepSplit DEF Outcome
<1>2. QED
  BY <1>1, HandoffInvariantHolds, PTL DEF HandoffSpec, OnlyOwnerEndsClaim

(* Graphs come to their ends as the runs of the event store do.               *)
THEOREM GraphsHaveOutcomes == HandoffSpec => Outcomes!Spec
<1>1. HandoffInit => Outcomes!Init
  BY DEF HandoffInit, Outcomes!Init
<1>2. HInv /\ [HandoffNext]_<<vars, graphVars>> => [Outcomes!Next]_status
  <2> SUFFICES ASSUME HInv, [HandoffNext]_<<vars, graphVars>> PROVE Outcomes!Next
    OBVIOUS
  <2>1. status \in [GraphRuns -> GraphStatus]
    BY DEF HInv, HandoffTypeOK
  <2>2. /\ status' \in [GraphRuns -> GraphStatus]
        /\ \A r \in GraphRuns :
             /\ status[r] \in Ended => status'[r] = status[r]
             /\ status[r] # "none" => status'[r] # "none"
    BY <2>1, StatusStays
  <2>3. QED
    BY <2>1, <2>2 DEF Outcomes!Next, Outcomes!Ended, GraphStatus, Ended
<1>3. QED
  BY <1>1, <1>2, HandoffInvariantHolds, PTL DEF HandoffSpec, Outcomes!Spec
=============================================================================
