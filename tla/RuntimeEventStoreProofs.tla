---------------------- MODULE RuntimeEventStoreProofs ----------------------
(* Proofs about RuntimeEventStore, for every graph, policy and set of workers. *)
EXTENDS RuntimeEventStore, TLAPS

USE NodesAssumption, PolicyAssumption, NullAssumption

-----------------------------------------------------------------------------
(* Type correctness *)

(* The recomputed status of a run is one of the statuses, and never "absent". *)
LEMMA DerivedStatusType ==
  ASSUME NEW r, NEW st
  PROVE  DerivedStatus(r, st) \in RunStatus \ {"absent"}
BY DEF DerivedStatus, RunStatus

(* Appending an event keeps every log a sequence of events. *)
LEMMA AppendEventType ==
  ASSUME events \in [Nodes -> Seq(NodeEvent)],
         NEW n \in Nodes, NEW type \in EventType, NEW a \in Nat,
         AppendEvent(n, type, a)
  PROVE  events' \in [Nodes -> Seq(NodeEvent)]
<1> DEFINE e == [type |-> type, attempt |-> a]
<1>1. e \in NodeEvent
  BY DEF NodeEvent
<1>2. Append(events[n], e) \in Seq(NodeEvent)
  BY <1>1
<1>3. events' = [events EXCEPT ![n] = Append(events[n], e)]
  BY DEF AppendEvent
<1> HIDE DEF e
<1>4. QED
  BY <1>2, <1>3

(* The columns a finishing method writes stay in their domains. *)
LEMMA SettleType ==
  ASSUME TypeOK, NEW w \in Workers, NEW to \in NodeStatus, NEW type \in EventType,
         RequireClaim(w), Settle(w, to, type),
         nextAt' \in [Nodes -> Int \union {NULL}]
  PROVE  TypeOK'
<1> DEFINE n == held[w].node
<1>1. n \in Nodes /\ held[w].attempt \in Nat
  BY DEF TypeOK, RequireClaim, Claims
<1>2. runStatus' \in [Runs -> RunStatus]
  BY <1>1, DerivedStatusType DEF TypeOK, Settle, RefreshRunStatus
<1>3. events' \in [Nodes -> Seq(NodeEvent)]
  BY <1>1, AppendEventType DEF TypeOK, Settle
<1>4. held' \in [Workers -> Claims \union {NULL}]
  BY DEF TypeOK, Settle
<1>5. QED
  BY <1>1, <1>2, <1>3, <1>4 DEF TypeOK, Settle

(* A granted claim writes values of the columns' domains. *)
LEMMA GrantType ==
  ASSUME TypeOK, NEW w \in Workers, NEW n \in Nodes, NEW delay \in Delay,
         Grant(w, n, delay)
  PROVE  TypeOK'
<1>1. [node |-> n, attempt |-> attempt[n] + 1] \in Claims
  <2>1. attempt[n] + 1 \in Nat
    BY DEF TypeOK
  <2>2. QED
    BY <2>1 DEF Claims
<1>2. events' \in [Nodes -> Seq(NodeEvent)]
  BY AppendEventType, "node_claimed" \in EventType, attempt[n] + 1 \in Nat
  DEF TypeOK, Grant, EventType
<1>3. WorkerId[w] \in OwnerIds
  BY DEF OwnerIds
<1>4. LeaseSeconds - delay \in Int
  BY DEF Delay
<1>5. /\ lease' \in [Nodes -> Int \union {NULL}]
      /\ nextAt' \in [Nodes -> Int \union {NULL}]
      /\ owner' \in [Nodes -> OwnerIds \union {NULL}]
  BY <1>3, <1>4 DEF TypeOK, Grant
<1>6. status' \in [Nodes -> NodeStatus] /\ runStatus' \in [Runs -> RunStatus]
  BY DEF TypeOK, Grant, NodeStatus, RunStatus
<1>7. attempt' \in [Nodes -> Nat]
  <2>1. attempt[n] + 1 \in Nat
    BY DEF TypeOK
  <2>2. attempt' = [attempt EXCEPT ![n] = attempt[n] + 1]
    BY DEF Grant
  <2>3. QED
    BY <2>1, <2>2 DEF TypeOK
<1>8. held' \in [Workers -> Claims \union {NULL}]
  BY <1>1 DEF TypeOK, Grant
<1>9. QED
  BY <1>2, <1>5, <1>6, <1>7, <1>8 DEF TypeOK, Grant

(* A decision writes values of the columns' domains. *)
LEMMA ResolveType ==
  ASSUME TypeOK, NEW n \in Nodes, NEW decision \in Decision,
         ResolveWaitingNode(n, decision)
  PROVE  TypeOK'
<1>1. DecidedStatus(decision) \in NodeStatus /\ DecisionEvent(decision) \in EventType
  BY DEF Decision, DecidedStatus, DecisionEvent, NodeStatus, EventType, Terminal, Completed
<1>2. runStatus' \in [Runs -> RunStatus]
  BY DerivedStatusType DEF TypeOK, ResolveWaitingNode, RefreshRunStatus
<1>3. events' \in [Nodes -> Seq(NodeEvent)]
  BY <1>1, AppendEventType DEF TypeOK, ResolveWaitingNode
<1>4. resumes' \in [Nodes -> Nat]
  BY DEF TypeOK, ResolveWaitingNode
<1>5. QED
  BY <1>1, <1>2, <1>3, <1>4 DEF TypeOK, ResolveWaitingNode

(* Recovery writes values of the columns' domains. *)
LEMMA RecoverType ==
  ASSUME TypeOK, NEW delay \in Delay, NEW X \in SUBSET Nodes, Recover(X, delay)
  PROVE  TypeOK'
<1>1. \A n \in Nodes : RecoveredStatus(n) \in NodeStatus
  BY DEF RecoveredStatus, NodeStatus, Terminal
<1>2. runStatus' \in [Runs -> RunStatus]
  BY DerivedStatusType DEF TypeOK, Recover
<1>3. events' \in [Nodes -> Seq(NodeEvent)]
  <2>1. \A n \in Nodes : [type |-> "node_lease_expired", attempt |-> attempt[n]] \in NodeEvent
    BY DEF TypeOK, NodeEvent, EventType
  <2>2. \A n \in Nodes :
          Append(events[n], [type |-> "node_lease_expired", attempt |-> attempt[n]])
            \in Seq(NodeEvent)
    BY <2>1 DEF TypeOK
  <2>3. QED
    BY <2>2 DEF TypeOK, Recover
<1>4. status' \in [Nodes -> NodeStatus]
  BY <1>1 DEF TypeOK, Recover
<1>5. nextAt' \in [Nodes -> Int \union {NULL}]
  BY DEF TypeOK, Recover, Delay
<1>6. owner' \in [Nodes -> OwnerIds \union {NULL}] /\ lease' \in [Nodes -> Int \union {NULL}]
  BY DEF TypeOK, Recover
<1>7. QED
  BY <1>2, <1>3, <1>4, <1>5, <1>6 DEF TypeOK, Recover

(* Every step keeps every column in its domain. *)
LEMMA NextType == TypeOK /\ [Next]_vars => TypeOK'
<1> SUFFICES ASSUME TypeOK, [Next]_vars PROVE TypeOK'
  OBVIOUS
<1>1. ASSUME NEW r \in Runs, RegisterGraph(r) PROVE TypeOK'
  BY <1>1 DEF TypeOK, RegisterGraph, NodeStatus, RunStatus
<1>2. ASSUME NEW w \in Workers, NEW r \in Runs, ClaimReadyNode(w, r) PROVE TypeOK'
  <2>1. PICK delay \in Delay, n \in Nodes : Grant(w, n, delay)
    BY <1>2 DEF ClaimReadyNode, Claimable, NodesOf
  <2>2. QED
    BY <2>1, GrantType
<1>3. ASSUME NEW w \in Workers, CompleteNode(w) PROVE TypeOK'
  <2>1. nextAt' \in [Nodes -> Int \union {NULL}]
    BY <1>3 DEF TypeOK, CompleteNode
  <2>2. "succeeded" \in NodeStatus /\ "node_succeeded" \in EventType
    BY DEF NodeStatus, Terminal, Completed, EventType
  <2>3. QED
    BY <1>3, <2>1, <2>2, SettleType DEF CompleteNode
<1>4. ASSUME NEW w \in Workers, NEW waiting \in Waiting, WaitNode(w, waiting) PROVE TypeOK'
  <2>1. nextAt' \in [Nodes -> Int \union {NULL}]
    BY <1>4 DEF TypeOK, WaitNode
  <2>2. waiting \in NodeStatus /\ waiting \in EventType
    BY DEF NodeStatus, EventType
  <2>3. QED
    BY <1>4, <2>1, <2>2, SettleType DEF WaitNode
<1>5. ASSUME NEW w \in Workers, NEW retryable \in BOOLEAN, FailNode(w, retryable)
      PROVE TypeOK'
  <2>1. nextAt' \in [Nodes -> Int \union {NULL}]
    BY <1>5 DEF TypeOK, FailNode
  <2>2. /\ {"retry_wait", "failed"} \subseteq NodeStatus
        /\ {"node_retry_scheduled", "node_failed"} \subseteq EventType
    BY DEF NodeStatus, Terminal, EventType
  <2>3. QED
    BY <1>5, <2>1, <2>2, SettleType DEF FailNode
<1>6. ASSUME NEW w \in Workers, StaleClaim(w) \/ Crash(w) PROVE TypeOK'
  BY <1>6 DEF TypeOK, StaleClaim, Crash
<1>7. ASSUME NEW n \in Nodes, NEW decision \in Decision, ResolveWaitingNode(n, decision)
      PROVE TypeOK'
  BY <1>7, ResolveType
<1>8. CASE RecoverExpiredLeases
  <2>1. PICK delay \in Delay : Recover(Expired(delay), delay)
    BY <1>8 DEF RecoverExpiredLeases
  <2>2. Expired(delay) \in SUBSET Nodes
    BY DEF Expired
  <2>3. QED
    BY <2>1, <2>2, RecoverType
<1>9. CASE Tick
  <2>1. \A t \in Int \union {NULL} : CountDown(t) \in Int \union {NULL}
    BY DEF CountDown
  <2>2. lease' \in [Nodes -> Int \union {NULL}] /\ nextAt' \in [Nodes -> Int \union {NULL}]
    BY <1>9, <2>1 DEF TypeOK, Tick
  <2>3. QED
    BY <1>9, <2>2 DEF TypeOK, Tick
<1>10. CASE UNCHANGED vars
  BY <1>10 DEF TypeOK, vars
<1>11. QED
  BY <1>1, <1>2, <1>3, <1>4, <1>5, <1>6, <1>7, <1>8, <1>9, <1>10 DEF Next

(* Every reachable state of the store is well typed. *)
THEOREM TypeCorrect == Spec => []TypeOK
<1>1. Init => TypeOK
  BY DEF Init, TypeOK, NodeStatus, RunStatus
<1>2. QED
  BY <1>1, NextType, PTL DEF Spec

-----------------------------------------------------------------------------
(* The arcs of a node's lifecycle.  Every invariant below that speaks of one *)
(* node, or of a node and its dependencies, follows from these alone.        *)

(* The row of n gets a new status and one more event. *)
Logged(n, to, type, a) ==
  /\ status'[n] = to
  /\ events'[n] = Append(events[n], [type |-> type, attempt |-> a])

Untouched(n) ==
  /\ status'[n] = status[n]
  /\ attempt'[n] = attempt[n]
  /\ events'[n] = events[n]
  /\ resumes'[n] = resumes[n]

Registered(n) ==
  /\ status[n] = "absent"
  /\ status'[n] = "pending"
  /\ attempt'[n] = attempt[n]
  /\ events'[n] = events[n]
  /\ resumes'[n] = resumes[n]

Claimed(n) ==
  /\ status[n] \in {"pending", "retry_wait"}
  /\ DependenciesSucceeded(n)
  /\ attempt'[n] = attempt[n] + 1
  /\ Logged(n, "running", "node_claimed", attempt[n] + 1)
  /\ resumes'[n] = resumes[n]

Settled(n) ==
  /\ status[n] = "running"
  /\ attempt'[n] = attempt[n]
  /\ \/ Logged(n, "succeeded", "node_succeeded", attempt[n])
     \/ \E waiting \in Waiting : Logged(n, waiting, waiting, attempt[n])
     \/ /\ attempt[n] < MaxAttempts[n]
        /\ Logged(n, "retry_wait", "node_retry_scheduled", attempt[n])
     \/ Logged(n, "failed", "node_failed", attempt[n])
     \/ Logged(n, RecoveredStatus(n), "node_lease_expired", attempt[n])
  /\ resumes'[n] = resumes[n]

Decided(n) ==
  /\ status[n] \in Waiting
  /\ attempt'[n] = attempt[n]
  /\ \E decision \in Decision :
       /\ Logged(n, DecidedStatus(decision), DecisionEvent(decision), attempt[n])
       /\ resumes'[n] = IF decision = "resume" THEN resumes[n] + 1 ELSE resumes[n]

NodeStep(n) == Untouched(n) \/ Registered(n) \/ Claimed(n) \/ Settled(n) \/ Decided(n)

(* A run without a row has no node rows. *)
AbsentRuns ==
  \A n \in Nodes : runStatus[RunOf[n]] = "absent" => status[n] = "absent"

(* Finishing a claim settles its node and touches no other. *)
LEMMA SettleStep ==
  ASSUME TypeOK, NEW w \in Workers, RequireClaim(w), NEW to, NEW type, Settle(w, to, type),
         NEW n \in Nodes
  PROVE  IF n = held[w].node
         THEN /\ status[n] = "running"
              /\ attempt'[n] = attempt[n]
              /\ Logged(n, to, type, attempt[n])
              /\ resumes'[n] = resumes[n]
         ELSE Untouched(n)
BY DEF TypeOK, RequireClaim, Settle, AppendEvent, Logged, Untouched

(* Every step moves each node along one arc of its lifecycle, or not at all. *)
LEMMA StepShape ==
  ASSUME TypeOK, AbsentRuns, [Next]_vars, NEW n \in Nodes
  PROVE  NodeStep(n)
<1>1. ASSUME NEW r \in Runs, RegisterGraph(r) PROVE NodeStep(n)
  BY <1>1 DEF RegisterGraph, TypeOK, AbsentRuns, NodeStep, Untouched, Registered
<1>2. ASSUME NEW w \in Workers, NEW r \in Runs, ClaimReadyNode(w, r) PROVE NodeStep(n)
  <2>1. PICK delay \in Delay, m \in Nodes : m \in Claimable(r, delay) /\ Grant(w, m, delay)
    BY <1>2 DEF ClaimReadyNode, Claimable, NodesOf
  <2>2. status[m] \in {"pending", "retry_wait"} /\ DependenciesSucceeded(m)
    BY <2>1 DEF Claimable
  <2>3. CASE n = m
    BY <2>1, <2>2, <2>3 DEF Grant, AppendEvent, TypeOK, NodeStep, Claimed, Logged
  <2>4. CASE n # m
    BY <2>1, <2>2, <2>4 DEF Grant, AppendEvent, TypeOK, NodeStep, Untouched
  <2>5. QED
    BY <2>3, <2>4
<1>3. ASSUME NEW w \in Workers, CompleteNode(w) PROVE NodeStep(n)
  BY <1>3, SettleStep DEF CompleteNode, NodeStep, Settled
<1>4. ASSUME NEW w \in Workers, NEW waiting \in Waiting, WaitNode(w, waiting)
      PROVE NodeStep(n)
  BY <1>4, SettleStep DEF WaitNode, NodeStep, Settled
<1>5. ASSUME NEW w \in Workers, NEW retryable \in BOOLEAN, FailNode(w, retryable)
      PROVE NodeStep(n)
  <2>1. RequireClaim(w) /\ held[w].attempt = attempt[held[w].node]
    BY <1>5 DEF FailNode, RequireClaim
  <2>2. CASE ShouldRetry(held[w], retryable) /\ Settle(w, "retry_wait", "node_retry_scheduled")
    BY <2>1, <2>2, SettleStep DEF ShouldRetry, NodeStep, Settled
  <2>3. CASE Settle(w, "failed", "node_failed")
    BY <2>1, <2>3, SettleStep DEF NodeStep, Settled
  <2>4. QED
    BY <1>5, <2>2, <2>3 DEF FailNode
<1>6. ASSUME NEW w \in Workers, StaleClaim(w) \/ Crash(w) PROVE NodeStep(n)
  BY <1>6 DEF StaleClaim, Crash, NodeStep, Untouched
<1>7. ASSUME NEW m \in Nodes, NEW decision \in Decision, ResolveWaitingNode(m, decision)
      PROVE NodeStep(n)
  <2>1. CASE n = m
    BY <1>7, <2>1 DEF ResolveWaitingNode, AppendEvent, TypeOK, NodeStep, Decided, Logged
  <2>2. CASE n # m
    BY <1>7, <2>2 DEF ResolveWaitingNode, AppendEvent, TypeOK, NodeStep, Untouched
  <2>3. QED
    BY <2>1, <2>2
<1>8. CASE RecoverExpiredLeases
  <2>1. PICK delay \in Delay : Recover(Expired(delay), delay)
    BY <1>8 DEF RecoverExpiredLeases
  <2>2. CASE n \in Expired(delay)
    <3>1. status[n] = "running"
      BY <2>2 DEF Expired
    <3>2. QED
      BY <2>1, <2>2, <3>1 DEF Recover, NodeStep, Settled, Logged
  <2>3. CASE n \notin Expired(delay)
    BY <2>1, <2>3 DEF Recover, NodeStep, Untouched
  <2>4. QED
    BY <2>2, <2>3
<1>9. CASE Tick \/ UNCHANGED vars
  BY <1>9 DEF Tick, vars, NodeStep, Untouched
<1>10. QED
  BY <1>1, <1>2, <1>3, <1>4, <1>5, <1>6, <1>7, <1>8, <1>9 DEF Next

-----------------------------------------------------------------------------
(* The status of a run *)

RunStep(r) ==
  \/ /\ runStatus'[r] = runStatus[r]
     /\ \A n \in NodesOf(r) : status'[n] = status[n]
  \/ runStatus'[r] = DerivedStatus(r, status')
  \/ /\ runStatus'[r] = "running"
     /\ \E n \in NodesOf(r) : status'[n] = "running"

(* The recomputed status of a run depends on the rows of that run alone. *)
LEMMA DerivedStatusLocal ==
  ASSUME NEW r, NEW st1, NEW st2, \A n \in NodesOf(r) : st1[n] = st2[n]
  PROVE  DerivedStatus(r, st1) = DerivedStatus(r, st2)
<1>1. {st1[n] : n \in NodesOf(r)} = {st2[n] : n \in NodesOf(r)}
  OBVIOUS
<1>2. QED
  BY <1>1 DEF DerivedStatus

(* Rows of a run that are all pending make it pending. *)
LEMMA DerivedStatusPending ==
  ASSUME NEW r, NEW st, \A n \in NodesOf(r) : st[n] = "pending"
  PROVE  DerivedStatus(r, st) = "pending"
BY DEF DerivedStatus, Completed, Waiting

(* Finishing a claim refreshes the run of its node and leaves the others. *)
LEMMA SettleRun ==
  ASSUME TypeOK, NEW w \in Workers, RequireClaim(w), NEW to, NEW type, Settle(w, to, type),
         NEW r \in Runs
  PROVE  RunStep(r)
<1>1. held[w].node \in Nodes
  BY DEF TypeOK, RequireClaim, Claims
<1>2. CASE r = RunOf[held[w].node]
  BY <1>1, <1>2 DEF TypeOK, Settle, RefreshRunStatus, RunStep
<1>3. CASE r # RunOf[held[w].node]
  BY <1>1, <1>3 DEF TypeOK, Settle, RefreshRunStatus, RunStep, NodesOf
<1>4. QED
  BY <1>2, <1>3

(* Every step leaves a run alone, refreshes it, or starts one of its nodes. *)
LEMMA RunShape ==
  ASSUME TypeOK, [Next]_vars, NEW r \in Runs
  PROVE  RunStep(r)
<1>1. ASSUME NEW s \in Runs, RegisterGraph(s) PROVE RunStep(r)
  <2>1. CASE r = s
    <3>1. \A n \in NodesOf(r) : status'[n] = "pending"
      BY <1>1, <2>1 DEF RegisterGraph, NodesOf
    <3>2. runStatus'[r] = "pending"
      BY <1>1, <2>1 DEF RegisterGraph, TypeOK
    <3>3. DerivedStatus(r, status') = "pending"
      BY <3>1, DerivedStatusPending
    <3>4. QED
      BY <3>2, <3>3 DEF RunStep
  <2>2. CASE r # s
    BY <1>1, <2>2 DEF RegisterGraph, TypeOK, RunStep, NodesOf
  <2>3. QED
    BY <2>1, <2>2
<1>2. ASSUME NEW w \in Workers, NEW s \in Runs, ClaimReadyNode(w, s) PROVE RunStep(r)
  <2>1. PICK delay \in Delay, n \in Nodes : Grant(w, n, delay)
    BY <1>2 DEF ClaimReadyNode, Claimable, NodesOf
  <2>2. CASE r = RunOf[n]
    BY <2>1, <2>2 DEF Grant, TypeOK, RunStep, NodesOf
  <2>3. CASE r # RunOf[n]
    BY <2>1, <2>3 DEF Grant, TypeOK, RunStep, NodesOf
  <2>4. QED
    BY <2>2, <2>3
<1>3. ASSUME NEW w \in Workers,
             \/ CompleteNode(w)
             \/ \E waiting \in Waiting : WaitNode(w, waiting)
             \/ \E retryable \in BOOLEAN : FailNode(w, retryable)
      PROVE RunStep(r)
  BY <1>3, SettleRun DEF CompleteNode, WaitNode, FailNode
<1>4. ASSUME NEW n \in Nodes, NEW decision \in Decision, ResolveWaitingNode(n, decision)
      PROVE RunStep(r)
  <2>1. CASE r = RunOf[n]
    BY <1>4, <2>1 DEF ResolveWaitingNode, RefreshRunStatus, TypeOK, RunStep
  <2>2. CASE r # RunOf[n]
    BY <1>4, <2>2 DEF ResolveWaitingNode, RefreshRunStatus, TypeOK, RunStep, NodesOf
  <2>3. QED
    BY <2>1, <2>2
<1>5. CASE RecoverExpiredLeases
  <2>1. PICK delay \in Delay : Recover(Expired(delay), delay)
    BY <1>5 DEF RecoverExpiredLeases
  <2>2. CASE r \in TouchedRuns(Expired(delay))
    BY <2>1, <2>2 DEF Recover, RunStep
  <2>3. CASE r \notin TouchedRuns(Expired(delay))
    BY <2>1, <2>3 DEF Recover, RunStep, NodesOf, TouchedRuns
  <2>4. QED
    BY <2>2, <2>3
<1>6. CASE Tick \/ UNCHANGED vars \/ \E w \in Workers : StaleClaim(w) \/ Crash(w)
  BY <1>6 DEF Tick, vars, StaleClaim, Crash, RunStep
<1>7. QED
  BY <1>1, <1>2, <1>3, <1>4, <1>5, <1>6 DEF Next

(* A run keeps no node rows before it has a row of its own. *)
LEMMA AbsentRunsInductive ==
  ASSUME TypeOK, AbsentRuns, [Next]_vars
  PROVE  AbsentRuns'
<1> SUFFICES ASSUME NEW n \in Nodes, runStatus'[RunOf[n]] = "absent"
             PROVE  status'[n] = "absent"
  BY DEF AbsentRuns
<1>1. RunOf[n] \in Runs /\ n \in NodesOf(RunOf[n])
  BY DEF NodesOf
<1>2. runStatus'[RunOf[n]] # DerivedStatus(RunOf[n], status')
  BY DerivedStatusType
<1>3. RunStep(RunOf[n])
  BY <1>1, RunShape
<1>4. QED
  BY <1>1, <1>2, <1>3 DEF RunStep, AbsentRuns

(* The verdict of every run survives every step. *)
LEMMA RunVerdictInductive ==
  ASSUME TypeOK, RunVerdict, [Next]_vars
  PROVE  RunVerdict'
<1> SUFFICES ASSUME NEW r \in Runs, runStatus'[r] # "absent"
             PROVE  \/ runStatus'[r] = DerivedStatus(r, status')
                    \/ /\ runStatus'[r] = "running"
                       /\ \E n \in NodesOf(r) : status'[n] = "running"
  BY DEF RunVerdict, NodesOf
<1>1. RunStep(r)
  BY RunShape
<1>2. CASE /\ runStatus'[r] = runStatus[r]
           /\ \A n \in NodesOf(r) : status'[n] = status[n]
  <2>1. DerivedStatus(r, status') = DerivedStatus(r, status)
    BY <1>2, DerivedStatusLocal
  <2>2. QED
    BY <1>2, <2>1 DEF RunVerdict
<1>3. QED
  BY <1>1, <1>2 DEF RunStep

-----------------------------------------------------------------------------
(* The fence: claims of one node are told apart by their attempt numbers *)

Fence ==
  /\ \A w \in Workers : held[w] # NULL => held[w].attempt <= attempt[held[w].node]
  /\ \A w1, w2 \in Workers :
       /\ w1 # w2
       /\ held[w1] # NULL
       /\ held[w2] # NULL
       /\ held[w1].node = held[w2].node
       => held[w1].attempt # held[w2].attempt

(* Only a claim hands out a new attempt number, and it is a fresh one. *)
LEMMA FenceInductive ==
  ASSUME TypeOK, Fence, [Next]_vars
  PROVE  Fence'
<1>1. ASSUME NEW w \in Workers, NEW r \in Runs, ClaimReadyNode(w, r) PROVE Fence'
  <2>1. PICK delay \in Delay, n \in Nodes : Grant(w, n, delay)
    BY <1>1 DEF ClaimReadyNode, Claimable, NodesOf
  <2>2. /\ attempt' = [attempt EXCEPT ![n] = attempt[n] + 1]
        /\ held' = [held EXCEPT ![w] = [node |-> n, attempt |-> attempt[n] + 1]]
    BY <2>1 DEF Grant
  <2>3. /\ attempt[n] \in Nat
        /\ [node |-> n, attempt |-> attempt[n] + 1] \in Claims
    BY DEF TypeOK, Claims
  <2>4. ASSUME NEW v \in Workers, held'[v] # NULL
        PROVE  held'[v].attempt <= attempt'[held'[v].node]
    <3>1. CASE v = w
      BY <2>2, <2>3, <3>1 DEF TypeOK
    <3>2. CASE v # w
      BY <2>2, <2>3, <2>4, <3>2 DEF TypeOK, Fence, Claims
    <3>3. QED
      BY <3>1, <3>2
  <2>5. ASSUME NEW v \in Workers, v # w, held[v] # NULL, held[v].node = n
        PROVE  held[v].attempt # attempt[n] + 1
    BY <2>3, <2>5 DEF TypeOK, Fence, Claims
  <2>6. QED
    BY <2>2, <2>4, <2>5 DEF TypeOK, Fence
<1>2. ASSUME \A w \in Workers : held'[w] \in {held[w], NULL}, attempt' = attempt
      PROVE  Fence'
  BY <1>2 DEF Fence
<1>3. ASSUME NEW w \in Workers,
             \/ CompleteNode(w)
             \/ \E waiting \in Waiting : WaitNode(w, waiting)
             \/ \E retryable \in BOOLEAN : FailNode(w, retryable)
             \/ StaleClaim(w)
             \/ Crash(w)
      PROVE  Fence'
  BY <1>2, <1>3 DEF CompleteNode, WaitNode, FailNode, Settle, StaleClaim, Crash, TypeOK
<1>4. ASSUME \/ \E r \in Runs : RegisterGraph(r)
             \/ \E n \in Nodes, decision \in Decision : ResolveWaitingNode(n, decision)
             \/ RecoverExpiredLeases
             \/ Tick
             \/ UNCHANGED vars
      PROVE  Fence'
  BY <1>2, <1>4
  DEF RegisterGraph, ResolveWaitingNode, RecoverExpiredLeases, Recover, Tick, vars
<1>5. QED
  BY <1>1, <1>3, <1>4 DEF Next

(* The fence leaves at most one worker able to finish a node. *)
LEMMA FenceExcludes == Fence => ExclusiveClaim
BY DEF Fence, ExclusiveClaim, RequireClaim

-----------------------------------------------------------------------------
(* Dependencies and attempts *)

(* A completed node stays completed, and every node that starts has its *)
(* dependencies completed.                                              *)
LEMMA DependencyOrderInductive ==
  ASSUME TypeOK, AbsentRuns, DependencyOrder, [Next]_vars
  PROVE  DependencyOrder'
<1>1. ASSUME NEW d \in Nodes, status[d] \in Completed PROVE status'[d] \in Completed
  BY <1>1, StepShape
  DEF NodeStep, Untouched, Registered, Claimed, Settled, Decided, Completed, Waiting
<1>2. ASSUME NEW n \in Nodes, attempt'[n] > 0 PROVE DependenciesSucceeded(n)
  <2>1. attempt'[n] = attempt[n] \/ DependenciesSucceeded(n)
    BY StepShape DEF NodeStep, Untouched, Registered, Claimed, Settled, Decided
  <2>2. QED
    BY <1>2, <2>1 DEF DependencyOrder, DependenciesSucceeded
<1>3. QED
  BY <1>1, <1>2 DEF DependencyOrder, DependenciesSucceeded

(* What is left of the budget of a node, by its status. *)
Budgeted(n) ==
  /\ attempt[n] <= MaxAttempts[n] + resumes[n]
  /\ status[n] \in {"absent", "pending"} => attempt[n] < MaxAttempts[n] + resumes[n]
  /\ status[n] = "retry_wait" => attempt[n] < MaxAttempts[n]

AttemptBudget == \A n \in Nodes : Budgeted(n)

(* Every retry is scheduled with an attempt to spare, and a resumed node is *)
(* paid for by the resumption.                                              *)
LEMMA AttemptBudgetInductive ==
  ASSUME TypeOK, AbsentRuns, AttemptBudget, [Next]_vars
  PROVE  AttemptBudget'
<1> SUFFICES ASSUME NEW n \in Nodes PROVE Budgeted(n)'
  BY DEF AttemptBudget
<1>1. /\ attempt[n] \in Nat
      /\ resumes[n] \in Nat
      /\ MaxAttempts[n] \in Nat
      /\ Budgeted(n)
  BY DEF TypeOK, AttemptBudget
<1>2. CASE Untouched(n) \/ Registered(n)
  BY <1>1, <1>2 DEF Untouched, Registered, Budgeted
<1>3. CASE Claimed(n)
  BY <1>1, <1>3 DEF Claimed, Logged, Budgeted
<1>4. CASE Settled(n)
  <2>1. attempt'[n] = attempt[n] /\ resumes'[n] = resumes[n]
    BY <1>4 DEF Settled
  <2>2. \/ status'[n] \in {"succeeded", "failed"} \union Waiting
        \/ status'[n] = "retry_wait" /\ attempt[n] < MaxAttempts[n]
    BY <1>4 DEF Settled, Logged, RecoveredStatus
  <2>3. QED
    BY <1>1, <2>1, <2>2 DEF Budgeted, Waiting
<1>5. CASE Decided(n)
  <2>1. PICK decision \in Decision :
          /\ status'[n] = DecidedStatus(decision)
          /\ resumes'[n] = IF decision = "resume" THEN resumes[n] + 1 ELSE resumes[n]
    BY <1>5 DEF Decided, Logged
  <2>2. attempt'[n] = attempt[n] /\ status[n] \in Waiting
    BY <1>5 DEF Decided
  <2>3. CASE decision = "resume"
    BY <1>1, <2>1, <2>2, <2>3 DEF Budgeted, DecidedStatus
  <2>4. CASE decision # "resume"
    BY <1>1, <2>1, <2>2, <2>4 DEF Budgeted, DecidedStatus, Decision
  <2>5. QED
    BY <2>3, <2>4
<1>6. QED
  BY <1>2, <1>3, <1>4, <1>5, StepShape DEF NodeStep

-----------------------------------------------------------------------------
(* The event log of a node *)

LastEvent(n) == events[n][Len(events[n])]

(* The part of RowsAreReplayOfEvents that the log of one node bears on. *)
RowIsReplay(n) ==
  IF events[n] = <<>>
  THEN status[n] \in {"absent", "pending"} /\ attempt[n] = 0
  ELSE /\ status[n] = ReplayedStatus(n)
       /\ attempt[n] = LastEvent(n).attempt

(* An appended event is the last one, and the earlier ones stay. *)
LEMMA AppendLast ==
  ASSUME NEW s \in Seq(NodeEvent), NEW e \in NodeEvent
  PROVE  /\ Append(s, e) # <<>>
         /\ Len(Append(s, e)) = Len(s) + 1
         /\ Append(s, e)[Len(s) + 1] = e
         /\ \A i \in 1 .. Len(s) : Append(s, e)[i] = s[i]
OBVIOUS

(* The last event of a log that is not empty is an event. *)
LEMMA LastIsEvent ==
  ASSUME NEW s \in Seq(NodeEvent), s # <<>>
  PROVE  /\ Len(s) \in 1 .. Len(s)
         /\ s[Len(s)] \in NodeEvent
OBVIOUS

(* Replaying a log that ends with a new event gives the new row. *)
LEMMA LoggedIsReplay ==
  ASSUME TypeOK, NEW n \in Nodes, NEW to, NEW type \in EventType, NEW a \in Nat,
         Logged(n, to, type, a), attempt'[n] = a,
         to = CASE type = "node_claimed" -> "running"
                [] type \in {"node_succeeded", "waiting_node_approve"} -> "succeeded"
                [] type = "waiting_node_skip" -> "skipped"
                [] type = "waiting_node_resume" -> "pending"
                [] type \in {"node_failed", "waiting_node_reject"} -> "failed"
                [] type = "node_retry_scheduled" -> "retry_wait"
                [] type = "node_lease_expired" ->
                     IF a < MaxAttempts[n] THEN "retry_wait" ELSE "failed"
                [] OTHER -> type
  PROVE  RowIsReplay(n)'
<1> DEFINE e == [type |-> type, attempt |-> a]
<1>1. events[n] \in Seq(NodeEvent) /\ e \in NodeEvent
  BY DEF TypeOK, NodeEvent
<1>2. events'[n] = Append(events[n], e) /\ status'[n] = to
  BY DEF Logged
<1>3. events'[n] # <<>> /\ events'[n][Len(events'[n])] = e
  <2>1. /\ Append(events[n], e) # <<>>
        /\ Len(Append(events[n], e)) = Len(events[n]) + 1
        /\ Append(events[n], e)[Len(events[n]) + 1] = e
    BY <1>1, AppendLast
  <2>2. QED
    BY <1>2, <2>1
<1>4. e.type = type /\ e.attempt = a
  OBVIOUS
<1> HIDE DEF e
<1>5. ReplayedStatus(n)' = to
  BY <1>3, <1>4 DEF ReplayedStatus
<1>6. QED
  BY <1>2, <1>3, <1>4, <1>5 DEF RowIsReplay, LastEvent

(* Each row stays the replay of its log. *)
LEMMA ReplayInductive ==
  ASSUME TypeOK, AbsentRuns, [Next]_vars, NEW n \in Nodes, RowIsReplay(n)
  PROVE  RowIsReplay(n)'
<1>1. attempt[n] \in Nat /\ attempt[n] + 1 \in Nat
  BY DEF TypeOK
<1>2. CASE Untouched(n)
  BY <1>2 DEF Untouched, RowIsReplay, ReplayedStatus, LastEvent
<1>3. CASE Registered(n)
  <2>1. events[n] = <<>>
    <3>1. ASSUME events[n] # <<>> PROVE FALSE
      <4>1. LastEvent(n).type \in EventType
        <5>1. events[n] \in Seq(NodeEvent)
          BY DEF TypeOK
        <5>2. LastEvent(n) \in NodeEvent
          BY <3>1, <5>1, LastIsEvent DEF LastEvent
        <5>3. QED
          BY <5>2 DEF NodeEvent
      <4>2. ReplayedStatus(n) # "absent"
        BY <4>1 DEF ReplayedStatus, LastEvent, EventType, Waiting
      <4>3. QED
        BY <1>3, <3>1, <4>2 DEF Registered, RowIsReplay
    <3>2. QED
      BY <3>1
  <2>2. QED
    BY <1>3, <2>1 DEF Registered, RowIsReplay
<1>4. CASE Claimed(n)
  <2>1. /\ Logged(n, "running", "node_claimed", attempt[n] + 1)
        /\ attempt'[n] = attempt[n] + 1
        /\ "node_claimed" \in EventType
    BY <1>4 DEF Claimed, EventType
  <2>2. QED
    BY <1>1, <2>1, LoggedIsReplay
<1>5. CASE Settled(n)
  <2>1. /\ attempt'[n] = attempt[n]
        /\ {"node_succeeded", "node_retry_scheduled", "node_failed", "node_lease_expired"}
             \subseteq EventType
        /\ Waiting \subseteq EventType
    BY <1>5 DEF Settled, EventType
  <2>2. CASE Logged(n, "succeeded", "node_succeeded", attempt[n])
    BY <1>1, <2>1, <2>2, LoggedIsReplay
  <2>3. ASSUME NEW waiting \in Waiting, Logged(n, waiting, waiting, attempt[n])
        PROVE RowIsReplay(n)'
    BY <1>1, <2>1, <2>3, LoggedIsReplay DEF Waiting
  <2>4. CASE Logged(n, "retry_wait", "node_retry_scheduled", attempt[n])
    BY <1>1, <2>1, <2>4, LoggedIsReplay
  <2>5. CASE Logged(n, "failed", "node_failed", attempt[n])
    BY <1>1, <2>1, <2>5, LoggedIsReplay
  <2>6. CASE Logged(n, RecoveredStatus(n), "node_lease_expired", attempt[n])
    BY <1>1, <2>1, <2>6, LoggedIsReplay DEF RecoveredStatus
  <2>7. QED
    BY <1>5, <2>2, <2>3, <2>4, <2>5, <2>6 DEF Settled
<1>6. CASE Decided(n)
  <2>1. PICK decision \in Decision :
          Logged(n, DecidedStatus(decision), DecisionEvent(decision), attempt[n])
    BY <1>6 DEF Decided
  <2>2. attempt'[n] = attempt[n] /\ DecisionEvent(decision) \in EventType
    BY <1>6 DEF Decided, Decision, DecisionEvent, EventType
  <2>3. QED
    BY <1>1, <2>1, <2>2, LoggedIsReplay DEF Decision, DecidedStatus, DecisionEvent
<1>7. QED
  BY <1>2, <1>3, <1>4, <1>5, <1>6, StepShape DEF NodeStep

LogIsStory(n) ==
  \A i \in DOMAIN events[n] :
    IF i = 1
    THEN events[n][i] = [type |-> "node_claimed", attempt |-> 1]
    ELSE MayFollow(events[n][i - 1], events[n][i])

(* A log stays a story when the event appended to it may follow the last. *)
LEMMA StoryExtended ==
  ASSUME TypeOK, NEW n \in Nodes, LogIsStory(n), NEW e \in NodeEvent,
         events'[n] = Append(events[n], e),
         IF events[n] = <<>> THEN e = [type |-> "node_claimed", attempt |-> 1]
                             ELSE MayFollow(LastEvent(n), e)
  PROVE  LogIsStory(n)'
<1> DEFINE k == Len(events[n])
<1>1. events[n] \in Seq(NodeEvent) /\ k \in Nat /\ DOMAIN events[n] = 1 .. k
  BY DEF TypeOK
<1>2. /\ DOMAIN events'[n] = 1 .. k + 1
      /\ events'[n][k + 1] = e
      /\ \A i \in 1 .. k : events'[n][i] = events[n][i]
  <2>1. Append(events[n], e) \in Seq(NodeEvent)
    BY <1>1
  <2>2. QED
    BY <1>1, <2>1, AppendLast
<1> SUFFICES ASSUME NEW i \in 1 .. k + 1
             PROVE  IF i = 1
                    THEN events'[n][i] = [type |-> "node_claimed", attempt |-> 1]
                    ELSE MayFollow(events'[n][i - 1], events'[n][i])
  BY <1>2 DEF LogIsStory, MayFollow
<1>3. CASE i \in 1 .. k
  <2>1. i # 1 => i - 1 \in 1 .. k
    BY <1>1, <1>3
  <2>2. events'[n][i] = events[n][i] /\ (i # 1 => events'[n][i - 1] = events[n][i - 1])
    BY <1>2, <1>3, <2>1
  <2>3. QED
    BY <1>1, <1>3, <2>2 DEF LogIsStory
<1>4. CASE i = k + 1 /\ k = 0
  <2>1. events[n] = <<>>
    BY <1>1, <1>4
  <2>2. QED
    BY <1>2, <1>4, <2>1
<1>5. CASE i = k + 1 /\ k # 0
  <2>1. events[n] # <<>> /\ k \in 1 .. k /\ i # 1 /\ i - 1 = k
    BY <1>1, <1>5
  <2>2. events'[n][i - 1] = LastEvent(n) /\ events'[n][i] = e
    BY <1>2, <1>5, <2>1 DEF LastEvent
  <2>3. QED
    BY <2>1, <2>2
<1>6. QED
  BY <1>1, <1>3, <1>4, <1>5

(* What a row that is the replay of its log says of the last event. *)
LEMMA LastEventOf ==
  ASSUME TypeOK, NEW n \in Nodes, RowIsReplay(n), events[n] # <<>>
  PROVE  /\ LastEvent(n).attempt = attempt[n]
         /\ status[n] = "running" => LastEvent(n).type = "node_claimed"
         /\ status[n] \in Waiting => LastEvent(n).type \in Waiting
         /\ status[n] \in {"pending", "retry_wait"} =>
              LastEvent(n).type \in {"node_retry_scheduled", "node_lease_expired",
                                     "waiting_node_resume"}
<1>1. events[n] \in Seq(NodeEvent)
  BY DEF TypeOK
<1>2. LastEvent(n) \in NodeEvent
  BY <1>1, LastIsEvent DEF LastEvent
<1>3. LastEvent(n).type \in EventType
  BY <1>2 DEF NodeEvent
<1>4. status[n] = ReplayedStatus(n) /\ attempt[n] = LastEvent(n).attempt
  BY DEF RowIsReplay
<1>5. QED
  BY <1>3, <1>4 DEF ReplayedStatus, LastEvent, EventType, Waiting

(* Every step appends to each log an event that may follow, or nothing. *)
LEMMA StoryInductive ==
  ASSUME TypeOK, AbsentRuns, [Next]_vars, NEW n \in Nodes, RowIsReplay(n), LogIsStory(n)
  PROVE  LogIsStory(n)'
<1>1. attempt[n] \in Nat /\ attempt[n] + 1 \in Nat
  BY DEF TypeOK
<1>2. events[n] = <<>> => status[n] \in {"absent", "pending"} /\ attempt[n] = 0
  BY DEF RowIsReplay
<1>3. CASE Untouched(n) \/ Registered(n)
  BY <1>3 DEF Untouched, Registered, LogIsStory, MayFollow
<1>4. CASE Claimed(n)
  <2> DEFINE e == [type |-> "node_claimed", attempt |-> attempt[n] + 1]
  <2>1. e \in NodeEvent /\ events'[n] = Append(events[n], e)
    BY <1>1, <1>4 DEF Claimed, Logged, NodeEvent, EventType
  <2>2. events[n] = <<>> => e = [type |-> "node_claimed", attempt |-> 1]
    BY <1>2
  <2>3. events[n] # <<>> => MayFollow(LastEvent(n), e)
    BY <1>4, LastEventOf DEF Claimed, MayFollow
  <2> HIDE DEF e
  <2>4. QED
    BY <2>1, <2>2, <2>3, StoryExtended
<1>5. CASE Settled(n)
  <2>1. PICK type \in Waiting \union {"node_succeeded", "node_retry_scheduled",
                                      "node_failed", "node_lease_expired"} :
          events'[n] = Append(events[n], [type |-> type, attempt |-> attempt[n]])
    BY <1>5 DEF Settled, Logged
  <2> DEFINE e == [type |-> type, attempt |-> attempt[n]]
  <2>2. e \in NodeEvent
    BY <1>1 DEF NodeEvent, EventType
  <2>3. events[n] # <<>>
    BY <1>2, <1>5 DEF Settled
  <2>4. MayFollow(LastEvent(n), e)
    BY <1>5, <2>3, LastEventOf DEF Settled, MayFollow
  <2>5. events'[n] = Append(events[n], e)
    BY <2>1
  <2> HIDE DEF e
  <2>6. QED
    BY <2>2, <2>3, <2>4, <2>5, StoryExtended
<1>6. CASE Decided(n)
  <2>1. PICK decision \in Decision :
          events'[n] = Append(events[n], [type |-> DecisionEvent(decision),
                                          attempt |-> attempt[n]])
    BY <1>6 DEF Decided, Logged
  <2> DEFINE e == [type |-> DecisionEvent(decision), attempt |-> attempt[n]]
  <2>2. DecisionEvent(decision) \in EventType
    BY DEF Decision, DecisionEvent, EventType
  <2>3. e \in NodeEvent
    BY <1>1, <2>2 DEF NodeEvent
  <2>4. events[n] # <<>>
    BY <1>2, <1>6 DEF Decided, Waiting
  <2>5. MayFollow(LastEvent(n), e)
    BY <1>6, <2>4, LastEventOf DEF Decided, MayFollow
  <2>6. events'[n] = Append(events[n], e)
    BY <2>1
  <2> HIDE DEF e
  <2>7. QED
    BY <2>3, <2>4, <2>5, <2>6, StoryExtended
<1>7. QED
  BY <1>3, <1>4, <1>5, <1>6, StepShape DEF NodeStep

-----------------------------------------------------------------------------
(* The lease columns *)

LeaseColumns ==
  \A n \in Nodes :
    /\ status[n] = "running" <=> owner[n] # NULL
    /\ status[n] = "running" <=> lease[n] # NULL

(* A row has an owner and a lease exactly while it is running. *)
LEMMA LeaseColumnsInductive ==
  ASSUME TypeOK, AbsentRuns, LeaseColumns, [Next]_vars
  PROVE  LeaseColumns'
<1>1. ASSUME NEW r \in Runs, RegisterGraph(r) PROVE LeaseColumns'
  <2>1. \A n \in Nodes : status'[n] = status[n] \/ {status[n], status'[n]} = {"absent", "pending"}
    BY <1>1 DEF RegisterGraph, AbsentRuns, TypeOK
  <2>2. QED
    BY <1>1, <2>1 DEF RegisterGraph, LeaseColumns
<1>2. ASSUME NEW w \in Workers, NEW r \in Runs, ClaimReadyNode(w, r) PROVE LeaseColumns'
  <2>1. PICK delay \in Delay, n \in Nodes : Grant(w, n, delay)
    BY <1>2 DEF ClaimReadyNode, Claimable, NodesOf
  <2>2. WorkerId[w] # NULL /\ LeaseSeconds - delay # NULL
    <3>1. WorkerId[w] \in OwnerIds
      BY DEF OwnerIds
    <3>2. LeaseSeconds - delay \in Int
      BY DEF Delay
    <3>3. QED
      BY <3>1, <3>2
  <2>3. QED
    BY <2>1, <2>2 DEF Grant, TypeOK, LeaseColumns
<1>3. ASSUME NEW w \in Workers, RequireClaim(w), NEW to, to # "running", NEW type,
             Settle(w, to, type)
      PROVE  LeaseColumns'
  BY <1>3 DEF Settle, RequireClaim, TypeOK, LeaseColumns
<1>4. ASSUME NEW w \in Workers,
             \/ CompleteNode(w)
             \/ \E waiting \in Waiting : WaitNode(w, waiting)
             \/ \E retryable \in BOOLEAN : FailNode(w, retryable)
      PROVE  LeaseColumns'
  BY <1>3, <1>4 DEF CompleteNode, WaitNode, FailNode, Waiting
<1>5. ASSUME NEW n \in Nodes, NEW decision \in Decision, ResolveWaitingNode(n, decision)
      PROVE  LeaseColumns'
  <2>1. status[n] # "running" /\ DecidedStatus(decision) # "running"
    BY <1>5 DEF ResolveWaitingNode, Waiting, Decision, DecidedStatus
  <2>2. QED
    BY <1>5, <2>1 DEF ResolveWaitingNode, TypeOK, LeaseColumns
<1>6. CASE RecoverExpiredLeases
  <2>1. PICK delay \in Delay : Recover(Expired(delay), delay)
    BY <1>6 DEF RecoverExpiredLeases
  <2>2. \A n \in Nodes : RecoveredStatus(n) # "running"
    BY DEF RecoveredStatus
  <2>3. QED
    BY <2>1, <2>2 DEF Recover, LeaseColumns
<1>7. CASE Tick
  <2>1. \A t \in Int \union {NULL} : CountDown(t) = NULL <=> t = NULL
    BY DEF CountDown
  <2>2. QED
    BY <1>7, <2>1 DEF Tick, TypeOK, LeaseColumns
<1>8. CASE UNCHANGED vars \/ \E w \in Workers : StaleClaim(w) \/ Crash(w)
  BY <1>8 DEF vars, StaleClaim, Crash, LeaseColumns
<1>9. QED
  BY <1>1, <1>2, <1>4, <1>5, <1>6, <1>7, <1>8 DEF Next

-----------------------------------------------------------------------------
(* The invariant and the theorems *)

IInv ==
  /\ TypeOK
  /\ AbsentRuns
  /\ RunVerdict
  /\ Fence
  /\ DependencyOrder
  /\ AttemptBudget
  /\ LeaseColumns
  /\ \A n \in Nodes : RowIsReplay(n) /\ LogIsStory(n)

(* IInv holds initially. *)
LEMMA InitInvariant == Init => IInv
<1> SUFFICES ASSUME Init PROVE IInv
  OBVIOUS
<1>1. TypeOK
  BY DEF Init, TypeOK, NodeStatus, RunStatus
<1>2. AbsentRuns /\ RunVerdict /\ Fence /\ DependencyOrder /\ LeaseColumns
  BY DEF Init, AbsentRuns, RunVerdict, Fence, DependencyOrder, LeaseColumns
<1>3. AttemptBudget
  BY DEF Init, AttemptBudget, Budgeted
<1>4. \A n \in Nodes : RowIsReplay(n) /\ LogIsStory(n)
  BY DEF Init, RowIsReplay, LogIsStory
<1>5. QED
  BY <1>1, <1>2, <1>3, <1>4 DEF IInv

(* Every step keeps IInv. *)
LEMMA NextInvariant == IInv /\ [Next]_vars => IInv'
<1> SUFFICES ASSUME IInv, [Next]_vars PROVE IInv'
  OBVIOUS
<1>1. TypeOK /\ AbsentRuns
  BY DEF IInv
<1>2. \A n \in Nodes : RowIsReplay(n)' /\ LogIsStory(n)'
  BY <1>1, ReplayInductive, StoryInductive DEF IInv
<1>3. TypeOK' /\ AbsentRuns' /\ RunVerdict'
  BY <1>1, NextType, AbsentRunsInductive, RunVerdictInductive DEF IInv
<1>4. Fence' /\ DependencyOrder'
  BY <1>1, FenceInductive, DependencyOrderInductive DEF IInv
<1>5. AttemptBudget' /\ LeaseColumns'
  BY <1>1, AttemptBudgetInductive, LeaseColumnsInductive DEF IInv
<1>6. QED
  BY <1>2, <1>3, <1>4, <1>5 DEF IInv

(* IInv is an invariant of the store. *)
THEOREM InvariantHolds == Spec => []IInv
BY InitInvariant, NextInvariant, PTL DEF Spec

(* No node runs before its dependencies have completed, and no completed     *)
(* dependency is ever taken back.                                            *)
THEOREM DependencyOrderHolds == Spec => []DependencyOrder
<1>1. IInv => DependencyOrder
  BY DEF IInv
<1>2. QED
  BY <1>1, InvariantHolds, PTL

(* However many processes share a worker_id, crash or outlive their lease,   *)
(* at most one of them can finish a node.                                    *)
THEOREM ExclusiveClaimHolds == Spec => []ExclusiveClaim
<1>1. IInv => ExclusiveClaim
  BY FenceExcludes DEF IInv
<1>2. QED
  BY <1>1, InvariantHolds, PTL

(* The log of every node alternates claims with one outcome each.            *)
THEOREM OneOutcomePerAttemptHolds == Spec => []OneOutcomePerAttempt
<1>1. IInv => OneOutcomePerAttempt
  BY DEF IInv, LogIsStory, OneOutcomePerAttempt
<1>2. QED
  BY <1>1, InvariantHolds, PTL

(* The node rows are the replay of the event log.                            *)
THEOREM RowsAreReplayHolds == Spec => []RowsAreReplayOfEvents
<1>1. IInv => RowsAreReplayOfEvents
  BY DEF IInv, LeaseColumns, RowIsReplay, LastEvent, RowsAreReplayOfEvents
<1>2. QED
  BY <1>1, InvariantHolds, PTL

(* The attempts of a node stay within its policy and the resumptions.        *)
THEOREM AttemptsBoundedHolds == Spec => []AttemptsBounded
<1>1. IInv => AttemptsBounded
  BY DEF IInv, AttemptBudget, Budgeted, AttemptsBounded
<1>2. QED
  BY <1>1, InvariantHolds, PTL

(* The status of a run is what its nodes imply, or running while one runs.   *)
THEOREM RunVerdictHolds == Spec => []RunVerdict
<1>1. IInv => RunVerdict
  BY DEF IInv
<1>2. QED
  BY <1>1, InvariantHolds, PTL

(* No step takes the outcome of a node back, or the success of a run.        *)
LEMMA OutcomesStay ==
  ASSUME IInv, [Next]_vars
  PROVE  /\ \A n \in Nodes : status[n] \in Terminal =>
              status'[n] = status[n] /\ attempt'[n] = attempt[n]
         /\ \A r \in Runs : runStatus[r] = "succeeded" => runStatus'[r] = "succeeded"
<1>1. ASSUME NEW n \in Nodes, status[n] \in Terminal
      PROVE  status'[n] = status[n] /\ attempt'[n] = attempt[n]
  <2>1. NodeStep(n)
    BY StepShape DEF IInv
  <2>2. QED
    BY <1>1, <2>1
    DEF NodeStep, Untouched, Registered, Claimed, Settled, Decided, Terminal, Completed, Waiting
<1>2. ASSUME NEW r \in Runs, runStatus[r] = "succeeded"
      PROVE  runStatus'[r] = "succeeded"
  <2>1. DerivedStatus(r, status) = "succeeded"
    BY <1>2 DEF IInv, RunVerdict
  <2>2. \A n \in NodesOf(r) : status[n] \in Completed
    BY <2>1 DEF DerivedStatus
  <2>3. \A n \in NodesOf(r) : status'[n] = status[n]
    BY <1>1, <2>2 DEF NodesOf, Terminal
  <2>4. DerivedStatus(r, status') = "succeeded"
    BY <2>1, <2>3, DerivedStatusLocal
  <2>5. \A n \in NodesOf(r) : status'[n] # "running"
    BY <2>2, <2>3 DEF Completed
  <2>6. RunStep(r)
    BY RunShape DEF IInv
  <2>7. QED
    BY <1>2, <2>4, <2>5, <2>6 DEF RunStep
<1>3. QED
  BY <1>1, <1>2

(* Outcomes of nodes, and the success of a run, are never taken back.        *)
THEOREM OutcomesAreFinalHolds == Spec => OutcomesAreFinal
<1>1. IInv /\ [Next]_vars =>
        [/\ \A n \in Nodes : status[n] \in Terminal =>
              status'[n] = status[n] /\ attempt'[n] = attempt[n]
         /\ \A r \in Runs : runStatus[r] = "succeeded" => runStatus'[r] = "succeeded"]_vars
  BY OutcomesStay
<1>2. QED
  BY <1>1, InvariantHolds, PTL DEF Spec, OutcomesAreFinal

-----------------------------------------------------------------------------
(* The store implements DagExecution *)

phase == [n \in Nodes |-> PhaseOf(status[n])]

(* A new status of one node is a new phase of that node. *)
LEMMA PhaseUpdate ==
  ASSUME TypeOK, NEW n \in Nodes, NEW to, status' = [status EXCEPT ![n] = to]
  PROVE  phase' = [phase EXCEPT ![n] = PhaseOf(to)]
BY DEF TypeOK, phase

(* The phase tells completed and unstarted nodes from the others. *)
LEMMA PhaseMeaning ==
  ASSUME NEW st \in NodeStatus
  PROVE  /\ st \in {"absent", "pending", "retry_wait"} => PhaseOf(st) = "idle"
         /\ st = "running" => PhaseOf(st) = "active"
         /\ st \in Waiting => PhaseOf(st) = "parked"
         /\ st \in Completed => PhaseOf(st) = "done"
         /\ st = "failed" => PhaseOf(st) = "dead"
BY DEF PhaseOf, NodeStatus, Waiting, Completed, Terminal

(* Finishing a claim is the end of a try. *)
LEMMA SettleEnds ==
  ASSUME TypeOK, NEW w \in Workers, RequireClaim(w),
         NEW to \in NodeStatus \ {"running"}, NEW type, Settle(w, to, type)
  PROVE  Dag!End(held[w].node)
<1> DEFINE n == held[w].node
<1>1. n \in Nodes /\ status[n] = "running"
  BY DEF TypeOK, RequireClaim, Claims
<1>2. phase[n] = "active"
  BY <1>1, PhaseMeaning DEF phase, TypeOK
<1>3. phase' = [phase EXCEPT ![n] = PhaseOf(to)]
  BY <1>1, PhaseUpdate DEF Settle
<1>4. PhaseOf(to) \in {"idle", "parked", "done", "dead"}
  BY DEF PhaseOf, NodeStatus, Terminal
<1>5. attempt' = attempt /\ resumes' = resumes
  BY DEF Settle
<1>6. QED
  BY <1>2, <1>3, <1>4, <1>5 DEF Dag!End, phase

(* Every step of the store is a step of DagExecution or a stutter. *)
LEMMA StepRefines == IInv /\ [Next]_vars => [Dag!Next]_(Dag!vars)
<1> SUFFICES ASSUME IInv, [Next]_vars PROVE [Dag!Next]_(Dag!vars)
  OBVIOUS
<1> USE DEF IInv
<1>1. ASSUME phase' = phase, attempt' = attempt, resumes' = resumes
      PROVE  UNCHANGED Dag!vars
  BY <1>1 DEF Dag!vars, phase
<1>2. ASSUME NEW r \in Runs, RegisterGraph(r) PROVE UNCHANGED Dag!vars
  <2>1. \A n \in Nodes : status'[n] = status[n] \/ {status[n], status'[n]} = {"absent", "pending"}
    BY <1>2 DEF RegisterGraph, AbsentRuns, TypeOK
  <2>2. PhaseOf("absent") = PhaseOf("pending")
    BY DEF PhaseOf, Waiting, Completed
  <2>3. \A n \in Nodes : PhaseOf(status'[n]) = PhaseOf(status[n])
    BY <2>1, <2>2
  <2>4. QED
    BY <1>1, <1>2, <2>3 DEF RegisterGraph, phase
<1>3. ASSUME NEW w \in Workers, NEW r \in Runs, ClaimReadyNode(w, r) PROVE Dag!Next
  <2>1. PICK delay \in Delay, n \in Nodes : n \in Claimable(r, delay) /\ Grant(w, n, delay)
    BY <1>3 DEF ClaimReadyNode, Claimable, NodesOf
  <2>2. /\ status[n] \in {"pending", "retry_wait"}
        /\ \A d \in Deps[n] : status[d] \in Completed
    BY <2>1 DEF Claimable, DependenciesSucceeded
  <2>3. phase[n] = "idle" /\ \A d \in Deps[n] : phase[d] = "done"
    BY <2>2, PhaseMeaning DEF phase, TypeOK
  <2>4. attempt[n] < MaxAttempts[n] + resumes[n]
    BY <2>2 DEF AttemptBudget, Budgeted, TypeOK
  <2>5. /\ phase' = [phase EXCEPT ![n] = "active"]
        /\ attempt' = [attempt EXCEPT ![n] = @ + 1]
        /\ resumes' = resumes
    BY <2>1, PhaseUpdate, PhaseMeaning DEF Grant, NodeStatus
  <2>6. QED
    BY <2>3, <2>4, <2>5 DEF Dag!Begin, Dag!Next, phase
<1>4. ASSUME NEW w \in Workers,
             \/ CompleteNode(w)
             \/ \E waiting \in Waiting : WaitNode(w, waiting)
             \/ \E retryable \in BOOLEAN : FailNode(w, retryable)
      PROVE  Dag!Next
  <2>1. held[w] # NULL => held[w].node \in Nodes
    BY DEF TypeOK, Claims
  <2>2. Dag!End(held[w].node) /\ held[w] # NULL
    BY <1>4, SettleEnds
    DEF CompleteNode, WaitNode, FailNode, RequireClaim, NodeStatus, Terminal, Completed, Waiting
  <2>3. QED
    BY <2>1, <2>2 DEF Dag!Next
<1>5. ASSUME NEW n \in Nodes, NEW decision \in Decision, ResolveWaitingNode(n, decision)
      PROVE  Dag!Next
  <2>1. phase[n] = "parked"
    BY <1>5, PhaseMeaning DEF ResolveWaitingNode, phase, TypeOK
  <2>2. phase' = [phase EXCEPT ![n] = PhaseOf(DecidedStatus(decision))]
    BY <1>5, PhaseUpdate DEF ResolveWaitingNode
  <2>3. PhaseOf(DecidedStatus(decision)) =
          CASE decision = "resume" -> "idle"
            [] decision = "reject" -> "dead"
            [] OTHER -> "done"
    BY DEF Decision, DecidedStatus, PhaseOf, Waiting, Completed
  <2>4. Dag!Decide(n)
    BY <1>5, <2>1, <2>2, <2>3 DEF ResolveWaitingNode, Dag!Decide, phase, Decision
  <2>5. QED
    BY <2>4 DEF Dag!Next
<1>6. CASE RecoverExpiredLeases
  <2>1. PICK delay \in Delay : Recover(Expired(delay), delay)
    BY <1>6 DEF RecoverExpiredLeases
  <2> DEFINE X == Expired(delay)
  <2>2. X \in SUBSET Nodes /\ \A n \in X : phase[n] = "active"
    BY PhaseMeaning DEF Expired, phase, NodeStatus
  <2>3. \A n \in Nodes : IF n \in X THEN phase'[n] \in {"idle", "dead"}
                                     ELSE phase'[n] = phase[n]
    <3>1. PhaseOf("retry_wait") = "idle" /\ PhaseOf("failed") = "dead"
      BY DEF PhaseOf, Waiting, Completed
    <3>2. \A n \in X : PhaseOf(RecoveredStatus(n)) \in {"idle", "dead"}
      BY <3>1 DEF RecoveredStatus
    <3>3. \A n \in Nodes :
            status'[n] = IF n \in X THEN RecoveredStatus(n) ELSE status[n]
      BY <2>1 DEF Recover
    <3>4. QED
      BY <3>2, <3>3 DEF phase
  <2>4. phase' \in [Nodes -> {"idle", "active", "parked", "done", "dead"}]
    BY NextInvariant DEF phase, TypeOK, PhaseOf, NodeStatus, Terminal
  <2>5. Dag!GiveUp(X)
    BY <2>1, <2>2, <2>3, <2>4 DEF Recover, Dag!GiveUp, phase
  <2>6. QED
    BY <2>2, <2>5 DEF Dag!Next
<1>7. CASE Tick \/ UNCHANGED vars \/ \E w \in Workers : StaleClaim(w) \/ Crash(w)
  BY <1>1, <1>7 DEF Tick, vars, StaleClaim, Crash, phase
<1>8. QED
  BY <1>2, <1>3, <1>4, <1>5, <1>6, <1>7 DEF Next

(* The event store implements the abstract execution of the graph.           *)
THEOREM Refinement == Spec => ImplementsDag
<1>1. Init => Dag!Init
  <2>1. PhaseOf("absent") = "idle"
    BY DEF PhaseOf, Waiting, Completed
  <2>2. QED
    BY <2>1 DEF Init, Dag!Init
<1>2. QED
  BY <1>1, StepRefines, InvariantHolds, PTL DEF Spec, ImplementsDag, Dag!Spec

-----------------------------------------------------------------------------
(* The store implements RunOutcomes *)

(* The rows of a run with a failed node give a failed run. *)
LEMMA FailedRows ==
  ASSUME NEW r, NEW st
  PROVE  DerivedStatus(r, st) = "failed" <=> \E n \in NodesOf(r) : st[n] = "failed"
BY DEF DerivedStatus, Completed

(* A run that is registered stays registered. *)
LEMMA RunsStay ==
  ASSUME TypeOK, [Next]_vars, NEW r \in Runs, runStatus[r] # "absent"
  PROVE  runStatus'[r] # "absent"
<1>1. RunStep(r)
  BY RunShape
<1>2. DerivedStatus(r, status') # "absent"
  BY DerivedStatusType
<1>3. QED
  BY <1>1, <1>2 DEF RunStep

(* A step of the store is a step of the outcomes. *)
LEMMA OutcomesStep ==
  ASSUME IInv, [Next]_vars
  PROVE  [Outcomes!Next]_[r \in Runs |-> OutcomeOf(r)]
<1> DEFINE outcome == [r \in Runs |-> OutcomeOf(r)]
<1>1. TypeOK /\ RunVerdict /\ TypeOK' /\ RunVerdict'
  BY NextInvariant DEF IInv
<1>2. ASSUME NEW r \in Runs
      PROVE  /\ OutcomeOf(r)' \in {"none", "open", "succeeded", "failed"}
             /\ runStatus[r] = "absent" <=> OutcomeOf(r) = "none"
             /\ runStatus'[r] = "absent" <=> OutcomeOf(r)' = "none"
  BY DEF OutcomeOf
<1>3. ASSUME NEW r \in Runs, OutcomeOf(r) = "succeeded"
      PROVE  OutcomeOf(r)' = "succeeded"
  <2>1. runStatus[r] = "succeeded"
    BY <1>3 DEF OutcomeOf
  <2>2. runStatus'[r] = "succeeded"
    BY <2>1, OutcomesStay
  <2>3. QED
    BY <2>2 DEF OutcomeOf
<1>4. ASSUME NEW r \in Runs, OutcomeOf(r) = "failed"
      PROVE  OutcomeOf(r)' = "failed"
  <2>1. runStatus[r] # "absent" /\ runStatus'[r] # "absent"
    BY <1>1, <1>2, <1>4, RunsStay
  <2>2. PICK n \in NodesOf(r) : status[n] = "failed"
    BY <1>1, <1>4, <2>1, FailedRows DEF OutcomeOf, RunVerdict
  <2>3. status'[n] = "failed"
    BY <2>2, OutcomesStay DEF NodesOf, Terminal
  <2>4. DerivedStatus(r, status') = "failed"
    BY <2>3, FailedRows
  <2>5. runStatus'[r] \in {"failed", "running"}
    BY <1>1, <2>1, <2>4 DEF RunVerdict
  <2>6. QED
    BY <2>3, <2>5 DEF OutcomeOf, NodesOf
<1>5. ASSUME NEW r \in Runs, OutcomeOf(r)' # OutcomeOf(r)
      PROVE  OutcomeOf(r) \notin {"succeeded", "failed"} /\ OutcomeOf(r)' # "none"
  BY <1>1, <1>2, <1>3, <1>4, <1>5, RunsStay
<1>6. outcome' \in [Runs -> {"none", "open"} \union Outcomes!Ended]
  BY <1>2 DEF Outcomes!Ended
<1>7. QED
  BY <1>5, <1>6 DEF Outcomes!Next, Outcomes!Ended

(* A run of the store has one outcome, and what is read of it once it has     *)
(* ended holds for ever.                                                      *)
THEOREM OutcomesRefined == Spec => ImplementsOutcomes
<1>1. Init => Outcomes!Init
  BY DEF Init, Outcomes!Init, OutcomeOf
<1>2. QED
  BY <1>1, OutcomesStep, InvariantHolds, PTL DEF Spec, ImplementsOutcomes, Outcomes!Spec
=============================================================================
