------------------------- MODULE RuntimeEventStore -------------------------
(***************************************************************************)
(* The runtime event store: the SQLite database through which every worker *)
(* process claims, finishes, parks and recovers the nodes of a task graph. *)
(* Each public method is one BEGIN IMMEDIATE transaction, so one action    *)
(* here is one whole method: its checks, its row updates, the event it     *)
(* appends and the run status it recomputes.                               *)
(*                                                                         *)
(* Time.  The code only compares instants and adds durations to them, so   *)
(* every timestamp is kept relative to the present: lease[n] is the number *)
(* of seconds until lease_expires_at, nextAt[n] until next_attempt_at, and *)
(* Tick counts both down.  A method that reads the clock before it has the *)
(* database lock works with an instant up to LockWait seconds old.         *)
(***************************************************************************)
EXTENDS Integers, Sequences, FiniteSets

CONSTANTS
  Runs,         \* run ids
  Nodes,        \* node rows, numbered in rowid order
  RunOf,        \* the run each node row belongs to
  Deps,         \* depends_on: the nodes that must be done before a node starts
  MaxAttempts,  \* retry_policy.max_attempts of each node
  Backoff,      \* retry_policy.backoff_seconds of each node
  Workers,      \* processes that call the store
  WorkerId,     \* the worker_id each passes: the default is one id for all
  LeaseSeconds, \* lease_seconds of a claim
  LockWait,     \* bound on the wait between reading the clock and the lock
  MaxResumes,   \* bound on the "resume" decisions taken per node
  NULL          \* SQL NULL, and "holds no claim"

OwnerIds == {WorkerId[w] : w \in Workers}

Claims == [node : Nodes, attempt : Nat]

ASSUME NodesAssumption ==
  /\ Nodes \subseteq Nat
  /\ RunOf \in [Nodes -> Runs]
  /\ Deps \in [Nodes -> SUBSET Nodes]
  /\ \A n \in Nodes : \A d \in Deps[n] : RunOf[d] = RunOf[n]

ASSUME PolicyAssumption ==
  /\ MaxAttempts \in [Nodes -> Nat \ {0}]
  /\ Backoff \in [Nodes -> Nat]
  /\ LeaseSeconds \in Nat \ {0}
  /\ LockWait \in Nat
  /\ MaxResumes \in Nat

ASSUME NullAssumption ==
  /\ NULL \notin Int
  /\ NULL \notin OwnerIds
  /\ NULL \notin Claims

VARIABLES
  status,     \* runtime_nodes.status ("absent" before the graph is registered)
  attempt,    \* runtime_nodes.attempt
  owner,      \* runtime_nodes.lease_owner
  lease,      \* runtime_nodes.lease_expires_at, in seconds from now
  nextAt,     \* runtime_nodes.next_attempt_at, in seconds from now
  runStatus,  \* runtime_runs.status
  events,     \* runtime_events of each node, oldest first
  resumes,    \* history: number of "resume" decisions taken on each node
  held        \* the ClaimedNode each process is working on

vars == <<status, attempt, owner, lease, nextAt, runStatus, events, resumes, held>>

Waiting == {"waiting_human", "waiting_external"}
Completed == {"succeeded", "skipped"}
Terminal == Completed \union {"failed"}
NodeStatus == {"absent", "pending", "running", "retry_wait"} \union Waiting \union Terminal
RunStatus == {"absent", "pending", "running", "waiting", "succeeded", "failed"}
Decision == {"approve", "reject", "resume", "skip"}

EventType ==
  {"node_claimed", "node_succeeded", "node_retry_scheduled", "node_failed",
   "node_lease_expired"} \union Waiting
  \union {"waiting_node_approve", "waiting_node_reject",
          "waiting_node_resume", "waiting_node_skip"}

NodeEvent == [type : EventType, attempt : Nat]

NodesOf(r) == {n \in Nodes : RunOf[n] = r}

(* How old the clock reading of a method may be by the time it holds the lock. *)
Delay == 0 .. LockWait

Init ==
  /\ status = [n \in Nodes |-> "absent"]
  /\ attempt = [n \in Nodes |-> 0]
  /\ owner = [n \in Nodes |-> NULL]
  /\ lease = [n \in Nodes |-> NULL]
  /\ nextAt = [n \in Nodes |-> NULL]
  /\ runStatus = [r \in Runs |-> "absent"]
  /\ events = [n \in Nodes |-> <<>>]
  /\ resumes = [n \in Nodes |-> 0]
  /\ held = [w \in Workers |-> NULL]

-----------------------------------------------------------------------------
(* Run status *)

\* Slip: nodes that wait for a person do not keep their run from succeeding.
StatusPastWaiting(r, st) ==
  LET S == {st[n] : n \in NodesOf(r)}
  IN  IF S # {} /\ S \subseteq Completed \union Waiting THEN "succeeded"
      ELSE IF "failed" \in S THEN "failed"
      ELSE IF S \intersect {"running", "retry_wait"} # {} THEN "running"
      ELSE "pending"

(* _refresh_run_status: the status of run r given the node statuses st. *)
DerivedStatus(r, st) ==
  LET S == {st[n] : n \in NodesOf(r)}
  IN  IF S # {} /\ S \subseteq Completed THEN "succeeded"
      ELSE IF "failed" \in S THEN "failed"
      ELSE IF S \intersect Waiting # {} THEN "waiting"
      ELSE IF S \intersect {"running", "retry_wait"} # {} THEN "running"
      ELSE "pending"

RefreshRunStatus(r) ==
  runStatus' = [runStatus EXCEPT ![r] = DerivedStatus(r, status')]

(* _append_event for node n, with the attempt number the caller passes. *)
AppendEvent(n, type, a) ==
  events' = [events EXCEPT ![n] = Append(@, [type |-> type, attempt |-> a])]

-----------------------------------------------------------------------------
(* Registration and claims *)

\* Slip: register_graph without the test for an existing row.
RegisterAgain(r) ==
  /\ status' = [n \in Nodes |-> IF RunOf[n] = r THEN "pending" ELSE status[n]]
  /\ attempt' = [n \in Nodes |-> IF RunOf[n] = r THEN 0 ELSE attempt[n]]
  /\ runStatus' = [runStatus EXCEPT ![r] = "pending"]
  /\ UNCHANGED <<owner, lease, nextAt, events, resumes, held>>

(* register_graph: the run's rows are inserted once.  Registering the same  *)
(* graph again returns False, another graph raises: neither changes a row.  *)
RegisterGraph(r) ==
  /\ runStatus[r] = "absent"
  /\ runStatus' = [runStatus EXCEPT ![r] = "pending"]
  /\ status' = [n \in Nodes |-> IF RunOf[n] = r THEN "pending" ELSE status[n]]
  /\ UNCHANGED <<attempt, owner, lease, nextAt, events, resumes, held>>

\* Slip: dependencies that were started count as satisfied.
DependenciesStarted(n) == \A d \in Deps[n] : attempt[d] > 0

DependenciesSucceeded(n) == \A d \in Deps[n] : status[d] \in Completed

Claimable(r, delay) ==
  {n \in NodesOf(r) :
     /\ status[n] \in {"pending", "retry_wait"}
     /\ nextAt[n] # NULL => nextAt[n] <= 0 - delay
     /\ DependenciesSucceeded(n)}

(* The row updates of claim_ready_node.  The run is set to running whatever *)
(* its status was: it is not refreshed.                                     *)
Grant(w, n, delay) ==
  /\ status' = [status EXCEPT ![n] = "running"]
  /\ attempt' = [attempt EXCEPT ![n] = @ + 1]
  /\ owner' = [owner EXCEPT ![n] = WorkerId[w]]
  /\ lease' = [lease EXCEPT ![n] = LeaseSeconds - delay]
  /\ nextAt' = [nextAt EXCEPT ![n] = NULL]
  /\ runStatus' = [runStatus EXCEPT ![RunOf[n]] = "running"]
  /\ AppendEvent(n, "node_claimed", attempt[n] + 1)
  /\ held' = [held EXCEPT ![w] = [node |-> n, attempt |-> attempt[n] + 1]]
  /\ UNCHANGED resumes

(* claim_ready_node: the first claimable row of the run goes to the caller. *)
ClaimReadyNode(w, r) ==
  /\ held[w] = NULL
  /\ \E delay \in Delay : \E n \in Claimable(r, delay) :
       /\ \A m \in Claimable(r, delay) : n <= m
       /\ Grant(w, n, delay)

\* Slip: the owner identifies the claim, the attempt number is not compared.
RequireClaimByOwner(w) ==
  /\ held[w] # NULL
  /\ status[held[w].node] = "running"
  /\ owner[held[w].node] = WorkerId[w]

(* _require_claim: the checks every finishing method makes.  The expiry of  *)
(* the lease is not one of them.                                            *)
RequireClaim(w) ==
  /\ held[w] # NULL
  /\ status[held[w].node] = "running"
  /\ owner[held[w].node] = WorkerId[w]
  /\ attempt[held[w].node] = held[w].attempt

\* Slip: the row leaves "running" with its lease still on it.
SettleKeepingLease(w, to, type) ==
  LET n == held[w].node
  IN  /\ status' = [status EXCEPT ![n] = to]
      /\ AppendEvent(n, type, held[w].attempt)
      /\ RefreshRunStatus(RunOf[n])
      /\ held' = [held EXCEPT ![w] = NULL]
      /\ UNCHANGED <<attempt, owner, lease, resumes>>

(* What the finishing methods share: the row leaves "running" and its lease *)
(* is cleared, the event is appended, the run status is recomputed and the  *)
(* process is free again.                                                   *)
Settle(w, to, type) ==
  LET n == held[w].node
  IN  /\ status' = [status EXCEPT ![n] = to]
      /\ owner' = [owner EXCEPT ![n] = NULL]
      /\ lease' = [lease EXCEPT ![n] = NULL]
      /\ AppendEvent(n, type, held[w].attempt)
      /\ RefreshRunStatus(RunOf[n])
      /\ held' = [held EXCEPT ![w] = NULL]
      /\ UNCHANGED <<attempt, resumes>>

CompleteNode(w) ==
  /\ RequireClaim(w)
  /\ Settle(w, "succeeded", "node_succeeded")
  /\ nextAt' = [nextAt EXCEPT ![held[w].node] = NULL]

WaitNode(w, waiting) ==
  /\ RequireClaim(w)
  /\ Settle(w, waiting, waiting)
  /\ UNCHANGED nextAt

\* Slip: <= for <, one attempt too many.
ShouldRetryOnceMore(c, retryable) ==
  retryable /\ c.attempt <= MaxAttempts[c.node]

(* fail_node: retried after the backoff while attempts are left. *)
ShouldRetry(c, retryable) ==
  retryable /\ c.attempt < MaxAttempts[c.node]

FailNode(w, retryable) ==
  /\ RequireClaim(w)
  /\ LET n == held[w].node
     IN  \/ /\ ShouldRetry(held[w], retryable)
            /\ Settle(w, "retry_wait", "node_retry_scheduled")
            /\ nextAt' = [nextAt EXCEPT ![n] = Backoff[n]]
         \/ /\ ~ShouldRetry(held[w], retryable)
            /\ Settle(w, "failed", "node_failed")
            /\ nextAt' = [nextAt EXCEPT ![n] = NULL]

(* A finishing method whose claim is stale raises: no row changes and the   *)
(* caller is left without a claim.                                          *)
StaleClaim(w) ==
  /\ held[w] # NULL
  /\ ~RequireClaim(w)
  /\ held' = [held EXCEPT ![w] = NULL]
  /\ UNCHANGED <<status, attempt, owner, lease, nextAt, runStatus, events, resumes>>

(* The process dies: the row keeps the lease that nobody will finish. *)
Crash(w) ==
  /\ held[w] # NULL
  /\ held' = [held EXCEPT ![w] = NULL]
  /\ UNCHANGED <<status, attempt, owner, lease, nextAt, runStatus, events, resumes>>

-----------------------------------------------------------------------------
(* Decisions on waiting nodes, lease recovery and the passage of time *)

DecidedStatus(decision) ==
  CASE decision = "approve" -> "succeeded"
    [] decision = "skip"    -> "skipped"
    [] decision = "resume"  -> "pending"
    [] decision = "reject"  -> "failed"

DecisionEvent(decision) ==
  CASE decision = "approve" -> "waiting_node_approve"
    [] decision = "skip"    -> "waiting_node_skip"
    [] decision = "resume"  -> "waiting_node_resume"
    [] decision = "reject"  -> "waiting_node_reject"

\* Slip: a decision taken on a node that is not waiting any more.
ResolveAnyNode(n, decision) ==
  /\ decision = "resume" => resumes[n] < MaxResumes
  /\ status' = [status EXCEPT ![n] = DecidedStatus(decision)]
  /\ AppendEvent(n, DecisionEvent(decision), attempt[n])
  /\ RefreshRunStatus(RunOf[n])
  /\ resumes' = IF decision = "resume" THEN [resumes EXCEPT ![n] = @ + 1] ELSE resumes
  /\ UNCHANGED <<attempt, owner, lease, nextAt, held>>

(* resolve_waiting_node: the attempt number is kept, also on "resume". *)
ResolveWaitingNode(n, decision) ==
  /\ status[n] \in Waiting
  /\ decision = "resume" => resumes[n] < MaxResumes
  /\ status' = [status EXCEPT ![n] = DecidedStatus(decision)]
  /\ AppendEvent(n, DecisionEvent(decision), attempt[n])
  /\ RefreshRunStatus(RunOf[n])
  /\ resumes' = IF decision = "resume" THEN [resumes EXCEPT ![n] = @ + 1] ELSE resumes
  /\ UNCHANGED <<attempt, owner, lease, nextAt, held>>

Expired(delay) ==
  {n \in Nodes : status[n] = "running" /\ lease[n] # NULL /\ lease[n] <= 0 - delay}

\* Slip: the row is given the name of the event, which is not a status.
RecoveredStatusFromEvent(n) == "node_lease_expired"

RecoveredStatus(n) ==
  IF attempt[n] < MaxAttempts[n] THEN "retry_wait" ELSE "failed"

\* Slip: only the run of one recovered node is refreshed.
OneTouchedRun(X) == {RunOf[CHOOSE n \in X : TRUE]}

TouchedRuns(X) == {RunOf[n] : n \in X}

(* recover_expired_leases: every expired row of every run in one            *)
(* transaction, then the status of each run that was touched.               *)
Recover(X, delay) ==
  /\ status' = [n \in Nodes |-> IF n \in X THEN RecoveredStatus(n) ELSE status[n]]
  /\ owner' = [n \in Nodes |-> IF n \in X THEN NULL ELSE owner[n]]
  /\ lease' = [n \in Nodes |-> IF n \in X THEN NULL ELSE lease[n]]
  /\ nextAt' = [n \in Nodes |->
                  IF n \notin X THEN nextAt[n]
                  ELSE IF RecoveredStatus(n) = "retry_wait" THEN 0 - delay
                  ELSE NULL]
  /\ events' = [n \in Nodes |->
                  IF n \in X
                  THEN Append(events[n],
                              [type |-> "node_lease_expired", attempt |-> attempt[n]])
                  ELSE events[n]]
  /\ runStatus' = [r \in Runs |->
                     IF r \in TouchedRuns(X) THEN DerivedStatus(r, status')
                     ELSE runStatus[r]]
  /\ UNCHANGED <<attempt, resumes, held>>

RecoverExpiredLeases ==
  \E delay \in Delay :
    /\ Expired(delay) # {}
    /\ Recover(Expired(delay), delay)

(* A timer that is LockWait seconds overdue is due for every caller. *)
CountDown(t) == IF t = NULL \/ t = 0 - LockWait THEN t ELSE t - 1

Tick ==
  /\ lease' = [n \in Nodes |-> CountDown(lease[n])]
  /\ nextAt' = [n \in Nodes |-> CountDown(nextAt[n])]
  /\ <<lease', nextAt'>> # <<lease, nextAt>>
  /\ UNCHANGED <<status, attempt, owner, runStatus, events, resumes, held>>

-----------------------------------------------------------------------------
Next ==
  \/ \E r \in Runs : RegisterGraph(r)
  \/ \E w \in Workers, r \in Runs : ClaimReadyNode(w, r)
  \/ \E w \in Workers : CompleteNode(w)
  \/ \E w \in Workers, waiting \in Waiting : WaitNode(w, waiting)
  \/ \E w \in Workers, retryable \in BOOLEAN : FailNode(w, retryable)
  \/ \E w \in Workers : StaleClaim(w)
  \/ \E w \in Workers : Crash(w)
  \/ \E n \in Nodes, decision \in Decision : ResolveWaitingNode(n, decision)
  \/ RecoverExpiredLeases
  \/ Tick

Spec == Init /\ [][Next]_vars

-----------------------------------------------------------------------------
(* Properties *)

(* Every column holds a value of its domain, and the fixed relations between *)
(* the columns of one row hold.                                              *)
TypeOK ==
  /\ status \in [Nodes -> NodeStatus]
  /\ attempt \in [Nodes -> Nat]
  /\ owner \in [Nodes -> OwnerIds \union {NULL}]
  /\ lease \in [Nodes -> Int \union {NULL}]
  /\ nextAt \in [Nodes -> Int \union {NULL}]
  /\ runStatus \in [Runs -> RunStatus]
  /\ events \in [Nodes -> Seq(NodeEvent)]
  /\ resumes \in [Nodes -> Nat]
  /\ held \in [Workers -> Claims \union {NULL}]

(* A node that was ever started has all its dependencies succeeded or        *)
(* skipped, then and ever after: claim_ready_node admits no node early, and  *)
(* no retry, recovery, decision or re-registration takes a completed         *)
(* dependency back under a node that already ran on its output.              *)
DependencyOrder ==
  \A n \in Nodes : attempt[n] > 0 => \A d \in Deps[n] : status[d] \in Completed

(* At most one process can still finish a given node, even when all of them  *)
(* pass the same worker_id: a worker that lost its lease and the worker that *)
(* claimed the node again are told apart by the attempt number.              *)
ExclusiveClaim ==
  \A w1, w2 \in Workers :
    /\ RequireClaim(w1)
    /\ RequireClaim(w2)
    /\ held[w1].node = held[w2].node
    => w1 = w2

(* When event e may come right after event before in the log of a node. *)
MayFollow(before, e) ==
  \/ /\ e.type = "node_claimed"
     /\ before.type \in {"node_retry_scheduled", "node_lease_expired",
                         "waiting_node_resume"}
     /\ e.attempt = before.attempt + 1
  \/ /\ e.type \in Waiting \union {"node_succeeded", "node_retry_scheduled",
                                   "node_failed", "node_lease_expired"}
     /\ before.type = "node_claimed"
     /\ e.attempt = before.attempt
  \/ /\ e.type \in {DecisionEvent(d) : d \in Decision}
     /\ before.type \in Waiting
     /\ e.attempt = before.attempt

(* The event log of a node tells one coherent story: a claim opens attempt   *)
(* k+1 only after attempt k was given back, each attempt has exactly one     *)
(* outcome, reported under its own number, and a decision answers a wait.    *)
OneOutcomePerAttempt ==
  \A n \in Nodes : \A i \in DOMAIN events[n] :
    IF i = 1
    THEN events[n][i] = [type |-> "node_claimed", attempt |-> 1]
    ELSE MayFollow(events[n][i - 1], events[n][i])

(* The status the last event of a node stands for. *)
ReplayedStatus(n) ==
  LET e == events[n][Len(events[n])]
  IN  CASE e.type = "node_claimed" -> "running"
        [] e.type \in {"node_succeeded", "waiting_node_approve"} -> "succeeded"
        [] e.type = "waiting_node_skip" -> "skipped"
        [] e.type = "waiting_node_resume" -> "pending"
        [] e.type \in {"node_failed", "waiting_node_reject"} -> "failed"
        [] e.type = "node_retry_scheduled" -> "retry_wait"
        [] e.type = "node_lease_expired" ->
             IF e.attempt < MaxAttempts[n] THEN "retry_wait" ELSE "failed"
        [] OTHER -> e.type

(* The event log and the rows never part: after every transaction the rows   *)
(* are what a replay of the append-only log gives, lease columns included,   *)
(* so the log alone is enough to explain the state of a run.                 *)
RowsAreReplayOfEvents ==
  \A n \in Nodes :
    /\ IF events[n] = <<>>
       THEN status[n] \in {"absent", "pending"} /\ attempt[n] = 0
       ELSE /\ status[n] = ReplayedStatus(n)
            /\ attempt[n] = events[n][Len(events[n])].attempt
    /\ status[n] = "running" <=> owner[n] # NULL
    /\ status[n] = "running" <=> lease[n] # NULL

(* The number of times an executor is started on a node is bounded by its    *)
(* retry policy plus the number of times a person asked for another try: no  *)
(* sequence of crashes, expired leases, failures and waits exceeds it.       *)
AttemptsBounded ==
  \A n \in Nodes : attempt[n] <= MaxAttempts[n] + resumes[n]

(* The status of a run is the one its nodes imply, except that a claim       *)
(* leaves it at "running" while some node of the run is running.             *)
RunVerdict ==
  \A r \in Runs : runStatus[r] # "absent" =>
    \/ runStatus[r] = DerivedStatus(r, status)
    \/ /\ runStatus[r] = "running"
       /\ \E n \in NodesOf(r) : status[n] = "running"

(* A node that succeeded, failed or was skipped keeps that outcome and is    *)
(* never started again, and a succeeded run stays succeeded.                 *)
OutcomesAreFinal ==
  [][/\ \A n \in Nodes : status[n] \in Terminal =>
          status'[n] = status[n] /\ attempt'[n] = attempt[n]
     /\ \A r \in Runs : runStatus[r] = "succeeded" => runStatus'[r] = "succeeded"]_vars

-----------------------------------------------------------------------------
(* The abstract state of a node, read off its row. *)
PhaseOf(st) ==
  CASE st \in {"absent", "pending", "retry_wait"} -> "idle"
    [] st = "running"      -> "active"
    [] st \in Waiting      -> "parked"
    [] st \in Completed    -> "done"
    [] st = "failed"       -> "dead"

Dag == INSTANCE DagExecution WITH
         Budget <- MaxAttempts,
         phase <- [n \in Nodes |-> PhaseOf(status[n])],
         tries <- attempt,
         granted <- resumes

(* The store implements DagExecution: every transaction is one step of the   *)
(* abstract graph execution or changes nothing that it can see.              *)
ImplementsDag == Dag!Spec

(* What has become of a run.  Who claims another node of a failed run sets it *)
(* to running, and it looks open until that node ends.                        *)
OutcomeOf(r) ==
  IF runStatus[r] = "absent" THEN "none"
  ELSE IF runStatus[r] \in {"succeeded", "failed"} THEN runStatus[r]
  ELSE IF \E n \in NodesOf(r) : status[n] = "failed" THEN "failed" ELSE "open"

Outcomes == INSTANCE RunOutcomes WITH outcome <- [r \in Runs |-> OutcomeOf(r)]

(* Who reads that a run has failed or succeeded may copy that elsewhere, as   *)
(* synchronize does: however its nodes are claimed, retried, recovered and    *)
(* decided, at the same time or later, the run has no other outcome ever.     *)
ImplementsOutcomes == Outcomes!Spec
=============================================================================
