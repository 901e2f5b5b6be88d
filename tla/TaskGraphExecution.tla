------------------------- MODULE TaskGraphExecution -------------------------
(***************************************************************************)
(* The coordinator: processes that run or resume one task graph, decide    *)
(* its waiting nodes, and materialize the state of the run in the Working  *)
(* Set of the task.  The run changes in the event store, the Working Set   *)
(* by optimistic revision, and nothing holds the two together: a process   *)
(* copies one into the other while other processes change both.            *)
(*                                                                         *)
(* The event store is RuntimeEventStore, without the clock: the processes  *)
(* are quicker than a lease.  Loading and revising the Working Set are     *)
(* atomic, as VersionedTask promises.  A process that dies is one that     *)
(* takes no further step.                                                  *)
(***************************************************************************)
EXTENDS RuntimeEventStore

CONSTANTS
  Run,          \* the run that is coordinated
  Gate,         \* its closure gate: a human_gate node with closes_task
  Unknowns,     \* identities of unknowns
  Raises,       \* append.unknowns of the patch for each node
  Resolves,     \* resolve.unknowns of the patch for each node
  Results,      \* what the executor of each node may make of it
  Patches,      \* what its output, or that of a decision on it, may hold
  MaxCalls,     \* bound on the calls of the coordinators
  MaxRevisions  \* bound on the revisions by other runs of the task

Result == {"succeeded", "waiting_human", "waiting_external", "failed"}

(* The working_set_patch in an output: there is none, or the one of the node, *)
(* or one that parse_executor_working_set_patch refuses.                      *)
Output == {"none", "sound", "malformed"}

ASSUME GraphAssumption ==
  /\ Run \in Runs
  /\ IsFiniteSet(NodesOf(Run))
  /\ Gate \in NodesOf(Run)
  /\ Raises \in [Nodes -> SUBSET Unknowns]
  /\ Resolves \in [Nodes -> SUBSET Unknowns]
  /\ \A m, n \in Nodes : m # n => Resolves[m] \intersect Resolves[n] = {}
  /\ Results \in [Nodes -> SUBSET Result]
  /\ Results[Gate] = {"waiting_human"}
  /\ Patches \in [Nodes -> SUBSET Output]
  /\ MaxCalls \in Nat /\ MaxRevisions \in Nat

VARIABLES
  ws,         \* the task's status and its current Working Set
  closure,    \* the output the closure gate was approved with
  output,     \* runtime_nodes.output_json: the patch in it
  pc,         \* where each coordinator is in its call
  decision,   \* the arguments of resolve
  snap,       \* the run snapshot it has read, or is reading
  loaded,     \* the Working Set it has loaded
  tries,      \* how often it has tried to revise it
  calls,      \* history: number of calls of the coordinators
  revisions   \* history: number of revisions by other runs

coordVars == <<pc, decision, snap, loaded, tries>>
allVars == <<vars, ws, closure, output, coordVars, calls, revisions>>

TaskStatuses == {"active", "waiting", "closed"}
Disposition == {"none_open", "accepted_with_obligations"}
Item == Unknowns \X {"open", "resolved"}
NodeKeys == NodesOf(Run)

WorkingSet ==
  [version : Nat, status : TaskStatuses, unknowns : SUBSET Item,
   waits : SUBSET Nodes, checkpoints : SUBSET [events : Nat, status : RunStatus],
   judgment : Disposition \union {NULL}, closedAt : Nat]

Step == {"off", "engine", "look", "decide", "run", "nodes", "count", "load", "update"}

CoordInit ==
  /\ Init
  /\ ws = [version |-> 1, status |-> "active", unknowns |-> {}, waits |-> {},
           checkpoints |-> {}, judgment |-> NULL, closedAt |-> 0]
  /\ closure = NULL
  /\ output = [n \in NodeKeys |-> "none"]
  /\ pc = [w \in Workers |-> "off"]
  /\ decision = [w \in Workers |-> NULL]
  /\ snap = [w \in Workers |-> NULL]
  /\ loaded = [w \in Workers |-> NULL]
  /\ tries = [w \in Workers |-> 0]
  /\ calls = 0
  /\ revisions = 0

(* A process that is not in a call begins one. *)
Enter(w) ==
  /\ pc[w] = "off"
  /\ calls < MaxCalls
  /\ calls' = calls + 1

Goto(w, next) == pc' = [pc EXCEPT ![w] = next]

(* The call returns or raises, and its local variables are gone. *)
Leave(w) ==
  /\ Goto(w, "off")
  /\ decision' = [decision EXCEPT ![w] = NULL]
  /\ snap' = [snap EXCEPT ![w] = NULL]
  /\ loaded' = [loaded EXCEPT ![w] = NULL]
  /\ tries' = [tries EXCEPT ![w] = 0]

-----------------------------------------------------------------------------
(* run and resume *)

(* The engine registers the graph, or finds it registered. *)
StartRun(w) ==
  /\ Enter(w)
  /\ RegisterGraph(Run) \/ (runStatus[Run] # "absent" /\ UNCHANGED vars)
  /\ Goto(w, "engine")
  /\ UNCHANGED <<ws, closure, output, decision, snap, loaded, tries, revisions>>

(* An output takes the place of the one the row had.                        *)
Record(n) == \E patch \in Patches[n] : output' = [output EXCEPT ![n] = patch]

(* What the executor makes of a node is recorded; a failure leaves the output *)
(* of the row, and is tried again if the executor allows it.                  *)
Finish(w, result) ==
  /\ held[w] # NULL
  /\ result \in Results[held[w].node]
  /\ \/ result = "succeeded" /\ CompleteNode(w) /\ Record(held[w].node)
     \/ result \in Waiting /\ WaitNode(w, result) /\ Record(held[w].node)
     \/ /\ result = "failed"
        /\ \E retryable \in BOOLEAN : FailNode(w, retryable)
        /\ UNCHANGED output

(* The engine claims a node, *)
EngineClaim(w) ==
  /\ pc[w] = "engine"
  /\ ClaimReadyNode(w, Run)
  /\ UNCHANGED <<ws, closure, output, coordVars, calls, revisions>>

(* executes it, *)
EngineFinish(w) ==
  /\ pc[w] = "engine"
  /\ \E result \in Result : Finish(w, result)
  /\ Goto(w, "look")
  /\ UNCHANGED <<ws, closure, decision, snap, loaded, tries, calls, revisions>>

(* and looks whether the run has ended. *)
EngineLook(w) ==
  /\ pc[w] = "look"
  /\ Goto(w, IF runStatus[Run] \in {"failed", "succeeded"} THEN "run" ELSE "engine")
  /\ UNCHANGED <<vars, ws, closure, output, decision, snap, loaded, tries, calls, revisions>>

-----------------------------------------------------------------------------
(* resolve *)

Open(items) == {u \in Unknowns : <<u, "open">> \in items}

(* validate_closure_output: the disposition has to name what is open. *)
Valid(disposition, items) ==
  disposition = IF Open(items) = {} THEN "none_open" ELSE "accepted_with_obligations"

(* resolve is called; the closure of the task is validated against the     *)
(* Working Set before the event store is asked to decide the node.         *)
StartResolve(w, n, d, disposition) ==
  /\ Enter(w)
  /\ IF n = Gate /\ d = "approve" THEN Valid(disposition, ws.unknowns)
                                  ELSE disposition = NULL
  /\ decision' = [decision EXCEPT ![w] =
       [node |-> n, decision |-> d, disposition |-> disposition]]
  /\ Goto(w, "decide")
  /\ UNCHANGED <<vars, ws, closure, output, snap, loaded, tries, revisions>>

(* resolve_waiting_node commits the decision, and its output, whatever that  *)
(* holds; a rejection leaves none.                                           *)
Decide(w) ==
  /\ pc[w] = "decide"
  /\ ResolveWaitingNode(decision[w].node, decision[w].decision)
  /\ closure' = IF decision[w].disposition = NULL THEN closure
                                                  ELSE decision[w].disposition
  /\ IF decision[w].decision = "reject"
     THEN output' = [output EXCEPT ![decision[w].node] = "none"]
     ELSE Record(decision[w].node)
  /\ Goto(w, "run")
  /\ UNCHANGED <<ws, decision, snap, loaded, tries, calls, revisions>>

(* ... or finds that the node is not waiting any more, and raises. *)
DecideTooLate(w) ==
  /\ pc[w] = "decide"
  /\ status[decision[w].node] \notin Waiting
  /\ Leave(w)
  /\ UNCHANGED <<vars, ws, closure, output, calls, revisions>>

-----------------------------------------------------------------------------
(* run_snapshot: three queries, each a transaction of its own *)

\* Slip: max_nodes is looked at between the claim and its execution.
ReadRunWithClaim(w) ==
  /\ pc[w] \in {"run", "engine"}
  /\ snap' = [snap EXCEPT ![w] = [run |-> runStatus[Run], nodes |-> NULL, outputs |-> NULL,
                                  closure |-> NULL, events |-> 0]]
  /\ Goto(w, "nodes")
  /\ UNCHANGED <<vars, ws, closure, output, decision, loaded, tries, calls, revisions>>

\* The engine returns when nothing is ready, at max_nodes, or when the run ends;
\* resolve goes on from its decision.
ReadRun(w) ==
  /\ pc[w] = "run" \/ (pc[w] = "engine" /\ held[w] = NULL)
  /\ snap' = [snap EXCEPT ![w] = [run |-> runStatus[Run], nodes |-> NULL, outputs |-> NULL,
                                  closure |-> NULL, events |-> 0]]
  /\ Goto(w, "nodes")
  /\ UNCHANGED <<vars, ws, closure, output, decision, loaded, tries, calls, revisions>>

ReadNodes(w) ==
  /\ pc[w] = "nodes"
  /\ snap' = [snap EXCEPT ![w].nodes = [n \in NodeKeys |-> status[n]],
                          ![w].outputs = output,
                          ![w].closure = closure]
  /\ Goto(w, "count")
  /\ UNCHANGED <<vars, ws, closure, output, decision, loaded, tries, calls, revisions>>

(* The rows of runtime_events for the run; the first one is its registration. *)
EventCount == 1 + Cardinality(UNION {{n} \X DOMAIN events[n] : n \in NodeKeys})

ReadEventCount(w) ==
  /\ pc[w] = "count"
  /\ snap' = [snap EXCEPT ![w].events = EventCount]
  /\ Goto(w, "load")
  /\ UNCHANGED <<vars, ws, closure, output, decision, loaded, tries, calls, revisions>>

-----------------------------------------------------------------------------
(* synchronize *)

CheckpointId(s) == [events |-> s.events, status |-> s.run]

HasContract(s) == s.nodes[Gate] = "succeeded"

\* Slip: the closure is validated in resolve only.
ContractTrusted(s, items) == TRUE

(* The closure contract of the snapshot fits the Working Set that is loaded. *)
ContractHolds(s, items) == HasContract(s) => Valid(s.closure, items)

(* _task_status *)
TaskStatus(s) ==
  CASE s.run = "waiting" -> "waiting"
    [] s.run = "succeeded" /\ HasContract(s) -> "closed"
    [] OTHER -> "active"

(* The nodes whose patch is applied: the output of every node is read,       *)
(* whatever has become of the node.                                          *)
Patched(s) == {n \in NodeKeys : s.outputs[n] = "sound"}

Malformed(s) == \E n \in NodeKeys : s.outputs[n] = "malformed"

Resolved(s) == UNION {Resolves[n] : n \in Patched(s)}
Raised(s) == UNION {Raises[n] : n \in Patched(s)}

(* resolve_working_set_fields: a directive has to match exactly one item. *)
Resolvable(s, items) ==
  \A u \in Resolved(s) : Cardinality({item \in items : item[1] = u}) = 1

(* The unknowns after the directives and the appends of all nodes: an append *)
(* that equals an item of the loaded Working Set is dropped.                 *)
RevisedUnknowns(s, items) ==
  {IF item[1] \in Resolved(s) THEN <<item[1], "resolved">> ELSE item : item \in items}
  \union ({<<u, "open">> : u \in Raised(s)} \ items)

(* The Working Set that synchronize writes over the one it has loaded. *)
Materialized(s, base) ==
  [version |-> base.version + 1,
   status |-> TaskStatus(s),
   unknowns |-> RevisedUnknowns(s, base.unknowns),
   waits |-> {n \in NodeKeys : s.nodes[n] \in Waiting},
   checkpoints |-> base.checkpoints \union {CheckpointId(s)},
   judgment |-> IF HasContract(s) THEN s.closure ELSE base.judgment,
   closedAt |-> IF TaskStatus(s) = "closed" THEN base.version + 1 ELSE base.closedAt]

\* Slip: a checkpoint that is already recorded is written again.
AlwaysNew(s, base) == FALSE

(* _checkpoint_exists *)
CheckpointExists(s, base) == CheckpointId(s) \in base.checkpoints

(* The Working Set is loaded; a closure that does not fit it, a patch that   *)
(* cannot be read, or a directive that does not match, raises.              *)
LoadAndRaise(w) ==
  /\ pc[w] = "load"
  /\ \/ ~ContractHolds(snap[w], ws.unknowns)
     \/ /\ ~CheckpointExists(snap[w], ws)
        /\ Malformed(snap[w]) \/ ~Resolvable(snap[w], ws.unknowns)
  /\ Leave(w)
  /\ UNCHANGED <<vars, ws, closure, output, calls, revisions>>

(* The snapshot is already in the Working Set: nothing is written.          *)
LoadUpToDate(w) ==
  /\ pc[w] = "load"
  /\ ContractHolds(snap[w], ws.unknowns)
  /\ CheckpointExists(snap[w], ws)
  /\ Leave(w)
  /\ UNCHANGED <<vars, ws, closure, output, calls, revisions>>

LoadContext(w) ==
  /\ pc[w] = "load"
  /\ ContractHolds(snap[w], ws.unknowns)
  /\ ~CheckpointExists(snap[w], ws)
  /\ ~Malformed(snap[w])
  /\ Resolvable(snap[w], ws.unknowns)
  /\ loaded' = [loaded EXCEPT ![w] = ws]
  /\ Goto(w, "update")
  /\ UNCHANGED <<vars, ws, closure, output, decision, snap, tries, calls, revisions>>

\* Slip: the revision is not conditional on the version that was loaded.
UpdateAlways(w) ==
  /\ pc[w] = "update"
  /\ ws' = Materialized(snap[w], loaded[w])
  /\ Leave(w)
  /\ UNCHANGED <<vars, closure, output, calls, revisions>>

(* update_working_set succeeds on the version that was loaded. *)
Update(w) ==
  /\ pc[w] = "update"
  /\ loaded[w].version = ws.version
  /\ ws' = Materialized(snap[w], loaded[w])
  /\ Leave(w)
  /\ UNCHANGED <<vars, closure, output, calls, revisions>>

(* WorkingSetConflictError: the Working Set is loaded again, twice at most. *)
UpdateConflict(w) ==
  /\ pc[w] = "update"
  /\ loaded[w].version # ws.version
  /\ IF tries[w] < 2
     THEN /\ tries' = [tries EXCEPT ![w] = tries[w] + 1]
          /\ loaded' = [loaded EXCEPT ![w] = NULL]
          /\ Goto(w, "load")
          /\ UNCHANGED <<decision, snap>>
     ELSE Leave(w)
  /\ UNCHANGED <<vars, ws, closure, output, calls, revisions>>

(* Another run of the same task finds something that is not known. *)
OtherRevision(u) ==
  /\ revisions < MaxRevisions
  /\ <<u, "open">> \notin ws.unknowns
  /\ ws' = [ws EXCEPT !.version = ws.version + 1,
                      !.unknowns = ws.unknowns \union {<<u, "open">>}]
  /\ revisions' = revisions + 1
  /\ UNCHANGED <<vars, closure, output, coordVars, calls>>

CoordStep(w) ==
  \/ StartRun(w)
  \/ EngineClaim(w)
  \/ EngineFinish(w)
  \/ EngineLook(w)
  \/ \E n \in NodeKeys, d \in Decision, disposition \in Disposition \union {NULL} :
       StartResolve(w, n, d, disposition)
  \/ Decide(w)
  \/ DecideTooLate(w)
  \/ ReadRun(w)
  \/ ReadNodes(w)
  \/ ReadEventCount(w)
  \/ LoadAndRaise(w)
  \/ LoadUpToDate(w)
  \/ LoadContext(w)
  \/ Update(w)
  \/ UpdateConflict(w)

CoordNext ==
  \/ \E w \in Workers : CoordStep(w)
  \/ \E u \in Unknowns : OtherRevision(u)

CoordSpec == CoordInit /\ [][CoordNext]_allVars

-----------------------------------------------------------------------------
(* Properties *)

ToDecide == [node : NodeKeys, decision : Decision, disposition : Disposition \union {NULL}]

(* The run snapshot after each of its three queries. *)
RunRead == [run : RunStatus, nodes : {NULL}, outputs : {NULL}, closure : {NULL}, events : {0}]
NodesRead ==
  [run : RunStatus, nodes : [NodeKeys -> NodeStatus], outputs : [NodeKeys -> Output],
   closure : Disposition \union {NULL}, events : {0}]
SnapshotRead ==
  [run : RunStatus, nodes : [NodeKeys -> NodeStatus], outputs : [NodeKeys -> Output],
   closure : Disposition \union {NULL}, events : Nat]

(* What a process has in memory, as far as it has got in its call. *)
Memory(w) ==
  /\ pc[w] = "decide" => decision[w] \in ToDecide
  /\ CASE pc[w] = "nodes" -> snap[w] \in RunRead
       [] pc[w] = "count" -> snap[w] \in NodesRead
       [] pc[w] \in {"load", "update"} -> snap[w] \in SnapshotRead
       [] OTHER -> snap[w] = NULL
  /\ IF pc[w] = "update" THEN loaded[w] \in WorkingSet /\ loaded[w].version <= ws.version
                         ELSE loaded[w] = NULL

(* The values of the variables, and what a process has in memory at each step *)
(* of its call: a claim only in the engine, a whole snapshot only when it has *)
(* made the three queries, a Working Set only between loading and revising it. *)
CoordTypeOK ==
  /\ ws \in WorkingSet
  /\ closure \in Disposition \union {NULL}
  /\ output \in [NodeKeys -> Output]
  /\ pc \in [Workers -> Step]
  /\ decision \in [Workers -> ToDecide \union {NULL}]
  /\ DOMAIN snap = Workers /\ DOMAIN loaded = Workers
  /\ tries \in [Workers -> 0 .. 2]
  /\ \A w \in Workers : held[w] # NULL => pc[w] = "engine"
  /\ \A w \in Workers : Memory(w)

(* The task is closed only by a run that has succeeded with its closure gate *)
(* approved, and what is open at that moment is accepted with obligations,   *)
(* whoever raised it and however late (docs/architecture.md:68-70).          *)
ClosureIsEarned ==
  [][ws.status # "closed" /\ ws'.status = "closed" =>
       /\ runStatus[Run] = "succeeded"
       /\ status[Gate] = "succeeded"
       /\ Valid(ws'.judgment, ws.unknowns)]_allVars

(* A revision, of this run or another, writes over nothing it had not seen:   *)
(* an unknown that is in the Working Set stays in it, open or resolved, no    *)
(* checkpoint that another process has recorded is lost, and versions do not  *)
(* go back (docs/principles.md:27-29).                                        *)
NothingDisappears ==
  [][/\ \A u \in Unknowns :
          (\E item \in ws.unknowns : item[1] = u)
            => \E item \in ws'.unknowns : item[1] = u
     /\ ws.checkpoints \subseteq ws'.checkpoints
     /\ ws.version <= ws'.version]_allVars

(* Each checkpoint is materialized once, whoever synchronizes it and however  *)
(* often: two processes with the same snapshot make one revision.             *)
OneRevisionPerCheckpoint ==
  ws.version = 1 + revisions + Cardinality(ws.checkpoints)

(* A resolved unknown is not open as well.                                    *)
(* (src/planner/working_set_semantics.py:400: a directive resolves exactly    *)
(* one matching open item.)                                                   *)
ResolvedIsNotOpen ==
  \A u \in Unknowns : ~(<<u, "open">> \in ws.unknowns /\ <<u, "resolved">> \in ws.unknowns)

(* The revision that closes the task leaves nothing open that its judgment    *)
(* does not dispose of (docs/principles.md:45-50).                            *)
ClosedDisposesOpenItems ==
  ws.closedAt = ws.version => Valid(ws.judgment, ws.unknowns)

(* A call that returns without writing, because its snapshot is already in    *)
(* the Working Set, leaves the task in the status of that snapshot, when      *)
(* nothing has happened in the run since it was read                          *)
(* (src/planner/task_graph_execution.py:450: run or resume a graph and        *)
(* materialize its state into the Working Set).                               *)
UpToDateIsMaterialized ==
  \A w \in Workers :
    /\ pc[w] = "load"
    /\ ContractHolds(snap[w], ws.unknowns)
    /\ CheckpointExists(snap[w], ws)
    /\ snap[w].run = runStatus[Run] /\ snap[w].events = EventCount
    => ws.status = TaskStatus(snap[w])
=============================================================================
