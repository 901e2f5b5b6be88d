# arion-core: TLA+ models, model checking and proofs

This directory models the runtime of arion-core (`src/planner`): the planner that
turns a question and a Working Set into a direct run or a task graph, the
validation of task graphs, the directory that binds a run to its graph with its
backup, the SQLite event store through which worker processes execute the graph,
the engine that drives it, the file store of Working Sets, the coordinator that
keeps the two stores together, and direct runs and handoff claims.

    tlc -workers 2 -config RuntimeEventStore_fork.cfg MCRuntimeEventStore.tla
    tlapm RuntimeEventStoreProofs.tla

`PROJECT.json` lists the runs, the theorems, the source lines of every definition
and the hazards each property is about.

## 1. Inventory

### Components with state

| Component | State | Operations |
|---|---|---|
| Runtime event store (`runtime_event_store.py`) | SQLite tables `runtime_runs`, `runtime_nodes` (status, attempt, lease, next attempt), append-only `runtime_events`, artifacts | `register_graph`, `claim_ready_node`, `complete_node`, `wait_node`, `fail_node`, `resolve_waiting_node`, `recover_expired_leases`, `run_snapshot` |
| Execution engine (`unified_execution.py`) | none in memory but the claim it executes | `run`, `resume`, `_execute_claim` |
| Run directory (`unified_execution.py`, `role_activation.py`) | `task_graph.json` and `role_activation_manifest.json` of each run, beside its row | `register` |
| Working Set store (`working_set_store.py`) | one directory per task: `working_sets/<version>.json`, `task.json`, a lock file | `create_task`, `ensure_task`, `load_context`, `update_working_set` |
| Task graph coordinator (`task_graph_execution.py`) | none of its own: a snapshot and a loaded Working Set in memory | `run`, `resume`, `resolve`, `synchronize` |
| Working Set semantics (`working_set_semantics.py`) | none: functions on patches, unknowns, closures and handoffs | parse a patch, resolve items, claim, finalize and recover a handoff |
| Direct runs (`direct_execution.py`) | the run directory: plan, context, artifacts, `run_summary.json` | `DirectRunEngine.run` |
| Recovery (`runtime_recovery.py`) | backups of the database and the run files | backup, verify, restore, restore drill |
| Task graph definitions (`task_graph.py`) | a document; the local variables of `topological_order` | `validate`, `topological_order`, `ready_nodes`, the compiler of plans |
| Planner (`semantic_execution_planner.py`, `capability_planner.py`, `direct_run.py`) | none between calls; a decision and a plan within one | `plan_runtime`: collect signals, score candidates, decide, build the plan, compile it |
| Assurance (`runtime_assurance.py`, `runtime_outcome.py`) | none: a report on the outputs of the nodes before the closure gate | `run_system_assurance`, `normalize_runtime_outcome` |

The loaders of roles, routes, domain packs, executor bindings and paths have no
state: they read YAML configuration once, before anything runs.

### How they interact

* Engines never talk to each other. They share the database: each public method of
  the store is one `BEGIN IMMEDIATE` transaction, and between two of them any other
  process, a person's decision or the clock may act. A claim is a lease; a
  process that dies leaves it behind. All processes pass the same default
  `worker_id`.
* A coordinator runs the engine, reads a snapshot of the run in three separate
  queries, loads the Working Set, and writes a revision conditional on the version
  it loaded: two stores, no common transaction. A conflict is tried three times.
* A task may be revised by several runs, by coordinators, direct runs and people
  who recover or reconcile handoffs.
* The planner reads the Working Set that earlier runs have revised: open unknowns,
  obligations and handoffs become task packages, and these nodes of a graph.
* `register` looks at the run directory, writes it and inserts the row of the run in
  three separate steps, and a backup copies the database and then the files, with
  no lock that spans them.

### What is hard, and what makes each component correct

| Component | Hard behaviour | Properties |
|---|---|---|
| Event store | leases that expire under a living worker, retries, parked nodes, rows and log written by separate statements, a run status that is derived | dependency order; one process per attempt; one outcome per attempt; rows = replay of the log; bounded attempts; final outcomes; the verdict of a run |
| Engine | processes that die, a call that returns while a retry is in backoff | every node settles, every call returns |
| Working Set store | two renames that are not atomic together, readers without a lock, writers that die | published versions are immutable, whole and contiguous; optimistic revision loses nothing; the lock is released |
| Coordinator | snapshot, load and revision at three moments, two processes at one run | one revision per checkpoint; no unknown disappears; closure is earned |
| Handoffs | a coordinator, a direct run and a person move the same handoffs | a claim ends by its own run; what is consumed stays consumed, by a run that has succeeded |
| Run directory, recovery | plans made anew for a known `run_id`, files cut off by a death, a backup beside running processes | one graph per run for all who work on it; file and row agree |
| Task graph definitions | circles, missing nodes, skipped nodes | order respects dependencies; a cycle is reported only if there is one; an accepted graph never gets stuck |
| Planner | items of several classes and roles, workflows that score higher, one package per item | a plan of the Working Set answers every open item of the highest class; compiled graphs are valid; roles run in order; the gate sees a clean run |
| Direct runs | the same `run_id` made twice or at once, failing writes | one revision per run; a summary tells the truth; claims end once and by their owner |

## 2. Modules

In the order they were written, the most important behaviour first.

| Module | What it is |
|---|---|
| `RuntimeEventStore` | the store: one action per transaction |
| `DagExecution` | abstract: what the store promises. `RuntimeEventStore` implements it |
| `RunOutcomes` | abstract: what becomes of the runs, for who copies it elsewhere. `RuntimeEventStore` implements it, and so does the status of graphs in `HandoffExecution` |
| `RuntimeEventStoreProofs` | theorems for every graph, policy and number of workers |
| `UnifiedExecution` | EXTENDS `RuntimeEventStore`: engines with program counters, crashes, fairness |
| `UnifiedExecutionProofs` | its theorems; EXTENDS `RuntimeEventStoreProofs` |
| `WorkingSetStore` | one task directory, file by file |
| `VersionedTask` | abstract: a history revised atomically from its latest version. `WorkingSetStore` implements it |
| `WorkingSetStoreProofs` | its theorems |
| `TaskGraphExecution` | EXTENDS `RuntimeEventStore`: coordinators over both stores |
| `TaskGraphExecutionProofs` | its theorems; EXTENDS `RuntimeEventStoreProofs` |
| `DirectExecution` | direct runs and handoff claims, over an atomic Working Set |
| `HandoffExecution` | EXTENDS `DirectExecution`: coordinators of task graphs that revise the same Working Set |
| `HandoffExecutionProofs` | its theorems, and with them those about direct runs |
| `TaskGraph` | documents, their validation and order, and the execution of an accepted graph |
| `TaskGraphProofs` | its theorems |
| `Planning` | EXTENDS `TaskGraph`: from a question and a Working Set to a direct run or a graph, and its execution up to the closure gate. `PlanSpec` implements `GraphSpec` |
| `PlanningProofs` | its theorems; EXTENDS `TaskGraphProofs` |
| `RunDirectory` | registration, file by file, with backup and restore |
| `RunDirectoryProofs` | its theorems |
| `MC*` | constants of the instances TLC checks |

A comment beginning with `Slip:` marks an operator that no specification uses: it
states the definition below it as a plausible mistake would have it (a missing
guard, a swapped order). Putting it in place of that definition violates the
property it is meant for, which shows that the property depends on the code.

### RuntimeEventStore

`status`, `attempt`, `owner`, `lease`, `nextAt` are the columns of `runtime_nodes`,
`runStatus` the one of `runtime_runs`, `events` the log of each node, `held` the
`ClaimedNode` a process has in memory. `resumes` is a history variable.
`RegisterGraph`, `ClaimReadyNode`, `CompleteNode`, `WaitNode`, `FailNode`,
`ResolveWaitingNode` and `RecoverExpiredLeases` are the methods of those names;
`StaleClaim` is a finishing method that raises; `Crash` and `Tick` are the world.
`RefreshRunStatus` (`_refresh_run_status`) is part of the actions that call it.

Time is relative: the code compares instants and adds durations only, so a timer
is the number of seconds until it is due, and `Tick` counts all of them down. Most
methods read the clock before they have the write lock: `delay \in Delay` is how
old that reading may be, up to `LockWait`. A timer overdue by `LockWait` is due for
every caller and is not counted further, which keeps the state space finite.

Left out: artifact rows; the payload, output and error columns; `started_at`,
`completed_at`; the run-level event `graph_registered`.

### UnifiedExecution

`pc[w]` is where process `w` is in `run`: register, recover leases, claim, execute,
look at the run, and off again. `Look` may always leave, since `max_nodes` may be
any number. An executor is an arbitrary function. `ExecuteStale` is a claim that was
lost to another process meanwhile: the finishing method raises, `fail_node` in the
handler raises again, and so does `run`. `Die` may happen anywhere.

### WorkingSetStore

`task` is `task.json`, `files` the version files, `lock` the holder of the flock;
`pc`, `call`, `record` and `draft` are a call's position and local variables, and
`ctx` is the pair its caller holds afterwards. The two renames are two actions, and
so are the two reads of `load_context`, which take no lock. `Crash` drops the flock
and leaves the files. One list field stands for the twelve of a Working Set, which
the store treats alike; a change either appends to it or replaces it. A crash is
that of a process: what the system had accepted stays (`fsync` and power loss are
not modelled). The fallback without `fcntl`, which locks nothing, is the slip
`LockNothing`: the guarantees need a POSIX system.

### TaskGraphExecution

Of a Working Set it keeps the status of the task, the unknowns with their state,
the waiting obligations, the checkpoints and the judgment. `output` is the
`output_json` of each node, reduced to the patch in it: none, the one the constants
`Raises` and `Resolves` give the node, or a malformed one. A success, a wait and a
decision replace it, a rejection clears it, and a failure, which may be retryable,
leaves it. `synchronize` applies the patch in every output, whatever the node has come
to (`Patched`), and raises on a malformed one. `StartResolve` validates
the closure output and `Decide` commits to the event store, two steps apart, and
`ReadRun`, `ReadNodes`, `ReadEventCount` are the three queries of `run_snapshot`.
`LoadContext`, `LoadUpToDate`, `LoadAndRaise`, `Update` and `UpdateConflict` are
`synchronize`, which tries three times. Load and revision are each
one step, which `ImplementsVersionedTask` justifies. Leases do not expire here (the
clock does not move): a claim that is lost and taken over is left to
`UnifiedExecution`. A process that dies is one that takes no further step.
`OtherRevision` is another run of the task. Handoffs are left to `HandoffExecution`.

### DirectExecution

`log` has the run and reason of each version, `moves` the handoffs in the current
one; `context` and `summary` are the files of each run directory. The test for a
file and its writing are two steps. `WriteError` fails the write a process is at:
before the executor the exception leaves the call, after it the run fails, in the
handler it leaves again. `context` stands for the three files that are written once
per run. No code under `src/` calls `claim_runtime_handoff` and
`recover_runtime_handoff_claim`: they are steps of whoever plans and of a person, and
a handoff is claimed for a run that has not begun.

### HandoffExecution

`status` is the status of each graph in the event store, and `call` what a
coordinator has in memory: the snapshot it was given, whether it reconciles, and
the Working Set it has loaded. `RunGraph` is `run`, `resume` or `resolve` up to the
snapshot, with the engine reduced to what may become of the status (a graph that has
failed or succeeded keeps its verdict: `ImplementsOutcomes` of the event store and
`GraphsHaveOutcomes` here are the two sides of that); `Progress` is the same by another
process. A graph that has failed looks open in a snapshot (`Seen`) while another process
executes a node of it, since a claim sets the run to running
(`runtime_event_store.py:333`). `LoadWorkingSet`,
`LoadUpToDate`, `Synchronize` and `SynchronizeAgain` are the loop of `synchronize`;
`GiveUp` is whatever it raises. A checkpoint that is recorded twice is recognised by
its event count, which is final only for a graph that has succeeded: for the others
both branches are possible.

### TaskGraph

A document is `nodes`, `dependsOn` and one bit, `sound`, for its other defects.
`Check` is the list of issues of `validate`; `Round`, `RaiseCycle` and `Accept` are the
loop of `topological_order`, with `left` and `required` the dictionary it empties;
`layer` records the round in which a node was placed. `Settle` and `Resolve` execute
what `ready_nodes` returns; claims and retries are in `RuntimeEventStore`.

### Planning

One action per function of the planner: `Collect` (`_working_set_role_signals`),
`Decide` (`build_planner_decision`), `BuildPlan` (`build_capability_plan`),
`CompileDirect` and `CompileGraph`. What the question says is an input: how many terms
of each binding it names and how confident the route is. A Working Set is the sequence
of its items in the order the planner reads them, each with its list, role, status,
batch and what it says (equal numbers for equal statements). Scores are hundredths,
as integers. The decision is the selected candidate (`Best`) with its unresolved items:
that no binding serves the items (`Unserved`), and that the runner-up is close and of
another route family (`Ambiguous`). `Close` is the comparison `< 0.08` as floating point
makes it, which for a difference of eight hundredths depends on the scores. `Refuse` is every exception, and takes the plan with it. `verdict` is what
the output of a role node says of itself, apart from its status: a person may skip or
complete a node with any output. `ReportPasses` is the assurance report.

### RunDirectory

`disk` has the two documents of each run, `stored` the graph in its row. Looking for a
file, opening it (which empties it) and writing it are three steps; `Register` is one
transaction. `Leave` is the end of a call, an exception or a death, anywhere. A backup
copies the database, lists the files and copies them one by one (`BackupDatabase`,
`ListFiles`, `CopyFile`, `FinishBackup`); `Restore` brings both back after the
processes are gone, to where there was nothing, which the code checks. `overlapped`
records the one race the properties have to except (section 6).

## 3. What the runs check

| Run | Properties | What it shows |
|---|---|---|
| `fork` | `TypeOK`, `DependencyOrder`, `ExclusiveClaim`, `OneOutcomePerAttempt`, `RowsAreReplayOfEvents`, `AttemptsBounded`, `RunVerdict`, `OutcomesAreFinal`, `ImplementsDag`, `ImplementsOutcomes` | the store with two workers of one `worker_id`, on a node that feeds two others and on a second run; clock readings one second old; one recovery of leases settles nodes of both runs |
| `engine` | `EngineTypeOK`, `EveryNodeSettles`, `EveryCallReturns` | liveness: nothing is stuck behind a dead process |
| `working_set` | `TypeOK`, `VersionsAreContiguous`, `ContextWasPublished`, `PublishedIsImmutable`, `ImplementsVersionedTask`, `LockIsReleased` | readers, writers and a death between any two file operations |
| `coordinator` | `CoordTypeOK`, `OneRevisionPerCheckpoint`, `ClosureIsEarned`, `NothingDisappears` | two coordinators at one run, with another run of the same task |
| `direct` | `HandoffTypeOK`, `RunRevisesOnce`, `SuccessIsMaterialized`, `ConsumedForGood`, `OnlyOwnerEndsClaim` | two processes make a direct run over and over beside a coordinator of a task graph, with two handoffs, and a death or a failing write |
| `planning` | `PlanTypeOK`, `OrderRespectsDependencies`, `CycleIsReal`, `NeverStuck`, `OpenItemsAreAnswered`, `CompiledGraphsAreValid`, `RolesInOrder`, `GateSeesCleanRun`, `PlanningEnds` | every small question planned, compiled, validated and executed; every small document validated and executed |
| `recovery` | `TypeOK`, `WorkersShareGraph`, `DirectoryHoldsGraph` | three processes register one run with two graphs, beside a backup and a restore |
| `reopened` | `ResolvedIsNotOpen` (violated) | section 6 |
| `hidden` | `ClosedDisposesOpenItems` (violated) | section 6 |
| `stale` | `UpToDateIsMaterialized` (violated) | section 6 |
| `rewritten` | `TerminalSummary` (violated) | section 6 |
| `outscored` | `OpenItemsBecomeAssignments` (violated) | section 6 |

### Bounds

* `fork`: three nodes are the smallest graph with a dependency and two nodes ready
  at once, so that a claim can override a waiting or failed run. Node 1 has two
  attempts, so that it is retried, recovered and claimed again while its first
  worker still holds the old claim. One resume per node. The lease lasts one tick, and
  `LockWait = 1`, so that a caller with an old clock and one with a new clock disagree
  about a lease. Node 4 is a second run, because one call of `recover_expired_leases`
  touches both; beside it the first run is a chain of two without resumes
  (`OneForkOrTwoRuns`): three nodes and resumes of one run, or two runs, but not both at
  once. About 228,000 states up to the symmetry of the workers.
* `engine`: a chain of two nodes with two attempts and a backoff; two deaths, enough
  for both attempts of a node to be lost. No resumes: with them a person could go
  on for ever, which the abstract budget excludes anyway. About 60,000 states.
* `working_set`: two processes, three versions, one death: a version is orphaned,
  written again, and revised once more. About 74,000 states.
* `coordinator`: an agent that raises an unknown, with a patch that is sound or
  malformed, and the closure gate after it; two attempts of the agent, four
  calls of the coordinators, one revision from outside. The second attempt and the
  revision from outside are not combined (`RetryOrOtherRun`). About 2,600,000 states up
  to the symmetry of the processes.
* `direct`: one direct run and one graph, so that a claim can be recovered and given to
  the other; two handoffs, so that a run may own two; four versions hold the creation,
  a claim, and either its end or its recovery and the claim of the other run; one
  fault, which is a death or a write that fails. Two processes, since two of them can
  make one run at once; one coordinator, since `Progress` and the others are what
  makes its snapshot old. About 1,170,000 states up to symmetry.
* `planning`: three execution roles and seven bindings (a direct run, a pipeline, an
  action workflow, roles in a circle, a role that waits for an inactive one, the
  orchestrator as a role, an unknown mode). Working Sets of up to two items of any
  class and role, three unknowns of any roles, items of any status, batches of
  handoffs; every document of three nodes whose dependencies may include a fourth
  that is missing. Three nodes make a circle with a tail, or two layers. About 101,000
  states.
* `outscored`: the instance of `planning`; a question that names a workflow, and open
  items that score the same.
* `recovery`: three processes, so that two race while a third resumes; two graphs,
  since any two that differ are alike. About 224,000 states up to symmetry.

Symmetry is declared only in runs without liveness properties. Deadlock is checked
in `engine`, `working_set` and `recovery`; in the other runs the system really stops: every
node is settled and nobody calls again, or a bound is used up.

### Fairness

* `engine`: weak fairness of the steps of each process (a process that is not dead
  goes on, and executors return), of somebody calling `run` or `resume` for each
  run (the code recovers leases and retries only inside such a call, so a
  deployment has to do this; no particular process has to), and of the clock. A
  person's decision is never assumed: a node that waits for one counts as settled.
* `working_set`: weak fairness of the steps of a call that has begun. Who gets the
  flock next is left open, so a single writer may starve; `LockIsReleased` says only
  that whoever has the lock lets go of it.
* `planning`: weak fairness of the steps of `plan_runtime` and `register` (`Think`),
  which are function calls that run to their end. The execution of the graph is not
  assumed to go on.
* The other modules state safety only and assume nothing.

## 4. What is proved

All theorems hold for every value of the constants that satisfies the module's
named assumptions: for the event store any finite or infinite set of nodes, any
dependency relation within runs, any retry policies, any number of workers and any
worker ids; for the planner any roles, bindings and Working Sets of any length.

`RuntimeEventStoreProofs` proves `TypeOK`, `DependencyOrder`, `ExclusiveClaim`,
`OneOutcomePerAttempt`, `RowsAreReplayOfEvents`, `AttemptsBounded`, `RunVerdict`,
`OutcomesAreFinal` and the refinements `ImplementsDag` and `ImplementsOutcomes`.
Assumptions: `NodesAssumption`
(dependencies stay within a run), `PolicyAssumption`, `NullAssumption`. No property
is inductive alone. `IInv` is the conjunction of

* `TypeOK`, and `AbsentRuns`: the nodes of an unregistered run are absent;
* `RunVerdict` and `DependencyOrder`, which need `AbsentRuns`;
* `Fence`: no claim is newer than its row, and no two processes hold the same
  attempt of the same node. A new claim has a number nobody holds, since it is one
  more than the row's: this is why the shared `worker_id` does no harm
  (`ExclusiveClaim` follows in `FenceExcludes`);
* `AttemptBudget`: the budget, strict for a node that may still be claimed. A
  recovered or retried node has an attempt left, and a resume pays for its own;
* `RowIsReplay` and `LogIsStory`: the row is the replay of its log, and any two
  neighbouring events of a log may follow each other. Each needs the other: what may
  be appended is decided by the row, and what the row says by the last event;
* `LeaseColumns`: a node runs exactly while it has an owner and a lease.

The refinement maps the status of a row to a phase (`PhaseOf`), `attempt` to tries
and `resumes` to granted tries: every transaction begins or ends a try, gives up a
set of them, decides a parked node, or stutters.

`ImplementsOutcomes` says what `OutcomesAreFinal` leaves open: `claim_ready_node` sets a
run that has failed back to running, so its status alone is not final. `OutcomeOf` reads
the rows of its nodes as well; a failed node keeps its run failed (`FailedRows`), and the
status of a run changes only to what its nodes imply, or to running (`RunsStay`).

`UnifiedExecutionProofs` proves `EnginesUseStore` (`EngineSpec => Spec`): a step of an
engine is one transaction of the store or none, so that every theorem about the store
holds under the engines, also where they die. `EngineTypeOK` follows with the `IInv` of the
store: a process holds a claim exactly while it executes it, since the claim of a finishing
method that is not stale is ended by it, and one that is stale is dropped.

`TaskGraphExecutionProofs` proves `CoordinatorsUseStore` (the same for the coordinators),
`CoordTypeOK`, `OneRevisionPerCheckpoint`, `ClosureIsEarned` and `NothingDisappears`, for any
graph, patches and number of processes. Assumption: `GraphAssumption` (the nodes of the run
are finite, and the closure gate is one of them). `CoordTypeOK` says for each step of a call
what its process has in memory (`Memory`): the arguments of a decision, a snapshot as far as
its three queries have got, and a Working Set from `LoadContext` to `Update`. `CInv` adds to
it and the `IInv` of the store

* `SnapshotIsPast`: a success that a snapshot tells of, of the run or of the gate, is
  still one in the store, since `OutcomesAreFinal`. Nothing else in a snapshot has to be
  true any more, and the violated `stale` shows that more is not;
* `LoadedIsPast`: what a process is about to revise has passed the checks of `synchronize`,
  and is the Working Set of the task if that has the version that was loaded. This is what
  makes the test of the version enough: a revision adds the checkpoint that was missing in
  the very Working Set it revises.

`HandoffExecutionProofs` proves `HandoffTypeOK`, `RunRevisesOnce`, `SuccessIsMaterialized`,
the action properties `ConsumedForGood` and `OnlyOwnerEndsClaim`, and `GraphsHaveOutcomes`, for
any number of processes, coordinators, runs and handoffs. Assumptions: `BoundsAssumption`,
`NullAssumption`, `GraphRunsAssumption`. `HInv` adds to the properties

* `LoadedIsCurrent`: who works from the current version works from the current handoffs;
* `ContextFirst`: a process executes only under a context file of its run;
* `RevisedLater`: the context file names a version before the one revision of the run, and
  so does whatever every process that makes the run has loaded. The store then refuses each
  of them a second revision;
* `CallsAgree`, `CheckpointsAgree`: an end that a coordinator has seen, or a checkpoint
  tells of, is the end of that graph;
* `SummaryAfterRevision`, `ConsumedBySuccess`: a summary and a consumed handoff come after
  the revision they stand for (the second is a part of `SuccessIsMaterialized`).

The handoffs change by a claim, a recovery or the end of the claim of one run together with
a revision by that run (`HandoffsStep`), which gives both action properties.

`WorkingSetStoreProofs` proves `TypeOK`, `VersionsAreContiguous`,
`ContextWasPublished`, `PublishedIsImmutable` and the refinement
`ImplementsVersionedTask` (safety part: `VersionedTask` states no fairness).
Assumptions: `ChangesAssumption`, `BoundsAssumption`, `NullAssumption`. `IInv` adds
to the properties

* `RecordWasCurrent`: the record a reader holds between its two reads names a
  version that is published still;
* `ContextStatus`: the status in memory belongs to the version in memory;
* `CallExpectsContext`: a call revises from the version its caller has loaded;
* `DraftIsCurrent`: what the holder of the lock is about to write is the successor
  of the record on disk, which no one else changes (`HolderOwnsDisk`);
* `DraftIsWritten`: before the record is written, the file it names is the draft.

The refinement takes the record, not the files, as the state of the register: a
revision happens when `task.json` is renamed, and a load happens when a reader reads
`task.json`, whatever is published before it reads the version file.

`TaskGraphProofs` proves `GraphTypeOK`, `OrderRespectsDependencies`, `CycleIsReal` and
`NeverStuck`. Assumption: `IdsAssumption` (documents are finite). `GraphInv` adds

* `RequiredIsLeft` (what a node still requires is what it depends on and is left) and
  `PlacedInOrder` (what is placed has its dependencies in earlier rounds): the loop
  invariant of `topological_order`. `PlacedInOrder` is the order once nothing is left,
  and `RequiredIsLeft` makes every node of a reported cycle depend on another one;
* `StartedInOrder`: nothing starts before its dependencies are completed.

`NeverStuck` needs an argument of its own: of the pending nodes take one in the
smallest layer (`SmallestNumber`); its dependencies are in smaller layers, so
none of them is pending, and it is ready.

`PlanningProofs` proves that planning implements the execution of graphs
(`PlanningIsGraph`: `PlanSpec => GraphSpec`), so that the theorems above hold of what is
planned, and `PlanTypeOK`, `RolesInOrder`, `GateSeesCleanRun`, `CompiledGraphsAreValid` and
`OpenItemsAreAnswered`. Assumption: `PlanningAssumption` (types of the configuration;
no decision is `NULL`). `PlanTypeOK` needs `DecisionTyped`: the decision is one of the
candidates, which are typed because bindings and signals are, and there is none exactly
while planning has not got that far. The other invariants are

* `PackageInv`: packages are of roles of the plan and items of the Working Set;
* `CompiledInv`: a compiled graph still has the dependencies the compiler gave it;
* `ReportStands`: once assurance has passed, everything before it stays completed and
  its outputs stay what the report saw. This gives `GateSeesCleanRun`, since the gate
  waits for assurance;
* `AnswerInv`: signals are the top items, the decision is a best candidate, and
  packages are those of its roles. `OpenItemsAreAnswered` follows for a plan whose
  candidate came from the Working Set: that candidate was served by a binding with all
  the roles of the signals, or asks for the baseline role only.

`CompiledGraphsAreValid` maps a set of nodes that blocks `topological_order` to the
roles of its packages, which the binding then has in a circle (`CycleOfRoles`).

`RunDirectoryProofs` proves `TypeOK`, `WorkersShareGraph` and `DirectoryHoldsGraph`.
Assumption: `ContentAssumption`. `WorkInv` suffices for the second: a row never
changes while anyone works on its run. `DirectoryInv` says for each run that did not
overlap that at most one process fills its file (`OneFills`), that it began with no
file and no row (`FilledFromNothing`), that a process past the file agrees with it
(`PastAgreed`), that the row does (`RowAgrees`), and that a copy in a backup agrees
with the row of that backup (`BackupAgrees`), which is older: this is why the database
has to be copied first.

## 5. What is only model-checked

* Liveness (`EveryNodeSettles`, `EveryCallReturns`, `LockIsReleased`, `PlanningEnds`):
  liveness under fairness and `ENABLED` are beyond the proof system.
* `ResolvedIsNotOpen`, `ClosedDisposesOpenItems`, `UpToDateIsMaterialized`,
  `TerminalSummary` and `OpenItemsBecomeAssignments` do not hold (section 6).
* That a step of `HandoffExecution` or `TaskGraphExecution` on the Working Set is a call of
  `WorkingSetStore`: they take the Working Set as revised atomically, as `VersionedTask`
  does, and the two are linked by reading, not by a refinement.

* What a recursive definition computes for every input cannot be proved with the
  installed provers; the models have none (`topological_order` is a loop of actions).

Every invariant and every action property of a passing run is a theorem, and so is every
refinement a run checks.

## 6. Where the code does not do what it says

Five are runs TLC must find violated, with the statement they contradict quoted in
`PROJECT.json`:

* `reopened`: an unknown that a node of the run has resolved is appended again as
  open by the next checkpoint of the run (`task_graph_execution.py:293`). It is then
  both open and resolved, and every later `synchronize` of the run raises.
* `hidden`: the closure is validated against the Working Set as loaded, and the same
  revision adds what nodes have raised (`task_graph_execution.py:573`): a task can be
  closed with `none_open` by the revision that adds its first open unknown.
* `stale`: `synchronize` writes whatever snapshot it has, however old; the newest
  checkpoint being recorded, no later resume corrects the status of the task
  (`task_graph_execution.py:577`).
* `rewritten`: a summary that says `succeeded` is overwritten with `failed` when two
  processes make the same run (`direct_execution.py:306`).
* `outscored`: `docs/principles.md:74` (and `docs/architecture.md:52-57`) says that all open items at the highest active
  priority become assignments. A workflow that scores as high as they do, or higher, is
  selected instead (`semantic_execution_planner.py:575`): of equal scores the smaller
  candidate id wins, and `working-set:` sorts last. None of the items gets an assignment,
  and the unresolved items of the decision tell of a close call only between different
  route families. A plan that is made from the Working Set does answer all of them
  (`OpenItemsAreAnswered`).

Others are behaviours the models have and the properties except:

* `docs/principles.md:74-76` says as well that two questions owned by one role become two
  parallel instances. Planning raises instead when the binding is a direct run
  (`direct_run.py:155`: exactly one task package), and when two handoff moves of a role
  say the same, since their assignment ids lack the position in the list
  (`semantic_execution_planner.py:339`, `capability_planner.py:171`). In `Planning` both
  are `Refuse`; both were reproduced with the Python code.
* Two processes that plan one `run_id` anew can both find its directory empty, and
  one writes its graph over the file of the other, which it has registered already
  (`unified_execution.py:169-179`). File and row then differ, and every later `resume`
  raises. `DirectoryHoldsGraph` excepts these runs (`overlapped`), and no others.
* A death while `task_graph.json` is written leaves a file that no call accepts: its
  `run_id` cannot be used any more.
* A backup has neither the role manifest nor the outputs of nodes; `register` writes
  the manifest again.
* A malformed `working_set_patch` is committed with its node or its decision and parsed
  only by `synchronize` (`task_graph_execution.py:397`): each later checkpoint of the run
  raises, and the Working Set does not learn what becomes of it.
* The closure gate opens on a skipped node whose output denies its success, since the
  assurance report asks for the outcome of succeeded nodes only
  (`runtime_assurance.py:122-124`); `GateSeesCleanRun` says so.
* A run that owns two claims ends neither of them, and nobody can recover them
  (`working_set_semantics.py:533`).

## 7. What is not modelled, and why

* The matching of words in questions, and the loading and validation of YAML (roles,
  routes, domain packs, bindings, paths): no state and no interleaving. What they
  produce is a constant or an input of `Planning`.
* The text of plans, contracts, packages, reports and requests, and the report that
  compares plans with expected ones.
* Checksums, the restore drill and a restore that stops half way: the first two are
  comparisons of what was copied, and a restore to a place that is not empty is
  refused.
* Path checks, hashes of artifacts and the schema of documents: data no property
  here tells apart.
* The reference pack and the tests; the tests were read for what they expect.

## 8. Plan

1. The Working Set of `TaskGraphExecution` and of `HandoffExecution` as a refinement of
   `VersionedTask`, which ties them to the files of `WorkingSetStore` by a theorem.
2. `RuntimeEventStore` as a refinement of `GraphSpec` on one run, which carries
   `NeverStuck` over to claims and retries.
3. Under which conditions the violated properties hold: `UpToDateIsMaterialized` with one
   coordinator at a time, `ResolvedIsNotOpen` for runs whose nodes resolve nothing they have
   raised.
4. Liveness of the coordinator: after the last step of a run, some call
   materializes it, under the conditions where `stale` does not bite.
