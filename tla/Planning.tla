------------------------------ MODULE Planning ------------------------------
(***************************************************************************)
(* Planning: a question and the current Working Set of the task become a   *)
(* decision (build_planner_decision), a capability plan with one task      *)
(* package per Agent instance (build_capability_plan), and a direct run or *)
(* a task graph, which is validated and executed up to its closure gate.   *)
(*                                                                         *)
(* Scores are in hundredths.  Working Set items are the entries of the     *)
(* lists the planner reads, in the order of their lists; a handoff move    *)
(* has the field "required" or "recommended" after its handoff_strength.   *)
(***************************************************************************)
EXTENDS TaskGraph, Sequences, FiniteSetsExt

CONSTANTS
  Roles,         \* execution roles the Domain Pack governs
  Orchestrator,  \* its orchestrator role
  Baseline,      \* planning.baseline_owner_role
  Bindings,      \* planning.workflow_bindings, in the order of their ids
  Inputs,        \* questions with the Working Sets they are asked in
  Documents,     \* task graphs that are not compiled but loaded
  NULL           \* not there yet

Names == Roles \union {Orchestrator}
Modes == {"direct_run", "task_graph", "unsupported"}
Fields == {"active_obligations", "current_judgment", "unknowns", "required",
           "counterfactuals", "recommended"}
Moves == {"required", "recommended"}

Item == [field : Fields, role : Names, status : {"open", "claimed", "resolved", "dismissed", "tested"},
         batch : Nat, says : Nat]
Binding == [roles : SUBSET Names, mode : Modes, analysis : BOOLEAN, family : Nat,
            deps : [Names -> SUBSET Names]]
\* route and confidence are those of the matched or the default route.
Input == [items : Seq(Item), matches : [DOMAIN Bindings -> 0 .. 4], route : Nat, confidence : 0 .. 100]

Candidate == [source : {"route", "workflow", "working_set"}, roles : SUBSET Names, mode : Modes,
              analysis : BOOLEAN, deps : [Names -> SUBSET Names], assigned : SUBSET Nat,
              family : Nat, score : Nat, tie : Nat]
Decision == [plan : Candidate, unresolved : SUBSET {"review", "ambiguous"}]

Context == <<"plan.semantic-context", 0>>
Primary == <<"execute.primary", 0>>
Assurance == <<"assurance.system", 0>>
Gate == <<"gate.orchestrator-closure", 0>>
SystemIds == {Context, Primary, Assurance, Gate}

ASSUME PlanningAssumption ==
  /\ NULL \notin Decision
  /\ IsFiniteSet(Roles) /\ Orchestrator \notin Roles
  /\ Baseline \in Roles
  /\ Bindings \in Seq(Binding)
  /\ \A i \in Inputs : i \in Input
  /\ SystemIds \subseteq Ids
  /\ \A i \in Inputs : Roles \X (0 .. Len(i.items)) \subseteq Ids
  /\ SystemIds \intersect (Roles \X Nat) = {}
  /\ \A d \in Documents :
       d.nodes \in SUBSET Ids /\ d.dependsOn \in [d.nodes -> SUBSET Ids] /\ d.sound \in BOOLEAN

VARIABLES
  input,     \* the question and the Working Set, or the document
  signals,   \* the items of the Working Set that ask for a role
  decision,  \* the planner decision
  packages,  \* task packages: <<role, item>>, item 0 if no item asked for it
  step,      \* where plan_runtime is
  verdict    \* what the output of each role node says of itself

planVars == <<graphVars, input, signals, decision, packages, step, verdict>>

Verdicts == {"clean", "disclaimed", "forbidden"}

(* plan_runtime is called, or a graph is registered that nobody planned. *)
PlanInit ==
  /\ GraphInit
  /\ \/ input \in Inputs /\ step = "collect"
     \/ input \in Documents /\ step = "load"
  /\ signals = {}
  /\ decision = NULL
  /\ packages = {}
  /\ verdict = [n \in {} |-> "clean"]

(* The document is read. *)
Load ==
  /\ step = "load"
  /\ Submit(input.nodes, input.dependsOn, input.sound)
  /\ step' = "loaded"
  /\ verdict' = [n \in nodes' |-> "clean"]
  /\ UNCHANGED <<input, signals, decision, packages>>

(* Planning raises, and what it has made so far is gone. *)
Refuse ==
  /\ step' = "refused"
  /\ packages' = {}
  /\ UNCHANGED <<graphVars, input, signals, decision, verdict>>

-----------------------------------------------------------------------------
(* The signals of the Working Set *)

Items == input.items

Priority(i) ==
  CASE Items[i].field = "active_obligations" -> 99
    [] Items[i].field = "current_judgment" -> 98
    [] Items[i].field = "unknowns" -> 97
    [] Items[i].field = "required" -> 96
    [] Items[i].field = "counterfactuals" -> 95
    [] Items[i].field = "recommended" -> 94

AllMoves == {i \in DOMAIN Items : Items[i].field \in Moves}

(* latest_runtime_handoff_batch: the moves of the batch of the last one, or *)
(* the last one alone if it names no batch.                                 *)
LatestBatch ==
  LET last == Max(AllMoves)
  IN  {i \in AllMoves : i = last \/ (Items[last].batch # 0 /\ Items[i].batch = Items[last].batch)}

(* Of its open moves, the required ones, or the recommended if none is. *)
OpenMoves ==
  LET open == {i \in LatestBatch : Items[i].status = "open"}
      required_ == {i \in open : Items[i].field = "required"}
  IN  IF required_ # {} THEN required_ ELSE open

(* The other items the planner does not hold to be closed. *)
OpenItems ==
  {i \in DOMAIN Items \ AllMoves : Items[i].status \notin {"resolved", "dismissed"}}

RoleItems == {i \in OpenItems \union OpenMoves : Items[i].role \in Roles}

(* The open items of execution roles, of the class with the highest score. *)
TopItems == {i \in RoleItems : \A j \in RoleItems : Priority(i) >= Priority(j)}

(* _working_set_role_signals *)
Collect ==
  /\ step = "collect"
  /\ signals' = TopItems
  /\ step' = "decide"
  /\ UNCHANGED <<graphVars, input, decision, packages, verdict>>

-----------------------------------------------------------------------------
(* Candidates and the decision *)

None == [r \in Names |-> {}]

Baselined(score, tie, source, mode, assigned) ==
  [source |-> source, roles |-> {Baseline}, mode |-> mode, analysis |-> TRUE,
   deps |-> None, assigned |-> assigned, family |-> input.route, score |-> score, tie |-> tie]

(* The route the question matches, or the default route. *)
RouteCandidate == Baselined(input.confidence, 0, "route", "direct_run", {})

(* _binding_candidate: a workflow some of whose terms the question names. *)
WorkflowCandidate(b) ==
  [source |-> "workflow", roles |-> Bindings[b].roles, mode |-> Bindings[b].mode,
   analysis |-> Bindings[b].analysis, deps |-> Bindings[b].deps, assigned |-> {},
   family |-> Bindings[b].family,
   score |-> Min({96, 82 + 4 * input.matches[b]}), tie |-> b]

WorkflowCandidates ==
  {WorkflowCandidate(b) : b \in {named \in DOMAIN Bindings : input.matches[named] > 0}}

RequiredRoles == {Items[i].role : i \in signals}
Compatible == {b \in DOMAIN Bindings : RequiredRoles \subseteq Bindings[b].roles}

(* The compatible binding with the fewest roles. *)
Smallest ==
  Min({b \in Compatible : \A c \in Compatible :
         Cardinality(Bindings[b].roles) <= Cardinality(Bindings[c].roles)})

(* No binding has all the roles the open items ask for. *)
Unserved == signals # {} /\ RequiredRoles # {Baseline} /\ Compatible = {}

(* The open items go to the baseline owner, in a direct run if it is one. *)
BaselineAssignment ==
  Baselined(Priority(Max(signals)), Len(Bindings) + 1, "working_set",
            IF Cardinality(signals) = 1 THEN "direct_run" ELSE "task_graph", signals)

(* They go to the roles of the smallest binding, or those of them that were *)
(* asked for if the work is analysis, with the dependencies between them.   *)
BindingAssignment ==
  LET binding == Bindings[Smallest]
      active == IF binding.analysis THEN RequiredRoles ELSE binding.roles
  IN  [source |-> "working_set", roles |-> active, mode |-> binding.mode,
       analysis |-> binding.analysis, family |-> binding.family,
       deps |-> [r \in Names |-> IF r \in active THEN binding.deps[r] \intersect active ELSE {}],
       assigned |-> signals, score |-> Priority(Max(signals)), tie |-> Len(Bindings) + 1]

(* _working_set_candidate *)
WorkingSetCandidates ==
  IF signals = {} \/ Unserved THEN {}
  ELSE IF RequiredRoles = {Baseline} THEN {BaselineAssignment} ELSE {BindingAssignment}

Candidates == {RouteCandidate} \union WorkflowCandidates \union WorkingSetCandidates

(* The first of the sorted candidates S: the highest score, and of equal     *)
(* ones the smaller candidate_id; route: sorts before workflow:, and that   *)
(* before working-set:.                                                     *)
Best(c, S) ==
  \A d \in S : c.score > d.score \/ (c.score = d.score /\ c.tie <= d.tie)

(* Less than 0.08 apart, as floating point has it: a difference of eight    *)
(* hundredths is rounded down except below these scores.  (The selected     *)
(* candidate scores at least 86 wherever there is a second one.)            *)
Close(high, low) == high - low < 8 \/ (high - low = 8 /\ high \notin 90 .. 93)

(* The runner-up is of another route family and close.                      *)
Ambiguous(c) ==
  LET others == Candidates \ {c}
  IN  \E d \in others : Best(d, others) /\ d.family # c.family /\ Close(c.score, d.score)

(* build_planner_decision: what no binding can serve, and a close call      *)
(* between route families, are unresolved items for the orchestrator.       *)
Decide ==
  /\ step = "decide"
  /\ \E c \in Candidates :
       /\ Best(c, Candidates)
       /\ decision' = [plan |-> c,
                       unresolved |-> (IF Unserved THEN {"review"} ELSE {})
                                      \union (IF Ambiguous(c) THEN {"ambiguous"} ELSE {})]
  /\ step' = "plan"
  /\ UNCHANGED <<graphVars, input, signals, packages, verdict>>

-----------------------------------------------------------------------------
(* The capability plan *)

Plan == decision.plan

(* The assignment ids of items: a hash of field, role and statement, and of *)
(* the position in the list, which the references of handoff moves lack.    *)
AssignmentId(i) ==
  IF i \in AllMoves THEN <<"next_candidate_moves", Items[i].role, Items[i].says, 0>>
                    ELSE <<Items[i].field, Items[i].role, Items[i].says, i>>

\* Slip: one task package per role, whatever it has to answer.
PackagePerRole(r) ==
  LET assigned == {i \in Plan.assigned : Items[i].role = r}
  IN  IF assigned = {} THEN {<<r, 0>>} ELSE {<<r, Max(assigned)>>}

(* The task packages of a role: one per item assigned to it, or a default.  *)
PackagesOf(r) ==
  LET assigned == {i \in Plan.assigned : Items[i].role = r}
  IN  IF assigned = {} THEN {<<r, 0>>} ELSE {<<r, i>> : i \in assigned}

(* build_capability_plan raises on roles it cannot activate, dependencies   *)
(* on inactive roles, and assignments that look alike.                      *)
Buildable ==
  /\ Plan.roles # {} /\ Plan.roles \subseteq Roles
  /\ \A r \in Plan.roles : Plan.deps[r] \subseteq Plan.roles
  /\ \A i, j \in Plan.assigned : AssignmentId(i) = AssignmentId(j) => i = j

BuildPlan ==
  /\ step = "plan"
  /\ IF Buildable
     THEN /\ packages' = UNION {PackagesOf(r) : r \in Plan.roles}
          /\ step' = "compile"
          /\ UNCHANGED <<graphVars, input, signals, decision, verdict>>
     ELSE Refuse

-----------------------------------------------------------------------------
(* compile_capability_plan_to_direct_run, compile_capability_plan_to_task_graph *)

(* A direct run needs one role, one task package and something to execute. *)
CompileDirect ==
  /\ step = "compile"
  /\ Plan.mode = "direct_run"
  /\ IF Cardinality(Plan.roles) = 1 /\ Cardinality(packages) = 1 /\ Plan.analysis
     THEN /\ step' = "direct"
          /\ UNCHANGED <<graphVars, input, signals, decision, packages, verdict>>
     ELSE Refuse

(* Any other orchestration mode is refused. *)
RefuseMode ==
  /\ step = "compile"
  /\ Plan.mode = "unsupported"
  /\ Refuse

\* Slip: packages wait for the primary target whether there is one or not.
StartPrimary == Primary

(* What a package without explicit dependencies waits for. *)
Start == IF Plan.analysis THEN Primary ELSE Context

\* Slip: a package depends on one package of each role its role depends on.
UpstreamLast(p) ==
  {q \in packages : q[1] \in Plan.deps[p[1]] /\ \A o \in packages : o[1] = q[1] => o[2] <= q[2]}

(* The packages whose role the role of p depends on. *)
Upstream(p) == {q \in packages : q[1] \in Plan.deps[p[1]]}

(* depends_on of the node ids of a compiled graph: packages without          *)
(* explicit dependencies wait for the primary target, assurance for all of   *)
(* them, and the closure gate for assurance.  (parallel_handoffs only names  *)
(* roles that have explicit dependencies, so that branch is never taken.)    *)
Dependencies(n) ==
  IF n \in packages THEN (IF Upstream(n) # {} THEN Upstream(n) ELSE {Start})
  ELSE IF n = Primary THEN {Context}
  ELSE IF n = Assurance THEN packages
  ELSE IF n = Gate THEN {Assurance}
  ELSE {}

CompileGraph ==
  /\ step = "compile"
  /\ Plan.mode = "task_graph"
  /\ LET ids == packages \union (IF Plan.analysis THEN SystemIds ELSE SystemIds \ {Primary})
     IN  /\ Submit(ids, [n \in ids |-> Dependencies(n)], TRUE)
         /\ verdict' = [n \in ids |-> "clean"]
  /\ step' = "compiled"
  /\ UNCHANGED <<input, signals, decision, packages>>

-----------------------------------------------------------------------------
(* Execution of the graph *)

\* Slip: the report looks at the nodes that succeeded only.
ReportOfSucceeded ==
  \A p \in packages : status[p] = "succeeded" => verdict[p] = "clean"

(* run_system_assurance: the report passes if everything before it is       *)
(* completed, no output names a forbidden action, and no node succeeded     *)
(* with an output that normalize_runtime_outcome does not read as success.  *)
ReportPasses ==
  /\ \A n \in nodes \ {Assurance, Gate} : status[n] \in Completed
  /\ \A p \in packages : verdict[p] # "forbidden"
  /\ \A p \in packages : status[p] = "succeeded" => verdict[p] # "disclaimed"

(* What the executors of the system nodes can make of them. *)
Executed(n, result) ==
  /\ n = Assurance => result = "failed" \/ (result = "succeeded" /\ ReportPasses)
  /\ n = Gate => result = "waiting"
  /\ n = Context => result # "waiting"

(* A ready node is executed; a role node leaves an output. *)
Execute(n) ==
  /\ \E result \in SettledAs :
       /\ Settle(n, result)
       /\ Executed(n, result)
       /\ IF n \in packages /\ result = "succeeded"
          THEN \E v \in Verdicts : verdict' = [verdict EXCEPT ![n] = v]
          ELSE UNCHANGED verdict
  /\ UNCHANGED <<input, signals, decision, packages, step>>

(* A person decides a waiting node, and gives it its output. *)
DecideWaiting(n) ==
  /\ \E result \in ResolvedAs :
       /\ Resolve(n, result)
       /\ IF n \in packages /\ result \in Completed
          THEN \E v \in Verdicts : verdict' = [verdict EXCEPT ![n] = v]
          ELSE UNCHANGED verdict
  /\ UNCHANGED <<input, signals, decision, packages, step>>

ValidateGraph == Validate /\ UNCHANGED <<input, signals, decision, packages, step, verdict>>

Think == Load \/ Collect \/ Decide \/ BuildPlan \/ CompileDirect \/ CompileGraph \/ RefuseMode \/ ValidateGraph

PlanNext ==
  \/ Think
  \/ \E n \in nodes : Execute(n) \/ DecideWaiting(n)

(* plan_runtime and register are calls that run to their end. *)
PlanSpec == PlanInit /\ [][PlanNext]_planVars /\ WF_planVars(Think)

-----------------------------------------------------------------------------
(* Properties *)

PlanTypeOK ==
  /\ GraphTypeOK
  /\ decision \in Decision \union {NULL}
  /\ decision = NULL <=> step \in {"collect", "decide", "load", "loaded"}
  /\ signals \subseteq Nat
  /\ packages \subseteq Roles \X Nat
  /\ step \in {"collect", "decide", "load", "plan", "compile", "loaded", "refused", "direct", "compiled"}
  /\ verdict \in [nodes -> Verdicts]

Planned == step \in {"direct", "compiled"}

(* The plan has exactly one package for item i, of the role it asks for. *)
Answered(i) == {p \in packages : p[2] = i} = {<<Items[i].role, i>>}

(* It has none, because it answers an item of a higher class. *)
Outranked(i) ==
  /\ \A p \in packages : p[2] # i
  /\ \E q \in packages : q[2] # 0 /\ Priority(q[2]) > Priority(i)

(* A plan made from the Working Set answers every open item of the highest  *)
(* class, and no other: each has exactly one task package, of the item's    *)
(* role, however many of them one role owns and whatever binding serves     *)
(* them.                                                                    *)
OpenItemsAreAnswered ==
  (Planned /\ Plan.source = "working_set") =>
    \A i \in RoleItems : Answered(i) \/ Outranked(i)

(* docs/principles.md:74: "All open items at the highest active priority    *)
(* become assignments."  Said of the plans whose decision leaves nothing    *)
(* unresolved.  It does not hold: a workflow that scores as high as the     *)
(* open items is selected instead, and nobody is told of them.              *)
OpenItemsBecomeAssignments ==
  (Planned /\ decision.unresolved = {}) =>
    \A i \in RoleItems : Answered(i) \/ Outranked(i)

(* The planner compiles a graph that validation refuses only if the binding *)
(* makes roles depend on each other in a circle.                            *)
CompiledGraphsAreValid ==
  (step = "compiled" /\ stage \in {"rejected", "cyclic"}) =>
    \E S \in (SUBSET Plan.roles) \ {{}} : \A r \in S : Plan.deps[r] \intersect S # {}

(* An Agent instance starts when every instance of every role that its role *)
(* depends on is completed, however many the Working Set asked for.         *)
RolesInOrder ==
  (step = "compiled" /\ stage = "valid") =>
    \A p, q \in packages :
      (q[1] \in Plan.deps[p[1]] /\ status[p] # "pending") => status[q] \in Completed

(* A person sees the closure gate of a planned run only after everything    *)
(* before it was completed, with no output that reports a forbidden action, *)
(* and with none of a node that succeeded that denies its own success.  (A  *)
(* node that a person skipped may deny it: the report asks for the outcome  *)
(* of succeeded nodes only.)                                                *)
GateSeesCleanRun ==
  (step = "compiled" /\ stage = "valid" /\ status[Gate] # "pending") =>
    /\ \A n \in nodes \ {Gate} : status[n] \in Completed
    /\ \A p \in packages : verdict[p] = "clean" \/ (status[p] = "skipped" /\ verdict[p] = "disclaimed")

(* Every call of the planner ends with a plan or an exception. *)
PlanningEnds ==
  <>(\/ step \in {"refused", "direct"}
     \/ stage \in {"rejected", "cyclic", "valid"})
=============================================================================
