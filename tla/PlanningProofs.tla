--------------------------- MODULE PlanningProofs ---------------------------
(* Proofs about Planning, for any roles, bindings, questions and documents. *)
EXTENDS Planning, TaskGraphProofs, FiniteSetTheorems

USE PlanningAssumption

Compiled == step = "compiled"

-----------------------------------------------------------------------------
(* Planning makes graphs of known nodes *)

(* A document is one of Documents, everything else is planned from Inputs. *)
InputIsKnown ==
  /\ step = "load" => input \in Documents
  /\ step \in {"collect", "decide", "plan", "compile", "compiled", "direct"} => input \in Inputs

(* Assignments are made for signals, which are items of the Working Set. *)
AssignedAreItems ==
  /\ step \in {"decide", "plan", "compile"} => signals \subseteq DOMAIN Items
  /\ step \in {"plan", "compile"} => Plan.assigned \subseteq signals

(* A package is made for a role of the plan and an item, or for the role only. *)
PackagesAreAssigned ==
  /\ step \in {"compile", "compiled"} =>
       /\ packages \subseteq Plan.roles \X (0 .. Len(Items))
       /\ Plan.roles \subseteq Roles
  /\ step \in {"collect", "decide", "plan", "load", "loaded", "refused"} => packages = {}

PackageInv == InputIsKnown /\ AssignedAreItems /\ PackagesAreAssigned

LEMMA CandidatesAssignSignals == \A c \in Candidates : c.assigned \subseteq signals
  <1>1. RouteCandidate.assigned = {}
    BY DEF RouteCandidate, Baselined
  <1>2. \A c \in WorkflowCandidates : c.assigned = {}
    <2>1. \A b : WorkflowCandidate(b).assigned = {}
      BY DEF WorkflowCandidate
    <2> QED BY <2>1 DEF WorkflowCandidates
  <1>3. \A c \in WorkingSetCandidates : c.assigned = signals
    <2>1. CASE signals = {} \/ Unserved
      BY <2>1 DEF WorkingSetCandidates
    <2>2. BaselineAssignment.assigned = signals /\ BindingAssignment.assigned = signals
      BY DEF BaselineAssignment, BindingAssignment, Baselined
    <2> QED BY <2>1, <2>2 DEF WorkingSetCandidates
  <1> QED BY <1>1, <1>2, <1>3 DEF Candidates

USE DEF InputIsKnown, AssignedAreItems, PackagesAreAssigned

LEMMA PackageInit == PlanInit => PackageInv
  BY DEF PlanInit, PackageInv

LEMMA RefusedPackages == ASSUME Refuse PROVE PackageInv'
  BY DEF Refuse, PackageInv

LEMMA CollectPackages == ASSUME PackageInv, Collect PROVE PackageInv'
  <1>1. RoleItems \subseteq DOMAIN Items
    BY DEF RoleItems, OpenItems, OpenMoves, LatestBatch, AllMoves
  <1> QED BY <1>1 DEF PackageInv, Collect, TopItems, Items, Plan

LEMMA DecidePackages == ASSUME PackageInv, Decide PROVE PackageInv'
  <1>1. PICK c \in Candidates : decision'.plan = c
    BY DEF Decide
  <1> QED BY <1>1, CandidatesAssignSignals DEF PackageInv, Decide, Items, Plan

LEMMA BuildPackages == ASSUME PackageInv, BuildPlan PROVE PackageInv'
  <1>1. CASE Buildable
    <2>1. \A r \in Plan.roles : PackagesOf(r) \subseteq Plan.roles \X (0 .. Len(Items))
      <3> TAKE r \in Plan.roles
      <3>1. Items \in Seq(Item)
        BY DEF BuildPlan, PackageInv, Items, Input
      <3>2. Plan.assigned \subseteq 1 .. Len(Items)
        BY <3>1 DEF BuildPlan, PackageInv
      <3> QED BY <3>1, <3>2 DEF PackagesOf
    <2> QED BY <1>1, <2>1 DEF PackageInv, BuildPlan, Buildable, Items, Plan
  <1>2. CASE ~Buildable
    BY <1>2, RefusedPackages DEF BuildPlan
  <1> QED BY <1>1, <1>2

LEMMA CompilePackages ==
  ASSUME PackageInv, CompileDirect \/ CompileGraph \/ RefuseMode
  PROVE  PackageInv'
  BY RefusedPackages DEF PackageInv, CompileDirect, CompileGraph, RefuseMode, Items, Plan

LEMMA PackageNext == PackageInv /\ [PlanNext]_planVars => PackageInv'
  <1> SUFFICES ASSUME PackageInv, [PlanNext]_planVars PROVE PackageInv'
    OBVIOUS
  <1>1. CASE Load
    BY <1>1 DEF Load, PackageInv, Items, Plan
  <1>2. CASE ValidateGraph \/ \E n \in nodes : Execute(n) \/ DecideWaiting(n)
    BY <1>2 DEF ValidateGraph, Execute, DecideWaiting, PackageInv, Items, Plan
  <1>3. CASE UNCHANGED planVars
    BY <1>3 DEF planVars, PackageInv, Items, Plan
  <1> QED BY <1>1, <1>2, <1>3, CollectPackages, DecidePackages, BuildPackages, CompilePackages
          DEF PlanNext, Think

LEMMA PackageInvariant == PlanSpec => []PackageInv
  BY PackageInit, PackageNext, PTL DEF PlanSpec

-----------------------------------------------------------------------------
(* What is planned is a task graph *)

LEMMA PackagesAreIds == PackageInv /\ step = "compile" => packages \subseteq Ids
  BY DEF PackageInv, Items

LEMMA DependenciesAreNodes ==
  ASSUME NEW n,
         n \in packages \/ n \in SystemIds
  PROVE  Dependencies(n) \subseteq packages \union SystemIds
  <1>1. Upstream(n) \subseteq packages
    BY DEF Upstream
  <1> QED BY <1>1 DEF Dependencies, Start, SystemIds

LEMMA CompiledGraphIsSubmitted ==
  ASSUME PackageInv, CompileGraph
  PROVE  \E ids \in SUBSET Ids, ok \in BOOLEAN :
           \E deps \in [ids -> SUBSET Ids] : Submit(ids, deps, ok)
  <1> DEFINE ids == packages \union (IF Plan.analysis THEN SystemIds ELSE SystemIds \ {Primary})
             deps == [n \in ids |-> Dependencies(n)]
  <1>1. Submit(ids, deps, TRUE)
    BY DEF CompileGraph
  <1>2. packages \union SystemIds \subseteq Ids
    BY PackagesAreIds DEF CompileGraph
  <1>3. ids \in SUBSET Ids
    BY <1>2
  <1>4. \A n \in ids : Dependencies(n) \in SUBSET Ids
    BY <1>2, DependenciesAreNodes
  <1>5. deps \in [ids -> SUBSET Ids]
    BY <1>4
  <1> QED BY <1>1, <1>3, <1>5

LEMMA StepIsGraphStep == PackageInv /\ [PlanNext]_planVars => [GraphNext]_graphVars
  <1> SUFFICES ASSUME PackageInv, [PlanNext]_planVars PROVE [GraphNext]_graphVars
    OBVIOUS
  <1>1. CASE Load
    <2>1. /\ input.nodes \in SUBSET Ids
          /\ input.dependsOn \in [input.nodes -> SUBSET Ids]
          /\ input.sound \in BOOLEAN
          /\ Submit(input.nodes, input.dependsOn, input.sound)
      BY <1>1 DEF Load, PackageInv
    <2> QED BY <2>1 DEF GraphNext
  <1>2. CASE CompileGraph
    BY <1>2, CompiledGraphIsSubmitted DEF GraphNext
  <1>3. CASE ValidateGraph
    BY <1>3 DEF ValidateGraph, GraphNext
  <1>4. CASE \E n \in nodes : Execute(n) \/ DecideWaiting(n)
    BY <1>4, Zenon DEF Execute, DecideWaiting, GraphNext
  <1>5. CASE Collect \/ Decide \/ BuildPlan \/ CompileDirect \/ RefuseMode \/ UNCHANGED planVars
    <2>1. UNCHANGED graphVars
      BY <1>5 DEF Collect, Decide, BuildPlan, CompileDirect, RefuseMode, Refuse, planVars
    <2> QED BY <2>1
  <1> QED BY <1>1, <1>2, <1>3, <1>4, <1>5 DEF PlanNext, Think

(* Whatever is asked, planned and executed, the graph that comes of it has *)
(* the behaviour of a task graph that somebody wrote down.                 *)
THEOREM PlanningIsGraph == PlanSpec => GraphSpec
  <1>1. PlanInit => GraphInit
    BY DEF PlanInit
  <1> QED BY <1>1, StepIsGraphStep, PackageInvariant, PTL DEF PlanSpec, GraphSpec

LEMMA PlanGraphInv == PlanSpec => []GraphInv
  BY PlanningIsGraph, Inductive, PTL

-----------------------------------------------------------------------------
(* A graph stays the one that was compiled *)

SystemNodes == IF Plan.analysis THEN SystemIds ELSE SystemIds \ {Primary}

CompiledIsPlanned ==
  Compiled =>
    /\ nodes = packages \union SystemNodes
    /\ dependsOn = [n \in nodes |-> Dependencies(n)]
    /\ sound
    /\ packages \intersect SystemIds = {}

VerdictsTyped == verdict \in [nodes -> Verdicts]

CompiledInv == CompiledIsPlanned /\ VerdictsTyped

LEMMA CompiledInit == PlanInit => CompiledInv
  BY DEF PlanInit, GraphInit, CompiledInv, CompiledIsPlanned, VerdictsTyped, Compiled

LEMMA PackagesAreNoSystemIds ==
  PackageInv /\ step \in {"compile", "compiled"} => packages \intersect SystemIds = {}
  <1> SUFFICES ASSUME PackageInv, step \in {"compile", "compiled"}
               PROVE  packages \subseteq Roles \X Nat
    OBVIOUS
  <1>1. Len(Items) \in Nat
    BY DEF PackageInv, Items, Input
  <1> QED BY <1>1 DEF PackageInv

(* The rest of planning and execution leaves the document alone. *)
LEMMA DocumentStays ==
  ASSUME ValidateGraph \/ \E n \in nodes : Execute(n) \/ DecideWaiting(n)
  PROVE  UNCHANGED <<documentVars, input, signals, decision, packages, step>>
  BY DEF ValidateGraph, Validate, Check, Round, RaiseCycle, Accept, Execute, DecideWaiting,
         Settle, Resolve, documentVars

LEMMA CompiledNext ==
  PackageInv /\ CompiledInv /\ [PlanNext]_planVars => CompiledInv'
  <1> SUFFICES ASSUME PackageInv, CompiledInv, [PlanNext]_planVars PROVE CompiledInv'
    OBVIOUS
  <1>1. CASE CompileGraph
    <2>1. /\ nodes' = packages \union SystemNodes
          /\ dependsOn' = [n \in nodes' |-> Dependencies(n)]
          /\ sound' = TRUE
          /\ verdict' = [n \in nodes' |-> "clean"]
          /\ step = "compile"
          /\ UNCHANGED <<decision, packages>>
      BY <1>1 DEF CompileGraph, Submit, SystemNodes
    <2>2. \A n : Dependencies(n)' = Dependencies(n)
      BY <2>1 DEF Dependencies, Upstream, Start, Plan
    <2>3. packages \intersect SystemIds = {}
      BY <2>1, PackagesAreNoSystemIds
    <2>4. CompiledIsPlanned'
      BY <2>1, <2>2, <2>3 DEF CompiledIsPlanned, SystemNodes, Plan
    <2> QED BY <2>1, <2>4 DEF CompiledInv, VerdictsTyped, Verdicts
  <1>2. CASE ValidateGraph \/ \E n \in nodes : Execute(n) \/ DecideWaiting(n)
    <2>1. UNCHANGED <<documentVars, input, signals, decision, packages, step>>
      BY <1>2, DocumentStays
    <2>2. \A n : Dependencies(n)' = Dependencies(n)
      BY <2>1 DEF Dependencies, Upstream, Start, Plan
    <2>3. CompiledIsPlanned'
      BY <2>1, <2>2 DEF CompiledIsPlanned, CompiledInv, SystemNodes, Plan, Compiled, documentVars
    <2>4. VerdictsTyped'
      <3>1. verdict' = verdict \/ \E n \in nodes, v \in Verdicts : verdict' = [verdict EXCEPT ![n] = v]
        BY <1>2, Zenon DEF ValidateGraph, Execute, DecideWaiting
      <3> QED BY <2>1, <3>1 DEF VerdictsTyped, CompiledInv, documentVars
    <2> QED BY <2>3, <2>4 DEF CompiledInv
  <1>3. CASE Load
    BY <1>3 DEF Load, Submit, CompiledInv, CompiledIsPlanned, VerdictsTyped, Verdicts, Compiled
  <1>4. CASE Collect \/ Decide \/ BuildPlan \/ CompileDirect \/ RefuseMode
    <2>1. UNCHANGED <<graphVars, verdict>> /\ ~Compiled'
      BY <1>4 DEF Collect, Decide, BuildPlan, CompileDirect, RefuseMode, Refuse, Compiled
    <2> QED BY <2>1 DEF CompiledInv, CompiledIsPlanned, VerdictsTyped, graphVars
  <1>5. CASE UNCHANGED planVars
    <2>1. \A n : Dependencies(n)' = Dependencies(n)
      BY <1>5 DEF planVars, Dependencies, Upstream, Start, Plan
    <2> QED BY <1>5, <2>1
            DEF planVars, graphVars, CompiledInv, CompiledIsPlanned, VerdictsTyped, Compiled, SystemNodes, Plan
  <1> QED BY <1>1, <1>2, <1>3, <1>4, <1>5 DEF PlanNext, Think

LEMMA CompiledInvariant == PlanSpec => []CompiledInv
  BY CompiledInit, CompiledNext, PackageInvariant, PTL DEF PlanSpec

-----------------------------------------------------------------------------
(* Roles work in the order of the binding *)

LEMMA RolesInOrderFromInv == PackageInv /\ GraphInv /\ CompiledInv => RolesInOrder
  <1> SUFFICES ASSUME GraphInv, CompiledInv, Compiled, stage = "valid",
                      NEW p \in packages, NEW q \in packages,
                      q[1] \in Plan.deps[p[1]], status[p] # "pending"
               PROVE  status[q] \in Completed
    BY DEF RolesInOrder, Compiled
  <1>1. q \in Upstream(p)
    BY DEF Upstream
  <1>2. p \in nodes /\ dependsOn[p] = Upstream(p)
    BY <1>1 DEF CompiledInv, CompiledIsPlanned, Dependencies
  <1> QED BY <1>1, <1>2 DEF GraphInv, StartedInOrder

(* For any binding and any number of items of any role: an Agent instance  *)
(* starts only when all instances of the roles before its own are done.    *)
THEOREM RolesInOrderHolds == PlanSpec => []RolesInOrder
  BY RolesInOrderFromInv, PackageInvariant, PlanGraphInv, CompiledInvariant, PTL

-----------------------------------------------------------------------------
(* What the closure gate sees *)

(* Assurance never waits, and what it reported stays true. *)
ReportStands ==
  (Compiled /\ stage = "valid") =>
    status[Assurance] \in {"pending", "failed"} \/ (status[Assurance] = "succeeded" /\ ReportPasses)

LEMMA SystemNodesKnown ==
  CompiledInv /\ Compiled =>
    /\ {Context, Assurance, Gate} \subseteq nodes
    /\ packages \subseteq nodes
    /\ Assurance \notin packages /\ Gate \notin packages
    /\ Assurance # Gate
  <1>1. Context # Primary /\ Assurance # Primary /\ Gate # Primary /\ Assurance # Gate
    BY DEF Context, Primary, Assurance, Gate
  <1> QED BY <1>1 DEF CompiledInv, CompiledIsPlanned, SystemNodes, SystemIds

(* A step that changes the status of Assurance or of the gate only, and no *)
(* verdict, changes nothing that the report is about.                      *)
LEMMA ReportUnchanged ==
  ASSUME CompiledInv, Compiled, GraphInv, stage = "valid",
         NEW n \in {Assurance, Gate}, NEW result,
         status' = [status EXCEPT ![n] = result],
         UNCHANGED <<nodes, packages, verdict>>
  PROVE  ReportPasses' = ReportPasses
  <1>1. \A m \in nodes \ {Assurance, Gate} : status'[m] = status[m]
    BY DEF GraphInv
  <1>2. packages \subseteq nodes \ {Assurance, Gate}
    BY SystemNodesKnown
  <1> QED BY <1>1, <1>2 DEF ReportPasses

LEMMA ExecuteReport ==
  ASSUME PackageInv, GraphInv, CompiledInv, ReportStands, NEW n \in nodes, Execute(n)
  PROVE  ReportStands'
  <1> SUFFICES ASSUME Compiled PROVE ReportStands'
    BY DEF ReportStands, Compiled, Execute
  <1>1. PICK result \in SettledAs :
          /\ Settle(n, result)
          /\ Executed(n, result)
          /\ n \notin packages => UNCHANGED verdict
    BY DEF Execute
  <1>2. /\ stage = "valid" /\ status[n] = "pending"
        /\ status' = [status EXCEPT ![n] = result]
        /\ UNCHANGED <<nodes, packages>>
    BY <1>1 DEF Settle, ReadyNodes, Execute, documentVars
  <1>3. CASE n = Assurance
    <2>1. ReportPasses' = ReportPasses
      BY <1>1, <1>2, <1>3, SystemNodesKnown, ReportUnchanged
    <2> QED BY <1>1, <1>2, <1>3, <2>1 DEF Executed, ReportStands, GraphInv
  <1>4. CASE n # Assurance /\ status[Assurance] = "succeeded"
    <2>0. ReportPasses
      BY <1>2, <1>4 DEF ReportStands
    <2>1. n = Gate
      BY <1>2, <1>4, <2>0 DEF ReportPasses, Completed
    <2>2. ReportPasses' = ReportPasses
      BY <1>1, <1>2, <2>1, SystemNodesKnown, ReportUnchanged
    <2>3. status'[Assurance] = "succeeded"
      BY <1>2, <1>4, SystemNodesKnown DEF GraphInv
    <2> QED BY <2>0, <2>2, <2>3 DEF ReportStands
  <1>5. CASE n # Assurance /\ status[Assurance] # "succeeded"
    BY <1>2, <1>5 DEF ReportStands, GraphInv
  <1> QED BY <1>3, <1>4, <1>5

LEMMA DecideReport ==
  ASSUME PackageInv, GraphInv, CompiledInv, ReportStands, NEW n \in nodes, DecideWaiting(n)
  PROVE  ReportStands'
  <1> SUFFICES ASSUME Compiled PROVE ReportStands'
    BY DEF ReportStands, Compiled, DecideWaiting
  <1>1. PICK result \in ResolvedAs :
          /\ Resolve(n, result)
          /\ n \notin packages => UNCHANGED verdict
    BY DEF DecideWaiting
  <1>2. /\ stage = "valid" /\ status[n] = "waiting"
        /\ status' = [status EXCEPT ![n] = result]
        /\ UNCHANGED <<nodes, packages>>
    BY <1>1 DEF Resolve, DecideWaiting, documentVars
  <1>3. n # Assurance
    BY <1>2 DEF ReportStands
  <1>4. CASE status[Assurance] = "succeeded"
    <2>0. ReportPasses
      BY <1>2, <1>4 DEF ReportStands
    <2>1. n = Gate
      BY <1>2, <1>3, <2>0 DEF ReportPasses, Completed
    <2>2. ReportPasses' = ReportPasses
      BY <1>1, <1>2, <2>1, SystemNodesKnown, ReportUnchanged
    <2>3. status'[Assurance] = "succeeded"
      BY <1>2, <1>3, <1>4, SystemNodesKnown DEF GraphInv
    <2> QED BY <2>0, <2>2, <2>3 DEF ReportStands
  <1>5. CASE status[Assurance] # "succeeded"
    BY <1>2, <1>3, <1>5 DEF ReportStands, GraphInv
  <1> QED BY <1>4, <1>5

LEMMA ValidateReport ==
  ASSUME GraphInv, CompiledInv, ReportStands, ValidateGraph
  PROVE  ReportStands'
  <1> SUFFICES ASSUME Compiled, stage' = "valid" PROVE status'[Assurance] = "pending"
    BY DEF ReportStands, Compiled, ValidateGraph
  <1>1. stage = "ordering" /\ UNCHANGED status
    BY DEF ValidateGraph, Validate, Check, Round, RaiseCycle, Accept
  <1> QED BY <1>1, SystemNodesKnown DEF GraphInv, StartedInOrder

LEMMA ReportNext ==
  PackageInv /\ GraphInv /\ CompiledInv /\ ReportStands /\ [PlanNext]_planVars => ReportStands'
  <1> SUFFICES ASSUME PackageInv, GraphInv, CompiledInv, ReportStands, [PlanNext]_planVars
               PROVE  ReportStands'
    OBVIOUS
  <1>1. CASE Load \/ CompileGraph
    BY <1>1 DEF Load, CompileGraph, Submit, ReportStands
  <1>2. CASE Collect \/ Decide \/ BuildPlan \/ CompileDirect \/ RefuseMode
    BY <1>2 DEF Collect, Decide, BuildPlan, CompileDirect, RefuseMode, Refuse, ReportStands, Compiled
  <1>3. CASE UNCHANGED planVars
    BY <1>3 DEF planVars, graphVars, ReportStands, Compiled, ReportPasses
  <1> QED BY <1>1, <1>2, <1>3, ExecuteReport, DecideReport, ValidateReport DEF PlanNext, Think

LEMMA ReportInvariant == PlanSpec => []ReportStands
  <1>1. PlanInit => ReportStands
    BY DEF PlanInit, ReportStands, Compiled
  <1> QED BY <1>1, ReportNext, PackageInvariant, PlanGraphInv, CompiledInvariant, PTL DEF PlanSpec

LEMMA CleanFromInv ==
  GraphInv /\ CompiledInv /\ ReportStands => GateSeesCleanRun
  <1> SUFFICES ASSUME GraphInv, CompiledInv, ReportStands,
                      Compiled, stage = "valid", status[Gate] # "pending"
               PROVE  /\ \A n \in nodes \ {Gate} : status[n] \in Completed
                      /\ \A p \in packages :
                           verdict[p] = "clean" \/ (status[p] = "skipped" /\ verdict[p] = "disclaimed")
    BY DEF GateSeesCleanRun, Compiled
  <1>1. dependsOn[Gate] = {Assurance}
    <2>1. Dependencies(Gate) = {Assurance}
      <3>1. Gate # Assurance /\ Gate # Primary
        BY DEF Gate, Assurance, Primary
      <3> QED BY <3>1, SystemNodesKnown DEF Dependencies
    <2> QED BY <2>1, SystemNodesKnown DEF CompiledInv, CompiledIsPlanned
  <1>2. status[Assurance] \in Completed
    BY <1>1, SystemNodesKnown DEF GraphInv, StartedInOrder
  <1>3. ReportPasses
    BY <1>2 DEF ReportStands, Completed
  <1>4. \A n \in nodes \ {Gate} : status[n] \in Completed
    BY <1>2, <1>3 DEF ReportPasses
  <1>5. ASSUME NEW p \in packages
        PROVE  verdict[p] = "clean" \/ (status[p] = "skipped" /\ verdict[p] = "disclaimed")
    <2>1. p \in nodes \ {Gate} /\ verdict[p] \in Verdicts
      BY SystemNodesKnown DEF CompiledInv, VerdictsTyped
    <2> QED BY <1>3, <1>4, <2>1 DEF ReportPasses, Verdicts, Completed
  <1> QED BY <1>4, <1>5

(* For every planned graph, whatever its executors return and people       *)
(* decide: the closure gate opens on a run that is complete and clean.     *)
THEOREM GateSeesCleanRunHolds == PlanSpec => []GateSeesCleanRun
  BY CleanFromInv, PlanGraphInv, CompiledInvariant, ReportInvariant, PTL

-----------------------------------------------------------------------------
(* Validation of compiled graphs *)

LEMMA CompiledDependencies ==
  ASSUME CompiledInv, Compiled
  PROVE  /\ \A p \in packages : dependsOn[p] = IF Upstream(p) # {} THEN Upstream(p) ELSE {Start}
         /\ dependsOn[Context] = {}
         /\ dependsOn[Assurance] = packages
         /\ dependsOn[Gate] = {Assurance}
         /\ Primary \in nodes => dependsOn[Primary] = {Context}
  <1>1. /\ Context \notin {Primary, Assurance, Gate}
        /\ Primary \notin {Assurance, Gate}
        /\ Assurance # Gate
    BY DEF Context, Primary, Assurance, Gate
  <1>2. packages \intersect {Context, Primary, Assurance, Gate} = {}
    BY DEF CompiledInv, CompiledIsPlanned, SystemIds
  <1>3. /\ \A p \in packages : Dependencies(p) = IF Upstream(p) # {} THEN Upstream(p) ELSE {Start}
        /\ Dependencies(Context) = {}
        /\ Dependencies(Assurance) = packages
        /\ Dependencies(Gate) = {Assurance}
        /\ Dependencies(Primary) = {Context}
    BY <1>1, <1>2 DEF Dependencies
  <1> QED BY <1>3, SystemNodesKnown DEF CompiledInv, CompiledIsPlanned

LEMMA NodesAreKnown ==
  ASSUME CompiledInv, Compiled, NEW n \in nodes
  PROVE  n \in packages \/ n \in {Context, Primary, Assurance, Gate}
  BY DEF CompiledInv, CompiledIsPlanned, SystemNodes, SystemIds

(* What is left of a graph that cannot be put in order contains packages,  *)
(* and their roles depend on each other.                                   *)
LEMMA CycleOfRoles ==
  ASSUME PackageInv, GraphInv, CompiledInv, Compiled, stage = "cyclic"
  PROVE  \E S \in (SUBSET Plan.roles) \ {{}} : \A r \in S : Plan.deps[r] \intersect S # {}
  <1> DEFINE S == {p[1] : p \in packages \intersect left}
  <1>1. left # {} /\ left \subseteq nodes /\ \A n \in left : dependsOn[n] \intersect left # {}
    BY CycleFromInv DEF CycleIsReal, GraphInv, GraphTypeOK
  <1>2. Context \notin left
    BY <1>1, CompiledDependencies
  <1>3. Primary \notin left
    BY <1>1, <1>2, CompiledDependencies
  <1>4. packages \intersect left # {}
    BY <1>1, <1>2, <1>3, CompiledDependencies, NodesAreKnown
  <1>5. Start \notin left
    BY <1>2, <1>3 DEF Start
  <1>6. ASSUME NEW r \in S PROVE Plan.deps[r] \intersect S # {}
    <2>1. PICK p \in packages \intersect left : p[1] = r
      OBVIOUS
    <2>2. PICK q \in left : q \in dependsOn[p]
      BY <1>1, <2>1
    <2>3. q \in Upstream(p)
      BY <1>5, <2>1, <2>2, CompiledDependencies
    <2>4. q \in packages /\ q[1] \in Plan.deps[p[1]]
      BY <2>3 DEF Upstream
    <2> QED BY <2>1, <2>2, <2>4
  <1>7. S \in SUBSET Plan.roles
    BY DEF PackageInv, Compiled
  <1>8. S # {}
    <2>1. PICK p \in packages \intersect left : TRUE
      BY <1>4
    <2>2. p[1] \in S
      BY <2>1
    <2> QED BY <2>2
  <1> QED BY <1>6, <1>7, <1>8

(* A compiled graph that is not even well formed has a role that depends   *)
(* on itself.                                                              *)
LEMMA SelfDependentRole ==
  ASSUME PackageInv, GraphInv, CompiledInv, Compiled, stage = "rejected"
  PROVE  \E S \in (SUBSET Plan.roles) \ {{}} : \A r \in S : Plan.deps[r] \intersect S # {}
  <1>1. PICK n \in nodes : n \in dependsOn[n] \/ ~(dependsOn[n] \subseteq nodes)
    <2>1. nodes # {} /\ sound
      BY SystemNodesKnown DEF CompiledInv, CompiledIsPlanned
    <2> QED BY <2>1 DEF GraphInv, VerdictIsReasoned, WellFormed
  <1>2. /\ Context \notin {Primary, Assurance, Gate}
        /\ Primary \notin {Assurance, Gate}
        /\ Assurance # Gate
    BY DEF Context, Primary, Assurance, Gate
  <1>3. Start \in nodes /\ Start \notin packages
    BY SystemNodesKnown DEF Start, CompiledInv, CompiledIsPlanned, SystemNodes, SystemIds
  <1>4. n \in packages
    BY <1>1, <1>2, NodesAreKnown, CompiledDependencies, SystemNodesKnown
  <1>5. Upstream(n) \subseteq packages
    BY DEF Upstream
  <1>6. dependsOn[n] = IF Upstream(n) # {} THEN Upstream(n) ELSE {Start}
    BY <1>4, CompiledDependencies
  <1>7. n \in Upstream(n)
    BY <1>1, <1>3, <1>4, <1>5, <1>6, SystemNodesKnown
  <1>8. n[1] \in Plan.deps[n[1]]
    BY <1>7 DEF Upstream
  <1>9. n[1] \in Plan.roles
    BY <1>4 DEF PackageInv, Compiled
  <1> QED
    <2>1. {n[1]} \in (SUBSET Plan.roles) \ {{}}
      BY <1>9
    <2>2. \A r \in {n[1]} : Plan.deps[r] \intersect {n[1]} # {}
      BY <1>8
    <2> QED BY <2>1, <2>2

(* For any pack and Working Set: the compiler makes a graph that validate  *)
(* refuses only of a binding whose roles depend on each other in a circle. *)
THEOREM CompiledGraphsAreValidHolds == PlanSpec => []CompiledGraphsAreValid
  <1>1. PackageInv /\ GraphInv /\ CompiledInv => CompiledGraphsAreValid
    BY CycleOfRoles, SelfDependentRole DEF CompiledGraphsAreValid, Compiled
  <1> QED BY <1>1, PackageInvariant, PlanGraphInv, CompiledInvariant, PTL

-----------------------------------------------------------------------------
(* Every open item is answered: the plan follows from the input *)

PlannedSteps == {"plan", "compile", "compiled", "direct"}
PackagedSteps == {"compile", "compiled", "direct"}

SignalsAreTop == step \in {"decide"} \union PlannedSteps => signals = TopItems

DecisionIsBest ==
  step \in PlannedSteps =>
    Plan \in Candidates /\ Best(Plan, Candidates)

PackagesOfPlan ==
  step \in PackagedSteps => packages = UNION {PackagesOf(r) : r \in Plan.roles}

AnswerInv == SignalsAreTop /\ DecisionIsBest /\ PackagesOfPlan

LEMMA TopItemsStay == ASSUME UNCHANGED input PROVE TopItems' = TopItems
  BY DEF TopItems, RoleItems, OpenItems, OpenMoves, LatestBatch, AllMoves, Priority, Items

LEMMA CandidatesStay ==
  ASSUME UNCHANGED <<input, signals>>
  PROVE  Candidates' = Candidates
  BY DEF Candidates, RouteCandidate, Baselined, WorkflowCandidates, WorkflowCandidate, WorkingSetCandidates,
         BaselineAssignment, BindingAssignment, Unserved, RequiredRoles, Compatible, Smallest, Priority, Items

LEMMA PackagesStay ==
  ASSUME UNCHANGED <<input, decision>>
  PROVE  Plan' = Plan /\ \A r : PackagesOf(r)' = PackagesOf(r)
  BY DEF PackagesOf, Plan, Items

LEMMA AnswerStays ==
  ASSUME AnswerInv, UNCHANGED <<input, signals, decision, packages>>, step' \in PlannedSteps,
         step \in PlannedSteps, step' \in PackagedSteps => step \in PackagedSteps
  PROVE  AnswerInv'
  <1>1. SignalsAreTop'
    BY TopItemsStay DEF AnswerInv, SignalsAreTop
  <1>2. DecisionIsBest'
    <2>1. Best(Plan, Candidates)' <=> Best(Plan, Candidates)
      BY CandidatesStay DEF Best, Plan
    <2> QED BY <2>1, CandidatesStay DEF AnswerInv, DecisionIsBest, Plan
  <1>3. PackagesOfPlan'
    BY PackagesStay DEF AnswerInv, PackagesOfPlan
  <1> QED BY <1>1, <1>2, <1>3 DEF AnswerInv

LEMMA AnswerNext == PackageInv /\ AnswerInv /\ [PlanNext]_planVars => AnswerInv'
  <1> SUFFICES ASSUME PackageInv, AnswerInv, [PlanNext]_planVars PROVE AnswerInv'
    OBVIOUS
  <1> USE DEF PlannedSteps, PackagedSteps
  <1>1. CASE step' \in {"collect", "load", "loaded", "refused"}
    BY <1>1 DEF AnswerInv, SignalsAreTop, DecisionIsBest, PackagesOfPlan
  <1>2. CASE Collect
    <2>1. signals' = TopItems' /\ step' = "decide"
      BY <1>2, TopItemsStay DEF Collect
    <2> QED BY <2>1 DEF AnswerInv, SignalsAreTop, DecisionIsBest, PackagesOfPlan
  <1>3. CASE Decide
    <2>1. PICK c \in Candidates : Best(c, Candidates) /\ decision'.plan = c
      BY <1>3 DEF Decide
    <2>2. /\ step = "decide" /\ step' = "plan"
          /\ UNCHANGED <<input, signals>>
      BY <1>3 DEF Decide
    <2>3. Plan' = c
      BY <2>1 DEF Plan
    <2>4. Best(Plan, Candidates)' <=> Best(c, Candidates)
      BY <2>2, <2>3, CandidatesStay DEF Best
    <2>5. DecisionIsBest'
      BY <2>1, <2>2, <2>3, <2>4, CandidatesStay DEF DecisionIsBest
    <2>6. SignalsAreTop'
      BY <2>2, TopItemsStay DEF AnswerInv, SignalsAreTop
    <2> QED BY <2>2, <2>5, <2>6 DEF AnswerInv, PackagesOfPlan
  <1>4. CASE BuildPlan /\ Buildable
    <2>1. /\ step = "plan" /\ step' = "compile"
          /\ UNCHANGED <<input, signals, decision>>
          /\ packages' = UNION {PackagesOf(r) : r \in Plan.roles}
      BY <1>4 DEF BuildPlan
    <2>2. PackagesOfPlan'
      BY <2>1, PackagesStay DEF PackagesOfPlan
    <2>3. SignalsAreTop'
      BY <2>1, TopItemsStay DEF AnswerInv, SignalsAreTop
    <2>4. DecisionIsBest'
      <3>1. Best(Plan, Candidates)' <=> Best(Plan, Candidates)
        BY <2>1, CandidatesStay DEF Best, Plan
      <3> QED BY <2>1, <3>1, CandidatesStay DEF AnswerInv, DecisionIsBest, Plan
    <2> QED BY <2>2, <2>3, <2>4 DEF AnswerInv
  <1>5. CASE step \in PackagedSteps /\ step' \in PackagedSteps
    <2>1. UNCHANGED <<input, signals, decision, packages>>
      BY <1>5, DocumentStays
         DEF PlanNext, Think, Load, Collect, Decide, BuildPlan, CompileDirect, CompileGraph,
             RefuseMode, Refuse, planVars
    <2> QED BY <1>5, <2>1, AnswerStays
  <1>6. CASE UNCHANGED planVars
    <2>1. UNCHANGED <<input, signals, decision, packages, step>>
      BY <1>6 DEF planVars
    <2>2. CASE step \in PlannedSteps
      BY <2>1, <2>2, AnswerStays
    <2>3. CASE step \notin PlannedSteps
      BY <2>1, <2>3, TopItemsStay DEF AnswerInv, SignalsAreTop, DecisionIsBest, PackagesOfPlan
    <2> QED BY <2>2, <2>3
  <1> QED
    <2>1. CASE Load \/ (BuildPlan /\ ~Buildable) \/ RefuseMode
      BY <1>1, <2>1 DEF Load, BuildPlan, RefuseMode, Refuse
    <2>2. CASE CompileDirect \/ CompileGraph
      BY <1>1, <1>5, <2>2 DEF CompileDirect, CompileGraph, Refuse
    <2>3. CASE ValidateGraph \/ \E n \in nodes : Execute(n) \/ DecideWaiting(n)
      <3>1. UNCHANGED <<input, signals, decision, packages, step>>
        BY <2>3, DocumentStays
      <3>2. CASE step \in PlannedSteps
        BY <3>1, <3>2, AnswerStays
      <3>3. CASE step \notin PlannedSteps
        BY <3>1, <3>3, TopItemsStay DEF AnswerInv, SignalsAreTop, DecisionIsBest, PackagesOfPlan
      <3> QED BY <3>2, <3>3
    <2>4. CASE BuildPlan
      BY <1>4, <2>1, <2>4
    <2> QED BY <1>2, <1>3, <1>6, <2>1, <2>2, <2>3, <2>4 DEF PlanNext, Think

LEMMA AnswerInvariant == PlanSpec => []AnswerInv
  <1>1. PlanInit => AnswerInv
    BY DEF PlanInit, AnswerInv, SignalsAreTop, DecisionIsBest, PackagesOfPlan, PlannedSteps,
           PackagedSteps
  <1> QED BY <1>1, AnswerNext, PackageInvariant, PTL DEF PlanSpec

-----------------------------------------------------------------------------
(* Every open item is answered: what the plan says *)

LEMMA ItemsTyped ==
  ASSUME input \in Inputs
  PROVE  /\ Items \in Seq(Item) /\ Len(Items) \in Nat /\ DOMAIN Items = 1 .. Len(Items)
         /\ RoleItems \subseteq 1 .. Len(Items)
         /\ \A i \in RoleItems : Items[i].role \in Roles /\ Priority(i) \in 94 .. 99
  <1>1. Items \in Seq(Item) /\ Len(Items) \in Nat /\ DOMAIN Items = 1 .. Len(Items)
    BY DEF Items, Input
  <1>2. RoleItems \subseteq 1 .. Len(Items)
    BY <1>1 DEF RoleItems, OpenItems, OpenMoves, LatestBatch, AllMoves
  <1>3. ASSUME NEW i \in RoleItems PROVE Priority(i) \in 94 .. 99
    <2>1. Items[i] \in Item
      BY <1>1, <1>2
    <2>2. Items[i].field \in Fields
      BY <2>1 DEF Item
    <2> QED BY <2>2 DEF Priority, Fields
  <1> QED BY <1>1, <1>2, <1>3 DEF RoleItems

(* A set of items has a last one. *)
LEMMA MaxIsElement ==
  ASSUME NEW n \in Nat, NEW T \in SUBSET (1 .. n), T # {}
  PROVE  Max(T) \in T
  <1> DEFINE U == {n - i : i \in T}
  <1>1. U \in SUBSET Nat /\ U # {}
    <2>1. \A i \in T : n - i \in Nat
      OBVIOUS
    <2>2. PICK i \in T : TRUE
      OBVIOUS
    <2>3. n - i \in U
      BY <2>2
    <2> QED BY <2>1, <2>3
  <1>2. PICK u \in U : \A v \in U : u <= v
    BY <1>1, SmallestNumber
  <1>3. PICK x \in T : u = n - x
    OBVIOUS
  <1>4. \A y \in T : x >= y
    <2> TAKE y \in T
    <2>1. n - x <= n - y
      BY <1>2, <1>3
    <2> QED BY <2>1
  <1> QED BY <1>4 DEF Max

LEMMA MinIsElement ==
  ASSUME NEW T \in SUBSET Nat, T # {}
  PROVE  Min(T) \in T
  <1>1. PICK x \in T : \A y \in T : x <= y
    BY SmallestNumber
  <1> QED BY <1>1 DEF Min

LEMMA SmallestIsCompatible ==
  ASSUME Compatible # {}
  PROVE  Smallest \in Compatible
  <1> DEFINE Size(b) == Cardinality(Bindings[b].roles)
             Sizes == {Size(b) : b \in Compatible}
             Least == {b \in Compatible : \A c \in Compatible : Size(b) <= Size(c)}
  <1>1. Compatible \in SUBSET (DOMAIN Bindings) /\ DOMAIN Bindings = 1 .. Len(Bindings)
    BY DEF Compatible
  <1>2. IsFiniteSet(Names)
    BY FS_AddElement DEF Names
  <1>3. ASSUME NEW b \in Compatible PROVE Size(b) \in Nat
    <2>1. Bindings[b] \in Binding
      BY <1>1
    <2>2. Bindings[b].roles \subseteq Names
      BY <2>1 DEF Binding
    <2> QED BY <1>2, <2>2, FS_Subset, FS_CardinalityType
  <1>4. Sizes \in SUBSET Nat /\ Sizes # {}
    BY <1>3
  <1>5. PICK u \in Sizes : \A v \in Sizes : u <= v
    BY <1>4, SmallestNumber
  <1>6. Least # {}
    BY <1>5
  <1>7. Least \in SUBSET Nat
    BY <1>1
  <1>8. Min(Least) \in Least
    BY <1>6, <1>7, MinIsElement
  <1> QED BY <1>8 DEF Smallest

(* The candidate of the Working Set has the roles of all its signals. *)
LEMMA WorkingSetCandidateServes ==
  ASSUME NEW c \in WorkingSetCandidates
  PROVE  signals # {} /\ c.assigned = signals /\ RequiredRoles \subseteq c.roles
  <1>1. signals # {} /\ ~Unserved
    BY DEF WorkingSetCandidates
  <1>2. CASE RequiredRoles = {Baseline}
    <2>1. BaselineAssignment.assigned = signals /\ BaselineAssignment.roles = {Baseline}
      BY DEF BaselineAssignment, Baselined
    <2> QED BY <1>1, <1>2, <2>1 DEF WorkingSetCandidates
  <1>3. CASE RequiredRoles # {Baseline}
    <2>1. Smallest \in Compatible
      BY <1>1, <1>3, SmallestIsCompatible DEF Unserved
    <2>2. RequiredRoles \subseteq Bindings[Smallest].roles
      BY <2>1 DEF Compatible
    <2>3. /\ BindingAssignment.assigned = signals
          /\ BindingAssignment.roles = IF Bindings[Smallest].analysis THEN RequiredRoles
                                       ELSE Bindings[Smallest].roles
      BY DEF BindingAssignment
    <2> QED BY <1>1, <1>3, <2>2, <2>3 DEF WorkingSetCandidates
  <1> QED BY <1>2, <1>3

(* No other candidate is made from the Working Set. *)
LEMMA OthersHaveOtherSources ==
  ASSUME NEW c \in Candidates, c \notin WorkingSetCandidates
  PROVE  c.source # "working_set"
  <1>1. RouteCandidate.source = "route"
    BY DEF RouteCandidate, Baselined
  <1>2. \A b : WorkflowCandidate(b).source = "workflow"
    BY DEF WorkflowCandidate
  <1>3. \A d \in WorkflowCandidates : d.source = "workflow"
    BY <1>2 DEF WorkflowCandidates
  <1> QED BY <1>1, <1>3 DEF Candidates

(* Each item that is assigned has its package, and no other item has one. *)
LEMMA AssignedIsAnswered ==
  ASSUME input \in Inputs, packages = UNION {PackagesOf(r) : r \in Plan.roles},
         NEW i \in Plan.assigned, i # 0, Items[i].role \in Plan.roles
  PROVE  Answered(i)
  <1>1. <<Items[i].role, i>> \in packages
    <2>1. <<Items[i].role, i>> \in PackagesOf(Items[i].role)
      BY DEF PackagesOf
    <2> QED BY <2>1
  <1>2. ASSUME NEW p \in packages, p[2] = i PROVE p = <<Items[i].role, i>>
    <2>1. PICK r \in Plan.roles : p \in PackagesOf(r)
      OBVIOUS
    <2>2. \E j \in Plan.assigned : Items[j].role = r /\ p = <<r, j>>
      BY <1>2, <2>1 DEF PackagesOf
    <2> QED BY <1>2, <2>2
  <1> QED BY <1>1, <1>2 DEF Answered

LEMMA UnassignedHasNoPackage ==
  ASSUME packages = UNION {PackagesOf(r) : r \in Plan.roles},
         NEW i, i # 0, i \notin Plan.assigned, NEW p \in packages
  PROVE  p[2] # i
  <1>1. PICK r \in Plan.roles : p \in PackagesOf(r)
    OBVIOUS
  <1>2. p[2] = 0 \/ p[2] \in Plan.assigned
    BY <1>1 DEF PackagesOf
  <1> QED BY <1>2

LEMMA AnsweredFromInv == PackageInv /\ AnswerInv => OpenItemsAreAnswered
  <1> SUFFICES ASSUME PackageInv, AnswerInv, Planned, Plan.source = "working_set"
               PROVE  \A i \in RoleItems : Answered(i) \/ Outranked(i)
    BY DEF OpenItemsAreAnswered
  <1>1. /\ input \in Inputs
        /\ signals = TopItems
        /\ Plan \in WorkingSetCandidates
        /\ packages = UNION {PackagesOf(r) : r \in Plan.roles}
    BY OthersHaveOtherSources
       DEF Planned, PackageInv, AnswerInv, SignalsAreTop, DecisionIsBest, PackagesOfPlan,
           PlannedSteps, PackagedSteps
  <1>2. Plan.assigned = signals /\ RequiredRoles \subseteq Plan.roles
    BY <1>1, WorkingSetCandidateServes
  <1>3. \A i \in RoleItems : i # 0 /\ Priority(i) \in Nat
    BY <1>1, ItemsTyped
  <1>4. signals # {} /\ signals \subseteq RoleItems
    BY <1>1, WorkingSetCandidateServes DEF TopItems
  <1>5. ASSUME NEW i \in signals PROVE Answered(i)
    <2>1. Items[i].role \in Plan.roles
      BY <1>2 DEF RequiredRoles
    <2> QED BY <1>1, <1>2, <1>3, <1>4, <2>1, AssignedIsAnswered
  <1>6. ASSUME NEW i \in RoleItems, i \notin signals PROVE Outranked(i)
    <2>1. \A p \in packages : p[2] # i
      BY <1>1, <1>2, <1>3, <1>6, UnassignedHasNoPackage
    <2>2. PICK k \in RoleItems : ~(Priority(i) >= Priority(k))
      BY <1>1, <1>6 DEF TopItems
    <2>3. PICK j \in signals : TRUE
      BY <1>4
    <2>4. Priority(j) >= Priority(k)
      BY <1>1 DEF TopItems
    <2>5. Priority(j) > Priority(i)
      BY <1>3, <1>4, <2>2, <2>4
    <2>6. PICK q \in packages : q[2] = j
      <3>1. <<Items[j].role, j>> \in {p \in packages : p[2] = j}
        BY <1>5 DEF Answered
      <3> QED BY <3>1
    <2> QED BY <1>3, <1>4, <2>1, <2>5, <2>6 DEF Outranked
  <1> QED BY <1>5, <1>6

(* For any pack, any Working Set and any number of items: a plan that is    *)
(* made from the Working Set has exactly one package for every open item of *)
(* its highest class, of the item's role, and none for an item below it.    *)
THEOREM OpenItemsAreAnsweredHolds == PlanSpec => []OpenItemsAreAnswered
  BY AnsweredFromInv, PackageInvariant, AnswerInvariant, PTL

-----------------------------------------------------------------------------
(* Decisions are well formed *)

LEMMA BindingsTyped ==
  ASSUME NEW b \in DOMAIN Bindings
  PROVE  /\ Bindings[b].roles \in SUBSET Names
         /\ Bindings[b].mode \in Modes
         /\ Bindings[b].analysis \in BOOLEAN
         /\ Bindings[b].deps \in [Names -> SUBSET Names]
         /\ Bindings[b].family \in Nat
         /\ b \in Nat
  <1>1. Bindings[b] \in Binding /\ b \in Nat
    OBVIOUS
  <1> QED BY <1>1 DEF Binding

LEMMA BaselinedTyped ==
  ASSUME input \in Inputs, NEW score \in Nat, NEW tie \in Nat, NEW source \in {"route", "working_set"},
         NEW mode \in Modes, NEW assigned \in SUBSET Nat
  PROVE  Baselined(score, tie, source, mode, assigned) \in Candidate
  <1>1. {Baseline} \in SUBSET Names
    BY DEF Names
  <1>2. None \in [Names -> SUBSET Names]
    BY DEF None
  <1>3. input.route \in Nat
    BY DEF Input
  <1> HIDE DEF Names, None
  <1> QED BY <1>1, <1>2, <1>3 DEF Baselined, Candidate

LEMMA WorkflowTyped ==
  ASSUME input \in Inputs, NEW b \in DOMAIN Bindings
  PROVE  WorkflowCandidate(b) \in Candidate
  <1>1. /\ Bindings[b].roles \in SUBSET Names
        /\ Bindings[b].mode \in Modes
        /\ Bindings[b].analysis \in BOOLEAN
        /\ Bindings[b].deps \in [Names -> SUBSET Names]
        /\ Bindings[b].family \in Nat
        /\ b \in Nat
    BY BindingsTyped
  <1>2. Min({96, 82 + 4 * input.matches[b]}) \in Nat
    <2> DEFINE T == {96, 82 + 4 * input.matches[b]}
    <2>1. input.matches[b] \in 0 .. 4
      BY DEF Input
    <2>2. T \in SUBSET Nat /\ T # {}
      BY <2>1
    <2> HIDE DEF T
    <2>3. Min(T) \in Nat
      BY <2>2, MinIsElement
    <2> QED BY <2>3 DEF T
  <1> QED BY <1>1, <1>2 DEF WorkflowCandidate, Candidate

(* Of the signals of a Working Set. *)
LEMMA WorkingSetTyped ==
  ASSUME input \in Inputs, signals \subseteq RoleItems,
         NEW c \in WorkingSetCandidates
  PROVE  c \in Candidate
  <1>1. /\ signals # {} /\ ~Unserved
        /\ c = IF RequiredRoles = {Baseline} THEN BaselineAssignment ELSE BindingAssignment
    BY DEF WorkingSetCandidates
  <1>2. /\ Len(Items) \in Nat /\ RoleItems \subseteq 1 .. Len(Items)
        /\ \A i \in RoleItems : Items[i].role \in Roles /\ Priority(i) \in 94 .. 99
    BY ItemsTyped
  <1>3. signals \in SUBSET (1 .. Len(Items)) /\ signals \in SUBSET Nat
    BY <1>2
  <1>4. Max(signals) \in signals
    BY <1>1, <1>2, <1>3, MaxIsElement
  <1>5. Priority(Max(signals)) \in 94 .. 99
    BY <1>2, <1>4
  <1>6. Priority(Max(signals)) \in Nat
    BY <1>5
  <1>7. Len(Bindings) + 1 \in Nat
    OBVIOUS
  <1>8. CASE RequiredRoles = {Baseline}
    BY <1>1, <1>3, <1>6, <1>7, <1>8, BaselinedTyped DEF BaselineAssignment, Modes
  <1>9. CASE RequiredRoles # {Baseline}
    <2> DEFINE b == Smallest
    <2>1. b \in Compatible
      BY <1>1, <1>9, SmallestIsCompatible DEF Unserved
    <2> HIDE DEF b
    <2>2. b \in DOMAIN Bindings
      BY <2>1 DEF Compatible
    <2>3. /\ Bindings[b].roles \in SUBSET Names
          /\ Bindings[b].mode \in Modes
          /\ Bindings[b].analysis \in BOOLEAN
          /\ Bindings[b].family \in Nat
      BY <2>2, BindingsTyped
    <2>4. Bindings[b].deps \in [Names -> SUBSET Names]
      BY <2>2, BindingsTyped
    <2>5. RequiredRoles \in SUBSET Names
      BY <1>2 DEF RequiredRoles, Names
    <2> DEFINE active == IF Bindings[b].analysis THEN RequiredRoles ELSE Bindings[b].roles
               deps == [r \in Names |-> IF r \in active THEN Bindings[b].deps[r] \intersect active ELSE {}]
    <2>6. active \in SUBSET Names
      BY <2>3, <2>5
    <2> HIDE DEF active
    <2>7. deps \in [Names -> SUBSET Names]
      BY <2>4
    <2> HIDE DEF deps
    <2>8. c = [source |-> "working_set", roles |-> active, mode |-> Bindings[b].mode,
               analysis |-> Bindings[b].analysis, family |-> Bindings[b].family, deps |-> deps,
               assigned |-> signals, score |-> Priority(Max(signals)), tie |-> Len(Bindings) + 1]
      BY <1>1, <1>9 DEF BindingAssignment, active, deps, b
    <2> QED BY <1>3, <1>6, <1>7, <2>3, <2>6, <2>7, <2>8 DEF Candidate
  <1> QED BY <1>8, <1>9

LEMMA CandidatesTyped ==
  ASSUME input \in Inputs, signals \subseteq RoleItems
  PROVE  Candidates \subseteq Candidate
  <1>1. RouteCandidate \in Candidate
    <2>1. input.confidence \in 0 .. 100
      BY DEF Input
    <2>2. \A x \in 0 .. 100 : x \in Nat
      OBVIOUS
    <2>3. input.confidence \in Nat
      BY <2>1, <2>2, Zenon
    <2> QED BY <2>3, BaselinedTyped DEF RouteCandidate, Modes
  <1>2. WorkflowCandidates \subseteq Candidate
    BY WorkflowTyped DEF WorkflowCandidates
  <1>3. WorkingSetCandidates \subseteq Candidate
    BY WorkingSetTyped
  <1> QED BY <1>1, <1>2, <1>3 DEF Candidates

Undecided == {"collect", "decide", "load", "loaded"}

DecisionTyped ==
  /\ decision \in Decision \union {NULL}
  /\ decision = NULL <=> step \in Undecided
  /\ signals \subseteq Nat
  /\ packages \subseteq Roles \X Nat
  /\ step \in {"collect", "decide", "load", "plan", "compile", "loaded", "refused", "direct", "compiled"}

LEMMA DecisionNext ==
  PackageInv /\ AnswerInv /\ DecisionTyped /\ [PlanNext]_planVars => DecisionTyped'
  <1> SUFFICES ASSUME PackageInv, AnswerInv, DecisionTyped, [PlanNext]_planVars
               PROVE  DecisionTyped'
    OBVIOUS
  <1> USE DEF DecisionTyped, Undecided
  <1>1. PackageInv'
    BY PackageNext
  <1>2. CASE Collect
    <2>1. input \in Inputs
      BY <1>2 DEF Collect, PackageInv
    <2>2. TopItems \subseteq Nat
      BY <2>1, ItemsTyped DEF TopItems
    <2> QED BY <1>2, <2>2 DEF Collect
  <1>3. CASE Decide
    <2>1. input \in Inputs /\ signals \subseteq RoleItems
      BY <1>3 DEF Decide, PackageInv, AnswerInv, SignalsAreTop, TopItems
    <2>2. PICK c \in Candidates :
            decision' = [plan |-> c,
                         unresolved |-> (IF Unserved THEN {"review"} ELSE {})
                                        \union (IF Ambiguous(c) THEN {"ambiguous"} ELSE {})]
      BY <1>3 DEF Decide
    <2>3. c \in Candidate
      BY <2>1, <2>2, CandidatesTyped
    <2>4. decision'.unresolved \subseteq {"review", "ambiguous"}
      BY <2>2
    <2>5. decision' \in Decision
      BY <2>2, <2>3, <2>4 DEF Decision
    <2>6. decision' # NULL
      BY <2>5
    <2> QED BY <1>3, <2>5, <2>6 DEF Decide
  <1>4. CASE BuildPlan /\ Buildable
    <2>1. /\ step = "plan" /\ step' = "compile"
          /\ UNCHANGED <<input, signals, decision>>
      BY <1>4 DEF BuildPlan
    <2>2. packages' \subseteq Plan'.roles \X (0 .. Len(Items')) /\ Plan'.roles \subseteq Roles
      BY <1>1, <2>1 DEF PackageInv
    <2>3. Len(Items') \in Nat
      BY <1>1, <2>1 DEF PackageInv, Items, Input
    <2> QED BY <2>1, <2>2, <2>3
  <1>5. CASE Refuse /\ step \in {"plan", "compile"}
    BY <1>5 DEF Refuse
  <1>6. CASE CompileDirect \/ CompileGraph \/ RefuseMode
    BY <1>5, <1>6 DEF CompileDirect, CompileGraph, RefuseMode
  <1>7. CASE Load
    BY <1>7 DEF Load
  <1>8. CASE ValidateGraph \/ \E n \in nodes : Execute(n) \/ DecideWaiting(n)
    BY <1>8 DEF ValidateGraph, Execute, DecideWaiting
  <1>9. CASE UNCHANGED planVars
    BY <1>9 DEF planVars
  <1> QED BY <1>2, <1>3, <1>4, <1>5, <1>6, <1>7, <1>8, <1>9 DEF PlanNext, Think, BuildPlan

LEMMA DecisionInit == PlanInit => DecisionTyped
  BY DEF PlanInit, DecisionTyped, Undecided

(* Every decision is well formed, there is one once planning has got that     *)
(* far, and each task package is of an execution role of the pack.            *)
THEOREM PlanTypeCorrect == PlanSpec => []PlanTypeOK
  <1>1. GraphInv /\ CompiledInv /\ DecisionTyped => PlanTypeOK
    BY DEF GraphInv, CompiledInv, VerdictsTyped, DecisionTyped, Undecided, PlanTypeOK
  <1> QED BY <1>1, DecisionInit, DecisionNext, PackageInvariant, AnswerInvariant, PlanGraphInv,
             CompiledInvariant, PTL DEF PlanSpec
=============================================================================
