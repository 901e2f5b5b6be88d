------------------------------ MODULE TaskGraph ------------------------------
(***************************************************************************)
(* Task graph documents: what validate() accepts, the order                *)
(* topological_order() puts the nodes in, and the execution of an accepted *)
(* graph through ready_nodes().                                            *)
(*                                                                         *)
(* A document may name dependencies that are missing, a node that depends  *)
(* on itself, or a cycle.  Its other defects (a duplicate node id, an      *)
(* unsupported kind, role or side effect, a broken boundary) do not depend *)
(* on each other, and are abstracted to the one bit sound.                 *)
(***************************************************************************)
EXTENDS Naturals, FiniteSets

CONSTANT Ids  \* node ids that occur in documents, as nodes or as dependencies

ASSUME IdsAssumption == IsFiniteSet(Ids)

VARIABLES
  nodes,      \* ids of the nodes of the graph
  dependsOn,  \* depends_on of each node
  sound,      \* the document has no other defect
  stage,      \* where validation is, and its verdict
  left,       \* keys of the dictionary in topological_order
  required,   \* its values: the dependencies still to be placed
  layer,      \* the round in which a node was placed, 0 if it was not
  round,      \* number of rounds
  status      \* execution status of each node

graphVars == <<nodes, dependsOn, sound, stage, left, required, layer, round, status>>
documentVars == <<nodes, dependsOn, sound>>

Completed == {"succeeded", "skipped"}
Status == {"pending", "waiting", "failed"} \union Completed
Stage == {"none", "submitted", "ordering", "rejected", "cyclic", "valid"}

GraphInit ==
  /\ nodes = {}
  /\ dependsOn = [n \in {} |-> {}]
  /\ sound = TRUE
  /\ stage = "none"
  /\ left = {}
  /\ required = [n \in {} |-> {}]
  /\ layer = [n \in {} |-> 0]
  /\ round = 0
  /\ status = [n \in {} |-> "pending"]

(* A document is loaded (from_dict) or compiled. *)
Submit(ids, deps, ok) ==
  /\ stage = "none"
  /\ stage' = "submitted"
  /\ nodes' = ids
  /\ dependsOn' = deps
  /\ sound' = ok
  /\ UNCHANGED <<left, required, layer, round, status>>

-----------------------------------------------------------------------------
(* validate *)

\* Slip: a dependency that is missing goes unnoticed.
AllowsMissing ==
  /\ nodes # {} /\ sound
  /\ \A n \in nodes : n \notin dependsOn[n]

(* The document has nodes, no defect of its own, no node that depends on   *)
(* itself and no dependency that is missing.                               *)
WellFormed ==
  /\ nodes # {} /\ sound
  /\ \A n \in nodes : n \notin dependsOn[n] /\ dependsOn[n] \subseteq nodes

(* Only a document without issues is put in order. *)
Check ==
  /\ stage = "submitted"
  /\ IF WellFormed
     THEN /\ stage' = "ordering"
          /\ left' = nodes
          /\ required' = dependsOn
          /\ layer' = [n \in nodes |-> 0]
          /\ status' = [n \in nodes |-> "pending"]
     ELSE /\ stage' = "rejected"
          /\ UNCHANGED <<left, required, layer, status>>
  /\ UNCHANGED <<documentVars, round>>

-----------------------------------------------------------------------------
(* topological_order *)

Ready == {n \in left : required[n] = {}}

\* Slip: one pass over the dictionary that removes nodes while it looks.
RoundInPlace ==
  /\ stage = "ordering"
  /\ left # {}
  /\ \E n \in left :
       /\ left' = left \ {n}
       /\ required' = [m \in nodes |-> required[m] \ {n}]
       /\ layer' = [layer EXCEPT ![n] = round + 1]
  /\ round' = round + 1
  /\ UNCHANGED <<documentVars, stage, status>>

(* One round of the loop places every node whose dependencies are placed. *)
Round ==
  /\ stage = "ordering"
  /\ Ready # {}
  /\ left' = left \ Ready
  /\ required' = [n \in nodes |-> required[n] \ Ready]
  /\ layer' = [n \in nodes |-> IF n \in Ready THEN round + 1 ELSE layer[n]]
  /\ round' = round + 1
  /\ UNCHANGED <<documentVars, stage, status>>

\* Slip: nothing to place is taken for a cycle, also when nothing is left.
RaiseOnNothingReady ==
  /\ stage = "ordering"
  /\ Ready = {}
  /\ stage' = "cyclic"
  /\ UNCHANGED <<documentVars, left, required, layer, round, status>>

\* Slip: a cycle is only looked for before the first round.
RaiseFirstRound ==
  /\ stage = "ordering"
  /\ left = nodes /\ Ready = {}
  /\ stage' = "cyclic"
  /\ UNCHANGED <<documentVars, left, required, layer, round, status>>

(* Nodes are left and none can be placed: ValueError. *)
RaiseCycle ==
  /\ stage = "ordering"
  /\ left # {} /\ Ready = {}
  /\ stage' = "cyclic"
  /\ UNCHANGED <<documentVars, left, required, layer, round, status>>

(* Every node is placed; the graph is valid. *)
Accept ==
  /\ stage = "ordering"
  /\ left = {}
  /\ stage' = "valid"
  /\ UNCHANGED <<documentVars, left, required, layer, round, status>>

Validate == Check \/ Round \/ RaiseCycle \/ Accept

-----------------------------------------------------------------------------
(* Execution *)

\* Slip: a skipped dependency does not count as completed.
ReadyUnskipped ==
  {n \in nodes : status[n] = "pending" /\ \A d \in dependsOn[n] : status[d] = "succeeded"}

(* ready_nodes: pending nodes all of whose dependencies are completed. *)
ReadyNodes ==
  {n \in nodes : status[n] = "pending" /\ \A d \in dependsOn[n] : status[d] \in Completed}

(* A ready node is executed; what its retries do is in RuntimeEventStore. *)
Settle(n, result) ==
  /\ stage = "valid"
  /\ n \in ReadyNodes
  /\ status' = [status EXCEPT ![n] = result]
  /\ UNCHANGED <<documentVars, stage, left, required, layer, round>>

(* A person decides a waiting node. *)
Resolve(n, result) ==
  /\ stage = "valid"
  /\ status[n] = "waiting"
  /\ status' = [status EXCEPT ![n] = result]
  /\ UNCHANGED <<documentVars, stage, left, required, layer, round>>

SettledAs == {"succeeded", "waiting", "failed"}
ResolvedAs == Completed \union {"pending", "failed"}

GraphNext ==
  \/ \E ids \in SUBSET Ids, ok \in BOOLEAN :
       \E deps \in [ids -> SUBSET Ids] : Submit(ids, deps, ok)
  \/ Validate
  \/ \E n \in nodes, result \in SettledAs : Settle(n, result)
  \/ \E n \in nodes, result \in ResolvedAs : Resolve(n, result)

GraphSpec == GraphInit /\ [][GraphNext]_graphVars

-----------------------------------------------------------------------------
(* Properties *)

GraphTypeOK ==
  /\ nodes \subseteq Ids
  /\ dependsOn \in [nodes -> SUBSET Ids]
  /\ sound \in BOOLEAN
  /\ stage \in Stage
  /\ left \subseteq nodes
  /\ round \in Nat
  /\ stage \in {"ordering", "cyclic", "valid"} =>
       /\ required \in [nodes -> SUBSET nodes]
       /\ layer \in [nodes -> Nat]
       /\ status \in [nodes -> Status]

(* A graph that is accepted can be executed layer by layer: every node has *)
(* its dependencies in the graph, and in earlier rounds than its own.      *)
OrderRespectsDependencies ==
  stage = "valid" =>
    \A n \in nodes : \A d \in dependsOn[n] : d \in nodes /\ layer[d] < layer[n]

(* The error names a cycle only where there is one: each of the nodes it   *)
(* lists depends on another of them, so no order of them exists.           *)
CycleIsReal ==
  stage = "cyclic" => left # {} /\ \A n \in left : dependsOn[n] \intersect left # {}

(* An accepted graph never gets stuck: while no node has failed or waits,  *)
(* and not all are completed, there is a node that is ready.               *)
NeverStuck ==
  (stage = "valid" /\ \A n \in nodes : status[n] \in Completed \union {"pending"})
    => ((\A n \in nodes : status[n] \in Completed) \/ ReadyNodes # {})
=============================================================================
