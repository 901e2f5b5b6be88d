---------------------------- MODULE DagExecution ----------------------------
(***************************************************************************)
(* What the event store promises its callers, with no rows, workers,       *)
(* leases or clocks: nodes of a dependency graph are tried in dependency   *)
(* order, a try ends once, an ended node stays ended, and the tries are    *)
(* paid for by a budget that only a person can raise.                      *)
(***************************************************************************)
EXTENDS Naturals

CONSTANTS
  Nodes,   \* nodes of the graph
  Deps,    \* the nodes that must be done before a node is tried
  Budget   \* tries each node starts with

VARIABLES
  phase,   \* idle, active, parked, done or dead
  tries,   \* tries begun
  granted  \* extra tries a person granted

vars == <<phase, tries, granted>>

Init ==
  /\ phase = [n \in Nodes |-> "idle"]
  /\ tries = [n \in Nodes |-> 0]
  /\ granted = [n \in Nodes |-> 0]

(* A try begins when all dependencies are done and the budget allows it. *)
Begin(n) ==
  /\ phase[n] = "idle"
  /\ \A d \in Deps[n] : phase[d] = "done"
  /\ tries[n] < Budget[n] + granted[n]
  /\ phase' = [phase EXCEPT ![n] = "active"]
  /\ tries' = [tries EXCEPT ![n] = @ + 1]
  /\ UNCHANGED granted

(* The try of one node ends with a result. *)
End(n) ==
  /\ phase[n] = "active"
  /\ \E p \in {"idle", "parked", "done", "dead"} : phase' = [phase EXCEPT ![n] = p]
  /\ UNCHANGED <<tries, granted>>

(* The tries of a set of nodes are given up at once. *)
GiveUp(S) ==
  /\ \A n \in S : phase[n] = "active"
  /\ phase' \in [Nodes -> {"idle", "active", "parked", "done", "dead"}]
  /\ \A n \in Nodes :
       IF n \in S THEN phase'[n] \in {"idle", "dead"} ELSE phase'[n] = phase[n]
  /\ UNCHANGED <<tries, granted>>

(* A person ends a parked node, or grants it another try. *)
Decide(n) ==
  /\ phase[n] = "parked"
  /\ \/ /\ \E p \in {"done", "dead"} : phase' = [phase EXCEPT ![n] = p]
        /\ UNCHANGED granted
     \/ /\ phase' = [phase EXCEPT ![n] = "idle"]
        /\ granted' = [granted EXCEPT ![n] = @ + 1]
  /\ UNCHANGED tries

Next ==
  \/ \E n \in Nodes : Begin(n) \/ End(n) \/ Decide(n)
  \/ \E S \in SUBSET Nodes : GiveUp(S)

Spec == Init /\ [][Next]_vars
=============================================================================
