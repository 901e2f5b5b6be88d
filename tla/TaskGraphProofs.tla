--------------------------- MODULE TaskGraphProofs ---------------------------
(* Proofs about TaskGraph, for any set of node ids and any document. *)
EXTENDS TaskGraph, WellFoundedInduction, TLAPS

-----------------------------------------------------------------------------
(* The inductive invariant *)

InOrder == stage \in {"ordering", "cyclic", "valid"}

(* Only a document that is well formed is put in order. *)
CheckedIsWellFormed == InOrder => WellFormed

(* A node has a round once it is no longer left, and no later one than now. *)
LayersAreRounds ==
  InOrder => \A n \in nodes : layer[n] <= round /\ (n \in left <=> layer[n] = 0)

(* There is nothing to place before the document is put in order. *)
NothingBefore == ~InOrder => left = {}

(* What is required of a node is what it depends on and is still left. *)
RequiredIsLeft ==
  InOrder => \A n \in nodes : required[n] = dependsOn[n] \intersect left

(* A node that is placed has its dependencies placed, in earlier rounds. *)
PlacedInOrder ==
  InOrder => \A n \in nodes \ left : \A d \in dependsOn[n] : d \notin left /\ layer[d] < layer[n]

(* Why validation ended. *)
VerdictIsReasoned ==
  /\ stage = "rejected" => ~WellFormed
  /\ stage = "cyclic" => left # {} /\ Ready = {}
  /\ stage = "valid" => left = {}

(* Nothing is started before the graph is valid, and then only nodes whose *)
(* dependencies are completed, and stay so.                                *)
StartedInOrder ==
  /\ stage = "ordering" => \A n \in nodes : status[n] = "pending"
  /\ stage = "valid" =>
       \A n \in nodes : status[n] # "pending" => \A d \in dependsOn[n] : status[d] \in Completed

GraphInv ==
  /\ GraphTypeOK
  /\ CheckedIsWellFormed
  /\ NothingBefore
  /\ LayersAreRounds
  /\ RequiredIsLeft
  /\ PlacedInOrder
  /\ VerdictIsReasoned
  /\ StartedInOrder

USE DEF Stage, Status, Completed, SettledAs, ResolvedAs, documentVars, InOrder

LEMMA InitInv == GraphInit => GraphInv
  BY DEF GraphInit, GraphInv, GraphTypeOK, CheckedIsWellFormed, NothingBefore, LayersAreRounds, RequiredIsLeft,
         PlacedInOrder, VerdictIsReasoned, StartedInOrder

USE DEF GraphTypeOK, CheckedIsWellFormed, NothingBefore, LayersAreRounds, RequiredIsLeft, PlacedInOrder,
        VerdictIsReasoned, StartedInOrder

LEMMA SubmitInv ==
  ASSUME GraphInv, NEW ids \in SUBSET Ids, NEW deps \in [ids -> SUBSET Ids], NEW ok \in BOOLEAN,
         Submit(ids, deps, ok)
  PROVE  GraphInv'
  BY DEF GraphInv, Submit, WellFormed

LEMMA CheckInv == ASSUME GraphInv, Check PROVE GraphInv'
  <1>1. CASE WellFormed
    <2>1. stage' = "ordering" /\ WellFormed'
      BY <1>1 DEF Check, WellFormed
    <2>2. GraphTypeOK'
      BY <1>1 DEF GraphInv, Check, WellFormed
    <2>3. LayersAreRounds' /\ RequiredIsLeft' /\ PlacedInOrder'
      BY <1>1, <2>2 DEF GraphInv, Check, WellFormed
    <2>4. StartedInOrder' /\ VerdictIsReasoned' /\ NothingBefore'
      BY <1>1, <2>1 DEF GraphInv, Check
    <2> QED BY <2>1, <2>2, <2>3, <2>4 DEF GraphInv
  <1>2. CASE ~WellFormed
    BY <1>2 DEF GraphInv, Check, WellFormed
  <1> QED BY <1>1, <1>2

LEMMA RoundInv == ASSUME GraphInv, Round PROVE GraphInv'
  <1>1. /\ stage = "ordering" /\ stage' = "ordering"
        /\ UNCHANGED <<nodes, dependsOn, sound, status>>
        /\ left' = left \ Ready
        /\ required' = [n \in nodes |-> required[n] \ Ready]
        /\ layer' = [n \in nodes |-> IF n \in Ready THEN round + 1 ELSE layer[n]]
        /\ round' = round + 1
    BY DEF Round
  <1>2. Ready \subseteq left /\ \A n \in Ready : required[n] = {}
    BY DEF Ready
  <1>3. WellFormed' /\ WellFormed
    BY <1>1 DEF WellFormed, GraphInv
  <1>4. GraphTypeOK'
    BY <1>1 DEF GraphInv
  <1>5. LayersAreRounds'
    BY <1>1, <1>2 DEF GraphInv
  <1>6. RequiredIsLeft'
    BY <1>1, <1>2 DEF GraphInv
  <1>7. PlacedInOrder'
    <2> SUFFICES ASSUME NEW n \in nodes \ left', NEW d \in dependsOn[n]
                 PROVE  d \notin left' /\ layer'[d] < layer'[n]
      BY <1>1
    <2>1. d \in nodes
      BY <1>3 DEF WellFormed
    <2>2. CASE n \in Ready
      <3>1. d \notin left
        BY <2>2, <1>1, <1>2 DEF GraphInv
      <3> QED BY <2>1, <2>2, <3>1, <1>1, <1>2 DEF GraphInv
    <2>3. CASE n \notin Ready
      <3>1. n \in nodes \ left
        BY <2>3, <1>1
      <3>2. d \notin left /\ layer[d] < layer[n]
        BY <3>1, <1>1 DEF GraphInv
      <3> QED BY <2>1, <2>3, <3>1, <3>2, <1>1, <1>2
    <2> QED BY <2>2, <2>3
  <1> QED BY <1>1, <1>3, <1>4, <1>5, <1>6, <1>7 DEF GraphInv

LEMMA RaiseCycleInv == ASSUME GraphInv, RaiseCycle PROVE GraphInv'
  BY DEF GraphInv, RaiseCycle, Ready, WellFormed

LEMMA AcceptInv == ASSUME GraphInv, Accept PROVE GraphInv'
  BY DEF GraphInv, Accept, WellFormed

LEMMA SettleInv ==
  ASSUME GraphInv, NEW n \in nodes, NEW result \in SettledAs, Settle(n, result)
  PROVE  GraphInv'
  <1>1. /\ stage = "valid" /\ stage' = "valid" /\ n \in ReadyNodes
        /\ status' = [status EXCEPT ![n] = result]
        /\ UNCHANGED <<nodes, dependsOn, sound, left, required, layer, round>>
    BY DEF Settle
  <1>2. StartedInOrder'
    BY <1>1 DEF GraphInv, ReadyNodes, WellFormed
  <1> QED BY <1>1, <1>2 DEF GraphInv, WellFormed, Ready

LEMMA ResolveInv ==
  ASSUME GraphInv, NEW n \in nodes, NEW result \in ResolvedAs, Resolve(n, result)
  PROVE  GraphInv'
  <1>1. /\ stage = "valid" /\ stage' = "valid" /\ status[n] = "waiting"
        /\ status' = [status EXCEPT ![n] = result]
        /\ UNCHANGED <<nodes, dependsOn, sound, left, required, layer, round>>
    BY DEF Resolve
  <1>2. StartedInOrder'
    BY <1>1 DEF GraphInv, WellFormed
  <1> QED BY <1>1, <1>2 DEF GraphInv, WellFormed, Ready

LEMMA NextInv == GraphInv /\ [GraphNext]_graphVars => GraphInv'
  <1> SUFFICES ASSUME GraphInv, [GraphNext]_graphVars PROVE GraphInv'
    OBVIOUS
  <1>1. CASE \E ids \in SUBSET Ids, ok \in BOOLEAN :
               \E deps \in [ids -> SUBSET Ids] : Submit(ids, deps, ok)
    BY <1>1, SubmitInv
  <1>2. CASE Validate
    BY <1>2, CheckInv, RoundInv, RaiseCycleInv, AcceptInv DEF Validate
  <1>3. CASE \E n \in nodes, result \in SettledAs : Settle(n, result)
    BY <1>3, SettleInv
  <1>4. CASE \E n \in nodes, result \in ResolvedAs : Resolve(n, result)
    BY <1>4, ResolveInv
  <1>5. CASE UNCHANGED graphVars
    BY <1>5 DEF graphVars, GraphInv, WellFormed, Ready
  <1> QED BY <1>1, <1>2, <1>3, <1>4, <1>5 DEF GraphNext

LEMMA Inductive == GraphSpec => []GraphInv
  BY InitInv, NextInv, PTL DEF GraphSpec

-----------------------------------------------------------------------------
(* What it implies *)

(* Every variable keeps its domain, for all documents whatever.            *)
THEOREM GraphTypeCorrect == GraphSpec => []GraphTypeOK
  BY Inductive, PTL DEF GraphInv

LEMMA OrderFromInv == GraphInv => OrderRespectsDependencies
  BY DEF GraphInv, OrderRespectsDependencies, WellFormed

(* topological_order puts every accepted graph in an order that respects   *)
(* its dependencies, none of which is missing.                             *)
THEOREM OrderRespectsDependenciesHolds == GraphSpec => []OrderRespectsDependencies
  <1>1. GraphInv => OrderRespectsDependencies
    BY OrderFromInv
  <1> QED BY <1>1, Inductive, PTL

LEMMA CycleFromInv == GraphInv => CycleIsReal
  BY DEF GraphInv, CycleIsReal, WellFormed, Ready

(* validate reports a cycle only among nodes that depend on each other.    *)
THEOREM CycleIsRealHolds == GraphSpec => []CycleIsReal
  <1>1. GraphInv => CycleIsReal
    BY CycleFromInv
  <1> QED BY <1>1, Inductive, PTL

(* A nonempty set of numbers has a smallest one. *)
LEMMA SmallestNumber == ASSUME NEW T \in SUBSET Nat, T # {} PROVE \E x \in T : \A y \in T : x <= y
  <1>1. \E x \in T : \A y \in T : <<y, x>> \notin OpToRel(<, Nat)
    BY NatLessThanWellFounded, WFMin, Zenon
  <1>2. PICK x \in T : \A y \in T : <<y, x>> \notin OpToRel(<, Nat)
    BY <1>1
  <1>3. \A y \in T : ~(y < x)
    BY <1>2 DEF OpToRel
  <1> QED BY <1>3

LEMMA NeverStuckFromInv == GraphInv => NeverStuck
  <1> SUFFICES ASSUME GraphInv, stage = "valid",
                      \A n \in nodes : status[n] \in Completed \union {"pending"},
                      NEW m \in nodes, status[m] \notin Completed
               PROVE  ReadyNodes # {}
    BY DEF NeverStuck
  <1> DEFINE Pending == {n \in nodes : status[n] = "pending"}
             Layers == {layer[n] : n \in Pending}
  <1>1. OrderRespectsDependencies
    BY OrderFromInv
  <1>2. Layers \in SUBSET Nat /\ Layers # {}
    BY DEF GraphInv
  <1>3. PICK x \in Layers : \A y \in Layers : x <= y
    BY <1>2, SmallestNumber
  <1>4. PICK n \in Pending : layer[n] = x
    OBVIOUS
  <1>5. ASSUME NEW d \in dependsOn[n] PROVE status[d] \in Completed
    <2>1. d \in nodes /\ layer[d] < layer[n]
      BY <1>1 DEF OrderRespectsDependencies
    <2>2. layer[d] \in Nat /\ layer[n] \in Nat
      BY <2>1 DEF GraphInv
    <2>3. d \notin Pending
      BY <1>3, <1>4, <2>1, <2>2
    <2> QED BY <2>1, <2>3
  <1> QED BY <1>5 DEF ReadyNodes

(* However many nodes a graph has, and however they depend on each other,  *)
(* an accepted graph can always be executed to its end: as long as nodes   *)
(* are pending, and none has failed or waits, one of them is ready.        *)
THEOREM NeverStuckHolds == GraphSpec => []NeverStuck
  <1>1. GraphInv => NeverStuck
    BY NeverStuckFromInv
  <1> QED BY <1>1, Inductive, PTL
=============================================================================
