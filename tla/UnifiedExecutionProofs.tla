----------------------- MODULE UnifiedExecutionProofs -----------------------
(* Proofs about UnifiedExecution, for any processes, runs and graphs. *)
EXTENDS UnifiedExecution, RuntimeEventStoreProofs

-----------------------------------------------------------------------------
(* The engines use the store through its methods only *)

(* What a process does to the store between two of its own steps is one       *)
(* transaction of the store, or nothing.                                      *)
LEMMA EngineStepIsTransaction ==
  ASSUME at \in [Workers -> Runs], [EngineNext]_engineVars
  PROVE  [Next]_vars
<1>1. ASSUME NEW w \in Workers, NEW r \in Runs, Start(w, r) PROVE [Next]_vars
  BY <1>1 DEF Start
<1>2. ASSUME NEW w \in Workers, Register(w) PROVE [Next]_vars
  BY <1>2 DEF Register, Next
<1>3. ASSUME NEW w \in Workers, RecoverLeases(w) PROVE [Next]_vars
  BY <1>3 DEF RecoverLeases, Next
<1>4. ASSUME NEW w \in Workers, Claim(w) PROVE [Next]_vars
  BY <1>4 DEF Claim, Next
<1>5. ASSUME NEW w \in Workers, Execute(w) PROVE [Next]_vars
  BY <1>5 DEF Execute, Next
<1>6. ASSUME NEW w \in Workers, ExecuteStale(w) PROVE [Next]_vars
  BY <1>6 DEF ExecuteStale, Next
<1>7. ASSUME NEW w \in Workers, Look(w) PROVE [Next]_vars
  BY <1>7 DEF Look
<1>8. ASSUME NEW w \in Workers, Die(w) PROVE [Next]_vars
  BY <1>8 DEF Die, Next
<1>9. CASE Environment
  BY <1>9 DEF Environment, Next
<1>10. CASE UNCHANGED engineVars
  BY <1>10 DEF engineVars
<1>11. QED
  BY <1>1, <1>2, <1>3, <1>4, <1>5, <1>6, <1>7, <1>8, <1>9, <1>10 DEF EngineNext, EngineStep

-----------------------------------------------------------------------------
(* Claims and runs of a process *)

(* A claim that is granted is held by the process that asked for it. *)
LEMMA ClaimIsHeld ==
  ASSUME TypeOK, NEW w \in Workers, NEW r \in Runs, ClaimReadyNode(w, r)
  PROVE  \E c \in Claims : c # NULL /\ held' = [held EXCEPT ![w] = c]
<1>1. PICK delay \in Delay, n \in Nodes : Grant(w, n, delay)
  BY DEF ClaimReadyNode, Claimable, NodesOf
<1>2. attempt[n] + 1 \in Nat
  BY DEF TypeOK
<1>3. [node |-> n, attempt |-> attempt[n] + 1] \in Claims
  BY <1>2 DEF Claims
<1>4. QED
  BY <1>1, <1>3, NullAssumption DEF Grant

(* Whatever the executor makes of a node, its process is free afterwards. *)
LEMMA ExecuteFrees ==
  ASSUME NEW w \in Workers, Execute(w)
  PROVE  held' = [held EXCEPT ![w] = NULL]
BY DEF Execute, CompleteNode, WaitNode, FailNode, Settle

(* The other transactions leave every claim where it is. *)
LEMMA ClaimsStay ==
  /\ \A r \in Runs : RegisterGraph(r) => held' = held
  /\ RecoverExpiredLeases => held' = held
  /\ \A n \in Nodes, decision \in Decision : ResolveWaitingNode(n, decision) => held' = held
  /\ Tick => held' = held
  /\ UNCHANGED vars => held' = held
BY DEF RegisterGraph, RecoverExpiredLeases, Recover, ResolveWaitingNode, Tick, vars

(* Every step of an engine keeps its variables in their domains, its claim    *)
(* with the node it executes, and its run in the store.                       *)
LEMMA EngineTypeInductive ==
  ASSUME TypeOK, EngineTypeOK, [EngineNext]_engineVars
  PROVE  EngineTypeOK'
<1>1. at \in [Workers -> Runs] /\ [Next]_vars
  BY EngineStepIsTransaction DEF EngineTypeOK
<1>2. \A r \in Runs : runStatus[r] # "absent" => runStatus'[r] # "absent"
  BY <1>1, RunsStay
<1>3. held \in [Workers -> Claims \union {NULL}]
  BY DEF TypeOK
<1>4. ASSUME NEW w \in Workers, NEW r \in Runs, Start(w, r) PROVE EngineTypeOK'
  BY <1>4, <1>3 DEF EngineTypeOK, Start, vars, Steps
<1>5. ASSUME NEW w \in Workers, Register(w) PROVE EngineTypeOK'
  <2>1. held' = held
    BY <1>1, <1>5, ClaimsStay DEF Register
  <2>2. runStatus'[at[w]] # "absent"
    <3>1. CASE RegisterGraph(at[w])
      BY <1>1, <3>1 DEF RegisterGraph, TypeOK
    <3>2. CASE runStatus[at[w]] # "absent"
      BY <1>1, <1>2, <3>2
    <3>3. QED
      BY <1>5, <3>1, <3>2 DEF Register
  <2>3. QED
    BY <1>1, <1>2, <1>5, <2>1, <2>2 DEF EngineTypeOK, Register, Goto, Steps
<1>6. ASSUME NEW w \in Workers, RecoverLeases(w) PROVE EngineTypeOK'
  <2>1. held' = held
    BY <1>6, ClaimsStay DEF RecoverLeases
  <2>2. QED
    BY <1>1, <1>2, <1>6, <2>1 DEF EngineTypeOK, RecoverLeases, Goto, Steps
<1>7. ASSUME NEW w \in Workers, Claim(w) PROVE EngineTypeOK'
  <2>1. CASE ClaimReadyNode(w, at[w]) /\ Goto(w, "execute")
    <3>1. PICK c \in Claims : c # NULL /\ held' = [held EXCEPT ![w] = c]
      BY <1>1, <2>1, ClaimIsHeld
    <3>2. QED
      BY <1>1, <1>2, <1>3, <1>7, <2>1, <3>1 DEF EngineTypeOK, Claim, Goto, Steps
  <2>2. CASE UNCHANGED vars /\ Goto(w, "off")
    BY <1>1, <1>2, <1>7, <2>2 DEF EngineTypeOK, Claim, Goto, Steps, vars
  <2>3. QED
    BY <1>7, <2>1, <2>2 DEF Claim
<1>8. ASSUME NEW w \in Workers, Execute(w) PROVE EngineTypeOK'
  <2>1. held' = [held EXCEPT ![w] = NULL]
    BY <1>8, ExecuteFrees
  <2>2. QED
    BY <1>1, <1>2, <1>3, <1>8, <2>1 DEF EngineTypeOK, Execute, Goto, Steps
<1>9. ASSUME NEW w \in Workers, ExecuteStale(w) PROVE EngineTypeOK'
  BY <1>1, <1>2, <1>3, <1>9 DEF EngineTypeOK, ExecuteStale, StaleClaim, Goto, Steps
<1>10. ASSUME NEW w \in Workers, Look(w) PROVE EngineTypeOK'
  BY <1>1, <1>2, <1>3, <1>10 DEF EngineTypeOK, Look, Goto, Steps, vars
<1>11. ASSUME NEW w \in Workers, Die(w) PROVE EngineTypeOK'
  <2>1. held' = [held EXCEPT ![w] = NULL]
    BY <1>3, <1>11 DEF Die, Crash, vars
  <2>2. QED
    BY <1>1, <1>2, <1>3, <1>11, <2>1 DEF EngineTypeOK, Die, Steps
<1>12. CASE Environment
  <2>1. held' = held
    BY <1>12, ClaimsStay DEF Environment
  <2>2. QED
    BY <1>1, <1>2, <1>12, <2>1 DEF EngineTypeOK, Environment
<1>13. CASE UNCHANGED engineVars
  BY <1>13 DEF EngineTypeOK, engineVars, vars
<1>14. QED
  BY <1>4, <1>5, <1>6, <1>7, <1>8, <1>9, <1>10, <1>11, <1>12, <1>13 DEF EngineNext, EngineStep

-----------------------------------------------------------------------------
(* The theorems *)

(* EngineTypeOK, and what is proved of the store, hold together. *)
LEMMA EngineInvariant == EngineSpec => [](IInv /\ EngineTypeOK)
<1>1. EngineInit => IInv /\ EngineTypeOK
  <2>1. EngineInit => EngineTypeOK
    BY DEF EngineInit, Init, EngineTypeOK
  <2>2. QED
    BY <2>1, InitInvariant DEF EngineInit
<1>2. IInv /\ EngineTypeOK /\ [EngineNext]_engineVars => (IInv /\ EngineTypeOK)'
  <2> SUFFICES ASSUME IInv, EngineTypeOK, [EngineNext]_engineVars
               PROVE  IInv' /\ EngineTypeOK'
    OBVIOUS
  <2>1. [Next]_vars
    BY EngineStepIsTransaction DEF EngineTypeOK
  <2>2. TypeOK
    BY DEF IInv
  <2>3. QED
    BY <2>1, <2>2, NextInvariant, EngineTypeInductive
<1>3. QED
  BY <1>1, <1>2, PTL DEF EngineSpec

(* A process holds a claim exactly while it executes a node, however its      *)
(* claims expire, go stale or die, and works only on a run that is registered *)
(* (src/planner/unified_execution.py, run).                                   *)
THEOREM EngineTypeCorrect == EngineSpec => []EngineTypeOK
BY EngineInvariant, PTL

(* The engines, however they are interleaved, started again and killed, make  *)
(* only the steps of the event store: every theorem about the store holds of  *)
(* them.                                                                      *)
THEOREM EnginesUseStore == EngineSpec => Spec
<1>1. EngineInit => Init
  BY DEF EngineInit
<1>2. EngineTypeOK /\ [EngineNext]_engineVars => [Next]_vars
  BY EngineStepIsTransaction DEF EngineTypeOK
<1>3. QED
  BY <1>1, <1>2, EngineTypeCorrect, PTL DEF EngineSpec, Spec
=============================================================================
