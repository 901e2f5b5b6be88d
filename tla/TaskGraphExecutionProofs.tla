---------------------- MODULE TaskGraphExecutionProofs ----------------------
(* Proofs about TaskGraphExecution, for any graph, patches and processes. *)
EXTENDS TaskGraphExecution, RuntimeEventStoreProofs, FiniteSetTheorems, FunctionTheorems

-----------------------------------------------------------------------------
(* The inductive invariant *)

(* A success that a snapshot tells of is still one in the event store. *)
SnapshotPast(w) ==
  /\ pc[w] \in {"nodes", "count", "load", "update"} /\ snap[w].run = "succeeded" =>
       runStatus[Run] = "succeeded"
  /\ pc[w] \in {"count", "load", "update"} /\ snap[w].nodes[Gate] = "succeeded" =>
       status[Gate] = "succeeded"

SnapshotIsPast == \A w \in Workers : SnapshotPast(w)

(* What a process is about to revise was there, and was checked; it is the   *)
(* Working Set of the task as long as nobody has revised that.               *)
LoadedIsPast ==
  \A w \in Workers : pc[w] = "update" =>
    /\ loaded[w].version = ws.version => loaded[w] = ws
    /\ ContractHolds(snap[w], loaded[w].unknowns)
    /\ ~CheckpointExists(snap[w], loaded[w])

CInv ==
  /\ IInv
  /\ CoordTypeOK
  /\ SnapshotIsPast
  /\ LoadedIsPast
  /\ revisions \in Nat
  /\ IsFiniteSet(ws.checkpoints)
  /\ OneRevisionPerCheckpoint
-----------------------------------------------------------------------------
(* What a step of the coordinator does *)

(* The gate is a node of the run. *)
LEMMA GateInRun == Gate \in NodeKeys /\ Gate \in Nodes /\ NodeKeys \subseteq Nodes
BY GraphAssumption DEF NodeKeys, NodesOf

(* The events of a run can be counted. *)
LEMMA EventCountType == TypeOK => EventCount \in Nat
<1> SUFFICES ASSUME TypeOK PROVE EventCount \in Nat
  OBVIOUS
<1> DEFINE rows(n) == {n} \X DOMAIN events[n]
           f == [n \in NodeKeys |-> rows(n)]
           T == {rows(n) : n \in NodeKeys}
<1>1. \A n \in NodeKeys : IsFiniteSet(rows(n))
  <2> SUFFICES ASSUME NEW n \in NodeKeys PROVE IsFiniteSet(rows(n))
    OBVIOUS
  <2>1. events[n] \in Seq(NodeEvent)
    BY GateInRun DEF TypeOK
  <2>2. DOMAIN events[n] = 1 .. Len(events[n]) /\ Len(events[n]) \in Nat
    BY <2>1
  <2>3. IsFiniteSet(DOMAIN events[n])
    <3>1. 1 \in Int /\ Len(events[n]) \in Int
      BY <2>2
    <3>2. IsFiniteSet(1 .. Len(events[n]))
      BY <3>1, FS_Interval, Zenon
    <3>3. QED
      BY <2>2, <3>2, Zenon
  <2>4. IsFiniteSet({n})
    BY FS_Singleton
  <2>5. QED
    BY <2>3, <2>4, FS_Product
<1>2. IsFiniteSet(NodeKeys)
  BY GraphAssumption DEF NodeKeys
<1>3. f \in Surjection(NodeKeys, T)
  BY DEF Surjection
<1> HIDE DEF f
<1>4. IsFiniteSet(T)
  BY <1>2, <1>3, FS_Surjection
<1>5. IsFiniteSet(UNION T)
  BY <1>1, <1>4, FS_UNION
<1>6. Cardinality(UNION T) \in Nat
  BY <1>5, FS_CardinalityType
<1>7. QED
  BY <1>6 DEF EventCount

(* What becomes of an execution is one transaction that ends the claim. *)
LEMMA FinishEnds ==
  ASSUME NEW w \in Workers, NEW result \in Result, Finish(w, result)
  PROVE  Next /\ held' = [held EXCEPT ![w] = NULL]
<1>1. \/ CompleteNode(w)
      \/ \E waiting \in Waiting : WaitNode(w, waiting)
      \/ \E retryable \in BOOLEAN : FailNode(w, retryable)
  BY DEF Finish, Result, Waiting
<1>2. Next
  BY <1>1 DEF Next
<1>3. held' = [held EXCEPT ![w] = NULL]
  BY <1>1 DEF CompleteNode, WaitNode, FailNode, Settle
<1>4. QED
  BY <1>2, <1>3

(* A process of the coordinator changes the store by one transaction, or not  *)
(* at all.                                                                    *)
LEMMA CoordStepIsTransaction ==
  ASSUME CoordTypeOK, [CoordNext]_allVars
  PROVE  [Next]_vars
<1>1. ASSUME NEW w \in Workers, StartRun(w) PROVE [Next]_vars
  BY <1>1, GraphAssumption DEF StartRun, Next
<1>2. ASSUME NEW w \in Workers, EngineClaim(w) PROVE [Next]_vars
  BY <1>2, GraphAssumption DEF EngineClaim, Next
<1>3. ASSUME NEW w \in Workers, EngineFinish(w) PROVE [Next]_vars
  BY <1>3, FinishEnds DEF EngineFinish
<1>4. ASSUME NEW w \in Workers, Decide(w) PROVE [Next]_vars
  <2>1. decision[w].node \in Nodes /\ decision[w].decision \in Decision
    BY <1>4, GateInRun DEF Decide, CoordTypeOK, Memory, ToDecide
  <2>2. QED
    BY <1>4, <2>1 DEF Decide, Next
<1>5. ASSUME NEW w \in Workers,
             \/ EngineLook(w) \/ DecideTooLate(w) \/ ReadRun(w) \/ ReadNodes(w)
             \/ ReadEventCount(w) \/ LoadAndRaise(w) \/ LoadUpToDate(w) \/ LoadContext(w)
             \/ Update(w) \/ UpdateConflict(w)
      PROVE  UNCHANGED vars
  BY <1>5 DEF EngineLook, DecideTooLate, ReadRun, ReadNodes, ReadEventCount, LoadAndRaise,
              LoadUpToDate, LoadContext, Update, UpdateConflict
<1>6. ASSUME NEW w \in Workers, NEW n \in NodeKeys, NEW d \in Decision,
             NEW disposition \in Disposition \union {NULL}, StartResolve(w, n, d, disposition)
      PROVE  UNCHANGED vars
  BY <1>6 DEF StartResolve
<1>7. ASSUME NEW u \in Unknowns, OtherRevision(u) PROVE UNCHANGED vars
  BY <1>7 DEF OtherRevision
<1>8. CASE UNCHANGED allVars
  BY <1>8 DEF allVars
<1>9. QED
  BY <1>1, <1>2, <1>3, <1>4, <1>5, <1>6, <1>7, <1>8 DEF CoordNext, CoordStep

(* Only Update and OtherRevision write the Working Set. *)
LEMMA OnlyRevisionsWrite ==
  ASSUME [CoordNext]_allVars
  PROVE  \/ UNCHANGED <<ws, revisions>>
         \/ \E w \in Workers : Update(w)
         \/ \E u \in Unknowns : OtherRevision(u)
<1>1. ASSUME NEW w \in Workers,
             \/ StartRun(w) \/ EngineClaim(w) \/ EngineFinish(w) \/ EngineLook(w)
             \/ Decide(w) \/ DecideTooLate(w) \/ ReadRun(w) \/ ReadNodes(w)
             \/ ReadEventCount(w) \/ LoadAndRaise(w) \/ LoadUpToDate(w) \/ LoadContext(w)
             \/ UpdateConflict(w)
      PROVE  UNCHANGED <<ws, revisions>>
  BY <1>1 DEF StartRun, EngineClaim, EngineFinish, EngineLook, Decide, DecideTooLate, ReadRun,
              ReadNodes, ReadEventCount, LoadAndRaise, LoadUpToDate, LoadContext, UpdateConflict
<1>2. ASSUME NEW w \in Workers, NEW n \in NodeKeys, NEW d \in Decision,
             NEW disposition \in Disposition \union {NULL}, StartResolve(w, n, d, disposition)
      PROVE  UNCHANGED <<ws, revisions>>
  BY <1>2 DEF StartResolve
<1>3. QED
  BY <1>1, <1>2 DEF CoordNext, CoordStep, allVars

InMemory(w) == <<pc[w], decision[w], snap[w], loaded[w], tries[w]>>

(* A step of one process leaves what the others have in memory. *)
LEMMA OthersStay ==
  ASSUME CoordTypeOK, NEW w \in Workers, CoordStep(w), NEW v \in Workers, v # w
  PROVE  InMemory(v)' = InMemory(v)
<1> USE DEF CoordTypeOK, InMemory, Goto, Leave
<1>1. CASE StartRun(w)
  BY <1>1 DEF StartRun
<1>2. CASE EngineClaim(w)
  BY <1>2 DEF EngineClaim, coordVars
<1>3. CASE EngineFinish(w)
  BY <1>3 DEF EngineFinish
<1>4. CASE EngineLook(w)
  BY <1>4 DEF EngineLook
<1>5. ASSUME NEW n \in NodeKeys, NEW d \in Decision,
             NEW disposition \in Disposition \union {NULL}, StartResolve(w, n, d, disposition)
      PROVE  InMemory(v)' = InMemory(v)
  BY <1>5 DEF StartResolve
<1>6. CASE Decide(w)
  BY <1>6 DEF Decide
<1>7. CASE DecideTooLate(w)
  BY <1>7 DEF DecideTooLate
<1>8. CASE ReadRun(w)
  BY <1>8 DEF ReadRun
<1>9. CASE ReadNodes(w)
  BY <1>9 DEF ReadNodes
<1>10. CASE ReadEventCount(w)
  BY <1>10 DEF ReadEventCount
<1>11. CASE LoadAndRaise(w)
  BY <1>11 DEF LoadAndRaise
<1>12. CASE LoadUpToDate(w)
  BY <1>12 DEF LoadUpToDate
<1>13. CASE LoadContext(w)
  BY <1>13 DEF LoadContext
<1>14. CASE Update(w)
  BY <1>14 DEF Update
<1>15. CASE UpdateConflict(w)
  BY <1>15 DEF UpdateConflict
<1>16. QED
  BY <1>1, <1>2, <1>3, <1>4, <1>5, <1>6, <1>7, <1>8, <1>9, <1>10, <1>11, <1>12, <1>13, <1>14,
     <1>15 DEF CoordStep

(* The step that takes a process to where it is. *)
LEMMA CameFrom ==
  ASSUME CoordTypeOK, NEW w \in Workers, CoordStep(w)
  PROVE  /\ pc'[w] = "decide" =>
              \E n \in NodeKeys, d \in Decision, disposition \in Disposition \union {NULL} :
                StartResolve(w, n, d, disposition)
         /\ pc'[w] = "nodes" => ReadRun(w)
         /\ pc'[w] = "count" => ReadNodes(w)
         /\ pc'[w] = "load" =>
              ReadEventCount(w) \/ (UpdateConflict(w) /\ snap'[w] = snap[w])
         /\ pc'[w] = "update" => LoadContext(w)
<1> USE DEF CoordTypeOK, Goto, Leave
<1>1. CASE StartRun(w)
  BY <1>1 DEF StartRun
<1>2. CASE EngineClaim(w)
  BY <1>2 DEF EngineClaim, coordVars
<1>3. CASE EngineFinish(w)
  BY <1>3 DEF EngineFinish
<1>4. CASE EngineLook(w)
  BY <1>4 DEF EngineLook
<1>5. ASSUME NEW n \in NodeKeys, NEW d \in Decision,
             NEW disposition \in Disposition \union {NULL}, StartResolve(w, n, d, disposition)
      PROVE  pc'[w] = "decide"
  BY <1>5 DEF StartResolve
<1>6. CASE Decide(w)
  BY <1>6 DEF Decide
<1>7. CASE DecideTooLate(w)
  BY <1>7 DEF DecideTooLate
<1>8. CASE ReadRun(w)
  BY <1>8 DEF ReadRun
<1>9. CASE ReadNodes(w)
  BY <1>9 DEF ReadNodes
<1>10. CASE ReadEventCount(w)
  <2>1. pc'[w] = "load"
    BY <1>10 DEF ReadEventCount
  <2>2. QED
    BY <1>10, <2>1
<1>11. CASE LoadAndRaise(w)
  BY <1>11 DEF LoadAndRaise
<1>12. CASE LoadUpToDate(w)
  BY <1>12 DEF LoadUpToDate
<1>13. CASE LoadContext(w)
  BY <1>13 DEF LoadContext
<1>14. CASE Update(w)
  BY <1>14 DEF Update
<1>15. CASE UpdateConflict(w)
  BY <1>15 DEF UpdateConflict
<1>16. QED
  BY <1>1, <1>2, <1>3, <1>4, <1>5, <1>6, <1>7, <1>8, <1>9, <1>10, <1>11, <1>12, <1>13, <1>14,
     <1>15 DEF CoordStep

-----------------------------------------------------------------------------
(* The parts of the invariant *)

(* The queries for the nodes and for the events keep what was read before. *)
LEMMA ReadNodesShape ==
  ASSUME CoordTypeOK, NEW w \in Workers, ReadNodes(w)
  PROVE  /\ snap'[w].run = snap[w].run
         /\ snap'[w].nodes[Gate] = status[Gate]
         /\ pc[w] = "nodes"
<1> DEFINE rows == [n \in NodeKeys |-> status[n]]
<1>1. pc[w] = "nodes"
  BY DEF ReadNodes
<1>2. snap'[w] = [snap[w] EXCEPT !.nodes = rows, !.outputs = output, !.closure = closure]
  BY DEF ReadNodes, CoordTypeOK
<1>3. snap[w] \in RunRead
  BY <1>1 DEF CoordTypeOK, Memory
<1>4. rows[Gate] = status[Gate]
  BY GateInRun
<1> HIDE DEF rows
<1>5. snap'[w].run = snap[w].run /\ snap'[w].nodes = rows
  BY <1>2, <1>3 DEF RunRead
<1>6. QED
  BY <1>1, <1>4, <1>5

LEMMA ReadEventCountShape ==
  ASSUME CoordTypeOK, NEW w \in Workers, ReadEventCount(w)
  PROVE  /\ snap'[w].run = snap[w].run
         /\ snap'[w].nodes = snap[w].nodes
         /\ pc[w] = "count"
<1>1. pc[w] = "count"
  BY DEF ReadEventCount
<1>2. snap'[w] = [snap[w] EXCEPT !.events = EventCount]
  BY DEF ReadEventCount, CoordTypeOK
<1>3. snap[w] \in NodesRead
  BY <1>1 DEF CoordTypeOK, Memory
<1>4. snap'[w].run = snap[w].run /\ snap'[w].nodes = snap[w].nodes
  BY <1>2, <1>3 DEF NodesRead
<1>5. QED
  BY <1>1, <1>4

(* A success that was read stays a success. *)
LEMMA SnapshotInductive ==
  ASSUME IInv, CoordTypeOK, SnapshotIsPast, [CoordNext]_allVars
  PROVE  SnapshotIsPast'
<1>1. /\ runStatus[Run] = "succeeded" => runStatus'[Run] = "succeeded"
      /\ status[Gate] = "succeeded" => status'[Gate] = "succeeded"
  BY CoordStepIsTransaction, OutcomesStay, GateInRun, GraphAssumption DEF Terminal, Completed
<1>2. CASE UNCHANGED coordVars
  BY <1>1, <1>2 DEF SnapshotIsPast, SnapshotPast, coordVars
<1>3. ASSUME NEW w \in Workers, CoordStep(w)
      PROVE  SnapshotIsPast'
  <2>1. ReadRun(w) => snap'[w].run = runStatus[Run]
    BY DEF ReadRun, CoordTypeOK, Memory
  <2>2. ASSUME ReadNodes(w)
        PROVE  /\ snap'[w].run = snap[w].run
               /\ snap'[w].nodes[Gate] = status[Gate]
               /\ pc[w] = "nodes"
    BY <2>2, ReadNodesShape
  <2>3. ASSUME ReadEventCount(w)
        PROVE  /\ snap'[w].run = snap[w].run
               /\ snap'[w].nodes = snap[w].nodes
               /\ pc[w] = "count"
    BY <2>3, ReadEventCountShape
  <2>4. LoadContext(w) \/ (UpdateConflict(w) /\ snap'[w] = snap[w]) =>
          snap'[w] = snap[w] /\ pc[w] \in {"load", "update"}
    BY DEF LoadContext, UpdateConflict
  <2>5. SnapshotPast(w)'
    <3> USE DEF SnapshotIsPast, SnapshotPast
    <3>1. CASE pc'[w] = "nodes"
      BY <1>1, <1>3, <2>1, <3>1, CameFrom
    <3>2. CASE pc'[w] = "count"
      BY <1>1, <1>3, <2>2, <3>2, CameFrom
    <3>3. CASE pc'[w] = "load"
      BY <1>1, <1>3, <2>3, <2>4, <3>3, CameFrom
    <3>4. CASE pc'[w] = "update"
      BY <1>1, <1>3, <2>4, <3>4, CameFrom
    <3>5. QED
      BY <3>1, <3>2, <3>3, <3>4
  <2>6. ASSUME NEW v \in Workers, v # w
        PROVE  SnapshotPast(v)'
    <3>1. pc'[v] = pc[v] /\ snap'[v] = snap[v]
      BY <1>3, <2>6, OthersStay DEF InMemory
    <3>2. QED
      BY <1>1, <3>1 DEF SnapshotIsPast, SnapshotPast
  <2>7. QED
    BY <2>5, <2>6 DEF SnapshotIsPast
<1>4. QED
  BY <1>2, <1>3 DEF CoordNext, OtherRevision, allVars, coordVars

(* What a revision writes is a Working Set. *)
LEMMA MaterializedType ==
  ASSUME NEW s \in SnapshotRead, NEW base \in WorkingSet
  PROVE  Materialized(s, base) \in WorkingSet
<1>1. TaskStatus(s) \in TaskStatuses
  BY DEF TaskStatus, TaskStatuses
<1>2. Raised(s) \subseteq Unknowns
  BY GraphAssumption, GateInRun DEF Raised, Patched
<1>3. RevisedUnknowns(s, base.unknowns) \subseteq Item
  <2>1. base.unknowns \subseteq Item
    BY DEF WorkingSet
  <2>2. \A item \in Item : <<item[1], "resolved">> \in Item
    BY DEF Item
  <2>3. \A u \in Unknowns : <<u, "open">> \in Item
    BY DEF Item
  <2>4. QED
    BY <1>2, <2>1, <2>2, <2>3 DEF RevisedUnknowns
<1>4. {n \in NodeKeys : s.nodes[n] \in Waiting} \subseteq Nodes
  BY GateInRun
<1>5. CheckpointId(s) \in [events : Nat, status : RunStatus]
  BY DEF CheckpointId, SnapshotRead
<1>6. s.closure \in Disposition \union {NULL}
  BY DEF SnapshotRead
<1>7. base.version + 1 \in Nat
  BY DEF WorkingSet
<1>8. /\ base.judgment \in Disposition \union {NULL}
      /\ base.closedAt \in Nat
      /\ base.checkpoints \in SUBSET [events : Nat, status : RunStatus]
  BY DEF WorkingSet
<1> HIDE DEF TaskStatus, RevisedUnknowns, CheckpointId, HasContract, TaskStatuses, Item, Disposition
<1>9. QED
  BY <1>1, <1>3, <1>4, <1>5, <1>6, <1>7, <1>8 DEF Materialized, WorkingSet

(* A revision that is accepted revises the Working Set that is there, which   *)
(* the snapshot fits and does not have yet.                                   *)
LEMMA UpdateRevisesCurrent ==
  ASSUME CoordTypeOK, LoadedIsPast, NEW w \in Workers, Update(w)
  PROVE  /\ snap[w] \in SnapshotRead
         /\ ws' = Materialized(snap[w], ws)
         /\ ContractHolds(snap[w], ws.unknowns)
         /\ ~CheckpointExists(snap[w], ws)
         /\ revisions' = revisions
BY DEF Update, CoordTypeOK, Memory, LoadedIsPast

(* The Working Set stays one, and a revision of it is a new version.          *)
LEMMA VersionsGrow ==
  ASSUME CoordTypeOK, LoadedIsPast, [CoordNext]_allVars
  PROVE  /\ ws' \in WorkingSet
         /\ ws' = ws \/ ws'.version = ws.version + 1
<1>1. ws \in WorkingSet
  BY DEF CoordTypeOK
<1>2. ASSUME NEW w \in Workers, Update(w)
      PROVE  ws' \in WorkingSet /\ ws'.version = ws.version + 1
  BY <1>1, <1>2, UpdateRevisesCurrent, MaterializedType DEF Materialized
<1>3. ASSUME NEW u \in Unknowns, OtherRevision(u)
      PROVE  ws' \in WorkingSet /\ ws'.version = ws.version + 1
  <2>1. ws.unknowns \union {<<u, "open">>} \in SUBSET Item /\ ws.version + 1 \in Nat
    BY <1>1 DEF WorkingSet, Item
  <2>2. ws' = [ws EXCEPT !.version = ws.version + 1,
                         !.unknowns = ws.unknowns \union {<<u, "open">>}]
    BY <1>3 DEF OtherRevision
  <2> HIDE DEF Item, TaskStatuses, Disposition
  <2>3. QED
    BY <1>1, <2>1, <2>2 DEF WorkingSet
<1>4. QED
  BY <1>1, <1>2, <1>3, OnlyRevisionsWrite

(* A process that is not reading a snapshot or revising has just left, or has *)
(* neither a snapshot nor a Working Set in memory.                            *)
LEMMA ForgetsOnLeaving ==
  ASSUME CoordTypeOK, NEW w \in Workers, CoordStep(w)
  PROVE  /\ pc'[w] \notin {"nodes", "count", "load", "update"} => snap'[w] = NULL
         /\ pc'[w] # "update" => loaded'[w] = NULL
<1> USE DEF CoordTypeOK, Memory, Goto, Leave
<1>1. CASE StartRun(w)
  BY <1>1 DEF StartRun, Enter
<1>2. CASE EngineClaim(w)
  BY <1>2 DEF EngineClaim, coordVars
<1>3. CASE EngineFinish(w)
  BY <1>3 DEF EngineFinish
<1>4. CASE EngineLook(w)
  BY <1>4 DEF EngineLook
<1>5. ASSUME NEW n \in NodeKeys, NEW d \in Decision,
             NEW disposition \in Disposition \union {NULL}, StartResolve(w, n, d, disposition)
      PROVE  snap'[w] = NULL /\ loaded'[w] = NULL
  BY <1>5 DEF StartResolve, Enter
<1>6. CASE Decide(w)
  BY <1>6 DEF Decide
<1>7. CASE DecideTooLate(w)
  BY <1>7 DEF DecideTooLate
<1>8. CASE ReadRun(w)
  BY <1>8 DEF ReadRun
<1>9. CASE ReadNodes(w)
  BY <1>9 DEF ReadNodes
<1>10. CASE ReadEventCount(w)
  BY <1>10 DEF ReadEventCount
<1>11. CASE LoadAndRaise(w)
  BY <1>11 DEF LoadAndRaise
<1>12. CASE LoadUpToDate(w)
  BY <1>12 DEF LoadUpToDate
<1>13. CASE LoadContext(w)
  BY <1>13 DEF LoadContext
<1>14. CASE Update(w)
  BY <1>14 DEF Update
<1>15. CASE UpdateConflict(w)
  BY <1>15 DEF UpdateConflict
<1>16. QED
  BY <1>1, <1>2, <1>3, <1>4, <1>5, <1>6, <1>7, <1>8, <1>9, <1>10, <1>11, <1>12, <1>13, <1>14,
     <1>15 DEF CoordStep

(* Every step leaves in memory what the next step of the call relies on. *)
LEMMA OwnMemoryTyped ==
  ASSUME IInv, CoordTypeOK, NEW w \in Workers, CoordStep(w)
  PROVE  Memory(w)'
<1>1. pc'[w] = "decide" => decision'[w] \in ToDecide
  <2>1. ASSUME NEW n \in NodeKeys, NEW d \in Decision,
               NEW disposition \in Disposition \union {NULL}, StartResolve(w, n, d, disposition)
        PROVE  decision'[w] \in ToDecide
    BY <2>1 DEF StartResolve, CoordTypeOK, ToDecide
  <2>2. QED
    BY <2>1, CameFrom
<1>2. pc'[w] = "nodes" => snap'[w] \in RunRead
  <2>1. runStatus[Run] \in RunStatus
    BY GraphAssumption DEF IInv, TypeOK
  <2>2. ReadRun(w) => snap'[w] \in RunRead
    BY <2>1 DEF ReadRun, CoordTypeOK, RunRead
  <2>3. QED
    BY <2>2, CameFrom
<1>3. pc'[w] = "count" => snap'[w] \in NodesRead
  <2>1. [n \in NodeKeys |-> status[n]] \in [NodeKeys -> NodeStatus]
    BY GateInRun DEF IInv, TypeOK
  <2>2. closure \in Disposition \union {NULL} /\ output \in [NodeKeys -> Output]
    BY DEF CoordTypeOK
  <2>3. ASSUME ReadNodes(w) PROVE snap'[w] \in NodesRead
    <3>1. snap[w] \in RunRead
      BY <2>3 DEF ReadNodes, CoordTypeOK, Memory
    <3>2. snap'[w] = [snap[w] EXCEPT !.nodes = [n \in NodeKeys |-> status[n]],
                                     !.outputs = output, !.closure = closure]
      BY <2>3 DEF ReadNodes, CoordTypeOK
    <3>3. QED
      BY <2>1, <2>2, <3>1, <3>2 DEF RunRead, NodesRead
  <2>4. QED
    BY <2>3, CameFrom
<1>4. pc'[w] \in {"load", "update"} => snap'[w] \in SnapshotRead
  <2>1. EventCount \in Nat
    BY EventCountType DEF IInv
  <2>2. ASSUME ReadEventCount(w) PROVE snap'[w] \in SnapshotRead
    <3>1. snap[w] \in NodesRead /\ snap'[w] = [snap[w] EXCEPT !.events = EventCount]
      BY <2>2 DEF ReadEventCount, CoordTypeOK, Memory
    <3>2. QED
      BY <2>1, <3>1 DEF NodesRead, SnapshotRead
  <2>3. UpdateConflict(w) /\ snap'[w] = snap[w] => snap'[w] \in SnapshotRead
    BY DEF UpdateConflict, CoordTypeOK, Memory
  <2>4. LoadContext(w) => snap'[w] \in SnapshotRead
    BY DEF LoadContext, CoordTypeOK, Memory
  <2>5. QED
    BY <2>2, <2>3, <2>4, CameFrom
<1>5. pc'[w] = "update" => loaded'[w] \in WorkingSet /\ loaded'[w].version <= ws'.version
  <2>1. LoadContext(w) => loaded'[w] = ws /\ ws' = ws
    BY DEF LoadContext, CoordTypeOK
  <2>2. ws \in WorkingSet /\ ws.version <= ws.version
    BY DEF CoordTypeOK, WorkingSet
  <2>3. QED
    BY <2>1, <2>2, CameFrom
<1>6. QED
  BY <1>1, <1>2, <1>3, <1>4, <1>5, ForgetsOnLeaving DEF Memory

(* The arguments of resolve are kept until the call is left. *)
LEMMA DecisionTyped ==
  ASSUME CoordTypeOK, NEW w \in Workers, CoordStep(w)
  PROVE  /\ decision' \in [Workers -> ToDecide \union {NULL}]
         /\ DOMAIN snap' = Workers /\ DOMAIN loaded' = Workers
<1>1. DOMAIN snap' = Workers /\ DOMAIN loaded' = Workers
  BY DEF CoordTypeOK, CoordStep, StartRun, EngineClaim, EngineFinish, EngineLook,
    StartResolve, Decide, DecideTooLate, ReadRun, ReadNodes, ReadEventCount, LoadAndRaise,
    LoadUpToDate, LoadContext, Update, UpdateConflict, Leave, coordVars
<1>2. \/ decision' = decision
      \/ decision' = [decision EXCEPT ![w] = NULL]
      \/ \E n \in NodeKeys, d \in Decision, disposition \in Disposition \union {NULL} :
           decision' = [decision EXCEPT ![w] =
             [node |-> n, decision |-> d, disposition |-> disposition]]
  BY DEF CoordStep, StartRun, EngineClaim, EngineFinish, EngineLook,
    StartResolve, Decide, DecideTooLate, ReadRun, ReadNodes, ReadEventCount, LoadAndRaise,
    LoadUpToDate, LoadContext, Update, UpdateConflict, Leave, coordVars
<1>3. decision' \in [Workers -> ToDecide \union {NULL}]
  BY <1>2 DEF CoordTypeOK, ToDecide
<1>4. QED
  BY <1>1, <1>3

(* What every process has in memory stays typed. *)
LEMMA MemoryInductive ==
  ASSUME IInv, CoordTypeOK, LoadedIsPast, [CoordNext]_allVars
  PROVE  /\ decision' \in [Workers -> ToDecide \union {NULL}]
         /\ DOMAIN snap' = Workers /\ DOMAIN loaded' = Workers
         /\ \A v \in Workers : Memory(v)'
<1>1. ASSUME NEW v \in Workers, UNCHANGED <<pc[v], decision[v], snap[v], loaded[v]>>
      PROVE  Memory(v)'
  <2>1. ws.version \in Nat /\ (ws' = ws \/ ws'.version = ws.version + 1)
    BY VersionsGrow DEF CoordTypeOK, WorkingSet
  <2>2. Memory(v)
    BY DEF CoordTypeOK
  <2>3. pc[v] = "update" => loaded[v].version \in Nat /\ loaded[v].version <= ws'.version
    BY <2>1, <2>2 DEF Memory, WorkingSet
  <2>4. QED
    BY <1>1, <2>2, <2>3 DEF Memory
<1>2. CASE UNCHANGED coordVars
  BY <1>1, <1>2 DEF coordVars, CoordTypeOK
<1>3. ASSUME NEW w \in Workers, CoordStep(w)
      PROVE  \A v \in Workers : Memory(v)'
  <2>1. ASSUME NEW v \in Workers, v # w PROVE Memory(v)'
    BY <1>1, <1>3, <2>1, OthersStay DEF InMemory
  <2>2. QED
    BY <1>3, <2>1, OwnMemoryTyped
<1>4. QED
  BY <1>2, <1>3, DecisionTyped DEF CoordNext, OtherRevision, allVars

(* The outputs of the nodes are among those they may have. *)
LEMMA OutputInductive ==
  ASSUME CoordTypeOK, [CoordNext]_allVars
  PROVE  output' \in [NodeKeys -> Output]
<1>1. \A n, patch : output' = [output EXCEPT ![n] = patch] /\ (n \in NodeKeys => patch \in Output)
                   => output' \in [NodeKeys -> Output]
  BY DEF CoordTypeOK
<1>2. \A n : Record(n) => output' \in [NodeKeys -> Output]
  <2>1. ASSUME NEW n, Record(n) PROVE output' \in [NodeKeys -> Output]
    <3>1. PICK patch \in Patches[n] : output' = [output EXCEPT ![n] = patch]
      BY <2>1 DEF Record
    <3>2. n \in NodeKeys => patch \in Output
      BY <3>1, GateInRun, GraphAssumption
    <3>3. QED
      BY <1>1, <3>1, <3>2
  <2>2. QED
    BY <2>1
<1>3. ASSUME NEW w \in Workers, EngineFinish(w)
      PROVE  output' \in [NodeKeys -> Output]
  <2>1. output' = output \/ \E n : Record(n)
    BY <1>3 DEF EngineFinish, Finish
  <2>2. QED
    BY <1>2, <2>1 DEF CoordTypeOK
<1>4. ASSUME NEW w \in Workers, Decide(w)
      PROVE  output' \in [NodeKeys -> Output]
  <2>1. output' = [output EXCEPT ![decision[w].node] = "none"] \/ \E n : Record(n)
    BY <1>4 DEF Decide
  <2>2. QED
    BY <1>1, <1>2, <2>1 DEF Output
<1>5. ASSUME NEW w \in Workers,
             \/ StartRun(w) \/ EngineClaim(w) \/ EngineLook(w)
             \/ DecideTooLate(w) \/ ReadRun(w) \/ ReadNodes(w)
             \/ ReadEventCount(w) \/ LoadAndRaise(w) \/ LoadUpToDate(w) \/ LoadContext(w)
             \/ Update(w) \/ UpdateConflict(w)
      PROVE  output' = output
  BY <1>5 DEF StartRun, EngineClaim, EngineLook, DecideTooLate, ReadRun, ReadNodes,
              ReadEventCount, LoadAndRaise, LoadUpToDate, LoadContext, Update, UpdateConflict
<1>6. ASSUME NEW w \in Workers, NEW n \in NodeKeys, NEW d \in Decision,
             NEW disposition \in Disposition \union {NULL}, StartResolve(w, n, d, disposition)
      PROVE  output' = output
  BY <1>6 DEF StartResolve
<1>7. ASSUME NEW u \in Unknowns, OtherRevision(u) PROVE output' = output
  BY <1>7 DEF OtherRevision
<1>8. CASE UNCHANGED allVars
  BY <1>8 DEF CoordTypeOK, allVars
<1>9. QED
  BY <1>3, <1>4, <1>5, <1>6, <1>7, <1>8 DEF CoordNext, CoordStep, CoordTypeOK

(* What a process has loaded is the Working Set as long as the versions agree. *)
LEMMA LoadedInductive ==
  ASSUME CoordTypeOK, LoadedIsPast, [CoordNext]_allVars
  PROVE  LoadedIsPast'
<1> SUFFICES ASSUME NEW v \in Workers, pc'[v] = "update"
             PROVE  /\ loaded'[v].version = ws'.version => loaded'[v] = ws'
                    /\ ContractHolds(snap'[v], loaded'[v].unknowns)
                    /\ ~CheckpointExists(snap'[v], loaded'[v])
  BY DEF LoadedIsPast, ContractHolds, CheckpointExists, HasContract, Valid, Open, CheckpointId
<1>1. ws.version \in Nat /\ (ws' = ws \/ ws'.version = ws.version + 1)
  BY VersionsGrow DEF CoordTypeOK, WorkingSet
<1>2. CASE pc[v] = "update" /\ loaded'[v] = loaded[v] /\ snap'[v] = snap[v]
  <2>0. loaded[v].version \in Nat /\ loaded[v].version <= ws.version
    BY <1>2 DEF CoordTypeOK, Memory, WorkingSet
  <2>1. /\ loaded[v].version = ws.version => loaded[v] = ws
        /\ ContractHolds(snap'[v], loaded'[v].unknowns)
        /\ ~CheckpointExists(snap'[v], loaded'[v])
    BY <1>2 DEF LoadedIsPast
  <2>2. QED
    BY <1>1, <1>2, <2>0, <2>1
<1>3. ASSUME NEW w \in Workers, CoordStep(w), w # v
      PROVE  pc[v] = "update" /\ loaded'[v] = loaded[v] /\ snap'[v] = snap[v]
  BY <1>3, OthersStay DEF InMemory
<1>4. CASE CoordStep(v)
  <2>1. LoadContext(v)
    BY <1>4, CameFrom
  <2>2. loaded'[v] = ws /\ ws' = ws /\ snap' = snap
    BY <2>1 DEF LoadContext, CoordTypeOK, Memory
  <2>3. ContractHolds(snap[v], ws.unknowns) /\ ~CheckpointExists(snap[v], ws)
    BY <2>1 DEF LoadContext
  <2>4. QED
    BY <1>1, <2>2, <2>3
<1>5. CASE UNCHANGED coordVars
  <2>1. pc[v] = "update" /\ loaded'[v] = loaded[v] /\ snap'[v] = snap[v]
    BY <1>5 DEF coordVars
  <2>2. QED
    BY <1>2, <2>1
<1>6. QED
  BY <1>2, <1>3, <1>4, <1>5 DEF CoordNext, OtherRevision, allVars, coordVars

(* A process that holds a claim is in the engine, and counts its tries.       *)
LEMMA ControlInductive ==
  ASSUME TypeOK, CoordTypeOK, NEW w \in Workers, CoordStep(w)
  PROVE  /\ pc' \in [Workers -> Step]
         /\ tries' \in [Workers -> 0 .. 2]
         /\ \A v \in Workers : held'[v] # NULL => pc'[v] = "engine"
<1> USE DEF CoordTypeOK, Goto, Leave, Step
<1>1. held \in [Workers -> Claims \union {NULL}]
  BY DEF TypeOK
<1>2. CASE StartRun(w)
  BY <1>2 DEF StartRun, RegisterGraph, vars
<1>3. CASE EngineClaim(w)
  <2>1. PICK c : held' = [held EXCEPT ![w] = c]
    BY <1>3 DEF EngineClaim, ClaimReadyNode, Grant
  <2>2. QED
    BY <1>1, <1>3, <2>1 DEF EngineClaim, coordVars
<1>4. CASE EngineFinish(w)
  <2>1. held' = [held EXCEPT ![w] = NULL]
    BY <1>4, FinishEnds DEF EngineFinish
  <2>2. QED
    BY <1>1, <1>4, <2>1 DEF EngineFinish
<1>5. CASE EngineLook(w)
  <2>1. held[w] = NULL
    BY <1>5 DEF EngineLook
  <2>2. QED
    BY <1>5, <2>1 DEF EngineLook, vars
<1>6. ASSUME NEW n \in NodeKeys, NEW d \in Decision,
             NEW disposition \in Disposition \union {NULL}, StartResolve(w, n, d, disposition)
      PROVE  /\ pc' \in [Workers -> Step]
             /\ tries' \in [Workers -> 0 .. 2]
             /\ \A v \in Workers : held'[v] # NULL => pc'[v] = "engine"
  BY <1>6 DEF StartResolve, Enter, vars
<1>7. CASE Decide(w)
  <2>1. held' = held
    BY <1>7 DEF Decide, ResolveWaitingNode
  <2>2. QED
    BY <1>7, <2>1 DEF Decide
<1>8. CASE DecideTooLate(w)
  BY <1>8 DEF DecideTooLate, vars
<1>9. CASE ReadRun(w)
  BY <1>9 DEF ReadRun, vars
<1>10. CASE ReadNodes(w)
  BY <1>10 DEF ReadNodes, vars
<1>11. CASE ReadEventCount(w)
  BY <1>11 DEF ReadEventCount, vars
<1>12. CASE LoadAndRaise(w)
  BY <1>12 DEF LoadAndRaise, vars
<1>13. CASE LoadUpToDate(w)
  BY <1>13 DEF LoadUpToDate, vars
<1>14. CASE LoadContext(w)
  BY <1>14 DEF LoadContext, vars
<1>15. CASE Update(w)
  BY <1>15 DEF Update, vars
<1>16. CASE UpdateConflict(w)
  <2>1. CASE tries[w] < 2
    BY <1>16, <2>1 DEF UpdateConflict, vars
  <2>2. CASE ~(tries[w] < 2)
    BY <1>16, <2>2 DEF UpdateConflict, vars
  <2>3. QED
    BY <2>1, <2>2
<1>17. QED
  BY <1>2, <1>3, <1>4, <1>5, <1>6, <1>7, <1>8, <1>9, <1>10, <1>11, <1>12, <1>13, <1>14, <1>15,
     <1>16 DEF CoordStep

(* The output a gate is approved with is a disposition. *)
LEMMA ClosureInductive ==
  ASSUME CoordTypeOK, [CoordNext]_allVars
  PROVE  closure' \in Disposition \union {NULL}
<1>1. closure \in Disposition \union {NULL}
  BY DEF CoordTypeOK
<1>2. ASSUME NEW w \in Workers, Decide(w)
      PROVE  closure' \in Disposition \union {NULL}
  BY <1>1, <1>2 DEF Decide, CoordTypeOK, Memory, ToDecide
<1>3. ASSUME NEW w \in Workers,
             \/ StartRun(w) \/ EngineClaim(w) \/ EngineFinish(w) \/ EngineLook(w)
             \/ DecideTooLate(w) \/ ReadRun(w) \/ ReadNodes(w)
             \/ ReadEventCount(w) \/ LoadAndRaise(w) \/ LoadUpToDate(w) \/ LoadContext(w)
             \/ Update(w) \/ UpdateConflict(w)
      PROVE  closure' = closure
  BY <1>3 DEF StartRun, EngineClaim, EngineFinish, EngineLook, DecideTooLate, ReadRun,
              ReadNodes, ReadEventCount, LoadAndRaise, LoadUpToDate, LoadContext, Update,
              UpdateConflict
<1>4. ASSUME NEW w \in Workers, NEW n \in NodeKeys, NEW d \in Decision,
             NEW disposition \in Disposition \union {NULL}, StartResolve(w, n, d, disposition)
      PROVE  closure' = closure
  BY <1>4 DEF StartResolve
<1>5. ASSUME NEW u \in Unknowns, OtherRevision(u) PROVE closure' = closure
  BY <1>5 DEF OtherRevision
<1>6. QED
  BY <1>1, <1>2, <1>3, <1>4, <1>5 DEF CoordNext, CoordStep, allVars

(* Every step keeps CoordTypeOK. *)
LEMMA CoordTypeInductive ==
  ASSUME IInv, CoordTypeOK, LoadedIsPast, [CoordNext]_allVars
  PROVE  CoordTypeOK'
<1>1. ws' \in WorkingSet /\ closure' \in Disposition \union {NULL}
  BY VersionsGrow, ClosureInductive
<1>2. output' \in [NodeKeys -> Output]
  BY OutputInductive
<1>3. /\ pc' \in [Workers -> Step]
      /\ tries' \in [Workers -> 0 .. 2]
      /\ \A v \in Workers : held'[v] # NULL => pc'[v] = "engine"
  <2>1. CASE UNCHANGED <<vars, coordVars>>
    BY <2>1 DEF CoordTypeOK, vars, coordVars
  <2>2. ASSUME NEW w \in Workers, CoordStep(w)
        PROVE  <1>3!1 /\ <1>3!2 /\ <1>3!3
    BY <2>2, ControlInductive DEF IInv
  <2>3. QED
    BY <2>1, <2>2 DEF CoordNext, OtherRevision, allVars
<1>4. QED
  BY <1>1, <1>2, <1>3, MemoryInductive DEF CoordTypeOK

(* A revision adds one checkpoint and one version, or is by another run. *)
LEMMA CheckpointsInductive ==
  ASSUME CInv, [CoordNext]_allVars
  PROVE  revisions' \in Nat /\ IsFiniteSet(ws'.checkpoints) /\ OneRevisionPerCheckpoint'
<1>1. /\ ws \in WorkingSet
      /\ revisions \in Nat
      /\ IsFiniteSet(ws.checkpoints)
      /\ ws.version = 1 + revisions + Cardinality(ws.checkpoints)
  BY DEF CInv, CoordTypeOK, OneRevisionPerCheckpoint
<1>2. Cardinality(ws.checkpoints) \in Nat
  BY <1>1, FS_CardinalityType
<1>3. ASSUME NEW w \in Workers, Update(w)
      PROVE  revisions' \in Nat /\ IsFiniteSet(ws'.checkpoints) /\ OneRevisionPerCheckpoint'
  <2> DEFINE id == CheckpointId(snap[w])
  <2>1. /\ ws'.version = ws.version + 1
        /\ ws'.checkpoints = ws.checkpoints \union {id}
        /\ id \notin ws.checkpoints
        /\ revisions' = revisions
    BY <1>3, UpdateRevisesCurrent DEF CInv, Materialized, CheckpointExists
  <2> HIDE DEF id
  <2>2. /\ IsFiniteSet(ws.checkpoints \union {id})
        /\ Cardinality(ws.checkpoints \union {id}) = Cardinality(ws.checkpoints) + 1
    BY <1>1, <2>1, FS_AddElement
  <2>3. QED
    BY <1>1, <1>2, <2>1, <2>2 DEF OneRevisionPerCheckpoint
<1>4. ASSUME NEW u \in Unknowns, OtherRevision(u)
      PROVE  revisions' \in Nat /\ IsFiniteSet(ws'.checkpoints) /\ OneRevisionPerCheckpoint'
  <2>1. /\ ws'.version = ws.version + 1
        /\ ws'.checkpoints = ws.checkpoints
        /\ revisions' = revisions + 1
    BY <1>1, <1>4 DEF OtherRevision, WorkingSet
  <2>2. QED
    BY <1>1, <1>2, <2>1 DEF OneRevisionPerCheckpoint
<1>5. QED
  BY <1>1, <1>3, <1>4, OnlyRevisionsWrite DEF OneRevisionPerCheckpoint

(* CInv holds initially. *)
LEMMA CoordInitInvariant == CoordInit => CInv
<1> SUFFICES ASSUME CoordInit PROVE CInv
  OBVIOUS
<1>1. IInv
  BY InitInvariant DEF CoordInit
<1>2. CoordTypeOK
  BY DEF CoordInit, Init, CoordTypeOK, Memory, Output, WorkingSet, TaskStatuses, Step
<1>3. SnapshotIsPast /\ LoadedIsPast /\ revisions \in Nat
  BY DEF CoordInit, SnapshotIsPast, SnapshotPast, LoadedIsPast
<1>4. IsFiniteSet(ws.checkpoints) /\ OneRevisionPerCheckpoint
  BY FS_EmptySet DEF CoordInit, OneRevisionPerCheckpoint
<1>5. QED
  BY <1>1, <1>2, <1>3, <1>4 DEF CInv

(* Every step keeps CInv. *)
LEMMA CoordNextInvariant == CInv /\ [CoordNext]_allVars => CInv'
<1> SUFFICES ASSUME CInv, [CoordNext]_allVars PROVE CInv'
  OBVIOUS
<1>1. IInv /\ CoordTypeOK /\ SnapshotIsPast /\ LoadedIsPast
  BY DEF CInv
<1>2. IInv'
  BY <1>1, CoordStepIsTransaction, NextInvariant
<1>3. CoordTypeOK'
  BY <1>1, CoordTypeInductive
<1>4. SnapshotIsPast' /\ LoadedIsPast'
  BY <1>1, SnapshotInductive, LoadedInductive
<1>5. QED
  BY <1>2, <1>3, <1>4, CheckpointsInductive DEF CInv

(* CInv is an invariant of the coordinator. *)
THEOREM CoordInvariantHolds == CoordSpec => []CInv
BY CoordInitInvariant, CoordNextInvariant, PTL DEF CoordSpec

-----------------------------------------------------------------------------
(* The theorems *)

(* The Working Set, what the processes remember of it and of the run, and     *)
(* their claims keep their domains; no process has a version that is not      *)
(* there yet.                                                                 *)
THEOREM CoordTypeCorrect == CoordSpec => []CoordTypeOK
<1>1. CInv => CoordTypeOK
  BY DEF CInv
<1>2. QED
  BY <1>1, CoordInvariantHolds, PTL

(* For any number of processes that run, resume and decide one graph, each    *)
(* checkpoint is materialized by exactly one revision of the Working Set.     *)
THEOREM OneRevisionPerCheckpointHolds == CoordSpec => []OneRevisionPerCheckpoint
<1>1. CInv => OneRevisionPerCheckpoint
  BY DEF CInv
<1>2. QED
  BY <1>1, CoordInvariantHolds, PTL

(* Coordinators make only the steps of the event store: every theorem about   *)
(* the store holds of them.                                                   *)
THEOREM CoordinatorsUseStore == CoordSpec => Spec
<1>1. CoordInit => Init
  BY DEF CoordInit
<1>2. CInv /\ [CoordNext]_allVars => [Next]_vars
  BY CoordStepIsTransaction DEF CInv
<1>3. QED
  BY <1>1, <1>2, CoordInvariantHolds, PTL DEF CoordSpec, Spec

(* The task is closed only while its run and its gate have succeeded, on a    *)
(* judgment that fits what is open in the Working Set that is revised.        *)
THEOREM ClosureIsEarnedHolds == CoordSpec => ClosureIsEarned
<1>1. CInv /\ [CoordNext]_allVars =>
        [ws.status # "closed" /\ ws'.status = "closed" =>
           /\ runStatus[Run] = "succeeded"
           /\ status[Gate] = "succeeded"
           /\ Valid(ws'.judgment, ws.unknowns)]_allVars
  <2> SUFFICES ASSUME CInv, [CoordNext]_allVars, ws.status # "closed", ws'.status = "closed"
               PROVE  /\ runStatus[Run] = "succeeded"
                      /\ status[Gate] = "succeeded"
                      /\ Valid(ws'.judgment, ws.unknowns)
    OBVIOUS
  <2>1. ASSUME NEW u \in Unknowns, OtherRevision(u) PROVE FALSE
    BY <2>1 DEF OtherRevision, CInv, CoordTypeOK, WorkingSet
  <2>2. PICK w \in Workers : Update(w)
    BY <2>1, OnlyRevisionsWrite
  <2>3. ws' = Materialized(snap[w], ws) /\ ContractHolds(snap[w], ws.unknowns)
    BY <2>2, UpdateRevisesCurrent DEF CInv
  <2>4. TaskStatus(snap[w]) = "closed"
    BY <2>3 DEF Materialized
  <2>5. snap[w].run = "succeeded" /\ HasContract(snap[w])
    BY <2>4 DEF TaskStatus
  <2>6. runStatus[Run] = "succeeded" /\ status[Gate] = "succeeded"
    BY <2>2, <2>5 DEF CInv, SnapshotIsPast, SnapshotPast, Update, HasContract
  <2>7. ws'.judgment = snap[w].closure
    BY <2>3, <2>5 DEF Materialized
  <2>8. QED
    BY <2>3, <2>5, <2>6, <2>7 DEF ContractHolds
<1>2. QED
  BY <1>1, CoordInvariantHolds, PTL DEF CoordSpec, ClosureIsEarned

(* No revision drops an unknown that somebody has raised, or a checkpoint     *)
(* that somebody has recorded, or takes the version back, whatever the        *)
(* patches of the nodes are and however old the snapshots.                    *)
THEOREM NothingDisappearsHolds == CoordSpec => NothingDisappears
<1>1. CInv /\ [CoordNext]_allVars =>
        [/\ \A u \in Unknowns :
              (\E item \in ws.unknowns : item[1] = u)
                => \E item \in ws'.unknowns : item[1] = u
         /\ ws.checkpoints \subseteq ws'.checkpoints
         /\ ws.version <= ws'.version]_allVars
  <2> SUFFICES ASSUME CInv, [CoordNext]_allVars
               PROVE  /\ \A item \in ws.unknowns : \E kept \in ws'.unknowns : kept[1] = item[1]
                      /\ ws.checkpoints \subseteq ws'.checkpoints
                      /\ ws.version <= ws'.version
    OBVIOUS
  <2>1. ws.version <= ws'.version
    BY VersionsGrow DEF CInv, CoordTypeOK, WorkingSet
  <2>2. ASSUME NEW w \in Workers, Update(w)
        PROVE  /\ \A item \in ws.unknowns : \E kept \in ws'.unknowns : kept[1] = item[1]
               /\ ws.checkpoints \subseteq ws'.checkpoints
    <3>1. ws' = Materialized(snap[w], ws)
      BY <2>2, UpdateRevisesCurrent DEF CInv
    <3>2. ws'.unknowns = RevisedUnknowns(snap[w], ws.unknowns)
      BY <3>1 DEF Materialized
    <3>3. ws.checkpoints \subseteq ws'.checkpoints
      BY <3>1 DEF Materialized
    <3>4. ASSUME NEW item \in ws.unknowns PROVE \E kept \in ws'.unknowns : kept[1] = item[1]
      <4> DEFINE kept == IF item[1] \in Resolved(snap[w]) THEN <<item[1], "resolved">> ELSE item
      <4>1. kept \in ws'.unknowns
        BY <3>2 DEF RevisedUnknowns
      <4>2. kept[1] = item[1]
        OBVIOUS
      <4>3. QED
        BY <4>1, <4>2
    <3>5. QED
      BY <3>3, <3>4
  <2>3. ASSUME NEW v \in Unknowns, OtherRevision(v)
        PROVE  ws.unknowns \subseteq ws'.unknowns /\ ws.checkpoints = ws'.checkpoints
    BY <2>3 DEF OtherRevision, CInv, CoordTypeOK, WorkingSet
  <2>4. QED
    BY <2>1, <2>2, <2>3, OnlyRevisionsWrite
<1>2. QED
  BY <1>1, CoordInvariantHolds, PTL DEF CoordSpec, NothingDisappears
=============================================================================
