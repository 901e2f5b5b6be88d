----------------------- MODULE WorkingSetStoreProofs -----------------------
(* Proofs about WorkingSetStore, for any processes, changes and versions. *)
EXTENDS WorkingSetStore, TLAPS

USE ChangesAssumption, BoundsAssumption, NullAssumption

-----------------------------------------------------------------------------
(* The inductive invariant *)

(* The record a reader works from was current when it was read. *)
RecordWasCurrent ==
  \A p \in Procs : pc[p] = "read" =>
    /\ record[p] \in Task
    /\ record[p].version <= CurrentVersion
    /\ record[p].version = CurrentVersion => record[p].status = task.status

(* A pair of the current version carries the current status. *)
ContextStatus ==
  \A p \in Procs : ctx[p] # NULL /\ ctx[p].version = CurrentVersion =>
    ctx[p].status = task.status

(* A revision expects the version its process has in memory. *)
CallExpectsContext ==
  \A p \in Procs : pc[p] \in {"load", "lock", "check", "write", "publish"} =>
    /\ call[p] \in Call
    /\ pc[p] = "load" => call[p].expected = 0
    /\ call[p].expected > 0 =>
         /\ ctx[p] \in Context
         /\ ctx[p].version = call[p].expected
         /\ call[p].expected < MaxVersion
         /\ call[p].change \in Changes

(* What a writer is about to write follows from the version it checked, which *)
(* is current as long as the writer holds the lock.                           *)
DraftIsCurrent ==
  \A p \in Procs : pc[p] \in {"write", "publish"} =>
    /\ record[p] \in Task
    /\ draft[p] \in Snapshot
    /\ call[p].expected = CurrentVersion
    /\ record[p].version = CurrentVersion + 1
    /\ draft[p].by = p
    /\ IF CurrentVersion = 0
       THEN record[p].status = "active"
       ELSE draft[p] = Revision(p) /\ record[p] = RevisedRecord(p)

(* The version file is written before the task record names it. *)
DraftIsWritten ==
  \A p \in Procs : pc[p] = "publish" => files[record[p].version] = draft[p]

IInv ==
  /\ TypeOK
  /\ VersionsAreContiguous
  /\ ContextWasPublished
  /\ RecordWasCurrent
  /\ ContextStatus
  /\ CallExpectsContext
  /\ DraftIsCurrent
  /\ DraftIsWritten
-----------------------------------------------------------------------------
(* Type correctness *)

(* What a revision computes from a version is a version and a task record.  *)
LEMMA RevisionType ==
  ASSUME NEW p \in Procs, task \in Task, files[task.version] \in Snapshot,
         call[p] \in Call, call[p].expected < MaxVersion
  PROVE  Revision(p) \in Snapshot /\ RevisedRecord(p) \in Task
<1>1. call[p].change.items \in SUBSET Items /\ files[task.version].content \in SUBSET Items
  BY DEF Call, Change, Snapshot
<1>2. Revised(call[p].change, files[task.version].content) \in SUBSET Items
  BY <1>1 DEF Revised
<1>3. call[p].expected + 1 \in Versions
  BY DEF Versions, Call
<1>4. call[p].change.status \in Status \union {NULL} /\ task.status \in Status
  BY DEF Call, Change, Task
<1>5. QED
  BY <1>2, <1>3, <1>4 DEF Revision, RevisedRecord, Snapshot, Task

(* The current version is on disk. *)
LEMMA CurrentOnDisk ==
  ASSUME TypeOK, VersionsAreContiguous, task # NULL
  PROVE  /\ task \in Task
         /\ task.version \in Versions
         /\ CurrentVersion = task.version
         /\ files[task.version] \in Snapshot
<1>1. task \in Task /\ task.version \in Versions
  BY DEF TypeOK, Task
<1>2. QED
  BY <1>1 DEF TypeOK, VersionsAreContiguous, CurrentVersion, Versions

(* Every step keeps the values of the variables, and the lock with whoever   *)
(* is in the critical section.                                               *)
LEMMA NextType == IInv /\ [Next]_vars => TypeOK'
<1> SUFFICES ASSUME IInv, [Next]_vars
             PROVE  TypeOK'
  OBVIOUS
<1> USE DEF Step, InCriticalSection, disk
<1>1. ASSUME NEW p \in Procs, EnsureTask(p)
      PROVE  TypeOK'
  <2>1. \A content \in SUBSET Items :
          [expected |-> 0,
           change |-> [items |-> content, replace |-> TRUE, status |-> "active"]] \in Call
    BY DEF Call, Change, Status
  <2>2. QED
    BY <1>1, <2>1 DEF IInv, TypeOK, EnsureTask, Goto
<1>2. ASSUME NEW p \in Procs, UpdateWorkingSet(p)
      PROVE  TypeOK'
  <2>1. \A change \in Changes : [expected |-> ctx[p].version, change |-> change] \in Call
    BY <1>2 DEF IInv, TypeOK, UpdateWorkingSet, Context, Call, Versions
  <2>2. QED
    BY <1>2, <2>1 DEF IInv, TypeOK, UpdateWorkingSet, Goto
<1>3. ASSUME NEW p \in Procs, LoadTask(p)
      PROVE  TypeOK'
  BY <1>3 DEF IInv, TypeOK, LoadTask, Goto
<1>4. ASSUME NEW p \in Procs, LoadWorkingSet(p)
      PROVE  TypeOK'
  <2>1. record[p] \in Task /\ record[p].version \in Versions
    BY <1>4 DEF IInv, RecordWasCurrent, LoadWorkingSet, Task
  <2>2. files[record[p].version] \in Snapshot
    BY <1>4, <2>1 DEF IInv, RecordWasCurrent, VersionsAreContiguous, TypeOK, LoadWorkingSet
  <2>3. [version |-> record[p].version, status |-> record[p].status,
         snapshot |-> files[record[p].version]] \in Context
    BY <2>1, <2>2 DEF Context, Task
  <2>4. QED
    BY <1>4, <2>3 DEF IInv, TypeOK, LoadWorkingSet, Leave, Goto
<1>5. ASSUME NEW p \in Procs, LockTask(p)
      PROVE  TypeOK'
  BY <1>5 DEF IInv, TypeOK, LockTask, Goto
<1>6. ASSUME NEW p \in Procs, CheckCreate(p)
      PROVE  TypeOK'
  <2>1. call[p] \in Call /\ call[p].change.items \in SUBSET Items
    BY <1>6 DEF IInv, CallExpectsContext, CheckCreate, Call, Change
  <2>2. [content |-> call[p].change.items, by |-> p] \in Snapshot
    BY <2>1 DEF Snapshot
  <2>3. [version |-> 1, status |-> "active"] \in Task
    BY DEF Task, Versions, Status
  <2>4. QED
    BY <1>6, <2>2, <2>3 DEF IInv, TypeOK, CheckCreate, Goto
<1>7. ASSUME NEW p \in Procs, CheckCreateExists(p)
      PROVE  TypeOK'
  BY <1>7 DEF IInv, TypeOK, CheckCreateExists, Goto
<1>8. ASSUME NEW p \in Procs, CheckUpdate(p)
      PROVE  TypeOK'
  <2>1. call[p] \in Call /\ call[p].expected < MaxVersion /\ task # NULL
    BY <1>8 DEF IInv, CallExpectsContext, CheckUpdate, CurrentVersion
  <2>2. Revision(p) \in Snapshot /\ RevisedRecord(p) \in Task
    BY <2>1, CurrentOnDisk, RevisionType DEF IInv
  <2>3. QED
    BY <1>8, <2>2 DEF IInv, TypeOK, CheckUpdate, Goto
<1>9. ASSUME NEW p \in Procs, CheckUpdateConflict(p)
      PROVE  TypeOK'
  BY <1>9 DEF IInv, TypeOK, CheckUpdateConflict, Leave, Goto
<1>10. ASSUME NEW p \in Procs, WriteVersion(p)
       PROVE  TypeOK'
  <2>1. draft[p] \in Snapshot
    BY <1>10 DEF IInv, DraftIsCurrent, WriteVersion
  <2>2. files' \in [Versions -> Snapshot \union {NULL}]
    BY <1>10, <2>1 DEF IInv, TypeOK, WriteVersion
  <2>3. QED
    BY <1>10, <2>2 DEF IInv, TypeOK, WriteVersion, Goto
<1>11. ASSUME NEW p \in Procs, WriteTask(p)
       PROVE  TypeOK'
  <2>1. record[p] \in Task /\ draft[p] \in Snapshot
    BY <1>11 DEF IInv, DraftIsCurrent, WriteTask
  <2>2. [version |-> record[p].version, status |-> record[p].status,
         snapshot |-> draft[p]] \in Context
    BY <2>1 DEF Context, Task
  <2>3. QED
    BY <1>11, <2>1, <2>2 DEF IInv, TypeOK, WriteTask, Goto
<1>12. ASSUME NEW p \in Procs, UnlockTask(p)
       PROVE  TypeOK'
  BY <1>12 DEF IInv, TypeOK, UnlockTask, Leave, Goto
<1>13. ASSUME NEW p \in Procs, Crash(p)
       PROVE  TypeOK'
  BY <1>13 DEF IInv, TypeOK, Crash, Leave, Goto
<1>14. CASE UNCHANGED vars
  BY <1>14 DEF IInv, TypeOK, vars
<1>15. QED
  BY <1>1, <1>2, <1>3, <1>4, <1>5, <1>6, <1>7, <1>8, <1>9, <1>10, <1>11, <1>12,
     <1>13, <1>14 DEF Next, CallStep
(* Only the holder of the lock changes the directory, and it alone is in the *)
(* section the lock protects.                                                *)
LEMMA HolderIsAlone ==
  ASSUME TypeOK, NEW p \in Procs, NEW q \in Procs,
         pc[p] \in InCriticalSection, pc[q] \in InCriticalSection
  PROVE  p = q /\ lock = p
BY DEF TypeOK

(* What a step may do to the directory: nothing, the write of the next       *)
(* version's file, or the record that names that file.                       *)
LEMMA DiskStep ==
  ASSUME IInv, [Next]_vars
  PROVE  \/ UNCHANGED disk
         \/ \E p \in Procs :
              /\ WriteVersion(p)
              /\ record[p].version = CurrentVersion + 1
              /\ record[p].version \in Versions
              /\ files' = [files EXCEPT ![record[p].version] = draft[p]]
              /\ UNCHANGED task
         \/ \E p \in Procs :
              /\ WriteTask(p)
              /\ record[p].version = CurrentVersion + 1
              /\ record[p].version \in Versions
              /\ files[record[p].version] = draft[p]
              /\ draft[p] \in Snapshot
              /\ task' = record[p]
              /\ task' # NULL
              /\ CurrentVersion' = CurrentVersion + 1
              /\ UNCHANGED files
<1>1. ASSUME NEW p \in Procs, WriteVersion(p)
      PROVE  /\ record[p].version = CurrentVersion + 1
             /\ record[p].version \in Versions
             /\ files' = [files EXCEPT ![record[p].version] = draft[p]]
             /\ UNCHANGED task
  BY <1>1 DEF IInv, DraftIsCurrent, WriteVersion, Task
<1>2. ASSUME NEW p \in Procs, WriteTask(p)
      PROVE  /\ record[p].version = CurrentVersion + 1
             /\ record[p].version \in Versions
             /\ files[record[p].version] = draft[p]
             /\ draft[p] \in Snapshot
             /\ task' = record[p]
             /\ task' # NULL
             /\ CurrentVersion' = CurrentVersion + 1
             /\ UNCHANGED files
  BY <1>2 DEF IInv, DraftIsCurrent, DraftIsWritten, WriteTask, Task, CurrentVersion
<1>3. CASE UNCHANGED vars
  BY <1>3 DEF vars, disk
<1>4. ASSUME NEW p \in Procs, EnsureTask(p) \/ UpdateWorkingSet(p) \/ LoadTask(p)
        \/ LoadWorkingSet(p) \/ LockTask(p) \/ CheckCreate(p) \/ CheckCreateExists(p)
        \/ CheckUpdate(p) \/ CheckUpdateConflict(p) \/ UnlockTask(p) \/ Crash(p)
      PROVE  UNCHANGED disk
  BY <1>4 DEF EnsureTask, UpdateWorkingSet, LoadTask, LoadWorkingSet, LockTask,
     CheckCreate, CheckCreateExists, CheckUpdate, CheckUpdateConflict, UnlockTask, Crash
<1>5. QED
  BY <1>1, <1>2, <1>3, <1>4 DEF Next, CallStep

(* The current version is a natural number. *)
LEMMA CurrentVersionType ==
  ASSUME TypeOK
  PROVE  CurrentVersion \in Nat
BY DEF TypeOK, CurrentVersion, Task, Versions

LEMMA SameDisk ==
  ASSUME UNCHANGED disk
  PROVE  task' = task /\ files' = files /\ CurrentVersion' = CurrentVersion
BY DEF disk, CurrentVersion

-----------------------------------------------------------------------------
(* The conjuncts of the invariant *)

(* Versions are written one after the other. *)
LEMMA ContiguousInductive == IInv /\ [Next]_vars => VersionsAreContiguous'
<1> SUFFICES ASSUME IInv, [Next]_vars
             PROVE  VersionsAreContiguous'
  OBVIOUS
<1>1. CurrentVersion \in Nat
  BY CurrentVersionType DEF IInv
<1>2. CASE UNCHANGED disk
  BY <1>2, SameDisk DEF IInv, VersionsAreContiguous
<1>3. ASSUME NEW p \in Procs,
             record[p].version = CurrentVersion + 1,
             files' = [files EXCEPT ![record[p].version] = draft[p]],
             UNCHANGED task
      PROVE  VersionsAreContiguous'
  <2>1. CurrentVersion' = CurrentVersion
    BY <1>3 DEF CurrentVersion
  <2>2. \A v \in Versions : v # CurrentVersion + 1 => files'[v] = files[v]
    BY <1>3 DEF IInv, TypeOK
  <2>3. QED
    BY <1>1, <2>1, <2>2 DEF IInv, VersionsAreContiguous, Versions
<1>4. ASSUME NEW p \in Procs,
             record[p].version = CurrentVersion + 1,
             files[record[p].version] = draft[p], draft[p] \in Snapshot,
             CurrentVersion' = CurrentVersion + 1,
             UNCHANGED files
      PROVE  VersionsAreContiguous'
  <2>1. \A v \in Versions : v <= CurrentVersion + 1 => files[v] # NULL
    BY <1>1, <1>4 DEF IInv, VersionsAreContiguous, Versions
  <2>2. \A v \in Versions : v > CurrentVersion + 2 => files[v] = NULL
    BY <1>1 DEF IInv, VersionsAreContiguous, Versions
  <2>3. QED
    BY <1>1, <1>4, <2>1, <2>2 DEF VersionsAreContiguous, Versions
<1>5. QED
  BY <1>2, <1>3, <1>4, DiskStep

(* No step changes a version that is published. *)
LEMMA PublishedStep ==
  ASSUME IInv, [Next]_vars
  PROVE  /\ CurrentVersion \in Nat
         /\ CurrentVersion' \in {CurrentVersion, CurrentVersion + 1}
         /\ CurrentVersion' = CurrentVersion => task' = task
         /\ \A v \in Versions : v <= CurrentVersion => files'[v] = files[v]
<1>1. CurrentVersion \in Nat
  BY CurrentVersionType DEF IInv
<1>2. CASE UNCHANGED disk
  BY <1>1, <1>2, SameDisk
<1>3. ASSUME NEW p \in Procs,
             record[p].version = CurrentVersion + 1,
             files' = [files EXCEPT ![record[p].version] = draft[p]],
             UNCHANGED task
      PROVE  /\ CurrentVersion' = CurrentVersion
             /\ \A v \in Versions : v <= CurrentVersion => files'[v] = files[v]
  BY <1>1, <1>3 DEF CurrentVersion, IInv, TypeOK, Versions
<1>4. QED
  BY <1>1, <1>2, <1>3, DiskStep

(* A pair in memory is a version that was published: a reader's because the  *)
(* version its record named was on disk, a writer's because it published it. *)
LEMMA ContextInductive == IInv /\ [Next]_vars => ContextWasPublished' /\ ContextStatus'
<1> SUFFICES ASSUME IInv, [Next]_vars, NEW q \in Procs, ctx'[q] # NULL
             PROVE  /\ ctx'[q].version <= CurrentVersion'
                    /\ ctx'[q].snapshot = files'[ctx'[q].version]
                    /\ ctx'[q].version = CurrentVersion' => ctx'[q].status = task'.status
  BY DEF ContextWasPublished, ContextStatus
<1>0. TypeOK /\ CurrentVersion \in Nat
  BY CurrentVersionType DEF IInv
<1>1. CASE ctx'[q] = ctx[q]
  <2>1. ctx[q] \in Context /\ ctx[q].version \in Versions
    BY <1>0, <1>1 DEF TypeOK, Context
  <2>2. /\ ctx[q].version <= CurrentVersion
        /\ ctx[q].snapshot = files[ctx[q].version]
        /\ ctx[q].version = CurrentVersion => ctx[q].status = task.status
    BY <1>1 DEF IInv, ContextWasPublished, ContextStatus
  <2>3. QED
    BY <1>0, <1>1, <2>1, <2>2, PublishedStep DEF Versions
<1>2. CASE LoadWorkingSet(q)
  <2>1. /\ record[q] \in Task
        /\ record[q].version <= CurrentVersion
        /\ record[q].version = CurrentVersion => record[q].status = task.status
    BY <1>2 DEF LoadWorkingSet, IInv, RecordWasCurrent
  <2>2. ctx'[q] = [version |-> record[q].version, status |-> record[q].status,
                   snapshot |-> files[record[q].version]]
    BY <1>0, <1>2 DEF LoadWorkingSet, TypeOK
  <2>3. UNCHANGED disk
    BY <1>2 DEF LoadWorkingSet
  <2>4. QED
    BY <2>1, <2>2, <2>3, SameDisk
<1>3. CASE WriteTask(q)
  <2>1. ctx'[q] = [version |-> record[q].version, status |-> record[q].status,
                   snapshot |-> draft[q]]
    BY <1>0, <1>3 DEF WriteTask, TypeOK
  <2>2. /\ record[q] \in Task
        /\ record[q].version = CurrentVersion + 1
        /\ files[record[q].version] = draft[q]
    BY <1>3 DEF WriteTask, IInv, DraftIsCurrent, DraftIsWritten
  <2>3. task' = record[q] /\ files' = files
    BY <1>3 DEF WriteTask
  <2>4. CurrentVersion' = record[q].version
    BY <2>2, <2>3 DEF CurrentVersion, Task
  <2>5. QED
    BY <1>0, <2>1, <2>2, <2>3, <2>4
<1>4. ctx'[q] = ctx[q] \/ LoadWorkingSet(q) \/ WriteTask(q)
  <2>1. ASSUME NEW p \in Procs, EnsureTask(p) \/ UpdateWorkingSet(p) \/ LoadTask(p)
          \/ LockTask(p) \/ CheckCreate(p) \/ CheckCreateExists(p) \/ CheckUpdate(p)
          \/ WriteVersion(p) \/ UnlockTask(p)
        PROVE  ctx' = ctx
    BY <2>1 DEF EnsureTask, UpdateWorkingSet, LoadTask, LockTask, CheckCreate,
       CheckCreateExists, CheckUpdate, WriteVersion, UnlockTask
  <2>2. ASSUME NEW p \in Procs, CheckUpdateConflict(p) \/ Crash(p)
        PROVE  ctx'[q] = ctx[q]
    BY <1>0, <2>2 DEF CheckUpdateConflict, Crash, TypeOK
  <2>3. ASSUME NEW p \in Procs, LoadWorkingSet(p) \/ WriteTask(p), p # q
        PROVE  ctx'[q] = ctx[q]
    BY <1>0, <2>3 DEF LoadWorkingSet, WriteTask, TypeOK
  <2>4. CASE UNCHANGED vars
    BY <2>4 DEF vars
  <2>5. QED
    BY <2>1, <2>2, <2>3, <2>4 DEF Next, CallStep
<1>5. QED
  BY <1>1, <1>2, <1>3, <1>4
ProcStep(p) == EnsureTask(p) \/ UpdateWorkingSet(p) \/ CallStep(p) \/ Crash(p)

(* What a process keeps in memory. *)
Memory(p) == <<pc[p], call[p], record[p], draft[p], ctx[p]>>

(* A step leaves the memory of every other process alone. *)
LEMMA OthersUntouched ==
  ASSUME TypeOK, NEW p \in Procs, NEW q \in Procs, ProcStep(p), p # q
  PROVE  Memory(q)' = Memory(q)
BY DEF TypeOK, Memory, ProcStep, CallStep, EnsureTask, UpdateWorkingSet, LoadTask, LoadWorkingSet, LockTask, CheckCreate,
     CheckCreateExists, CheckUpdate, CheckUpdateConflict, WriteVersion, WriteTask,
     UnlockTask, Crash, Leave, Goto

(* Either a process steps, or its memory stays as it is. *)
LEMMA StepOrSame ==
  ASSUME TypeOK, [Next]_vars, NEW q \in Procs
  PROVE  ProcStep(q) \/ Memory(q)' = Memory(q)
<1>1. CASE UNCHANGED vars
  BY <1>1 DEF vars, Memory
<1>2. CASE \E p \in Procs : ProcStep(p)
  BY <1>2, OthersUntouched
<1>3. QED
  BY <1>1, <1>2 DEF Next, ProcStep

(* While a process is about to write, only it changes the directory. *)
LEMMA HolderOwnsDisk ==
  ASSUME IInv, [Next]_vars, NEW q \in Procs, pc[q] \in {"write", "publish"},
         Memory(q)' = Memory(q)
  PROVE  UNCHANGED disk
<1>1. ASSUME NEW p \in Procs, WriteVersion(p) \/ WriteTask(p)
      PROVE  FALSE
  <2>1. p = q
    BY <1>1, HolderIsAlone DEF IInv, InCriticalSection, WriteVersion, WriteTask
  <2>2. pc'[p] # pc[p]
    BY <1>1 DEF WriteVersion, WriteTask, Goto, IInv, TypeOK
  <2>3. QED
    BY <2>1, <2>2 DEF Memory
<1>2. QED
  BY <1>1, DiskStep

(* A reader's record was current, and the versions only go up from there. *)
LEMMA RecordInductive == IInv /\ [Next]_vars => RecordWasCurrent'
<1> SUFFICES ASSUME IInv, [Next]_vars, NEW q \in Procs, pc'[q] = "read"
             PROVE  /\ record'[q] \in Task
                    /\ record'[q].version <= CurrentVersion'
                    /\ record'[q].version = CurrentVersion' => record'[q].status = task'.status
  BY DEF RecordWasCurrent
<1>0. TypeOK /\ CurrentVersion \in Nat
  BY CurrentVersionType DEF IInv
<1>1. CASE Memory(q)' = Memory(q)
  <2>1. pc[q] = "read" /\ record'[q] = record[q]
    BY <1>1 DEF Memory
  <2>2. /\ record[q] \in Task
        /\ record[q].version <= CurrentVersion
        /\ record[q].version = CurrentVersion => record[q].status = task.status
    BY <2>1 DEF IInv, RecordWasCurrent
  <2>3. record[q].version \in Nat
    BY <2>2 DEF Task, Versions
  <2>4. QED
    BY <1>0, <2>1, <2>2, <2>3, PublishedStep
<1>2. CASE ProcStep(q)
  <2>1. LoadTask(q) /\ task # NULL
    BY <1>0, <1>2 DEF TypeOK, ProcStep, CallStep, EnsureTask, UpdateWorkingSet, LoadTask, LoadWorkingSet, LockTask, CheckCreate,
     CheckCreateExists, CheckUpdate, CheckUpdateConflict, WriteVersion, WriteTask,
     UnlockTask, Crash, Leave, Goto
  <2>2. record'[q] = task /\ UNCHANGED disk
    BY <1>0, <2>1 DEF LoadTask, TypeOK
  <2>3. task \in Task /\ CurrentVersion = task.version
    BY <2>1, CurrentOnDisk DEF IInv
  <2>4. QED
    BY <1>0, <2>2, <2>3, SameDisk
<1>3. QED
  BY <1>0, <1>1, <1>2, StepOrSame

(* A call of update_working_set expects the version in memory to its end. *)
LEMMA CallInductive == IInv /\ [Next]_vars => CallExpectsContext'
<1> DEFINE Calling(p) == pc[p] \in {"load", "lock", "check", "write", "publish"}
           Expects(p) ==
             /\ call[p] \in Call
             /\ pc[p] = "load" => call[p].expected = 0
             /\ call[p].expected > 0 =>
                  /\ ctx[p] \in Context
                  /\ ctx[p].version = call[p].expected
                  /\ call[p].expected < MaxVersion
                  /\ call[p].change \in Changes
<1> SUFFICES ASSUME IInv, [Next]_vars, NEW q \in Procs, Calling(q)'
             PROVE  Expects(q)'
  BY DEF CallExpectsContext
<1>0. TypeOK /\ TypeOK'
  BY NextType DEF IInv
<1>1. ASSUME pc'[q] # "load", Calling(q),
             call'[q] = call[q], ctx'[q] = ctx[q]
      PROVE  Expects(q)'
  BY <1>1 DEF IInv, CallExpectsContext
<1>2. CASE Memory(q)' = Memory(q)
  BY <1>2 DEF Memory, IInv, CallExpectsContext
<1>3. CASE EnsureTask(q)
  <2>1. PICK content \in SUBSET Items : call' = [call EXCEPT ![q] =
          [expected |-> 0,
           change |-> [items |-> content, replace |-> TRUE, status |-> "active"]]]
    BY <1>3 DEF EnsureTask
  <2>2. call'[q] = [expected |-> 0, change |->
          [items |-> content, replace |-> TRUE, status |-> "active"]]
    BY <1>0, <2>1 DEF TypeOK
  <2>3. call'[q] \in Call
    BY <2>2 DEF Call, Change, Status
  <2>4. QED
    BY <2>2, <2>3
<1>4. CASE UpdateWorkingSet(q)
  <2>1. PICK change \in Changes : call' = [call EXCEPT ![q] =
          [expected |-> ctx[q].version, change |-> change]]
    BY <1>4 DEF UpdateWorkingSet
  <2>2. call'[q] = [expected |-> ctx[q].version, change |-> change]
    BY <1>0, <2>1 DEF TypeOK
  <2>3. ctx[q] \in Context /\ ctx'[q] = ctx[q] /\ pc'[q] = "lock" /\ ctx[q].version < MaxVersion
    BY <1>0, <1>4 DEF UpdateWorkingSet, Goto, TypeOK
  <2>4. call'[q] \in Call
    BY <2>2, <2>3 DEF Call, Context, Versions
  <2>5. QED
    BY <2>2, <2>3, <2>4
<1>5. CASE CheckCreateExists(q)
  <2>1. pc[q] = "check" /\ call'[q] = call[q] /\ call[q].expected = 0
    BY <1>5 DEF CheckCreateExists
  <2>2. call[q] \in Call
    BY <2>1 DEF IInv, CallExpectsContext
  <2>3. QED
    BY <2>1, <2>2
<1>6. CASE LoadTask(q) \/ LockTask(q) \/ CheckCreate(q) \/ CheckUpdate(q) \/ WriteVersion(q)
  <2>1. pc'[q] # "load" /\ Calling(q) /\ call'[q] = call[q] /\ ctx'[q] = ctx[q]
    BY <1>0, <1>6 DEF TypeOK, LoadTask, LockTask, CheckCreate, CheckUpdate, WriteVersion, Goto
  <2>2. QED
    BY <1>1, <2>1
<1>7. CASE LoadWorkingSet(q) \/ CheckUpdateConflict(q) \/ WriteTask(q) \/ UnlockTask(q) \/ Crash(q)
  BY <1>0, <1>7 DEF TypeOK, LoadWorkingSet, CheckUpdateConflict, WriteTask, UnlockTask,
     Crash, Leave, Goto
<1>8. QED
  BY <1>0, <1>2, <1>3, <1>4, <1>5, <1>6, <1>7, StepOrSame DEF ProcStep, CallStep
(* A writer's draft is made of the current version until it is published:    *)
(* others cannot change the directory while the writer holds the lock.       *)
LEMMA DraftInductive == IInv /\ [Next]_vars => DraftIsCurrent'
<1> SUFFICES ASSUME IInv, [Next]_vars, NEW q \in Procs, pc'[q] \in {"write", "publish"}
             PROVE  /\ record'[q] \in Task
                    /\ draft'[q] \in Snapshot
                    /\ call'[q].expected = CurrentVersion'
                    /\ record'[q].version = CurrentVersion' + 1
                    /\ draft'[q].by = q
                    /\ IF CurrentVersion' = 0
                       THEN record'[q].status = "active"
                       ELSE draft'[q] = Revision(q)' /\ record'[q] = RevisedRecord(q)'
  BY DEF DraftIsCurrent
<1>0. TypeOK /\ TypeOK' /\ CurrentVersion \in Nat
  BY NextType, CurrentVersionType DEF IInv
<1>1. CASE Memory(q)' = Memory(q)
  <2>1. /\ pc[q] \in {"write", "publish"}
        /\ call'[q] = call[q] /\ record'[q] = record[q] /\ draft'[q] = draft[q]
    BY <1>1 DEF Memory
  <2>2. task' = task /\ files' = files /\ CurrentVersion' = CurrentVersion
    BY <1>1, <2>1, HolderOwnsDisk, SameDisk
  <2>3. Revision(q)' = Revision(q) /\ RevisedRecord(q)' = RevisedRecord(q)
    BY <2>1, <2>2 DEF Revision, RevisedRecord, Revised
  <2>4. QED
    BY <2>1, <2>2, <2>3 DEF IInv, DraftIsCurrent
<1>2. CASE CheckCreate(q)
  <2>1. task = NULL /\ call[q].expected = 0 /\ call'[q] = call[q] /\ UNCHANGED disk
    BY <1>2 DEF CheckCreate
  <2>2. CurrentVersion' = 0
    BY <2>1 DEF CurrentVersion, disk
  <2>3. record'[q] = [version |-> 1, status |-> "active"]
    BY <1>0, <1>2 DEF CheckCreate, TypeOK
  <2>4. draft'[q] = [content |-> call[q].change.items, by |-> q]
    BY <1>0, <1>2 DEF CheckCreate, TypeOK
  <2>5. call[q].change.items \in SUBSET Items
    BY <1>2 DEF IInv, CallExpectsContext, CheckCreate, Call, Change
  <2>6. QED
    BY <2>1, <2>2, <2>3, <2>4, <2>5 DEF Task, Versions, Status, Snapshot
<1>3. CASE CheckUpdate(q)
  <2>1. /\ call[q].expected = CurrentVersion /\ call[q].expected > 0
        /\ call' = call /\ UNCHANGED disk
    BY <1>3 DEF CheckUpdate
  <2>2. call[q] \in Call /\ call[q].expected < MaxVersion /\ task # NULL
    BY <1>3, <2>1 DEF IInv, CallExpectsContext, CheckUpdate, CurrentVersion
  <2>3. Revision(q) \in Snapshot /\ RevisedRecord(q) \in Task
    BY <2>2, CurrentOnDisk, RevisionType DEF IInv
  <2>4. record'[q] = RevisedRecord(q) /\ draft'[q] = Revision(q)
    BY <1>0, <1>3 DEF CheckUpdate, TypeOK
  <2>5. Revision(q)' = Revision(q) /\ RevisedRecord(q)' = RevisedRecord(q)
    BY <2>1, SameDisk DEF Revision, RevisedRecord, Revised
  <2>6. RevisedRecord(q).version = CurrentVersion + 1 /\ Revision(q).by = q
    BY <2>1 DEF Revision, RevisedRecord
  <2>7. QED
    BY <1>0, <2>1, <2>3, <2>4, <2>5, <2>6, SameDisk
<1>4. CASE WriteVersion(q)
  <2>1. /\ pc[q] = "write" /\ task' = task
        /\ call'[q] = call[q] /\ record'[q] = record[q] /\ draft'[q] = draft[q]
    BY <1>4 DEF WriteVersion
  <2>2. CurrentVersion' = CurrentVersion
    BY <2>1 DEF CurrentVersion
  <2>3. CurrentVersion > 0 => files'[task.version] = files[task.version]
    <3>1. SUFFICES ASSUME CurrentVersion > 0
                   PROVE  files'[task.version] = files[task.version]
      OBVIOUS
    <3>2. task # NULL /\ task.version = CurrentVersion
      BY <3>1 DEF CurrentVersion
    <3>3. QED
      BY <1>0, <3>2, PublishedStep, CurrentOnDisk DEF IInv
  <2>4. CurrentVersion > 0 => Revision(q)' = Revision(q) /\ RevisedRecord(q)' = RevisedRecord(q)
    BY <2>1, <2>3 DEF Revision, RevisedRecord, Revised
  <2>5. QED
    BY <1>0, <2>1, <2>2, <2>4 DEF IInv, DraftIsCurrent
<1>5. ProcStep(q) => CheckCreate(q) \/ CheckUpdate(q) \/ WriteVersion(q)
  BY <1>0 DEF TypeOK, ProcStep, CallStep, EnsureTask, UpdateWorkingSet, LoadTask, LoadWorkingSet, LockTask,
     CheckCreate, CheckCreateExists, CheckUpdate, CheckUpdateConflict, WriteVersion,
     WriteTask, UnlockTask, Crash, Leave, Goto
<1>6. QED
  BY <1>0, <1>1, <1>2, <1>3, <1>4, <1>5, StepOrSame

(* The file a writer is about to publish is the one it wrote. *)
LEMMA WrittenInductive == IInv /\ [Next]_vars => DraftIsWritten'
<1> SUFFICES ASSUME IInv, [Next]_vars, NEW q \in Procs, pc'[q] = "publish"
             PROVE  files'[record'[q].version] = draft'[q]
  BY DEF DraftIsWritten
<1>0. TypeOK
  BY DEF IInv
<1>1. CASE Memory(q)' = Memory(q)
  <2>1. pc[q] = "publish" /\ record'[q] = record[q] /\ draft'[q] = draft[q]
    BY <1>1 DEF Memory
  <2>2. QED
    BY <1>1, <2>1, HolderOwnsDisk, SameDisk DEF IInv, DraftIsWritten
<1>2. CASE WriteVersion(q)
  <2>1. record[q] \in Task
    BY <1>2 DEF IInv, DraftIsCurrent, WriteVersion
  <2>2. QED
    BY <1>0, <1>2, <2>1 DEF WriteVersion, TypeOK, Task
<1>3. ProcStep(q) => WriteVersion(q)
  BY <1>0 DEF TypeOK, ProcStep, CallStep, EnsureTask, UpdateWorkingSet, LoadTask, LoadWorkingSet, LockTask,
     CheckCreate, CheckCreateExists, CheckUpdate, CheckUpdateConflict, WriteVersion,
     WriteTask, UnlockTask, Crash, Leave, Goto
<1>4. QED
  BY <1>0, <1>1, <1>2, <1>3, StepOrSame

-----------------------------------------------------------------------------
(* The theorems *)

LEMMA InitInvariant == Init => IInv
<1> SUFFICES ASSUME Init
             PROVE  IInv
  OBVIOUS
<1>1. TypeOK
  BY DEF Init, TypeOK, Step, InCriticalSection
<1>2. CurrentVersion = 0
  BY DEF Init, CurrentVersion
<1>3. VersionsAreContiguous
  BY <1>2 DEF Init, VersionsAreContiguous, Versions
<1>4. QED
  BY <1>1, <1>3 DEF Init, IInv, ContextWasPublished, RecordWasCurrent, ContextStatus,
     CallExpectsContext, DraftIsCurrent, DraftIsWritten

LEMMA NextInvariant == IInv /\ [Next]_vars => IInv'
BY NextType, ContiguousInductive, ContextInductive, RecordInductive, CallInductive,
   DraftInductive, WrittenInductive DEF IInv

(* The invariant holds of every reachable state. *)
THEOREM InvariantHolds == Spec => []IInv
BY InitInvariant, NextInvariant, PTL DEF Spec

(* The variables keep their types, and only the holder of the flock is in    *)
(* the section it protects.                                                  *)
THEOREM TypeCorrect == Spec => []TypeOK
<1>1. IInv => TypeOK
  BY DEF IInv
<1>2. QED
  BY <1>1, InvariantHolds, PTL

(* Every version up to the current one can be loaded, and at most one file   *)
(* lies beyond it.                                                           *)
THEOREM VersionsAreContiguousHolds == Spec => []VersionsAreContiguous
<1>1. IInv => VersionsAreContiguous
  BY DEF IInv
<1>2. QED
  BY <1>1, InvariantHolds, PTL

(* Whatever a caller was given is a version that was published. *)
THEOREM ContextWasPublishedHolds == Spec => []ContextWasPublished
<1>1. IInv => ContextWasPublished
  BY DEF IInv
<1>2. QED
  BY <1>1, InvariantHolds, PTL

(* A published version is never rewritten and never unpublished. *)
THEOREM PublishedIsImmutableHolds == Spec => PublishedIsImmutable
<1>1. IInv /\ [Next]_vars =>
        [/\ CurrentVersion' >= CurrentVersion
         /\ \A v \in Versions : v <= CurrentVersion => files'[v] = files[v]]_vars
  BY PublishedStep
<1>2. QED
  BY <1>1, InvariantHolds, PTL DEF Spec, PublishedIsImmutable
-----------------------------------------------------------------------------
(* Refinement *)

History == [v \in Versions |-> IF v <= CurrentVersion THEN files[v] ELSE NULL]
TaskStatus == IF task = NULL THEN NULL ELSE task.status
ViewOf(p) ==
  IF pc[p] = "read"
  THEN [version |-> record[p].version, status |-> record[p].status,
        snapshot |-> files[record[p].version]]
  ELSE ctx[p]
View == [p \in Procs |-> ViewOf(p)]

(* The view of a process that does not step stays the same: a reader's       *)
(* version is published, so its file does not change under it.               *)
LEMMA OtherViews ==
  ASSUME IInv, [Next]_vars, NEW q \in Procs, Memory(q)' = Memory(q)
  PROVE  ViewOf(q)' = ViewOf(q)
<1>1. pc'[q] = pc[q] /\ record'[q] = record[q] /\ ctx'[q] = ctx[q]
  BY DEF Memory
<1>2. CASE pc[q] = "read"
  <2>1. record[q].version \in Versions /\ record[q].version <= CurrentVersion
    BY <1>2 DEF IInv, RecordWasCurrent, Task
  <2>2. QED
    BY <1>1, <2>1, PublishedStep DEF ViewOf
<1>3. QED
  BY <1>1, <1>2 DEF ViewOf

(* One process steps, and the views of the others stay the same. *)
LEMMA OneView ==
  ASSUME IInv, [Next]_vars, NEW p \in Procs, ProcStep(p)
  PROVE  View' = [View EXCEPT ![p] = ViewOf(p)']
<1>1. \A q \in Procs : q # p => ViewOf(q)' = ViewOf(q)
  BY OthersUntouched, OtherViews DEF IInv
<1>2. QED
  BY <1>1 DEF View

(* A step that leaves the published versions alone leaves the history alone. *)
LEMMA SameHistory ==
  ASSUME IInv, [Next]_vars, UNCHANGED task
  PROVE  /\ CurrentVersion' = CurrentVersion
         /\ History' = History
         /\ TaskStatus' = TaskStatus
<1>1. CurrentVersion' = CurrentVersion
  BY DEF CurrentVersion
<1>2. QED
  BY <1>1, PublishedStep DEF History, TaskStatus

(* The write of the task record is the moment a revision happens. *)
LEMMA PublishStep ==
  ASSUME IInv, [Next]_vars, NEW p \in Procs, WriteTask(p)
  PROVE  /\ CurrentVersion' = CurrentVersion + 1
         /\ CurrentVersion + 1 \in Versions
         /\ History' = [History EXCEPT ![CurrentVersion + 1] = draft[p]]
         /\ TaskStatus' = record[p].status
         /\ View' = [View EXCEPT ![p] =
              [version |-> CurrentVersion + 1, status |-> record[p].status,
               snapshot |-> draft[p]]]
<1>0. TypeOK /\ CurrentVersion \in Nat
  BY CurrentVersionType DEF IInv
<1>1. /\ record[p] \in Task /\ record[p].version = CurrentVersion + 1
      /\ files[record[p].version] = draft[p]
      /\ task' = record[p] /\ files' = files
  BY DEF IInv, DraftIsCurrent, DraftIsWritten, WriteTask
<1>2. CurrentVersion' = CurrentVersion + 1 /\ TaskStatus' = record[p].status
  BY <1>1 DEF CurrentVersion, TaskStatus, Task
<1>3. CurrentVersion + 1 \in Versions
  BY <1>1 DEF Task
<1>4. History' = [History EXCEPT ![CurrentVersion + 1] = draft[p]]
  <2>1. files[CurrentVersion + 1] = draft[p]
    BY <1>1
  <2>2. \A v \in Versions : v <= CurrentVersion + 1 <=> v <= CurrentVersion \/ v = CurrentVersion + 1
    BY <1>0 DEF Versions
  <2>3. History' = [v \in Versions |->
          IF v <= CurrentVersion \/ v = CurrentVersion + 1 THEN files[v] ELSE NULL]
    BY <1>1, <1>2, <2>2 DEF History
  <2>4. QED
    BY <1>3, <2>1, <2>3 DEF History
<1>5. ViewOf(p)' = [version |-> CurrentVersion + 1, status |-> record[p].status,
                    snapshot |-> draft[p]]
  BY <1>0, <1>1 DEF ViewOf, WriteTask, Goto, TypeOK
<1>6. QED
  BY <1>2, <1>3, <1>4, <1>5, OneView DEF ProcStep, CallStep

(* The version a writer has in memory is the one it revises. *)
LEMMA WriterView ==
  ASSUME IInv, NEW p \in Procs, pc[p] = "publish", CurrentVersion # 0
  PROVE  /\ View[p] # NULL
         /\ View[p].version = CurrentVersion
         /\ View[p].status = task.status
         /\ View[p].snapshot = files[task.version]
         /\ call[p].change \in Changes
<1>1. View[p] = ctx[p]
  BY DEF View, ViewOf
<1>2. call[p] \in Call /\ call[p].expected = CurrentVersion
  BY DEF IInv, CallExpectsContext, DraftIsCurrent
<1>3. call[p].expected > 0
  BY <1>2, CurrentVersionType DEF IInv
<1>4. ctx[p] \in Context /\ ctx[p].version = CurrentVersion /\ call[p].change \in Changes
  BY <1>2, <1>3 DEF IInv, CallExpectsContext
<1>5. task # NULL /\ CurrentVersion = task.version
  BY DEF CurrentVersion
<1>6. ctx[p] # NULL
  BY <1>4
<1>7. QED
  BY <1>1, <1>4, <1>5, <1>6 DEF IInv, ContextStatus, ContextWasPublished

LEMMA StepRefines == IInv /\ [Next]_vars => [Register!Next]_(Register!vars)
<1> SUFFICES ASSUME IInv, [Next]_vars
             PROVE  [Register!Next]_(Register!vars)
  OBVIOUS
<1> DEFINE Same == CurrentVersion' = CurrentVersion /\ History' = History /\ TaskStatus' = TaskStatus
<1>0. TypeOK /\ CurrentVersion \in Nat
  BY CurrentVersionType DEF IInv
<1>1. Same /\ View' = View => UNCHANGED Register!vars
  BY DEF Register!vars, History, TaskStatus, View, ViewOf
<1>2. ASSUME NEW p \in Procs, ProcStep(p), UNCHANGED task, ViewOf(p)' = ViewOf(p)
      PROVE  UNCHANGED Register!vars
  <2>1. View' = View
    BY <1>2, OneView DEF View
  <2>2. QED
    BY <1>1, <1>2, <2>1, SameHistory
<1>3. ASSUME NEW p \in Procs, WriteTask(p), CurrentVersion = 0
      PROVE  Register!Create(p)
  <2>1. record[p].status = "active" /\ draft[p] \in Snapshot /\ draft[p].by = p
    BY <1>3 DEF IInv, DraftIsCurrent, WriteTask
  <2>2. draft[p] = [content |-> draft[p].content, by |-> p] /\ draft[p].content \in SUBSET Items
    BY <2>1 DEF Snapshot
  <2>3. History'[CurrentVersion + 1] = draft[p]
    BY <1>3, PublishStep DEF History
  <2>4. Register!Publish(p, draft[p].content, "active")
    BY <1>3, <2>1, <2>2, <2>3, PublishStep DEF Register!Publish, History, TaskStatus, View, ViewOf
  <2>5. QED
    BY <1>3, <2>2, <2>4 DEF Register!Create
<1>4. ASSUME NEW p \in Procs, WriteTask(p), CurrentVersion # 0
      PROVE  Register!Revise(p)
  <2>1. pc[p] = "publish"
    BY <1>4 DEF WriteTask
  <2>2. draft[p] = Revision(p) /\ record[p] = RevisedRecord(p)
    BY <1>4, <2>1 DEF IInv, DraftIsCurrent
  <2> DEFINE change == call[p].change
             content == Register!Revised(change, View[p].snapshot.content)
             newStatus == IF change.status = NULL THEN View[p].status ELSE change.status
  <2>3. draft[p] = [content |-> content, by |-> p]
    BY <1>4, <2>1, <2>2, WriterView DEF Revision, Revised, Register!Revised
  <2>4. record[p].status = newStatus
    BY <1>4, <2>1, <2>2, WriterView DEF RevisedRecord
  <2>5. History'[CurrentVersion + 1] = draft[p]
    BY <1>4, PublishStep DEF History
  <2>6. View[p] # NULL /\ View[p].version = CurrentVersion /\ change \in Changes
    BY <1>4, <2>1, WriterView
  <2>7. CurrentVersion + 1 \in Versions
    BY <1>4, PublishStep
  <2>8. /\ CurrentVersion' = CurrentVersion + 1
        /\ History' = [History EXCEPT ![CurrentVersion + 1] = [content |-> content, by |-> p]]
        /\ TaskStatus' = newStatus
        /\ View' = [View EXCEPT ![p] =
             [version |-> CurrentVersion + 1, status |-> newStatus,
              snapshot |-> History'[CurrentVersion + 1]]]
    BY <1>4, <2>3, <2>4, <2>5, PublishStep
  <2>9. QED
    BY <2>6, <2>7, <2>8 DEF Register!Revise, Register!Publish, History, TaskStatus, View, ViewOf
<1>5. ASSUME NEW p \in Procs, LoadTask(p)
      PROVE  [Register!Next]_(Register!vars)
  <2>1. CASE task = NULL
    BY <1>0, <1>2, <1>5, <2>1 DEF ProcStep, CallStep, LoadTask, ViewOf, Goto, TypeOK, disk
  <2>2. CASE task # NULL
    <3>1. CurrentVersion = task.version /\ task.version \in Versions /\ UNCHANGED disk
      BY <1>5, <2>2, CurrentOnDisk DEF IInv, LoadTask
    <3>2. ViewOf(p)' = [version |-> task.version, status |-> task.status,
                        snapshot |-> files[task.version]]
      BY <1>0, <1>5, <2>2, <3>1 DEF LoadTask, ViewOf, Goto, TypeOK, disk
    <3>3. ViewOf(p)' = [version |-> CurrentVersion, status |-> TaskStatus,
                        snapshot |-> History[CurrentVersion]]
      BY <1>0, <2>2, <3>1, <3>2 DEF History, TaskStatus
    <3>4. Register!Load(p)
      BY <1>0, <1>5, <3>1, <3>3, OneView, SameHistory
      DEF Register!Load, ProcStep, CallStep, History, TaskStatus, View, ViewOf, disk, Versions
    <3>5. QED
      BY <3>4 DEF Register!Next
  <2>3. QED
    BY <2>1, <2>2
<1>6. ASSUME NEW p \in Procs, CheckUpdateConflict(p) \/ Crash(p)
      PROVE  Register!Forget(p)
  <2>1. ViewOf(p)' = NULL /\ UNCHANGED task
    BY <1>0, <1>6 DEF CheckUpdateConflict, Crash, Leave, Goto, ViewOf, TypeOK, disk
  <2>2. QED
    BY <1>6, <2>1, OneView, SameHistory
    DEF Register!Forget, ProcStep, CallStep, History, TaskStatus, View, ViewOf
<1>7. ASSUME NEW p \in Procs, EnsureTask(p) \/ UpdateWorkingSet(p) \/ LoadWorkingSet(p)
        \/ LockTask(p) \/ CheckCreate(p) \/ CheckCreateExists(p) \/ CheckUpdate(p)
        \/ WriteVersion(p) \/ UnlockTask(p)
      PROVE  UNCHANGED Register!vars
  <2>1. ViewOf(p)' = ViewOf(p) /\ UNCHANGED task
    BY <1>0, <1>7 DEF EnsureTask, UpdateWorkingSet, LoadWorkingSet, LockTask, CheckCreate,
       CheckCreateExists, CheckUpdate, WriteVersion, UnlockTask, Leave, Goto, ViewOf, TypeOK, disk
  <2>2. QED
    BY <1>2, <1>7, <2>1 DEF ProcStep, CallStep
<1>8. CASE UNCHANGED vars
  BY <1>8 DEF vars, Register!vars, CurrentVersion
<1>9. QED
  BY <1>3, <1>4, <1>5, <1>6, <1>7, <1>8 DEF Next, CallStep, Register!Next

(* The directory behaves as one task revised atomically. *)
THEOREM Refinement == Spec => ImplementsVersionedTask
<1>1. Init => Register!Init
  BY DEF Init, Register!Init, CurrentVersion, Versions
<1>2. QED
  BY <1>1, StepRefines, InvariantHolds, PTL DEF Spec, ImplementsVersionedTask, Register!Spec
=============================================================================
