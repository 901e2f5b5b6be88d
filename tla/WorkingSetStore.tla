-------------------------- MODULE WorkingSetStore --------------------------
(***************************************************************************)
(* The Working Set store: one task's directory, with a JSON file for each  *)
(* version of the Working Set and the task record that names the current   *)
(* one.  Writers hold an exclusive flock from the check of the expected    *)
(* version to the second of two file writes; readers take no lock.  Each   *)
(* write is atomic (a temporary file renamed over the target), the pair is *)
(* not: a process can die, or a reader come, between the two.              *)
(*                                                                         *)
(* Tasks live in directories of their own, so one task stands for each.    *)
(* The twelve list fields of a version behave alike and are one set.       *)
(***************************************************************************)
EXTENDS Naturals

CONSTANTS
  Procs,       \* processes that share the directory
  Items,       \* entries a Working Set may hold
  Changes,     \* what the callers of update_working_set ask for
  MaxVersion,  \* bound on the versions written
  MaxCrashes,  \* bound on the number of times a process dies
  NULL         \* a file that is not there, and "nothing"

Status == {"active", "waiting", "closed"}
Versions == 1 .. MaxVersion
Change == [items : SUBSET Items, replace : BOOLEAN, status : Status \union {NULL}]
Snapshot == [content : SUBSET Items, by : Procs]
Task == [version : Versions, status : Status]
Context == [version : Versions, status : Status, snapshot : Snapshot]
Call == [expected : Nat, change : Change]

ASSUME ChangesAssumption == Changes \subseteq Change

ASSUME BoundsAssumption ==
  /\ MaxVersion \in Nat \ {0}
  /\ MaxCrashes \in Nat

ASSUME NullAssumption ==
  /\ NULL \notin Procs
  /\ NULL \notin Status
  /\ NULL \notin Snapshot \union Task \union Context \union Call

VARIABLES
  task,    \* task.json
  files,   \* working_sets/<version>.json
  lock,    \* the process that holds the flock on .working_set.lock
  pc,      \* where each process is in its call
  call,    \* the arguments of the call: expected version (0: create), change
  record,  \* the task record the call has read, or is about to write
  draft,   \* the snapshot the call is about to write
  ctx,     \* the (task, working set) pair the process has in memory
  crashes  \* history: number of processes that died

vars == <<task, files, lock, pc, call, record, draft, ctx, crashes>>
disk == <<task, files>>

Step ==
  {"idle", "load", "read", "lock", "check", "write", "publish", "unlock"}
InCriticalSection == {"check", "write", "publish", "unlock"}

Init ==
  /\ task = NULL
  /\ files = [v \in Versions |-> NULL]
  /\ lock = NULL
  /\ pc = [p \in Procs |-> "idle"]
  /\ call = [p \in Procs |-> NULL]
  /\ record = [p \in Procs |-> NULL]
  /\ draft = [p \in Procs |-> NULL]
  /\ ctx = [p \in Procs |-> NULL]
  /\ crashes = 0

Goto(p, step) == pc' = [pc EXCEPT ![p] = step]

(* The call ends, and its local variables with it. *)
Leave(p) ==
  /\ Goto(p, "idle")
  /\ call' = [call EXCEPT ![p] = NULL]
  /\ record' = [record EXCEPT ![p] = NULL]
  /\ draft' = [draft EXCEPT ![p] = NULL]

CurrentVersion == IF task = NULL THEN 0 ELSE task.version

(* ensure_task is called: the arguments are kept for create_task. *)
EnsureTask(p) ==
  /\ pc[p] = "idle"
  /\ \E content \in SUBSET Items :
       call' = [call EXCEPT ![p] =
         [expected |-> 0,
          change |-> [items |-> content, replace |-> TRUE, status |-> "active"]]]
  /\ Goto(p, "load")
  /\ UNCHANGED <<disk, lock, record, draft, ctx, crashes>>

(* load_context reads the task record, without the lock; ensure_task creates *)
(* the task when there is none.                                              *)
LoadTask(p) ==
  /\ pc[p] = "load"
  /\ IF task = NULL
     THEN Goto(p, "lock") /\ UNCHANGED record
     ELSE Goto(p, "read") /\ record' = [record EXCEPT ![p] = task]
  /\ UNCHANGED <<disk, lock, call, draft, ctx, crashes>>

\* Slip: the newest version file is read, not the one the record names.
LoadNewestWorkingSet(p) ==
  /\ pc[p] = "read"
  /\ \E newest \in Versions :
       /\ files[newest] # NULL
       /\ \A v \in Versions : files[v] # NULL => v <= newest
       /\ ctx' = [ctx EXCEPT ![p] = [version |-> record[p].version,
                                     status |-> record[p].status,
                                     snapshot |-> files[newest]]]
  /\ Leave(p)
  /\ UNCHANGED <<disk, lock, crashes>>

(* ... and then the version it names, again without the lock. *)
LoadWorkingSet(p) ==
  /\ pc[p] = "read"
  /\ ctx' = [ctx EXCEPT ![p] = [version |-> record[p].version,
                                status |-> record[p].status,
                                snapshot |-> files[record[p].version]]]
  /\ Leave(p)
  /\ UNCHANGED <<disk, lock, crashes>>

(* update_working_set is called with the version the process has loaded. *)
UpdateWorkingSet(p) ==
  /\ pc[p] = "idle"
  /\ ctx[p] # NULL
  /\ ctx[p].version < MaxVersion
  /\ \E change \in Changes :
       call' = [call EXCEPT ![p] = [expected |-> ctx[p].version, change |-> change]]
  /\ Goto(p, "lock")
  /\ UNCHANGED <<disk, lock, record, draft, ctx, crashes>>

\* Slip: the fallback without fcntl, where nobody waits for anybody.
LockNothing(p) ==
  /\ pc[p] = "lock"
  /\ lock' = p
  /\ Goto(p, "check")
  /\ UNCHANGED <<disk, call, record, draft, ctx, crashes>>

(* _locked_task: flock(LOCK_EX). *)
LockTask(p) ==
  /\ pc[p] = "lock"
  /\ lock = NULL
  /\ lock' = p
  /\ Goto(p, "check")
  /\ UNCHANGED <<disk, call, record, draft, ctx, crashes>>

(* create_task builds version 1; nothing else changes the directory while    *)
(* the lock is held, so its reads are one step.                              *)
CheckCreate(p) ==
  /\ pc[p] = "check"
  /\ call[p].expected = 0
  /\ task = NULL
  /\ record' = [record EXCEPT ![p] = [version |-> 1, status |-> "active"]]
  /\ draft' = [draft EXCEPT ![p] = [content |-> call[p].change.items, by |-> p]]
  /\ Goto(p, "write")
  /\ UNCHANGED <<disk, lock, call, ctx, crashes>>

(* FileExistsError: somebody created the task first, and it is loaded.       *)
CheckCreateExists(p) ==
  /\ pc[p] = "check"
  /\ call[p].expected = 0
  /\ task # NULL
  /\ lock' = NULL
  /\ Goto(p, "load")
  /\ UNCHANGED <<disk, call, record, draft, ctx, crashes>>

Revised(change, content) ==
  IF change.replace THEN change.items ELSE content \union change.items

Revision(p) == [content |-> Revised(call[p].change, files[task.version].content),
                by |-> p]

\* Slip: the number of a file a dead process left behind is passed over.
RevisedRecordOfFreeVersion(p) ==
  [version |-> CHOOSE free \in 1 .. (MaxVersion + 1) :
     /\ free \in Versions => files[free] = NULL
     /\ \A v \in 1 .. (free - 1) : v \in Versions /\ files[v] # NULL,
   status |-> IF call[p].change.status = NULL THEN task.status
                                              ELSE call[p].change.status]

RevisedRecord(p) ==
  [version |-> call[p].expected + 1,
   status |-> IF call[p].change.status = NULL THEN task.status
                                              ELSE call[p].change.status]

(* update_working_set builds the next version from the current one. *)
CheckUpdate(p) ==
  /\ pc[p] = "check"
  /\ call[p].expected > 0
  /\ CurrentVersion = call[p].expected
  /\ record' = [record EXCEPT ![p] = RevisedRecord(p)]
  /\ draft' = [draft EXCEPT ![p] = Revision(p)]
  /\ Goto(p, "write")
  /\ UNCHANGED <<disk, lock, call, ctx, crashes>>

\* Slip: the exception leaves the lock behind.
CheckUpdateConflictLocked(p) ==
  /\ pc[p] = "check"
  /\ call[p].expected > 0
  /\ CurrentVersion # call[p].expected
  /\ ctx' = [ctx EXCEPT ![p] = NULL]
  /\ Leave(p)
  /\ UNCHANGED <<disk, lock, crashes>>

(* WorkingSetConflictError: the caller has to load the task again. *)
CheckUpdateConflict(p) ==
  /\ pc[p] = "check"
  /\ call[p].expected > 0
  /\ CurrentVersion # call[p].expected
  /\ lock' = NULL
  /\ ctx' = [ctx EXCEPT ![p] = NULL]
  /\ Leave(p)
  /\ UNCHANGED <<disk, crashes>>

\* Slip: the task record is written before the version it names.
WriteTaskFirst(p) ==
  /\ pc[p] = "write"
  /\ task' = record[p]
  /\ Goto(p, "publish")
  /\ UNCHANGED <<files, lock, call, record, draft, ctx, crashes>>

(* _atomic_write_json of the version file. *)
WriteVersion(p) ==
  /\ pc[p] = "write"
  /\ files' = [files EXCEPT ![record[p].version] = draft[p]]
  /\ Goto(p, "publish")
  /\ UNCHANGED <<task, lock, call, record, draft, ctx, crashes>>

(* _atomic_write_json of the task record, which publishes the version. *)
WriteTask(p) ==
  /\ pc[p] = "publish"
  /\ task' = record[p]
  /\ ctx' = [ctx EXCEPT ![p] = [version |-> record[p].version,
                                status |-> record[p].status,
                                snapshot |-> draft[p]]]
  /\ Goto(p, "unlock")
  /\ UNCHANGED <<files, lock, call, record, draft, crashes>>

(* flock(LOCK_UN), and the call returns. *)
UnlockTask(p) ==
  /\ pc[p] = "unlock"
  /\ lock' = NULL
  /\ Leave(p)
  /\ UNCHANGED <<disk, ctx, crashes>>

(* The process dies: the system drops its flock, the files stay as they are. *)
Crash(p) ==
  /\ pc[p] # "idle"
  /\ crashes < MaxCrashes
  /\ crashes' = crashes + 1
  /\ lock' = IF lock = p THEN NULL ELSE lock
  /\ ctx' = [ctx EXCEPT ![p] = NULL]
  /\ Leave(p)
  /\ UNCHANGED disk

CallStep(p) ==
  \/ LoadTask(p)
  \/ LoadWorkingSet(p)
  \/ LockTask(p)
  \/ CheckCreate(p)
  \/ CheckCreateExists(p)
  \/ CheckUpdate(p)
  \/ CheckUpdateConflict(p)
  \/ WriteVersion(p)
  \/ WriteTask(p)
  \/ UnlockTask(p)

Next ==
  \E p \in Procs : EnsureTask(p) \/ UpdateWorkingSet(p) \/ CallStep(p) \/ Crash(p)

(* A call that has begun goes on; who gets the lock next is left open. *)
Fairness == \A p \in Procs : WF_vars(CallStep(p))

Spec == Init /\ [][Next]_vars /\ Fairness

-----------------------------------------------------------------------------
(* Properties *)

(* The values of the variables, and the section the flock protects: whoever *)
(* is in it holds the lock.                                                 *)
TypeOK ==
  /\ task \in Task \union {NULL}
  /\ files \in [Versions -> Snapshot \union {NULL}]
  /\ lock \in Procs \union {NULL}
  /\ pc \in [Procs -> Step]
  /\ call \in [Procs -> Call \union {NULL}]
  /\ record \in [Procs -> Task \union {NULL}]
  /\ draft \in [Procs -> Snapshot \union {NULL}]
  /\ ctx \in [Procs -> Context \union {NULL}]
  /\ crashes \in 0 .. MaxCrashes
  /\ \A p \in Procs : pc[p] \in InCriticalSection <=> lock = p

(* Every version up to the one the task record names is on disk, so a task   *)
(* can be loaded at any moment, and at most one file lies beyond it: the one *)
(* whose author died, or is about to publish it.                             *)
VersionsAreContiguous ==
  /\ \A v \in Versions : v <= CurrentVersion => files[v] # NULL
  /\ \A v \in Versions : v > CurrentVersion + 1 => files[v] = NULL

(* A pair that load_context, create_task or update_working_set returned is a *)
(* version that was published, with its own content: never a file a dead     *)
(* process left behind, never one author's record with another's Working Set. *)
ContextWasPublished ==
  \A p \in Procs : ctx[p] # NULL =>
    /\ ctx[p].version <= CurrentVersion
    /\ ctx[p].snapshot = files[ctx[p].version]

(* A published version is never rewritten, and the task record never names   *)
(* an older version than before: not by a writer that dies half-way, not by  *)
(* the one who writes the same version number again after it.                *)
PublishedIsImmutable ==
  [][/\ CurrentVersion' >= CurrentVersion
     /\ \A v \in Versions : v <= CurrentVersion => files'[v] = files[v]]_vars

(* Whatever the interleaving of readers, writers and deaths, the directory   *)
(* behaves as one task revised atomically, and only from its latest version. *)
Register == INSTANCE VersionedTask WITH
  latest <- CurrentVersion,
  history <- [v \in Versions |-> IF v <= CurrentVersion THEN files[v] ELSE NULL],
  status <- IF task = NULL THEN NULL ELSE task.status,
  view <- [p \in Procs |->
             IF pc[p] = "read"
             THEN [version |-> record[p].version, status |-> record[p].status,
                   snapshot |-> files[record[p].version]]
             ELSE ctx[p]]

ImplementsVersionedTask == Register!Spec

(* No exception, return or death leaves the task locked: whoever holds the  *)
(* lock lets go of it, so writers never wait for a call that has ended.     *)
LockIsReleased == \A p \in Procs : lock = p ~> lock # p
=============================================================================
