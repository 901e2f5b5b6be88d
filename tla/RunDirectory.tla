---------------------------- MODULE RunDirectory ----------------------------
(***************************************************************************)
(* The directory of a run beside its rows in the event store: how          *)
(* register() binds a run_id to one task graph in both, while processes    *)
(* plan the same run_id anew or resume it, and die between any two file    *)
(* operations; and how both are backed up, while runs go on, and restored. *)
(*                                                                         *)
(* A graph that is planned again differs from the first one (created_at).  *)
(* Only complete backups matter, and of those the one made last.           *)
(***************************************************************************)
EXTENDS Naturals

CONSTANTS
  Procs,   \* processes that call run(graph) or resume(run_id)
  Runs,    \* run ids
  Graphs,  \* task graphs that are planned for a run_id
  Torn,    \* what a file holds between its truncation and the end of its write
  NULL     \* no file, no row

ASSUME ContentAssumption == Torn \notin Graphs /\ NULL \notin Graphs /\ Torn # NULL

VARIABLES
  disk,       \* the documents in the directory of each run
  stored,     \* graph_json in the runtime_runs row of each run
  pc,         \* where each process is
  doc,        \* the document it deals with
  at,         \* the run it works on
  graph,      \* the graph it was called with
  backup,     \* the backup that is made, or was made last
  overlapped  \* history: runs that two processes have begun to write at once

procVars == <<pc, doc, at, graph>>
vars == <<disk, stored, procVars, backup, overlapped>>

Docs == {"task_graph", "role_activation_manifest"}
Content == Graphs \union {Torn, NULL}
Row == Graphs \union {NULL}
Steps == {"off", "look", "truncate", "write", "register", "work"}
BackupSteps == {"none", "list", "copy", "done"}
Backup == [step : BackupSteps, stored : [Runs -> Row], listed : SUBSET Runs, files : [Runs -> Content]]

NoFiles == [r \in Runs |-> NULL]

Init ==
  /\ disk = [r \in Runs |-> [d \in Docs |-> NULL]]
  /\ stored = [r \in Runs |-> NULL]
  /\ pc = [p \in Procs |-> "off"]
  /\ doc = [p \in Procs |-> "task_graph"]
  /\ at \in [Procs -> Runs]
  /\ graph \in [Procs -> Graphs]
  /\ backup = [step |-> "none", stored |-> NoFiles, listed |-> {}, files |-> NoFiles]
  /\ overlapped = {}

-----------------------------------------------------------------------------
(* Registration *)

Goto(p, step) ==
  /\ pc' = [pc EXCEPT ![p] = step]
  /\ UNCHANGED <<doc, at, graph>>

Call(p, r, g) ==
  /\ pc[p] = "off"
  /\ pc' = [pc EXCEPT ![p] = "look"]
  /\ doc' = [doc EXCEPT ![p] = "task_graph"]
  /\ at' = [at EXCEPT ![p] = r]
  /\ graph' = [graph EXCEPT ![p] = g]
  /\ UNCHANGED <<disk, stored, backup, overlapped>>

(* run is called with a graph that was planned, for the first time or anew. *)
Run(p, r, g) == Call(p, r, g)

(* resume takes the graph from the store, and raises if there is none. *)
Resume(p, r) == stored[r] # NULL /\ Call(p, r, stored[r])

(* The document is dealt with: next comes the manifest, then the store. *)
Advance(p) ==
  /\ pc' = [pc EXCEPT ![p] = IF doc[p] = "task_graph" THEN "look" ELSE "register"]
  /\ doc' = [doc EXCEPT ![p] = "role_activation_manifest"]
  /\ UNCHANGED <<at, graph>>

Found(p) == disk[at[p]][doc[p]]

(* The document exists: it must be the one that would be written. *)
LookAtFile(p) ==
  /\ pc[p] = "look"
  /\ Found(p) # NULL
  /\ IF Found(p) = graph[p] THEN Advance(p) ELSE Goto(p, "off")
  /\ UNCHANGED <<disk, stored, backup, overlapped>>

(* The document does not exist yet. *)
LookAtNothing(p) ==
  /\ pc[p] = "look"
  /\ Found(p) = NULL
  /\ Goto(p, "truncate")
  /\ overlapped' = overlapped \union
       {r \in {at[p]} : doc[p] = "task_graph" /\ \E q \in Procs :
                          pc[q] = "truncate" /\ doc[q] = "task_graph" /\ at[q] = r}
  /\ UNCHANGED <<disk, stored, backup>>

Put(p, content) ==
  /\ disk' = [disk EXCEPT ![at[p]][doc[p]] = content]
  /\ UNCHANGED <<stored, backup, overlapped>>

(* write_text: the file is opened, and is empty, ... *)
Truncate(p) ==
  /\ pc[p] = "truncate"
  /\ Put(p, Torn)
  /\ Goto(p, "write")

(* ... and then has its content. *)
Write(p) ==
  /\ pc[p] = "write"
  /\ Put(p, graph[p])
  /\ Advance(p)

\* Slip: register_graph finds a row and does not compare the graphs.
RegisterUnchecked(p) ==
  /\ pc[p] = "register"
  /\ stored' = [stored EXCEPT ![at[p]] = IF @ = NULL THEN graph[p] ELSE @]
  /\ Goto(p, "work")
  /\ UNCHANGED <<disk, backup, overlapped>>

(* register_graph, in one transaction: the first graph is inserted, the    *)
(* same one is accepted, and another one raises.                           *)
Register(p) ==
  /\ pc[p] = "register"
  /\ IF stored[at[p]] \in {NULL, graph[p]}
     THEN stored' = [stored EXCEPT ![at[p]] = graph[p]] /\ Goto(p, "work")
     ELSE UNCHANGED stored /\ Goto(p, "off")
  /\ UNCHANGED <<disk, backup, overlapped>>

(* The rest of the call, whose changes of the store are in                 *)
(* UnifiedExecution, ends; or the process dies, wherever it is.            *)
Leave(p) ==
  /\ pc[p] # "off"
  /\ Goto(p, "off")
  /\ UNCHANGED <<disk, stored, backup, overlapped>>

ProcNext(p) ==
  \/ \E r \in Runs, g \in Graphs : Run(p, r, g)
  \/ \E r \in Runs : Resume(p, r)
  \/ LookAtFile(p)
  \/ LookAtNothing(p)
  \/ Truncate(p)
  \/ Write(p)
  \/ Register(p)
  \/ Leave(p)

-----------------------------------------------------------------------------
(* Backup and restore *)

(* _sqlite_backup copies a consistent state of the database. *)
BackupDatabase ==
  /\ backup.step \in {"none", "done"}
  /\ backup' = [step |-> "list", stored |-> stored, listed |-> {}, files |-> NoFiles]
  /\ UNCHANGED <<disk, stored, procVars, overlapped>>

(* _critical_files: the manifest of a run is not one of them. *)
ListFiles ==
  /\ backup.step = "list"
  /\ backup' = [backup EXCEPT !.step = "copy",
                              !.listed = {r \in Runs : disk[r]["task_graph"] # NULL}]
  /\ UNCHANGED <<disk, stored, procVars, overlapped>>

(* A listed file is copied, as it is now. *)
CopyFile(r) ==
  /\ backup.step = "copy"
  /\ r \in backup.listed
  /\ backup.files[r] = NULL
  /\ backup' = [backup EXCEPT !.files[r] = disk[r]["task_graph"]]
  /\ UNCHANGED <<disk, stored, procVars, overlapped>>

\* Slip: the database is copied after the files.
FinishWithDatabase ==
  /\ backup.step = "copy"
  /\ \A r \in backup.listed : backup.files[r] # NULL
  /\ backup' = [backup EXCEPT !.step = "done", !.stored = stored]
  /\ UNCHANGED <<disk, stored, procVars, overlapped>>

(* The manifest of the backup is written; without it nothing is restored. *)
FinishBackup ==
  /\ backup.step = "copy"
  /\ \A r \in backup.listed : backup.files[r] # NULL
  /\ backup' = [backup EXCEPT !.step = "done"]
  /\ UNCHANGED <<disk, stored, procVars, overlapped>>

(* The backup fails, or the process that makes it dies. *)
AbandonBackup ==
  /\ backup.step \in {"list", "copy"}
  /\ backup' = [backup EXCEPT !.step = "none"]
  /\ UNCHANGED <<disk, stored, procVars, overlapped>>

\* Slip: processes go on in a directory and a database that are replaced.
RestoreUnderProcesses ==
  /\ backup.step = "done"
  /\ stored' = backup.stored
  /\ disk' = [r \in Runs |-> [d \in Docs |-> IF d = "task_graph" THEN backup.files[r] ELSE NULL]]
  /\ UNCHANGED <<procVars, backup, overlapped>>

(* The store and the directories are lost with all processes, and restored *)
(* from the backup to where there was nothing.                             *)
Restore ==
  /\ backup.step = "done"
  /\ stored' = backup.stored
  /\ disk' = [r \in Runs |-> [d \in Docs |-> IF d = "task_graph" THEN backup.files[r] ELSE NULL]]
  /\ pc' = [p \in Procs |-> "off"]
  /\ UNCHANGED <<doc, at, graph, backup, overlapped>>

RecoveryNext ==
  \/ BackupDatabase
  \/ ListFiles
  \/ \E r \in Runs : CopyFile(r)
  \/ FinishBackup
  \/ AbandonBackup
  \/ Restore

Next == RecoveryNext \/ \E p \in Procs : ProcNext(p)

Spec == Init /\ [][Next]_vars

-----------------------------------------------------------------------------
(* Properties *)

(* The variables keep their domains; a process that fills a file has made  *)
(* it, and a backup that is complete has a copy of every file it listed.   *)
TypeOK ==
  /\ disk \in [Runs -> [Docs -> Content]]
  /\ stored \in [Runs -> Row]
  /\ pc \in [Procs -> Steps]
  /\ doc \in [Procs -> Docs]
  /\ at \in [Procs -> Runs]
  /\ graph \in [Procs -> Graphs]
  /\ backup \in Backup
  /\ overlapped \subseteq Runs
  /\ \A p \in Procs : pc[p] = "write" => Found(p) # NULL
  /\ backup.step = "done" => \A r \in backup.listed : backup.files[r] # NULL

(* However often a run_id is planned anew, all processes that work on a    *)
(* run work on one graph, the one in the store.                            *)
WorkersShareGraph == \A p \in Procs : pc[p] = "work" => graph[p] = stored[at[p]]

(* A registered run can be resumed, also from a backup that was made while *)
(* it was registered: its directory holds the graph of the store, complete,*)
(* unless two processes once began to write the directory at the same time.*)
DirectoryHoldsGraph ==
  \A r \in Runs \ overlapped : stored[r] # NULL => disk[r]["task_graph"] = stored[r]
=============================================================================
