------------------------- MODULE RunDirectoryProofs -------------------------
(* Proofs about RunDirectory, for every set of processes, runs and graphs. *)
EXTENDS RunDirectory, TLAPS

-----------------------------------------------------------------------------
(* Types *)

LEMMA InitTypeOK == Init => TypeOK
  BY ContentAssumption DEF Init, TypeOK, Docs, Content, Row, Steps, BackupSteps, Backup, NoFiles

(* What a process does keeps the domains.                                  *)
LEMMA ProcTypeOK ==
  ASSUME NEW p \in Procs, TypeOK, ProcNext(p)
  PROVE  TypeOK'
<1> USE ContentAssumption DEF TypeOK, Docs, Content, Row, Steps, BackupSteps, Backup, Found
<1>1. CASE \E r \in Runs, g \in Graphs : Run(p, r, g)
  BY <1>1 DEF Run, Call
<1>2. CASE \E r \in Runs : Resume(p, r)
  BY <1>2 DEF Resume, Call
<1>3. CASE LookAtFile(p)
  <2>1. CASE Advance(p)
    BY <1>3, <2>1 DEF LookAtFile, Advance
  <2>2. CASE Goto(p, "off")
    BY <1>3, <2>2 DEF LookAtFile, Goto
  <2>3. QED
    BY <1>3, <2>1, <2>2 DEF LookAtFile
<1>4. CASE LookAtNothing(p)
  BY <1>4 DEF LookAtNothing, Goto
<1>5. CASE Truncate(p)
  BY <1>5 DEF Truncate, Put, Goto
<1>6. CASE Write(p)
  BY <1>6 DEF Write, Put, Advance
<1>7. CASE Register(p)
  <2>1. stored' \in [Runs -> Row]
    BY <1>7 DEF Register
  <2>2. pc' \in [Procs -> Steps] /\ \A q \in Procs : pc'[q] = "write" => pc[q] = "write"
    BY <1>7 DEF Register, Goto
  <2>3. UNCHANGED <<disk, doc, at, graph, backup, overlapped>>
    BY <1>7 DEF Register, Goto
  <2>4. QED
    BY <2>1, <2>2, <2>3
<1>8. CASE Leave(p)
  BY <1>8 DEF Leave, Goto
<1>9. QED
  BY <1>1, <1>2, <1>3, <1>4, <1>5, <1>6, <1>7, <1>8, ProcNext(p) DEF ProcNext

(* So do a backup and a restore.                                           *)
LEMMA RecoveryTypeOK ==
  ASSUME TypeOK, RecoveryNext
  PROVE  TypeOK'
<1> USE ContentAssumption DEF TypeOK, Docs, Content, Row, Steps, BackupSteps, Backup, Found, NoFiles, procVars
<1>1. CASE BackupDatabase
  BY <1>1 DEF BackupDatabase
<1>2. CASE ListFiles
  BY <1>2 DEF ListFiles
<1>3. ASSUME NEW r \in Runs, CopyFile(r)
      PROVE  TypeOK'
  <2>1. disk[r]["task_graph"] \in Content
    OBVIOUS
  <2>2. backup' \in Backup /\ backup'.step = "copy"
    BY <1>3, <2>1 DEF CopyFile
  <2>3. QED
    BY <1>3, <2>2 DEF CopyFile
<1>4. CASE FinishBackup
  BY <1>4 DEF FinishBackup
<1>5. CASE AbandonBackup
  BY <1>5 DEF AbandonBackup
<1>6. CASE Restore
  BY <1>6 DEF Restore
<1>7. QED
  BY <1>1, <1>2, <1>3, <1>4, <1>5, <1>6, RecoveryNext DEF RecoveryNext

(* The variables keep their domains; a file that is filled exists, and a   *)
(* complete backup has a copy of every file it listed.                     *)
THEOREM TypeCorrect == Spec => []TypeOK
<1>1. TypeOK /\ [Next]_vars => TypeOK'
  <2> SUFFICES ASSUME TypeOK, [Next]_vars PROVE TypeOK'
    OBVIOUS
  <2>1. CASE UNCHANGED vars
    BY <2>1 DEF vars, procVars, TypeOK, Found
  <2>2. QED
    BY <2>1, ProcTypeOK, RecoveryTypeOK DEF Next
<1>2. QED
  BY InitTypeOK, <1>1, PTL DEF Spec

-----------------------------------------------------------------------------
(* All processes of a run work on the graph of its row *)

(* The document that is dealt with last is the manifest.                   *)
ManifestIsLast == \A p \in Procs : pc[p] \in {"register", "work"} => doc[p] = "role_activation_manifest"

(* A process that works has registered its graph, and the row stays: it is *)
(* lost only with the process.                                             *)
WorkInv == TypeOK /\ ManifestIsLast /\ WorkersShareGraph

LEMMA ProcWorkInv ==
  ASSUME NEW p \in Procs, WorkInv, ProcNext(p)
  PROVE  WorkInv'
<1>1. TypeOK'
  BY ProcTypeOK DEF WorkInv
<1>2. ManifestIsLast' /\ WorkersShareGraph'
  <2> USE ContentAssumption DEF WorkInv, TypeOK, Row, Docs, Steps, ManifestIsLast, WorkersShareGraph
  <2>1. CASE \E r \in Runs, g \in Graphs : Run(p, r, g)
    BY <2>1 DEF Run, Call
  <2>2. CASE \E r \in Runs : Resume(p, r)
    BY <2>2 DEF Resume, Call
  <2>3. CASE LookAtFile(p)
    BY <2>3 DEF LookAtFile, Advance, Goto
  <2>4. CASE LookAtNothing(p)
    BY <2>4 DEF LookAtNothing, Goto
  <2>5. CASE Truncate(p)
    BY <2>5 DEF Truncate, Put, Goto
  <2>6. CASE Write(p)
    BY <2>6 DEF Write, Put, Advance
  <2>7. CASE Register(p)
    BY <2>7 DEF Register, Goto
  <2>8. CASE Leave(p)
    BY <2>8 DEF Leave, Goto
  <2>9. QED
    BY <2>1, <2>2, <2>3, <2>4, <2>5, <2>6, <2>7, <2>8, ProcNext(p) DEF ProcNext
<1>3. QED
  BY <1>1, <1>2 DEF WorkInv

LEMMA RecoveryWorkInv ==
  ASSUME WorkInv, RecoveryNext
  PROVE  WorkInv'
<1>1. TypeOK'
  BY RecoveryTypeOK DEF WorkInv
<1>2. CASE Restore
  BY <1>1, <1>2 DEF WorkInv, TypeOK, Restore, ManifestIsLast, WorkersShareGraph
<1>3. CASE UNCHANGED <<stored, procVars>>
  BY <1>1, <1>3 DEF WorkInv, procVars, ManifestIsLast, WorkersShareGraph
<1>4. QED
  BY <1>2, <1>3, RecoveryNext
     DEF RecoveryNext, BackupDatabase, ListFiles, CopyFile, FinishBackup, AbandonBackup

(* A run is worked on with one graph, however often it is planned anew.    *)
THEOREM WorkersShareGraphHolds == Spec => []WorkersShareGraph
<1>1. Init => WorkInv
  BY InitTypeOK DEF Init, WorkInv, ManifestIsLast, WorkersShareGraph
<1>2. WorkInv /\ [Next]_vars => WorkInv'
  <2> SUFFICES ASSUME WorkInv, [Next]_vars PROVE WorkInv'
    OBVIOUS
  <2>1. CASE UNCHANGED vars
    BY <2>1 DEF vars, procVars, WorkInv, TypeOK, Found, ManifestIsLast, WorkersShareGraph
  <2>2. QED
    BY <2>1, ProcWorkInv, RecoveryWorkInv DEF Next
<1>3. QED
  BY <1>1, <1>2, PTL DEF Spec, WorkInv

-----------------------------------------------------------------------------
(* The directory of a registered run holds its graph *)

GraphFile(r) == disk[r]["task_graph"]

(* The process fills the graph's file: it found none.                      *)
Fills(p, r) == pc[p] \in {"truncate", "write"} /\ doc[p] = "task_graph" /\ at[p] = r

(* The process has dealt with the graph's file.                            *)
IsPast(p, r) == pc[p] # "off" /\ doc[p] = "role_activation_manifest" /\ at[p] = r

OneFills(r) == \A p, q \in Procs : Fills(p, r) /\ Fills(q, r) => p = q

FilledFromNothing(r) ==
  \A p \in Procs : Fills(p, r) => GraphFile(r) = IF pc[p] = "write" THEN Torn ELSE NULL

PastAgreed(r) == \A p \in Procs : IsPast(p, r) => GraphFile(r) = graph[p]

RowAgrees(r) == stored[r] # NULL => GraphFile(r) = stored[r]

(* A backup's copy of a row is the row, until it is complete; its copy of  *)
(* the file, once that is listed and copied, is what the row says.         *)
BackupAgrees(r) ==
  backup.stored[r] # NULL =>
    /\ backup.step \in {"list", "copy"} => stored[r] = backup.stored[r]
    /\ backup.step \in {"copy", "done"} => r \in backup.listed
    /\ backup.step # "none" => backup.files[r] \in {NULL, backup.stored[r]}

AgreementOf(r) ==
  OneFills(r) /\ FilledFromNothing(r) /\ PastAgreed(r) /\ RowAgrees(r) /\ BackupAgrees(r)

DirectoryInv == WorkInv /\ \A r \in Runs \ overlapped : AgreementOf(r)

LEMMA InitAgreement == Init => DirectoryInv
  BY InitTypeOK
     DEF Init, NoFiles, DirectoryInv, WorkInv, ManifestIsLast, WorkersShareGraph, AgreementOf, OneFills,
         FilledFromNothing, PastAgreed, RowAgrees, BackupAgrees, Fills, IsPast

(* A step of a process.                                                    *)
LEMMA ProcAgreement ==
  ASSUME NEW p \in Procs, DirectoryInv, ProcNext(p), NEW r \in Runs, r \notin overlapped'
  PROVE  AgreementOf(r)'
<1>1. TypeOK /\ ManifestIsLast /\ AgreementOf(r)
  BY DEF DirectoryInv, WorkInv, ProcNext, Run, Resume, Call, LookAtFile, LookAtNothing, Truncate,
         Write, Put, Register, Leave
<1>2. UNCHANGED backup
  BY DEF ProcNext, Run, Resume, Call, LookAtFile, LookAtNothing, Truncate, Write, Put, Register, Leave
<1> USE <1>1, ContentAssumption
    DEF TypeOK, Content, Row, Docs, Steps, AgreementOf, OneFills, FilledFromNothing, PastAgreed,
        RowAgrees, GraphFile, Fills, IsPast, ManifestIsLast, Found
<1>3. CASE \E s \in Runs, g \in Graphs : Call(p, s, g)
  BY <1>2, <1>3 DEF Call, BackupAgrees
<1>4. CASE LookAtFile(p)
  <2>1. OneFills(r)' /\ FilledFromNothing(r)'
    BY <1>4 DEF LookAtFile, Advance, Goto
  <2>2. PastAgreed(r)'
    BY <1>4 DEF LookAtFile, Advance, Goto
  <2>3. RowAgrees(r)' /\ BackupAgrees(r)'
    BY <1>2, <1>4 DEF LookAtFile, Advance, Goto, BackupAgrees
  <2>4. QED
    BY <2>1, <2>2, <2>3
<1>5. CASE LookAtNothing(p)
  <2>1. OneFills(r)'
    BY <1>5 DEF LookAtNothing, Goto
  <2>2. FilledFromNothing(r)' /\ PastAgreed(r)' /\ RowAgrees(r)'
    BY <1>5 DEF LookAtNothing, Goto
  <2>3. BackupAgrees(r)'
    BY <1>2, <1>5 DEF LookAtNothing, BackupAgrees
  <2>4. QED
    BY <2>1, <2>2, <2>3
<1>6. CASE Truncate(p)
  BY <1>2, <1>6 DEF Truncate, Put, Goto, BackupAgrees
<1>7. CASE Write(p)
  BY <1>2, <1>7 DEF Write, Put, Advance, BackupAgrees
<1>8. CASE Register(p)
  <2>1. UNCHANGED <<disk, doc, at, graph>>
    BY <1>8 DEF Register, Goto
  <2>2. \A q \in Procs : pc'[q] \in {"truncate", "write"} => pc'[q] = pc[q]
    BY <1>8 DEF Register, Goto
  <2>3. \A q \in Procs : pc'[q] # "off" => pc[q] # "off"
    BY <1>8 DEF Register, Goto
  <2>4. OneFills(r)' /\ FilledFromNothing(r)'
    BY <2>1, <2>2
  <2>5. PastAgreed(r)'
    BY <2>1, <2>3
  <2>6. RowAgrees(r)' /\ BackupAgrees(r)'
    BY <1>2, <1>8 DEF Register, Goto, BackupAgrees
  <2>7. QED
    BY <2>4, <2>5, <2>6
<1>9. CASE Leave(p)
  BY <1>2, <1>9 DEF Leave, Goto, BackupAgrees
<1>10. CASE \E s \in Runs : Resume(p, s)
  BY <1>3, <1>10 DEF Resume
<1>11. QED
  BY <1>3, <1>4, <1>5, <1>6, <1>7, <1>8, <1>9, <1>10, ProcNext(p) DEF ProcNext, Run

(* A step of a backup leaves the store and the directories alone: only     *)
(* what is said of the backup is at stake.                                 *)
LEMMA BackupAgreement ==
  ASSUME DirectoryInv, RecoveryNext, ~Restore, NEW r \in Runs, r \notin overlapped'
  PROVE  AgreementOf(r)'
<1>1. UNCHANGED <<disk, stored, pc, doc, at, graph, overlapped>>
  BY DEF RecoveryNext, BackupDatabase, ListFiles, CopyFile, FinishBackup, AbandonBackup, procVars
<1>2. TypeOK /\ AgreementOf(r)
  BY <1>1 DEF DirectoryInv, WorkInv
<1>3. (OneFills(r) /\ FilledFromNothing(r) /\ PastAgreed(r) /\ RowAgrees(r))'
  BY <1>1, <1>2 DEF AgreementOf, OneFills, FilledFromNothing, PastAgreed, RowAgrees, GraphFile, Fills, IsPast
<1>4. BackupAgrees(r)'
  <2> USE <1>1, <1>2, ContentAssumption
      DEF TypeOK, Row, Backup, Content, BackupSteps, AgreementOf, RowAgrees, GraphFile, BackupAgrees
  <2>1. CASE BackupDatabase
    BY <2>1 DEF BackupDatabase, NoFiles
  <2>2. CASE ListFiles
    BY <2>2 DEF ListFiles
  <2>3. CASE \E s \in Runs : CopyFile(s)
    BY <2>3 DEF CopyFile
  <2>4. CASE FinishBackup
    BY <2>4 DEF FinishBackup
  <2>5. CASE AbandonBackup
    BY <2>5 DEF AbandonBackup
  <2>6. QED
    BY <2>1, <2>2, <2>3, <2>4, <2>5, RecoveryNext, ~Restore DEF RecoveryNext
<1>5. QED
  BY <1>3, <1>4 DEF AgreementOf

(* A complete backup holds the file of every row that it holds.            *)
LEMMA RestoreAgreement ==
  ASSUME DirectoryInv, Restore, NEW r \in Runs, r \notin overlapped'
  PROVE  AgreementOf(r)'
<1>1. TypeOK /\ AgreementOf(r)
  BY DEF DirectoryInv, WorkInv, Restore
<1>2. RowAgrees(r)'
  BY <1>1 DEF TypeOK, Docs, Restore, AgreementOf, BackupAgrees, RowAgrees, GraphFile
<1>3. (OneFills(r) /\ FilledFromNothing(r) /\ PastAgreed(r))'
  BY DEF Restore, OneFills, FilledFromNothing, PastAgreed, Fills, IsPast
<1>4. BackupAgrees(r)'
  BY <1>1 DEF Restore, AgreementOf, BackupAgrees
<1>5. QED
  BY <1>2, <1>3, <1>4 DEF AgreementOf

(* A registered run can be resumed, also after a restore: its directory    *)
(* holds the graph of its row, unless two processes began to write it at   *)
(* the same time.                                                          *)
THEOREM DirectoryHoldsGraphHolds == Spec => []DirectoryHoldsGraph
<1>1. DirectoryInv /\ [Next]_vars => DirectoryInv'
  <2> SUFFICES ASSUME DirectoryInv, [Next]_vars PROVE DirectoryInv'
    OBVIOUS
  <2>1. CASE UNCHANGED vars
    BY <2>1 DEF vars, procVars, DirectoryInv, WorkInv, TypeOK, Found, ManifestIsLast, WorkersShareGraph,
                AgreementOf, OneFills, FilledFromNothing, PastAgreed, RowAgrees, BackupAgrees, GraphFile,
                Fills, IsPast
  <2>2. CASE Next
    <3>1. WorkInv'
      BY <2>2, ProcWorkInv, RecoveryWorkInv DEF Next, DirectoryInv
    <3>2. ASSUME NEW r \in Runs, r \notin overlapped'
          PROVE  AgreementOf(r)'
      BY <2>2, <3>2, ProcAgreement, BackupAgreement, RestoreAgreement DEF Next
    <3>3. QED
      BY <3>1, <3>2 DEF DirectoryInv
  <2>3. QED
    BY <2>1, <2>2
<1>2. DirectoryInv => DirectoryHoldsGraph
  BY DEF DirectoryInv, AgreementOf, RowAgrees, GraphFile, DirectoryHoldsGraph
<1>3. QED
  BY InitAgreement, <1>1, <1>2, PTL DEF Spec
=============================================================================
