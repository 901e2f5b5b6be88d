--------------------------- MODULE VersionedTask ---------------------------
(***************************************************************************)
(* What the Working Set store promises: one task whose revisions form a    *)
(* history that only grows at its end, and optimistic revision of it.  A   *)
(* process revises from the view it last loaded, and only while that view  *)
(* is the latest revision, so a revision never drops what its author had   *)
(* not seen.                                                               *)
(***************************************************************************)
EXTENDS Naturals

CONSTANTS Procs, Items, Changes, Versions, NULL

VARIABLES
  latest,   \* the number of revisions: 0 before the task exists
  history,  \* the revision with each number
  status,   \* the status the latest revision left the task in
  view      \* the revision each process works from

vars == <<latest, history, status, view>>

(* A change replaces the content, or adds to it and keeps what is there. *)
Revised(change, content) ==
  IF change.replace THEN change.items ELSE content \union change.items

Publish(p, content, newStatus) ==
  /\ latest' = latest + 1
  /\ history' = [history EXCEPT ![latest + 1] = [content |-> content, by |-> p]]
  /\ status' = newStatus
  /\ view' = [view EXCEPT ![p] =
       [version |-> latest + 1, status |-> newStatus, snapshot |-> history'[latest + 1]]]

Init ==
  /\ latest = 0
  /\ history = [v \in Versions |-> NULL]
  /\ status = NULL
  /\ view = [p \in Procs |-> NULL]

Create(p) ==
  /\ latest = 0
  /\ \E content \in SUBSET Items : Publish(p, content, "active")

Load(p) ==
  /\ latest > 0
  /\ view' = [view EXCEPT ![p] =
       [version |-> latest, status |-> status, snapshot |-> history[latest]]]
  /\ UNCHANGED <<latest, history, status>>

Revise(p) ==
  /\ view[p] # NULL
  /\ view[p].version = latest
  /\ latest + 1 \in Versions
  /\ \E change \in Changes :
       Publish(p, Revised(change, view[p].snapshot.content),
               IF change.status = NULL THEN view[p].status ELSE change.status)

Forget(p) ==
  /\ view' = [view EXCEPT ![p] = NULL]
  /\ UNCHANGED <<latest, history, status>>

Next == \E p \in Procs : Create(p) \/ Load(p) \/ Revise(p) \/ Forget(p)

Spec == Init /\ [][Next]_vars
=============================================================================
