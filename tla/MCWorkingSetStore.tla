------------------------- MODULE MCWorkingSetStore -------------------------
(* Instances of WorkingSetStore for TLC. *)
EXTENDS WorkingSetStore, TLC

\* An append that keeps the status, and a replacement that closes the task.
TwoChanges ==
  {[items |-> {i}, replace |-> FALSE, status |-> NULL] : i \in Items}
  \union {[items |-> {}, replace |-> TRUE, status |-> "closed"]}
=============================================================================
