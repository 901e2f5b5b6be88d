---------------------------- MODULE RunOutcomes ----------------------------
(***************************************************************************)
(* What becomes of the runs of task graphs, for who copies it elsewhere: a *)
(* run is not there yet, is open or has ended, and it ends once, with one  *)
(* outcome.  One transaction may move several runs.                        *)
(***************************************************************************)
CONSTANT Runs

VARIABLE outcome  \* none, open, succeeded or failed

Ended == {"succeeded", "failed"}

Init == outcome = [r \in Runs |-> "none"]

Next ==
  /\ outcome' \in [Runs -> {"none", "open"} \union Ended]
  /\ \A r \in Runs : outcome'[r] # outcome[r] => outcome[r] \notin Ended /\ outcome'[r] # "none"

Spec == Init /\ [][Next]_outcome
=============================================================================
