------------------------- MODULE MCHandoffExecution -------------------------
(* Instances of HandoffExecution for TLC. *)
EXTENDS HandoffExecution, TLC

\* Processes, coordinators and handoffs are interchangeable.
Symmetric == Permutations(Procs) \union Permutations(Coordinators) \union Permutations(Handoffs)
=============================================================================
