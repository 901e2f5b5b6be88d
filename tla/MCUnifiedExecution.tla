------------------------- MODULE MCUnifiedExecution -------------------------
(* Instances of UnifiedExecution for TLC. *)
EXTENDS UnifiedExecution

\* One run of two nodes: the second waits for the first.
ChainRunOf == [n \in 1 .. 2 |-> "run"]
ChainDeps == [n \in 1 .. 2 |-> IF n = 1 THEN {} ELSE {1}]
ChainMaxAttempts == [n \in 1 .. 2 |-> 2]
ChainBackoff == [n \in 1 .. 2 |-> 1]

\* Every process passes the default worker_id.
SharedWorkerId == [w \in Workers |-> "local-worker"]
=============================================================================
