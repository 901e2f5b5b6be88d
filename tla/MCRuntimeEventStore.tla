------------------------ MODULE MCRuntimeEventStore ------------------------
(* Instances of RuntimeEventStore for TLC. *)
EXTENDS RuntimeEventStore, TLC

\* Two runs in one database: node 1 feeds nodes 2 and 3, as
\* plan.semantic-context feeds roles, and node 4 is the other run.
ForkRunOf == [n \in 1 .. 4 |-> IF n = 4 THEN "other" ELSE "run"]
ForkDeps == [n \in 1 .. 4 |-> IF n \in {1, 4} THEN {} ELSE {1}]
ForkMaxAttempts == [n \in 1 .. 4 |-> IF n = 1 THEN 2 ELSE 1]
ForkBackoff == [n \in 1 .. 4 |-> 1]

\* Every process passes the default worker_id.
SharedWorkerId == [w \in Workers |-> "local-worker"]

WorkersAreAlike == Permutations(Workers)

\* Beside the other run, the first is a chain of two that nobody resumes.
OneForkOrTwoRuns ==
  runStatus["other"] # "absent" =>
    status[3] \in {"absent", "pending"} /\ \A n \in Nodes : resumes[n] = 0
=============================================================================
