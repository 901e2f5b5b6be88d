------------------------ MODULE MCTaskGraphExecution ------------------------
(* Instances of TaskGraphExecution for TLC. *)
EXTENDS TaskGraphExecution, TLC

\* An agent that raises an unknown, and the closure gate after it.
InquiryRunOf == [n \in 1 .. 2 |-> "run"]
InquiryDeps == [n \in 1 .. 2 |-> IF n = 1 THEN {} ELSE {1}]
InquiryRaises == [n \in 1 .. 2 |-> IF n = 1 THEN {"u"} ELSE {}]
InquiryResolves == [n \in 1 .. 2 |-> {}]
InquiryResults ==
  [n \in 1 .. 2 |-> IF n = 1 THEN {"succeeded", "waiting_external", "failed"}
                            ELSE {"waiting_human"}]
InquiryPatches == [n \in 1 .. 2 |-> IF n = 1 THEN {"sound", "malformed"} ELSE {"none"}]

\* A second agent between them resolves what the first one raised.
AnswerRunOf == [n \in 1 .. 3 |-> "run"]
AnswerDeps == [n \in 1 .. 3 |-> IF n = 1 THEN {} ELSE {n - 1}]
AnswerRaises == [n \in 1 .. 3 |-> IF n = 1 THEN {"u"} ELSE {}]
AnswerResolves == [n \in 1 .. 3 |-> IF n = 2 THEN {"u"} ELSE {}]
AnswerResults ==
  [n \in 1 .. 3 |-> IF n = 3 THEN {"waiting_human"} ELSE {"waiting_external"}]
AnswerPatches == [n \in 1 .. 3 |-> IF n = 3 THEN {"none"} ELSE {"none", "sound"}]

OneAttempt == [n \in Nodes |-> 1]
FirstTwice == [n \in Nodes |-> IF n = 1 THEN 2 ELSE 1]
NoBackoff == [n \in Nodes |-> 0]

\* The processes are alike: every one passes the default worker_id.
SharedWorkerId == [w \in Workers |-> "local-worker"]
WorkerSymmetry == Permutations(Workers)

\* The agent is tried again, or another run revises the task.
RetryOrOtherRun == attempt[1] = 2 => revisions = 0
=============================================================================
