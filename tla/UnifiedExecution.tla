-------------------------- MODULE UnifiedExecution --------------------------
(***************************************************************************)
(* The execution engine: processes that each call run(graph) or            *)
(* resume(run_id) on the shared event store, and are started again after   *)
(* they return, raise or die.  An engine has a program counter; between    *)
(* two of its store transactions every other process, a person and the     *)
(* clock may act.  The executor of a node is an arbitrary function: it may *)
(* succeed, wait, report a failure or raise.                               *)
(***************************************************************************)
EXTENDS RuntimeEventStore

CONSTANT MaxCrashes  \* bound on the number of times a process dies

ASSUME CrashAssumption == MaxCrashes \in Nat

VARIABLES
  pc,      \* where each process is in UnifiedExecutionEngine.run
  at,      \* the run each process works on
  crashes  \* history: number of processes that died

engineVars == <<vars, pc, at, crashes>>

Steps == {"register", "recover", "claim", "execute", "look"}

EngineInit ==
  /\ Init
  /\ pc = [w \in Workers |-> "off"]
  /\ at \in [Workers -> Runs]
  /\ crashes = 0

Goto(w, next) == pc' = [pc EXCEPT ![w] = next] /\ UNCHANGED <<at, crashes>>

(* run or resume is called. *)
Start(w, r) ==
  /\ pc[w] = "off"
  /\ pc' = [pc EXCEPT ![w] = "register"]
  /\ at' = [at EXCEPT ![w] = r]
  /\ UNCHANGED <<vars, crashes>>

(* register: the graph file and the manifest are written, or are already   *)
(* there with the same content, and the graph is registered in the store.  *)
Register(w) ==
  /\ pc[w] = "register"
  /\ \/ RegisterGraph(at[w])
     \/ runStatus[at[w]] # "absent" /\ UNCHANGED vars
  /\ Goto(w, "recover")

\* Slip: a call that does not recover the leases of dead processes.
RecoverNothing(w) ==
  /\ pc[w] = "recover"
  /\ UNCHANGED vars
  /\ Goto(w, "claim")

(* recover_expired_leases, once at the start of every call. *)
RecoverLeases(w) ==
  /\ pc[w] = "recover"
  /\ \/ RecoverExpiredLeases
     \/ (\E delay \in Delay : Expired(delay) = {}) /\ UNCHANGED vars
  /\ Goto(w, "claim")

\* Slip: a call that polls for work instead of returning.
ClaimOrPoll(w) ==
  /\ pc[w] = "claim"
  /\ ClaimReadyNode(w, at[w])
  /\ Goto(w, "execute")

(* claim_ready_node; the call returns when there is nothing to claim. *)
Claim(w) ==
  /\ pc[w] = "claim"
  /\ \/ ClaimReadyNode(w, at[w]) /\ Goto(w, "execute")
     \/ /\ \E delay \in Delay : Claimable(at[w], delay) = {}
        /\ UNCHANGED vars
        /\ Goto(w, "off")

(* _execute_claim: the executor's result, or its exception, is recorded. *)
Execute(w) ==
  /\ pc[w] = "execute"
  /\ \/ CompleteNode(w)
     \/ \E waiting \in Waiting : WaitNode(w, waiting)
     \/ \E retryable \in BOOLEAN : FailNode(w, retryable)
  /\ Goto(w, "look")

\* Slip: the exception of a stale claim is swallowed and the claim kept.
ExecuteStaleKept(w) ==
  /\ pc[w] = "execute"
  /\ ~RequireClaim(w)
  /\ UNCHANGED vars
  /\ Goto(w, "look")

(* _execute_claim of a claim that was taken away meanwhile: the finishing    *)
(* method raises, fail_node in the handler raises again, and run() with it.  *)
ExecuteStale(w) ==
  /\ pc[w] = "execute"
  /\ StaleClaim(w)
  /\ Goto(w, "off")

(* The loop condition: the call returns on an ended run or after max_nodes.  *)
Look(w) ==
  /\ pc[w] = "look"
  /\ UNCHANGED vars
  /\ \/ runStatus[at[w]] \notin {"failed", "succeeded"} /\ Goto(w, "claim")
     \/ Goto(w, "off")

(* The process dies anywhere in the call; what it claimed stays claimed. *)
Die(w) ==
  /\ pc[w] # "off"
  /\ crashes < MaxCrashes
  /\ crashes' = crashes + 1
  /\ IF held[w] # NULL THEN Crash(w) ELSE UNCHANGED vars
  /\ pc' = [pc EXCEPT ![w] = "off"]
  /\ UNCHANGED at

(* Everything outside the engines: decisions and the clock. *)
Environment ==
  /\ \/ \E n \in Nodes, decision \in Decision : ResolveWaitingNode(n, decision)
     \/ Tick
  /\ UNCHANGED <<pc, at, crashes>>

EngineStep(w) ==
  \/ Register(w)
  \/ RecoverLeases(w)
  \/ Claim(w)
  \/ Execute(w)
  \/ ExecuteStale(w)
  \/ Look(w)

EngineNext ==
  \/ \E w \in Workers, r \in Runs : Start(w, r)
  \/ \E w \in Workers : EngineStep(w)
  \/ \E w \in Workers : Die(w)
  \/ Environment

(* A process that runs goes on running (executors return), the clock goes   *)
(* on, and somebody keeps resuming every run; nobody need decide anything.  *)
Fairness ==
  /\ \A w \in Workers : WF_engineVars(EngineStep(w))
  /\ \A r \in Runs : WF_engineVars(\E w \in Workers : Start(w, r))
  /\ WF_engineVars(Tick /\ UNCHANGED <<pc, at, crashes>>)

EngineSpec == EngineInit /\ [][EngineNext]_engineVars /\ Fairness

-----------------------------------------------------------------------------
(* Properties *)

(* A process holds a claim exactly while it executes a node: no return and  *)
(* no exception of run() leaves a live process with a claim it forgot.      *)
EngineTypeOK ==
  /\ pc \in [Workers -> Steps \union {"off"}]
  /\ at \in [Workers -> Runs]
  /\ crashes \in Nat
  /\ \A w \in Workers : pc[w] = "execute" <=> held[w] # NULL
  /\ \A w \in Workers : pc[w] \in {"recover", "claim", "execute", "look"} =>
       runStatus[at[w]] # "absent"

(* A node that can still run, by a retry, a later call or another process.   *)
Unsettled(n) ==
  \/ status[n] \in {"absent", "running", "retry_wait"}
  \/ status[n] = "pending" /\ DependenciesSucceeded(n)

(* Whatever fails, expires or dies, every node in the end succeeds, is       *)
(* skipped, fails, waits for a decision, or is held up by such a dependency: *)
(* no node stays running under a lease nobody holds, or ready and unclaimed. *)
EveryNodeSettles == <>[](\A n \in Nodes : ~Unsettled(n))

(* Every call of run() ends: the loop cannot claim for ever. *)
EveryCallReturns == \A w \in Workers : pc[w] # "off" ~> pc[w] = "off"
=============================================================================
