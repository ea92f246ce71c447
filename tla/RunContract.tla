------------------------------ MODULE RunContract ------------------------------
(***************************************************************************)
(* What the Fast Gateway promises about one Core run, whatever thread      *)
(* moves it: the durable record is admitted, started and settled once, and *)
(* the verdict it settles on agrees with what the OpenClaw worker did.     *)
(*                                                                         *)
(* The record is the latest line of the append-only RunRegistry            *)
(* (core_engine.py, RunRegistry); the worker is the OpenClaw run bound to  *)
(* it, which lives in another process.  CoreEngine.tla implements this     *)
(* specification.                                                          *)
(***************************************************************************)
EXTENDS Naturals

CONSTANT Runs

VARIABLES
    status,   \* status[r]: latest recorded status of run r, "none" before create
    reason,   \* reason[r]: the reason recorded with the terminal status
    worker    \* worker[r]: what the OpenClaw worker of r is doing or did

vars == <<status, reason, worker>>

Terminal == {"PASS", "FAIL", "BLOCKED", "TIMEOUT", "CANCELLED"}
Statuses == {"none", "QUEUED", "RUNNING"} \cup Terminal

\* How a worker that was not aborted can end: a valid result without a progress
\* checkpoint, one whose checkpoint shows progress, drifts from the goal or is
\* malformed, a result the validator rejects or that reports a block, an error.
Endings  == {"pass", "progress", "drift", "malformed", "reject", "blocked", "error"}
Delivers == {"pass", "progress", "drift", "malformed"}
Workers  == {"none", "active", "aborted"} \cup Endings

\* The reasons a settled record can carry; every AUTH_<code> is "AUTH", and the
\* reasons the result validator composes are RESULT_REJECTED / RESULT_BLOCKED.
Reasons == {"", "AUTH", "TRANSPORT_FAILURE", "DISPATCH_REJECTED", "WAIT_REJECTED",
            "OPENCLAW_ERROR", "OPENCLAW_CONTRACT", "OPENCLAW_ABORTED",
            "OPENCLAW_TERMINAL_TIMEOUT", "OPENCLAW_TIMEOUT", "DONE", "RESULT_REJECTED", "RESULT_BLOCKED",
            "GOAL_CHECKPOINT_INVALID", "LOCAL_LLM_GOAL_DRIFT", "EXECUTION_RUNTIME_LIMIT",
            "POLICY_ABORT_FAILED", "USER_CANCEL", "CORE_CANCELLED"}
           \cup Terminal

(***************************************************************************)
(* The verdicts a run may settle on, given the worker at that moment.  A   *)
(* FAIL claims nothing about the worker (the gateway may have lost sight   *)
(* of it); every other verdict on a started run says the worker is over.   *)
(***************************************************************************)
Honest(from, verdict, w) ==
    /\ verdict = "PASS"    => from = "RUNNING" /\ w \in Delivers
    /\ verdict = "TIMEOUT" => from = "RUNNING"
    /\ verdict # "FAIL" /\ from = "RUNNING" => w # "active"

Init ==
    /\ status = [r \in Runs |-> "none"]
    /\ reason = [r \in Runs |-> ""]
    /\ worker = [r \in Runs |-> "none"]

Create(r) ==
    /\ status[r] = "none"
    /\ status' = [status EXCEPT ![r] = "QUEUED"]
    /\ UNCHANGED <<reason, worker>>

Start(r) ==
    /\ status[r] = "QUEUED"
    /\ worker[r] # "none"
    /\ status' = [status EXCEPT ![r] = "RUNNING"]
    /\ UNCHANGED <<reason, worker>>

Settle(r) ==
    /\ status[r] \in {"QUEUED", "RUNNING"}
    /\ \E verdict \in Terminal, why \in Reasons :
          /\ Honest(status[r], verdict, worker[r])
          /\ status' = [status EXCEPT ![r] = verdict]
          /\ reason' = [reason EXCEPT ![r] = why]
    /\ UNCHANGED worker

\* The one rewrite of a settled record: the error an abort race leaves behind
\* (RunRegistry.reconcile_abort_observation).
ReconcileAbort(r) ==
    /\ status[r] = "FAIL"
    /\ reason[r] = "OPENCLAW_ERROR"
    /\ status' = [status EXCEPT ![r] = "CANCELLED"]
    /\ reason' = [reason EXCEPT ![r] = "USER_CANCEL"]
    /\ UNCHANGED worker

\* A worker is submitted once and ends once.
WorkerMoves(r) ==
    /\ \/ worker[r] = "none" /\ worker' = [worker EXCEPT ![r] = "active"]
       \/ /\ worker[r] = "active"
          /\ \E w \in Endings \cup {"aborted"} : worker' = [worker EXCEPT ![r] = w]
    /\ UNCHANGED <<status, reason>>

Next == \E r \in Runs : \/ Create(r) \/ Start(r) \/ Settle(r)
                        \/ ReconcileAbort(r) \/ WorkerMoves(r)

Spec == Init /\ [][Next]_vars
================================================================================
