------------------------------- MODULE CoreEngine -------------------------------
(***************************************************************************)
(* plachem_fast_gateway/core_engine.py with the OpenClaw adapter it calls  *)
(* (openclaw_adapter.py submit / wait / cancel) and the threads that call  *)
(* it: the dispatcher, the observer and the user-cancel paths of           *)
(* fast_gateway_service.py, the runtime deadline timer, and the War Room   *)
(* stop of war_room_fast_gateway.py.                                       *)
(*                                                                         *)
(* Three durable stores (the run registry, the binding store, the saved    *)
(* outcomes) are written by threads that interleave around one engine      *)
(* lock, which some paths take, some already hold and some never take.     *)
(* The OpenClaw worker is another process, seen only through RPC answers.  *)
(***************************************************************************)
EXTENDS Naturals, FiniteSets

CONSTANTS
    Runs,         \* Core run ids
    Managed,      \* runs dispatched with watchdog_managed: no Core deadline
    Ends,         \* the ways a worker may end in this instance
    Cancellers,   \* which user cancel paths this instance exercises
    MaxCrashes    \* bound on process restarts

ASSUME ManagedAssumption == Managed \subseteq Runs
ASSUME CrashAssumption   == MaxCrashes \in Nat

VARIABLES
    status, reason,  \* the run registry: latest record of each run
    worker,          \* the OpenClaw run behind each Core run (external)
    binding,         \* status column of the binding store, "none" if no row
    saved,           \* validation_state "outcome" of a run, durable
    drift,           \* policy_state.goal of the record: 0 nothing checked yet, 1 a
                     \* valid checkpoint is on record, 2 and 3 the drifts after that
    age,             \* time since started_at: within the execution budget,
                     \* in the finalization reserve, beyond max_runtime
    timer,           \* runs whose runtime deadline timer is armed
    intent,          \* runs with a pending user cancel intent
    closing,         \* runs whose observer is in _finalize_local_execution
    lock,            \* holder of CoreEngine._lock
    pc, out,         \* per run and thread: where it is, the outcome in hand
    crashes          \* restarts so far

Contract == INSTANCE RunContract

durable  == <<status, reason, binding, saved, drift>>
volatile == <<timer, intent, closing, lock, pc, out>>
vars     == <<durable, volatile, worker, age, crashes>>

ASSUME EndsAssumption == Ends \subseteq Contract!Endings

Terminal == Contract!Terminal
Threads  == {"disp", "obs", "timer", "stop", "api"}
NoThread == <<"none", "none">>
Ages     == {"inBudget", "reserve", "overMax"}
Goals    == {"ok", "progress", "drift", "malformed"}   \* "ok": nothing to check
Places   == {"off", "auth", "bind", "start", "observe", "top", "ask", "probe", "store", "heard",
             "apply", "goal", "cleanup", "abort", "conclude", "due",
             "cancel", "control", "reconcile", "mark", "markAborted"}
Outcomes == [status : Terminal \cup {"RUNNING"}, reason : Contract!Reasons, goal : Goals]

Say(s, why) == [status |-> s, reason |-> why, goal |-> "ok"]
NoOutcome   == Say("RUNNING", "")   \* nothing terminal has been heard

TypeOK ==
    /\ status \in [Runs -> Contract!Statuses]
    /\ reason \in [Runs -> Contract!Reasons]
    /\ worker \in [Runs -> Contract!Workers]
    /\ binding \in [Runs -> {"none", "RUNNING"} \cup Terminal]
    /\ saved \in [Runs -> Outcomes]
    /\ drift \in [Runs -> 0..3]
    /\ age \in [Runs -> Ages]
    /\ timer \subseteq Runs
    /\ intent \subseteq Runs
    /\ closing \subseteq Runs
    /\ lock \in (Runs \X Threads) \cup {NoThread}
    /\ pc \in [Runs -> [Threads -> Places]]
    /\ out \in [Runs -> [Threads -> Outcomes]]
    /\ crashes \in 0..MaxCrashes

Init ==
    /\ status  = [r \in Runs |-> "none"]
    /\ reason  = [r \in Runs |-> ""]
    /\ worker  = [r \in Runs |-> "none"]
    /\ binding = [r \in Runs |-> "none"]
    /\ saved   = [r \in Runs |-> NoOutcome]
    /\ drift   = [r \in Runs |-> 0]
    /\ age     = [r \in Runs |-> "inBudget"]
    /\ timer = {} /\ intent = {} /\ closing = {}
    /\ lock = NoThread
    /\ pc  = [r \in Runs |-> [t \in Threads |-> "off"]]
    /\ out = [r \in Runs |-> [t \in Threads |-> NoOutcome]]
    /\ crashes = 0

(***************************** registry and lock ***************************)

Settled(r)      == status[r] \in Terminal
Relapsable(from, to) ==   \* mutant: a settled record may be settled again
    from # "none" /\ from # to /\ to \in Terminal \cup {"RUNNING"}
Legal(from, to) == \/ from = "QUEUED" /\ to \in {"RUNNING", "FAIL", "BLOCKED", "CANCELLED"}
                   \/ from = "RUNNING" /\ to \in Terminal

TransitionAlways(r, s, why) ==   \* mutant: RunRegistry.transition without its table
    /\ status' = [status EXCEPT ![r] = s]
    /\ reason' = [reason EXCEPT ![r] = why]

\* RunRegistry.transition: the same status again returns the record untouched, an
\* illegal one raises in the caller, which gives up.
Transition(r, s, why) ==
    IF Legal(status[r], s)
    THEN /\ status' = [status EXCEPT ![r] = s]
         /\ reason' = [reason EXCEPT ![r] = why]
    ELSE UNCHANGED <<status, reason>>

Free         == lock = NoThread
Holds(r, t)  == lock = <<r, t>>
Go(r, t, p)  == pc' = [pc EXCEPT ![r][t] = p]
Home(t)      == IF t = "obs" THEN "top" ELSE "off"
Take(r, t)   == Free /\ lock' = <<r, t>>

Hear(r, t, o) == out' = [out EXCEPT ![r][t] = o]

\* The call returns or raises: its locals are gone, the lock it holds is released,
\* an observer starts over with its next bounded wait, any other thread is done.
Leave(r, t) ==
    /\ Go(r, t, Home(t))
    /\ Hear(r, t, NoOutcome)
    /\ lock' = IF Holds(r, t) THEN NoThread ELSE lock
    /\ closing' = IF t = "obs" THEN closing \ {r} ELSE closing

(********************************* dispatch ********************************)

\* Admission: a new record, or the retry of one a restart left QUEUED.
DispatchBegin(r) ==
    /\ pc[r]["disp"] = "off"
    /\ status[r] \in {"none", "QUEUED"}
    /\ Take(r, "disp")
    /\ status' = [status EXCEPT ![r] = "QUEUED"]
    /\ Go(r, "disp", "auth")
    /\ UNCHANGED <<reason, binding, saved, drift, timer, intent, closing, out,
                   worker, age, crashes>>

\* No broker, or AuthBrokerError: the run is recorded BLOCKED.
DispatchDenied(r) ==
    /\ pc[r]["disp"] = "auth"
    /\ Transition(r, "BLOCKED", "AUTH")
    /\ Leave(r, "disp")
    /\ UNCHANGED <<binding, saved, drift, timer, intent, worker, age, crashes>>

\* adapter.submit: an existing binding is returned; otherwise the "agent" RPC
\* either is accepted (the idempotency key makes a repeat join the same worker)
\* or fails here, whether or not OpenClaw accepted it.
DispatchSubmit(r) ==
    /\ pc[r]["disp"] = "auth"
    /\ \/ binding[r] # "none" /\ Go(r, "disp", "start") /\ UNCHANGED <<worker, out>>
       \/ /\ binding[r] = "none"
          /\ worker' = [worker EXCEPT ![r] = IF @ = "none" THEN "active" ELSE @]
          /\ \/ Go(r, "disp", "bind") /\ UNCHANGED out
             \/ \E why \in {"TRANSPORT_FAILURE", "DISPATCH_REJECTED"} :
                   Hear(r, "disp", Say("FAIL", why)) /\ Go(r, "disp", "conclude")
       \/ /\ binding[r] = "none"
          /\ \E why \in {"TRANSPORT_FAILURE", "DISPATCH_REJECTED"} :
                Hear(r, "disp", Say("FAIL", why)) /\ Go(r, "disp", "conclude")
          /\ UNCHANGED worker
    /\ UNCHANGED <<durable, timer, intent, closing, lock, age, crashes>>

DispatchBind(r) ==
    /\ pc[r]["disp"] = "bind"
    /\ binding' = [binding EXCEPT ![r] = "RUNNING"]
    /\ Go(r, "disp", "start")
    /\ UNCHANGED <<status, reason, saved, drift, timer, intent, closing, lock, out,
                   worker, age, crashes>>

\* RUNNING is recorded, the deadline armed unless managed, and the engine returns.  The
\* observer is started after that, unless a waiter has started it already.
DispatchStart(r) ==
    /\ pc[r]["disp"] = "start"
    /\ Transition(r, "RUNNING", reason[r])
    /\ timer' = IF r \in Managed THEN timer ELSE timer \cup {r}
    /\ Go(r, "disp", IF pc[r]["obs"] = "off" THEN "observe" ELSE "off")
    /\ lock' = NoThread
    /\ UNCHANGED <<binding, saved, drift, intent, closing, out, worker, age, crashes>>

ObserverForgotten(r) ==   \* mutant: the harness returns the record and observes nothing
    pc' = [pc EXCEPT ![r]["disp"] = IF @ = "observe" THEN "off" ELSE @]

\* _start_observer: a run has one observer, whoever starts it, so a dispatcher still on
\* its way to starting it has nothing left to do.
ObserverStarts(r) ==
    pc' = [pc EXCEPT ![r]["disp"] = IF @ = "observe" THEN "off" ELSE @,
                     ![r]["obs"] = "top"]

\* The harness, once it has its own lock, starts the observer of the record dispatch
\* returned, which may have been settled in between.
StartObserver(r) ==
    /\ pc[r]["disp"] = "observe"
    /\ ObserverStarts(r)
    /\ UNCHANGED <<durable, timer, intent, closing, lock, out, worker, age, crashes>>

(****************************** adapter.wait *******************************)

\* What agent.wait and the validated history of an ended worker amount to.  An
\* aborted worker answers "aborted" or, in an abort race, a plain error.
Passed(goal) == [status |-> "PASS", reason |-> "DONE", goal |-> goal]
AnswersPartial(w) ==   \* mutant: partial output of an aborted worker is validated
    CASE w \in {"pass", "aborted"} -> {Passed("ok")}
      [] w = "progress"            -> {Passed("progress")}
      [] w = "error"               -> {Say("FAIL", "OPENCLAW_ERROR")}
      [] OTHER                     -> {}
Answers(w) ==
    CASE w = "pass"      -> {Passed("ok")}
      [] w = "progress"  -> {Passed("progress")}
      [] w = "drift"     -> {Passed("drift")}
      [] w = "malformed" -> {Passed("malformed")}
      [] w = "reject"    -> {Say("FAIL", "RESULT_REJECTED")}
      [] w = "blocked"   -> {Say("BLOCKED", "RESULT_BLOCKED")}
      [] w = "error"     -> {Say("FAIL", "OPENCLAW_ERROR")}
      [] w = "aborted"   -> {Say("CANCELLED", "OPENCLAW_ABORTED"),
                             Say("FAIL", "OPENCLAW_ERROR")}
      [] OTHER           -> {}

\* Only outcomes of the validator are saved with their result.
Validated(o) == o.reason \in {"DONE", "RESULT_REJECTED", "RESULT_BLOCKED"}

ReplayNothing(r)   == NoOutcome   \* mutant: a terminal binding is not answered
ReplayUnchecked(r) == [Say(binding[r], "DONE") EXCEPT !.goal = "ok"]   \* mutant: checkpoint lost

\* A binding that is already terminal answers from the saved outcome if that has
\* the same status, else with the bare status.
Replay(r) == IF saved[r].status = binding[r] THEN saved[r] ELSE Say(binding[r], binding[r])

RejectedLate(r, t) == Say("TIMEOUT", "WAIT_REJECTED")   \* mutant: an error taken for an end

\* A contract error of adapter.wait fails the run in the bounded wait, and counts
\* as "still running" in the finalization and in the stop's reconciliation.
Rejected(r, t) == IF t = "obs" /\ r \notin closing THEN Say("FAIL", "WAIT_REJECTED")
                                                   ELSE NoOutcome

Ask(r, t) ==
    /\ pc[r][t] = "ask"
    /\ IF binding[r] # "RUNNING"
       THEN /\ Hear(r, t, IF binding[r] = "none" THEN Rejected(r, t) ELSE Replay(r))
            /\ Go(r, t, "heard")
       ELSE \/ \* transport failure, or the RPC itself is rejected
               /\ Hear(r, t, NoOutcome) \/ Hear(r, t, Rejected(r, t))
               /\ Go(r, t, "heard")
            \/ \* "timeout": the window is over, or the run already is
               Go(r, t, "probe") /\ UNCHANGED out
            \/ \* "pending"
               worker[r] = "active" /\ Hear(r, t, NoOutcome) /\ Go(r, t, "store")
            \/ \* a foreign runId or an unknown status in the answer
               Hear(r, t, Say("FAIL", "OPENCLAW_CONTRACT")) /\ Go(r, t, "store")
    /\ UNCHANGED <<durable, timer, intent, closing, lock, worker, age, crashes>>

\* The answer that carries the worker's end.
AskEnded(r, t) ==
    /\ pc[r][t] = "ask"
    /\ binding[r] = "RUNNING"
    /\ \E o \in Answers(worker[r]) : Hear(r, t, o)
    /\ Go(r, t, "store")
    /\ UNCHANGED <<durable, timer, intent, closing, lock, worker, age, crashes>>

\* A timeout of the window alone is no outcome, except to the stop's reconciliation,
\* which takes any terminal status for the run's.
WindowOver(t) == IF t = "stop" THEN Say("TIMEOUT", "OPENCLAW_TIMEOUT") ELSE NoOutcome

\* _session_run_is_active: an inactive session makes the timeout terminal.
Probe(r, t) ==
    /\ pc[r][t] = "probe"
    /\ \/ Hear(r, t, WindowOver(t)) /\ Go(r, t, "heard")
       \/ /\ worker[r] # "active"
          /\ Hear(r, t, Say("TIMEOUT", "OPENCLAW_TERMINAL_TIMEOUT"))
          /\ Go(r, t, "store")
    /\ UNCHANGED <<durable, timer, intent, closing, lock, worker, age, crashes>>

Store(r, t) ==
    /\ pc[r][t] = "store"
    /\ binding' = [binding EXCEPT ![r] = out[r][t].status]
    /\ saved' = IF Validated(out[r][t]) THEN [saved EXCEPT ![r] = out[r][t]] ELSE saved
    /\ Go(r, t, "heard")
    /\ UNCHANGED <<status, reason, drift, timer, intent, closing, lock, out,
                   worker, age, crashes>>

(******************** observer, deadline and finalization ******************)

Armed(r)     == r \in timer   \* mutant: only an armed deadline bounds a run
Unmanaged(r) == r \notin Managed
TimeUpAsked  == Say("EXPIRED", "EXECUTION_RUNTIME_LIMIT")   \* mutant: not a status
TimeUp       == Say("CANCELLED", "EXECUTION_RUNTIME_LIMIT")

\* Where applying outcome o starts: a timeout whose session may still be live is
\* aborted first, a result with a checkpoint goes through the goal check.
Disposal(o) ==
    CASE o.status = "TIMEOUT" /\ o.reason # "OPENCLAW_TERMINAL_TIMEOUT" -> "cleanup"
      [] o.status # "TIMEOUT" /\ o.goal # "ok"                          -> "goal"
      [] OTHER                                                          -> "conclude"

\* One call of CoreEngine.wait by whoever owns the run's observation lock; the
\* harness observer ends, and drops the cancel intent, at a terminal record.
ObserveTop(r) ==
    /\ pc[r]["obs"] = "top"
    /\ Free
    /\ IF Settled(r)
       THEN Go(r, "obs", "off") /\ intent' = intent \ {r} /\ UNCHANGED <<closing, out>>
       ELSE /\ IF Unmanaged(r) /\ age[r] = "overMax"
               THEN Go(r, "obs", "abort") /\ Hear(r, "obs", TimeUp) /\ UNCHANGED closing
               ELSE /\ Go(r, "obs", "ask")
                    /\ closing' = IF Unmanaged(r) /\ age[r] = "reserve"
                                  THEN closing \cup {r} ELSE closing
                    /\ UNCHANGED out
            /\ UNCHANGED intent
    /\ UNCHANGED <<durable, timer, lock, worker, age, crashes>>

\* The wait endpoint may be called for a run a restart left QUEUED, or before the
\* dispatcher has started the observer: the waiter starts it then.
ApiWait(r) ==
    /\ pc[r]["obs"] = "off"
    /\ status[r] \in {"QUEUED", "RUNNING"}
    /\ ObserverStarts(r)
    /\ UNCHANGED <<durable, timer, intent, closing, lock, out, worker, age, crashes>>

\* The bounded wait with its outcome in hand, still outside the engine lock.
JudgeWait(r) ==
    /\ pc[r]["obs"] = "heard" /\ r \notin closing
    /\ LET o == out[r]["obs"]
           late == /\ Unmanaged(r) /\ age[r] # "inBudget"
                   /\ o.status \in {"RUNNING", "TIMEOUT"}
       IN \/ /\ r \in intent \/ (late /\ Settled(r)) \/ (~late /\ o.status = "RUNNING")
             /\ Leave(r, "obs")
          \/ /\ r \notin intent /\ late /\ ~Settled(r)
             /\ IF age[r] = "overMax"
                THEN Go(r, "obs", "abort") /\ Hear(r, "obs", TimeUp) /\ UNCHANGED closing
                ELSE Go(r, "obs", "ask") /\ closing' = closing \cup {r} /\ UNCHANGED out
             /\ UNCHANGED lock
          \/ /\ r \notin intent /\ ~late /\ o.status # "RUNNING"
             /\ Go(r, "obs", "apply") /\ UNCHANGED <<closing, lock, out>>
    /\ UNCHANGED <<durable, timer, intent, worker, age, crashes>>

\* Inside the engine lock the record and the cancel intent are read again.
ApplyWait(r) ==
    /\ pc[r]["obs"] = "apply"
    /\ Free
    /\ IF Settled(r) \/ r \in intent
       THEN Leave(r, "obs")
       ELSE /\ Take(r, "obs") /\ Go(r, "obs", Disposal(out[r]["obs"]))
            /\ UNCHANGED <<closing, out>>
    /\ UNCHANGED <<durable, timer, intent, worker, age, crashes>>

\* The deadline timer runs out at the execution budget and waits for the lock.
TimerDue(r) ==
    /\ r \in timer /\ age[r] # "inBudget" /\ pc[r]["timer"] = "off"
    /\ timer' = timer \ {r}
    /\ Go(r, "timer", "due")
    /\ UNCHANGED <<durable, intent, closing, lock, out, worker, age, crashes>>

EnforceDeadline(r) ==
    /\ pc[r]["timer"] = "due"
    /\ Free
    /\ IF Settled(r)
       THEN Leave(r, "timer")
       ELSE /\ Take(r, "timer")
            /\ IF age[r] = "overMax"
               THEN Go(r, "timer", "abort") /\ Hear(r, "timer", TimeUp)
               ELSE Go(r, "timer", "ask") /\ UNCHANGED out
            /\ UNCHANGED closing
    /\ UNCHANGED <<durable, timer, intent, worker, age, crashes>>

\* _finalize_local_execution with the collected outcome in hand: the observer is
\* here without the engine lock, the timer with it; neither reads the record or
\* the cancel intent again.
JudgeFinal(r, t) ==
    /\ pc[r][t] = "heard"
    /\ t = "timer" \/ (t = "obs" /\ r \in closing)
    /\ IF age[r] = "overMax" \/ out[r][t].status = "RUNNING"
       THEN Go(r, t, "abort") /\ Hear(r, t, TimeUp)
       ELSE Go(r, t, Disposal(out[r][t])) /\ UNCHANGED out
    /\ UNCHANGED <<durable, timer, intent, closing, lock, worker, age, crashes>>

(**************************** settling a record ****************************)

CancelAssumed(r) ==   \* mutant: the abort is recorded without being confirmed
    /\ binding' = [binding EXCEPT ![r] = "CANCELLED"]
    /\ UNCHANGED worker

\* adapter.cancel: confirmed, or already over, makes the binding CANCELLED.
CancelConfirmed(r) ==
    /\ binding[r] # "none"
    /\ binding' = [binding EXCEPT ![r] = "CANCELLED"]
    /\ worker' = [worker EXCEPT ![r] = IF @ = "active" THEN "aborted" ELSE @]

\* The abort RPC fails or is not confirmed; it may still have reached the worker.
CancelFailed(r) ==
    /\ UNCHANGED binding
    /\ \/ UNCHANGED worker
       \/ worker[r] = "active" /\ worker' = [worker EXCEPT ![r] = "aborted"]

NextCheckStrict(goal, d) == IF d < 2 THEN 2 ELSE 3   \* mutant: a first checkpoint is no progress

\* A valid checkpoint is progress the first time it is seen, and a drift (NO_PROGRESS)
\* whenever the same result is checked again.
NextCheck(goal, d) == IF goal = "progress" /\ d = 0 THEN 1 ELSE IF d < 2 THEN 2 ELSE 3

\* observe_progress_checkpoint: progress lets the result pass, the first drift leaves
\* the run RUNNING and guarded, the second cancels it, a malformed one blocks it.
CheckGoal(r, t) ==
    /\ pc[r][t] = "goal"
    /\ Free \/ Holds(r, t)
    /\ LET goal == out[r][t].goal
           next == NextCheck(goal, drift[r]) IN
       \/ /\ Settled(r)
          /\ timer' = timer \ {r}
          /\ Leave(r, t) /\ UNCHANGED <<status, reason, drift>>
       \/ /\ ~Settled(r) /\ goal = "malformed"
          /\ Transition(r, "BLOCKED", "GOAL_CHECKPOINT_INVALID")
          /\ timer' = timer \ {r}
          /\ Leave(r, t) /\ UNCHANGED drift
       \/ /\ ~Settled(r) /\ goal # "malformed"
          /\ drift' = [drift EXCEPT ![r] = next]
          /\ \/ next = 1 /\ Go(r, t, "conclude") /\ UNCHANGED <<timer, lock, closing, out>>
             \/ next = 2 /\ timer' = timer \ {r} /\ Leave(r, t)
             \/ /\ next = 3
                /\ Hear(r, t, Say("CANCELLED", "LOCAL_LLM_GOAL_DRIFT"))
                /\ lock' = <<r, t>>
                /\ Go(r, t, "abort") /\ UNCHANGED <<timer, closing>>
          /\ UNCHANGED <<status, reason>>
    /\ UNCHANGED <<binding, saved, intent, worker, age, crashes>>

\* Best-effort abort before TIMEOUT is recorded.
CleanupTimeout(r, t) ==
    /\ pc[r][t] = "cleanup"
    /\ CancelConfirmed(r) \/ CancelFailed(r)
    /\ Go(r, t, "conclude")
    /\ UNCHANGED <<status, reason, saved, drift, timer, intent, closing, lock, out,
                   age, crashes>>

\* The abort of _cancel_for_policy (observer, timer) and of CoreEngine.cancel
\* (api); a failed one is recorded by the policy and raised by cancel.
AbortWorker(r, t) ==
    /\ pc[r][t] = "abort"
    /\ \/ CancelConfirmed(r) /\ Go(r, t, "conclude") /\ UNCHANGED <<out, lock, closing>>
       \/ /\ CancelFailed(r)
          /\ IF t = "api"
             THEN Leave(r, t)
             ELSE /\ Hear(r, t, Say("FAIL", "POLICY_ABORT_FAILED"))
                  /\ Go(r, t, "conclude") /\ UNCHANGED <<lock, closing>>
    /\ UNCHANGED <<status, reason, saved, drift, timer, intent, age, crashes>>

Conclude(r, t) ==
    /\ pc[r][t] = "conclude"
    /\ Transition(r, out[r][t].status, out[r][t].reason)
    /\ timer' = timer \ {r}
    /\ Leave(r, t)
    /\ UNCHANGED <<binding, saved, drift, intent, worker, age, crashes>>

(****************** user cancel: API cancel and War Room stop **************)

\* PersistentExecutionHarness.cancel: the intent first, then CoreEngine.cancel.
ApiCancel(r) ==
    /\ "api" \in Cancellers /\ pc[r]["api"] = "off"
    /\ status[r] # "none"
    /\ intent' = intent \cup {r}
    /\ Go(r, "api", "cancel")
    /\ UNCHANGED <<durable, timer, closing, lock, out, worker, age, crashes>>

\* The record of a started run carries its binding.
Bound(r) == reason[r] \notin {"TRANSPORT_FAILURE", "DISPATCH_REJECTED"}

CancelEnters(r) ==
    /\ pc[r]["api"] = "cancel"
    /\ Free
    /\ \/ /\ status[r] = "RUNNING"
          /\ Take(r, "api")
          /\ Hear(r, "api", Say("CANCELLED", "OPENCLAW_ABORTED"))
          /\ Go(r, "api", "abort")
          /\ UNCHANGED <<status, reason, binding, worker, closing>>
       \/ /\ status[r] = "QUEUED"
          /\ Transition(r, "CANCELLED", "CORE_CANCELLED")
          /\ Leave(r, "api") /\ UNCHANGED <<binding, worker>>
       \/ \* one more abort of a worker that a FAIL or TIMEOUT may have left alive
          /\ status[r] \in {"FAIL", "TIMEOUT"} /\ Bound(r)
          /\ CancelConfirmed(r) \/ CancelFailed(r)
          /\ Leave(r, "api") /\ UNCHANGED <<status, reason>>
       \/ /\ Settled(r) /\ (status[r] \in {"FAIL", "TIMEOUT"} => ~Bound(r))
          /\ Leave(r, "api") /\ UNCHANGED <<status, reason, binding, worker>>
    /\ UNCHANGED <<saved, drift, timer, intent, age, crashes>>

\* FastGatewayWarRoomAdapter.stop / stop_core_run: the intent is registered
\* before the record is read; a run without a binding is not stopped.
StopRequest(r) ==
    /\ "stop" \in Cancellers /\ pc[r]["stop"] = "off"
    /\ status[r] # "none"
    /\ intent' = intent \cup {r}
    /\ IF status[r] = "RUNNING" THEN Go(r, "stop", "control") ELSE UNCHANGED pc
    /\ UNCHANGED <<durable, timer, closing, lock, out, worker, age, crashes>>

\* The session abort on the owner connection; a lost answer fails the stop.
ControlAbort(r) ==
    /\ pc[r]["stop"] = "control"
    /\ \/ /\ worker[r] = "active"
          /\ worker' = [worker EXCEPT ![r] = "aborted"]
          /\ Go(r, "stop", "markAborted") \/ Go(r, "stop", "off")
       \/ /\ worker[r] # "active" /\ Go(r, "stop", "reconcile") /\ UNCHANGED worker
       \/ Go(r, "stop", "off") /\ UNCHANGED worker
    /\ UNCHANGED <<durable, timer, intent, closing, lock, out, age, crashes>>

\* reconcile_external_completion, called when no run was active: it reads the
\* record, asks the worker outside the lock, and settles inside it.
ReconcileEnters(r) ==
    /\ pc[r]["stop"] = "reconcile"
    /\ Free
    /\ Go(r, "stop", IF Settled(r) THEN "off" ELSE "ask")
    /\ UNCHANGED <<durable, timer, intent, closing, lock, out, worker, age, crashes>>

ReconcileSettles(r) ==
    /\ pc[r]["stop"] = "heard"
    /\ Free
    /\ IF Settled(r) \/ out[r]["stop"].status = "RUNNING"
       THEN /\ Go(r, "stop", IF Settled(r) THEN "off" ELSE "mark")
            /\ UNCHANGED <<status, reason, timer>>
       ELSE /\ Transition(r, out[r]["stop"].status, out[r]["stop"].reason)
            /\ timer' = timer \ {r}
            /\ Go(r, "stop", "off")
    /\ Hear(r, "stop", NoOutcome)
    /\ UNCHANGED <<binding, saved, drift, intent, closing, lock, worker, age, crashes>>

MarkDropped(r) ==   \* mutant: the pending intent also drops the user's own mark
    /\ pc[r]["stop"] \in {"mark", "markAborted"} /\ Free
    /\ Go(r, "stop", "off")
    /\ UNCHANGED <<durable, timer, intent, closing, lock, out, worker, age, crashes>>

\* mark_user_cancelled, or mark_user_cancelled_after_abort, which also rewrites
\* the FAIL an abort race has recorded meanwhile.
MarkCancelled(r) ==
    /\ pc[r]["stop"] \in {"mark", "markAborted"}
    /\ Free
    /\ LET raced == /\ pc[r]["stop"] = "markAborted"
                    /\ status[r] = "FAIL" /\ reason[r] = "OPENCLAW_ERROR"
       IN IF raced \/ ~Settled(r)
          THEN /\ status' = [status EXCEPT ![r] = "CANCELLED"]
               /\ reason' = [reason EXCEPT ![r] = "USER_CANCEL"]
               /\ timer' = timer \ {r}
          ELSE UNCHANGED <<status, reason, timer>>
    /\ Go(r, "stop", "off")
    /\ UNCHANGED <<binding, saved, drift, intent, closing, lock, out, worker, age, crashes>>

(*************************** worker, clock, restart ************************)

WorkerEnds(r) ==
    /\ worker[r] = "active"
    /\ \E e \in Ends : worker' = [worker EXCEPT ![r] = e]
    /\ UNCHANGED <<durable, volatile, age, crashes>>

Tick(r) ==
    /\ status[r] = "RUNNING"
    /\ \/ age[r] = "inBudget" /\ age' = [age EXCEPT ![r] = "reserve"]
       \/ age[r] = "reserve"  /\ age' = [age EXCEPT ![r] = "overMax"]
    /\ UNCHANGED <<durable, volatile, worker, crashes>>

\* The process dies between any two steps and comes back: threads, timers, lock
\* and cancel intents are gone; get_persistent_harness restarts an observer for
\* every RUNNING record that has a binding.
Restart ==
    /\ crashes < MaxCrashes
    /\ crashes' = crashes + 1
    /\ timer' = {} /\ intent' = {} /\ closing' = {}
    /\ lock' = NoThread
    /\ pc' = [r \in Runs |-> [t \in Threads |->
                IF t = "obs" /\ status[r] = "RUNNING" /\ binding[r] # "none"
                THEN "top" ELSE "off"]]
    /\ out' = [r \in Runs |-> [t \in Threads |-> NoOutcome]]
    /\ UNCHANGED <<durable, worker, age>>

(******************************* specification *****************************)

Dispatching(r) == \/ DispatchBegin(r) \/ DispatchDenied(r) \/ DispatchSubmit(r)
                  \/ DispatchBind(r) \/ DispatchStart(r) \/ StartObserver(r)
Observing(r)   == ObserveTop(r) \/ ApiWait(r) \/ JudgeWait(r) \/ ApplyWait(r)
Deadline(r)    == TimerDue(r) \/ EnforceDeadline(r)
Asking(r, t)   == Ask(r, t) \/ AskEnded(r, t) \/ Probe(r, t) \/ Store(r, t)
Settling(r, t) == \/ JudgeFinal(r, t) \/ CheckGoal(r, t) \/ CleanupTimeout(r, t)
                  \/ AbortWorker(r, t) \/ Conclude(r, t)
Cancelling(r)  == ApiCancel(r) \/ CancelEnters(r)
Stopping(r)    == \/ StopRequest(r) \/ ControlAbort(r) \/ ReconcileEnters(r)
                  \/ ReconcileSettles(r) \/ MarkCancelled(r)

Next == \/ \E r \in Runs : \/ Dispatching(r) \/ Observing(r) \/ Deadline(r)
                           \/ Cancelling(r) \/ Stopping(r)
                           \/ WorkerEnds(r) \/ Tick(r)
        \/ \E r \in Runs, t \in Threads : Asking(r, t) \/ Settling(r, t)
        \/ Restart

Spec == Init /\ [][Next]_vars

\* A started call goes on: RPCs are bounded by timeouts, and a thread waiting for
\* the engine lock gets it as the holders keep leaving (SF); the harness lock, which only
\* a recovery (RunRecovery) keeps for long, delays StartObserver.  The observer loop and
\* the clock run; an answered agent.wait is not lost for ever (SF on AskEnded).
\* Nothing obliges the worker, a user or a new dispatch.
Unlocked(r, t) == \/ Asking(r, t) \/ Settling(r, t)
                  \/ t = "disp" /\ (DispatchDenied(r) \/ DispatchSubmit(r)
                                      \/ DispatchBind(r) \/ DispatchStart(r)
                                      \/ StartObserver(r))
                  \/ t = "obs" /\ JudgeWait(r)
                  \/ t = "timer" /\ TimerDue(r)
                  \/ t = "stop" /\ ControlAbort(r)
Entering(r, t) == \/ t = "obs" /\ (ObserveTop(r) \/ ApplyWait(r) \/ CheckGoal(r, t))
                  \/ t = "timer" /\ EnforceDeadline(r)
                  \/ t = "api" /\ CancelEnters(r)
                  \/ t = "stop" /\ (ReconcileEnters(r) \/ ReconcileSettles(r)
                                      \/ MarkCancelled(r))
Fairness == /\ \A r \in Runs, t \in Threads : /\ WF_vars(Unlocked(r, t))
                                            /\ SF_vars(Entering(r, t))
            /\ \A r \in Runs : WF_vars(Tick(r)) /\ SF_vars(AskEnded(r, "obs"))
FairSpec == Spec /\ Fairness

(***************************** inductive invariant *************************)

\* What a status or an outcome claims about the worker; FAIL and RUNNING claim
\* nothing.  Once true of a worker it stays true.
Over(s, w) ==
    /\ s = "PASS" => w \in Contract!Delivers
    /\ s \in {"BLOCKED", "TIMEOUT", "CANCELLED"} => w \notin {"none", "active"}

\* Places where a thread is about to use the outcome it heard, and those where that
\* outcome is a terminal one.
Carrying == {"store", "heard", "apply", "goal", "cleanup", "conclude"}
Deciding == {"apply", "goal", "cleanup", "conclude"}

\* Both durable stores beside the registry are true of the worker.
StoresTrue(r) ==
    /\ binding[r] # "none" => worker[r] # "none"
    /\ Over(binding[r], worker[r])
    /\ Over(saved[r].status, worker[r])
    /\ saved[r].goal # "ok" => saved[r].status = "PASS"

\* An outcome in a thread's hands does not go stale between the answer and its use.
HandTrue(r, t) ==
    /\ pc[r][t] \in Carrying => Over(out[r][t].status, worker[r])
    /\ pc[r][t] \in Deciding => out[r][t].status \in Terminal
    /\ pc[r][t] = "abort" => out[r][t].status = "CANCELLED"
    /\ pc[r][t] \in {"probe", "store"} => worker[r] # "none"
    /\ out[r][t].goal # "ok" => out[r][t].status = "PASS"

\* A dispatch in progress has not started its run yet, and a stop under way found a
\* worker; once past the session abort it has seen that worker over.
PlacesTrue(r) ==
    /\ pc[r]["disp"] = "auth" => status[r] \notin {"none", "RUNNING"}
    /\ pc[r]["disp"] = "bind" => worker[r] # "none"
    /\ pc[r]["disp"] = "start" => binding[r] # "none"
    /\ pc[r]["stop"] # "off" => worker[r] # "none"
    /\ pc[r]["stop"] \notin {"off", "control"} => worker[r] # "active"

\* The registry is true of the worker; the reasons that excuse a verdict from it are
\* those of a run that never started.
Excused(r) == \/ status[r] = "CANCELLED" /\ reason[r] = "CORE_CANCELLED"
              \/ status[r] = "BLOCKED" /\ reason[r] = "AUTH"
RecordTrue(r) ==
    /\ status[r] = "none" => worker[r] = "none"
    /\ status[r] = "RUNNING" => binding[r] # "none"
    /\ Over(status[r], worker[r]) \/ Excused(r)

(******************************** properties *******************************)

\* A record that claims the worker is over tells the truth: only a FAIL, a cancel
\* or an authorization refusal of a run that never started may leave a worker
\* active.  This is what every cancel, timeout and finalization race of
\* CoreEngine.wait / cancel / _finalize_local_execution puts at risk.
NoOrphan ==
    \A r \in Runs : Settled(r) /\ worker[r] = "active" =>
        status[r] = "FAIL" \/ Excused(r)

\* PASS is recorded only for a worker that delivered a valid result: an aborted
\* or failed worker never passes, whichever thread settles it and however old
\* the outcome it holds is.
EarnedPass ==
    \A r \in Runs : status[r] = "PASS" => worker[r] \in Contract!Delivers

\* The engine implements the contract: every step of every thread is an admission,
\* a start, one honest settlement, or the reconciliation of an abort race.
ContractSpec == Contract!Spec

\* No RUNNING record is ever left without an observer: it has one, or its dispatch has
\* not yet got to starting it (the engine has released its lock, the harness waits for
\* its own).  So a terminal answer has someone to collect it, after a restart in that
\* window too (resume_observation).
Observed(r)       == status[r] = "RUNNING" => pc[r]["obs"] # "off" \/ pc[r]["disp"] = "observe"
RunningIsObserved == \A r \in Runs : Observed(r)

\* A result whose checkpoint drifts or is malformed is never passed by the engine
\* itself, also not from the saved outcome after a restart; only the user's own
\* stop, which reconciles a completion it raced with, bypasses the goal check.
GoalGate ==
    [][\A r \in Runs :
          status[r] # "PASS" /\ status'[r] = "PASS" /\ worker[r] \notin {"pass", "progress"}
             => pc[r]["stop"] = "heard"]_vars

\* A result whose checkpoint is good is not cancelled as a goal drift, although the same
\* result may be checked twice (observer and deadline finalize side by side) and a second
\* look at it counts as NO_PROGRESS: the first check goes on to record the PASS.  Only a
\* restart between that check and the record can make the replayed result a drift.
DriftIsEarned ==
    \A r \in Runs : reason[r] = "LOCAL_LLM_GOAL_DRIFT" => worker[r] = "drift" \/ crashes > 0

\* "Install an external cancellation-intent guard for terminal writes."
\* (core_engine.py:953): a thread that finds a cancel intent pending while it has a
\* terminal answer in hand does not go on to record that answer.
GuardConsulted ==
    [][\A r \in Runs, t \in {"obs", "timer"} :
          pc[r][t] = "heard" /\ r \in intent => pc'[r][t] # "conclude"]_vars

\* The strengthening under which the above are inductive.
RunTrue(r) == StoresTrue(r) /\ PlacesTrue(r) /\ RecordTrue(r) /\ Observed(r)
IndInv == /\ TypeOK
          /\ \A r \in Runs : RunTrue(r)
          /\ \A r \in Runs, t \in Threads : HandTrue(r, t)

\* Why the goal check is not bypassed: a PASS in a thread's hands, or in the store, is the
\* worker's own answer with the checkpoint it came with; a terminal binding never says PASS
\* without the saved outcome, and what reaches the end of the finalization has a good one.
StoreGoal(r) ==
    /\ saved[r] = NoOutcome \/ saved[r] \in Answers(worker[r])
    /\ binding[r] = "PASS" => saved[r].status = "PASS"
HandGoal(r, t) ==
    /\ pc[r][t] \in Carrying /\ out[r][t].status = "PASS" => out[r][t] \in Answers(worker[r])
    /\ pc[r][t] = "store" /\ Validated(out[r][t]) => out[r][t] \in Answers(worker[r])
    /\ pc[r][t] = "cleanup" => out[r][t].status = "TIMEOUT"
    /\ pc[r][t] = "conclude" => out[r][t].goal \in {"ok", "progress"}
GoalInv == /\ \A r \in Runs : StoreGoal(r)
           /\ \A r \in Runs, t \in Threads : HandGoal(r, t)

\* A run that Core itself must bound ends, whatever the worker, the RPCs or a cancel
\* that failed half-way do, and although a restart loses the deadline timer.
UnmanagedEnds ==
    \A r \in Runs \ Managed : status[r] = "RUNNING" ~> Settled(r)

\* A watchdog-managed run whose worker is over is settled, unless a user cancel is
\* left pending: then the observer drops every outcome.
ManagedSettles ==
    \A r \in Managed : (status[r] = "RUNNING" /\ worker[r] \notin {"none", "active"})
                          ~> (Settled(r) \/ r \in intent)

\* A stop that OpenClaw confirmed settles the run whatever the observer does with
\* the abort it races with, unless a restart interrupts it.
ConfirmedStopSettles ==
    \A r \in Runs, n \in 0..MaxCrashes :
        (pc[r]["stop"] = "markAborted" /\ crashes = n) ~> (Settled(r) \/ crashes > n)

================================================================================
