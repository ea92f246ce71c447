# A TLA+ model of the PlaChem AI execution stack

The repository is a control plane for AI agents.  A *War Room* (HTTP API over
SQLite) holds tasks, approvals, messages and documents; a *Fast Gateway* turns
an approved task into bounded *Core runs*, each executed by one OpenClaw worker
in another process; watchdogs and a recovery layer look after runs that get
stuck.  This directory states what the parts that move state promise, checks it
with TLC on small instances and, where the provers reach, proves it with TLAPS for
every value of the constants.

    tlc -workers 2 -config MCCoreSafety.cfg MCCoreEngine
    for m in CoreEngine Workflow Delivery Recovery Services Jev Stage Algorithm
    do tlapm ${m}Proofs.tla; done

## 1. Inventory

### 1.1 Execution

**Core engine and run registry** (`plachem_fast_gateway/core_engine.py`).
State: the append-only JSONL registry whose last line per run is the record
(status, reason, request hash, binding, policy state), one `RLock`, one
observation lock per run, the set of armed deadline timers, the guard installed
by the harness.  Operations: `dispatch`, `wait`, `cancel`,
`reconcile_external_completion`, `mark_user_cancelled`(`_after_abort`),
`observe_progress_checkpoint`, `record_runtime_event`, the deadline timer.
Hard: `wait` calls the adapter outside the lock and settles inside it, the
finalization settles without either reading again, the timer finalizes *inside*
the lock, every call may be cut by a crash.  Correct when: a record is settled
once, its verdict is true of the worker, a run Core must bound ends.

**OpenClaw adapter** (`openclaw_adapter.py`, `validation_state.py`).  State: the
binding store (Core run -> OpenClaw run, status) and the saved validation
outcome, both SQLite, neither protected by the engine lock.  Operations:
`submit`, `wait`, `cancel`.  Hard: an RPC that fails after it was accepted; a
status written from an old read; a terminal binding replayed after a restart.

**Persistent harness and API** (`fast_gateway_service.py`,
`fast_gateway_api.py`).  State: one controller and observer thread per active
run, cancel intents, the terminal-completion subscriber; all of it volatile.
Operations: dispatch, the observer loop, cancel, `resume_observation` after a
restart, notification and release.  Hard: the record is RUNNING before the
observer is started, under another lock.  Correct when: a RUNNING record has an
observer or the dispatch that is about to start one; a cancel intent is
honoured; a completion is notified.

**Stop and delivery bridge** (`war_room_fast_gateway.py`,
`war_room_execution.py`).  A stop installs the intent, aborts the OpenClaw
session on a control connection, and settles the run according to the answer.
Hard: the worker may just have finished; the observer may record the abort first
as an error.

**Recovery layer** (`recovery_layer.py`, with the hooks of
`fast_gateway_service.py` and `jev_session_watchdog.py`).  State: none of its own;
it reads the registry (the `policy_state.goal` of a child says whose recovery it
is) and runs inside the threads of the harness.  Operations: `evaluate_recovery`
and `attempt_recovery` for a failed direct run, `restart_watchdog_run` for a run
that JEV has cancelled, the accounting of both.  Hard: it is called under the
harness lock and waits for its child; what it counts is written after the child
was dispatched; every poll of a failed run is another trigger.  Correct when: a
run has at most one recovery execution, on the ground its lane demands, and no
call waits for ever.

**Authorization broker and authorizers** (`auth_broker.py`,
`war_room_authorization.py`, `direct_gateway_authorization.py`).  State: grants
(SQLite, with a hash-chained audit), approvals, stop state and call counters (the
War Room's database), pending direct registrations (memory).  Operations: issue,
register, authorize, verify and consume, revoke.  Hard: three stores and no common
transaction, within one dispatch; time passes between them.  Correct when: a grant
serves one run once, no worker runs uncounted, and an approval in force at the
consumption is behind each.

**Runtime policy and loop detector** (`runtime_policy.py`, `loop_detector.py`).
State: counters per run in the record (policy) or in memory (detector).
Operations: one event, one piece of output.  Correct when: counters kept event by
event agree with the whole stream, over restarts and over what is not counted.

### 1.2 War Room

**Workflow orchestration** (`war_room_orchestration.py`,
`war_room_execution_units.py`, `war_room_execution_readiness.py`).  State: the
unit rows (`core_run_id`, `dispatch_claimed_at`, stored dispatch input), the
parent projection of the task, and the contracts this process remembers.
Operations: `dispatch_execution`, the continuation `on_core_run_terminal`,
`workflow_summary`, parent finalization.  Interacts with the engine through
`dispatch` and the terminal subscriber, under one orchestrator lock.  Hard: a
crash between the claim, the engine call and the persisted id; runs that settle
while a summary is read; a subscriber that exists only after the first War Room
request.  Correct when: a unit has one worker, starts only after its
dependencies passed, and the parent's verdict is the one its runs bear out.

**Workflow compiler** (`war_room_execution_compiler.py`): a list of agents and a
workflow become execution units with dependencies.  No state outlives a call.
Correct when: what is compiled can be run, and only cycles are called cycles.

**Tasks, approvals and QA** (`war_room_actions.py`, `war_room_task_contract.py`,
`war_room_stage_recovery.py`, `war_room_session_integrity.py`).  State: tasks
with a status, a revision and a QA cycle; approvals; messages; stop cycles.
Hard: everything bound to an old revision must lose its force; a stop, a
verdict and a late answer meet on one task.

**Delivery worker** (`war_room_worker.py`, `war_room_adapter.py`,
`war_room_runtime.py`).  A background thread claims queued deliveries under a 30
second lease, sends them, retries, polls the received ones, and moves the task.
Hard: rows read at the start of a tick and used much later; blocking adapter
calls between a read and an update; few commits, so that an abandoned tick undoes
settled rows while the runs it started go on; requests in between.  Correct when:
an agent has one delivery under way, only answers of the task's present revision
move it, a stop that is confirmed is one, nothing is left that nobody drives.

**Stage recoveries** (`revalidate_task_result`, `resume_task_qa`,
`recover_qa_rework`, `supersede_task` of `war_room_actions.py`,
`war_room_stage_recovery.py`).  State: evidence, issues and verdicts by revision
and QA cycle, the revalidation history, fresh-context tokens.  Hard: they reopen a
stage without running it again, and carry evidence from one cycle to another; they
come in any order, with late answers and retries.  Correct when: a PASS stands on
evidence of its own revision and cycle, what was accepted is not run again, and a
token is good for the state it was issued for.

**Gateway bridge** (`war_room_adapter.py`, `war_room_gateway_bridge.mjs`).  State:
one Node process, its pipes, a request counter, the runs it knows.  Operations:
`deliver`, `poll`, `stop`, one line each way.  Hard: both sides have timeouts, and
a late answer stays in the pipe.  Correct when: a receipt is true of the run.

**Project documents** (`war_room_documents.py`, `war_room_seed_documents.py`).
State: documents, append-only versions, the current version.  Operations:
registration with `expected_version` by the HTTP route and by the delivery worker,
the import script.  Hard: two writers with the same expectation, a file that is
edited meanwhile, a lookup before the lock.  Correct when: what a registration was
told stays true and replaces exactly what its author had read.

**Agent catalogue and command center**: static data and read-only projections.

### 1.3 Supervision and I/O

**JEV recovery watchdogs** (`jev_recovery_live.py`,
`jev_agent_recovery_watchdog_v01.py`, `jev_agent_watchdog_supervisor.py`).  State:
an append-only history, a handoff file, in-flight sets and confirmations in memory.
Operations: look at a session, ask the judge, nudge it, or hand it over, abort it
and continue it elsewhere.  Hard: the judge answers late; nudge and recovery run in
threads of their own; the process may die between abort and continuation.  Correct
when: one recovery turn, after a handoff and a confirmed abort, on two equal
decisions.

**JEV router and verifier** (`jev_task_router.py`, `jev_result_verifier.py`).
State: advisories, decisions, idempotency rows.  Hard: task and catalogue change
while a judge is asked twice, and between the check of an ACCEPT and its record.

**JEV shadow drills** (`jev_recovery_shadow.py`, `jev_recovery_shadow_probe.py`):
nothing they compute is acted on.  **Dashboard, transports and
UI** (`app.py`, `static/`, `*_transport.py`): host telemetry, pages, process I/O.

### 1.4 How they interact

    War Room API --dispatch--> Orchestrator --dispatch--> Harness --> CoreEngine --> Adapter ==RPC==> worker
         |                        ^    ^                    |            ^   ^
         |                        |    +--- on terminal ----+            |   +-- deadline timer
         +-- stop ----------------|----> FastGatewayWarRoomAdapter ------+
         +-- deliveries --> Delivery worker --deliver/poll/stop--> the same bridge
         |                                  \--direct lane--> Gateway bridge ==pipe==> Node ==> Gateway
         +-- documents, stage recoveries, compiler, JEV advisories (own tables)

    CoreEngine.dispatch --> authorizers, broker       observer, polls --> Recovery layer --dispatch/wait--> Harness
    worker events ------> policy engine, loop detector     JEV judgment --> restart_watchdog_run --^
    JEV watchdogs ==session RPC==> agent sessions

## 2. Modules

| module | models | composes |
|---|---|---|
| `RunContract` | what is promised about one Core run | - |
| `CoreEngine` | engine, adapter, observer, timer, cancel, stop, restart | implements `RunContract` (`Contract`) |
| `CoreEngineProofs`, `WorkflowProofs`, `DeliveryProofs`, `RecoveryProofs` | theorems about `CoreEngine`, `WorkflowOrchestration`, `DeliveryWorker`, `RunRecovery` | extend them |
| `ServicesProofs`, `JevProofs`, `StageProofs`, `AlgorithmProofs` | theorems about the parts of `MCServices` named in section 4 | extend it |
| `WorkflowContract` | what is promised about one compiled workflow | - |
| `WorkflowOrchestration` | orchestrator, unit store, readiness, harness notifications | implements `WorkflowContract`; the engine as seen from it |
| `TaskContract` | what is promised about tasks and their revisions | - |
| `DeliveryWorker` | runtime thread, both delivery lanes, the API requests that move a task, an approval or a delivery (the exceptions are in section 5) | implements `TaskContract`; the engine as seen from it |
| `RunRecovery` | harness, observers, recovery layer, JEV restarts and their three kinds of locks | the engine as seen from the harness |
| `AuthBroker` | admission of a dispatch: broker, authorizers, approval, counter | - |
| `StageRecovery` | revalidation, QA resume and recovery, evidence, tokens, superseding | the delivery loop, reduced |
| `ProjectDocuments` | registration, import, archive | - |
| `GatewayBridge` | the bridge's line protocol and its timeouts | - |
| `JevRecovery`, `JevHandoff` | live watchdog of one session; v0.1 controller of one work root | - |
| `JevAdvisory` | router and verifier advisories and decisions | - |
| `RuntimeWatch` | policy engine and loop detector against the whole stream | - |
| `WorkflowCompiler` | the compiler, its depth-first search step by step | - |
| `MCCoreEngine`, `MCWorkflow`, `MCDelivery`, `MCRecovery` | instances for TLC | extend them |
| `MCServices` | instances for TLC of the nine components from `AuthBroker` down; a behaviour belongs to one `part` and leaves the others alone, since they share no state | INSTANCE of each |

Definitions marked `\* mutant:` are not part of any specification.  Each is a
plausible bug of the definition it stands beside (a dropped guard, a lost reset)
and breaks one property when it is put in its place: evidence that the property
depends on the code.

### 2.1 CoreEngine

A *thread* is one caller in the middle of one call: the dispatcher `disp`, the
observer `obs` (the owner of the run's observation lock), the deadline `timer`,
the API cancel `api` and the War Room `stop`.  `pc[r][t]` is where it is,
`out[r][t]` the adapter outcome in its hand, `lock` the holder of the engine
lock.  An action is the code between two points where another thread can
interleave: an RPC, a write to another store, or taking the lock.

| variable | code |
|---|---|
| `status`, `reason` | latest registry line of the run |
| `binding` | status column of the binding store |
| `saved` | outcome in the validation store |
| `drift` | `policy_state.goal`: 0 nothing checked, 1 a valid checkpoint is on record (seen again it is no progress), 2 and 3 the drifts counted after that |
| `age` | elapsed time compared with the execution budget and with `max_runtime_seconds` |
| `timer`, `intent`, `closing` | armed deadline timers; `_cancel_intents`; the observer is inside `_finalize_local_execution` |
| `worker` | external: what the OpenClaw run is doing or did |
| `crashes` | bound on restarts |

| actions | code |
|---|---|
| `DispatchBegin`, `DispatchDenied`, `DispatchSubmit`, `DispatchBind`, `DispatchStart` | `CoreEngine._dispatch` and `OpenClawAdapter.submit`, up to the RUNNING record |
| `StartObserver` | the rest of the harness's `dispatch`, once it has the harness lock: the registered run is watched from here on |
| `ObserveTop`, `JudgeWait`, `ApplyWait`, `ApiWait` | the observer loop around `CoreEngine.wait` |
| `Ask`, `AskEnded`, `Probe`, `Store` | `OpenClawAdapter.wait`, whoever calls it |
| `TimerDue`, `EnforceDeadline` | the deadline timer; it waits for the engine lock and keeps it |
| `JudgeFinal`, `CheckGoal`, `CleanupTimeout`, `AbortWorker`, `Conclude` | `_finalize_local_execution`, `_apply_adapter_outcome`, `_cancel_for_policy` |
| `ApiCancel`, `CancelEnters` | harness `cancel`, `CoreEngine.cancel` |
| `StopRequest`, `ControlAbort`, `ReconcileEnters`, `ReconcileSettles`, `MarkCancelled` | `stop_core_run` and the engine entry points it uses |
| `WorkerEnds`, `Tick`, `Restart` | the worker, the clock, the process |

### 2.2 WorkflowOrchestration

`job` is what the holder of the orchestrator lock is doing (one request or one
continuation), so the steps of `dispatch_execution` - revalidate, persist the
input, claim, create the run, submit, start, persist the id - are separate
actions that a settling run, another observer or a restart can fall between.
`mapped`, `claimed`, `stored`, `parent` are the rows; `run`, `sent`, `workers`
are the registry as the orchestrator sees it (`sent` is the input its request
hash covers, `workers` counts OpenClaw submissions); `watching`, `subscribed`,
`known` are the process memory a restart loses.  `Ready`, `Waiting` and
`Summary` are the readiness evaluator and `workflow_summary`, which look at
direct dependencies only.

### 2.3 DeliveryWorker

One runtime thread, one project, any number of tasks and agents.  A delivery is
its key: task, agent, revision, which is UNIQUE in `war_deliveries`.  `job` is
where the thread is in its tick: the rows it read (`todo`, those it read as
overdue in `late`), the row in hand, the receipt it got, and whether it holds
SQLite's write lock because something is not committed (`lock`, with the tables as
they were in `base`, which an abandoned tick brings back).

| variable | code |
|---|---|
| `status`, `rev`, `cycle` | `war_tasks` |
| `recovered` | task, revision and saved run of each accepted `war_result_revalidation_history` row and each recovered QA verdict |
| `appr`, `verdicts`, `issues` | approvals in force, `war_qa_verdicts`, open `war_processing_issues` |
| `row` | `war_deliveries`: status, whether a run id is stored, `retry_count`, overdue, what the answer says |
| `bound` | which revision's run `war_execution_runs` shows last for a task and an agent |
| `control`, `touched` | `war_project_control.stop_state`, rows of the stop cycle |
| `run`, `asked` | external: the agent's run for a delivery, and what it was asked to do |

| actions | code |
|---|---|
| `Tick`, `Revoked`, `Expire`, `Skip`, `Claim` | `process_due_deliveries` up to the claim's commit |
| `SendFast`, `SendDirect` | choice of the lane and `deliver` of either adapter, with `WarRoomGrantAuthorizer` as guard |
| `Settle` | receipt, retry, terminal failure, snapshot |
| `TurnToPoll`, `Poll`, `PollFails`, `SettlePoll`, `TickDone` | `recover_received_deliveries`; stop at the deadline; automatic QA, collaboration outcome |
| `TickAborts` | rollback after an exception, a locked database or a restart |
| `Approve`, `Reject`, `RunTask`, `ApproveExecute`, `Deliver`, `Retry` | approval and execution requests |
| `EnterQA`, `SendBack`, `Renew`, `Halt` | `transition_task` |
| `QaVerdict`, `Complete`, `RejectCompletion`, `ResumeQa` | QA and the representative's decision |
| `Revalidate`, `RecoverQa` | `revalidate_task_result` and `recover_qa_rework`: QA is opened for a saved run, from `rework_required` too, whatever the deliveries of this revision say |
| `StopTask`, `StopProject`, `StopAck`, `Resume`, `LoseApproval` | stops and what undoes them |
| `RunEnds`, `CancelRun`, `DeadlinePasses` | the agent, Core's own cancel API, the clock |

`TerminalFailure`, `AfterResponded`, `Collaboration`, `ReviewVerdict` and
`QueueReview` are the functions that turn a settled row into a move of the task.
The `TaskContract` is stated over what is committed (`Seen`).

### 2.4 RunRecovery

A thread is a list of calls still to make (`calls[t]`): a call that makes others puts
them in its place, so the nesting *observer - `_record` - recovery hook - dispatch -
`_record` of the child - recovery hook of the child* is the code's own.  Threads are
the observer of each run, `api` and `jev`; `hand[t]` is the record the call before
returned, read then and used later.

| variable | code |
|---|---|
| `status`, `account`, `managed`, `escalated`, `order` | the registry: status, `policy_state.goal` (whose child), `watchdog_managed`, `WATCHDOG_REQUEUE_REQUIRED`, order of creation for `recent(200)` |
| `confirming` | runs whose last JEV history entry asks for a confirmation |
| `harness`, `engine`, `observing` | owners of the harness lock (reentrant), `CoreEngine._lock`, the observation lock of each run |
| `started`, `intents`, `restored`, `jobs` | controllers with an observer, cancel intents, `_restored_runs`, `_watchdog_jobs` |
| `mode` | watchdog recovery by requeue or by automatic restart |
| `origin`, `stillborn`, `lost` | history variables of the properties; no guard of the code reads them |

| actions (`Step`) | code |
|---|---|
| `Dispatch`, `RecordCall`, `Note` | harness `dispatch`, `_record_active`, the observer after `_record` |
| `Enter`, `Guard`, `Apply`, `Final`, `Merge`, `Leave` | `CoreEngine.wait` from lock to lock, the terminal guard asked twice, the goal checkpoint's read-modify-write |
| `Recover`, `AccountCall` | `attempt_recovery`, its accounting and its bounded wait |
| `Abort` | `CoreEngine.cancel` |
| `Judge`, `Restart`, `WatchdogAccount` | `watchdog_recovery`, `recover_watchdog_cancelled` |
| `ApiDirect`, `Await`, `ApiWait`, `ApiCancel`, `Assess`, `Crash` | the HTTP API, the judgment pool, the process |

### 2.5 AuthBroker

`phase`, `who`, `token` are the dispatch under the engine lock, between its stores;
`checked` and `presented` the clocks that the war authorizer and `verify_and_consume`
have read, each before the step that uses it (the broker reads a third when it issues);
`grant`, `pending`, `approved`, `stopped`, `leased`, `calls` are those stores; `now`
counts half seconds, because deadlines are stored in seconds and grants in
milliseconds.  A war dispatch keeps SQLite's write lock of the War Room from
`AuthorizeWar` to `Count`, which is what holds back `RevokeApproval`, `StopOrResume` and `LoseLease`.

| actions | code |
|---|---|
| `Dispatch`, `AuthorizeWar`, `AuthorizeDirect`, `IssueGrant`, `Present`, `Consume`, `Count`, `Submit` | `CoreEngine._dispatch` through `WarRoomGrantAuthorizer`, `DirectGatewayAuthorizer` and the broker's `issue` and `verify_and_consume` |
| `Register`, `IssueBearer` | a direct registration, a grant issued ahead to a bearer |
| `RevokeGrant`, `RevokeApproval`, `StopOrResume`, `LoseLease`, `Tick`, `Crash` | what happens meanwhile |

### 2.6 ProjectDocuments and GatewayBridge

`ProjectDocuments`: `file` is the file system, `history` and `current` the tables,
`saved` their committed state, `seen` what a client read, `answer` what its
registration returned, `seed`, `found`, `importing` the import script between its
lookup, its first INSERT and its commit.  `Look`, `Register` (the route), `Capture`
(the delivery worker), `SeedLook`, `SeedWrite`, `SeedCommit`, `Archive`, `Edit`.

`GatewayBridge`: `op` is the adapter call that holds the bridge lock, `stdin`, `pipe`
and `buffer` the lines under way, `node` what Node waits for, `flight` what the Gateway
has not executed; `run` is external.  `Deliver`, `Poll`, `Stop` send; `Read` and
`ReadTimeout` end a request; `NodeTakes`, `NodeTimeout`, `GatewayExecutes`, `RunEnds` are the other side.

### 2.7 StageRecovery

One task after its stage has failed.  `work`, `run`, `failures`, `review` reduce the
delivery loop to what these requests read; `evidence`, `issues`, `verdicts`,
`history` are the tables that carry a result from one revision or cycle to another;
`profiled` says whether the evidence is the task contract's receipt; `token` and
`moved` are a fresh-context token and whether the task has changed since (a
revalidation during QA writes `updated_at` only, which has whole seconds, and is no
change a token could see); `other`,
`superseding`, `superseded` the replacement task.

| actions | code |
|---|---|
| `WorkStarts`, `WorkRefused`, `WorkFails`, `WorkAnswers`, `Retry` | the workers' deliveries, with the evidence an answer captures |
| `ReviewAnswers`, `ReviewFails` | automatic QA |
| `Revalidate`, `ResumeQa`, `RecoverRework` | the three recoveries, with copied evidence and the review they queue |
| `ApproveExecute`, `Renew`, `Complete`, `ApprovalLapses`, `FileChanges`, `MutationContext` | the requests and changes around them |
| `SupersedeLook`, `SupersedeWrite`, `OtherJudged` | `supersede_task`, which holds no lock between check and write |

### 2.8 JEV

`JevRecovery` is one session under the live watchdog: `looking` the snapshot being
judged, `confirms`, `nudging`, `held`, `recovery` the memory, `nudge` and `handoff` what
the history and the disk keep, and `window` which of the session's rows are among the last
2000 of that history, which all sessions append to: the guards read no further, and
`Scroll` leaves rows behind (`lost` counts how often).  `Look`, `Skip`, `Observe`, `Nudge`,
`NudgeEnds`, `Salvage`, then the recovery thread `Precheck`, `PhaseA`, `PhaseB`,
`AbortSource`, `PhaseC`, `Complete`, with `Work`, `Wait` and `Crash` at any moment.
`JevHandoff` is the v0.1 controller, with or without a handoff `writer`, with a direct
port or a session factory: `Observe`, `Decide`, `WriteHandoff`, `CreateTarget`, `AwaitAck`,
`Cleanup`, `End`, `Crash`; `targets` counts the target sessions of a snapshot.  `JevAdvisory` has the router's two questions (`Ask`, `ChooseDomain`,
`ChooseAgent`), a decision between its reads (`Decide`, `Check`, `Flag`, `Record`) and
the verifier (`Verify`, `Verdict`), while `Change` moves the task or the catalogue.

### 2.9 RuntimeWatch and WorkflowCompiler

`RuntimeWatch` keeps the code's `counters` and `tail` beside the whole stream (`log`,
and the `tail` stored with each report), so that its property is a reference definition over
sequences; `ObserveEvent`, `ObserveOutput`, `Pass` (time), `Crash`.
`WorkflowCompiler` takes one arbitrary request and runs the compiler: `Number`, `Resolve`,
`Enter`, `Descend`, `Leave`, `Finish`, the recursion of `_visit` kept in `stack`;
the reference is acyclicity by sets.

## 3. Properties and runs

| run | shows |
|---|---|
| `core_safety` | with a Core deadline, every worker ending, goal checkpoints, the War Room stop and a restart: every step is a step of `RunContract` (`ContractSpec`); a drifting or malformed result is never passed behind the goal check, also not from the saved outcome (`GoalGate`), and only a restart can make a good result count as a goal drift (`DriftIsEarned`); no record claims a live worker is over (`NoOrphan`), PASS is earned (`EarnedPass`) |
| `core_managed` | a watchdog-managed run and the War Room stop: it has an observer, or the dispatch that is still to start it, and a waiter, a stop or a restart in that window leaves it so (`RunningIsObserved`); it is settled once its worker is over unless a cancel intent is left (`ManagedSettles`), and a confirmed stop settles it (`ConfirmedStopSettles`) |
| `core_live_deadline` | `UnmanagedEnds`: a run Core must bound ends although the timer is lost in a restart, a drift disarms it or an API cancel fails half-way |
| `workflow_safety` | `OneWorker`, `AckTrue` (an acknowledged request is backed by a run with that input), `ParentAgrees`, `ContractSpec`, across failing dispatches, released observers and a restart |
| `workflow_live` | `ParentSettles`: the parent of an exhausted workflow is finalized; `FlowCompletes`: a started plan whose runs pass completes on notifications alone |
| `delivery_qa` | a task of two agents from approval to completion with revoked admissions, held stages, verdicts, revalidated results, halts and an abandoned tick: a task in QA has its team's answers or stands on a saved run that a stage recovery opened QA of this revision for (`QaMeansAnswered`); `RunningIsDriven` |
| `delivery_rework` | two revisions and two QA cycles, with stops, resumed QA, revalidated results and recovered QA verdicts: a completed task has the PASS of its present revision and cycle, on answers or on the run its QA was opened again for (`CompletedIsSigned`); `ExecutedOnce`, `RuntimeMovesCurrent` (a step of the runtime thread moves a task only for a delivery of its present revision: a late or stale answer moves nothing), `TasksKeepContract` (every committed step is a step of `TaskContract`) |
| `delivery_shared` | two tasks that share an agent, with approvals, plain deliveries, executions, retries, reclaims and Core's own cancel: `OneActivePerAgent` |
| `delivery_live` | every stop, acknowledgement, resume and revocation, manual verdicts, an abandoned tick, lost answers and deadlines: `StoppedIsQuiet`, `DeliveriesMove`, `TasksMoveOn` |
| `recovery` | a direct run and two possible children under polls, cancels, JEV restarts, drifted checkpoints and one process restart: `RecoveryBounded` (one recovery execution per run, no chain but the stillborn), `ChildHasGround` (the source failed, or is cancelled and managed), `ManagedNoCircle` (managed runs close no circle of lock waits), `RestartObserves` (a restart takes up observation of every live run, and only that) |
| `services` | `Admission`: every worker runs on a grant consumed for it while approval (unrevoked), project and lease allow it, within the whole seconds left at the check and counted from the grant's issue, and is counted itself; `DocumentHistory`: what a registration was told stays true and no version covers up another; `ReceiptsTrue`: late answers never make a receipt false; `LiveRecovery`: as long as the history shows the rows of a recovery or a nudge there is no second one, and one more for each time they were left behind; a turn comes after the handoff and a confirmed abort, on two equal decisions; a work root with a handoff writer gets one target, without one each snapshot gets one per process, and a source is cleaned up only after the acknowledgement; `Advised`: an ACCEPT is for its revision and one of its candidates, once per key; `WatchAgrees`: a run is stopped exactly when its stream calls for it, reported loops are loops; `CompilesDags`; `StageKept`: a PASS stands on evidence of its own revision and cycle, what was revalidated is not run again, a token is good for one state |
| `recovery_deadlock` | violation of `RecoveryNoCircle`, see 3.1 |

### 3.1 Where code and comments disagree

One disagreement is a run of the project, `recovery_deadlock`:

* `RecoveryNoCircle` (`fast_gateway_service.py:151`), a bug.  The recovery of an
  unmanaged direct run is called under the harness lock and waits for its child in
  `core_engine.wait`, which needs the child's observation lock.  The child's observer
  holds that lock while it asks the cancel guard, which needs the harness lock.
  Neither moves again, and every later API call waits for the harness, against
  "bounded one-shot recovery" (`fast_gateway_service.py:116-117`) and "Network waits
  serialize only the same run, never unrelated workers" (`core_engine.py:1281`).

The others are properties beside the runs; the configuration in brackets makes
TLC show each of them violated (`MCServicesGaps` names one; the others that
refer to it take its place, with the part it says).  In the core, the workflow and the delivery worker:

* `ExhaustedIsBlocked` [`MCWorkflowUnreachable`] (`war_room_execution_readiness.py:157`).  The comment at
  `war_room_orchestration.py:286-288` says that a dependency made unreachable by
  a BLOCKED one leaves the parent BLOCKED; readiness looks one dependency far, so
  the third unit of a chain stays WAITING and the parent RUNNING.
* `TasksMoveOn` [`MCDeliveryWedge`] (`war_room_worker.py:1131`), a bug.  A reviewer's delivery of a
  Fast Gateway task that has left QA is polled in the wrong lane, and the snapshot
  of a Core run that never was raises outside any `try`.  The tick ends before its
  commit, at every tick: later received deliveries are not settled any more, and
  "pending work retained for observation retry" (`war_room_runtime.py:95`) retries
  for ever.
* `StopConfirmed` [`MCDeliverySecondStop`] (`war_room_actions.py:3271`).  A second project stop finds nothing
  active, `all()` over nothing is true, and the run whose stop had failed goes on
  in a project that counts as stopped.

* `GuardConsulted` [`MCCoreGuard`] (`core_engine.py:1445`).  The guard is described as "an
  external cancellation-intent guard for terminal writes" (line 953).  The
  finalization at the execution budget does not ask it, so an answer that arrives
  while a user cancel is pending is recorded.
* `RetryClearsRun` [`MCWorkflowRetry`] (`war_room_orchestration.py:479`).  "Allow retry by clearing
  core_run_id" (line 478) writes the id the row already has; readiness then
  answers `execution_already_terminal`, and the retry is refused.
* `QAReadOnly` [`MCDeliveryReviewLane`] (`war_room_worker.py:916`).  "QA is always read-only" (line 477), but
  the lane and the instruction are chosen after the claim, from the task's status
  then: a review whose task left QA is sent as the worker's job.
* `StoppedIsQuiet` with two revisions [`MCDeliveryExactStop`] (`war_room_fast_gateway.py:101`).  "Stop the
  exact execution" (`war_room_worker.py:1154`) looks up the last *recorded* run of
  the task and the agent; while a new run is not recorded yet, the old one is found
  ended, the stop is confirmed, and the new run goes on.  A manual retry does it with one
  executed revision: an unconfirmed stop fails the delivery, the retry queues it, and the next stop
  stores what is queued as stopped, while its first run still goes on.
* `RunningIsDriven` with two tasks [`MCDeliveryReclaim`] (`war_room_actions.py:1625`).  Executing one task
  reclaims overdue deliveries of another, whose task stays running with nothing
  that drives it, against `RESULT.md:20` of the warroom-flow-completion evidence.  A run
  that is cancelled through Core's own API does so with one task: the poll stores its
  delivery as stopped and tells the task nothing.
* `ClosedStays` [`MCDeliveryLateReview`] (`war_room_worker.py:213`).  A reviewer's late FAIL sends a completed
  task back to rework; no transition leaves `completed`.
* `SettledStays` [`MCDeliveryOverwrite`] (`war_room_worker.py:894`).  "Never replay terminal rows" (line
  859), but an overdue row is timed out by id, also if a stop has settled it.
* `DeliveriesMove` with a manual retry [`MCDeliveryRetry`] (`war_room_actions.py:1960`).  The retry keeps
  the run id; if the next claim is abandoned the row is neither due nor polled.

In the recovery layer:

* `OneLink` [`MCRecoveryChain`] (`fast_gateway_service.py:146-147`, "Never recover a
  recovery child (max 1, no chaining)").  `dispatch` records a child before it is
  accounted for; while the transport is down every child fails as it is dispatched and
  is recovered in its turn, inside one call.
* `WatchdogRestartsOwn` [`MCRecoveryUserStop`] (`recovery_layer.py:593`, "recover a
  watchdog-cancelled run").  `watchdog_recovery` finds the run CANCELLED, whoever has
  cancelled it, and restarts it: also a run its user has just stopped.
* `RecoveryOnce` with a window smaller than the runs there are [`MCRecoveryWindow`]
  (`recovery_layer.py:784`).  Attempts are counted in `recent(200)`; a failed run whose
  child has left the window is recovered again by the next poll.

In the recoveries of a stage:

* `RecoveredCanPass` [`MCServicesGaps`] (`war_room_task_contract.py:68-84`), against
  "Recover a false QA REWORK verdict by opening QA only" (`war_room_actions.py:3593`).
  The receipt names revision and cycle and is made of the responded deliveries of the
  present revision; the QA that a revalidation or a recovery opens for a task with a
  grounding profile has neither, so no PASS can be recorded.  The tests use tasks
  without a profile.
* `LatestRecovered`, `LatestRevalidated` [`MCServicesGaps`]
  (`war_room_stage_recovery.py:104`, `war_room_actions.py:956`).  Any old REWORK
  verdict is accepted, not the one that sent the task back; the candidate of a
  revalidation is the last failed run of whatever revision, also when a later one passed.
* `QueuedIsLive` [`MCServicesGaps`] (`war_room_actions.py:1189`).  `qa_delivery_queued` is
  true for a row of the reviewer that is already settled.
* `SupersededRests` [`MCServicesGaps`], `ReplacementPassed` [`MCServicesGaps`]
  (`war_room_actions.py:2262`).  The relation is written to the audit only: a superseded task can be
  renewed and run; and the replacement's PASS is read before the lock is taken.

In JEV, router and loop detector:

* `KilledIsResumed` [`MCServicesGaps`] (`jev_recovery_live.py:1294`).  A crash between the
  confirmed abort and phase C leaves rows that forbid a second attempt, and nothing
  resumes the first.
* `NoNudgeInRecovery` [`MCServicesGaps`] (`jev_recovery_live.py:1474`).  The nudge guard does
  not look at `_INFLIGHT`, and during the precheck the history has no row yet.
* `OneTurnEver` [`MCServicesGaps`] (`jev_recovery_live.py:342`), against "one
  recovery session, one turn" (line 1293), and `OneNudgeEver` [`MCServicesGaps`] (line 1504),
  against "process restart still preserves at-most-once behavior for this stalled state".  Both
  guards read the last 2000 rows of a history that every evaluation of every session appends
  to (407 for the nudge): once the rows are left behind, there is a second turn or nudge.
* `OneTargetEver` [`MCServicesGaps`] (`jev_agent_recovery_watchdog_v01.py:376`).  A controller
  without a handoff writer, the default, has only `_generated` between a SALVAGE and a
  target (lines 446-465); the concrete collector gives each snapshot a new id, which its digest covers,
  so the same stalled session gets a target at each SALVAGE.  The repository's tests run
  the controller that way, and look at one SALVAGE each.
* `AcceptIsFresh` [`MCServicesGaps`] (`jev_task_router.py:274`).  The check that refuses a
  stale ACCEPT and the flag stored with it are two reads.
* `LoopReportedOnce` [`MCWatchRotation`] (`loop_detector.py:91-92`, "suppress duplicate
  observations").  The unit is cut at the end of the output: the same loop cut elsewhere is a new one.

Read in the code, without a property:

* A claim whose dispatch raised stays (`war_room_orchestration.py:581-583`), and a
  workflow whose run ended before the subscriber was installed after a restart is not
  continued; the code's own comments accept both.
* A project stop that meets a claimed Fast delivery which is not dispatched yet raises
  `ValueError` (`war_room_actions.py:3264`); Core's cancel API leaves the War Room task
  running (`fast_gateway_api.py:262`).
* A crash between the dispatch of a recovery child and its accounting
  (`recovery_layer.py:471`, 709), or a goal checkpoint written back whole meanwhile
  (`core_engine.py:1147`), loses the accounting, and the source may be recovered again:
  `RecoveryBounded` excepts these children (`lost`).
* The bridge stays one answer behind for ever after a late answer, and nothing
  re-creates it: receipts stay true (`ReceiptsTrue`), but every later request fails.
* The import script looks for a document before it holds the lock: it and a first
  registration can create two documents for one file.
* In the v0.1 controller the targets `alternate` and `main` are never reached, the
  staleness check compares a snapshot with itself, and a refused acknowledgement leaves
  a file on which the next SALVAGE raises `FileExistsError`.
* An ACCEPT repeated after the task has changed is refused with 409 before its
  idempotency row is looked up.
* The lifetime of a war grant is what is left of the approval at one reading of the clock
  (`war_room_authorization.py:52`, 152), counted from a later one (`auth_broker.py:248`), and
  the consumption compares a third, taken before it waits for the broker's lock (line 276):
  a run may consume its grant after its approval's expiry, by what passed in between.
* A single-use grant presented again by the same run passes `_deny_reason` and ends in
  CONFLICT; after a crash a call may be counted twice, never less than once.

### 3.2 Bounds

* One run in the `CoreEngine` instances: runs share nothing but the engine lock,
  and every race of this code is between the threads of one run.  The proofs
  cover any set of runs.
* Three units in the workflow instances: the least with a dependency of a
  dependency (`Chain`), two dependants of one unit (`Fork`) and two dependencies
  of one unit (`Join`).  Two dispatch inputs: the planned and another.
* `MaxCrashes = 1`: a second restart finds nothing the first could not leave; the
  proofs have no bound.
* `drift` up to 3, where the policy cancels; `workers` up to 2, one more than is
  ever right, so that the count cannot hide a duplicate; `age` in three zones, the
  comparisons the code makes.
* `DeliveryWorker`: one task of one or two agents, two tasks where sharing is the
  question.  `MaxRev = 2` is the least with an old and a present revision, and the
  revision after the last executed one may be reached; `MaxCycle = 2` a resumed QA;
  `MaxTries = 2` one retry; `MaxFaults = 1` one abandoned tick or failed
  observation, since a tick that starts over finds nothing a second abandonment
  could add.  `delivery_shared` and `delivery_rework` have no fault: their
  questions are about requests in between, and `delivery_qa` has one.
* `Ops` names the API operations of an instance.  `delivery_rework` leaves out the
  manual verdict, because `ClosedStays` fails with it (3.1), and has the stops of task
  and project but not the resumption, after which only a third revision could be executed; `delivery_qa`
  leaves out Core's cancel, after which nothing drives the task, and the recovery of a
  QA verdict, which needs an earlier revision; `delivery_live`
  has one revision because of the stop by last recorded run, and no manual retry:
  a retried row of a run still going counts as stopped before its dispatch.
* `CHECK_DEADLOCK FALSE` in the delivery instances: a settled project with all its
  bounds used up has nothing left to do.
* `recovery`: one source and two child ids, the least in which a child can be
  recovered, or a source twice; `Window = 5` holds every run, and `MCRecoveryWindow` has
  the small one; `MaxDispatches = 2` is the code's; `MaxCrashes = 1`.  `FAIL` is the
  ending that triggers a recovery, the others change no lock.  A system out of ids
  may stop (`CHECK_DEADLOCK FALSE`); that its threads do not block each other is the
  safety property `NoCircle`.
* `services`, part by part: two war runs, or one and a bearer, or a direct run and a
  bearer, two grants, a clock of three half seconds around `Until = 1`, so that an approval may expire
  before the check, between any two readings, or never; two documents,
  files and clients, three versions; two deliveries and three requests, one more than
  leaves a late answer behind; two changes of a JEV session, one crash, and rows left behind
  once (`MaxLost`), the least with a second recovery; three sessions at one work root, one of
  them risky, with two snapshots each; one advisory with one change, the
  catalogue changing freely; four pieces of events and output, thresholds of
  two and three, a tail of four (of six in `MCWatchRotation`, so that two cuts of a loop
  fit); every graph of three agents with at most two dependencies each; one worker (the
  theorem has every team), two executed revisions, three QA cycles.  A token is not held
  while the replacement is judged: neither reads the other.
* Each instance chooses which endings (`Ends`), cancel paths (`Cancellers`), refusing
  callers (`Refusals`) and requests (`Ops`) occur, so that the temporal runs stay
  small; together the passing runs fire every action.

### 3.3 Fairness

Assumed of the code only what its scheduling gives.  A started call goes on (WF):
every RPC has a timeout.  A thread that waits for the engine lock gets it (SF):
holders keep leaving and Python's lock is handed over, but the lock is not free
continuously.  `StartObserver` waits for the harness lock, which only a recovery keeps
for long.  The observer asks again as long as the run is not settled, so an
answer an ended worker keeps giving is received in the end (SF on `AskEnded`).
The clock runs (WF `Tick`).  In the workflow the notifications of a settled run
are delivered if the observer is neither released nor dead (SF `Notify`) and a
RUNNING run settles (WF), which is `UnmanagedEnds` / `ManagedSettles`.  The runtime
thread goes on with its tick and starts the next one a second later (WF
`Observing`); an agent's run comes to an end (WF `RunEnds`, which the run timeout
and `UnmanagedEnds` / `ManagedSettles` give); only `MaxFaults` ticks are abandoned,
or nothing could be promised.  The deadline need not pass.  Nothing
is assumed of the worker, of users, of requests or of restarts.  `RunRecovery` and
the parts of `MCServices` state safety and action properties only, and no fairness: a judge, a user
or a Gateway need not answer, and the deadlock of the harness is a circle of
waits, which is a state.

## 4. Proofs

Each theorem is about the specification of its module, for every value of the
constants: any set of runs, units and dependency graph, tasks, agents, sources and
children, grants, documents, deliveries, states of a session, streams of events, lists of agents,
any number of restarts and every bound.

| module | theorem | states |
|---|---|---|
| `CoreEngineProofs` | `TypeCorrect`, `Invariance` | `Spec => []TypeOK`, `Spec => []IndInv` |
| | `NoOrphanCorrect`, `EarnedPassCorrect`, `ObservedCorrect` | `NoOrphan`, `EarnedPass`, `RunningIsObserved` |
| | `GoalGateCorrect` | `GoalGate`: no PASS of a direct run behind the goal check |
| | `ImplementsContract` | `Spec => ContractSpec`: every step is a step of `RunContract` or a stutter |
| `WorkflowProofs` | `TypeCorrect`, `Invariance` | types and the inductive invariant |
| | `OneWorkerCorrect`, `AckTrueCorrect`, `ParentAgreesCorrect` | `OneWorker`, `AckTrue`, `ParentAgrees` |
| | `ImplementsContract` | `Spec => ContractSpec`, the refinement of `WorkflowContract` |
| `DeliveryProofs` | `TypeCorrect`, `Invariance` | types and the inductive invariant |
| | `OneActiveCorrect`, `QaCorrect`, `CompletedCorrect` | `OneActivePerAgent`, `QaMeansAnswered`, `CompletedIsSigned` |
| | `ExecutedOnceCorrect`, `RuntimeMovesCurrentCorrect` | the action properties `ExecutedOnce`, `RuntimeMovesCurrent` |
| | `RunningIsDrivenCorrect` | `Undisturbed` implies `Spec => []RunningIsDriven` |
| | `StoppedIsQuietCorrect`, `FirstStopIsQuietCorrect` | `Spec /\ []StopFinds => []StoppedIsQuiet`; `Spec => []StoppedIsQuiet` with one executed revision and no manual retry |
| | `ContractCorrect` | `AutoQa` implies `Spec => TasksKeepContract`, the refinement of `TaskContract` |
| `RecoveryProofs` | `TypeCorrect`, `Invariance` | types and the inductive invariant |
| | `GroundCorrect`, `NoCircleCorrect`, `RestartCorrect` | `ChildHasGround`, `ManagedNoCircle`, `RestartObserves` |
| | `BoundedCorrect` | `[](Scanned => RecoveryBounded)` |
| `ServicesProofs` | `AdmissionCorrect`, `DocumentsCorrect`, `AdvisedCorrect`, `ReceiptsCorrect` | `Admission`, `DocumentHistory`, `Advised`, `ReceiptsTrue` |
| `JevProofs` | `LiveRecoveryCorrect` | `LiveRecovery`, of both watchdogs |
| `StageProofs` | `StageKeptCorrect` | `StageKept` |
| `AlgorithmProofs` | `WatchAgreesCorrect`, `CompilesDagsCorrect` | `WatchAgrees`, `CompilesDags` |

### 4.1 Why they hold

No property here is inductive as it stands: what is promised at one place rests on
what other threads have read, written or still have to do.  Each module ends with
the strengthening, under "why the invariants hold" or the like, and TLC has checked it
on instances of the module before it was proved (`MCCoreInd.cfg` is the one for the
core).  A theorem has one lemma per action, with one step per conjunct the action can
disturb; what many actions share (a step of one thread leaves the calls of the others
alone, a transaction moves a task in one of six ways) is a lemma of its own.

* **Core.**  An outcome is heard in one step and recorded several steps later, by a
  thread that may not look at the worker again.  `StoresTrue` says that the binding
  and the saved outcome are true of the worker, `HandTrue` says it of every outcome in
  a thread's hands; both rest on one fact, that a worker once over stays over.
  `PlacesTrue` bounds what the dispatcher and the stop can be doing, `RecordTrue` is the
  registry's own claim, with the two excuses (a refused authorization, a cancel before
  the start) that need no worker, and `Observed` says who will collect the answer: the
  observer, or the dispatcher between the RUNNING record and the observer's start.
  `GoalGate` needs more, where the outcome came *from*: `StoreGoal` and `HandGoal` say
  that a PASS in the store or in a thread's hands is the worker's own answer with the
  checkpoint it came with, and that what reaches the end of the finalization has a good one.
* **Workflow.**  The claim is never given back.  `UnitTrue` says that only claimed units
  whose dependencies have passed (`Clear`) have a run; `JobTrue` says that the holder of
  the orchestrator lock has the claim of its unit from `claim` to `persist` and finds
  the run as it left it, whatever settles, restarts or asks in between.
* **Delivery.**  There are two states of the tables: `Stored`, as the thread sees them,
  and `Seen`, to which an abandoned tick falls back.  `Sound` is required of both
  snapshots: deliveries exist only of revisions that were executed or reopened, the
  reviewer's only after the team's answers or a reopening (`RowTrue`); a task is checked
  on answers or on the saved run in `recovered`, completed on a verdict (`TaskTrue`); verdicts are of cycles there have been (`VerdictTrue`); an agent has one
  active row.  `Lawful` is what one transaction may do to a snapshot, row by row and task
  by task, and keeps it sound; each step of the thread and each request is shown lawful.
  `Carried` is what the rows the thread read earlier still are when it uses them, and
  `Once` composes the uncommitted writes of several steps into the single move that a
  commit shows to everybody else.
  What a running task and a stopped delivery may count on is about both snapshots too.
  `DrivenInv` strengthens `RunningIsDriven` to each delivery: whatever of a running
  task's present revision is not answered is live or has an open issue *of its own*, so
  that an answer, which resolves the issue of its delivery alone, takes nothing away from
  the others; and a poll that finds a cancelled run finds no running task behind it
  (`Awaited`), since only stops and deadlines cancel, and what cancels settles the delivery
  or moves the task in the same commit.
  `QuietInv` strengthens `StoppedIsQuiet`: no run goes on for a delivery that is absent or
  queued either, because the thread queues again only what it has heard to be over
  (`HeardTrue`).
* **Recovery.**  The state of a thread is a list of calls, so the invariant is about
  lists: which call may stand before which (`Precedes`), and what one hands the next
  (`HandsTo`).  From it follow who owns which lock (`LocksTrue`), what the records in hand
  are (`HandsTrue`), that each child is accounted for or its accounting is still due in
  some list (`AccountsTrue`), that recoveries do not chain (`NoChain`) or exceed the
  bound (`OnceTrue`), and who observes each live run (`LiveTrue`).  `ManagedNoCircle` is
  then a ranking of the locks: with managed sources, whoever holds the harness lock waits
  for nobody, the holder of the engine lock at most for the harness, and the observer of
  a run at most for these two.
* **Services.**  `AuthBroker`: what the war authorization has checked stays true while
  its transaction is open (`StillAdmissible`), the token it presents was issued for the
  seconds left at that check (`GrantsSound`), and who is admitted is counted (`Counted`)
  and has a grant of its own (`Held`).  `ProjectDocuments`: what the import has found
  (`FoundTrue`), what a rollback brings back (`SavedTrue`) and what a client read are all
  parts of the history.  `JevAdvisory`: a revision does not return, so an advisory that
  is not stale when it is checked was the task's when the decision read it
  (`DecidingTrue`); a verification takes the next number (`Numbered`).  `GatewayBridge`:
  only the request whose number is the counter can accept a line (`Awaited`), and such a
  line is about its delivery and stays true (`RequestTrue`, `LineTrue`, `OpTrue`).
* **JEV.**  The first row of a recovery forbids a second one as long as it is in sight, so
  there are no more turns than rows that came in sight (`Seen`), and each phase leaves what
  the next rests on (`TurnsTrue`); states only follow each other, so that a nudge is never
  of an older state than the last (`NudgesTrue`); what memory counts as confirmed was
  answered about that state (`ConfirmsTrue`).  What the controller has under way is about
  the one handoff file of its work root, if it writes one (`StepsTrue`); the targets of a
  snapshot are one per process that has begun it (`TargetsTrue`).
* **Stages.**  Evidence is of an answered delivery, which is not dispatched again, or of
  one whose saved response was accepted (`EvidenceTrue`); a revalidation opens QA, from
  where no revision is run again (`HistoryTrue`), and a revision has no deliveries before
  it is approved (`Unsent`).  A token is good for one state because the task only climbs:
  by revision, cycle, status, and progress of the review (`TokenTrue`), so no fingerprint returns.
  The proof also settled what counts as a move (2.7).
* **Algorithms.**  The policy engine keeps six values of an unbounded stream.
  `CountersTrue` says what they are of it: two counts, and the length and the signature of
  the repetition at its end (`Streak`), which one more event continues, ends or leaves
  alone (`StreakGrows`, `StreakStays`).  A limit is exceeded by the event that stops the
  run and by none before it (`Exhausted`).  Of the detector it is enough that the unit
  found is the least one and that a unit held back by the cooldown has been reported.
  The compiler's stack is a path in which everybody needs whoever is above, and nobody
  has anything else to wait for than what is on the way or visited (`Path`); the visited
  wait neither for others nor in a circle (`Grounded`).  So a node met twice is on a
  cycle - `visiting` is one - and units that are all visited have none.  That the
  deduplication keeps everybody is an induction over the list, done here by least
  elements: there is no shortest prefix for which it fails (`LeastNumber`,
  `KeepingExists`, `KeepingKeeps`).

### 4.2 Assumptions

Those on constants are named `...Assumption` in the modules that declare them
(`MCServices` for its parts), and TLC evaluates them in every run: sets are disjoint
where the code keeps them apart (names of threads and runs, war and direct ids, the
reviewer and the team), "no value" is no value, bounds are naturals, a team has
somebody in it, a unit and a repetition are at least one long, agents are listed.  Five theorems
say more, each because the property is false without it.

* `ContractCorrect` assumes `AutoQa`: all tasks run on the Fast Gateway and no verdict is
  given by hand.  Without it the refinement is false.  A late FAIL reopens a completed
  task (`ClosedStays`, 3.1), and direct answers can move a task twice in one transaction.
* `BoundedCorrect` is about states with `Scanned`: all runs created so far are within
  the window the recovery layer looks through, and `MaxDispatches` is not 0.  Outside it
  the bound is broken (`MCRecoveryWindow`, 3.1).
* `RunningIsDrivenCorrect` assumes `Undisturbed`: no agent is in the teams of two tasks,
  and nobody cancels runs through the Fast Gateway's own API.  Otherwise one task's
  execution reclaims another's delivery (`MCDeliveryReclaim`), or a poll stores the
  delivery of a running task as stopped (3.1).
* `StoppedIsQuietCorrect` is about behaviours in which `StopFinds` stays true: the run
  recorded for the task and the agent of an active delivery, if any, is its own, and no
  delivery is queued while its run goes on.  A later revision breaks the one
  (`MCDeliveryExactStop`), a manual retry the other (3.1).  `FirstStopIsQuietCorrect`
  names constants for which neither can happen: `MaxRev = 1`, one executed revision, and
  no retry in `Ops`.

### 4.3 Model-checked only

* Liveness (`UnmanagedEnds`, `ManagedSettles`, `ConfirmedStopSettles`, `ParentSettles`,
  `FlowCompletes`, `DeliveriesMove`, `TasksMoveOn`): fairness and ENABLED are out of the
  prover's reach.
* What section 3.1 shows violated has no theorem; the conditions under which
  `RunningIsDriven`, `StoppedIsQuiet`, `TasksKeepContract` and `RecoveryBounded` hold are
  those of 4.2.

## 5. Abstractions

* A result is what the validator makes of it (passed, rejected, blocked) and the
  state of its progress checkpoint; the text is not modelled.
* The RPC client is the set of answers it can give: accepted, rejected, failed
  before or after the gateway acted, timed out, contradictory.
* `fresh_context` is not modelled: production requires authorization, and then it
  is refused (`core_engine.py:1084-1088`).
* A registry write is atomic and durable: the code appends one line and syncs it.
* Metadata that no decision reads (events, `cancel_reason`, audit text) is left out.
* In `WorkflowOrchestration` the engine is seen through `RunContract`: runs settle
  on their own, including the one rewrite of a settled record.
* In `DeliveryWorker` a run is running or ended; the Fast Gateway's `RUNNING`,
  `PASS` and failures are all a delivery sees of the engine.
* An API request is one atomic step when the thread holds no lock.  The code reads
  the task before its first write; what the runtime commits in that instant is not
  modelled (listed as a hazard).
* Backoffs and leases have run out when a tick looks: nothing depends on when.
  Deadlines are per row, as stored.
* What an answer says is PASS or FAIL (FAIL stands for REWORK too); evidence and
  session checks succeed or not.
* A timeout of a stop is stored and counted like a failure.  A stop reply that is
  lost is an unconfirmed stop, with the run left going.
* `SettlePoll` leaves out the row that fails without a word to its task because its run
  cannot be bound (`war_room_worker.py:1053-1064`): only the direct adapter has a
  `bind_run`, and it refuses none but a row received under another session key than the
  one it was sent with, which this code does not write.
* Why an answer of a reviewer is only kept (the reviewer is not independent, has no
  principal of its own or gives no structured result, `war_room_worker.py:521-530`,
  717-723) is left open: any answer may be, which is a disjunct of `ReviewVerdict`.  The
  priority of the agent id ERPqa (line 210) is a choice of `Conflicts`: the reviewer is
  that agent or is not.
* Not modelled of the requests: a retry for another agent (`war_room_actions.py:1960`)
  and tasks without a reviewer (line 2723).  `Candidate` and `RecoverQa` choose among the
  runs and verdicts on record; what evidence they carry along is `StageRecovery`.
* In `CoreEngine` the bounded wait of a caller and the observer's are one thread `obs`,
  since both hold the run's observation lock; an observer started for a record that was
  settled in the window before only reads it.
* `ResumeQa` reuses the key of the deleted delivery: a former QA run that was never
  confirmed over is forgotten.  No property speaks of QA runs across it, and
  `StopConfirmed` is checked without it.
* `EnterQA` takes a recorded pass of every Fast run for `responded` rows.
* Automatic QA is on; sessions are provisioned or not when it is queued.
* `RunRecovery` has one caller of the API and one JEV worker (the code has a pool of
  two, for different runs); `UNFIT` is a failure of a class that is not recoverable,
  `DENIED` a block before the worker started.  Prompts of recoveries are left out.
* `AuthBroker`: a scope is its run, since the digest covers it; the audit chain is
  written with the grant in one transaction.
* `StageRecovery`: the content of an artifact is a version; a sha256 is what it is
  computed from.  Requests are one step, `supersede_task` two.
* `ProjectDocuments`: titles, categories, relations are left out; a uri is its file.
* `GatewayBridge`: an answer is its request's number, method and outcome.
* `JevRecovery`, `JevHandoff`: the judge answers anything; a session's state is a
  counter of its progress.  One session, one work root: others have their own files; the
  rows other sessions append to the common history are `Scroll`.  Reading the history and
  acting on it is one step, and so are the first row and the file of phase A.
* `RuntimeWatch`: normalized signatures and words are model values, so the least and
  greatest length of a unit (`MinUnit`, `MaxUnit`) and the bound on the tail are in words
  where the code has characters; the instance has `MinUnit = 1`.  The clock matters against
  `Cooldown` only.
* `WorkflowCompiler`: names of agents are interchangeable, so the instance has one list
  per pattern of repetitions; the proof has all lists; timeouts and instructions pass through.

## 6. Plan

| order | module | content | theorems |
|---|---|---|---|
| done | `CoreEngine`, `WorkflowOrchestration`, `DeliveryWorker`, `RunRecovery`, the parts of `MCServices` | above | - |
| done | `CoreEngineProofs`, `WorkflowProofs`, `DeliveryProofs`, `RecoveryProofs`, `ServicesProofs`, `JevProofs`, `StageProofs`, `AlgorithmProofs` | every safety property of the runs, with the conditions of 4.2 | section 4 |
| next | `DeliveryWorker` | requests that read the task before they lock, split in two steps | the lemmas of those requests |

Not modelled.  Host telemetry, HTTP pages, user interface and process transports
(pure I/O); the agent catalogue and the command center (static data, read-only
projections); model configuration files; JEV's shadow drills, which act on fixtures;
the plain CRUD requests of the War Room (creation, participants, reviewer assignment,
settings), which are one statement each; `close()` and the size of the watchdog
pool; the RPC client's handshake and the result validator's text rules.
