----------------------------- MODULE DeliveryWorker -----------------------------
(***************************************************************************)
(* The War Room delivery loop: war_room_worker.py run by the               *)
(* war-room-runtime thread (war_room_runtime.py), the API handlers of      *)
(* war_room_actions.py that move tasks, approvals and deliveries, and the  *)
(* two lanes a delivery is sent through (war_room_fast_gateway.py and the  *)
(* direct adapter of war_room_adapter.py).  One project.                   *)
(*                                                                         *)
(* The thread works on rows it read at the start of a tick, sends a        *)
(* delivery with no transaction open (Fast Gateway) or holding SQLite's    *)
(* write lock (direct), and stores the outcome afterwards.  API requests   *)
(* run between any two of its steps, runs end by themselves, and a tick    *)
(* may be abandoned anywhere: a locked database, an exception, a restart.  *)
(***************************************************************************)
EXTENDS Naturals, FiniteSets

CONSTANTS
    Tasks, Agents,
    Team,           \* Team[t]: war_task_agents
    Reviewer,       \* reviewer_agent_id of every task, an auto-QA principal
    Fast,           \* tasks whose execution_mode is FAST_GATEWAY
    Profiled,       \* tasks whose grounding packet has a profile: failed stages are held
    Revocable,      \* agents whose admission may be revoked after approval
    Ops,            \* API operations this instance exercises
    MaxRev,         \* bound: revisions that are executed
    MaxCycle,       \* bound: QA cycles a task is resumed through
    MaxTries,       \* max_attempts
    MaxFaults,      \* bound: abandoned ticks
    NoKey

AllOps == {"approve", "execute", "transition", "halt", "deliver", "retry", "verdict", "complete",
           "resume_qa", "revalidate", "recover_qa", "stop_task", "stop_project", "resume",
           "revoke", "cancel"}

ASSUME TeamAssumption  == Team \in [Tasks -> (SUBSET Agents) \ {{}}] /\ Reviewer \notin Agents
ASSUME TaskAssumption  == Fast \subseteq Tasks /\ Profiled \subseteq Tasks /\ Ops \subseteq AllOps
ASSUME BoundAssumption == /\ MaxRev \in Nat \ {0} /\ MaxCycle \in Nat /\ MaxFaults \in Nat
                          /\ MaxTries \in Nat \ {0}

\* One war_deliveries row per (message, agent, task_revision), which is UNIQUE there.
Keys == {k \in Tasks \X (Agents \cup {Reviewer}) \X (1..MaxRev) : k[2] \in Team[k[1]] \cup {Reviewer}}

ASSUME KeyAssumption == NoKey \notin Keys

TaskOf(k)  == k[1]
AgentOf(k) == k[2]
RevOf(k)   == k[3]

VARIABLES
    status, rev, cycle,  \* war_tasks: status, revision, qa_cycle
    recovered,           \* war_result_revalidation_history and war_stage_attempts: QA that a
                         \* stage recovery opened, <<task, revision, delivery of the saved run>>
    appr,                \* tasks whose latest approval is in force
    verdicts,            \* war_qa_verdicts: <<task, revision, qa_cycle, verdict>>
    issues,              \* OPEN war_processing_issues: <<task, revision, delivery or NoKey>>
    row,                 \* war_deliveries
    bound,               \* revision whose run war_execution_runs shows last, per task and agent
    control,             \* war_project_control.stop_state
    touched,             \* deliveries of the current stop cycle (stop_cycle_at)
    run,                 \* the agent run started for a delivery
    asked,               \* what the agent was last asked: to work or to review
    job,                 \* the runtime thread
    faults

task  == <<status, rev, cycle, recovered>>
books == <<appr, verdicts, control, touched>>
world == <<run, asked>>
vars  == <<task, books, issues, row, bound, world, job, faults>>

Statuses == {"draft", "awaiting_approval", "approved", "running", "qa", "rework_required",
             "completed", "stopped", "stop_unconfirmed"}
Closed   == {"completed", "stopped", "stop_unconfirmed"}
Active   == {"sent", "received"}
Live     == {"queued"} \cup Active
RowStatuses == {"absent", "responded", "failed", "timed_out", "stopped"} \cup Live
Ended    == {"pass", "fail", "cancelled"}
Receipts == {"none", "lost", "received", "responded", "failed", "timed_out", "stopped"}

NoRow   == [st |-> "absent", id |-> FALSE, tries |-> 0, late |-> FALSE, says |-> "none"]
NewRow  == [NoRow EXCEPT !.st = "queued"]
IdleJob == [at |-> "idle", key |-> NoKey, todo |-> {}, late |-> {}, got |-> "none",
            lock |-> FALSE, base |-> <<>>]

\* What the thread writes in its transaction.
Stored == [status |-> status, rev |-> rev, cycle |-> cycle, recovered |-> recovered,
           verdicts |-> verdicts, issues |-> issues, row |-> row, bound |-> bound]

\* A snapshot is what one transaction leaves: the present state, or the one an abandoned
\* tick falls back to.
Snapshots == [status : [Tasks -> Statuses], rev : [Tasks -> 1..(MaxRev + 1)],
              cycle : [Tasks -> 0..(MaxCycle + MaxRev + 1)],
              recovered : SUBSET (Tasks \X (1..MaxRev) \X Keys),
              verdicts : SUBSET
                 (Tasks \X (1..(MaxRev + 1)) \X (0..(MaxCycle + MaxRev + 1)) \X {"PASS", "FAIL"}),
              issues : SUBSET (Tasks \X (1..(MaxRev + 1)) \X (Keys \cup {NoKey})),
              row : [Keys -> [st : RowStatuses, id : BOOLEAN, tries : 0..MaxTries, late : BOOLEAN,
                              says : {"none", "PASS", "FAIL"}]],
              bound : [Tasks -> [Agents \cup {Reviewer} -> 0..MaxRev]]]

TypeOK ==
    /\ Stored \in Snapshots
    /\ appr \subseteq Tasks
    /\ control \in {"running", "stopped", "stop_failed"}
    /\ touched \subseteq Keys
    /\ run \in [Keys -> {"none", "running"} \cup Ended]
    /\ asked \in [Keys -> {"nothing", "work", "review"}]
    /\ job \in [at : {"idle", "due", "claimed", "sent", "poll", "polled"},
               key : Keys \cup {NoKey}, todo : SUBSET Keys, late : SUBSET Keys,
               got : Receipts, lock : BOOLEAN, base : {<<>>} \cup Snapshots]
    /\ job.lock <=> job.base # <<>>
    /\ faults \in 0..MaxFaults

\* prepare has created the tasks.
Init ==
    /\ status = [t \in Tasks |-> "awaiting_approval"]
    /\ rev = [t \in Tasks |-> 1] /\ cycle = [t \in Tasks |-> 0]
    /\ recovered = {} /\ appr = {} /\ verdicts = {} /\ issues = {}
    /\ row = [k \in Keys |-> NoRow]
    /\ bound = [t \in Tasks |-> [a \in Agents \cup {Reviewer} |-> 0]]
    /\ control = "running" /\ touched = {}
    /\ run = [k \in Keys |-> "none"]
    /\ asked = [k \in Keys |-> "nothing"]
    /\ job = IdleJob
    /\ faults = 0

(**************************** rows, lanes, tasks ***************************)

With(k, st)   == [row EXCEPT ![k].st = st]
RowsOf(t, r)  == {k \in Keys : TaskOf(k) = t /\ RevOf(k) = r /\ row[k].st # "absent"}
TeamRows(t, r) == {k \in RowsOf(t, r) : AgentOf(k) \in Team[t]}
QAKey(t)      == <<t, Reviewer, rev[t]>>

\* _qa_delivery_for_task, asked anew at every step: the task is in QA now.
IsReview(k) == AgentOf(k) = Reviewer /\ status[TaskOf(k)] = "qa"
FastLane(k) == TaskOf(k) \in Fast /\ ~IsReview(k)
FastRun(k)  == TaskOf(k) \in Fast /\ AgentOf(k) # Reviewer

\* mutant: the revision stays
ReworkSame(t) == status' = [status EXCEPT ![t] = "rework_required"] /\ UNCHANGED <<rev, cycle, recovered>>
Rework(t) == /\ status' = [status EXCEPT ![t] = "rework_required"]
             /\ rev' = [rev EXCEPT ![t] = @ + 1]
             /\ UNCHANGED <<cycle, recovered>>
MarkNothing(t, src) == issues   \* mutant: the failure is held and no issue opened
Mark(t, src)  == issues \cup {<<t, rev[t], src>>}
Resolved(k)   == issues \ {<<TaskOf(k), RevOf(k), k>>}

(************************** what a settled row does ************************)

CurrentTask(k) == status[TaskOf(k)] \notin Closed   \* mutant: the revision not compared
Current(k) == status[TaskOf(k)] \notin Closed /\ rev[TaskOf(k)] = RevOf(k)

\* _terminal_validation_failure, once the rows are written.  A failure of a closed
\* task or of another revision is only audited; a recoverable stage of a profiled
\* task is held; anything else sends the task to rework and cancels what is queued.
TerminalFailure(k, rows, soft) ==
    LET t == TaskOf(k)
        Held    == soft /\ t \in Profiled /\ status[t] \in {"running", "qa"}
    IN \/ /\ ~Current(k)
          /\ row' = rows /\ UNCHANGED <<task, issues>>
       \/ /\ Current(k) /\ Held
          /\ issues' = Mark(t, k) /\ row' = rows /\ UNCHANGED task
       \/ /\ Current(k) /\ ~Held
          /\ IF status[t] = "rework_required" THEN UNCHANGED task ELSE Rework(t)
          /\ row' = [j \in Keys |-> IF /\ TaskOf(j) = t /\ RevOf(j) = RevOf(k) /\ j # k
                                       /\ rows[j].st = "queued"
                                    THEN [rows[j] EXCEPT !.st = "failed"] ELSE rows[j]]
          /\ UNCHANGED issues

\* _record_auto_qa_verdict: a PASS needs its evidence, anything else is rework; an answer
\* that cannot be read, or of a reviewer who is no QA principal any more, is only kept.
ReviewVerdict(k, rows) ==
    LET t == TaskOf(k)
        v == rows[k].says
        Sign == verdicts' = verdicts \cup {<<t, rev[t], cycle[t], v>>}
    IN /\ row' = rows
       /\ \/ v = "PASS" /\ Sign /\ UNCHANGED task /\ issues' = Resolved(k)
          \/ v = "PASS" /\ UNCHANGED <<task, verdicts>>
             /\ issues' = Resolved(k) \cup {<<t, rev[t], NoKey>>}
          \/ v = "FAIL" /\ Sign /\ Rework(t) /\ issues' = Resolved(k)
          \/ UNCHANGED <<task, verdicts>> /\ issues' = Resolved(k)

\* _queue_auto_qa_delivery: once per revision; a session may not be provisioned.
QueueReview(q, rows, open) ==
    \/ rows[q].st # "absent" /\ row' = rows /\ issues' = open
    \/ rows[q].st = "absent" /\ row' = [rows EXCEPT ![q] = NewRow] /\ issues' = open
    \/ rows[q].st = "absent" /\ row' = rows /\ issues' = open \cup {<<TaskOf(q), RevOf(q), NoKey>>}

\* _apply_collaboration_outcome: answers that differ, or a failing answer of the reviewer,
\* if it is the agent ERPqa.  FAIL also stands for REWORK, so that two of them may differ.
Answers(k, rows) == {j \in Keys : /\ TaskOf(j) = TaskOf(k) /\ RevOf(j) = RevOf(k)
                                  /\ rows[j].st = "responded"}
Failing(k, rows) == {j \in Answers(k, rows) : rows[j].says = "FAIL"}
Conflicts(k, rows) ==
    LET differ   == Failing(k, rows) # {} /\ \E j \in Answers(k, rows) : rows[j].says = "PASS"
        reviewed == \E j \in Failing(k, rows) : AgentOf(j) = Reviewer
    IN (IF differ THEN {TRUE} ELSE {FALSE})
       \cup (IF reviewed \/ Cardinality(Failing(k, rows)) > 1 THEN {TRUE} ELSE {})

\* Everybody who was asked has answered.
Collaboration(k, rows) ==
    LET t == TaskOf(k) IN
    /\ UNCHANGED verdicts
    /\ \/ TRUE \in Conflicts(k, rows) /\ Rework(t) /\ row' = rows /\ issues' = Resolved(k)
       \/ FALSE \in Conflicts(k, rows) /\ status[t] = "running"
          /\ status' = [status EXCEPT ![t] = "qa"] /\ cycle' = [cycle EXCEPT ![t] = @ + 1]
          /\ UNCHANGED <<rev, recovered>>
          /\ QueueReview(QAKey(t), rows, Resolved(k))
       \/ FALSE \in Conflicts(k, rows) /\ status[t] = "qa" /\ UNCHANGED task
          /\ QueueReview(QAKey(t), rows, Resolved(k))
       \/ FALSE \in Conflicts(k, rows) /\ status[t] \notin {"running", "qa"} /\ UNCHANGED task
          /\ row' = rows /\ issues' = Resolved(k)

StillLive(k, rows) ==   \* mutant: an answer that failed is not missed
    \E j \in TeamRows(TaskOf(k), RevOf(k)) : rows[j].st \in Live
Pending(k, rows) == \E j \in TeamRows(TaskOf(k), RevOf(k)) : rows[j].st # "responded"

\* _safe_after_responded_delivery: a response of another revision is only audited;
\* an exception keeps the result and opens an issue.
AfterResponded(k, rows) ==
    LET t == TaskOf(k)
    IN \/ /\ rev[t] # RevOf(k) \/ (~IsReview(k) /\ Pending(k, rows))
          /\ row' = rows /\ issues' = Resolved(k) /\ UNCHANGED <<task, verdicts>>
       \/ /\ rev[t] = RevOf(k) /\ IsReview(k)
          /\ ReviewVerdict(k, rows)
       \/ /\ rev[t] = RevOf(k) /\ ~IsReview(k) /\ ~Pending(k, rows)
          /\ Collaboration(k, rows)
       \/ /\ rev[t] = RevOf(k)
          /\ row' = rows /\ issues' = Resolved(k) \cup {<<t, rev[t], NoKey>>}
          /\ UNCHANGED <<task, verdicts>>

(************************* process_due_deliveries **************************)

DueQueued == {k \in Keys : row[k].st = "queued"}   \* mutant: an abandoned claim is not due
Due      == {k \in Keys : row[k].st = "queued" \/ (row[k].st = "sent" /\ ~row[k].id)}
ReceivedInTime ==   \* mutant: nobody polls an overdue row
    {k \in Keys : row[k].st = "received" /\ row[k].id /\ ~row[k].late}
Received == {k \in Keys : row[k].st = "received" /\ row[k].id}
Late(ks) == {k \in ks : row[k].late}
Unsettled == UNCHANGED <<row, task, issues, verdicts>>

\* Writes that are not committed hold SQLite's write lock, across the polls of other rows
\* too, until a commit; an exception in between undoes them.  What was there before:
Base(lock) == IF ~lock THEN <<>> ELSE IF job.lock THEN job.base ELSE Stored
Undo == IF ~job.lock THEN UNCHANGED <<task, verdicts, issues, row, bound>>
        ELSE /\ status' = job.base.status /\ rev' = job.base.rev /\ cycle' = job.base.cycle
             /\ recovered' = job.base.recovered
             /\ verdicts' = job.base.verdicts /\ issues' = job.base.issues
             /\ row' = [k \in Keys |-> [job.base.row[k] EXCEPT !.late = row[k].late]]
             /\ bound' = job.base.bound

\* The thread is done with k; lock says that something is not committed yet.
Drop(k, lock) ==
    job' = [job EXCEPT !.at = IF @ \in {"poll", "polled"} THEN "poll" ELSE "due",
                       !.key = NoKey, !.todo = @ \ {k}, !.got = "none",
                       !.lock = lock, !.base = Base(lock)]

\* A tick reads the rows that are due; backoffs and leases have run out.
Tick ==
    /\ job.at = "idle" /\ Due \cup Received # {}
    /\ job' = [IdleJob EXCEPT !.at = "due", !.todo = Due, !.late = Late(Due)]
    /\ UNCHANGED <<task, books, issues, row, bound, world, faults>>

\* The agent lost its admission: only a queued row is failed, the task always hears.
Revoked(k) ==
    /\ job.at = "due" /\ k \in job.todo /\ AgentOf(k) \in Revocable
    /\ TerminalFailure(k, IF row[k].st = "queued" THEN With(k, "failed") ELSE row, IsReview(k))
    /\ Drop(k, FALSE)
    /\ UNCHANGED <<books, bound, world, faults>>

\* The deadline this tick read has passed: the row is overwritten whatever it is now.
Expire(k) ==
    /\ job.at = "due" /\ k \in job.late \cap job.todo
    /\ TerminalFailure(k, With(k, "timed_out"), IsReview(k))
    /\ Drop(k, TRUE)
    /\ UNCHANGED <<books, bound, world, faults>>

TaskBusy(k) ==   \* mutant: other tasks of the agent are not counted
    \E j \in Keys \ {k} : AgentOf(j) = AgentOf(k) /\ TaskOf(j) = TaskOf(k) /\ row[j].st \in Active
AgentBusy(k) == \E j \in Keys \ {k} : AgentOf(j) = AgentOf(k) /\ row[j].st \in Active

\* A busy agent's row stays queued (committed); a row that is no longer due is left alone.
Skip(k) ==
    /\ job.at = "due" /\ k \in job.todo \ job.late
    /\ \/ AgentBusy(k) /\ Drop(k, FALSE)
       \/ ~AgentBusy(k) /\ k \notin Due /\ Drop(k, TRUE)
    /\ UNCHANGED <<task, books, issues, row, bound, world, faults>>

\* Claim: token and lease, committed before anything is sent.
Claim(k) ==
    /\ job.at = "due" /\ k \in job.todo \ job.late
    /\ ~AgentBusy(k) /\ k \in Due
    /\ row' = With(k, "sent")
    /\ job' = [job EXCEPT !.at = "claimed", !.key = k, !.lock = FALSE, !.base = <<>>]
    /\ UNCHANGED <<task, books, issues, bound, world, faults>>

\* WarRoomGrantAuthorizer: what the engine checks in one transaction with the grant.
Authorized(k) ==
    LET t == TaskOf(k) IN
    /\ row[k].st = "sent" /\ ~row[k].late
    /\ status[t] = "running" /\ rev[t] = RevOf(k)
    /\ AgentOf(k) \in Team[t] /\ t \in appr /\ control = "running"

Start(k) == /\ run' = [run EXCEPT ![k] = "running"]
            /\ asked' = [asked EXCEPT ![k] = IF IsReview(k) THEN "review" ELSE "work"]
Heard(lock, got) == job' = [job EXCEPT !.at = "sent", !.got = got,
                                       !.lock = lock, !.base = Base(lock)]

\* FastGatewayWarRoomAdapter.deliver: the run id derives from the delivery id, so that a
\* run that exists answers for itself; a refused or failed dispatch is a settled run.
SendFast(k) ==
    /\ job.at = "claimed" /\ k = job.key /\ FastLane(k)
    /\ \/ run[k] = "none" /\ Authorized(k) /\ Start(k) /\ Heard(FALSE, "received")
       \/ run[k] = "none" /\ run' = [run EXCEPT ![k] = "fail"] /\ UNCHANGED asked
          /\ Heard(FALSE, "failed")
       \/ run[k] = "running" /\ UNCHANGED world /\ Heard(FALSE, "received")
       \/ run[k] \in Ended /\ UNCHANGED world /\ Heard(FALSE, "failed")
    /\ UNCHANGED <<task, books, issues, row, bound, faults>>

\* OpenClawSessionAdapter.deliver under the write lock the binding update took.  The
\* Gateway runs an idempotency key once; its answer may be lost.
SendDirect(k) ==
    /\ job.at = "claimed" /\ k = job.key /\ ~FastLane(k)
    /\ \/ run[k] = "none" /\ Start(k) /\ \E got \in {"received", "timed_out"} : Heard(TRUE, got)
       \/ run[k] # "none" /\ UNCHANGED world /\ Heard(TRUE, "received")
       \/ UNCHANGED world /\ \E got \in {"failed", "timed_out"} : Heard(TRUE, got)
    /\ UNCHANGED <<task, books, issues, row, bound, faults>>

\* _persist_execution of the Fast Gateway's snapshot.
Persisted(ks) ==
    [t \in Tasks |-> [a \in Agents \cup {Reviewer} |->
        LET new == {k \in ks : TaskOf(k) = t /\ AgentOf(k) = a /\ run[k] # "none"}
        IN IF new = {} THEN bound[t][a] ELSE RevOf(CHOOSE k \in new : TRUE)]]

\* The receipt is stored if the row is still sent under this claim; else it is dropped.
Settle(k) ==
    LET cycle_attempt == row[k].tries + 1
        Retryable == cycle_attempt < MaxTries
        Rows(st)  == [row EXCEPT ![k].st = st, ![k].tries = cycle_attempt,
                                 ![k].id = @ \/ job.got = "received"]
    IN /\ job.at = "sent" /\ k = job.key
       /\ \/ row[k].st # "sent" /\ Unsettled /\ UNCHANGED bound
          \/ /\ row[k].st = "sent"
             /\ bound' = IF job.lock THEN bound ELSE Persisted({k})
             /\ UNCHANGED verdicts
             /\ \/ job.got = "received" /\ row' = Rows("received") /\ UNCHANGED <<task, issues>>
                \/ /\ job.got # "received" /\ Retryable
                   /\ row' = Rows("queued") /\ UNCHANGED <<task, issues>>
                \/ /\ job.got = "failed" \/ (job.got = "timed_out" /\ ~Retryable)
                   \* a contract failure is final whatever attempts are left
                   /\ \E soft \in BOOLEAN : TerminalFailure(k, Rows(job.got), soft)
       /\ Drop(k, TRUE)
       /\ UNCHANGED <<appr, control, touched, world, faults>>

(************************ recover_received_deliveries **********************)

\* Every due row is dealt with and committed: the rows received now are polled.
TurnToPoll ==
    /\ job.at = "due" /\ job.todo = {}
    /\ job' = [IdleJob EXCEPT !.at = "poll", !.todo = Received, !.late = Late(Received)]
    /\ UNCHANGED <<task, books, issues, row, bound, world, faults>>

TickDone ==
    /\ job.at = "poll" /\ job.todo = {}
    /\ job' = IdleJob
    /\ UNCHANGED <<task, books, issues, row, bound, world, faults>>

RepliesRaw(k) == {run[k]}   \* mutant: the run's status is passed on as it is

\* The Fast Gateway reads the engine's record and knows no run it did not start; a direct
\* session is asked over the Gateway, which may fail, or still call an ended run pending.
Replies(k) ==
    CASE FastLane(k) /\ ~FastRun(k) -> {"lost"}
      [] FastRun(k) ->
            {[none |-> "failed", running |-> "received", pass |-> "responded", fail |-> "failed",
              cancelled |-> "stopped"][run[k]]}
      [] OTHER -> {"failed", "timed_out"} \cup (IF run[k] = "cancelled" THEN {} ELSE {"received"})
                  \cup (IF run[k] = "pass" THEN {"responded"} ELSE {})

Poll(k) ==
    /\ job.at = "poll" /\ k \in job.todo
    /\ \E got \in Replies(k) : job' = [job EXCEPT !.at = "polled", !.key = k, !.got = got]
    /\ UNCHANGED <<task, books, issues, row, bound, world, faults>>

\* The observation itself fails: an issue is opened, the row waits for the next tick.
PollFails(k) ==
    /\ job.at = "poll" /\ k \in job.todo /\ faults < MaxFaults
    /\ faults' = faults + 1
    /\ issues' = IF rev[TaskOf(k)] = RevOf(k) THEN Mark(TaskOf(k), k) ELSE issues
    /\ Drop(k, FALSE)
    /\ UNCHANGED <<task, books, row, bound, world>>

(* stop_bound_delivery.  The Fast Gateway stops the execution recorded last for *)
(* the task and the agent; a direct session aborts the delivery's own run.      *)
LastRun(k)     == bound[TaskOf(k)][AgentOf(k)]
StopTarget(k)  == IF FastRun(k) THEN <<TaskOf(k), AgentOf(k), LastRun(k)>> ELSE k
ConfirmableUnbound(k) == FastRun(k) \/ run[k] = "running"   \* mutant: no recorded run needed
\* A Fast run that ended is stopped as it is, one that never started has no session to
\* stop; a direct abort must find its run.
Confirmable(k) == IF FastRun(k) THEN LastRun(k) # 0 /\ asked[StopTarget(k)] # "nothing"
                  ELSE run[k] = "running"
Aborted(ks) == [j \in Keys |-> IF run[j] = "running" /\ \E k \in ks : StopTarget(k) = j
                               THEN "cancelled" ELSE run[j]]

\* A row that is still received takes the poll's answer.  A reviewer's row in the Fast lane
\* (its task left QA) is failed like an unknown run, and then the snapshot of a Core record
\* that never was raises, out of the loop over the rows: the tick ends, undone.
SettlePoll(k) ==
    LET answer == IF FastRun(k) THEN {"none"} ELSE {"PASS", "FAIL"}
        Answered(v) == [row EXCEPT ![k].st = "responded", ![k].says = v]
        Collected == IF FastRun(k) THEN Persisted({k}) ELSE bound
        Kept == UNCHANGED <<bound, run>>
    IN /\ job.at = "polled" /\ k = job.key
       /\ \/ row[k].st # "received" /\ Unsettled /\ Kept /\ Drop(k, job.lock)
          \/ row[k].st = "received" /\ job.got = "lost" /\ Undo /\ UNCHANGED run /\ job' = IdleJob
          \/ /\ row[k].st = "received" /\ job.got = "received" /\ k \notin job.late
             /\ issues' = Resolved(k) /\ UNCHANGED <<row, task, verdicts>> /\ Kept
             /\ Drop(k, TRUE)
          \/ /\ row[k].st = "received" /\ job.got = "received" /\ k \in job.late
             /\ \/ /\ Confirmable(k) /\ run' = Aborted({k})
                   /\ TerminalFailure(k, With(k, "timed_out"), IsReview(k))
                \/ /\ issues' = Mark(TaskOf(k), k) /\ UNCHANGED <<row, task, run>>
             /\ UNCHANGED <<bound, verdicts>>
             /\ Drop(k, FALSE)
          \/ /\ row[k].st = "received" /\ job.got \in {"failed", "timed_out"}
             /\ \E soft \in BOOLEAN : TerminalFailure(k, With(k, job.got), soft)
             /\ bound' = Collected /\ UNCHANGED <<run, verdicts>>
             /\ Drop(k, TRUE)
          \/ /\ row[k].st = "received" /\ job.got = "stopped"
             /\ row' = With(k, "stopped") /\ bound' = Collected
             /\ UNCHANGED <<task, issues, run, verdicts>>
             /\ Drop(k, TRUE)
          \/ /\ row[k].st = "received" /\ job.got = "responded"
             /\ \E v \in answer : AfterResponded(k, Answered(v))
             /\ bound' = Collected /\ UNCHANGED run
             /\ Drop(k, TRUE)
       /\ UNCHANGED <<appr, control, touched, asked, faults>>

\* A locked database, an exception or a restart.
TickAborts ==
    /\ faults < MaxFaults /\ job.at # "idle"
    /\ Undo /\ job' = IdleJob /\ faults' = faults + 1
    /\ UNCHANGED <<appr, control, touched, world>>

(********************************* the world *******************************)

RunEnds(k) ==
    /\ run[k] = "running"
    /\ \E end \in {"pass", "fail"} : run' = [run EXCEPT ![k] = end]
    /\ UNCHANGED <<task, books, issues, row, bound, asked, job, faults>>

\* The cancel of the Fast Gateway's own API, which knows no deliveries.
CancelRun(k) ==
    /\ "cancel" \in Ops /\ FastRun(k) /\ run[k] = "running"
    /\ run' = [run EXCEPT ![k] = "cancelled"]
    /\ UNCHANGED <<task, books, issues, row, bound, asked, job, faults>>

DeadlinePasses(k) ==
    /\ row[k].st \in Live /\ ~row[k].late
    /\ row' = [row EXCEPT ![k].late = TRUE]
    /\ UNCHANGED <<task, books, issues, bound, world, job, faults>>

(********************************** the API ********************************)

\* A request writes in one transaction of its own, when the thread holds no lock.
Asks(op)  == op \in Ops /\ ~job.lock
Barrier   == control = "running"   \* _require_not_stopped
Moves(t, from, to) == status[t] \in from /\ status' = [status EXCEPT ![t] = to]
BumpNever(t) == UNCHANGED rev   \* mutant: a task sent back or reopened keeps its revision
Bump(t)   == rev[t] <= MaxRev /\ rev' = [rev EXCEPT ![t] = @ + 1]
Untouched == UNCHANGED <<world, job, faults>>
Fresh(ks) == [k \in Keys |-> IF k \in ks THEN NewRow ELSE row[k]]
Absent(ks) == \A k \in ks : row[k].st = "absent"

\* approve_task and the transition to running: neither queues a delivery.
Approve(t) ==
    /\ Asks("approve") /\ Moves(t, {"awaiting_approval"}, "approved")
    /\ appr' = appr \cup {t}
    /\ UNCHANGED <<rev, cycle, recovered, verdicts, control, touched, issues, row, bound>> /\ Untouched

Reject(t) ==
    /\ Asks("approve") /\ Moves(t, {"awaiting_approval"}, "draft")
    /\ appr' = appr \ {t}
    /\ UNCHANGED <<rev, cycle, recovered, verdicts, control, touched, issues, row, bound>> /\ Untouched

RunTask(t) ==
    /\ Asks("approve") /\ Barrier /\ t \in appr /\ Moves(t, {"approved"}, "running")
    /\ UNCHANGED <<rev, cycle, recovered, books, issues, row, bound>> /\ Untouched

\* approve_and_execute_task.  It times out what is overdue of its agents, on every task,
\* and says nothing to those tasks.
ApproveExecute(t) ==
    LET own   == {<<t, a, rev[t]>> : a \in Team[t]}
        stale == {k \in Keys : AgentOf(k) \in Team[t] /\ row[k].st \in Live /\ row[k].late}
    IN /\ Asks("execute") /\ Barrier /\ rev[t] <= MaxRev /\ Absent(own)
       /\ Moves(t, {"awaiting_approval"}, "running")
       /\ appr' = appr \cup {t}
       /\ row' = [k \in Keys |-> CASE k \in own   -> NewRow
                                   [] k \in stale -> [row[k] EXCEPT !.st = "timed_out"]
                                   [] OTHER       -> row[k]]
       /\ UNCHANGED <<rev, cycle, recovered, verdicts, control, touched, issues, bound>>
       /\ Untouched

\* deliver_message: for the agents that are named, none of which has a live delivery.
Deliver(t, some) ==
    LET new == {<<t, a, rev[t]>> : a \in some}
    IN /\ Asks("deliver") /\ Barrier /\ status[t] = "running" /\ t \in appr
       /\ rev[t] <= MaxRev /\ Absent(new)
       /\ \A k \in Keys : AgentOf(k) \in some => row[k].st \notin Live
       /\ row' = Fresh(new)
       /\ UNCHANGED <<task, books, issues, bound>> /\ Untouched

\* transition_task to qa: every delivery of the revision answered, every Fast run of
\* whatever revision recorded as passed.
EnterQA(t) ==
    /\ Asks("transition") /\ Barrier /\ Moves(t, {"running"}, "qa")
    /\ RowsOf(t, rev[t]) # {} /\ \A k \in RowsOf(t, rev[t]) : row[k].st = "responded"
    /\ t \in Fast => /\ \E a \in Team[t] : bound[t][a] # 0
                     /\ \A k \in Keys : TaskOf(k) = t /\ RevOf(k) <= LastRun(k) /\ run[k] # "none"
                                         => row[k].st = "responded"
    /\ cycle' = [cycle EXCEPT ![t] = @ + 1]
    /\ UNCHANGED <<rev, recovered, books, issues, row, bound>> /\ Untouched

SendBack(t) ==
    /\ Asks("transition") /\ Moves(t, {"qa"}, "rework_required") /\ Bump(t)
    /\ UNCHANGED <<cycle, recovered, books, issues, row, bound>> /\ Untouched

\* Back to approval.  QA has advanced the revision already, a stop through a transition has
\* not; what was approved is revoked.
Renew(t) ==
    /\ Asks("transition")
    /\ \/ Moves(t, {"rework_required"}, "awaiting_approval") /\ appr' = appr \ {t} /\ UNCHANGED rev
       \/ Moves(t, {"stopped", "stop_unconfirmed"}, "awaiting_approval") /\ appr' = appr \ {t} /\ Bump(t)
       \/ Moves(t, {"draft"}, "awaiting_approval") /\ UNCHANGED <<appr, rev>>
    /\ UNCHANGED <<cycle, recovered, verdicts, control, touched, issues, row, bound>>
    /\ Untouched

\* A stop through transition_task touches no delivery.
Halt(t) ==
    /\ Asks("halt")
    /\ \/ Moves(t, {"approved", "running"}, "stopped")
       \/ Moves(t, {"running"}, "stop_unconfirmed")
    /\ UNCHANGED <<rev, cycle, recovered, books, issues, row, bound>> /\ Untouched

\* retry_delivery keeps the run id and asks nothing of the task.
Retry(k) ==
    /\ Asks("retry") /\ Barrier /\ AgentOf(k) \in Team[TaskOf(k)]
    /\ row[k].st \in {"failed", "timed_out"}
    /\ row' = [row EXCEPT ![k].st = "queued", ![k].tries = 0]
    /\ UNCHANGED <<task, books, issues, bound>> /\ Untouched

\* qa_verdict, signed by the reviewer; the evidence of a PASS has been found valid.
QaVerdict(t, v) ==
    /\ Asks("verdict") /\ Barrier /\ status[t] = "qa"
    /\ verdicts' = verdicts \cup {<<t, rev[t], cycle[t], v>>}
    /\ IF v = "PASS" THEN UNCHANGED task ELSE Rework(t)
    /\ UNCHANGED <<appr, control, touched, issues, row, bound>> /\ Untouched

Unsigned(t) == TRUE   \* mutant: the verdict is not asked for
Signed(t) == <<t, rev[t], cycle[t], "PASS">> \in verdicts

\* representative_completion, with _representative_completion_checks.
Complete(t) ==
    /\ Asks("complete") /\ Barrier /\ Signed(t)
    /\ \A i \in issues : i[1] = t => i[2] # rev[t]
    /\ Moves(t, {"qa"}, "completed")
    /\ UNCHANGED <<rev, cycle, recovered, books, issues, row, bound>> /\ Untouched

RejectCompletion(t) ==
    /\ Asks("complete") /\ Barrier /\ status[t] = "qa" /\ Rework(t)
    /\ UNCHANGED <<books, issues, row, bound>> /\ Untouched

\* resume_qa: a delivery that is over is archived and deleted, and the next one of a
\* new cycle is another delivery.  An issue observation left may stay.
ResumeQa(t) ==
    LET q == QAKey(t) IN
    /\ Asks("resume_qa") /\ Barrier /\ status[t] = "qa" /\ cycle[t] < MaxCycle
    /\ \A v \in verdicts : v[1] = t => v[2] # rev[t] \/ v[3] # cycle[t]
    /\ q \in Keys /\ row[q].st \notin Live
    /\ cycle' = [cycle EXCEPT ![t] = @ + 1]
    /\ run' = [run EXCEPT ![q] = "none"] /\ asked' = [asked EXCEPT ![q] = "nothing"]
    /\ \/ row' = [row EXCEPT ![q] = NewRow]
          /\ \E left \in {{}, {<<t, rev[t], q>>}} : issues' = (issues \ {<<t, rev[t], NoKey>>}) \ left
       \/ row' = [row EXCEPT ![q] = NoRow] /\ issues' = Mark(t, NoKey)
    /\ UNCHANGED <<status, rev, recovered, books, bound, job, faults>>

\* _result_revalidation_candidate: a run whose failure is on record, of whatever revision
\* (StageRecovery tells which), for a task that was sent back or has a RESULT issue.
Candidate(t, k, results) ==
    /\ FastRun(k) /\ TaskOf(k) = t /\ RevOf(k) <= LastRun(k) /\ row[k].st # "received"
    /\ run[k] = "fail" /\ asked[k] # "nothing" /\ <<t, rev[t], k>> \notin recovered
    /\ status[t] = "rework_required" \/ results # {}

\* QA is opened for the saved run of k.  The reviewer has a delivery of this revision, or
\* is given one; if none can be queued it is 409, and all of it is undone.
OpenQa(t, k, rows) ==
    /\ status' = [status EXCEPT ![t] = "qa"] /\ UNCHANGED rev
    /\ cycle' = [cycle EXCEPT ![t] = IF status[t] = "qa" THEN @ ELSE @ + 1]
    /\ recovered' = recovered \cup {<<t, rev[t], k>>}
    /\ row' = IF rows[QAKey(t)].st = "absent" THEN [rows EXCEPT ![QAKey(t)] = NewRow] ELSE rows

\* revalidate_task_result, when the saved response is valid after all.  The team's queued
\* deliveries are failed, the active ones go on.
Bypassed(t) == [j \in Keys |-> IF /\ TaskOf(j) = t /\ RevOf(j) = rev[t] /\ AgentOf(j) # Reviewer
                                  /\ row[j].st = "queued"
                               THEN [row[j] EXCEPT !.st = "failed"] ELSE row[j]]
Revalidate(t) ==
    /\ Asks("revalidate") /\ Barrier /\ t \in appr /\ rev[t] <= MaxRev
    /\ status[t] \in {"running", "qa", "rework_required"}
    /\ \E k \in Keys, results \in SUBSET {<<t, rev[t], a>> : a \in Keys} :
          /\ results \subseteq issues
          /\ \A i \in results : t \in Profiled /\ AgentOf(i[3]) # Reviewer
          /\ Candidate(t, k, results) /\ issues' = issues \ results
          /\ OpenQa(t, k, Bypassed(t))
    /\ UNCHANGED <<books, bound>> /\ Untouched

\* recover_false_qa_rework: of a verdict that refused an earlier revision's passed run
\* because, says the review, its receipt was missing.
RecoverQa(t) ==
    /\ Asks("recover_qa") /\ Barrier /\ t \in appr /\ rev[t] <= MaxRev
    /\ status[t] = "rework_required" /\ <<t, rev[t], NoKey>> \notin issues
    /\ \E k \in Keys, q \in Keys :
          /\ FastRun(k) /\ TaskOf(k) = t /\ run[k] = "pass" /\ row[k].st = "responded"
          /\ RevOf(k) < rev[t] /\ q = <<t, Reviewer, RevOf(k)>>
          /\ row[q].st = "responded" /\ row[q].says = "FAIL"
          /\ \E v \in verdicts : v[1] = t /\ v[2] = RevOf(k) /\ v[4] = "FAIL"
          /\ OpenQa(t, k, row)
    /\ UNCHANGED <<books, issues, bound>> /\ Untouched

\* What a stop does to deliveries: the queued ones are stopped, each active one is
\* stopped or, unconfirmed, failed (a timeout is stored and counted like it).
StopRows(ks, confirmed) ==
    [k \in Keys |-> CASE k \in ks /\ (row[k].st = "queued" \/ k \in confirmed) ->
                           [row[k] EXCEPT !.st = "stopped"]
                      [] k \in ks /\ row[k].st \in Active /\ k \notin confirmed ->
                           [row[k] EXCEPT !.st = "failed"]
                      [] OTHER -> row[k]]
LiveOf(ts) == {k \in Keys : TaskOf(k) \in ts /\ row[k].st \in Live}
\* A Fast delivery claimed and not dispatched yet has no Core record: its snapshot fails,
\* and the request with it.
StopDeliveries(ts, confirmed) ==
    LET active == {k \in LiveOf(ts) : row[k].st \in Active} IN
    /\ \A k \in active : FastRun(k) => run[k] # "none"
    /\ confirmed \subseteq {k \in active : Confirmable(k)}
    /\ row' = StopRows(LiveOf(ts), confirmed)
    /\ run' = Aborted(confirmed)
    /\ bound' = Persisted({k \in active : FastRun(k)})
AllConfirmed(ts, confirmed) == \A k \in LiveOf(ts) : row[k].st \in Active => k \in confirmed

\* stop_task.  An outcome that repeats the task's status moves no revision.
StopTask(t) ==
    \E confirmed \in SUBSET LiveOf({t}) :
        LET final == IF AllConfirmed({t}, confirmed) THEN "stopped" ELSE "stop_unconfirmed" IN
        /\ Asks("stop_task") /\ status[t] # "completed"
        /\ StopDeliveries({t}, confirmed)
        /\ appr' = appr \ {t} /\ touched' = touched \ LiveOf({t})
        /\ status' = [status EXCEPT ![t] = final]
        /\ IF status[t] = final THEN UNCHANGED rev ELSE Bump(t)
        /\ UNCHANGED <<cycle, recovered, verdicts, control, issues, asked, job, faults>>

\* stop_project.  Nothing live counts as everything confirmed.
StopProject ==
    \E confirmed \in SUBSET LiveOf(Tasks) :
        LET sure  == AllConfirmed(Tasks, confirmed)
            begun == {t \in Tasks : status[t] \in {"approved", "running", "qa", "rework_required"}}
        IN /\ Asks("stop_project") /\ \A t \in begun : rev[t] <= MaxRev
           /\ StopDeliveries(Tasks, confirmed)
           /\ control' = IF sure THEN "stopped" ELSE "stop_failed"
           /\ touched' = LiveOf(Tasks) /\ appr' = {}
           /\ status' = [t \in Tasks |-> IF t \notin begun THEN status[t]
                                         ELSE IF sure THEN "stopped" ELSE "stop_unconfirmed"]
           /\ rev' = [t \in Tasks |-> IF t \in begun THEN rev[t] + 1 ELSE rev[t]]
           /\ UNCHANGED <<cycle, recovered, verdicts, issues, asked, job, faults>>

\* stop_ack, with _stop_cycle_state over the rows of the stop cycle.
StopAck(k) ==
    /\ Asks("stop_project") /\ control # "running"
    /\ k \in touched /\ row[k].st = "stopped"
    /\ control' = IF \E j \in touched : row[j].st \in {"failed", "timed_out"} THEN "stop_failed" ELSE "stopped"
    /\ UNCHANGED <<task, appr, verdicts, touched, issues, row, bound>> /\ Untouched

\* resume_project: every task the stop cycle touched has a fresh approval.
Resume ==
    /\ Asks("resume") /\ control = "stopped"
    /\ \A k \in touched : TaskOf(k) \in appr
    /\ control' = "running" /\ touched' = {}
    /\ UNCHANGED <<task, appr, verdicts, issues, row, bound>> /\ Untouched

\* revoke_approval, or its expiry.
LoseApproval(t) ==
    /\ Asks("revoke") /\ t \in appr
    /\ appr' = appr \ {t}
    /\ UNCHANGED <<task, verdicts, control, touched, issues, row, bound>> /\ Untouched

(****************************** specification ******************************)

Observing == \/ Tick \/ TurnToPoll \/ TickDone
             \/ \E k \in Keys : \/ Revoked(k) \/ Expire(k) \/ Skip(k) \/ Claim(k)
                                \/ SendFast(k) \/ SendDirect(k) \/ Settle(k)
                                \/ Poll(k) \/ SettlePoll(k)
Runtime   == Observing \/ TickAborts \/ \E k \in Keys : PollFails(k)

Environment == \E k \in Keys : RunEnds(k) \/ CancelRun(k) \/ DeadlinePasses(k)

Request == \/ StopProject \/ Resume
           \/ \E k \in Keys : Retry(k) \/ StopAck(k)
           \/ \E t \in Tasks : \/ Approve(t) \/ Reject(t) \/ RunTask(t) \/ ApproveExecute(t)
                               \/ \E some \in (SUBSET Team[t]) \ {{}} : Deliver(t, some)
                               \/ EnterQA(t) \/ SendBack(t) \/ Renew(t) \/ Halt(t)
                               \/ \E v \in {"PASS", "FAIL"} : QaVerdict(t, v)
                               \/ Complete(t) \/ RejectCompletion(t) \/ ResumeQa(t)
                               \/ Revalidate(t) \/ RecoverQa(t)
                               \/ StopTask(t) \/ LoseApproval(t)

Next == Runtime \/ Environment \/ Request

Spec == Init /\ [][Next]_vars

\* The thread is always scheduled and abandons only MaxFaults ticks; runs come to an end.
FairSpec == /\ Spec /\ WF_vars(Observing)
            /\ \A k \in Keys : WF_vars(RunEnds(k))

(******************************** properties *******************************)

\* What requests and readers of the database see, and what the thread adds to it; an
\* abandoned tick only takes back what was never seen.
Seen   == IF job.lock THEN job.base ELSE Stored
Writes == Runtime /\ job'.at # "idle"

\* The claim step (war_room_worker.py:908) counts an agent's sent and received rows on
\* every task before it claims another: an agent never has two deliveries under way,
\* however requests, retries, reclaimed and abandoned rows come in between.
OneActivePerAgent ==
    \A j, k \in Keys : j # k /\ AgentOf(j) = AgentOf(k) => ~(row[j].st \in Active /\ row[k].st \in Active)

\* The task's present revision has its team's answers, or stands on the saved run that a
\* stage recovery opened QA of this revision for.
Answered(t) == TeamRows(t, rev[t]) # {} /\ \A k \in TeamRows(t, rev[t]) : row[k].st = "responded"
Reopened(t) == \E h \in recovered : h[1] = t /\ h[2] = rev[t]

\* A task is in QA, through _apply_collaboration_outcome or through transition_task, only
\* while every answer its current revision asked of its team has come in; only
\* revalidate_task_result and recover_qa_rework put it there without, and leave a record.
QaMeansAnswered == \A t \in Tasks : status[t] = "qa" => Answered(t) \/ Reopened(t)

\* What representative_completion accepted stays what it was: a completed task has a PASS
\* signed for its present revision and QA cycle, whatever recovery it went through, on
\* answers that are all in unless a stage recovery opened QA of this revision.
CompletedIsSigned ==
    \A t \in Tasks : status[t] = "completed" =>
        /\ <<t, rev[t], cycle[t], "PASS">> \in verdicts
        /\ Answered(t) \/ Reopened(t)

\* A running task whose deliveries exist is carried by a live delivery or shows an open
\* processing issue (_terminal_validation_failure, _safe_after_responded_delivery): it is
\* never left running with nothing that can move it and nothing to be seen.
RunningIsDriven ==
    \A t \in Tasks : status[t] = "running" /\ RowsOf(t, rev[t]) # {} =>
        \/ \E k \in RowsOf(t, rev[t]) : row[k].st \in Live
        \/ \E i \in issues : i[1] = t /\ i[2] = rev[t]

\* stop_bound_delivery stops "the exact execution" (war_room_worker.py:1154): the run of a
\* Fast Gateway delivery that is stored as stopped is not running.
StoppedIsQuiet == \A k \in Keys : FastRun(k) /\ row[k].st = "stopped" => run[k] # "running"

\* A project whose stop is confirmed has no run going (resume_project accepts nothing else).
StopConfirmed == control = "stopped" => \A k \in Keys : run[k] # "running"

\* Whoever reviews is asked to review: no delivery to the reviewer carries the worker's
\* instruction (war_room_worker.py:477).
QAReadOnly == \A k \in Keys : AgentOf(k) = Reviewer => asked[k] # "work"

\* A revision is executed once: a task that starts running has no delivery of its revision.
ExecutedOnce ==
    [][\A t \in Tasks : Seen.status[t] # "running" /\ Seen'.status[t] = "running"
                        => RowsOf(t, rev[t]) = {}]_vars

\* The runtime moves a task only in a step that settles a delivery of the task's present
\* revision, or that finds it overdue or its agent's admission revoked: a late or stale
\* answer moves nothing.
RuntimeMovesCurrent ==
    [][Writes => \A t \in Tasks : <<status[t], rev[t]>>' # <<status[t], rev[t]>> =>
        \E k \in Keys : /\ TaskOf(k) = t /\ RevOf(k) = rev[t]
                        /\ \/ row'[k].st # row[k].st
                           \/ job.at = "due" /\ k \in job.todo
                              /\ (k \in job.late \/ AgentOf(k) \in Revocable)]_vars

\* The runtime never moves a task that is completed or stopped.
ClosedStays ==
    [][Writes => \A t \in Tasks : status[t] \in Closed => UNCHANGED <<status[t], rev[t]>>]_vars

\* process_due_deliveries "never replay[s] terminal rows" (war_room_worker.py:859): a row
\* that is settled stays as it is until a request renews it.
SettledStays ==
    [][Writes => \A k \in Keys : row[k].st \notin Live => row'[k].st \in {row[k].st, "queued"}]_vars

\* Each task, whatever happens to its deliveries, follows the contract.
Contract == INSTANCE TaskContract WITH status <- Seen.status, revision <- Seen.rev
TasksKeepContract == Contract!Spec

Waiting(k) == row[k].st \in {"queued", "sent"}

\* Every delivery of a worker that is queued or claimed is sent for good or settled.
DeliveriesMove == \A k \in Keys : AgentOf(k) # Reviewer => (Waiting(k) ~> ~Waiting(k))

\* A task that runs with its deliveries asked for leaves running, or shows an issue.
TasksMoveOn ==
    \A t \in Tasks : (status[t] = "running" /\ RowsOf(t, rev[t]) # {})
                     ~> (status[t] # "running" \/ \E i \in issues : i[1] = t)

(************************* why the invariants hold *************************)

Executed == {"running", "qa"} \cup Closed
Checked  == {"qa", "completed"}
OfTask(s, k)  == RevOf(k) = s.rev[TaskOf(k)]   \* k is of its task's revision
Reopens(s, t) == \E h \in s.recovered : h[1] = t /\ h[2] = s.rev[t]
Reached(s, k) == RevOf(k) < s.rev[TaskOf(k)] \/ (OfTask(s, k) /\ s.status[TaskOf(k)] \in Executed)

\* Deliveries exist only of revisions that were executed or reopened; the reviewer has one
\* of the present revision only once the team has answered it, or QA was reopened.
RowTrue(s, k) ==
    /\ s.row[k].st # "absent" =>
        /\ Reached(s, k)
        /\ OfTask(s, k) /\ AgentOf(k) = Reviewer => s.status[TaskOf(k)] \in Checked
        /\ OfTask(s, k) /\ AgentOf(k) # Reviewer /\ s.status[TaskOf(k)] \in Checked
           => s.row[k].st = "responded" \/ Reopens(s, TaskOf(k))
    /\ s.row[k].st \in {"queued", "sent"} => s.row[k].tries < MaxTries
    /\ FastRun(k) => s.row[k].says = "none"

\* A revision goes through QA once, and leaves it only to completion or to the next.
TaskTrue(s, t) ==
    /\ s.status[t] \in Checked =>
          \/ Reopens(s, t)
          \/ \E k \in Keys : /\ TaskOf(k) = t /\ OfTask(s, k) /\ AgentOf(k) # Reviewer
                             /\ s.row[k].st # "absent"
    /\ s.status[t] = "completed" => <<t, s.rev[t], s.cycle[t], "PASS">> \in s.verdicts
    /\ s.cycle[t] <= MaxCycle + s.rev[t] - (IF s.status[t] \in Checked THEN 0 ELSE 1)

\* Verdicts are of revisions and cycles there have been; one that the automatic review
\* has signed is the reviewer's answer to its one delivery.
VerdictTrue(s, v) ==
    /\ v[2] <= s.rev[v[1]]
    /\ v[2] = s.rev[v[1]] => v[3] <= s.cycle[v[1]]
    /\ "verdict" \notin Ops /\ v[2] = s.rev[v[1]] /\ v[3] = s.cycle[v[1]]
       => \A k \in Keys : TaskOf(k) = v[1] /\ OfTask(s, k) /\ AgentOf(k) = Reviewer
                          => s.row[k].st = "responded" /\ s.row[k].says = v[4]

Sound(s) ==
    /\ s \in Snapshots
    /\ \A k \in Keys : RowTrue(s, k)
    /\ \A t \in Tasks : TaskTrue(s, t)
    /\ \A v \in s.verdicts : VerdictTrue(s, v)
    /\ \A j, k \in Keys : j # k /\ AgentOf(j) = AgentOf(k)
                          => ~(s.row[j].st \in Active /\ s.row[k].st \in Active)

\* A delivery the thread has read exists still, and is read as it was: nothing answers it
\* before it is sent, nothing settles a review and leaves its task in QA.
Carried(k) ==
    /\ row[k].st # "absent"
    /\ job.at \in {"due", "claimed", "sent"} => row[k].st # "responded"
    /\ OfTask(Stored, k) /\ IsReview(k) => row[k].st \in Live

\* What one transaction of the thread does to a task of the Fast Gateway whose only
\* reviewer is the automatic one, in however many steps.
AutoQa == Fast = Tasks /\ "verdict" \notin Ops
Once(s, n, t) ==
    \/ n.status[t] = s.status[t] /\ n.rev[t] = s.rev[t]
    \/ s.status[t] = "running" /\ n.status[t] = "qa" /\ n.rev[t] = s.rev[t]
    \/ s.status[t] \in {"running", "qa"} /\ n.status[t] = "rework_required" /\ n.rev[t] = s.rev[t] + 1

IndInv ==
    /\ TypeOK /\ Sound(Stored) /\ Sound(Seen)
    /\ \A k \in job.todo : Carried(k)
    /\ \A t \in Tasks : status[t] = "running" => Seen.status[t] = "running"
    /\ AutoQa => \A t \in Tasks : Once(Seen, Stored, t)

(* Two properties hold where nothing interferes with a delivery from outside; the second  *)
(* also needs every run that a stop may be about to be the recorded one.                  *)

\* No agent works for two tasks, and nobody cancels runs behind the deliveries' back.
Undisturbed == "cancel" \notin Ops /\ \A t, u \in Tasks : t # u => Team[t] \cap Team[u] = {}

\* A running task: whatever was not answered is live or has an issue of its own, and when
\* all is answered there is an issue too (otherwise the task would be in QA).
Driven(s, t) == s.status[t] = "running" =>
    LET asks == {k \in Keys : TaskOf(k) = t /\ OfTask(s, k) /\ s.row[k].st # "absent"}
        open == {k \in asks : s.row[k].st # "responded"}
    IN /\ \A k \in open : s.row[k].st \in Live \/ <<t, s.rev[t], k>> \in s.issues
       /\ asks # {} => open # {} \/ \E i \in s.issues : i[1] = t /\ i[2] = s.rev[t]

Heeded(k) == job.at = "sent" /\ job.key = k /\ job.got = "received"

\* The run of a running task's delivery is not cancelled while somebody waits for it.
Awaited(s, k) == FastRun(k) /\ OfTask(s, k) /\ s.status[TaskOf(k)] = "running"
                 /\ (s.row[k].st = "received" \/ (s.row[k].st = "sent" /\ Heeded(k)))
                 => run[k] # "cancelled"

\* What the thread has heard is so still.
HeardTrue(k) == /\ job.at = "polled" /\ job.key = k /\ job.got = "stopped"
                   => FastRun(k) /\ run[k] = "cancelled"
                /\ job.at = "sent" /\ job.key = k /\ job.got # "received" /\ FastRun(k)
                   => run[k] # "running"

DrivenInv == /\ \A s \in {Stored, Seen} : /\ \A t \in Tasks : Driven(s, t)
                                          /\ \A k \in Keys : Awaited(s, k)
             /\ \A k \in Keys : HeardTrue(k)

\* A stop finds what it is about: no run goes on for a delivery that waits to be sent, and
\* no other run is recorded for the task and the agent of one under way.
StopFinds == \A k \in Keys : FastRun(k) /\ run[k] = "running" =>
    /\ row[k].st # "queued"
    /\ row[k].st \in Active => LastRun(k) \in {0, RevOf(k)}

\* A run goes on only for a delivery that was sent and is not stored as stopped.
Quiet(s, k) == FastRun(k) /\ run[k] = "running" => s.row[k].st \notin {"absent", "queued", "stopped"}

QuietInv == /\ \A s \in {Stored, Seen} : \A k \in Keys : Quiet(s, k)
            /\ \A k \in Keys : HeardTrue(k)
================================================================================
