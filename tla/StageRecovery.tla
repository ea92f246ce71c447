------------------------------ MODULE StageRecovery ------------------------------
(***************************************************************************)
(* What the representative can do for a task whose stage has failed:       *)
(* revalidate_task_result, resume_task_qa and recover_qa_rework of         *)
(* war_room_actions.py with war_room_stage_recovery.py, the evidence they  *)
(* hand to the review (war_room_worker._capture_required_evidence,         *)
(* war_room_task_contract.py), the fresh-context tokens the requests carry *)
(* and supersede_task.  One task; the delivery loop is that of             *)
(* DeliveryWorker, reduced to what these requests read.                    *)
(***************************************************************************)
EXTENDS Naturals, Sequences, FiniteSets

CONSTANTS
    Team,        \* war_task_agents, in the order of their ids
    MaxRev,      \* bound on the revisions that are executed
    MaxCycle,    \* bound on the QA cycles
    NoToken, NoRow

Worker  == {Team[i] : i \in DOMAIN Team}
Runs    == (1..MaxRev) \X Worker     \* one delivery, and one Core run, per revision
RevOf(k) == k[1]

VARIABLES
    profiled,           \* the grounding packet has a profile: its evidence is the receipt
    status, rev, cycle, \* war_tasks
    appr,               \* an approval of this scope, document and team is in force
    work,               \* the workers' deliveries
    run, failures,      \* war_execution_runs: run_status; failed runs, the latest last
    review,             \* per revision, the reviewer's delivery and its answer
    verdicts,           \* war_qa_verdicts, the latest last
    issues,             \* OPEN war_processing_issues: <<revision, stage, delivery or NoRow>>
    evidence,           \* war_evidence: revision, cycle, run and sha256
    file,               \* the artifact the worker named, up to its content
    history,            \* war_result_revalidation_history, PASS: <<revision, run>>
    token, moved,       \* a context a client holds, and whether the task has moved since
    other,              \* the replacement: "open", "passed" or "reworked"
    superseding, superseded

task   == <<status, rev, cycle>>
stage  == <<profiled, task, appr, work, run, failures, review, verdicts, issues, evidence,
            file, history, token, moved, other, superseding, superseded>>

NoReview == [st |-> "absent", says |-> "none"]
Live     == {"queued", "running"}

Init ==
    /\ profiled \in BOOLEAN
    /\ status = "awaiting_approval" /\ rev = 1 /\ cycle = 0 /\ appr = FALSE
    /\ work = [k \in Runs |-> "absent"] /\ run = [k \in Runs |-> "none"] /\ failures = <<>>
    /\ review = [r \in 1..MaxRev |-> NoReview]
    /\ verdicts = <<>> /\ issues = {} /\ evidence = {} /\ file = 0 /\ history = {}
    /\ token = NoToken /\ moved = FALSE
    /\ other = "open" /\ superseding = FALSE /\ superseded = 0

(********************************** evidence *******************************)

Keys(r)       == {k \in Runs : RevOf(k) = r}
Responded(w, r) == {k \in Keys(r) : w[k] = "responded"}
Of(E, r, c)   == {e \in E : e.rev = r /\ e.cycle = c}
First(K)      == CHOOSE k \in K : \A j \in K : \E m, n \in DOMAIN Team :
                    k[2] = Team[m] /\ j[2] = Team[n] /\ m <= n

\* What is hashed: for a profiled task the receipt, which names revision, cycle and the
\* answers of that revision; else the file as it is.
Sha(w, r, c) == IF profiled THEN <<r, c, Responded(w, r)>> ELSE <<file>>

\* _capture_required_evidence into cycle c; the receipt of a revision nobody has answered
\* cannot be made (an exception), a file nobody named is only audited.
Capturable(w, r) == profiled => Responded(w, r) # {}
Captured(w, c) ==
    IF Of(evidence, rev, c) # {} \/ Responded(w, rev) = {} THEN evidence
    ELSE evidence \cup {[rev |-> rev, cycle |-> c, of |-> First(Responded(w, rev)),
                         sha |-> Sha(w, rev, c)]}

\* Evidence of cycle c of revision r, copied into the present revision's cycle n; of
\* several the one that was recorded first.
Copied(E, n, k) ==
    IF E = {} \/ Of(evidence, rev, n) # {} THEN evidence
    ELSE LET e == CHOOSE x \in E : \A y \in E : x.cycle <= y.cycle
         IN evidence \cup {[rev |-> rev, cycle |-> n, of |-> k, sha |-> e.sha]}

\* _qa_evidence_validation: one piece of evidence of this cycle, and its hash is true now.
Provable ==
    /\ Of(evidence, rev, cycle) # {}
    /\ profiled => Responded(work, rev) # {}
    /\ \A e \in Of(evidence, rev, cycle) :
          /\ e.sha = Sha(work, rev, cycle)
          /\ profiled => e.of = First(Responded(work, rev))

(************************* the task and its deliveries *********************)

Moves  == moved' = TRUE
Rework == status' = "rework_required" /\ rev' = rev + 1 /\ UNCHANGED cycle /\ Moves
Stands == UNCHANGED <<task, moved>>
Asked  == UNCHANGED <<token, superseding, superseded, other>>
Fixed  == UNCHANGED <<profiled, file>> /\ Asked

\* The issues of this revision in a stage, and what the answer to a delivery resolves: a
\* worker's is known by its run, the reviewer's by its revision.
Reviewers == <<rev, NoRow>>
Open(of)    == {i \in issues : i[1] = rev /\ i[2] = of}
Resolved(d) == {i \in issues : i[3] # d}

\* _queue_auto_qa_delivery: once per revision, or no session could be had for it.
Queued(rows) == IF rows[rev].st # "absent" THEN rows
                ELSE [rows EXCEPT ![rev] = [NoReview EXCEPT !.st = "queued"]]
Provision(open) ==
    \/ review' = Queued(review) /\ issues' = open
    \/ review[rev].st = "absent" /\ UNCHANGED review /\ issues' = open \cup {<<rev, "QA", NoRow>>}

\* The dispatch is authorized for a running task of this revision only.
Authorized(k) == status = "running" /\ rev = RevOf(k) /\ appr

\* The worker's run; a refused dispatch is no recoverable stage.
WorkStarts(k) ==
    /\ work[k] = "queued" /\ Authorized(k)
    /\ work' = [work EXCEPT ![k] = "running"]
    /\ UNCHANGED <<task, moved, appr, run, failures, review, verdicts, issues, evidence,
                   history>> /\ Fixed

\* _terminal_validation_failure
Fails(k, held) ==
    /\ work' = [j \in Runs |-> IF j = k THEN "failed"
                               ELSE IF ~held /\ rev = RevOf(k) /\ status \in {"running", "qa"}
                                       /\ RevOf(j) = rev /\ work[j] = "queued" THEN "failed"
                               ELSE work[j]]
    /\ IF rev # RevOf(k) \/ status \notin {"running", "qa"} THEN Stands /\ UNCHANGED issues
       ELSE IF held THEN Stands /\ issues' = issues \cup {<<rev, "RESULT", k>>}
       ELSE Rework /\ UNCHANGED issues
    /\ UNCHANGED <<appr, review, verdicts, evidence, history>> /\ Fixed

WorkRefused(k) ==
    /\ work[k] = "queued" /\ ~Authorized(k) /\ Fails(k, FALSE) /\ UNCHANGED <<run, failures>>

WorkFails(k) ==
    /\ work[k] = "running"
    /\ \E held \in {FALSE, profiled} : Fails(k, held)
    /\ run' = [run EXCEPT ![k] = "fail"]
    /\ failures' = Append(SelectSeq(failures, LAMBDA j : j # k), k)

\* The last answer of the team opens QA; one that comes during QA completes its evidence.
\* An exception on the way keeps the answer and opens an issue.
WorkAnswers(k) ==
    LET now  == [work EXCEPT ![k] = "responded"]
        all  == rev = RevOf(k) /\ \A j \in Keys(rev) : now[j] \in {"absent", "responded"}
        next == IF status = "running" THEN cycle + 1 ELSE cycle
    IN /\ work[k] = "running" /\ work' = now
       /\ run' = [run EXCEPT ![k] = "pass"] /\ failures' = SelectSeq(failures, LAMBDA j : j # k)
       /\ IF all /\ status \in {"running", "qa"}
          THEN /\ status' = "qa" /\ cycle' = next /\ UNCHANGED rev
               /\ IF status = "running" THEN Moves ELSE UNCHANGED moved
               /\ evidence' = Captured(now, next)
               /\ Provision(Resolved(k))
          ELSE Stands /\ UNCHANGED <<evidence, review>> /\ issues' = Resolved(k)
       /\ UNCHANGED <<appr, verdicts, history>> /\ Fixed

\* retry_delivery asks nothing of the task.
Retry(k) ==
    /\ work[k] = "failed" /\ work' = [work EXCEPT ![k] = "queued"]
    /\ UNCHANGED <<task, moved, appr, run, failures, review, verdicts, issues, evidence,
                   history>> /\ Fixed

\* The reviewer's answer.  "missing" is a REWORK that says the receipt was not found.
ReviewAnswers(says) ==
    /\ status = "qa" /\ review[rev].st = "queued"
    /\ review' = [review EXCEPT ![rev] = [st |-> "responded", says |-> says]]
    /\ IF says # "PASS" \/ Provable
       THEN /\ verdicts' = Append(verdicts, [rev |-> rev, cycle |-> cycle, v |-> says])
            /\ IF says = "PASS" THEN UNCHANGED task /\ Moves ELSE Rework
            /\ issues' = Resolved(Reviewers)
       ELSE issues' = Resolved(Reviewers) \cup {<<rev, "QA", NoRow>>} /\ Stands /\ UNCHANGED verdicts
    /\ UNCHANGED <<appr, work, run, failures, evidence, history>> /\ Fixed

\* The review itself fails: held for a profiled task.
ReviewFails ==
    /\ status = "qa" /\ review[rev].st = "queued"
    /\ review' = [review EXCEPT ![rev].st = "failed"]
    /\ IF profiled THEN Stands /\ issues' = issues \cup {<<rev, "QA", Reviewers>>}
                   ELSE Rework /\ UNCHANGED issues
    /\ UNCHANGED <<appr, work, run, failures, verdicts, evidence, history>> /\ Fixed

ApprovalLapses ==
    /\ appr /\ appr' = FALSE
    /\ UNCHANGED <<profiled, task, moved, work, run, failures, review, verdicts, issues,
                   evidence, file, history>> /\ Asked

FileChanges ==
    /\ file = 0 /\ ~profiled /\ file' = 1
    /\ UNCHANGED <<profiled, task, moved, appr, work, run, failures, review, verdicts, issues,
                   evidence, history>> /\ Asked

(************************* requests of the representative ******************)

\* _mutation_state_fingerprint of a task action.
\* mutant: the QA cycle and its rows are not seen
WithoutCycle == <<status, rev, appr, {<<k, work[k]>> : k \in Keys(rev)},
                  IF rev > MaxRev THEN NoReview ELSE review[rev]>>
Fingerprint ==
    <<task, appr, {<<k, work[k]>> : k \in Keys(rev)},
      IF rev > MaxRev THEN NoReview ELSE review[rev],
      Of(evidence, rev, cycle), SelectSeq(verdicts, LAMBDA v : v.rev = rev /\ v.cycle = cycle)>>

\* mutation_context.  A request made at once always passes; one client is slow.
MutationContext ==
    /\ token = NoToken /\ token' = Fingerprint /\ moved' = FALSE
    /\ UNCHANGED <<profiled, task, appr, work, run, failures, review, verdicts, issues,
                   evidence, file, history, other, superseding, superseded>>

\* _require_fresh_context: a token that is taken now, or the one the slow client holds.
Fresh == \/ UNCHANGED token
         \/ token = Fingerprint /\ token' = NoToken

\* No two of these handlers run at once, they are coroutines of one event loop and await
\* nothing.  A replay of an answered request changes nothing.
Request ==
    /\ ~superseding /\ Fresh
    /\ UNCHANGED <<superseding, superseded, other>>

ApproveExecute ==
    /\ status = "awaiting_approval" /\ rev <= MaxRev
    /\ status' = "running" /\ UNCHANGED <<rev, cycle>> /\ Moves
    /\ appr' = TRUE
    /\ work' = [k \in Runs |-> IF RevOf(k) = rev THEN "queued" ELSE work[k]]
    /\ UNCHANGED <<profiled, run, failures, review, verdicts, issues, evidence, file, history>>
    /\ Request

\* transition_task: another approval for what was sent back.
Renew ==
    /\ status = "rework_required" /\ rev <= MaxRev
    /\ status' = "awaiting_approval" /\ UNCHANGED <<rev, cycle>> /\ Moves /\ appr' = FALSE
    /\ UNCHANGED <<profiled, work, run, failures, review, verdicts, issues, evidence, file,
                   history, token, other, superseding, superseded>> /\ ~superseding

\* _result_revalidation_candidate: the run that failed last, of whatever revision.
Candidate(k) ==
    /\ status = "rework_required" \/ Open("RESULT") # {}
    /\ failures # <<>> /\ k = failures[Len(failures)]
    /\ appr /\ <<rev, k>> \notin history

\* revalidate_task_result: the saved response is valid after all.  (One that is not
\* leaves a row of history and nothing else.)
Revalidate(k) ==
    LET next == IF status = "qa" THEN cycle ELSE cycle + 1 IN
    /\ status \in {"running", "qa", "rework_required"} /\ rev <= MaxRev /\ next <= MaxCycle
    /\ Candidate(k)
    /\ status' = "qa" /\ cycle' = next /\ UNCHANGED rev
    /\ IF status = "qa" THEN UNCHANGED moved ELSE Moves   \* only updated_at, in seconds
    /\ work' = [j \in Runs |-> IF RevOf(j) = rev /\ work[j] = "queued" THEN "failed" ELSE work[j]]
    /\ evidence' = Copied({e \in evidence : e.rev = RevOf(k)}, next, k)
    /\ review' = Queued(review)          \* else 409, and all of it is undone
    /\ issues' = issues \ Open("RESULT")
    /\ history' = history \cup {<<rev, k>>}
    /\ UNCHANGED <<profiled, appr, run, failures, verdicts, file>> /\ Request

Judged == \E i \in DOMAIN verdicts : verdicts[i].rev = rev /\ verdicts[i].cycle = cycle

\* resume_qa: a review that is over is archived and a new cycle opened.  (One that is
\* under way is reported, and nothing changes.)
ResumeQa ==
    /\ status = "qa" /\ ~Judged /\ cycle < MaxCycle /\ review[rev].st # "queued"
    /\ Capturable(work, rev)             \* else 409
    /\ cycle' = cycle + 1 /\ UNCHANGED <<status, rev>> /\ Moves
    /\ evidence' = Captured(work, cycle + 1)
    /\ \/ review' = [review EXCEPT ![rev] = [NoReview EXCEPT !.st = "queued"]]
          /\ issues' = issues \ Open("QA")
       \/ review' = [review EXCEPT ![rev] = NoReview] /\ issues' = issues \cup {<<rev, "QA", NoRow>>}
    /\ UNCHANGED <<profiled, appr, work, run, failures, verdicts, file, history>> /\ Request

\* recover_false_qa_rework: of the verdict i the client names.
Bound(i, k) ==
    LET v == verdicts[i] IN
    /\ v.v # "PASS" /\ v.rev < rev /\ RevOf(k) = v.rev /\ k[2] = Team[1]
    /\ run[k] = "pass" /\ work[k] = "responded"
    /\ review[v.rev] = [st |-> "responded", says |-> "missing"]
    /\ v.v = "missing"
Intact(E, k) == E # {} /\ \A e \in E : e.of = k /\ (profiled \/ e.sha = <<file>>)

RecoverRework(i, k) ==
    LET source == Of(evidence, verdicts[i].rev, verdicts[i].cycle) IN
    /\ status = "rework_required" /\ rev <= MaxRev /\ cycle < MaxCycle
    /\ Bound(i, k) /\ appr /\ Open("QA") = {} /\ Intact(source, k)
    /\ status' = "qa" /\ cycle' = cycle + 1 /\ UNCHANGED rev /\ Moves
    /\ evidence' = Copied(source, cycle + 1, k)
    /\ review' = Queued(review)
    /\ UNCHANGED <<profiled, appr, work, run, failures, verdicts, issues, file, history>>
    /\ Request

\* representative_completion, with _representative_completion_checks.
Complete ==
    /\ status = "qa" /\ Of(evidence, rev, cycle) # {}
    /\ \E i \in DOMAIN verdicts : verdicts[i] = [rev |-> rev, cycle |-> cycle, v |-> "PASS"]
    /\ profiled => Provable
    /\ \A i \in issues : i[1] # rev
    /\ status' = "completed" /\ UNCHANGED <<rev, cycle>> /\ Moves
    /\ UNCHANGED <<profiled, appr, work, run, failures, review, verdicts, issues, evidence,
                   file, history>> /\ Request

\* supersede_task holds no lock before it writes: the delivery loop may come in between.
SupersedeLook ==
    /\ status = "rework_required" /\ other = "passed" /\ superseded = 0
    /\ \A k \in Runs : work[k] \notin Live
    /\ \A r \in 1..MaxRev : review[r].st # "queued"
    /\ ~superseding /\ superseding' = TRUE
    /\ UNCHANGED <<profiled, task, moved, appr, work, run, failures, review, verdicts, issues,
                   evidence, file, history, token, other, superseded>>
SupersedeWrite ==
    /\ superseding /\ superseding' = FALSE /\ superseded' = superseded + 1
    /\ UNCHANGED <<profiled, task, moved, appr, work, run, failures, review, verdicts, issues,
                   evidence, file, history, token, other>>
OtherJudged(v) ==
    /\ \/ other = "open"
       \/ other = "passed" /\ v = "reworked"
    /\ other' = v
    /\ UNCHANGED <<profiled, task, moved, appr, work, run, failures, review, verdicts, issues,
                   evidence, file, history, token, superseding, superseded>>

Next ==
    \/ \E k \in Runs : \/ WorkStarts(k) \/ WorkRefused(k) \/ WorkFails(k) \/ WorkAnswers(k)
                       \/ Retry(k) \/ Revalidate(k)
                       \/ \E i \in DOMAIN verdicts : RecoverRework(i, k)
    \/ \E says \in {"PASS", "rework", "missing"} : ReviewAnswers(says)
    \/ ReviewFails \/ ApprovalLapses \/ FileChanges
    \/ MutationContext \/ ApproveExecute \/ Renew \/ ResumeQa \/ Complete
    \/ SupersedeLook \/ SupersedeWrite \/ \E v \in {"passed", "reworked"} : OtherJudged(v)
(******************************* properties ********************************)

\* Whatever was recovered on the way, a PASS stands on evidence of its own revision and
\* cycle, of a run that passed or whose saved response was found valid.
SignedIsProven ==
    \A i \in DOMAIN verdicts : verdicts[i].v = "PASS" =>
        \E e \in Of(evidence, verdicts[i].rev, verdicts[i].cycle) :
            /\ run[e.of] = "pass" \/ \E h \in history : h[2] = e.of
            /\ profiled => e.sha = <<verdicts[i].rev, verdicts[i].cycle, e.sha[3]>>

\* "worker_redispatched" is false and stays so: a delivery whose saved response was
\* accepted is not started again, whoever retries it.
NotRerun == \A k \in Runs : work[k] = "queued" /\ work'[k] = "running"
                              => <<RevOf(k), k>> \notin history

\* A token is good only while nobody has moved the task: no fingerprint comes back.
TokenSeesAll == token # NoToken /\ token' = NoToken => ~moved

\* The stage recoveries keep all three.
StageKept == []SignedIsProven /\ [][NotRerun /\ TokenSeesAll]_stage

(****************************** why they hold ******************************)

Statuses == {"rework_required", "awaiting_approval", "running", "qa", "completed"}
Reviews  == [st : {"absent", "queued", "responded", "failed"},
             says : {"none", "PASS", "rework", "missing"}]
Verdicts == [rev : Nat, cycle : Nat, v : {"PASS", "rework", "missing"}]

TypeOK ==
    /\ profiled \in BOOLEAN /\ moved \in BOOLEAN
    /\ status \in Statuses /\ rev \in Nat \ {0} /\ cycle \in Nat
    /\ status \in {"running", "qa", "completed"} => rev <= MaxRev
    /\ work \in [Runs -> {"absent", "queued", "running", "responded", "failed"}]
    /\ run \in [Runs -> {"none", "pass", "fail"}]
    /\ review \in [1..MaxRev -> Reviews] /\ verdicts \in Seq(Verdicts)

\* Evidence is of an answered delivery, which is never dispatched again, or of one whose
\* saved response was accepted.
EvidenceTrue ==
    /\ \A k \in Runs : work[k] = "responded" => run[k] = "pass"
    /\ \A e \in evidence : \/ e.of \in Runs /\ work[e.of] = "responded"
                           \/ \E h \in history : h[2] = e.of

\* A revalidation opens QA, and from there no revision is run again.
HistoryTrue ==
    \A h \in history : /\ h[1] \in Nat /\ h[1] <= rev
                       /\ h[1] = rev => status \in {"qa", "completed"}

\* A revision has no deliveries before it has been approved.
Unsent ==
    \A k \in Runs :
        \/ RevOf(k) > rev
        \/ RevOf(k) = rev /\ status \in {"rework_required", "awaiting_approval"}
        => work[k] = "absent"

\* The task only goes up: by revision, by cycle, by status, by the progress of its review.
Rank(s) == CASE s = "rework_required" -> 0 [] s = "awaiting_approval" -> 1
             [] s = "running" -> 2 [] s = "qa" -> 3 [] s = "completed" -> 4
Progress(v) == CASE v.st = "absent" -> 0 [] v.st = "queued" -> 1
                 [] v.st \in {"responded", "failed"} -> 2
Shown == IF rev > MaxRev THEN NoReview ELSE review[rev]
Below(s, r, c, v) ==
    \/ r < rev
    \/ r = rev /\ c < cycle
    \/ r = rev /\ c = cycle /\ Rank(s) < Rank(status)
    \/ r = rev /\ c = cycle /\ s = status /\ Progress(v) < Progress(Shown)
\* A token is of a state the task has left if it has moved since.
TokenTrue ==
    token # NoToken =>
        LET t == token[1]  v == token[4] IN
        /\ t[1] \in Statuses /\ t[2] \in Nat /\ t[3] \in Nat /\ v \in Reviews
        /\ \/ Below(t[1], t[2], t[3], v)
           \/ ~moved /\ t = task /\ Progress(v) = Progress(Shown)

IndInv == TypeOK /\ EvidenceTrue /\ SignedIsProven /\ HistoryTrue /\ Unsent /\ TokenTrue

(************************** violated, in their own cfg *********************)

Opened == status \in {"running", "rework_required"} /\ status' = "qa"

\* "Recover a false QA REWORK verdict by opening QA only" (war_room_actions.py:3593): the
\* QA that a recovery has opened can be passed.
RecoveredCanPass ==
    [][Opened /\ (history' # history \/ status = "rework_required") => Provable']_stage

\* What is recovered is the verdict that sent the task back.
LatestRecovered ==
    [][Opened /\ status = "rework_required" /\ history' = history
       => verdicts[Len(verdicts)].v = "missing" /\ verdicts[Len(verdicts)].rev + 1 = rev]_stage

\* A revalidation opens QA for a result of the task's present revision.
LatestRevalidated == \A h \in history : RevOf(h[2]) = h[1] \/ h[1] = RevOf(h[2]) + 1

\* "qa_delivery_queued": a delivery to the reviewer is under way.
QueuedIsLive == [][history' # history => review'[rev].st = "queued"]_stage

\* A superseded task is not run.
SupersededRests == [][superseded > 0 => ~(status # "running" /\ status' = "running")]_stage
\* The replacement has passed when the relation is written.
ReplacementPassed == [][superseded' # superseded => other = "passed"]_stage
================================================================================
