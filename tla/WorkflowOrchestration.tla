------------------------- MODULE WorkflowOrchestration -------------------------
(***************************************************************************)
(* war_room_orchestration.py with the stores it drives: execution units    *)
(* (war_room_execution_units.py), live readiness                           *)
(* (war_room_execution_readiness.py) and the terminal notifications of     *)
(* the harness (fast_gateway_service.py), for one compiled workflow.       *)
(*                                                                         *)
(* A unit is started by an API request or by the continuation that a       *)
(* finished run triggers.  Both hold the orchestrator's lock while they    *)
(* write the unit row and call the engine, but runs settle, observers are  *)
(* released and the process dies at any point in between.                  *)
(***************************************************************************)
EXTENDS Naturals, FiniteSets

CONSTANTS
    Units, Deps, Required,
    Contracts,      \* dispatch inputs: message, timeout and goal contract
    Planned,        \* units compiled with a dispatch input, plan PlannedInput
    PlannedInput,
    NoInput,        \* no dispatch_message / timeout stored
    NoUnit,
    RunVerdicts,    \* how runs may end in this instance
    Refusals,       \* callers ("api", "observer") whose input the engine may refuse
    DispatchFails,  \* callers whose submission may fail
    Released,       \* units whose run other harness calls may report on
    MaxCrashes      \* bound on process restarts

ASSUME GraphAssumption   == Deps \in [Units -> SUBSET Units] /\ Required \subseteq Units
ASSUME InputAssumption   == PlannedInput \in Contracts /\ NoInput \notin Contracts /\ NoUnit \notin Units
ASSUME CrashAssumption   == MaxCrashes \in Nat

VARIABLES
    mapped,      \* units whose core_run_id is persisted
    claimed,     \* units whose dispatch_claimed_at is set
    stored,      \* stored[u]: persisted dispatch input
    parent,      \* war_tasks.workflow_status once finalized
    run,         \* run registry: status of the run whose id derives from u
    sent,        \* sent[u]: the input the run was created with (request_hash)
    workers,     \* workers[u]: OpenClaw runs submitted for u
    watching,    \* runs with an observer that will call the subscriber
    subscribed,  \* on_core_run_terminal is installed in the harness
    known,       \* known[u]: _dispatch_contracts of this process
    acked,       \* requests answered with a core_run_id
    job,         \* what the holder of the orchestrator lock is doing
    crashes

Contract == INSTANCE WorkflowContract

rows    == <<mapped, claimed, stored, parent>>
runs    == <<run, sent, workers>>
process == <<watching, subscribed, known, job>>
vars    == <<rows, runs, process, acked, crashes>>

ASSUME VerdictAssumption == RunVerdicts \subseteq {"PASS"} \cup Contract!Failures

Terminal == {"PASS"} \cup Contract!Failures
Callers  == {"api", "observer"}
Idle     == [at |-> "idle", unit |-> NoUnit, input |-> NoInput, caller |-> "api", todo |-> {}]

TypeOK ==
    /\ mapped \subseteq Units
    /\ claimed \subseteq Units
    /\ stored \in [Units -> Contracts \cup {NoInput}]
    /\ parent \in {"none"} \cup Contract!Verdicts
    /\ run \in [Units -> Contract!RunStatuses]
    /\ sent \in [Units -> Contracts \cup {NoInput}]
    /\ workers \in [Units -> 0..2]
    /\ watching \subseteq Units
    /\ subscribed \in BOOLEAN
    /\ known \in [Units -> Contracts \cup {NoInput}]
    /\ acked \subseteq Units \X Contracts
    /\ job \in [at : {"idle", "revalidate", "claim", "create", "submit", "start",
                      "persist", "scan"},
                unit : Units \cup {NoUnit}, input : Contracts \cup {NoInput},
                caller : Callers, todo : SUBSET Units]
    /\ crashes \in 0..MaxCrashes

\* compile_and_persist has just created the units, through the orchestrator that
\* installed the subscriber.
Init ==
    /\ mapped = {} /\ claimed = {}
    /\ stored = [u \in Units |-> IF u \in Planned THEN PlannedInput ELSE NoInput]
    /\ parent = "none"
    /\ run = [u \in Units |-> "none"]
    /\ sent = [u \in Units |-> NoInput]
    /\ workers = [u \in Units |-> 0]
    /\ watching = {} /\ subscribed = TRUE
    /\ known = [u \in Units |-> NoInput]
    /\ acked = {}
    /\ job = Idle
    /\ crashes = 0

(******************************** live readiness ***************************)

\* ExecutionReadinessEvaluator: derived from the unit rows and the run registry,
\* looking at direct dependencies only.
Passed(d)  == d \in mapped /\ run[d] = "PASS"
Failed(d)  == d \in mapped /\ run[d] \in Contract!Failures
ReadyBehindActive(u) ==   \* mutant: a dependency only has to have started
    u \notin mapped /\ \A d \in Deps[u] : d \in mapped /\ ~Failed(d)
Ready(u)   == u \notin mapped /\ \A d \in Deps[u] : Passed(d)
Waiting(u) == /\ u \notin mapped
              /\ \A d \in Deps[u] : ~Failed(d)
              /\ \E d \in Deps[u] : ~Passed(d)

\* workflow_summary: the parent state its units' live runs add up to.
Live(u)     == u \in mapped /\ run[u] \in Contract!Active
RunnableIfTied(u) == Live(u) \/ Waiting(u)   \* mutant: a READY child nobody asked for
Runnable(u) == Live(u) \/ Ready(u) \/ Waiting(u)
SummaryOfCancelled ==   \* mutant: the cancellation of a child becomes its parent's
    IF \E u \in Units : Runnable(u) THEN "RUNNING"
    ELSE IF \E u \in Required : run[u] = "CANCELLED" THEN "CANCELLED" ELSE "BLOCKED"
Summary ==
    IF \E u \in Units : Runnable(u) THEN "RUNNING"
    ELSE IF Required # {} /\ \A u \in Required : Passed(u) THEN "COMPLETED"
    ELSE IF \E u \in Required : u \in mapped /\ run[u] \in Contract!Unsuccessful THEN "FAILED"
    ELSE "BLOCKED"

(************************ dispatch_execution, step by step *****************)

At(place)   == job.at = place
Step(place) == job' = [job EXCEPT !.at = place]

DoneForAll == job' = Idle   \* mutant: the first dispatch ends the continuation

\* The locked call returns or raises: a request releases the lock, a continuation
\* swallows the error and goes on with its remaining units.
Done == job' = IF job.caller = "api" THEN Idle
               ELSE [job EXCEPT !.at = "scan", !.unit = NoUnit, !.input = NoInput]

SameAsRemembered(u, c) == known[u] \in {NoInput, c}   \* mutant: only this process's memory
SameInput(u, c) == stored[u] = c /\ known[u] \in {NoInput, c} /\ sent[u] = c

\* A request for a unit that has a core_run_id and whose run is active or passed is
\* answered with that run if it asks for the same input; else it conflicts.  A
\* process that does not remember the input asks the harness again, which observes
\* a live run and drops the controller of a settled one.
Replay(u, c) ==
    /\ At("idle") /\ subscribed
    /\ u \in mapped /\ run[u] \in Contract!Active \cup {"PASS"}
    /\ SameInput(u, c)
    /\ known' = [known EXCEPT ![u] = c]
    /\ acked' = acked \cup {<<u, c>>}
    /\ IF known[u] = c THEN UNCHANGED watching
       ELSE IF run[u] \in Contract!Active THEN watching' = watching \cup {u}
       ELSE watching' \in {watching, watching \ {u}}
    /\ UNCHANGED <<rows, runs, subscribed, job, crashes>>

\* Any other request goes on to revalidation; for a failed run the row is rewritten
\* with the core_run_id it already has.
Request(u, c) ==
    /\ At("idle") /\ subscribed
    /\ \/ u \notin mapped
       \/ Failed(u) /\ stored[u] = c
    /\ job' = [Idle EXCEPT !.at = "revalidate", !.unit = u, !.input = c]
    /\ UNCHANGED <<rows, runs, watching, subscribed, known, acked, crashes>>

ClaimAgain == "claim"   \* mutant: _claimed forgotten

\* Readiness is checked again, then the exact input is persisted; the continuation
\* holds the claim already.
AfterInput == IF job.caller = "observer" THEN "create" ELSE "claim"

Revalidate ==
    /\ At("revalidate")
    /\ IF Ready(job.unit)
       THEN /\ stored' = [stored EXCEPT ![job.unit] = job.input]
            /\ Step(AfterInput)
       ELSE Done /\ UNCHANGED stored
    /\ UNCHANGED <<mapped, claimed, parent, runs, watching, subscribed, known, acked, crashes>>

UnmappedOnly(u) == u \notin mapped   \* mutant: dispatch_claimed_at not checked

\* claim_for_dispatch: one UPDATE, won only by an unmapped, unclaimed row.
Claimable(u) == u \notin mapped /\ u \notin claimed

Claim ==
    /\ At("claim")
    /\ IF Claimable(job.unit)
       THEN claimed' = claimed \cup {job.unit} /\ Step("create")
       ELSE Done /\ UNCHANGED claimed
    /\ UNCHANGED <<mapped, stored, parent, runs, watching, subscribed, known, acked, crashes>>

\* engine.dispatch: the run record is created under its deterministic id; one that is
\* there already is returned, resumed while QUEUED, or conflicts with another input.
EngineDispatch ==
    /\ At("create")
    /\ IF run[job.unit] = "none"
       THEN /\ run' = [run EXCEPT ![job.unit] = "QUEUED"]
            /\ sent' = [sent EXCEPT ![job.unit] = job.input]
            /\ Step("submit")
       ELSE /\ UNCHANGED <<run, sent>>
            /\ IF sent[job.unit] # job.input THEN Done
               ELSE Step(IF run[job.unit] = "QUEUED" THEN "submit" ELSE "persist")
    /\ UNCHANGED <<rows, workers, watching, subscribed, known, acked, crashes>>

\* An input the engine refuses raises before the record is created.
EngineRefuses ==
    /\ At("create")
    /\ job.caller \in Refusals
    /\ Done
    /\ UNCHANGED <<rows, runs, watching, subscribed, known, acked, crashes>>

\* The worker is submitted; or authorization or transport fails and the run is settled
\* at once, with nobody observing it.
EngineSubmits ==
    /\ At("submit")
    /\ \/ /\ workers' = [workers EXCEPT ![job.unit] = @ + 1]
          /\ Step("start")
          /\ UNCHANGED run
       \/ /\ job.caller \in DispatchFails
          /\ \E v \in {"FAIL", "BLOCKED"} \cap RunVerdicts : run' = [run EXCEPT ![job.unit] = v]
          /\ Step("persist")
          /\ UNCHANGED workers
    /\ UNCHANGED <<rows, sent, watching, subscribed, known, acked, crashes>>

\* The run is recorded RUNNING and the harness attaches its observer.
EngineStarts ==
    /\ At("start")
    /\ run' = [run EXCEPT ![job.unit] = "RUNNING"]
    /\ watching' = watching \cup {job.unit}
    /\ Step("persist")
    /\ UNCHANGED <<rows, sent, workers, subscribed, known, acked, crashes>>

\* update_core_run_id, then the answer.
Persist ==
    /\ At("persist")
    /\ mapped' = mapped \cup {job.unit}
    /\ known' = [known EXCEPT ![job.unit] = job.input]
    /\ acked' = IF job.caller = "api" THEN acked \cup {<<job.unit, job.input>>} ELSE acked
    /\ Done
    /\ UNCHANGED <<claimed, stored, parent, runs, watching, subscribed, crashes>>

(********************** terminal notifications *****************************)

\* The observer of a settled run calls the subscriber, which waits for the lock and
\* snapshots the workflow of the run's unit.
Notify(u) ==
    /\ At("idle") /\ subscribed
    /\ u \in watching /\ run[u] \in Terminal
    /\ watching' = watching \ {u}
    /\ job' = IF u \in mapped
              THEN [Idle EXCEPT !.at = "scan", !.caller = "observer", !.todo = Units]
              ELSE Idle
    /\ UNCHANGED <<rows, runs, subscribed, known, acked, crashes>>

\* After a restart observers run before any War Room request installs the subscriber.
NotifyNobody(u) ==
    /\ ~subscribed
    /\ u \in watching /\ run[u] \in Terminal
    /\ watching' = watching \ {u}
    /\ UNCHANGED <<rows, runs, subscribed, known, job, acked, crashes>>

\* on_core_run_terminal: every READY unit with a stored input is claimed and
\* dispatched; the others are passed over.
Continue ==
    /\ At("scan")
    /\ \E u \in job.todo :
          IF Ready(u) /\ stored[u] # NoInput /\ Claimable(u)
          THEN /\ claimed' = claimed \cup {u}
               /\ job' = [job EXCEPT !.at = "revalidate", !.unit = u, !.input = stored[u],
                                     !.todo = @ \ {u}]
          ELSE /\ job' = [job EXCEPT !.todo = @ \ {u}]
               /\ UNCHANGED claimed
    /\ UNCHANGED <<mapped, stored, parent, runs, watching, subscribed, known, acked, crashes>>

\* _finalize_parent_if_terminal: the first terminal summary wins.
Finalize ==
    /\ At("scan") /\ job.todo = {}
    /\ parent' = IF parent = "none" /\ Summary # "RUNNING" THEN Summary ELSE parent
    /\ job' = Idle
    /\ UNCHANGED <<mapped, claimed, stored, runs, watching, subscribed, known, acked, crashes>>

(**************************** runs, other callers, restarts ****************)

\* The Core engine settles a started run (CoreEngine.tla), also the queued one a
\* crash left behind, and rewrites the error an abort race recorded.
RunSettles(u) ==
    /\ \/ run[u] = "RUNNING" /\ \E v \in RunVerdicts : run' = [run EXCEPT ![u] = v]
       \/ /\ run[u] = "QUEUED" /\ job.unit # u /\ "CANCELLED" \in RunVerdicts
          /\ run' = [run EXCEPT ![u] = "CANCELLED"]
       \/ /\ run[u] = "FAIL" /\ workers[u] > 0 /\ "CANCELLED" \in RunVerdicts
          /\ run' = [run EXCEPT ![u] = "CANCELLED"]
    /\ UNCHANGED <<rows, sent, workers, process, acked, crashes>>

\* A wait, cancel or stop through the harness returns the settled record and releases
\* the controller: an observer asleep between two waits exits without a word.
Release(u) ==
    /\ u \in Released \cap watching
    /\ run[u] \in Terminal
    /\ watching' = watching \ {u}
    /\ UNCHANGED <<rows, runs, subscribed, known, job, acked, crashes>>

\* The process dies.  The next one observes the runs that are RUNNING; the subscriber
\* is installed by the first War Room request that needs the orchestrator.
Restart ==
    /\ crashes < MaxCrashes
    /\ crashes' = crashes + 1
    /\ watching' = {u \in Units : run[u] = "RUNNING"}
    /\ subscribed' = FALSE
    /\ known' = [u \in Units |-> NoInput]
    /\ job' = Idle
    /\ UNCHANGED <<rows, runs, acked>>

BuildOrchestrator ==
    /\ ~subscribed
    /\ subscribed' = TRUE
    /\ UNCHANGED <<rows, runs, watching, known, job, acked, crashes>>

Advance == \/ Revalidate \/ Claim \/ EngineDispatch \/ EngineRefuses \/ EngineSubmits
           \/ EngineStarts \/ Persist \/ Continue \/ Finalize

Next == \/ Advance \/ Restart \/ BuildOrchestrator
        \/ \E u \in Units : \/ \E c \in Contracts : Replay(u, c) \/ Request(u, c)
                            \/ Notify(u) \/ NotifyNobody(u) \/ RunSettles(u) \/ Release(u)

Spec == Init /\ [][Next]_vars

\* The thread holding the lock goes on, observers wake every 10 ms and runs end
\* (MCCoreLive* show what that takes); requests may never come.
FairSpec == /\ Spec
            /\ WF_vars(Advance)
            /\ \A u \in Units : /\ SF_vars(Notify(u))
                                /\ WF_vars(RunSettles(u) /\ run[u] = "RUNNING")

(******************************** properties *******************************)

\* The orchestrator keeps the workflow contract across requests, continuations and
\* restarts: no unit starts before its dependencies passed, whichever caller started
\* it, and the parent is finalized once, with a verdict its runs bear out.
ContractSpec == Contract!Spec

\* One worker per unit, for good: duplicate requests, duplicate notifications and a
\* process that died between submit and update_core_run_id never submit a unit again.
OneWorker == \A u \in Units : workers[u] <= 1

\* A request is only ever acknowledged with a run that received exactly its input,
\* also by a process that has forgotten what it dispatched.
AckTrue == \A u \in Units, c \in Contracts : <<u, c>> \in acked => u \in mapped /\ sent[u] = c

\* Once finalized, the parent keeps agreeing with its live summary: no later request,
\* notification or rewritten run makes the two diverge.
ParentAgrees == parent # "none" => Summary = parent

\* What makes these inductive.  A run exists only of a claimed unit whose dependencies
\* passed for good; a unit is mapped to a run that exists.
Clear(u) == \A d \in Deps[u] : Passed(d)
UnitTrue(u) ==
    /\ u \notin claimed => run[u] = "none"
    /\ run[u] = "none" => u \notin mapped /\ workers[u] = 0
    /\ run[u] # "none" => Clear(u)

\* The claim is never given back: its holder alone creates, submits and starts the run
\* of its unit, and finds it as it has left it.
Resting == At("idle") \/ At("scan")
Holding == At("create") \/ (At("revalidate") /\ job.caller = "observer")
Started == At("submit") \/ At("start") \/ At("persist")
JobTrue ==
    /\ ~Resting => job.unit \in Units /\ job.input \in Contracts
    /\ At("claim") => job.unit \notin mapped /\ Clear(job.unit)
    /\ Holding => job.unit \in claimed \ mapped /\ run[job.unit] = "none" /\ Clear(job.unit)
    /\ Started => /\ job.unit \in claimed \ mapped /\ run[job.unit] # "none"
                  /\ sent[job.unit] = job.input
    /\ At("submit") => run[job.unit] = "QUEUED" /\ workers[job.unit] = 0
    /\ At("start") => run[job.unit] = "QUEUED"

IndInv == /\ TypeOK /\ JobTrue /\ \A u \in Units : UnitTrue(u)
          /\ OneWorker /\ AckTrue /\ ParentAgrees

\* A workflow left with nothing to run is finalized: the continuation that follows the
\* last run, or a dispatch that failed inside it, reaches the parent.
ParentSettles == Summary # "RUNNING" ~> parent # "none"

\* Started at its roots, a workflow runs to the end on notifications alone, unless a run
\* of it fails.
FlowCompletes == (\A u \in Units : Deps[u] = {} => u \in mapped)
                 ~> (parent = "COMPLETED" \/ \E u \in Units : run[u] \in Contract!Failures)

\* What the comment on the retry path says: a request that is let through to the
\* revalidation of a failed unit finds its core_run_id cleared.
RetryClearsRun == At("revalidate") => job.unit \notin mapped

\* What the comment in workflow_summary says: a required run that is BLOCKED, or a
\* dependency it made unreachable, leaves the exhausted parent BLOCKED.
Exhausted ==
    LET Doomed[d \in Units] == Failed(d) \/ (d \notin mapped /\ \E e \in Deps[d] : Doomed[e])
    IN \A u \in Units : ~Live(u) /\ (u \in mapped \/ Doomed[u])
ExhaustedIsBlocked ==
    /\ Exhausted
    /\ \E u \in Required : u \in mapped /\ run[u] = "BLOCKED"
    /\ ~\E u \in Required : u \in mapped /\ run[u] \in Contract!Unsuccessful
    => Summary = "BLOCKED"
================================================================================
