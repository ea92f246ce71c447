------------------------------- MODULE MCServices -------------------------------
(***************************************************************************)
(* Instances for TLC of the components that share no state with the core   *)
(* engine or with each other.  A behaviour belongs to one of them: the     *)
(* part is chosen in the initial state and the others stand still.         *)
(***************************************************************************)
EXTENDS Naturals, Sequences, FiniteSets

CONSTANTS
    \* AuthBroker
    War, Direct, Bearer, Grants, Casts, NoOne, CallLimit, Until, Ttl, Horizon,
    \* ProjectDocuments
    Docs, Files, Import, Contents, Clients, NoDoc, MaxVersions,
    \* GatewayBridge
    Deliveries, MaxRequests,
    \* JevRecovery, JevHandoff
    Sessions, Risky, NoSession, MaxStates, MaxLost, MaxHandoffStates,
    \* JevAdvisory
    Domains, Experts, DomainAgents, RequestKeys, Signals, NoValue, MaxFacts, MaxAdvisories,
    \* RuntimeWatch
    Signatures, Words, Excepted, MaxRetries, MaxTools, Threshold,
    TailLength, MinUnit, MaxUnit, MinRepeats, Cooldown, MaxSeen,
    \* WorkflowCompiler
    Agents, AgentLists, MaxDepends,
    \* StageRecovery
    Team, MaxRev, MaxCycle, NoToken, NoRow,
    agentA, agentB, agentC, workerW, fileF, fileG,  \* where their order matters
    MaxCrashes,
    Parts             \* the components to check

ASSUME AuthAssumption ==
    /\ War \cap Direct = {} /\ War \cap Bearer = {} /\ Direct \cap Bearer = {}
    /\ NoOne \notin War \cup Direct \cup Bearer
    /\ IsFiniteSet(War) /\ CallLimit \in Nat /\ Until \in Nat /\ Ttl \in Nat

ASSUME DocumentsAssumption == Contents # {} /\ Import \in Seq(Files)
ASSUME AdviceAssumption ==
    /\ MaxAdvisories \in Nat
    /\ Experts \cap {"ACCEPT", "INSUFFICIENT", "insufficient_evidence"} = {}
ASSUME JevAssumption ==
    /\ MaxStates \in Nat /\ MaxLost \in Nat /\ MaxHandoffStates \in Nat /\ MaxCrashes \in Nat
    /\ NoSession \notin Sessions
ASSUME WatchAssumption ==
    /\ MaxRetries \in Nat /\ MaxTools \in Nat /\ Threshold \in Nat \ {0}
    /\ TailLength \in Nat /\ MinUnit \in Nat \ {0} /\ MaxUnit \in Nat /\ MinRepeats \in Nat \ {0}
ASSUME CompilerAssumption == AgentLists \subseteq Seq(Agents) /\ MaxDepends \in Nat
ASSUME StageAssumption ==
    MaxRev \in Nat /\ Len(Team) \in Nat \ {0} /\ DOMAIN Team = 1..Len(Team)

\* Values of the constants that are no sets of model values.
BothFiles == <<fileF, fileG>>
OneExpert == [domain \in Domains |-> {agentA}]
OneWorker == <<workerW>>
OneListPerPattern == {<<>>, <<agentA>>, <<agentA, agentB>>, <<agentA, agentB, agentA>>,
                      <<agentA, agentB, agentC>>}

VARIABLES
    part,
    now, record, phase, who, token, checked, presented, grant, pending, approved, stopped, leased, calls,
    authCrashes,
    file, history, current, frozen, seen, answer, seed, found, importing, saved,
    counter, op, stdin, node, flight, pipe, buffer, run, known, receipt,
    stable, working, looking, confirms, spaced, nudge, window, nudging, held, recovery, closed,
    handoff, killed, turns, nudges, lost, agreed, jevCrashes,
    direct, writer, stateOf, ended, observing, generated, handoffFile, targets, acked, cleaned,
    handoffCrashes,
    facts, revision, eligible, asking, advisories, deciding, decisions, verifying, verdicts,
    status, counters, log, tail, reported, reports, clock, written, watchCrashes,
    request, ids, stack, visiting, visited, todo, outcome,
    profiled, taskStatus, rev, cycle, appr, work, coreRun, failures, review, qaVerdicts, issues,
    evidence, artifact, revalidated, context, moved, other, superseding, superseded

Auth      == INSTANCE AuthBroker WITH crashes <- authCrashes
Documents == INSTANCE ProjectDocuments
Bridge    == INSTANCE GatewayBridge
Jev       == INSTANCE JevRecovery WITH crashes <- jevCrashes
Handoff   == INSTANCE JevHandoff
                WITH file <- handoffFile, crashes <- handoffCrashes, MaxStates <- MaxHandoffStates
Advice    == INSTANCE JevAdvisory
                WITH Agents <- Experts, Keys <- RequestKeys, None <- NoValue
Watch     == INSTANCE RuntimeWatch WITH crashes <- watchCrashes, None <- NoValue
Compiler  == INSTANCE WorkflowCompiler
Stage     == INSTANCE StageRecovery
                WITH status <- taskStatus, run <- coreRun, verdicts <- qaVerdicts,
                     file <- artifact, history <- revalidated, token <- context

auth == <<now, record, phase, who, token, checked, presented, grant, pending, approved, stopped,
          leased, calls, authCrashes>>
documents == <<file, history, current, frozen, seen, answer, seed, found, importing, saved>>
bridge == <<counter, op, stdin, node, flight, pipe, buffer, run, known, receipt>>
jev == <<stable, working, looking, confirms, spaced, nudge, window, nudging, held, recovery, closed,
         handoff, killed, turns, nudges, lost, agreed, jevCrashes>>
handoffs == <<direct, writer, stateOf, ended, observing, generated, handoffFile, targets, acked,
              cleaned, handoffCrashes>>
advice == <<facts, revision, eligible, asking, advisories, deciding, decisions, verifying,
            verdicts>>
watch == <<status, counters, log, tail, reported, reports, clock, written, watchCrashes>>
compiler == <<request, ids, stack, visiting, visited, todo, outcome>>
stages == <<profiled, taskStatus, rev, cycle, appr, work, coreRun, failures, review, qaVerdicts,
            issues, evidence, artifact, revalidated, context, moved, other, superseding,
            superseded>>

\* Where a component starts in one of several states, it does so in its own part only.
Init ==
    /\ part \in Parts
    /\ Auth!Init /\ Documents!Init /\ Bridge!Init /\ Jev!Init
    /\ Handoff!Init /\ Advice!Init /\ Watch!Init /\ Compiler!Init /\ Stage!Init
    /\ part = "auth" \/ \A r \in Bearer : record[r] = "absent"
    /\ part = "handoff" \/ (direct /\ writer)
    /\ part = "compiler" \/ request = [agents |-> <<>>, depends |-> <<>>]
    /\ part = "stage" \/ ~profiled

Next ==
    \/ /\ part = "auth" /\ Auth!Next
       /\ UNCHANGED <<part, documents, bridge, jev, handoffs, advice, watch, compiler, stages>>
    \/ /\ part = "documents" /\ Documents!Next
       /\ UNCHANGED <<part, auth, bridge, jev, handoffs, advice, watch, compiler, stages>>
    \/ /\ part = "bridge" /\ Bridge!Next
       /\ UNCHANGED <<part, auth, documents, jev, handoffs, advice, watch, compiler, stages>>
    \/ /\ part = "jev" /\ Jev!Next
       /\ UNCHANGED <<part, auth, documents, bridge, handoffs, advice, watch, compiler, stages>>
    \/ /\ part = "handoff" /\ Handoff!Next
       /\ UNCHANGED <<part, auth, documents, bridge, jev, advice, watch, compiler, stages>>
    \/ /\ part = "advice" /\ Advice!Next
       /\ UNCHANGED <<part, auth, documents, bridge, jev, handoffs, watch, compiler, stages>>
    \/ /\ part = "watch" /\ Watch!Next
       /\ UNCHANGED <<part, auth, documents, bridge, jev, handoffs, advice, compiler, stages>>
    \/ /\ part = "compiler" /\ Compiler!Next
       /\ UNCHANGED <<part, auth, documents, bridge, jev, handoffs, advice, watch, stages>>
    \/ /\ part = "stage" /\ Stage!Next
       /\ context' = NoToken \/ other' = "open"  \* a bound: neither reads the other
       /\ UNCHANGED <<part, auth, documents, bridge, jev, handoffs, advice, watch, compiler>>

vars == <<part, auth, documents, bridge, jev, handoffs, advice, watch, compiler, stages>>
Spec == Init /\ [][Next]_vars

(******************* the components' properties, by name *******************)

\* Authorization: every call is counted, every worker runs on a grant of its own, and
\* a grant is consumed while the approval and the project allow it.
Admission == Auth!Admission

\* Documents: what a registration was told stays true.
DocumentHistory == part = "documents" => Documents!DocumentHistory

\* Adapter: receipts tell the truth about the run, whatever answers came late.
ReceiptsTrue == part = "bridge" => Bridge!ReceiptsTrue

\* JEV live recovery: one turn for each time its rows are in sight of the history, after
\* handoff and abort, on two equal decisions.  JEV v0.1: with a handoff writer one work
\* root is handed over once, without one a snapshot once by a process; a source is cleaned
\* up when acknowledged.
LiveRecovery == Jev!LiveRecovery /\ [](part = "handoff" => Handoff!OneHandoff)

\* JEV advisories: an ACCEPT is about the revision and the agent it was made for.
Advised == part = "advice" => Advice!Advised

\* Policy engine and loop detector: the counters agree with the whole stream.
WatchAgrees == part = "watch" => Watch!WatchAgrees

\* Compiler: what is compiled can be run, and only cycles are called cycles.
CompilesDags == part = "compiler" => Compiler!CompilesDags

\* Stage recoveries: a PASS stands on evidence of its revision and cycle, what was
\* revalidated is not run again, a context token is good for one state of the task only.
StageKept == Stage!StageKept

(************************** violated, in their own cfg *********************)

\* A source that JEV killed is continued, or a row says why not.
KilledIsResumed == Jev!KilledIsResumed
\* A session that is being recovered is not spoken to.
NoNudgeInRecovery == Jev!NoNudgeInRecovery
\* A session is recovered once in its life.
OneTurnEver == Jev!OneTurnEver
\* A stalled state is nudged once.
OneNudgeEver == Jev!OneNudgeEver
\* A work root has one target session.
OneTargetEver == Handoff!OneTargetEver
\* An accepted advisory is not stale in its own row.
AcceptIsFresh == Advice!AcceptIsFresh
\* One loop is reported once in a period.
LoopReportedOnce == Watch!LoopReportedOnce
\* The QA that a recovery has opened can be passed.
RecoveredCanPass == Stage!RecoveredCanPass
\* The verdict that is recovered is the one that sent the task back.
LatestRecovered == Stage!LatestRecovered
\* A revalidated result is one of the revision that has just failed.
LatestRevalidated == Stage!LatestRevalidated
\* A review that a revalidation reports as queued is under way.
QueuedIsLive == Stage!QueuedIsLive
\* A superseded task is not run again.
SupersededRests == Stage!SupersededRests
\* The replacement has passed when a task is marked as superseded by it.
ReplacementPassed == Stage!ReplacementPassed
================================================================================
