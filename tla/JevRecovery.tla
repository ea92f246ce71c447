------------------------------- MODULE JevRecovery -------------------------------
(***************************************************************************)
(* jev_recovery_live.py: what the live watchdog does to one task session   *)
(* that jev_agent_watchdog_supervisor.py (or an event detector) reports.   *)
(*                                                                         *)
(* The endpoint looks at the session, asks the judge, and acts on the      *)
(* answer; its calls are serialized by the event loop.  A nudge and a      *)
(* recovery run in threads of their own.  What was done is read back from  *)
(* the last rows of a history all sessions append to; confirmations and    *)
(* the in-flight sets are memory.  The session's agent works on, ends and  *)
(* resumes as it likes.                                                    *)
(***************************************************************************)
EXTENDS Naturals, FiniteSets

CONSTANTS MaxStates,   \* bound on the changes of the session's stable state
          MaxLost,     \* bound on how often the session's rows are left behind
          MaxCrashes

VARIABLES
    stable,      \* the stable state, as a counter: progress changes it
    working,     \* the latest run of the session is active task work
    looking,     \* the snapshot an evaluation has taken, waiting for the judge
    confirms,    \* _SALVAGE_CONFIRMATIONS of the session
    spaced,      \* 45 seconds have passed since the last confirmation
    nudge,       \* the latest live_nudge_dispatch row and whether it is resolved
    window,      \* which of the session's rows are among the last 2000 of the history
    nudging,     \* _NUDGE_INFLIGHT: its thread has not ended
    held,        \* the 240 seconds hold of the nudge has not passed
    recovery,    \* where the recovery thread is (_INFLIGHT), with its snapshot
    closed,      \* history: an outcome row was written
    handoff,     \* RECOVERY_HANDOFF.md is there
    killed,      \* history: aborts of the source run that were confirmed
    turns,       \* history: recovery turns started
    nudges,      \* history: nudge turns started per state
    lost,        \* history: how often the dispatch and the recovery rows were left behind
    agreed,      \* history: confident SALVAGE answers in a row on the same state
    crashes

jev == <<stable, working, looking, confirms, spaced, nudge, window, nudging, held, recovery, closed,
         handoff, killed, turns, nudges, lost, agreed, crashes>>

\* snapshot_state_digest: progress counters, run and session status.
Digest  == [n |-> stable, working |-> working]
NoLook  == [on |-> FALSE, at |-> [n |-> 0, working |-> FALSE]]
None    == [count |-> 0, at |-> NoLook.at]
NoNudge == [at |-> NoLook.at, open |-> FALSE]
Resting == [phase |-> "none", at |-> NoLook.at]

Init ==
    /\ stable = 0 /\ working = TRUE
    /\ looking = NoLook /\ confirms = None /\ spaced = FALSE
    /\ nudge = NoNudge /\ window = {} /\ nudging = FALSE /\ held = FALSE
    /\ recovery = Resting /\ closed = FALSE /\ handoff = FALSE
    /\ killed = 0 /\ turns = 0 /\ nudges = [n \in 0..MaxStates |-> 0]
    /\ lost = [dispatch |-> 0, recovery |-> 0]
    /\ agreed = None /\ crashes = 0

Memory  == <<looking, confirms, spaced, nudging, held, recovery>>
Written == <<closed, window, lost>>
History == <<Written, handoff, killed, turns, nudges, agreed>>
Session == <<stable, working>>

(******************************** the session ******************************)

Work ==
    /\ stable < MaxStates /\ stable' = stable + 1
    /\ working' \in BOOLEAN   \* goes on, ends, or a later run begins
    /\ UNCHANGED <<Memory, History, nudge, crashes>>

\* Time enough for the next confirmation, or for the hold of a nudge.
Wait ==
    /\ spaced' = TRUE /\ held' \in {held, FALSE}
    /\ UNCHANGED <<Session, looking, confirms, nudging, recovery, History, nudge, crashes>>

\* Every evaluation of every session appends a row, and no reader looks further back
\* than 2000 rows.  While a recovery row is in sight no nudge is allowed: the dispatch
\* row is the older one.
LeftBehind(kinds) ==
    /\ window' = window \ kinds
    /\ lost' = [kind \in DOMAIN lost |-> IF kind \in kinds \cap window THEN lost[kind] + 1
                                                                     ELSE lost[kind]]

Scroll ==
    /\ \E kinds \in {{"dispatch"}, {"dispatch", "recovery"}} :
          kinds \cap window # {} /\ LeftBehind(kinds)
    /\ \A kind \in DOMAIN lost : lost'[kind] <= MaxLost
    /\ UNCHANGED <<Session, Memory, closed, handoff, killed, turns, nudges, agreed, nudge, crashes>>

\* A row of a recovery is appended.
Append == window' = window \cup {"recovery"} /\ UNCHANGED lost

(******************************** an evaluation ****************************)

Forget == confirms' = None /\ agreed' = None

\* The session is terminal, too young (its age is left open) or has no active task.
Skip ==
    /\ ~looking.on
    /\ Forget
    /\ UNCHANGED <<Session, looking, spaced, nudging, held, recovery, Written, handoff, killed,
                   turns, nudges, nudge, crashes>>

\* _pending_nudge_observation: progress or the end of the hold resolves a nudge,
\* otherwise it is waited for and the judge is not asked.
Prior        == "dispatch" \in window
Pending(n)   == Prior /\ n.open /\ (nudging \/ held) /\ stable = n.at.n
Recovered(n) == Prior /\ n.open /\ stable # n.at.n

Snapshot == [on |-> TRUE, at |-> Digest]

Look ==
    /\ ~looking.on /\ working
    /\ \/ Recovered(nudge) /\ nudge' = [nudge EXCEPT !.open = FALSE] /\ UNCHANGED looking
       \/ /\ ~Recovered(nudge) /\ ~Pending(nudge)
          /\ nudge' = [nudge EXCEPT !.open = FALSE]
          /\ looking' = Snapshot
    /\ UNCHANGED <<Session, confirms, spaced, nudging, held, recovery, History, crashes>>

Looked == looking.on /\ looking' = NoLook

AttemptExists == "recovery" \in window

\* CONTINUE, WATCH, DEAD, a SALVAGE that is not confident, or one that a guard stops:
\* recovery session, main agent, runtime evidence, scope, event evidence.
Observe ==
    /\ Looked /\ Forget
    /\ UNCHANGED <<Session, spaced, nudging, held, recovery, Written, handoff, killed, turns,
                   nudges, nudge, crashes>>

\* NUDGE within its guard: the dispatch row first, then the thread.
NudgeAllowed ==
    /\ ~AttemptExists /\ ~nudging
    /\ Prior => looking.at.n # nudge.at.n   \* another state, reached by progress

Nudge ==
    /\ Looked /\ NudgeAllowed /\ Forget
    /\ nudge' = [at |-> looking.at, open |-> TRUE] /\ window' = window \cup {"dispatch"}
    /\ nudging' = TRUE /\ held' = TRUE
    /\ nudges' = [nudges EXCEPT ![looking.at.n] = @ + 1]
    /\ UNCHANGED <<Session, spaced, recovery, closed, lost, handoff, killed, turns, crashes>>

\* The nudge thread ends with an outcome or an error row.
NudgeEnds ==
    /\ nudging /\ nudging' = FALSE
    /\ nudge' = [nudge EXCEPT !.open = FALSE]
    /\ UNCHANGED <<Session, looking, confirms, spaced, held, recovery, History, crashes>>

\* _confirm_salvage: a second decision counts when it is about the same state and
\* 45 seconds later.
AnyState(at) ==   \* mutant: the second decision may be about another state
    [count |-> IF spaced \/ confirms.count = 0 THEN confirms.count + 1 ELSE 1, at |-> at]
Confirm(at) ==
    IF confirms.count = 0 \/ confirms.at # at THEN [count |-> 1, at |-> at]
    ELSE [count |-> IF spaced THEN confirms.count + 1 ELSE confirms.count, at |-> at]
Agreed(at) == IF agreed.count > 0 /\ agreed.at = at THEN [agreed EXCEPT !.count = 2]
                                                    ELSE [count |-> 1, at |-> at]

Salvage ==
    /\ Looked /\ ~AttemptExists
    /\ LET c == Confirm(looking.at) IN
       \/ /\ c.count < 2
          /\ confirms' = c /\ agreed' = Agreed(looking.at)
          /\ spaced' = (spaced /\ c = confirms) /\ UNCHANGED recovery
       \/ /\ c.count >= 2   \* confirmed: a thread, unless one runs already
          /\ confirms' = None /\ spaced' = FALSE /\ agreed' = Agreed(looking.at)
          /\ recovery' = IF recovery.phase = "none" THEN [phase |-> "precheck", at |-> looking.at]
                                                    ELSE recovery
    /\ UNCHANGED <<Session, nudging, held, Written, handoff, killed, turns, nudges, nudge,
                   crashes>>

(******************************** _recover_live ****************************)

At(p)      == recovery.phase = p
Goto(p)    == recovery' = [recovery EXCEPT !.phase = p]
Outcome    == recovery' = Resting /\ Append /\ closed' = TRUE
Row        == Append /\ UNCHANGED closed

\* The session is looked at again; if it changed the judge is asked again.
Precheck ==
    /\ At("precheck")
    /\ \/ (recovery.at = Digest \/ working) /\ Goto("handoff") /\ UNCHANGED Written
       \/ recovery.at # Digest /\ Outcome   \* changed its mind, or no task any more
    /\ UNCHANGED <<Session, looking, confirms, spaced, nudging, held, handoff, killed, turns,
                   nudges, agreed, nudge, crashes>>

\* Phase A: a row, the validated file, a row; a valid file is reused.
PhaseA ==
    /\ At("handoff")
    /\ \/ handoff' = TRUE /\ Row /\ Goto("terminate")
       \/ Outcome /\ UNCHANGED handoff   \* RECOVERY_ERROR
    /\ UNCHANGED <<Session, looking, confirms, spaced, nudging, held, killed, turns, nudges,
                   agreed, nudge, crashes>>

\* Phase B: a row, and an abort of the run that is active now.
PhaseB ==
    /\ At("terminate")
    /\ IF working THEN Goto("abort") /\ Row ELSE Outcome
    /\ UNCHANGED <<Session, looking, confirms, spaced, nudging, held, handoff, killed, turns,
                   nudges, agreed, nudge, crashes>>

\* One request to a bridge of its own: aborted, or refused, late or broken, in which
\* case the run may have ended all the same.
Abort(confirmed) == IF confirmed THEN working /\ working' = FALSE
                                 ELSE working' \in {working, FALSE}

\* Only a confirmed abort is followed by a restart; an abort that took effect without
\* an answer is taken for a source that finished by itself.
AbortSource ==
    /\ At("abort")
    /\ \/ Abort(TRUE) /\ killed' = killed + 1 /\ Goto("restart") /\ UNCHANGED Written
       \/ Abort(FALSE) /\ Outcome /\ UNCHANGED killed
    /\ UNCHANGED <<stable, looking, confirms, spaced, nudging, held, handoff, turns, nudges,
                   agreed, nudge, crashes>>

\* Phases C to E: one turn on the deterministic target session.
PhaseC ==
    /\ At("restart")
    /\ Row /\ turns' = turns + 1 /\ Goto("turn")
    /\ UNCHANGED <<Session, looking, confirms, spaced, nudging, held, handoff, killed, nudges,
                   agreed, nudge, crashes>>

Complete ==
    /\ At("turn") /\ Outcome   \* with or without the acknowledgement
    /\ UNCHANGED <<Session, looking, confirms, spaced, nudging, held, handoff, killed, turns,
                   nudges, agreed, nudge, crashes>>

Crash ==
    /\ crashes < MaxCrashes /\ crashes' = crashes + 1
    /\ looking' = NoLook /\ confirms' = None /\ spaced' = FALSE /\ agreed' = None
    /\ nudging' = FALSE /\ recovery' = Resting
    /\ UNCHANGED <<Session, held, Written, handoff, killed, turns, nudges, nudge>>

Next ==
    \/ Work \/ Wait \/ Scroll \/ Crash
    \/ Skip \/ Look \/ Observe \/ Nudge \/ NudgeEnds \/ Salvage
    \/ Precheck \/ PhaseA \/ PhaseB \/ AbortSource \/ PhaseC \/ Complete

(******************************* properties ********************************)

\* "Automatic recovery is one generation only" and "one recovery session, one turn":
\* over repeated decisions, overlapping threads and restarts of the monitor, as long as
\* the history shows the recovery, and one more each time its rows were left behind.
OneTurn == turns <= 1 + lost.recovery

\* "only after the handoff is durable, terminate the source run", and the session is
\* continued elsewhere only after its own run was confirmed aborted, once for each turn.
HandoffFirst == (killed > 0 => handoff) /\ turns <= killed

\* "preserves at-most-once behavior for this stalled state": one nudge per state, and one
\* more for each time the dispatch row was left behind.
NudgedOnce == \A n \in DOMAIN nudges : nudges[n] <= 1 + lost.dispatch

\* "Require two spaced SALVAGE decisions on the same stable task state": a recovery
\* starts on an answer that repeats the one before it, about the same state.
StartedOnTwo ==
    recovery.phase = "none" /\ recovery'.phase = "precheck" => agreed'.count = 2

LiveRecovery == []OneTurn /\ []HandoffFirst /\ []NudgedOnce /\ [][StartedOnTwo]_jev

(****************************** why they hold ******************************)

Digests == [n : 0..MaxStates, working : BOOLEAN]
Counted == [count : 0..2, at : Digests]
Phases  == {"none", "precheck", "handoff", "terminate", "abort", "restart", "turn"}

TypeOK ==
    /\ stable \in 0..MaxStates /\ working \in BOOLEAN
    /\ looking \in [on : BOOLEAN, at : Digests]
    /\ confirms \in Counted /\ agreed \in Counted /\ spaced \in BOOLEAN
    /\ nudge \in [at : Digests, open : BOOLEAN] /\ window \subseteq {"dispatch", "recovery"}
    /\ nudging \in BOOLEAN /\ held \in BOOLEAN
    /\ recovery \in [phase : Phases, at : Digests] /\ closed \in BOOLEAN
    /\ handoff \in BOOLEAN /\ killed \in Nat /\ turns \in Nat
    /\ nudges \in [0..MaxStates -> Nat] /\ crashes \in 0..MaxCrashes
    /\ lost \in [{"dispatch", "recovery"} -> Nat]

\* How often rows of this kind have come in sight: those left behind, and those there.
Seen(kind) == lost[kind] + (IF kind \in window THEN 1 ELSE 0)

\* Each recovery whose rows came in sight aborts once and takes one turn.  One without a
\* row yet does not count; each phase leaves what the next one rests on.
TurnsTrue ==
    /\ recovery.phase \in {"precheck", "handoff"} => ~AttemptExists
    /\ turns <= Seen("recovery") /\ killed <= Seen("recovery")
    /\ recovery.phase \in {"terminate", "abort"} => killed < Seen("recovery")
    /\ recovery.phase \in {"terminate", "abort", "restart"} => turns < Seen("recovery")
    /\ recovery.phase \notin {"none", "precheck", "handoff"} => handoff
    /\ recovery.phase = "restart" => turns < killed

\* A session's states only follow each other: a state that was nudged is the last nudged
\* one or lies before it, and no snapshot is older than the last nudge.
NudgesTrue ==
    /\ nudge.at.n <= stable
    /\ looking.on => nudge.at.n <= looking.at.n /\ looking.at.n <= stable
    /\ \A n \in 0..MaxStates : nudges[n] <= Seen("dispatch") /\ (nudges[n] > 0 => n <= nudge.at.n)

\* What memory counts as confirmed was answered about that state.
ConfirmsTrue == confirms.count > 0 => agreed.count > 0 /\ agreed.at = confirms.at

IndInv == TypeOK /\ TurnsTrue /\ HandoffFirst /\ NudgesTrue /\ ConfirmsTrue

\* A source that was killed is continued, or a row says why not.  Violated by a crash
\* between the confirmed abort and phase C: the rows of phases A and B forbid another
\* attempt, and nothing resumes a recovery.
KilledIsResumed == killed > 0 /\ At("none") => turns > 0 \/ closed

\* "one deterministic target key, one recovery session, one turn" (jev_recovery_live.py:1293),
\* for a whole life.  Violated when 2000 rows of all sessions lie between two recoveries.
OneTurnEver == turns <= 1

\* "process restart still preserves at-most-once behavior for this stalled state"
\* (jev_recovery_live.py:1504).  Violated in the same way.
OneNudgeEver == \A n \in DOMAIN nudges : nudges[n] <= 1

\* A session that is being recovered is not spoken to.  Violated: the nudge guard does
\* not look at _INFLIGHT, and during the precheck the history has no row yet.
NoNudgeInRecovery == [][recovery.phase # "none" => nudges' = nudges]_jev
================================================================================
