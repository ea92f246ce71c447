------------------------------- MODULE JevHandoff -------------------------------
(***************************************************************************)
(* jev_agent_recovery_watchdog_v01.py: WatchdogV01.observe and             *)
(* RecoveryController.apply for the sessions of one work root, which has   *)
(* room for one RECOVERY_HANDOFF.md.  An observation is a snapshot, the    *)
(* judge's decision on it and, for SALVAGE, a handoff file where a writer  *)
(* is configured, a target session, its acknowledgement and the cleanup of *)
(* the source.  What was generated is memory; the file and the sessions    *)
(* outlive the process.                                                    *)
(***************************************************************************)
EXTENDS Naturals, FiniteSets

CONSTANTS
    Sessions,    \* source sessions
    Risky,       \* those whose scope facts are missing or protected
    NoSession,
    MaxStates,   \* bound on the snapshots of a session
    MaxCrashes

Snapshots == [of : Sessions, n : 0..MaxStates]

VARIABLES
    direct,      \* a direct session port is configured, else a session factory
    writer,      \* a handoff writer is configured
    stateOf,     \* the number of the latest snapshot of a session
    ended,       \* sessions that are terminal or have no remaining work
    observing,   \* _inflight, the session, its snapshot, and where observe is
    generated,   \* _generated: the snapshots a handoff was begun for
    file,        \* what RECOVERY_HANDOFF.md is about
    targets,     \* how many target sessions continue a snapshot
    acked,       \* the snapshots whose target has acknowledged the file
    cleaned,     \* sources that were cleaned up
    crashes

handoffs == <<direct, writer, stateOf, ended, observing, generated, file, targets, acked,
              cleaned, crashes>>
World == <<direct, writer, stateOf, ended>>

Nobody == [of |-> NoSession, n |-> 0]
Idle   == [at |-> Nobody, phase |-> "idle"]
In(p)  == observing.phase = p
Goto(p) == observing' = [observing EXCEPT !.phase = p]
Subject == observing.at

Init ==
    /\ direct \in BOOLEAN /\ writer \in BOOLEAN
    /\ stateOf = [s \in Sessions |-> 0] /\ ended = {}
    /\ observing = Idle /\ generated = {} /\ file = Nobody
    /\ targets = [t \in Snapshots |-> 0] /\ acked = {} /\ cleaned = {} /\ crashes = 0

\* A session comes to its end, also while it is being judged.
End(s) ==
    /\ s \notin ended /\ ended' = ended \cup {s}
    /\ UNCHANGED <<direct, writer, stateOf, observing, generated, file, targets, acked, cleaned,
                   crashes>>

\* A terminal session is not observed and an overlapping observation turned away.  The
\* concrete collector gives every snapshot an id, which its digest is taken over too: it is
\* a new one, whatever the session did.  Another collector may return the same facts again.
Observe(s) ==
    /\ In("idle") /\ s \notin ended
    /\ \E n \in {stateOf[s], stateOf[s] + 1} :
          /\ n <= MaxStates /\ stateOf' = [stateOf EXCEPT ![s] = n]
          /\ observing' = [at |-> [of |-> s, n |-> n], phase |-> "decide"]
    /\ UNCHANGED <<direct, writer, ended, generated, file, targets, acked, cleaned, crashes>>

\* deterministic_safety_interlock: scope facts are there, and name nothing protected.
Safe(s) == s \notin Risky

\* The judge answers about the snapshot's digest (another digest counts as DEAD).  All
\* but a safe SALVAGE of a snapshot that was not begun before is only recorded.
Decide ==
    /\ In("decide")
    /\ \/ observing' = Idle /\ UNCHANGED generated
       \/ /\ Safe(Subject.of) /\ Subject \notin generated
          /\ generated' = generated \cup {Subject} /\ Goto("write")
    /\ UNCHANGED <<World, file, targets, acked, cleaned, crashes>>

\* HandoffWriter.write: an existing file is never replaced (FileExistsError leaves
\* observe); a file that fails the validation stays.  A controller without a writer has no
\* file, which only a direct port requires.
Overwrites == TRUE   \* mutant: the file is written over
MayWrite == file = Nobody
WriteHandoff ==
    /\ In("write")
    /\ \/ writer /\ MayWrite /\ file' = Subject /\ (Goto("target") \/ observing' = Idle)
       \/ writer /\ ~MayWrite /\ UNCHANGED file /\ observing' = Idle
       \/ ~writer /\ ~direct /\ UNCHANGED file /\ Goto("target")
       \/ ~writer /\ direct /\ UNCHANGED file /\ observing' = Idle
    /\ UNCHANGED <<World, generated, targets, acked, cleaned, crashes>>

\* The first attempt goes to the agent itself; the port or the factory may fail.
CreateTarget ==
    /\ In("target")
    /\ \/ /\ targets' = [targets EXCEPT ![Subject] = @ + 1]
          /\ IF direct THEN Goto("ack") ELSE observing' = Idle
       \/ observing' = Idle /\ UNCHANGED targets
    /\ UNCHANGED <<World, generated, file, acked, cleaned, crashes>>

\* Without an acknowledgement nothing else is tried.
AwaitAck ==
    /\ In("ack")
    /\ \/ acked' = acked \cup {Subject} /\ Goto("cleanup")
       \/ observing' = Idle /\ UNCHANGED acked
    /\ UNCHANGED <<World, generated, file, targets, cleaned, crashes>>

Cleanup ==
    /\ In("cleanup") /\ observing' = Idle
    /\ cleaned' = cleaned \cup {Subject.of}
    /\ UNCHANGED <<World, generated, file, targets, acked, crashes>>

\* A process that starts again has forgotten the observation and _generated.
Crash ==
    /\ crashes < MaxCrashes /\ crashes' = crashes + 1
    /\ observing' = Idle /\ generated' = {}
    /\ UNCHANGED <<World, file, targets, acked, cleaned>>

Next ==
    \/ \E s \in Sessions : End(s) \/ Observe(s)
    \/ Decide \/ WriteHandoff \/ CreateTarget \/ AwaitAck \/ Cleanup \/ Crash

(******************************* properties ********************************)

Continued == {t \in Snapshots : targets[t] > 0}

\* With a writer one work root is handed over once, whatever repeats or restarts: there is
\* one target, and it continues what the file that lies there describes.  Without one, no
\* snapshot is handed over again but by a process that started later, and never to a direct
\* session.  No target is a risky session's, and a source is cleaned up only when its
\* target has acknowledged.
OneHandoff ==
    /\ writer => /\ Cardinality(Continued) <= 1 /\ Continued \subseteq {file}
                 /\ \A t \in Snapshots : targets[t] <= 1
    /\ ~writer => /\ \A t \in Snapshots : targets[t] <= 1 + crashes
                  /\ direct => Continued = {}
    /\ \A t \in Continued : Safe(t.of)
    /\ cleaned \subseteq {a.of : a \in acked} /\ acked \subseteq Continued

\* A work root has one target session.  Violated without a writer: each snapshot of the
\* concrete collector gets a target of its own.
OneTargetEver == Cardinality(Continued) <= 1

(****************************** why it holds *******************************)

TypeOK ==
    /\ direct \in BOOLEAN /\ writer \in BOOLEAN
    /\ stateOf \in [Sessions -> 0..MaxStates] /\ ended \subseteq Sessions
    /\ observing = Idle \/ observing \in
          [at : Snapshots, phase : {"decide", "write", "target", "ack", "cleanup"}]
    /\ generated \subseteq Snapshots /\ file \in Snapshots \cup {Nobody}
    /\ targets \in [Snapshots -> Nat] /\ acked \subseteq Snapshots /\ cleaned \subseteq Sessions
    /\ crashes \in 0..MaxCrashes

\* What is under way has got past the checks that come before it, and is about the file if
\* there is one.
StepsTrue ==
    /\ observing.phase \in {"write", "target"} =>
          Safe(Subject.of) /\ Subject \in generated /\ targets[Subject] <= crashes
    /\ observing.phase \in {"target", "ack", "cleanup"} => writer \/ ~direct
    /\ observing.phase = "target" /\ writer => file = Subject /\ Continued = {}
    /\ observing.phase \in {"ack", "cleanup"} => direct /\ Subject \in Continued
    /\ observing.phase = "cleanup" => Subject \in acked

\* A process hands a snapshot over once; with a writer, the file is written for one.
TargetsTrue ==
    /\ \A t \in Snapshots : targets[t] <= crashes + (IF t \in generated THEN 1 ELSE 0)
    /\ writer => Continued \subseteq {file} /\ \A t \in Snapshots : targets[t] <= 1
    /\ ~writer /\ direct => Continued = {}
    /\ \A t \in Continued : Safe(t.of)

IndInv == /\ TypeOK /\ StepsTrue /\ TargetsTrue
          /\ cleaned \subseteq {a.of : a \in acked} /\ acked \subseteq Continued
================================================================================
