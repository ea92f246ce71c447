-------------------------------- MODULE JevProofs --------------------------------
(***************************************************************************)
(* Theorems about JEV's recoveries, JevRecovery and JevHandoff, as parts   *)
(* of MCServices: for any number of states of a session, of sessions at a  *)
(* work root, and of restarts of the monitor.                              *)
(***************************************************************************)
EXTENDS MCServices, FiniteSetTheorems, TLAPS

(****************************** live watchdog ******************************)

\* The states a snapshot may show.
LEMMA JevDigests ==
    ASSUME Jev!TypeOK
    PROVE  Jev!Digest \in Jev!Digests /\ Jev!NoLook.at \in Jev!Digests /\ Jev!Digest.n = stable
BY JevAssumption DEF Jev!TypeOK, Jev!Digest, Jev!Digests, Jev!NoLook

\* What a monitor that has just started knows.
LEMMA JevFresh ==
    /\ Jev!NoLook \in [on : BOOLEAN, at : Jev!Digests] /\ ~Jev!NoLook.on
    /\ Jev!None \in Jev!Counted /\ Jev!None.count = 0
    /\ Jev!NoNudge \in [at : Jev!Digests, open : BOOLEAN] /\ Jev!NoNudge.at.n = 0
    /\ Jev!Resting \in [phase : Jev!Phases, at : Jev!Digests] /\ Jev!Resting.phase = "none"
<1>1. Jev!NoLook.at \in Jev!Digests /\ Jev!NoLook.at.n = 0
  BY JevAssumption DEF Jev!NoLook, Jev!Digests
<1>2. Jev!NoLook \in [on : BOOLEAN, at : Jev!Digests] /\ ~Jev!NoLook.on
  BY JevAssumption DEF Jev!NoLook, Jev!Digests
<1>3. Jev!None \in Jev!Counted /\ Jev!None.count = 0
  BY <1>1 DEF Jev!None, Jev!Counted
<1>4. Jev!NoNudge \in [at : Jev!Digests, open : BOOLEAN] /\ Jev!NoNudge.at.n = 0
  BY <1>1 DEF Jev!NoNudge
<1>5. Jev!Resting \in [phase : Jev!Phases, at : Jev!Digests] /\ Jev!Resting.phase = "none"
  BY <1>1 DEF Jev!Resting, Jev!Phases
<1> QED
  BY <1>2, <1>3, <1>4, <1>5

\* How often rows came in sight, for the kinds of rows there are.
LEMMA JevSeen ==
    ASSUME Jev!TypeOK, NEW kind \in {"dispatch", "recovery"}
    PROVE  /\ lost[kind] \in Nat /\ Jev!Seen(kind) \in Nat
           /\ kind \in window => Jev!Seen(kind) = lost[kind] + 1
           /\ kind \notin window => Jev!Seen(kind) = lost[kind]
BY DEF Jev!TypeOK, Jev!Seen

\* A monitor starts with nothing remembered and nothing written.
LEMMA JevInit ==
    ASSUME Jev!Init
    PROVE  Jev!IndInv
<1>1. Jev!TypeOK
  <2>1. /\ stable \in 0..MaxStates /\ turns \in Nat /\ killed \in Nat
        /\ jevCrashes \in 0..MaxCrashes /\ window \subseteq {"dispatch", "recovery"}
    BY JevAssumption DEF Jev!Init
  <2>2. nudges \in [0..MaxStates -> Nat] /\ lost \in [{"dispatch", "recovery"} -> Nat]
    BY DEF Jev!Init
  <2> QED
    BY <2>1, <2>2, JevFresh DEF Jev!Init, Jev!TypeOK
<1>2. Jev!TurnsTrue /\ Jev!HandoffFirst
  BY <1>1, JevFresh, JevSeen DEF Jev!Init, Jev!TurnsTrue, Jev!HandoffFirst, Jev!AttemptExists
<1>3. Jev!NudgesTrue
  BY <1>1, JevFresh, JevSeen, JevAssumption DEF Jev!Init, Jev!NudgesTrue
<1>4. Jev!ConfirmsTrue
  BY JevFresh DEF Jev!Init, Jev!ConfirmsTrue
<1> QED
  BY <1>1, <1>2, <1>3, <1>4 DEF Jev!IndInv

\* The session goes on, or time passes: nothing that was seen becomes newer than it is.
LEMMA JevOutside ==
    ASSUME Jev!IndInv, Jev!Work \/ Jev!Wait
    PROVE  Jev!IndInv'
<1> USE DEF Jev!IndInv
<1>1. /\ stable' \in 0..MaxStates /\ stable <= stable' /\ working' \in BOOLEAN
      /\ spaced' \in BOOLEAN /\ held' \in BOOLEAN
      /\ UNCHANGED <<looking, confirms, nudging, recovery, nudge, closed, window, lost, handoff,
                     killed, turns, nudges, agreed, jevCrashes>>
  <2>1. CASE Jev!Work
    BY <2>1, JevAssumption DEF Jev!Work, Jev!TypeOK, Jev!Memory, Jev!History, Jev!Written
  <2>2. CASE Jev!Wait
    <3>1. spaced' \in BOOLEAN /\ held' \in BOOLEAN
      BY <2>2 DEF Jev!Wait, Jev!TypeOK
    <3>2. UNCHANGED <<stable, working, looking, confirms, nudging, recovery, nudge, closed,
                      window, lost, handoff, killed, turns, nudges, agreed, jevCrashes>>
      BY <2>2 DEF Jev!Wait, Jev!Session, Jev!History, Jev!Written
    <3> QED
      BY <3>1, <3>2, JevAssumption DEF Jev!TypeOK
  <2> QED
    BY <2>1, <2>2
<1>2. Jev!TypeOK'
  BY <1>1 DEF Jev!TypeOK
<1>3. Jev!TurnsTrue' /\ Jev!HandoffFirst' /\ Jev!ConfirmsTrue'
  BY <1>1
  DEF Jev!TurnsTrue, Jev!HandoffFirst, Jev!ConfirmsTrue, Jev!AttemptExists, Jev!Seen
<1>4. Jev!NudgesTrue'
  <2>1. nudge.at.n \in Nat /\ looking.at.n \in Nat /\ stable \in Nat /\ stable' \in Nat
    BY <1>1 DEF Jev!TypeOK, Jev!Digests
  <2> QED
    BY <1>1, <2>1 DEF Jev!NudgesTrue, Jev!Seen
<1> QED
  BY <1>2, <1>3, <1>4

\* Rows that are left behind are counted: what came in sight stays what it was.
LEMMA JevScroll ==
    ASSUME Jev!IndInv, Jev!Scroll
    PROVE  Jev!IndInv'
<1> USE DEF Jev!IndInv
<1>1. PICK kinds \in {{"dispatch"}, {"dispatch", "recovery"}} : Jev!LeftBehind(kinds)
  BY DEF Jev!Scroll
<1>2. UNCHANGED <<stable, working, looking, confirms, spaced, nudging, held, recovery, nudge,
                  closed, handoff, killed, turns, nudges, agreed, jevCrashes>>
  BY DEF Jev!Scroll, Jev!Session, Jev!Memory
<1>3. /\ lost \in [{"dispatch", "recovery"} -> Nat] /\ window \subseteq {"dispatch", "recovery"}
      /\ window' = window \ kinds
      /\ lost' = [kind \in {"dispatch", "recovery"} |->
                    IF kind \in kinds \cap window THEN lost[kind] + 1 ELSE lost[kind]]
  BY <1>1 DEF Jev!LeftBehind, Jev!TypeOK
<1>4. /\ lost' \in [{"dispatch", "recovery"} -> Nat]
      /\ window' \subseteq window /\ window' \subseteq {"dispatch", "recovery"}
  BY <1>3
<1>5. ASSUME NEW kind \in {"dispatch", "recovery"} PROVE Jev!Seen(kind)' = Jev!Seen(kind)
  BY <1>3 DEF Jev!Seen
<1>6. Jev!TypeOK'
  BY <1>2, <1>4 DEF Jev!TypeOK
<1>7. Jev!TurnsTrue'
  <2>1. Jev!Seen("recovery")' = Jev!Seen("recovery")
    BY <1>5
  <2> QED
    BY <1>2, <1>4, <2>1 DEF Jev!TurnsTrue, Jev!AttemptExists
<1>8. Jev!NudgesTrue'
  <2>1. Jev!Seen("dispatch")' = Jev!Seen("dispatch")
    BY <1>5
  <2> QED
    BY <1>2, <2>1 DEF Jev!NudgesTrue
<1>9. Jev!HandoffFirst' /\ Jev!ConfirmsTrue'
  BY <1>2 DEF Jev!HandoffFirst, Jev!ConfirmsTrue
<1> QED
  BY <1>6, <1>7, <1>8, <1>9

\* A snapshot is of now; a nudge that helped, or was not waited for any longer, is closed.
LEMMA JevLook ==
    ASSUME Jev!IndInv, Jev!Look
    PROVE  Jev!IndInv'
<1> USE DEF Jev!IndInv
<1>1. /\ nudge' = [nudge EXCEPT !.open = FALSE]
      /\ looking' = looking \/ looking' = Jev!Snapshot
      /\ UNCHANGED <<stable, working, confirms, spaced, nudging, held, recovery, closed, window,
                     lost, handoff, killed, turns, nudges, agreed, jevCrashes>>
  BY DEF Jev!Look, Jev!Session, Jev!History, Jev!Written
<1>2. nudge' \in [at : Jev!Digests, open : BOOLEAN] /\ nudge'.at = nudge.at
  BY <1>1 DEF Jev!TypeOK
<1>3. Jev!Snapshot \in [on : BOOLEAN, at : Jev!Digests] /\ Jev!Snapshot.at.n = stable
  BY JevDigests DEF Jev!Snapshot
<1>4. Jev!TypeOK'
  BY <1>1, <1>2, <1>3 DEF Jev!TypeOK
<1>5. Jev!TurnsTrue' /\ Jev!HandoffFirst' /\ Jev!ConfirmsTrue'
  BY <1>1
  DEF Jev!TurnsTrue, Jev!HandoffFirst, Jev!ConfirmsTrue, Jev!AttemptExists, Jev!Seen
<1>6. Jev!NudgesTrue'
  <2>1. nudge.at.n \in Nat /\ stable \in Nat
    BY DEF Jev!TypeOK, Jev!Digests
  <2> QED
    BY <1>1, <1>2, <1>3, <2>1 DEF Jev!NudgesTrue, Jev!Seen
<1> QED
  BY <1>4, <1>5, <1>6

\* Nothing is recorded, and confirmations are dropped; or a nudge thread ends.
LEMMA JevForgets ==
    ASSUME Jev!IndInv, Jev!Skip \/ Jev!Observe \/ Jev!NudgeEnds
    PROVE  Jev!IndInv'
<1> USE DEF Jev!IndInv
<1>1. CASE Jev!Skip \/ Jev!Observe
  <2>1. /\ confirms' = Jev!None /\ agreed' = Jev!None
        /\ looking' = looking \/ looking' = Jev!NoLook
        /\ UNCHANGED <<stable, working, spaced, nudge, nudging, held, recovery, closed, window,
                       lost, handoff, killed, turns, nudges, jevCrashes>>
    BY <1>1 DEF Jev!Skip, Jev!Observe, Jev!Looked, Jev!Forget, Jev!Session, Jev!Written
  <2>2. Jev!TypeOK'
    BY <2>1, JevFresh DEF Jev!TypeOK
  <2>3. Jev!TurnsTrue' /\ Jev!HandoffFirst'
    BY <2>1 DEF Jev!TurnsTrue, Jev!HandoffFirst, Jev!AttemptExists, Jev!Seen
  <2>4. Jev!NudgesTrue' /\ Jev!ConfirmsTrue'
    BY <2>1, JevFresh DEF Jev!NudgesTrue, Jev!ConfirmsTrue, Jev!Seen
  <2> QED
    BY <2>2, <2>3, <2>4
<1>2. CASE Jev!NudgeEnds
  <2>1. /\ nudging' = FALSE /\ nudge' = [nudge EXCEPT !.open = FALSE]
        /\ UNCHANGED <<stable, working, looking, confirms, spaced, held, recovery, closed,
                       window, lost, handoff, killed, turns, nudges, agreed, jevCrashes>>
    BY <1>2 DEF Jev!NudgeEnds, Jev!Session, Jev!History, Jev!Written
  <2>2. nudge' \in [at : Jev!Digests, open : BOOLEAN] /\ nudge'.at = nudge.at
    BY <2>1 DEF Jev!TypeOK
  <2>3. Jev!TypeOK'
    BY <2>1, <2>2 DEF Jev!TypeOK
  <2>4. Jev!TurnsTrue' /\ Jev!HandoffFirst' /\ Jev!NudgesTrue' /\ Jev!ConfirmsTrue'
    BY <2>1, <2>2
    DEF Jev!TurnsTrue, Jev!HandoffFirst, Jev!NudgesTrue, Jev!ConfirmsTrue, Jev!AttemptExists,
        Jev!Seen
  <2> QED
    BY <2>3, <2>4
<1> QED
  BY <1>1, <1>2

\* The state that is nudged lies after every state that was nudged before, as far as the
\* history shows it; a state that is nudged again was nudged by a row left behind.
LEMMA JevNudge ==
    ASSUME Jev!IndInv, Jev!Nudge
    PROVE  Jev!IndInv'
<1> USE DEF Jev!IndInv
<1> DEFINE n == looking.at.n
<1>1. /\ looking.on /\ looking' = Jev!NoLook /\ confirms' = Jev!None /\ agreed' = Jev!None
      /\ "dispatch" \in window => n # nudge.at.n
      /\ nudge' = [at |-> looking.at, open |-> TRUE]
      /\ window' = window \cup {"dispatch"}
      /\ nudging' = TRUE /\ held' = TRUE
      /\ nudges' = [nudges EXCEPT ![n] = @ + 1]
      /\ UNCHANGED <<stable, working, spaced, recovery, closed, lost, handoff, killed, turns,
                     jevCrashes>>
  BY DEF Jev!Nudge, Jev!Looked, Jev!NudgeAllowed, Jev!Prior, Jev!Forget, Jev!Session
<1>2. /\ n \in 0..MaxStates /\ looking.at \in Jev!Digests /\ nudge.at.n \in 0..MaxStates
      /\ nudges \in [0..MaxStates -> Nat] /\ stable \in 0..MaxStates
      /\ window \subseteq {"dispatch", "recovery"}
  BY DEF Jev!TypeOK, Jev!Digests
<1>3. nudge.at.n <= n /\ n <= stable
  BY <1>1 DEF Jev!NudgesTrue
<1>4. nudges[n] <= lost["dispatch"]
  <2>1. nudges[n] <= Jev!Seen("dispatch") /\ (nudges[n] > 0 => n <= nudge.at.n)
    BY <1>2 DEF Jev!NudgesTrue
  <2>2. /\ lost["dispatch"] \in Nat
        /\ "dispatch" \notin window => Jev!Seen("dispatch") = lost["dispatch"]
    BY JevSeen
  <2>3. nudges[n] \in Nat
    BY <1>2
  <2> QED
    BY <1>1, <1>2, <1>3, <2>1, <2>2, <2>3
<1>5. /\ nudges' \in [0..MaxStates -> Nat] /\ nudges'[n] = nudges[n] + 1
      /\ \A m \in 0..MaxStates : m # n => nudges'[m] = nudges[m]
  BY <1>1, <1>2
<1>6. nudge' \in [at : Jev!Digests, open : BOOLEAN] /\ nudge'.at = looking.at
  BY <1>1, <1>2
<1>7. Jev!TypeOK'
  BY <1>1, <1>2, <1>5, <1>6, JevFresh DEF Jev!TypeOK
<1>8. Jev!TurnsTrue' /\ Jev!HandoffFirst'
  BY <1>1 DEF Jev!TurnsTrue, Jev!HandoffFirst, Jev!AttemptExists, Jev!Seen
<1>9. Jev!NudgesTrue' /\ Jev!ConfirmsTrue'
  <2>1. /\ lost["dispatch"] \in Nat /\ Jev!Seen("dispatch") <= lost["dispatch"] + 1
        /\ Jev!Seen("dispatch") \in Nat
    BY JevSeen
  <2>2. Jev!Seen("dispatch")' = lost["dispatch"] + 1
    BY <1>1 DEF Jev!Seen
  <2>3. ASSUME NEW m \in 0..MaxStates
        PROVE  nudges'[m] <= Jev!Seen("dispatch")' /\ (nudges'[m] > 0 => m <= nudge'.at.n)
    <3>1. nudges[m] \in Nat /\ nudges[n] \in Nat
      BY <1>2
    <3>2. CASE m = n
      BY <1>2, <1>4, <1>5, <1>6, <2>1, <2>2, <3>1, <3>2
    <3>3. CASE m # n
      <4>1. nudges[m] <= Jev!Seen("dispatch") /\ (nudges[m] > 0 => m <= nudge.at.n)
        BY DEF Jev!NudgesTrue
      <4> QED
        BY <1>2, <1>3, <1>5, <1>6, <2>1, <2>2, <3>1, <3>3, <4>1
    <3> QED
      BY <3>2, <3>3
  <2> QED
    BY <1>1, <1>3, <1>6, <2>3, JevFresh DEF Jev!NudgesTrue, Jev!ConfirmsTrue
<1> QED
  BY <1>7, <1>8, <1>9

\* A count is about the state its answers were about.
LEMMA JevConfirms ==
    ASSUME Jev!IndInv, looking.on
    PROVE  /\ looking.at \in Jev!Digests
           /\ Jev!Confirm(looking.at).at = looking.at
           /\ Jev!Confirm(looking.at).count < 2 => Jev!Confirm(looking.at) \in Jev!Counted
           /\ Jev!Agreed(looking.at) \in Jev!Counted
           /\ Jev!Agreed(looking.at).count > 0 /\ Jev!Agreed(looking.at).at = looking.at
           /\ Jev!Confirm(looking.at).count >= 2 => Jev!Agreed(looking.at).count = 2
<1> DEFINE at == looking.at
           c  == Jev!Confirm(at)
           a  == Jev!Agreed(at)
<1>1. at \in Jev!Digests /\ confirms \in Jev!Counted /\ agreed \in Jev!Counted
  BY DEF Jev!IndInv, Jev!TypeOK
<1>2. confirms.count \in 0..2 /\ agreed.count \in 0..2
  BY <1>1 DEF Jev!Counted
<1>3. /\ c.at = at /\ c.count \in 1..3
      /\ confirms.count = 0 \/ confirms.at # at => c.count = 1
  BY <1>1, <1>2 DEF Jev!Confirm
<1>4. c.count < 2 => c \in Jev!Counted
  BY <1>1, <1>2 DEF Jev!Confirm, Jev!Counted
<1>5. /\ a \in Jev!Counted /\ a.count > 0 /\ a.at = at
      /\ agreed.count > 0 /\ agreed.at = at => a.count = 2
  BY <1>1, <1>2 DEF Jev!Agreed, Jev!Counted
<1>6. c.count >= 2 => a.count = 2
  BY <1>2, <1>3, <1>5 DEF Jev!IndInv, Jev!ConfirmsTrue
<1> QED
  BY <1>1, <1>3, <1>4, <1>5, <1>6

\* A recovery is begun while the history shows nothing of one.
LEMMA JevSalvage ==
    ASSUME Jev!IndInv, Jev!Salvage
    PROVE  Jev!IndInv' /\ Jev!StartedOnTwo
<1> USE DEF Jev!IndInv
<1> DEFINE at == looking.at
           c  == Jev!Confirm(at)
<1>1. /\ looking.on /\ looking' = Jev!NoLook /\ ~Jev!AttemptExists
      /\ agreed' = Jev!Agreed(at)
      /\ UNCHANGED <<stable, working, nudge, nudging, held, closed, window, lost, handoff,
                     killed, turns, nudges, jevCrashes>>
  BY DEF Jev!Salvage, Jev!Looked, Jev!Session, Jev!Written
<1>2. \/ /\ c.count < 2 /\ confirms' = c /\ spaced' \in BOOLEAN /\ recovery' = recovery
      \/ /\ c.count >= 2 /\ confirms' = Jev!None /\ spaced' = FALSE
         /\ recovery' = IF recovery.phase = "none" THEN [phase |-> "precheck", at |-> at]
                                                   ELSE recovery
  BY DEF Jev!Salvage, Jev!TypeOK
<1>3. /\ at \in Jev!Digests
      /\ c.at = at
      /\ c.count < 2 => c \in Jev!Counted
      /\ agreed' \in Jev!Counted /\ agreed'.count > 0 /\ agreed'.at = at
      /\ c.count >= 2 => agreed'.count = 2
  BY <1>1, JevConfirms
<1> HIDE DEF c
<1>4. /\ recovery' \in [phase : Jev!Phases, at : Jev!Digests]
      /\ \/ recovery' = recovery
         \/ recovery'.phase = "precheck" /\ recovery.phase = "none" /\ c.count >= 2
  BY <1>2, <1>3 DEF Jev!TypeOK, Jev!Phases
<1>5. Jev!TypeOK'
  BY <1>1, <1>2, <1>3, <1>4, JevFresh DEF Jev!TypeOK
<1>6. Jev!TurnsTrue' /\ Jev!HandoffFirst'
  BY <1>1, <1>4 DEF Jev!TurnsTrue, Jev!HandoffFirst, Jev!AttemptExists, Jev!Seen
<1>7. Jev!NudgesTrue'
  BY <1>1, JevFresh DEF Jev!NudgesTrue, Jev!Seen
<1>8. Jev!ConfirmsTrue'
  BY <1>2, <1>3, JevFresh DEF Jev!ConfirmsTrue
<1>9. Jev!StartedOnTwo
  BY <1>3, <1>4 DEF Jev!StartedOnTwo
<1> QED
  BY <1>5, <1>6, <1>7, <1>8, <1>9

\* The recovery thread: each phase leaves what the next rests on, and its rows are in sight.
LEMMA JevThread ==
    ASSUME Jev!IndInv,
           \/ Jev!Precheck \/ Jev!PhaseA \/ Jev!PhaseB \/ Jev!AbortSource \/ Jev!PhaseC
           \/ Jev!Complete
    PROVE  Jev!IndInv'
<1> USE DEF Jev!IndInv
<1>1. /\ working' \in BOOLEAN /\ handoff' \in BOOLEAN
      /\ turns' \in {turns, turns + 1} /\ killed' \in {killed, killed + 1}
      /\ UNCHANGED <<stable, looking, confirms, spaced, nudging, held, nudges, agreed, nudge,
                     jevCrashes>>
  BY DEF Jev!Precheck, Jev!PhaseA, Jev!PhaseB, Jev!AbortSource, Jev!PhaseC, Jev!Complete,
         Jev!Session, Jev!TypeOK, Jev!Abort
<1>2. /\ closed' \in BOOLEAN /\ lost' = lost /\ window' \in {window, window \cup {"recovery"}}
      /\ recovery' \in [phase : Jev!Phases, at : Jev!Digests]
  <2>1. \A p \in Jev!Phases : Jev!Goto(p) =>
            recovery' \in [phase : Jev!Phases, at : Jev!Digests]
    BY DEF Jev!Goto, Jev!TypeOK
  <2>2. Jev!Outcome => /\ recovery' \in [phase : Jev!Phases, at : Jev!Digests]
                       /\ closed' \in BOOLEAN /\ lost' = lost
                       /\ window' = window \cup {"recovery"}
    BY JevFresh DEF Jev!Outcome, Jev!Append
  <2>3. Jev!Row => closed' \in BOOLEAN /\ lost' = lost /\ window' = window \cup {"recovery"}
    BY DEF Jev!Row, Jev!Append, Jev!TypeOK
  <2>4. UNCHANGED Jev!Written => closed' \in BOOLEAN /\ lost' = lost /\ window' = window
    BY DEF Jev!Written, Jev!TypeOK
  <2>5. /\ "handoff" \in Jev!Phases /\ "terminate" \in Jev!Phases /\ "abort" \in Jev!Phases
        /\ "restart" \in Jev!Phases /\ "turn" \in Jev!Phases
    BY DEF Jev!Phases
  <2>6. CASE Jev!Precheck
    BY <2>1, <2>2, <2>4, <2>5, <2>6 DEF Jev!Precheck
  <2>7. CASE Jev!PhaseA
    BY <2>1, <2>2, <2>3, <2>5, <2>7 DEF Jev!PhaseA
  <2>8. CASE Jev!PhaseB
    BY <2>1, <2>2, <2>3, <2>5, <2>8 DEF Jev!PhaseB
  <2>9. CASE Jev!AbortSource
    BY <2>1, <2>2, <2>4, <2>5, <2>9 DEF Jev!AbortSource
  <2>10. CASE Jev!PhaseC
    BY <2>1, <2>3, <2>5, <2>10 DEF Jev!PhaseC
  <2>11. CASE Jev!Complete
    BY <2>2, <2>11 DEF Jev!Complete
  <2> QED
    BY <2>6, <2>7, <2>8, <2>9, <2>10, <2>11
<1>3. \A p : Jev!Goto(p) => recovery'.phase = p
  BY DEF Jev!Goto, Jev!TypeOK
<1>4. /\ lost["recovery"] \in Nat /\ turns \in Nat /\ killed \in Nat
      /\ "recovery" \in window => Jev!Seen("recovery") = lost["recovery"] + 1
      /\ "recovery" \notin window => Jev!Seen("recovery") = lost["recovery"]
  BY JevSeen DEF Jev!TypeOK
<1>5. /\ Jev!Row \/ Jev!Outcome => Jev!Seen("recovery")' = lost["recovery"] + 1
      /\ UNCHANGED Jev!Written => /\ Jev!Seen("recovery")' = Jev!Seen("recovery")
                                  /\ Jev!AttemptExists' = Jev!AttemptExists
  BY DEF Jev!Row, Jev!Outcome, Jev!Append, Jev!Seen, Jev!Written, Jev!AttemptExists
<1>6. Jev!Outcome => recovery'.phase = "none"
  BY JevFresh DEF Jev!Outcome
<1>7. Jev!TurnsTrue' /\ Jev!HandoffFirst'
  <2> USE <1>3, <1>4, <1>5, <1>6
      DEF Jev!TurnsTrue, Jev!HandoffFirst, Jev!At
  <2>1. CASE Jev!Precheck
    BY <2>1 DEF Jev!Precheck
  <2>2. CASE Jev!PhaseA
    BY <2>2 DEF Jev!PhaseA, Jev!AttemptExists
  <2>3. CASE Jev!PhaseB
    BY <2>3 DEF Jev!PhaseB
  <2>4. CASE Jev!AbortSource
    <3>1. /\ recovery.phase = "abort" /\ handoff /\ handoff' = handoff /\ turns' = turns
          /\ killed < Jev!Seen("recovery") /\ turns < Jev!Seen("recovery") /\ turns <= killed
          /\ Jev!Seen("recovery") \in Nat
      BY <2>4, JevSeen DEF Jev!AbortSource
    <3>2. CASE killed' = killed + 1 /\ Jev!Goto("restart") /\ UNCHANGED Jev!Written
      <4>1. recovery'.phase = "restart" /\ Jev!Seen("recovery")' = Jev!Seen("recovery")
        BY <3>2
      <4> QED
        BY <3>1, <3>2, <4>1
    <3>3. CASE Jev!Outcome /\ UNCHANGED killed
      <4>1. /\ recovery'.phase = "none" /\ Jev!Seen("recovery")' = lost["recovery"] + 1
            /\ Jev!Seen("recovery") <= lost["recovery"] + 1
        BY <3>3
      <4> QED
        BY <3>1, <3>3, <4>1
    <3> QED
      BY <2>4, <3>2, <3>3 DEF Jev!AbortSource
  <2>5. CASE Jev!PhaseC
    BY <2>5 DEF Jev!PhaseC
  <2>6. CASE Jev!Complete
    BY <2>6 DEF Jev!Complete
  <2> QED
    BY <2>1, <2>2, <2>3, <2>4, <2>5, <2>6
<1>8. Jev!TypeOK'
  BY <1>1, <1>2, <1>4 DEF Jev!TypeOK
<1>9. Jev!NudgesTrue' /\ Jev!ConfirmsTrue'
  <2>1. Jev!Seen("dispatch")' = Jev!Seen("dispatch")
    BY <1>2 DEF Jev!Seen
  <2> QED
    BY <1>1, <2>1 DEF Jev!NudgesTrue, Jev!ConfirmsTrue
<1> QED
  BY <1>7, <1>8, <1>9

\* What the process forgets is nothing the history rests on.
LEMMA JevCrash ==
    ASSUME Jev!IndInv, Jev!Crash
    PROVE  Jev!IndInv'
<1> USE DEF Jev!IndInv
<1>1. /\ jevCrashes' \in 0..MaxCrashes
      /\ looking' = Jev!NoLook /\ confirms' = Jev!None /\ spaced' = FALSE /\ agreed' = Jev!None
      /\ nudging' = FALSE /\ recovery' = Jev!Resting
      /\ UNCHANGED <<stable, working, held, closed, window, lost, handoff, killed, turns, nudges,
                     nudge>>
  BY JevAssumption DEF Jev!Crash, Jev!Session, Jev!Written, Jev!TypeOK
<1>2. Jev!TypeOK'
  BY <1>1, JevFresh DEF Jev!TypeOK
<1>3. Jev!TurnsTrue' /\ Jev!HandoffFirst' /\ Jev!NudgesTrue' /\ Jev!ConfirmsTrue'
  BY <1>1, JevFresh
  DEF Jev!TurnsTrue, Jev!HandoffFirst, Jev!NudgesTrue, Jev!ConfirmsTrue, Jev!AttemptExists,
      Jev!Seen
<1> QED
  BY <1>2, <1>3

\* Every step of the watchdog, its threads and its session, and those of the other parts.
LEMMA JevStep ==
    ASSUME Jev!IndInv, [Next]_vars
    PROVE  Jev!IndInv' /\ [Jev!StartedOnTwo]_(Jev!jev)
<1>1. CASE Jev!Next
  <2>1. CASE Jev!Salvage
    BY <2>1, JevSalvage
  <2>2. CASE ~Jev!Salvage
    <3>1. Jev!IndInv'
      BY <1>1, <2>2, JevOutside, JevScroll, JevLook, JevForgets, JevNudge, JevThread, JevCrash
      DEF Jev!Next
    <3>2. recovery.phase = "none" => recovery'.phase = "none"
      BY <1>1, <2>2, JevFresh
      DEF Jev!Next, Jev!Work, Jev!Wait, Jev!Scroll, Jev!Crash, Jev!Skip, Jev!Look, Jev!Observe,
          Jev!Nudge, Jev!NudgeEnds, Jev!Precheck, Jev!PhaseA, Jev!PhaseB, Jev!AbortSource, Jev!PhaseC,
          Jev!Complete, Jev!Memory, Jev!At
    <3> QED
      BY <3>1, <3>2 DEF Jev!StartedOnTwo
  <2> QED
    BY <2>1, <2>2
<1>2. CASE UNCHANGED jev
  <2>1. UNCHANGED Jev!jev
    BY <1>2 DEF jev, Jev!jev
  <2>2. Jev!IndInv'
    BY <1>2
    DEF jev, Jev!IndInv, Jev!TypeOK, Jev!TurnsTrue, Jev!HandoffFirst, Jev!NudgesTrue,
        Jev!ConfirmsTrue, Jev!AttemptExists, Jev!Seen
  <2> QED
    BY <2>1, <2>2
<1> QED
  BY <1>1, <1>2 DEF Next, vars

(****************************** v0.1 controller ****************************)

\* JevHandoff counts with the same operator as this module.
LEMMA HandoffCardinality ==
    ASSUME NEW S
    PROVE  Handoff!Cardinality(S) = Cardinality(S)
BY DEF Handoff!Cardinality, Cardinality

\* No observation is about nobody.
LEMMA HandoffPlaces ==
    /\ Handoff!Idle.phase = "idle" /\ Handoff!Nobody \notin Handoff!Snapshots
BY JevAssumption DEF Handoff!Idle, Handoff!Nobody, Handoff!Snapshots

\* A controller starts with an empty work root.
LEMMA HandoffInit ==
    ASSUME Handoff!Init
    PROVE  Handoff!IndInv
<1>1. /\ targets = [t \in Handoff!Snapshots |-> 0] /\ acked = {} /\ cleaned = {}
      /\ observing.phase = "idle" /\ generated = {} /\ handoffCrashes = 0
  BY HandoffPlaces DEF Handoff!Init
<1>2. Handoff!TypeOK
  BY JevAssumption DEF Handoff!Init, Handoff!TypeOK
<1>3. Handoff!Continued = {}
  BY <1>1 DEF Handoff!Continued
<1>4. Handoff!TargetsTrue
  BY <1>1, <1>3 DEF Handoff!TargetsTrue
<1>5. Handoff!StepsTrue
  BY <1>1 DEF Handoff!StepsTrue
<1> QED
  BY <1>1, <1>2, <1>3, <1>4, <1>5 DEF Handoff!IndInv

\* An observation that ends, or moves on to a phase whose ground it has laid.
LEMMA HandoffPlace ==
    ASSUME Handoff!TypeOK, NEW p \in {"decide", "write", "target", "ack", "cleanup"},
           Handoff!Goto(p), observing.phase # "idle"
    PROVE  /\ observing' \in [at : Handoff!Snapshots,
                              phase : {"decide", "write", "target", "ack", "cleanup"}]
           /\ observing'.phase = p /\ observing'.at = observing.at
           /\ observing.at \in Handoff!Snapshots
<1>1. observing \in [at : Handoff!Snapshots,
                     phase : {"decide", "write", "target", "ack", "cleanup"}]
  BY HandoffPlaces DEF Handoff!TypeOK
<1> QED
  BY <1>1 DEF Handoff!Goto

\* A session ends, one is observed, or the process dies: the work root stays as it is.
LEMMA HandoffOutside ==
    ASSUME Handoff!IndInv,
           \/ \E s \in Sessions : Handoff!End(s) \/ Handoff!Observe(s)
           \/ Handoff!Crash
    PROVE  Handoff!IndInv'
<1> USE DEF Handoff!IndInv
<1>1. ASSUME NEW s \in Sessions, Handoff!End(s) PROVE Handoff!IndInv'
  <2>1. /\ ended' \subseteq Sessions
        /\ UNCHANGED <<direct, writer, stateOf, observing, generated, handoffFile, targets, acked,
                       cleaned, handoffCrashes>>
    BY <1>1 DEF Handoff!End, Handoff!TypeOK
  <2> QED
    BY <2>1
    DEF Handoff!TypeOK, Handoff!StepsTrue, Handoff!Subject, Handoff!TargetsTrue,
        Handoff!Continued
<1>2. ASSUME NEW s \in Sessions, Handoff!Observe(s) PROVE Handoff!IndInv'
  <2>1. PICK n \in {stateOf[s], stateOf[s] + 1} :
            /\ n <= MaxHandoffStates /\ stateOf' = [stateOf EXCEPT ![s] = n]
            /\ observing' = [at |-> [of |-> s, n |-> n], phase |-> "decide"]
    BY <1>2 DEF Handoff!Observe
  <2>2. UNCHANGED <<direct, writer, ended, generated, handoffFile, targets, acked, cleaned,
                    handoffCrashes>>
    BY <1>2 DEF Handoff!Observe
  <2>3. stateOf \in [Sessions -> 0..MaxHandoffStates]
    BY DEF Handoff!TypeOK
  <2>4. n \in 0..MaxHandoffStates
    BY <2>1, <2>3, JevAssumption
  <2>5. stateOf' \in [Sessions -> 0..MaxHandoffStates]
    BY <2>1, <2>3, <2>4
  <2>6. [of |-> s, n |-> n] \in Handoff!Snapshots
    BY <2>4 DEF Handoff!Snapshots
  <2> QED
    BY <2>1, <2>2, <2>5, <2>6
    DEF Handoff!TypeOK, Handoff!StepsTrue, Handoff!TargetsTrue, Handoff!Continued
<1>3. CASE Handoff!Crash
  <2>1. /\ handoffCrashes' = handoffCrashes + 1 /\ handoffCrashes' \in 0..MaxCrashes
        /\ observing' = Handoff!Idle /\ generated' = {}
        /\ UNCHANGED <<direct, writer, stateOf, ended, handoffFile, targets, acked, cleaned>>
    BY <1>3, JevAssumption DEF Handoff!Crash, Handoff!World, Handoff!TypeOK
  <2>2. Handoff!TypeOK' /\ Handoff!StepsTrue'
    BY <2>1, HandoffPlaces DEF Handoff!TypeOK, Handoff!StepsTrue
  <2>3. Handoff!Continued' = Handoff!Continued
    BY <2>1 DEF Handoff!Continued
  <2>4. \A t \in Handoff!Snapshots : targets[t] <= handoffCrashes + 1
    <3>1. ASSUME NEW t \in Handoff!Snapshots PROVE targets[t] <= handoffCrashes + 1
      <4>1. targets[t] \in Nat /\ handoffCrashes \in Nat
        BY DEF Handoff!TypeOK
      <4>2. targets[t] <= handoffCrashes + (IF t \in generated THEN 1 ELSE 0)
        BY DEF Handoff!TargetsTrue
      <4> QED
        BY <4>1, <4>2
    <3> QED
      BY <3>1
  <2>5. \A t \in Handoff!Snapshots : targets'[t] <= handoffCrashes' + 0
    BY <2>1, <2>4
  <2>6. Handoff!TargetsTrue'
    BY <2>1, <2>3, <2>5 DEF Handoff!TargetsTrue
  <2> QED
    BY <2>1, <2>2, <2>3, <2>6
<1> QED
  BY <1>1, <1>2, <1>3

\* The decision admits only a safe session, once in a life of the process, and the file is
\* written where none is.
LEMMA HandoffWritten ==
    ASSUME Handoff!IndInv, Handoff!Decide \/ Handoff!WriteHandoff
    PROVE  Handoff!IndInv'
<1> USE DEF Handoff!IndInv
<1> DEFINE Places == [at : Handoff!Snapshots,
                      phase : {"decide", "write", "target", "ack", "cleanup"}]
<1>1. CASE Handoff!Decide
  <2>1. /\ UNCHANGED <<direct, writer, stateOf, ended, handoffFile, targets, acked, cleaned,
                       handoffCrashes>>
        /\ observing.phase = "decide"
    BY <1>1 DEF Handoff!Decide, Handoff!World, Handoff!In
  <2>2. CASE observing' = Handoff!Idle /\ UNCHANGED generated
    BY <2>1, <2>2, HandoffPlaces
    DEF Handoff!TypeOK, Handoff!StepsTrue, Handoff!TargetsTrue, Handoff!Continued
  <2>3. CASE /\ Handoff!Safe(observing.at.of) /\ observing.at \notin generated
             /\ generated' = generated \cup {observing.at} /\ Handoff!Goto("write")
    <3>1. /\ observing' \in Places
          /\ observing'.phase = "write" /\ observing'.at = observing.at
          /\ observing.at \in Handoff!Snapshots
      BY <2>1, <2>3, HandoffPlace
    <3>2. Handoff!TypeOK'
      BY <2>1, <2>3, <3>1 DEF Handoff!TypeOK
    <3>3. Handoff!Continued' = Handoff!Continued
      BY <2>1 DEF Handoff!Continued
    <3>4. targets[observing.at] <= handoffCrashes + 0
      BY <2>3, <3>1 DEF Handoff!TargetsTrue
    <3>5. Handoff!StepsTrue'
      <4>1. targets[observing.at] <= handoffCrashes
        BY <3>1, <3>4 DEF Handoff!TypeOK
      <4> QED
        BY <2>1, <2>3, <3>1, <4>1 DEF Handoff!StepsTrue, Handoff!Subject
    <3>6. ASSUME NEW t \in Handoff!Snapshots
          PROVE  targets[t] <= handoffCrashes + (IF t \in generated' THEN 1 ELSE 0)
      <4>1. targets[t] \in Nat /\ handoffCrashes \in Nat
        BY DEF Handoff!TypeOK
      <4>2. targets[t] <= handoffCrashes + (IF t \in generated THEN 1 ELSE 0)
        BY DEF Handoff!TargetsTrue
      <4> QED
        BY <2>3, <4>1, <4>2
    <3>7. Handoff!TargetsTrue'
      BY <2>1, <3>3, <3>6 DEF Handoff!TargetsTrue
    <3> QED
      BY <2>1, <3>2, <3>3, <3>5, <3>7
  <2> QED
    BY <1>1, <2>2, <2>3 DEF Handoff!Decide, Handoff!Subject
<1>2. CASE Handoff!WriteHandoff
  <2>1. /\ UNCHANGED <<direct, writer, stateOf, ended, generated, targets, acked, cleaned,
                       handoffCrashes>>
        /\ observing.phase = "write"
    BY <1>2 DEF Handoff!WriteHandoff, Handoff!World, Handoff!In
  <2>2. /\ Handoff!Continued' = Handoff!Continued /\ observing.at \in Handoff!Snapshots
        /\ Handoff!Safe(observing.at.of) /\ observing.at \in generated
        /\ targets[observing.at] <= handoffCrashes
    BY <2>1, HandoffPlaces
    DEF Handoff!Continued, Handoff!TypeOK, Handoff!StepsTrue, Handoff!Subject
  <2>3. CASE UNCHANGED handoffFile /\ observing' = Handoff!Idle
    BY <2>1, <2>3, HandoffPlaces
    DEF Handoff!TypeOK, Handoff!StepsTrue, Handoff!TargetsTrue, Handoff!Continued
  <2>4. CASE ~writer /\ ~direct /\ UNCHANGED handoffFile /\ Handoff!Goto("target")
    <3>1. /\ observing' \in Places
          /\ observing'.phase = "target" /\ observing'.at = observing.at
      BY <2>1, <2>4, HandoffPlace
    <3>2. Handoff!TypeOK' /\ Handoff!TargetsTrue'
      BY <2>1, <2>2, <2>4, <3>1 DEF Handoff!TypeOK, Handoff!TargetsTrue
    <3>3. Handoff!StepsTrue'
      BY <2>1, <2>2, <2>4, <3>1 DEF Handoff!StepsTrue, Handoff!Subject
    <3> QED
      BY <2>1, <2>2, <3>2, <3>3
  <2>5. CASE /\ writer /\ handoffFile = Handoff!Nobody /\ handoffFile' = observing.at
             /\ Handoff!Goto("target") \/ observing' = Handoff!Idle
    <3>1. Handoff!Continued = {}
      BY <2>5, HandoffPlaces DEF Handoff!TargetsTrue, Handoff!Continued
    <3>2. /\ observing' = Handoff!Idle \/ observing' \in Places
          /\ \/ observing'.phase = "idle"
             \/ observing'.phase = "target" /\ observing'.at = observing.at
      <4>1. CASE Handoff!Goto("target")
        BY <2>1, <4>1, HandoffPlace
      <4>2. CASE observing' = Handoff!Idle
        BY <4>2, HandoffPlaces
      <4> QED
        BY <2>5, <4>1, <4>2
    <3>3. Handoff!TypeOK'
      BY <2>1, <2>2, <2>5, <3>2 DEF Handoff!TypeOK
    <3>4. Handoff!StepsTrue'
      BY <2>1, <2>2, <2>5, <3>1, <3>2 DEF Handoff!StepsTrue, Handoff!Subject
    <3>5. Handoff!TargetsTrue'
      BY <2>1, <2>2, <2>5, <3>1 DEF Handoff!TargetsTrue
    <3> QED
      BY <2>1, <2>2, <3>3, <3>4, <3>5
  <2> QED
    BY <1>2, <2>3, <2>4, <2>5 DEF Handoff!WriteHandoff, Handoff!MayWrite, Handoff!Subject
<1> QED
  BY <1>1, <1>2

\* The target continues the snapshot, and the file if there is one; its source is cleaned
\* up when the target has acknowledged that.
LEMMA HandoffContinued ==
    ASSUME Handoff!IndInv, Handoff!CreateTarget \/ Handoff!AwaitAck \/ Handoff!Cleanup
    PROVE  Handoff!IndInv'
<1> USE DEF Handoff!IndInv
<1> DEFINE Places == [at : Handoff!Snapshots,
                      phase : {"decide", "write", "target", "ack", "cleanup"}]
<1>1. CASE Handoff!CreateTarget
  <2>1. /\ UNCHANGED <<direct, writer, stateOf, ended, generated, handoffFile, acked, cleaned,
                       handoffCrashes>>
        /\ observing.phase = "target"
    BY <1>1 DEF Handoff!CreateTarget, Handoff!World, Handoff!In
  <2>2. /\ observing.at \in Handoff!Snapshots /\ Handoff!Safe(observing.at.of)
        /\ observing.at \in generated /\ targets[observing.at] <= handoffCrashes
        /\ writer \/ ~direct
        /\ writer => handoffFile = observing.at /\ Handoff!Continued = {}
    BY <2>1, HandoffPlaces DEF Handoff!TypeOK, Handoff!StepsTrue, Handoff!Subject
  <2>3. CASE observing' = Handoff!Idle /\ UNCHANGED targets
    BY <2>1, <2>3, HandoffPlaces
    DEF Handoff!TypeOK, Handoff!StepsTrue, Handoff!TargetsTrue, Handoff!Continued
  <2>4. CASE /\ targets' = [targets EXCEPT ![observing.at] = @ + 1]
             /\ IF direct THEN Handoff!Goto("ack") ELSE observing' = Handoff!Idle
    <3>1. targets \in [Handoff!Snapshots -> Nat] /\ handoffCrashes \in Nat
      BY DEF Handoff!TypeOK
    <3>2. /\ targets' \in [Handoff!Snapshots -> Nat]
          /\ targets'[observing.at] = targets[observing.at] + 1
          /\ \A t \in Handoff!Snapshots : t # observing.at => targets'[t] = targets[t]
      BY <2>2, <2>4, <3>1
    <3>3. Handoff!Continued' = Handoff!Continued \cup {observing.at}
      <4>1. targets'[observing.at] > 0
        BY <2>2, <3>1, <3>2
      <4> QED
        BY <2>2, <3>1, <3>2, <4>1 DEF Handoff!Continued
    <3>4. /\ observing' = Handoff!Idle \/ observing' \in Places
          /\ \/ observing'.phase = "idle"
             \/ observing'.phase = "ack" /\ observing'.at = observing.at /\ direct
      <4>1. CASE direct
        BY <2>1, <2>4, <4>1, HandoffPlace
      <4>2. CASE ~direct
        BY <2>4, <4>2, HandoffPlaces
      <4> QED
        BY <4>1, <4>2
    <3>5. Handoff!TypeOK'
      BY <2>1, <3>2, <3>4 DEF Handoff!TypeOK
    <3>6. Handoff!StepsTrue'
      BY <2>1, <2>2, <3>3, <3>4 DEF Handoff!StepsTrue, Handoff!Subject
    <3>7. ASSUME NEW t \in Handoff!Snapshots
          PROVE  /\ targets'[t] <= handoffCrashes + (IF t \in generated THEN 1 ELSE 0)
                 /\ writer => targets'[t] <= 1
      <4>1. CASE t = observing.at
        <5>1. writer => targets[t] = 0
          BY <2>2, <3>1, <4>1 DEF Handoff!Continued
        <5> QED
          BY <2>2, <3>1, <3>2, <4>1, <5>1
      <4>2. CASE t # observing.at
        BY <3>2, <4>2 DEF Handoff!TargetsTrue
      <4> QED
        BY <4>1, <4>2
    <3>8. Handoff!TargetsTrue'
      <4>1. writer => Handoff!Continued' \subseteq {handoffFile}
        BY <2>2, <3>3
      <4>2. \A t \in Handoff!Continued' : Handoff!Safe(t.of)
        BY <2>2, <3>3 DEF Handoff!TargetsTrue
      <4> QED
        BY <2>1, <2>2, <3>7, <4>1, <4>2 DEF Handoff!TargetsTrue
    <3> QED
      BY <2>1, <3>3, <3>5, <3>6, <3>8
  <2> QED
    BY <1>1, <2>3, <2>4 DEF Handoff!CreateTarget, Handoff!Subject
<1>2. CASE Handoff!AwaitAck
  <2>1. /\ UNCHANGED <<direct, writer, stateOf, ended, generated, handoffFile, targets, cleaned,
                       handoffCrashes>>
        /\ observing.phase = "ack"
    BY <1>2 DEF Handoff!AwaitAck, Handoff!World, Handoff!In
  <2>2. /\ observing.at \in Handoff!Snapshots /\ direct /\ writer
        /\ observing.at \in Handoff!Continued /\ Handoff!Continued' = Handoff!Continued
    BY <2>1, HandoffPlaces
    DEF Handoff!TypeOK, Handoff!StepsTrue, Handoff!Subject, Handoff!Continued
  <2>3. Handoff!TargetsTrue'
    BY <2>1, <2>2 DEF Handoff!TargetsTrue
  <2>4. CASE observing' = Handoff!Idle /\ UNCHANGED acked
    BY <2>1, <2>2, <2>3, <2>4, HandoffPlaces DEF Handoff!TypeOK, Handoff!StepsTrue
  <2>5. CASE acked' = acked \cup {observing.at} /\ Handoff!Goto("cleanup")
    <3>1. /\ observing' \in Places
          /\ observing'.phase = "cleanup" /\ observing'.at = observing.at
      BY <2>1, <2>5, HandoffPlace
    <3>2. Handoff!TypeOK'
      BY <2>1, <2>2, <2>5, <3>1 DEF Handoff!TypeOK
    <3>3. Handoff!StepsTrue'
      BY <2>1, <2>2, <2>5, <3>1 DEF Handoff!StepsTrue, Handoff!Subject
    <3> QED
      BY <2>1, <2>2, <2>3, <2>5, <3>2, <3>3
  <2> QED
    BY <1>2, <2>4, <2>5 DEF Handoff!AwaitAck, Handoff!Subject
<1>3. CASE Handoff!Cleanup
  <2>1. /\ UNCHANGED <<direct, writer, stateOf, ended, generated, handoffFile, targets, acked,
                       handoffCrashes>>
        /\ observing.phase = "cleanup" /\ observing' = Handoff!Idle
        /\ cleaned' = cleaned \cup {observing.at.of}
    BY <1>3 DEF Handoff!Cleanup, Handoff!World, Handoff!In, Handoff!Subject
  <2>2. observing.at \in acked /\ observing.at.of \in Sessions
    <3>1. observing.at \in acked
      BY <2>1 DEF Handoff!StepsTrue, Handoff!Subject
    <3> QED
      BY <3>1 DEF Handoff!TypeOK, Handoff!Snapshots
  <2> QED
    BY <2>1, <2>2, HandoffPlaces
    DEF Handoff!TypeOK, Handoff!StepsTrue, Handoff!TargetsTrue, Handoff!Continued
<1> QED
  BY <1>1, <1>2, <1>3

\* Of the targets that are all about the file, there is one at most.
LEMMA HandoffOnce ==
    ASSUME Handoff!IndInv
    PROVE  Handoff!OneHandoff
<1> USE DEF Handoff!IndInv, Handoff!TargetsTrue
<1>1. ASSUME writer PROVE Handoff!Cardinality(Handoff!Continued) <= 1
  <2>1. Handoff!Continued = {} \/ Handoff!Continued = {handoffFile}
    BY <1>1
  <2>2. Cardinality({}) = 0 /\ Cardinality({handoffFile}) = 1
    BY FS_EmptySet, FS_Singleton
  <2> QED
    BY <2>1, <2>2, HandoffCardinality
<1>2. ASSUME NEW t \in Handoff!Snapshots PROVE targets[t] <= 1 + handoffCrashes
  <2>1. targets[t] \in Nat /\ handoffCrashes \in Nat
    BY DEF Handoff!TypeOK
  <2>2. targets[t] <= handoffCrashes + (IF t \in generated THEN 1 ELSE 0)
    OBVIOUS
  <2> QED
    BY <2>1, <2>2
<1> QED
  BY <1>1, <1>2 DEF Handoff!OneHandoff

(******************************** the theorem ******************************)

\* jev_recovery_live and jev_agent_recovery_watchdog_v01: over late judgments, overlapping
\* threads and restarts, a session gets one recovery turn, after its handoff and a
\* confirmed abort, begun on two answers about the same state, and one nudge per state,
\* and one more each time the rows that say so were left behind by 2000 others; a work root
\* with a handoff writer has one target, which continues what its file describes, one
\* without hands no snapshot over twice in a life of the process; no target is a risky
\* session's, and a source is cleaned up when its target has acknowledged.
THEOREM LiveRecoveryCorrect == Spec => LiveRecovery
<1>1. Init => Jev!IndInv
  BY JevInit DEF Init
<1>2. Jev!IndInv /\ [Next]_vars => Jev!IndInv'
  BY JevStep
<1>3. Jev!IndInv /\ [Next]_vars => [Jev!StartedOnTwo]_(Jev!jev)
  BY JevStep
<1>4. Jev!IndInv => Jev!OneTurn /\ Jev!HandoffFirst /\ Jev!NudgedOnce
  <2> SUFFICES ASSUME Jev!IndInv PROVE Jev!OneTurn /\ Jev!HandoffFirst /\ Jev!NudgedOnce
    OBVIOUS
  <2>1. \A kind \in {"dispatch", "recovery"} :
            lost[kind] \in Nat /\ Jev!Seen(kind) \in Nat /\ Jev!Seen(kind) <= 1 + lost[kind]
    BY JevSeen DEF Jev!IndInv
  <2>2. turns \in Nat /\ nudges \in [0..MaxStates -> Nat]
    BY DEF Jev!IndInv, Jev!TypeOK
  <2>3. Jev!OneTurn
    BY <2>1, <2>2 DEF Jev!IndInv, Jev!TurnsTrue, Jev!OneTurn
  <2>4. Jev!NudgedOnce
    BY <2>1, <2>2 DEF Jev!IndInv, Jev!NudgesTrue, Jev!NudgedOnce
  <2> QED
    BY <2>3, <2>4 DEF Jev!IndInv
<1>5. Init => Handoff!IndInv
  BY HandoffInit DEF Init
<1>6. Handoff!IndInv /\ [Next]_vars => Handoff!IndInv'
  <2> SUFFICES ASSUME Handoff!IndInv, [Next]_vars PROVE Handoff!IndInv'
    OBVIOUS
  <2>1. CASE Handoff!Next
    BY <2>1, HandoffOutside, HandoffWritten, HandoffContinued DEF Handoff!Next
  <2>2. CASE UNCHANGED handoffs
    BY <2>2
    DEF handoffs, Handoff!IndInv, Handoff!TypeOK, Handoff!StepsTrue, Handoff!Subject,
        Handoff!TargetsTrue, Handoff!Continued
  <2> QED
    BY <2>1, <2>2 DEF Next, vars
<1>7. Handoff!IndInv => (part = "handoff" => Handoff!OneHandoff)
  BY HandoffOnce
<1> QED
  BY <1>1, <1>2, <1>3, <1>4, <1>5, <1>6, <1>7, PTL DEF Spec, LiveRecovery, Jev!LiveRecovery
==================================================================================
