---------------------------- MODULE CoreEngineProofs ----------------------------
(***************************************************************************)
(* Theorems about CoreEngine, for every set of runs, every choice of       *)
(* managed runs, worker endings and cancel paths, and any number of        *)
(* restarts.                                                               *)
(***************************************************************************)
EXTENDS CoreEngine, TLAPS

(************************ what the step helpers change *********************)

\* A thread that moves leaves every other thread where it is.
LEMMA GoFacts ==
    ASSUME TypeOK, NEW r \in Runs, NEW t \in Threads, NEW p \in Places, Go(r, t, p)
    PROVE  /\ pc' \in [Runs -> [Threads -> Places]]
           /\ pc'[r][t] = p
           /\ \A q \in Runs, u \in Threads : q # r \/ u # t => pc'[q][u] = pc[q][u]
BY DEF TypeOK, Go

\* Starting the observer moves the observer, and a dispatcher on its way to it.
LEMMA StartsFacts ==
    ASSUME TypeOK, NEW r \in Runs, ObserverStarts(r)
    PROVE  /\ pc' \in [Runs -> [Threads -> Places]]
           /\ pc'[r]["obs"] = "top"
           /\ \A q \in Runs, u \in Threads : q # r \/ u # "obs" =>
                 \/ pc'[q][u] = pc[q][u]
                 \/ q = r /\ u = "disp" /\ pc[q][u] = "observe" /\ pc'[q][u] = "off"
<1> DEFINE row == [pc[r] EXCEPT !["disp"] = IF @ = "observe" THEN "off" ELSE @,
                                !["obs"] = "top"]
<1>1. pc \in [Runs -> [Threads -> Places]] /\ {"disp", "obs"} \subseteq Threads
  BY DEF TypeOK, Threads
<1>2. /\ row \in [Threads -> Places] /\ row["obs"] = "top"
      /\ \A u \in Threads : u # "obs" =>
            row[u] = pc[r][u] \/ (u = "disp" /\ pc[r][u] = "observe" /\ row[u] = "off")
  BY <1>1 DEF Threads, Places
<1>3. pc' = [pc EXCEPT ![r] = row]
  BY <1>1 DEF ObserverStarts
<1> HIDE DEF row
<1> QED
  BY <1>1, <1>2, <1>3

\* A thread that hears an outcome changes no other thread's.
LEMMA HearFacts ==
    ASSUME TypeOK, NEW r \in Runs, NEW t \in Threads, NEW o \in Outcomes, Hear(r, t, o)
    PROVE  /\ out' \in [Runs -> [Threads -> Outcomes]]
           /\ out'[r][t] = o
           /\ \A q \in Runs, u \in Threads : q # r \/ u # t => out'[q][u] = out[q][u]
BY DEF TypeOK, Hear

LEMMA SayType ==
    ASSUME NEW s \in Terminal \cup {"RUNNING"}, NEW why \in Contract!Reasons
    PROVE  Say(s, why) \in Outcomes
BY DEF Say, Outcomes, Goals

LEMMA SomeOutcomes ==
    /\ NoOutcome \in Outcomes
    /\ TimeUp \in Outcomes
    /\ \A s \in Terminal : Say(s, s) \in Outcomes
    /\ \A w \in Contract!Workers : Answers(w) \subseteq Outcomes
<1>1. NoOutcome \in Outcomes
  BY SayType DEF NoOutcome, Contract!Reasons
<1>2. TimeUp \in Outcomes
  BY SayType DEF TimeUp, Terminal, Contract!Terminal, Contract!Reasons
<1>3. \A s \in Terminal : Say(s, s) \in Outcomes
  BY SayType DEF Terminal, Contract!Reasons
<1>4. ASSUME NEW w \in Contract!Workers PROVE Answers(w) \subseteq Outcomes
  <2>1. \A goal \in Goals : Passed(goal) \in Outcomes
    BY DEF Passed, Outcomes, Terminal, Contract!Terminal, Contract!Reasons
  <2>2. /\ Say("FAIL", "RESULT_REJECTED") \in Outcomes
        /\ Say("BLOCKED", "RESULT_BLOCKED") \in Outcomes
        /\ Say("FAIL", "OPENCLAW_ERROR") \in Outcomes
        /\ Say("CANCELLED", "OPENCLAW_ABORTED") \in Outcomes
    BY SayType DEF Terminal, Contract!Terminal, Contract!Reasons
  <2> QED BY <2>1, <2>2 DEF Answers, Goals, Contract!Workers, Contract!Endings
<1> QED BY <1>1, <1>2, <1>3, <1>4

LEMMA LeaveFacts ==
    ASSUME TypeOK, NEW r \in Runs, NEW t \in Threads, Leave(r, t)
    PROVE  /\ pc' \in [Runs -> [Threads -> Places]]
           /\ pc'[r][t] = Home(t)
           /\ \A q \in Runs, u \in Threads : q # r \/ u # t => pc'[q][u] = pc[q][u]
           /\ out' \in [Runs -> [Threads -> Outcomes]]
           /\ out'[r][t] = NoOutcome
           /\ \A q \in Runs, u \in Threads : q # r \/ u # t => out'[q][u] = out[q][u]
           /\ closing' \subseteq Runs
           /\ lock' \in (Runs \X Threads) \cup {NoThread}
<1>1. /\ pc' \in [Runs -> [Threads -> Places]]
      /\ pc'[r][t] = Home(t)
      /\ \A q \in Runs, u \in Threads : q # r \/ u # t => pc'[q][u] = pc[q][u]
  BY DEF Leave, Go, TypeOK, Home, Places
<1>2. Hear(r, t, NoOutcome) /\ NoOutcome \in Outcomes
  BY SomeOutcomes DEF Leave
<1>3. /\ out' \in [Runs -> [Threads -> Outcomes]]
      /\ out'[r][t] = NoOutcome
      /\ \A q \in Runs, u \in Threads : q # r \/ u # t => out'[q][u] = out[q][u]
  BY <1>2, HearFacts
<1>4. closing' \subseteq Runs /\ lock' \in (Runs \X Threads) \cup {NoThread}
  BY DEF Leave, TypeOK, durable, volatile, Go, Take, Home, Places, Threads, Transition
<1> QED BY <1>1, <1>3, <1>4

(******************************** type invariant ***************************)

\* Every outcome the engine makes up itself is one.
LEMMA SaidTypes ==
    /\ NoOutcome \in Outcomes
    /\ \A why \in {"TRANSPORT_FAILURE", "DISPATCH_REJECTED", "WAIT_REJECTED",
                   "OPENCLAW_CONTRACT", "POLICY_ABORT_FAILED"} : Say("FAIL", why) \in Outcomes
    /\ Say("TIMEOUT", "OPENCLAW_TERMINAL_TIMEOUT") \in Outcomes
    /\ Say("TIMEOUT", "OPENCLAW_TIMEOUT") \in Outcomes
    /\ Say("CANCELLED", "LOCAL_LLM_GOAL_DRIFT") \in Outcomes
    /\ Say("CANCELLED", "OPENCLAW_ABORTED") \in Outcomes
BY SayType, SomeOutcomes DEF Terminal, Contract!Terminal, Contract!Reasons

\* What a thread has in hand is an outcome with a status and a reason of the contract.
LEMMA HeardType ==
    ASSUME TypeOK, NEW r \in Runs, NEW t \in Threads
    PROVE  /\ out[r][t] \in Outcomes
           /\ out[r][t].status \in Terminal \cup {"RUNNING"}
           /\ out[r][t].status \in Contract!Statuses
           /\ out[r][t].reason \in Contract!Reasons
<1>1. out[r][t] \in Outcomes
  BY DEF TypeOK
<1> QED
  BY <1>1 DEF Outcomes, Terminal, Contract!Statuses

\* A binding that already holds a status answers with an outcome.
LEMMA AnswerTypes ==
    ASSUME TypeOK, NEW r \in Runs, NEW t \in Threads
    PROVE  /\ Rejected(r, t) \in Outcomes
           /\ binding[r] \notin {"none", "RUNNING"} => Replay(r) \in Outcomes
<1>1. Rejected(r, t) \in Outcomes
  BY SaidTypes DEF Rejected
<1>2. binding[r] \notin {"none", "RUNNING"} => Say(binding[r], binding[r]) \in Outcomes
  BY SomeOutcomes DEF TypeOK
<1>3. saved[r] \in Outcomes
  BY DEF TypeOK
<1> QED
  BY <1>1, <1>2, <1>3 DEF Replay

LEMMA TransitionType ==
    ASSUME TypeOK, NEW r \in Runs, NEW s \in Contract!Statuses,
           NEW why \in Contract!Reasons, Transition(r, s, why)
    PROVE  status' \in [Runs -> Contract!Statuses] /\ reason' \in [Runs -> Contract!Reasons]
BY DEF TypeOK, Transition

LEMMA CancelType ==
    ASSUME TypeOK, NEW r \in Runs, CancelConfirmed(r) \/ CancelFailed(r)
    PROVE  /\ worker' \in [Runs -> Contract!Workers]
           /\ binding' \in [Runs -> {"none", "RUNNING"} \cup Terminal]
<1>1. worker' \in [Runs -> Contract!Workers]
  <2>1. worker \in [Runs -> Contract!Workers]
    BY DEF TypeOK
  <2> QED
    BY <2>1 DEF CancelConfirmed, CancelFailed, Contract!Workers
<1>2. binding' \in [Runs -> {"none", "RUNNING"} \cup Terminal]
  <2>1. binding \in [Runs -> {"none", "RUNNING"} \cup Terminal]
    BY DEF TypeOK
  <2> QED
    BY <2>1 DEF CancelConfirmed, CancelFailed, Terminal, Contract!Terminal
<1> QED
  BY <1>1, <1>2

LEMMA TypeStep ==
    ASSUME TypeOK, [Next]_vars
    PROVE  TypeOK'
<1>1. ASSUME NEW r \in Runs, DispatchBegin(r) PROVE TypeOK'
  BY <1>1 DEF DispatchBegin, TypeOK, durable, Go, Take, Places, Threads, Contract!Statuses
<1>2. ASSUME NEW r \in Runs, DispatchDenied(r) PROVE TypeOK'
  <2>1. pc' \in [Runs -> [Threads -> Places]]
    BY <1>2, LeaveFacts, GoFacts DEF DispatchDenied, Places, Threads
  <2>2. out' \in [Runs -> [Threads -> Outcomes]]
    BY <1>2, LeaveFacts, HearFacts, SaidTypes DEF DispatchDenied, Threads, TypeOK
  <2>3. closing' \subseteq Runs /\ lock' \in (Runs \X Threads) \cup {NoThread}
    BY <1>2, LeaveFacts DEF DispatchDenied, Threads, TypeOK, Take
  <2>4. status' \in [Runs -> Contract!Statuses] /\ reason' \in [Runs -> Contract!Reasons]
    BY <1>2, TransitionType DEF DispatchDenied, Contract!Statuses, Contract!Reasons, Contract!Terminal
  <2> QED
    BY <1>2, <2>1, <2>2, <2>3, <2>4 DEF DispatchDenied, TypeOK, durable
<1>3. ASSUME NEW r \in Runs, DispatchSubmit(r) PROVE TypeOK'
  <2>1. pc' \in [Runs -> [Threads -> Places]]
    BY <1>3, GoFacts DEF DispatchSubmit, Places, Threads
  <2>2. out' \in [Runs -> [Threads -> Outcomes]]
    BY <1>3, HearFacts, SaidTypes DEF DispatchSubmit, Threads, TypeOK
  <2>3. worker' \in [Runs -> Contract!Workers]
    BY <1>3 DEF DispatchSubmit, TypeOK, Contract!Workers, Contract!Endings
  <2> QED
    BY <1>3, <2>1, <2>2, <2>3 DEF DispatchSubmit, TypeOK, durable
<1>4. ASSUME NEW r \in Runs, DispatchBind(r) PROVE TypeOK'
  BY <1>4 DEF DispatchBind, TypeOK, durable, Go, Places, Threads
<1>5. ASSUME NEW r \in Runs, DispatchStart(r) PROVE TypeOK'
  <2>1. pc' \in [Runs -> [Threads -> Places]]
    BY <1>5, GoFacts DEF DispatchStart, Places, Threads
  <2>2. status' \in [Runs -> Contract!Statuses] /\ reason' \in [Runs -> Contract!Reasons]
    BY <1>5, TransitionType DEF DispatchStart, TypeOK, Contract!Statuses
  <2> QED
    BY <1>5, <2>1, <2>2 DEF DispatchStart, TypeOK, durable, Threads
<1>6. ASSUME NEW r \in Runs, ObserveTop(r) PROVE TypeOK'
  <2>1. pc' \in [Runs -> [Threads -> Places]]
    BY <1>6, GoFacts DEF ObserveTop, Places, Threads
  <2>2. out' \in [Runs -> [Threads -> Outcomes]]
    BY <1>6, HearFacts, SomeOutcomes DEF ObserveTop, Threads, TypeOK
  <2>3. closing' \subseteq Runs /\ lock' \in (Runs \X Threads) \cup {NoThread}
    BY <1>6, LeaveFacts DEF ObserveTop, Threads, TypeOK, Take
  <2> QED
    BY <1>6, <2>1, <2>2, <2>3 DEF ObserveTop, TypeOK, durable
<1>7. ASSUME NEW r \in Runs, ApiWait(r) \/ StartObserver(r) PROVE TypeOK'
  <2>1. pc' \in [Runs -> [Threads -> Places]]
    BY <1>7, StartsFacts DEF ApiWait, StartObserver
  <2> QED
    BY <1>7, <2>1 DEF ApiWait, StartObserver, TypeOK, durable
<1>8. ASSUME NEW r \in Runs, JudgeWait(r) PROVE TypeOK'
  <2>1. pc' \in [Runs -> [Threads -> Places]]
    BY <1>8, LeaveFacts, GoFacts DEF JudgeWait, Places, Threads
  <2>2. out' \in [Runs -> [Threads -> Outcomes]]
    BY <1>8, LeaveFacts, HearFacts, SomeOutcomes DEF JudgeWait, Threads, TypeOK
  <2>3. closing' \subseteq Runs /\ lock' \in (Runs \X Threads) \cup {NoThread}
    BY <1>8, LeaveFacts DEF JudgeWait, Threads, TypeOK, Take
  <2> QED
    BY <1>8, <2>1, <2>2, <2>3 DEF JudgeWait, TypeOK, durable
<1>9. ASSUME NEW r \in Runs, ApplyWait(r) PROVE TypeOK'
  <2>1. pc' \in [Runs -> [Threads -> Places]]
    BY <1>9, LeaveFacts, GoFacts DEF ApplyWait, Places, Threads, Disposal
  <2>2. out' \in [Runs -> [Threads -> Outcomes]]
    BY <1>9, LeaveFacts DEF ApplyWait, Threads, TypeOK
  <2>3. closing' \subseteq Runs /\ lock' \in (Runs \X Threads) \cup {NoThread}
    BY <1>9, LeaveFacts DEF ApplyWait, Threads, TypeOK, Take
  <2> QED
    BY <1>9, <2>1, <2>2, <2>3 DEF ApplyWait, TypeOK, durable
<1>10. ASSUME NEW r \in Runs, TimerDue(r) PROVE TypeOK'
  <2>1. pc' \in [Runs -> [Threads -> Places]]
    BY <1>10, GoFacts DEF TimerDue, Places, Threads
  <2> QED
    BY <1>10, <2>1 DEF TimerDue, TypeOK, durable, Go
<1>11. ASSUME NEW r \in Runs, EnforceDeadline(r) PROVE TypeOK'
  <2>1. pc' \in [Runs -> [Threads -> Places]]
    BY <1>11, LeaveFacts, GoFacts DEF EnforceDeadline, Places, Threads
  <2>2. out' \in [Runs -> [Threads -> Outcomes]]
    BY <1>11, LeaveFacts, HearFacts, SomeOutcomes DEF EnforceDeadline, Threads, TypeOK
  <2>3. closing' \subseteq Runs /\ lock' \in (Runs \X Threads) \cup {NoThread}
    BY <1>11, LeaveFacts DEF EnforceDeadline, Threads, TypeOK, Take
  <2> QED
    BY <1>11, <2>1, <2>2, <2>3 DEF EnforceDeadline, TypeOK, durable
<1>12. ASSUME NEW r \in Runs, ApiCancel(r) PROVE TypeOK'
  <2>1. pc' \in [Runs -> [Threads -> Places]]
    BY <1>12, GoFacts DEF ApiCancel, Places, Threads
  <2> QED
    BY <1>12, <2>1 DEF ApiCancel, TypeOK, durable, Go
<1>13. ASSUME NEW r \in Runs, CancelEnters(r) PROVE TypeOK'
  <2>1. pc' \in [Runs -> [Threads -> Places]]
    BY <1>13, LeaveFacts, GoFacts DEF CancelEnters, Places, Threads
  <2>2. out' \in [Runs -> [Threads -> Outcomes]]
    BY <1>13, LeaveFacts, HearFacts, SaidTypes DEF CancelEnters, Threads, TypeOK
  <2>3. closing' \subseteq Runs /\ lock' \in (Runs \X Threads) \cup {NoThread}
    BY <1>13, LeaveFacts DEF CancelEnters, Threads, TypeOK, Take
  <2>4. status' \in [Runs -> Contract!Statuses] /\ reason' \in [Runs -> Contract!Reasons]
    BY <1>13, TransitionType DEF CancelEnters, TypeOK, Contract!Statuses, Contract!Reasons, Contract!Terminal
  <2>5. worker' \in [Runs -> Contract!Workers]
    BY <1>13, CancelType DEF CancelEnters, TypeOK
  <2>6. binding' \in [Runs -> {"none", "RUNNING"} \cup Terminal]
    BY <1>13, CancelType DEF CancelEnters, TypeOK
  <2> QED
    BY <1>13, <2>1, <2>2, <2>3, <2>4, <2>5, <2>6 DEF CancelEnters, TypeOK, durable
<1>14. ASSUME NEW r \in Runs, StopRequest(r) PROVE TypeOK'
  <2>1. pc' \in [Runs -> [Threads -> Places]]
    BY <1>14, GoFacts DEF StopRequest, Places, Threads, TypeOK
  <2> QED
    BY <1>14, <2>1 DEF StopRequest, TypeOK, durable
<1>15. ASSUME NEW r \in Runs, ControlAbort(r) PROVE TypeOK'
  <2>1. pc' \in [Runs -> [Threads -> Places]]
    BY <1>15, GoFacts DEF ControlAbort, Places, Threads
  <2>2. worker' \in [Runs -> Contract!Workers]
    BY <1>15 DEF ControlAbort, TypeOK, Contract!Workers, Contract!Endings
  <2> QED
    BY <1>15, <2>1, <2>2 DEF ControlAbort, TypeOK, durable
<1>16. ASSUME NEW r \in Runs, ReconcileEnters(r) PROVE TypeOK'
  <2>1. pc' \in [Runs -> [Threads -> Places]]
    BY <1>16, GoFacts DEF ReconcileEnters, Places, Threads
  <2> QED
    BY <1>16, <2>1 DEF ReconcileEnters, TypeOK, durable
<1>17. ASSUME NEW r \in Runs, ReconcileSettles(r) PROVE TypeOK'
  <2>1. pc' \in [Runs -> [Threads -> Places]]
    BY <1>17, GoFacts DEF ReconcileSettles, Places, Threads
  <2>2. out' \in [Runs -> [Threads -> Outcomes]]
    BY <1>17, HearFacts, SomeOutcomes DEF ReconcileSettles, Threads
  <2>3. status' \in [Runs -> Contract!Statuses] /\ reason' \in [Runs -> Contract!Reasons]
    <3>1. /\ "stop" \in Threads
          /\ status \in [Runs -> Contract!Statuses] /\ reason \in [Runs -> Contract!Reasons]
      BY DEF TypeOK, Threads
    <3> QED
      BY <1>17, <3>1, TransitionType, HeardType DEF ReconcileSettles
  <2> QED
    BY <1>17, <2>1, <2>2, <2>3 DEF ReconcileSettles, TypeOK, durable
<1>18. ASSUME NEW r \in Runs, MarkCancelled(r) PROVE TypeOK'
  <2>1. pc' \in [Runs -> [Threads -> Places]]
    BY <1>18, GoFacts DEF MarkCancelled, Places, Threads
  <2>2. status' \in [Runs -> Contract!Statuses] /\ reason' \in [Runs -> Contract!Reasons]
    BY <1>18 DEF MarkCancelled, TypeOK, Contract!Statuses, Contract!Reasons, Contract!Terminal
  <2> QED
    BY <1>18, <2>1, <2>2 DEF MarkCancelled, TypeOK, durable
<1>19. ASSUME NEW r \in Runs, WorkerEnds(r) PROVE TypeOK'
  <2>1. worker' \in [Runs -> Contract!Workers]
    BY <1>19, EndsAssumption DEF WorkerEnds, TypeOK, Contract!Workers
  <2> QED
    BY <1>19, <2>1 DEF WorkerEnds, TypeOK, durable, volatile
<1>20. ASSUME NEW r \in Runs, Tick(r) PROVE TypeOK'
  <2>1. age' \in [Runs -> Ages]
    BY <1>20 DEF Tick, TypeOK, Ages
  <2> QED
    BY <1>20, <2>1 DEF Tick, TypeOK, durable, volatile
<1>21. ASSUME NEW r \in Runs, NEW t \in Threads, Ask(r, t) PROVE TypeOK'
  <2>1. pc' \in [Runs -> [Threads -> Places]]
    BY <1>21, GoFacts DEF Ask, Places
  <2>2. out' \in [Runs -> [Threads -> Outcomes]]
    BY <1>21, HearFacts, SaidTypes, AnswerTypes DEF Ask, TypeOK
  <2> QED
    BY <1>21, <2>1, <2>2 DEF Ask, TypeOK, durable
<1>22. ASSUME NEW r \in Runs, NEW t \in Threads, AskEnded(r, t) PROVE TypeOK'
  <2>1. pc' \in [Runs -> [Threads -> Places]]
    BY <1>22, GoFacts DEF AskEnded, Places
  <2>2. out' \in [Runs -> [Threads -> Outcomes]]
    BY <1>22, HearFacts, SomeOutcomes DEF AskEnded, TypeOK
  <2> QED
    BY <1>22, <2>1, <2>2 DEF AskEnded, TypeOK, durable
<1>23. ASSUME NEW r \in Runs, NEW t \in Threads, Probe(r, t) PROVE TypeOK'
  <2>1. pc' \in [Runs -> [Threads -> Places]]
    BY <1>23, GoFacts DEF Probe, Places
  <2>2. out' \in [Runs -> [Threads -> Outcomes]]
    BY <1>23, HearFacts, SaidTypes, SomeOutcomes DEF Probe, WindowOver
  <2> QED
    BY <1>23, <2>1, <2>2 DEF Probe, TypeOK, durable
<1>24. ASSUME NEW r \in Runs, NEW t \in Threads, Store(r, t) PROVE TypeOK'
  <2>1. pc' \in [Runs -> [Threads -> Places]]
    BY <1>24, GoFacts DEF Store, Places
  <2>2. binding' \in [Runs -> {"none", "RUNNING"} \cup Terminal]
    BY <1>24, HeardType DEF Store, TypeOK, Terminal, Contract!Terminal
  <2>3. saved' \in [Runs -> Outcomes]
    BY <1>24 DEF Store, TypeOK
  <2> QED
    BY <1>24, <2>1, <2>2, <2>3 DEF Store, TypeOK, durable
<1>25. ASSUME NEW r \in Runs, NEW t \in Threads, JudgeFinal(r, t) PROVE TypeOK'
  <2>1. pc' \in [Runs -> [Threads -> Places]]
    BY <1>25, GoFacts DEF JudgeFinal, Places, Disposal
  <2>2. out' \in [Runs -> [Threads -> Outcomes]]
    BY <1>25, HearFacts, SomeOutcomes DEF JudgeFinal, TypeOK
  <2> QED
    BY <1>25, <2>1, <2>2 DEF JudgeFinal, TypeOK, durable
<1>26. ASSUME NEW r \in Runs, NEW t \in Threads, CheckGoal(r, t) PROVE TypeOK'
  <2>1. pc' \in [Runs -> [Threads -> Places]]
    BY <1>26, LeaveFacts, GoFacts DEF CheckGoal, Places
  <2>2. out' \in [Runs -> [Threads -> Outcomes]]
    BY <1>26, LeaveFacts, HearFacts, SaidTypes DEF CheckGoal, TypeOK
  <2>3. closing' \subseteq Runs /\ lock' \in (Runs \X Threads) \cup {NoThread}
    BY <1>26, LeaveFacts DEF CheckGoal, Threads, TypeOK, Take
  <2>4. drift' \in [Runs -> 0..3]
    <3>1. NextCheck(out[r][t].goal, drift[r]) \in 0..3
      BY DEF NextCheck
    <3>2. drift \in [Runs -> 0..3]
      BY DEF TypeOK
    <3> QED
      BY <1>26, <3>1, <3>2 DEF CheckGoal
  <2>5. status' \in [Runs -> Contract!Statuses] /\ reason' \in [Runs -> Contract!Reasons]
    BY <1>26, TransitionType DEF CheckGoal, TypeOK, Contract!Statuses, Contract!Reasons, Contract!Terminal
  <2> QED
    BY <1>26, <2>1, <2>2, <2>3, <2>4, <2>5 DEF CheckGoal, TypeOK, durable
<1>27. ASSUME NEW r \in Runs, NEW t \in Threads, CleanupTimeout(r, t) PROVE TypeOK'
  <2>1. pc' \in [Runs -> [Threads -> Places]]
    BY <1>27, GoFacts DEF CleanupTimeout, Places
  <2>2. worker' \in [Runs -> Contract!Workers]
    BY <1>27, CancelType DEF CleanupTimeout, TypeOK
  <2>3. binding' \in [Runs -> {"none", "RUNNING"} \cup Terminal]
    BY <1>27, CancelType DEF CleanupTimeout, TypeOK
  <2> QED
    BY <1>27, <2>1, <2>2, <2>3 DEF CleanupTimeout, TypeOK, durable
<1>28. ASSUME NEW r \in Runs, NEW t \in Threads, AbortWorker(r, t) PROVE TypeOK'
  <2>1. pc' \in [Runs -> [Threads -> Places]]
    BY <1>28, LeaveFacts, GoFacts DEF AbortWorker, Places
  <2>2. out' \in [Runs -> [Threads -> Outcomes]]
    BY <1>28, LeaveFacts, HearFacts, SaidTypes DEF AbortWorker, TypeOK
  <2>3. closing' \subseteq Runs /\ lock' \in (Runs \X Threads) \cup {NoThread}
    BY <1>28, LeaveFacts DEF AbortWorker, Threads, TypeOK, Take
  <2>4. worker' \in [Runs -> Contract!Workers]
    BY <1>28, CancelType DEF AbortWorker, TypeOK
  <2>5. binding' \in [Runs -> {"none", "RUNNING"} \cup Terminal]
    BY <1>28, CancelType DEF AbortWorker, TypeOK
  <2> QED
    BY <1>28, <2>1, <2>2, <2>3, <2>4, <2>5 DEF AbortWorker, TypeOK, durable
<1>29. ASSUME NEW r \in Runs, NEW t \in Threads, Conclude(r, t) PROVE TypeOK'
  <2>1. pc' \in [Runs -> [Threads -> Places]]
    BY <1>29, LeaveFacts DEF Conclude, Places
  <2>2. out' \in [Runs -> [Threads -> Outcomes]]
    BY <1>29, LeaveFacts DEF Conclude
  <2>3. closing' \subseteq Runs /\ lock' \in (Runs \X Threads) \cup {NoThread}
    BY <1>29, LeaveFacts DEF Conclude
  <2>4. status' \in [Runs -> Contract!Statuses] /\ reason' \in [Runs -> Contract!Reasons]
    BY <1>29, TransitionType, HeardType DEF Conclude, TypeOK
  <2> QED
    BY <1>29, <2>1, <2>2, <2>3, <2>4 DEF Conclude, TypeOK, durable
<1>30. ASSUME Restart PROVE TypeOK'
  BY <1>30, SomeOutcomes, CrashAssumption DEF Restart, TypeOK, durable, Places
<1>31. ASSUME UNCHANGED vars PROVE TypeOK'
  BY <1>31 DEF TypeOK, vars, durable, volatile
<1> QED
    BY <1>1, <1>2, <1>3, <1>4, <1>5, <1>6, <1>7, <1>8, <1>9, <1>10, <1>11, <1>12,
     <1>13, <1>14, <1>15, <1>16, <1>17, <1>18, <1>19, <1>20, <1>21, <1>22, <1>23,
     <1>24, <1>25, <1>26, <1>27, <1>28, <1>29, <1>30, <1>31
     DEF Next, Dispatching, Observing, Deadline, Asking, Settling, Cancelling, Stopping

(****************************** the invariant ******************************)

\* A step of thread t of run r leaves the stores of every other run alone ...
RunsKept(r) ==
    \A q \in Runs : q # r =>
        /\ status'[q] = status[q] /\ reason'[q] = reason[q] /\ worker'[q] = worker[q]
        /\ binding'[q] = binding[q] /\ saved'[q] = saved[q]
\* ... and every other thread, except that whoever starts the observer of a run spares
\* its dispatch doing so.
OthersKept(r, t) ==
    \A q \in Runs, u \in Threads : q # r \/ u # t =>
        /\ out'[q][u] = out[q][u]
        /\ \/ pc'[q][u] = pc[q][u]
           \/ /\ q = r /\ u = "disp" /\ pc[q][u] = "observe"
              /\ pc'[q][u] = "off" /\ pc'[q]["obs"] = "top"

\* A worker is submitted once and ends once.
Forward(r) == \/ worker'[r] = worker[r]
              \/ worker[r] = "none" /\ worker'[r] = "active"
              \/ worker[r] = "active" /\ worker'[r] \notin {"none", "active"}

\* What is once true of a worker stays true.
LEMMA OverStable ==
    ASSUME NEW r \in Runs, Forward(r), NEW s, Over(s, worker[r])
    PROVE  Over(s, worker'[r])
BY DEF Forward, Over, Contract!Delivers

\* The step helpers, at the run and the thread that move.
LEMMA Moves ==
    ASSUME TypeOK, NEW r \in Runs, NEW t \in Threads
    PROVE  /\ \A p : Go(r, t, p) =>
                /\ pc'[r][t] = p
                /\ \A q \in Runs, u \in Threads : q # r \/ u # t => pc'[q][u] = pc[q][u]
           /\ \A o : Hear(r, t, o) =>
                /\ out'[r][t] = o
                /\ \A q \in Runs, u \in Threads : q # r \/ u # t => out'[q][u] = out[q][u]
           /\ Leave(r, t) =>
                /\ pc'[r][t] = Home(t) /\ out'[r][t] = NoOutcome
                /\ \A q \in Runs, u \in Threads : q # r \/ u # t =>
                      pc'[q][u] = pc[q][u] /\ out'[q][u] = out[q][u]
<1>1. ASSUME NEW p, Go(r, t, p)
      PROVE  /\ pc'[r][t] = p
             /\ \A q \in Runs, u \in Threads : q # r \/ u # t => pc'[q][u] = pc[q][u]
  BY <1>1 DEF Go, TypeOK
<1>2. ASSUME NEW o, Hear(r, t, o)
      PROVE  /\ out'[r][t] = o
             /\ \A q \in Runs, u \in Threads : q # r \/ u # t => out'[q][u] = out[q][u]
  BY <1>2 DEF Hear, TypeOK
<1> QED
  BY <1>1, <1>2, LeaveFacts

LEMMA Updates ==
    ASSUME TypeOK, NEW r \in Runs, NEW v
    PROVE  /\ status' = [status EXCEPT ![r] = v] =>
                status'[r] = v /\ \A q \in Runs : q # r => status'[q] = status[q]
           /\ reason' = [reason EXCEPT ![r] = v] =>
                reason'[r] = v /\ \A q \in Runs : q # r => reason'[q] = reason[q]
           /\ worker' = [worker EXCEPT ![r] = v] =>
                worker'[r] = v /\ \A q \in Runs : q # r => worker'[q] = worker[q]
           /\ binding' = [binding EXCEPT ![r] = v] =>
                binding'[r] = v /\ \A q \in Runs : q # r => binding'[q] = binding[q]
           /\ saved' = [saved EXCEPT ![r] = v] =>
                saved'[r] = v /\ \A q \in Runs : q # r => saved'[q] = saved[q]
<1>1. status' = [status EXCEPT ![r] = v] =>
         status'[r] = v /\ \A q \in Runs : q # r => status'[q] = status[q]
  BY DEF TypeOK
<1>2. reason' = [reason EXCEPT ![r] = v] =>
         reason'[r] = v /\ \A q \in Runs : q # r => reason'[q] = reason[q]
  BY DEF TypeOK
<1>3. worker' = [worker EXCEPT ![r] = v] =>
         worker'[r] = v /\ \A q \in Runs : q # r => worker'[q] = worker[q]
  BY DEF TypeOK
<1>4. binding' = [binding EXCEPT ![r] = v] =>
         binding'[r] = v /\ \A q \in Runs : q # r => binding'[q] = binding[q]
  BY DEF TypeOK
<1>5. saved' = [saved EXCEPT ![r] = v] =>
         saved'[r] = v /\ \A q \in Runs : q # r => saved'[q] = saved[q]
  BY DEF TypeOK
<1> QED
  BY <1>1, <1>2, <1>3, <1>4, <1>5

LEMMA TransitionFacts ==
    ASSUME TypeOK, NEW r \in Runs, NEW s, NEW why, Transition(r, s, why)
    PROVE  /\ \A q \in Runs : q # r => status'[q] = status[q] /\ reason'[q] = reason[q]
           /\ \/ Legal(status[r], s) /\ status'[r] = s /\ reason'[r] = why
              \/ status'[r] = status[r] /\ reason'[r] = reason[r]
BY Updates DEF Transition

\* A confirmed abort finds or leaves the worker over; a failed one may have ended it.
LEMMA CancelFacts ==
    ASSUME TypeOK, NEW r \in Runs, CancelConfirmed(r) \/ CancelFailed(r)
    PROVE  /\ \A q \in Runs : q # r => worker'[q] = worker[q] /\ binding'[q] = binding[q]
           /\ worker'[r] = worker[r] \/ (worker[r] = "active" /\ worker'[r] = "aborted")
           /\ CancelConfirmed(r) =>
                binding[r] # "none" /\ binding'[r] = "CANCELLED" /\ worker'[r] # "active"
           /\ CancelFailed(r) => binding' = binding
<1>1. CancelFailed(r) => binding' = binding
  BY DEF CancelFailed
<1>2. CASE CancelConfirmed(r)
  <2>1. /\ \A q \in Runs : q # r => worker'[q] = worker[q]
        /\ worker'[r] = IF worker[r] = "active" THEN "aborted" ELSE worker[r]
    BY <1>2 DEF TypeOK, CancelConfirmed
  <2>2. /\ \A q \in Runs : q # r => binding'[q] = binding[q]
        /\ binding[r] # "none" /\ binding'[r] = "CANCELLED"
    BY <1>2, Updates DEF CancelConfirmed
  <2>3. /\ worker'[r] = worker[r] \/ (worker[r] = "active" /\ worker'[r] = "aborted")
        /\ worker'[r] # "active"
    BY <2>1
  <2> QED
    BY <1>1, <2>1, <2>2, <2>3
<1>3. CASE CancelFailed(r)
  <2>1. /\ \A q \in Runs : q # r => worker'[q] = worker[q] /\ binding'[q] = binding[q]
        /\ worker'[r] = worker[r] \/ (worker[r] = "active" /\ worker'[r] = "aborted")
    BY <1>3, Updates DEF CancelFailed
  <2>2. CancelConfirmed(r) =>
           binding[r] # "none" /\ binding'[r] = "CANCELLED" /\ worker'[r] # "active"
    BY DEF TypeOK, CancelConfirmed
  <2> QED
    BY <1>1, <2>1, <2>2
<1> QED
  BY <1>2, <1>3

\* What the engine makes up itself passes nothing and blames no goal.
LEMMA SaidFields ==
    /\ \A s, why : Say(s, why).status = s /\ Say(s, why).goal = "ok"
    /\ NoOutcome.status = "RUNNING" /\ NoOutcome.goal = "ok"
    /\ TimeUp.status = "CANCELLED" /\ TimeUp.goal = "ok"
BY DEF Say, NoOutcome, TimeUp

\* OpenClaw answers for a worker that is over, and answers the truth.
LEMMA AnswersTrue ==
    ASSUME NEW w \in Contract!Workers, NEW o \in Answers(w)
    PROVE  /\ w \notin {"none", "active"}
           /\ Over(o.status, w)
           /\ o.goal # "ok" => o.status = "PASS"
<1>1. /\ \A goal : Passed(goal).status = "PASS" /\ Passed(goal).goal = goal
      /\ w \in Contract!Endings \cup {"none", "active", "aborted"}
  BY DEF Passed, Contract!Workers
<1>2. CASE w \in {"pass", "progress", "drift", "malformed"}
  BY <1>1, <1>2 DEF Answers, Over, Contract!Delivers
<1>3. CASE w \in {"reject", "blocked", "error", "aborted"}
  BY <1>3, SaidFields DEF Answers, Over
<1>4. CASE w \in {"none", "active"}
  BY <1>4 DEF Answers
<1> QED
  BY <1>1, <1>2, <1>3, <1>4 DEF Contract!Endings

\* What a step has to show of the run and the thread that move is enough.
LEMMA Frame ==
    ASSUME IndInv, NEW r \in Runs, NEW t \in Threads, TypeOK',
           RunsKept(r), OthersKept(r, t), Forward(r), RunTrue(r)', HandTrue(r, t)'
    PROVE  IndInv'
<1>1. ASSUME NEW q \in Runs, q # r PROVE RunTrue(q)'
  BY <1>1 DEF IndInv, RunsKept, OthersKept, RunTrue, StoresTrue, PlacesTrue, RecordTrue,
              Excused, Observed, Threads, Over
<1>2. ASSUME NEW q \in Runs, NEW u \in Threads, q # r \/ u # t PROVE HandTrue(q, u)'
  <2>1. HandTrue(q, u) /\ Forward(q)
    BY <1>2 DEF IndInv, RunsKept, Forward
  <2>2. \A s : Over(s, worker[q]) => Over(s, worker'[q])
    BY <2>1, OverStable
  <2> QED
    BY <1>2, <2>1, <2>2 DEF OthersKept, HandTrue, Forward, Carrying, Deciding
<1> QED
  BY <1>1, <1>2 DEF IndInv

\* One step per action: which run and thread move, what the step does to them, and
\* from that the invariant of the run and of the thread; Frame does the others.
LEMMA IndStep ==
    ASSUME IndInv, [Next]_vars
    PROVE  IndInv'
<1>1. TypeOK /\ TypeOK'
  BY TypeStep DEF IndInv
<1>2. /\ \A r \in Runs : RunTrue(r)
      /\ \A r \in Runs, t \in Threads : HandTrue(r, t)
  BY DEF IndInv
<1>3. ASSUME NEW r \in Runs, DispatchBegin(r) PROVE IndInv'
  <2>1. RunsKept(r) /\ OthersKept(r, "disp")
    BY <1>3, <1>1, Moves, Updates
    DEF DispatchBegin, RunsKept, OthersKept, Threads, durable, volatile
  <2>2. /\ pc'[r]["disp"] = "auth"
        /\ out'[r]["disp"] = out[r]["disp"]
        /\ status[r] \in {"none", "QUEUED"} /\ status'[r] = "QUEUED"
        /\ reason'[r] = reason[r]
        /\ worker'[r] = worker[r]
        /\ binding'[r] = binding[r]
        /\ saved'[r] = saved[r]
    <3>1. /\ pc'[r]["disp"] = "auth"
          /\ out'[r]["disp"] = out[r]["disp"]
          /\ reason'[r] = reason[r]
          /\ worker'[r] = worker[r]
          /\ binding'[r] = binding[r]
          /\ saved'[r] = saved[r]
      BY <1>3, <1>1, Moves, Updates
      DEF DispatchBegin, Threads, durable, volatile
    <3>2. status[r] \in {"none", "QUEUED"} /\ status'[r] = "QUEUED"
      BY <1>3, <1>1
      DEF DispatchBegin, Threads, durable, volatile, TypeOK
    <3> QED
      BY <3>1, <3>2
  <2>3. Forward(r)
    BY <2>2
    DEF Forward
  <2>4. RunTrue(r) /\ HandTrue(r, "disp") /\ out[r]["disp"].status \in Terminal \cup {"RUNNING"}
    BY <1>1, <1>2, HeardType DEF Threads
  <2>5. RunTrue(r)'
    BY <2>1, <2>2, <2>3, <2>4
    DEF RunTrue, StoresTrue, PlacesTrue, RecordTrue, Excused, Observed, HandTrue,
        OthersKept, Forward, Over, Carrying, Deciding, Threads, Home, Settled,
        Terminal, Contract!Terminal, Contract!Delivers
  <2>6. HandTrue(r, "disp")'
    BY <2>2, <2>3, <2>4, SaidFields
    DEF RunTrue, StoresTrue, HandTrue, Forward, Over, Carrying, Deciding, Home,
        Terminal, Contract!Terminal, Contract!Delivers
  <2> QED
    BY <1>1, <2>1, <2>3, <2>5, <2>6, Frame
    DEF Threads
<1>4. ASSUME NEW r \in Runs, DispatchDenied(r) PROVE IndInv'
  <2>1. RunsKept(r) /\ OthersKept(r, "disp")
    BY <1>4, <1>1, Moves, Updates, TransitionFacts
    DEF DispatchDenied, RunsKept, OthersKept, Threads, durable, volatile
  <2>2. /\ pc[r]["disp"] = "auth"
        /\ pc'[r]["disp"] = Home("disp") /\ out'[r]["disp"] = NoOutcome
        /\ \/ status'[r] = "BLOCKED" /\ reason'[r] = "AUTH"
           \/ status'[r] = status[r] /\ reason'[r] = reason[r]
        /\ worker'[r] = worker[r]
        /\ binding'[r] = binding[r]
        /\ saved'[r] = saved[r]
    BY <1>4, <1>1, Moves, Updates, TransitionFacts
    DEF DispatchDenied, Threads, durable, volatile
  <2>3. Forward(r)
    BY <2>2
    DEF Forward
  <2>4. RunTrue(r) /\ HandTrue(r, "disp") /\ out[r]["disp"].status \in Terminal \cup {"RUNNING"}
    BY <1>1, <1>2, HeardType DEF Threads
  <2>5. RunTrue(r)'
    BY <2>1, <2>2, <2>3, <2>4
    DEF RunTrue, StoresTrue, PlacesTrue, RecordTrue, Excused, Observed, HandTrue,
        OthersKept, Forward, Over, Carrying, Deciding, Threads, Home, Settled,
        Terminal, Contract!Terminal, Contract!Delivers
  <2>6. HandTrue(r, "disp")'
    BY <2>2, <2>3, <2>4, SaidFields
    DEF RunTrue, StoresTrue, HandTrue, Forward, Over, Carrying, Deciding, Home,
        Terminal, Contract!Terminal, Contract!Delivers
  <2> QED
    BY <1>1, <2>1, <2>3, <2>5, <2>6, Frame
    DEF Threads
<1>5. ASSUME NEW r \in Runs, DispatchSubmit(r) PROVE IndInv'
  <2>1. RunsKept(r) /\ OthersKept(r, "disp")
    <3>1. RunsKept(r)
      BY <1>5, <1>1, Updates DEF DispatchSubmit, RunsKept, durable
    <3>2. OthersKept(r, "disp")
      BY <1>5, <1>1, Moves DEF DispatchSubmit, OthersKept, Threads
    <3> QED
      BY <3>1, <3>2
  <2>2. /\ pc[r]["disp"] = "auth"
        /\ \/ pc'[r]["disp"] = "start" /\ binding[r] # "none"
             /\ worker'[r] = worker[r] /\ out'[r]["disp"] = out[r]["disp"]
           \/ pc'[r]["disp"] = "bind" /\ worker'[r] # "none" /\ out'[r]["disp"] = out[r]["disp"]
           \/ pc'[r]["disp"] = "conclude" /\ out'[r]["disp"].status = "FAIL" /\ out'[r]["disp"].goal = "ok"
        /\ worker'[r] = worker[r] \/ (worker[r] = "none" /\ worker'[r] = "active")
        /\ status'[r] = status[r] /\ reason'[r] = reason[r]
        /\ binding'[r] = binding[r]
        /\ saved'[r] = saved[r]
    <3>1. /\ pc[r]["disp"] = "auth"
          /\ \/ pc'[r]["disp"] = "start" /\ binding[r] # "none"
               /\ worker'[r] = worker[r] /\ out'[r]["disp"] = out[r]["disp"]
             \/ pc'[r]["disp"] = "bind" /\ worker'[r] # "none" /\ out'[r]["disp"] = out[r]["disp"]
             \/ pc'[r]["disp"] = "conclude" /\ out'[r]["disp"].status = "FAIL" /\ out'[r]["disp"].goal = "ok"
          /\ status'[r] = status[r] /\ reason'[r] = reason[r]
          /\ binding'[r] = binding[r]
          /\ saved'[r] = saved[r]
      BY <1>5, <1>1, Moves, Updates
      DEF DispatchSubmit, Threads, durable, volatile, Say
    <3>2. worker'[r] = worker[r] \/ (worker[r] = "none" /\ worker'[r] = "active")
      <4>1. \/ worker' = worker
            \/ worker[r] = "none" /\ worker' = [worker EXCEPT ![r] = "active"]
            \/ worker' = [worker EXCEPT ![r] = worker[r]]
        BY <1>5 DEF DispatchSubmit
      <4> QED
        BY <1>1, <4>1, Updates
    <3> QED
      BY <3>1, <3>2
  <2>3. Forward(r)
    BY <2>2
    DEF Forward
  <2>4. RunTrue(r) /\ HandTrue(r, "disp") /\ out[r]["disp"].status \in Terminal \cup {"RUNNING"}
    BY <1>1, <1>2, HeardType DEF Threads
  <2>5. RunTrue(r)'
    BY <2>1, <2>2, <2>3, <2>4
    DEF RunTrue, StoresTrue, PlacesTrue, RecordTrue, Excused, Observed, HandTrue,
        OthersKept, Forward, Over, Carrying, Deciding, Threads, Home, Settled,
        Terminal, Contract!Terminal, Contract!Delivers
  <2>6. HandTrue(r, "disp")'
    BY <2>2, <2>3, <2>4, SaidFields
    DEF RunTrue, StoresTrue, HandTrue, Forward, Over, Carrying, Deciding, Home,
        Terminal, Contract!Terminal, Contract!Delivers
  <2> QED
    BY <1>1, <2>1, <2>3, <2>5, <2>6, Frame
    DEF Threads
<1>6. ASSUME NEW r \in Runs, DispatchBind(r) PROVE IndInv'
  <2>1. RunsKept(r) /\ OthersKept(r, "disp")
    BY <1>6, <1>1, Moves, Updates
    DEF DispatchBind, RunsKept, OthersKept, Threads, durable, volatile
  <2>2. /\ pc[r]["disp"] = "bind"
        /\ pc'[r]["disp"] = "start"
        /\ out'[r]["disp"] = out[r]["disp"]
        /\ binding'[r] = "RUNNING"
        /\ status'[r] = status[r] /\ reason'[r] = reason[r]
        /\ worker'[r] = worker[r]
        /\ saved'[r] = saved[r]
    <3>1. /\ pc[r]["disp"] = "bind"
          /\ pc'[r]["disp"] = "start"
          /\ out'[r]["disp"] = out[r]["disp"]
          /\ status'[r] = status[r] /\ reason'[r] = reason[r]
          /\ worker'[r] = worker[r]
          /\ saved'[r] = saved[r]
      BY <1>6, <1>1, Moves, Updates
      DEF DispatchBind, Threads, durable, volatile
    <3>2. binding'[r] = "RUNNING"
      BY <1>6, <1>1
      DEF DispatchBind, Threads, durable, volatile, TypeOK
    <3> QED
      BY <3>1, <3>2
  <2>3. Forward(r)
    BY <2>2
    DEF Forward
  <2>4. RunTrue(r) /\ HandTrue(r, "disp") /\ out[r]["disp"].status \in Terminal \cup {"RUNNING"}
    BY <1>1, <1>2, HeardType DEF Threads
  <2>5. RunTrue(r)'
    BY <2>1, <2>2, <2>3, <2>4
    DEF RunTrue, StoresTrue, PlacesTrue, RecordTrue, Excused, Observed, HandTrue,
        OthersKept, Forward, Over, Carrying, Deciding, Threads, Home, Settled,
        Terminal, Contract!Terminal, Contract!Delivers
  <2>6. HandTrue(r, "disp")'
    BY <2>2, <2>3, <2>4, SaidFields
    DEF RunTrue, StoresTrue, HandTrue, Forward, Over, Carrying, Deciding, Home,
        Terminal, Contract!Terminal, Contract!Delivers
  <2> QED
    BY <1>1, <2>1, <2>3, <2>5, <2>6, Frame
    DEF Threads
<1>7. ASSUME NEW r \in Runs, DispatchStart(r) PROVE IndInv'
  <2>1. RunsKept(r) /\ OthersKept(r, "disp")
    <3>1. RunsKept(r)
      BY <1>7, <1>1, TransitionFacts DEF DispatchStart, RunsKept
    <3>2. OthersKept(r, "disp")
      BY <1>7, <1>1, Moves DEF DispatchStart, OthersKept, Threads
    <3> QED
      BY <3>1, <3>2
  <2>2. /\ pc[r]["disp"] = "start"
        /\ pc'[r]["disp"] \in {"off", "observe"}
        /\ out'[r]["disp"] = out[r]["disp"]
        /\ pc'[r]["obs"] # "off" \/ pc'[r]["disp"] = "observe"
        /\ status'[r] \in {status[r], "RUNNING"} /\ reason'[r] = reason[r]
        /\ worker'[r] = worker[r]
        /\ binding'[r] = binding[r]
        /\ saved'[r] = saved[r]
    <3>1. /\ pc[r]["disp"] = "start"
          /\ out'[r]["disp"] = out[r]["disp"]
          /\ status'[r] \in {status[r], "RUNNING"} /\ reason'[r] = reason[r]
          /\ worker'[r] = worker[r]
          /\ binding'[r] = binding[r]
          /\ saved'[r] = saved[r]
      BY <1>7, <1>1, Moves, Updates, TransitionFacts
      DEF DispatchStart, Threads, durable, volatile
    <3>2. /\ pc'[r]["disp"] \in {"off", "observe"}
          /\ pc'[r]["obs"] # "off" \/ pc'[r]["disp"] = "observe"
      BY <1>7, <1>1, Moves DEF DispatchStart, Threads
    <3> QED
      BY <3>1, <3>2
  <2>3. Forward(r)
    BY <2>2
    DEF Forward
  <2>4. RunTrue(r) /\ HandTrue(r, "disp") /\ out[r]["disp"].status \in Terminal \cup {"RUNNING"}
    BY <1>1, <1>2, HeardType DEF Threads
  <2>5. RunTrue(r)'
    BY <2>1, <2>2, <2>3, <2>4
    DEF RunTrue, StoresTrue, PlacesTrue, RecordTrue, Excused, Observed, HandTrue,
        OthersKept, Forward, Over, Carrying, Deciding, Threads, Home, Settled,
        Terminal, Contract!Terminal, Contract!Delivers
  <2>6. HandTrue(r, "disp")'
    BY <2>2, <2>3, <2>4, SaidFields
    DEF RunTrue, StoresTrue, HandTrue, Forward, Over, Carrying, Deciding, Home,
        Terminal, Contract!Terminal, Contract!Delivers
  <2> QED
    BY <1>1, <2>1, <2>3, <2>5, <2>6, Frame
    DEF Threads
<1>8. ASSUME NEW r \in Runs, ObserveTop(r) PROVE IndInv'
  <2>1. RunsKept(r) /\ OthersKept(r, "obs")
    BY <1>8, <1>1, Moves, Updates
    DEF ObserveTop, RunsKept, OthersKept, Threads, durable, volatile
  <2>2. /\ \/ pc'[r]["obs"] = "off" /\ Settled(r) /\ out'[r]["obs"] = out[r]["obs"]
           \/ pc'[r]["obs"] = "ask" /\ out'[r]["obs"] = out[r]["obs"]
           \/ pc'[r]["obs"] = "abort" /\ out'[r]["obs"] = TimeUp
        /\ status'[r] = status[r] /\ reason'[r] = reason[r]
        /\ worker'[r] = worker[r]
        /\ binding'[r] = binding[r]
        /\ saved'[r] = saved[r]
    BY <1>8, <1>1, Moves, Updates
    DEF ObserveTop, Threads, durable, volatile
  <2>3. Forward(r)
    BY <2>2
    DEF Forward
  <2>4. RunTrue(r) /\ HandTrue(r, "obs") /\ out[r]["obs"].status \in Terminal \cup {"RUNNING"}
    BY <1>1, <1>2, HeardType DEF Threads
  <2>5. RunTrue(r)'
    BY <2>1, <2>2, <2>3, <2>4
    DEF RunTrue, StoresTrue, PlacesTrue, RecordTrue, Excused, Observed, HandTrue,
        OthersKept, Forward, Over, Carrying, Deciding, Threads, Home, Settled,
        Terminal, Contract!Terminal, Contract!Delivers
  <2>6. HandTrue(r, "obs")'
    BY <2>2, <2>3, <2>4, SaidFields
    DEF RunTrue, StoresTrue, HandTrue, Forward, Over, Carrying, Deciding, Home,
        Terminal, Contract!Terminal, Contract!Delivers
  <2> QED
    BY <1>1, <2>1, <2>3, <2>5, <2>6, Frame
    DEF Threads
<1>9. ASSUME NEW r \in Runs, ApiWait(r) \/ StartObserver(r) PROVE IndInv'
  <2>1. RunsKept(r) /\ OthersKept(r, "obs")
    BY <1>9, <1>1, StartsFacts
    DEF ApiWait, StartObserver, RunsKept, OthersKept, Threads, durable
  <2>2. /\ pc'[r]["obs"] = "top"
        /\ out'[r]["obs"] = out[r]["obs"]
        /\ status'[r] = status[r] /\ reason'[r] = reason[r]
        /\ worker'[r] = worker[r]
        /\ binding'[r] = binding[r]
        /\ saved'[r] = saved[r]
    BY <1>9, <1>1, StartsFacts
    DEF ApiWait, StartObserver, Threads, durable
  <2>3. Forward(r)
    BY <2>2
    DEF Forward
  <2>4. RunTrue(r) /\ HandTrue(r, "obs") /\ out[r]["obs"].status \in Terminal \cup {"RUNNING"}
    BY <1>1, <1>2, HeardType DEF Threads
  <2>5. RunTrue(r)'
    BY <2>1, <2>2, <2>3, <2>4
    DEF RunTrue, StoresTrue, PlacesTrue, RecordTrue, Excused, Observed, HandTrue,
        OthersKept, Forward, Over, Carrying, Deciding, Threads, Home, Settled,
        Terminal, Contract!Terminal, Contract!Delivers
  <2>6. HandTrue(r, "obs")'
    BY <2>2, <2>3, <2>4, SaidFields
    DEF RunTrue, StoresTrue, HandTrue, Forward, Over, Carrying, Deciding, Home,
        Terminal, Contract!Terminal, Contract!Delivers
  <2> QED
    BY <1>1, <2>1, <2>3, <2>5, <2>6, Frame
    DEF Threads
<1>10. ASSUME NEW r \in Runs, JudgeWait(r) PROVE IndInv'
  <2>1. RunsKept(r) /\ OthersKept(r, "obs")
    BY <1>10, <1>1, Moves, Updates
    DEF JudgeWait, RunsKept, OthersKept, Threads, durable, volatile
  <2>2. /\ pc[r]["obs"] = "heard"
        /\ \/ pc'[r]["obs"] = Home("obs") /\ out'[r]["obs"] = NoOutcome
           \/ pc'[r]["obs"] = "ask" /\ out'[r]["obs"] = out[r]["obs"]
           \/ pc'[r]["obs"] = "abort" /\ out'[r]["obs"] = TimeUp
           \/ pc'[r]["obs"] = "apply" /\ out'[r]["obs"] = out[r]["obs"] /\ out[r]["obs"].status # "RUNNING"
        /\ status'[r] = status[r] /\ reason'[r] = reason[r]
        /\ worker'[r] = worker[r]
        /\ binding'[r] = binding[r]
        /\ saved'[r] = saved[r]
    BY <1>10, <1>1, Moves, Updates
    DEF JudgeWait, Threads, durable, volatile
  <2>3. Forward(r)
    BY <2>2
    DEF Forward
  <2>4. RunTrue(r) /\ HandTrue(r, "obs") /\ out[r]["obs"].status \in Terminal \cup {"RUNNING"}
    BY <1>1, <1>2, HeardType DEF Threads
  <2>5. RunTrue(r)'
    BY <2>1, <2>2, <2>3, <2>4
    DEF RunTrue, StoresTrue, PlacesTrue, RecordTrue, Excused, Observed, HandTrue,
        OthersKept, Forward, Over, Carrying, Deciding, Threads, Home, Settled,
        Terminal, Contract!Terminal, Contract!Delivers
  <2>6. HandTrue(r, "obs")'
    BY <2>2, <2>3, <2>4, SaidFields
    DEF RunTrue, StoresTrue, HandTrue, Forward, Over, Carrying, Deciding, Home,
        Terminal, Contract!Terminal, Contract!Delivers
  <2> QED
    BY <1>1, <2>1, <2>3, <2>5, <2>6, Frame
    DEF Threads
<1>11. ASSUME NEW r \in Runs, ApplyWait(r) PROVE IndInv'
  <2>1. RunsKept(r) /\ OthersKept(r, "obs")
    BY <1>11, <1>1, Moves, Updates
    DEF ApplyWait, RunsKept, OthersKept, Threads, durable, volatile
  <2>2. /\ pc[r]["obs"] = "apply"
        /\ \/ pc'[r]["obs"] = Home("obs") /\ out'[r]["obs"] = NoOutcome
           \/ pc'[r]["obs"] \in {"cleanup", "goal", "conclude"} /\ out'[r]["obs"] = out[r]["obs"]
        /\ status'[r] = status[r] /\ reason'[r] = reason[r]
        /\ worker'[r] = worker[r]
        /\ binding'[r] = binding[r]
        /\ saved'[r] = saved[r]
    BY <1>11, <1>1, Moves, Updates
    DEF ApplyWait, Threads, durable, volatile, Disposal
  <2>3. Forward(r)
    BY <2>2
    DEF Forward
  <2>4. RunTrue(r) /\ HandTrue(r, "obs") /\ out[r]["obs"].status \in Terminal \cup {"RUNNING"}
    BY <1>1, <1>2, HeardType DEF Threads
  <2>5. RunTrue(r)'
    BY <2>1, <2>2, <2>3, <2>4
    DEF RunTrue, StoresTrue, PlacesTrue, RecordTrue, Excused, Observed, HandTrue,
        OthersKept, Forward, Over, Carrying, Deciding, Threads, Home, Settled,
        Terminal, Contract!Terminal, Contract!Delivers
  <2>6. HandTrue(r, "obs")'
    BY <2>2, <2>3, <2>4, SaidFields
    DEF RunTrue, StoresTrue, HandTrue, Forward, Over, Carrying, Deciding, Home,
        Terminal, Contract!Terminal, Contract!Delivers
  <2> QED
    BY <1>1, <2>1, <2>3, <2>5, <2>6, Frame
    DEF Threads
<1>12. ASSUME NEW r \in Runs, TimerDue(r) PROVE IndInv'
  <2>1. RunsKept(r) /\ OthersKept(r, "timer")
    BY <1>12, <1>1, Moves, Updates
    DEF TimerDue, RunsKept, OthersKept, Threads, durable, volatile
  <2>2. /\ pc'[r]["timer"] = "due"
        /\ out'[r]["timer"] = out[r]["timer"]
        /\ status'[r] = status[r] /\ reason'[r] = reason[r]
        /\ worker'[r] = worker[r]
        /\ binding'[r] = binding[r]
        /\ saved'[r] = saved[r]
    BY <1>12, <1>1, Moves, Updates
    DEF TimerDue, Threads, durable, volatile
  <2>3. Forward(r)
    BY <2>2
    DEF Forward
  <2>4. RunTrue(r) /\ HandTrue(r, "timer") /\ out[r]["timer"].status \in Terminal \cup {"RUNNING"}
    BY <1>1, <1>2, HeardType DEF Threads
  <2>5. RunTrue(r)'
    BY <2>1, <2>2, <2>3, <2>4
    DEF RunTrue, StoresTrue, PlacesTrue, RecordTrue, Excused, Observed, HandTrue,
        OthersKept, Forward, Over, Carrying, Deciding, Threads, Home, Settled,
        Terminal, Contract!Terminal, Contract!Delivers
  <2>6. HandTrue(r, "timer")'
    BY <2>2, <2>3, <2>4, SaidFields
    DEF RunTrue, StoresTrue, HandTrue, Forward, Over, Carrying, Deciding, Home,
        Terminal, Contract!Terminal, Contract!Delivers
  <2> QED
    BY <1>1, <2>1, <2>3, <2>5, <2>6, Frame
    DEF Threads
<1>13. ASSUME NEW r \in Runs, EnforceDeadline(r) PROVE IndInv'
  <2>1. RunsKept(r) /\ OthersKept(r, "timer")
    BY <1>13, <1>1, Moves, Updates
    DEF EnforceDeadline, RunsKept, OthersKept, Threads, durable, volatile
  <2>2. /\ \/ pc'[r]["timer"] = Home("timer") /\ out'[r]["timer"] = NoOutcome
           \/ pc'[r]["timer"] = "ask" /\ out'[r]["timer"] = out[r]["timer"]
           \/ pc'[r]["timer"] = "abort" /\ out'[r]["timer"] = TimeUp
        /\ status'[r] = status[r] /\ reason'[r] = reason[r]
        /\ worker'[r] = worker[r]
        /\ binding'[r] = binding[r]
        /\ saved'[r] = saved[r]
    BY <1>13, <1>1, Moves, Updates
    DEF EnforceDeadline, Threads, durable, volatile
  <2>3. Forward(r)
    BY <2>2
    DEF Forward
  <2>4. RunTrue(r) /\ HandTrue(r, "timer") /\ out[r]["timer"].status \in Terminal \cup {"RUNNING"}
    BY <1>1, <1>2, HeardType DEF Threads
  <2>5. RunTrue(r)'
    BY <2>1, <2>2, <2>3, <2>4
    DEF RunTrue, StoresTrue, PlacesTrue, RecordTrue, Excused, Observed, HandTrue,
        OthersKept, Forward, Over, Carrying, Deciding, Threads, Home, Settled,
        Terminal, Contract!Terminal, Contract!Delivers
  <2>6. HandTrue(r, "timer")'
    BY <2>2, <2>3, <2>4, SaidFields
    DEF RunTrue, StoresTrue, HandTrue, Forward, Over, Carrying, Deciding, Home,
        Terminal, Contract!Terminal, Contract!Delivers
  <2> QED
    BY <1>1, <2>1, <2>3, <2>5, <2>6, Frame
    DEF Threads
<1>14. ASSUME NEW r \in Runs, ApiCancel(r) PROVE IndInv'
  <2>1. RunsKept(r) /\ OthersKept(r, "api")
    BY <1>14, <1>1, Moves, Updates
    DEF ApiCancel, RunsKept, OthersKept, Threads, durable, volatile
  <2>2. /\ pc'[r]["api"] = "cancel"
        /\ out'[r]["api"] = out[r]["api"]
        /\ status'[r] = status[r] /\ reason'[r] = reason[r]
        /\ worker'[r] = worker[r]
        /\ binding'[r] = binding[r]
        /\ saved'[r] = saved[r]
    BY <1>14, <1>1, Moves, Updates
    DEF ApiCancel, Threads, durable, volatile
  <2>3. Forward(r)
    BY <2>2
    DEF Forward
  <2>4. RunTrue(r) /\ HandTrue(r, "api") /\ out[r]["api"].status \in Terminal \cup {"RUNNING"}
    BY <1>1, <1>2, HeardType DEF Threads
  <2>5. RunTrue(r)'
    BY <2>1, <2>2, <2>3, <2>4
    DEF RunTrue, StoresTrue, PlacesTrue, RecordTrue, Excused, Observed, HandTrue,
        OthersKept, Forward, Over, Carrying, Deciding, Threads, Home, Settled,
        Terminal, Contract!Terminal, Contract!Delivers
  <2>6. HandTrue(r, "api")'
    BY <2>2, <2>3, <2>4, SaidFields
    DEF RunTrue, StoresTrue, HandTrue, Forward, Over, Carrying, Deciding, Home,
        Terminal, Contract!Terminal, Contract!Delivers
  <2> QED
    BY <1>1, <2>1, <2>3, <2>5, <2>6, Frame
    DEF Threads
<1>15. ASSUME NEW r \in Runs, CancelEnters(r) PROVE IndInv'
  <2>1. RunsKept(r) /\ OthersKept(r, "api")
    BY <1>15, <1>1, Moves, Updates, TransitionFacts, CancelFacts
    DEF CancelEnters, RunsKept, OthersKept, Threads, durable, volatile
  <2>2. /\ \/ pc'[r]["api"] = Home("api") /\ out'[r]["api"] = NoOutcome
           \/ pc'[r]["api"] = "abort" /\ out'[r]["api"].status = "CANCELLED" /\ out'[r]["api"].goal = "ok"
        /\ \/ status'[r] = status[r] /\ reason'[r] = reason[r]
           \/ status'[r] = "CANCELLED" /\ reason'[r] = "CORE_CANCELLED"
        /\ \/ binding'[r] = binding[r]
           \/ binding[r] # "none" /\ binding'[r] = "CANCELLED" /\ worker'[r] # "active"
        /\ worker'[r] = worker[r] \/ status'[r] = status[r]
        /\ worker'[r] = worker[r] \/ (worker[r] = "active" /\ worker'[r] = "aborted")
        /\ saved'[r] = saved[r]
    BY <1>15, <1>1, Moves, Updates, TransitionFacts, CancelFacts
    DEF CancelEnters, Threads, durable, volatile, Say
  <2>3. Forward(r)
    BY <2>2
    DEF Forward
  <2>4. RunTrue(r) /\ HandTrue(r, "api") /\ out[r]["api"].status \in Terminal \cup {"RUNNING"}
    BY <1>1, <1>2, HeardType DEF Threads
  <2>5. RunTrue(r)'
    <3>1. StoresTrue(r)'
      BY <2>1, <2>2, <2>3, <2>4
      DEF RunTrue, StoresTrue, HandTrue, Carrying, Forward, Over, Contract!Delivers
    <3>2. PlacesTrue(r)'
      BY <2>1, <2>2, <2>3, <2>4
      DEF RunTrue, PlacesTrue, OthersKept, Threads, Home, Forward, Over,
          Contract!Delivers
    <3>3. RecordTrue(r)'
      BY <2>1, <2>2, <2>3, <2>4
      DEF RunTrue, RecordTrue, StoresTrue, Excused, Legal, Forward, Over,
          Contract!Delivers
    <3>4. Observed(r)'
      BY <2>1, <2>2, <2>3, <2>4
      DEF RunTrue, Observed, OthersKept, Threads, Home, Forward, Over,
          Contract!Delivers
    <3> QED
      BY <3>1, <3>2, <3>3, <3>4
      DEF RunTrue
  <2>6. HandTrue(r, "api")'
    BY <2>2, <2>3, <2>4, SaidFields
    DEF RunTrue, StoresTrue, HandTrue, Forward, Over, Carrying, Deciding, Home,
        Terminal, Contract!Terminal, Contract!Delivers
  <2> QED
    BY <1>1, <2>1, <2>3, <2>5, <2>6, Frame
    DEF Threads
<1>16. ASSUME NEW r \in Runs, StopRequest(r) PROVE IndInv'
  <2>1. RunsKept(r) /\ OthersKept(r, "stop")
    BY <1>16, <1>1, Moves, Updates
    DEF StopRequest, RunsKept, OthersKept, Threads, durable, volatile
  <2>2. /\ pc[r]["stop"] = "off"
        /\ pc'[r]["stop"] \in {"off", "control"}
        /\ pc'[r]["stop"] = "control" => status[r] = "RUNNING"
        /\ out'[r]["stop"] = out[r]["stop"]
        /\ status'[r] = status[r] /\ reason'[r] = reason[r]
        /\ worker'[r] = worker[r]
        /\ binding'[r] = binding[r]
        /\ saved'[r] = saved[r]
    BY <1>16, <1>1, Moves, Updates
    DEF StopRequest, Threads, durable, volatile
  <2>3. Forward(r)
    BY <2>2
    DEF Forward
  <2>4. RunTrue(r) /\ HandTrue(r, "stop") /\ out[r]["stop"].status \in Terminal \cup {"RUNNING"}
    BY <1>1, <1>2, HeardType DEF Threads
  <2>5. RunTrue(r)'
    BY <2>1, <2>2, <2>3, <2>4
    DEF RunTrue, StoresTrue, PlacesTrue, RecordTrue, Excused, Observed, HandTrue,
        OthersKept, Forward, Over, Carrying, Deciding, Threads, Home, Settled,
        Terminal, Contract!Terminal, Contract!Delivers
  <2>6. HandTrue(r, "stop")'
    BY <2>2, <2>3, <2>4, SaidFields
    DEF RunTrue, StoresTrue, HandTrue, Forward, Over, Carrying, Deciding, Home,
        Terminal, Contract!Terminal, Contract!Delivers
  <2> QED
    BY <1>1, <2>1, <2>3, <2>5, <2>6, Frame
    DEF Threads
<1>17. ASSUME NEW r \in Runs, ControlAbort(r) PROVE IndInv'
  <2>1. RunsKept(r) /\ OthersKept(r, "stop")
    BY <1>17, <1>1, Moves, Updates
    DEF ControlAbort, RunsKept, OthersKept, Threads, durable, volatile
  <2>2. /\ pc[r]["stop"] = "control"
        /\ out'[r]["stop"] = out[r]["stop"]
        /\ \/ pc'[r]["stop"] = "off" /\ worker'[r] = worker[r]
           \/ pc'[r]["stop"] = "reconcile" /\ worker'[r] = worker[r] /\ worker[r] # "active"
           \/ pc'[r]["stop"] \in {"off", "markAborted"} /\ worker[r] = "active" /\ worker'[r] = "aborted"
        /\ status'[r] = status[r] /\ reason'[r] = reason[r]
        /\ binding'[r] = binding[r]
        /\ saved'[r] = saved[r]
    <3>1. /\ pc[r]["stop"] = "control"
          /\ out'[r]["stop"] = out[r]["stop"]
          /\ status'[r] = status[r] /\ reason'[r] = reason[r]
          /\ binding'[r] = binding[r]
          /\ saved'[r] = saved[r]
      BY <1>17, <1>1, Moves, Updates
      DEF ControlAbort, Threads, durable, volatile
    <3>2. \/ pc'[r]["stop"] = "off" /\ worker'[r] = worker[r]
          \/ pc'[r]["stop"] = "reconcile" /\ worker'[r] = worker[r] /\ worker[r] # "active"
          \/ pc'[r]["stop"] \in {"off", "markAborted"} /\ worker[r] = "active" /\ worker'[r] = "aborted"
      <4>1. /\ "stop" \in Threads
            /\ worker' = worker => worker'[r] = worker[r]
        BY DEF Threads
      <4> QED
        BY <1>17, <1>1, <4>1, Moves, Updates DEF ControlAbort
    <3> QED
      BY <3>1, <3>2
  <2>3. Forward(r)
    BY <2>2
    DEF Forward
  <2>4. RunTrue(r) /\ HandTrue(r, "stop") /\ out[r]["stop"].status \in Terminal \cup {"RUNNING"}
    BY <1>1, <1>2, HeardType DEF Threads
  <2>5. RunTrue(r)'
    BY <2>1, <2>2, <2>3, <2>4
    DEF RunTrue, StoresTrue, PlacesTrue, RecordTrue, Excused, Observed, HandTrue,
        OthersKept, Forward, Over, Carrying, Deciding, Threads, Home, Settled,
        Terminal, Contract!Terminal, Contract!Delivers
  <2>6. HandTrue(r, "stop")'
    BY <2>2, <2>3, <2>4, SaidFields
    DEF RunTrue, StoresTrue, HandTrue, Forward, Over, Carrying, Deciding, Home,
        Terminal, Contract!Terminal, Contract!Delivers
  <2> QED
    BY <1>1, <2>1, <2>3, <2>5, <2>6, Frame
    DEF Threads
<1>18. ASSUME NEW r \in Runs, ReconcileEnters(r) PROVE IndInv'
  <2>1. RunsKept(r) /\ OthersKept(r, "stop")
    BY <1>18, <1>1, Moves, Updates
    DEF ReconcileEnters, RunsKept, OthersKept, Threads, durable, volatile
  <2>2. /\ pc[r]["stop"] = "reconcile"
        /\ pc'[r]["stop"] \in {"off", "ask"}
        /\ out'[r]["stop"] = out[r]["stop"]
        /\ status'[r] = status[r] /\ reason'[r] = reason[r]
        /\ worker'[r] = worker[r]
        /\ binding'[r] = binding[r]
        /\ saved'[r] = saved[r]
    BY <1>18, <1>1, Moves, Updates
    DEF ReconcileEnters, Threads, durable, volatile
  <2>3. Forward(r)
    BY <2>2
    DEF Forward
  <2>4. RunTrue(r) /\ HandTrue(r, "stop") /\ out[r]["stop"].status \in Terminal \cup {"RUNNING"}
    BY <1>1, <1>2, HeardType DEF Threads
  <2>5. RunTrue(r)'
    BY <2>1, <2>2, <2>3, <2>4
    DEF RunTrue, StoresTrue, PlacesTrue, RecordTrue, Excused, Observed, HandTrue,
        OthersKept, Forward, Over, Carrying, Deciding, Threads, Home, Settled,
        Terminal, Contract!Terminal, Contract!Delivers
  <2>6. HandTrue(r, "stop")'
    BY <2>2, <2>3, <2>4, SaidFields
    DEF RunTrue, StoresTrue, HandTrue, Forward, Over, Carrying, Deciding, Home,
        Terminal, Contract!Terminal, Contract!Delivers
  <2> QED
    BY <1>1, <2>1, <2>3, <2>5, <2>6, Frame
    DEF Threads
<1>19. ASSUME NEW r \in Runs, ReconcileSettles(r) PROVE IndInv'
  <2>1. RunsKept(r) /\ OthersKept(r, "stop")
    BY <1>19, <1>1, Moves, Updates, TransitionFacts
    DEF ReconcileSettles, RunsKept, OthersKept, Threads, durable, volatile
  <2>2. /\ pc[r]["stop"] = "heard"
        /\ pc'[r]["stop"] \in {"off", "mark"} /\ out'[r]["stop"] = NoOutcome
        /\ \/ status'[r] = status[r] /\ reason'[r] = reason[r]
           \/ status'[r] = out[r]["stop"].status /\ out[r]["stop"].status # "RUNNING"
        /\ worker'[r] = worker[r]
        /\ binding'[r] = binding[r]
        /\ saved'[r] = saved[r]
    BY <1>19, <1>1, Moves, Updates, TransitionFacts
    DEF ReconcileSettles, Threads, durable, volatile
  <2>3. Forward(r)
    BY <2>2
    DEF Forward
  <2>4. RunTrue(r) /\ HandTrue(r, "stop") /\ out[r]["stop"].status \in Terminal \cup {"RUNNING"}
    BY <1>1, <1>2, HeardType DEF Threads
  <2>5. RunTrue(r)'
    BY <2>1, <2>2, <2>3, <2>4
    DEF RunTrue, StoresTrue, PlacesTrue, RecordTrue, Excused, Observed, HandTrue,
        OthersKept, Forward, Over, Carrying, Deciding, Threads, Home, Settled,
        Terminal, Contract!Terminal, Contract!Delivers
  <2>6. HandTrue(r, "stop")'
    BY <2>2, <2>3, <2>4, SaidFields
    DEF RunTrue, StoresTrue, HandTrue, Forward, Over, Carrying, Deciding, Home,
        Terminal, Contract!Terminal, Contract!Delivers
  <2> QED
    BY <1>1, <2>1, <2>3, <2>5, <2>6, Frame
    DEF Threads
<1>20. ASSUME NEW r \in Runs, MarkCancelled(r) PROVE IndInv'
  <2>1. RunsKept(r) /\ OthersKept(r, "stop")
    BY <1>20, <1>1, Moves, Updates
    DEF MarkCancelled, RunsKept, OthersKept, Threads, durable, volatile
  <2>2. /\ pc[r]["stop"] \in {"mark", "markAborted"}
        /\ pc'[r]["stop"] = "off"
        /\ out'[r]["stop"] = out[r]["stop"]
        /\ \/ status'[r] = status[r] /\ reason'[r] = reason[r]
           \/ status'[r] = "CANCELLED"
        /\ worker'[r] = worker[r]
        /\ binding'[r] = binding[r]
        /\ saved'[r] = saved[r]
    <3>1. /\ pc[r]["stop"] \in {"mark", "markAborted"}
          /\ pc'[r]["stop"] = "off"
          /\ out'[r]["stop"] = out[r]["stop"]
          /\ worker'[r] = worker[r]
          /\ binding'[r] = binding[r]
          /\ saved'[r] = saved[r]
      BY <1>20, <1>1, Moves, Updates
      DEF MarkCancelled, Threads, durable, volatile
    <3>2. \/ status'[r] = status[r] /\ reason'[r] = reason[r]
          \/ status'[r] = "CANCELLED"
      BY <1>20, <1>1
      DEF MarkCancelled, Threads, durable, volatile, TypeOK
    <3> QED
      BY <3>1, <3>2
  <2>3. Forward(r)
    BY <2>2
    DEF Forward
  <2>4. RunTrue(r) /\ HandTrue(r, "stop") /\ out[r]["stop"].status \in Terminal \cup {"RUNNING"}
    BY <1>1, <1>2, HeardType DEF Threads
  <2>5. RunTrue(r)'
    BY <2>1, <2>2, <2>3, <2>4
    DEF RunTrue, StoresTrue, PlacesTrue, RecordTrue, Excused, Observed, HandTrue,
        OthersKept, Forward, Over, Carrying, Deciding, Threads, Home, Settled,
        Terminal, Contract!Terminal, Contract!Delivers
  <2>6. HandTrue(r, "stop")'
    BY <2>2, <2>3, <2>4, SaidFields
    DEF RunTrue, StoresTrue, HandTrue, Forward, Over, Carrying, Deciding, Home,
        Terminal, Contract!Terminal, Contract!Delivers
  <2> QED
    BY <1>1, <2>1, <2>3, <2>5, <2>6, Frame
    DEF Threads
<1>21. ASSUME NEW r \in Runs, WorkerEnds(r) PROVE IndInv'
  <2>1. RunsKept(r) /\ OthersKept(r, "disp")
    BY <1>21, <1>1, Moves, Updates, EndsAssumption
    DEF WorkerEnds, RunsKept, OthersKept, Threads, durable, volatile
  <2>2. /\ worker[r] = "active" /\ worker'[r] \notin {"none", "active"}
        /\ pc'[r] = pc[r] /\ out'[r] = out[r]
        /\ status'[r] = status[r] /\ reason'[r] = reason[r]
        /\ binding'[r] = binding[r]
        /\ saved'[r] = saved[r]
    <3>1. /\ pc'[r] = pc[r] /\ out'[r] = out[r]
          /\ status'[r] = status[r] /\ reason'[r] = reason[r]
          /\ binding'[r] = binding[r]
          /\ saved'[r] = saved[r]
      BY <1>21, <1>1, Moves, Updates, EndsAssumption
      DEF WorkerEnds, Threads, durable, volatile, Contract!Endings
    <3>2. worker[r] = "active" /\ worker'[r] \notin {"none", "active"}
      <4>1. PICK e \in Ends : worker' = [worker EXCEPT ![r] = e]
        BY <1>21 DEF WorkerEnds
      <4>2. e \notin {"none", "active"}
        BY EndsAssumption DEF Contract!Endings
      <4>3. worker'[r] = e
        BY <1>1, <4>1, Updates
      <4> QED
        BY <1>21, <4>2, <4>3 DEF WorkerEnds
    <3> QED
      BY <3>1, <3>2
  <2>3. Forward(r)
    BY <2>2
    DEF Forward
  <2>4. RunTrue(r) /\ HandTrue(r, "disp") /\ out[r]["disp"].status \in Terminal \cup {"RUNNING"}
    BY <1>1, <1>2, HeardType DEF Threads
  <2>5. RunTrue(r)'
    BY <2>1, <2>2, <2>3, <2>4
    DEF RunTrue, StoresTrue, PlacesTrue, RecordTrue, Excused, Observed, HandTrue,
        OthersKept, Forward, Over, Carrying, Deciding, Threads, Home, Settled,
        Terminal, Contract!Terminal, Contract!Delivers
  <2>6. HandTrue(r, "disp")'
    BY <2>2, <2>3, <2>4, SaidFields
    DEF RunTrue, StoresTrue, HandTrue, Forward, Over, Carrying, Deciding, Home,
        Terminal, Contract!Terminal, Contract!Delivers
  <2> QED
    BY <1>1, <2>1, <2>3, <2>5, <2>6, Frame
    DEF Threads
<1>22. ASSUME NEW r \in Runs, Tick(r) PROVE IndInv'
  <2>1. RunsKept(r) /\ OthersKept(r, "disp")
    BY <1>22, <1>1, Moves, Updates
    DEF Tick, RunsKept, OthersKept, Threads, durable, volatile
  <2>2. /\ pc'[r] = pc[r] /\ out'[r] = out[r]
        /\ status'[r] = status[r] /\ reason'[r] = reason[r]
        /\ worker'[r] = worker[r]
        /\ binding'[r] = binding[r]
        /\ saved'[r] = saved[r]
    BY <1>22, <1>1, Moves, Updates
    DEF Tick, Threads, durable, volatile
  <2>3. Forward(r)
    BY <2>2
    DEF Forward
  <2>4. RunTrue(r) /\ HandTrue(r, "disp") /\ out[r]["disp"].status \in Terminal \cup {"RUNNING"}
    BY <1>1, <1>2, HeardType DEF Threads
  <2>5. RunTrue(r)'
    BY <2>1, <2>2, <2>3, <2>4
    DEF RunTrue, StoresTrue, PlacesTrue, RecordTrue, Excused, Observed, HandTrue,
        OthersKept, Forward, Over, Carrying, Deciding, Threads, Home, Settled,
        Terminal, Contract!Terminal, Contract!Delivers
  <2>6. HandTrue(r, "disp")'
    BY <2>2, <2>3, <2>4, SaidFields
    DEF RunTrue, StoresTrue, HandTrue, Forward, Over, Carrying, Deciding, Home,
        Terminal, Contract!Terminal, Contract!Delivers
  <2> QED
    BY <1>1, <2>1, <2>3, <2>5, <2>6, Frame
    DEF Threads
<1>23. ASSUME NEW r \in Runs, NEW t \in Threads, Ask(r, t) PROVE IndInv'
  <2>1. RunsKept(r) /\ OthersKept(r, t)
    BY <1>23, <1>1, Moves, Updates
    DEF Ask, RunsKept, OthersKept, Threads, durable, volatile
  <2>2. /\ pc[r][t] = "ask"
        /\ \/ pc'[r][t] = "heard" /\ out'[r][t] \in {NoOutcome, Rejected(r, t)}
           \/ pc'[r][t] = "heard" /\ binding[r] # "RUNNING" /\ out'[r][t] = Replay(r)
           \/ pc'[r][t] = "probe" /\ binding[r] = "RUNNING" /\ out'[r][t] = out[r][t]
           \/ pc'[r][t] = "store" /\ worker[r] = "active" /\ out'[r][t] = NoOutcome
           \/ pc'[r][t] = "store" /\ binding[r] = "RUNNING" /\ out'[r][t] = Say("FAIL", "OPENCLAW_CONTRACT")
        /\ status'[r] = status[r] /\ reason'[r] = reason[r]
        /\ worker'[r] = worker[r]
        /\ binding'[r] = binding[r]
        /\ saved'[r] = saved[r]
    BY <1>23, <1>1, Moves, Updates
    DEF Ask, Threads, durable, volatile
  <2>3. Forward(r)
    BY <2>2
    DEF Forward
  <2>4. RunTrue(r) /\ HandTrue(r, t) /\ out[r][t].status \in Terminal \cup {"RUNNING"}
    BY <1>1, <1>2, HeardType
  <2>5. RunTrue(r)'
    BY <2>1, <2>2, <2>3, <2>4
    DEF RunTrue, StoresTrue, PlacesTrue, RecordTrue, Excused, Observed, HandTrue,
        OthersKept, Forward, Over, Carrying, Deciding, Threads, Home, Settled,
        Terminal, Contract!Terminal, Contract!Delivers
  <2>6. HandTrue(r, t)'
    BY <2>2, <2>3, <2>4, SaidFields
    DEF Rejected, Replay, RunTrue, StoresTrue, HandTrue, Forward, Over, Carrying,
        Deciding, Home, Terminal, Contract!Terminal, Contract!Delivers
  <2> QED
    BY <1>1, <2>1, <2>3, <2>5, <2>6, Frame
<1>24. ASSUME NEW r \in Runs, NEW t \in Threads, AskEnded(r, t) PROVE IndInv'
  <2>1. RunsKept(r) /\ OthersKept(r, t)
    BY <1>24, <1>1, Moves, Updates
    DEF AskEnded, RunsKept, OthersKept, Threads, durable, volatile
  <2>2. /\ pc[r][t] = "ask"
        /\ pc'[r][t] = "store"
        /\ out'[r][t] \in Answers(worker[r])
        /\ status'[r] = status[r] /\ reason'[r] = reason[r]
        /\ worker'[r] = worker[r]
        /\ binding'[r] = binding[r]
        /\ saved'[r] = saved[r]
    BY <1>24, <1>1, Moves, Updates
    DEF AskEnded, Threads, durable, volatile
  <2>3. Forward(r)
    BY <2>2
    DEF Forward
  <2>4. RunTrue(r) /\ HandTrue(r, t) /\ out[r][t].status \in Terminal \cup {"RUNNING"}
    BY <1>1, <1>2, HeardType
  <2>5. RunTrue(r)'
    BY <2>1, <2>2, <2>3, <2>4
    DEF RunTrue, StoresTrue, PlacesTrue, RecordTrue, Excused, Observed, HandTrue,
        OthersKept, Forward, Over, Carrying, Deciding, Threads, Home, Settled,
        Terminal, Contract!Terminal, Contract!Delivers
  <2>a. worker[r] \in Contract!Workers
    BY <1>1 DEF TypeOK
  <2>b. /\ worker[r] \notin {"none", "active"}
        /\ Over(out'[r][t].status, worker[r])
        /\ out'[r][t].goal # "ok" => out'[r][t].status = "PASS"
    BY <2>2, <2>a, AnswersTrue
  <2>6. HandTrue(r, t)'
    BY <2>2, <2>3, <2>4, SaidFields, <2>b
    DEF RunTrue, StoresTrue, HandTrue, Forward, Over, Carrying, Deciding, Home,
        Terminal, Contract!Terminal, Contract!Delivers
  <2> QED
    BY <1>1, <2>1, <2>3, <2>5, <2>6, Frame
<1>25. ASSUME NEW r \in Runs, NEW t \in Threads, Probe(r, t) PROVE IndInv'
  <2>1. RunsKept(r) /\ OthersKept(r, t)
    BY <1>25, <1>1, Moves, Updates
    DEF Probe, RunsKept, OthersKept, Threads, durable, volatile
  <2>2. /\ pc[r][t] = "probe"
        /\ \/ pc'[r][t] = "heard" /\ out'[r][t] = NoOutcome
           \/ pc'[r][t] = "heard" /\ t = "stop"
               /\ out'[r][t] = Say("TIMEOUT", "OPENCLAW_TIMEOUT")
           \/ pc'[r][t] = "store" /\ worker[r] # "active"
               /\ out'[r][t] = Say("TIMEOUT", "OPENCLAW_TERMINAL_TIMEOUT")
        /\ status'[r] = status[r] /\ reason'[r] = reason[r]
        /\ worker'[r] = worker[r]
        /\ binding'[r] = binding[r]
        /\ saved'[r] = saved[r]
    BY <1>25, <1>1, Moves, Updates
    DEF Probe, WindowOver, Threads, durable, volatile
  <2>3. Forward(r)
    BY <2>2
    DEF Forward
  <2>4. RunTrue(r) /\ HandTrue(r, t) /\ out[r][t].status \in Terminal \cup {"RUNNING"}
    BY <1>1, <1>2, HeardType
  <2>5. RunTrue(r)'
    BY <2>1, <2>2, <2>3, <2>4
    DEF RunTrue, StoresTrue, PlacesTrue, RecordTrue, Excused, Observed, HandTrue,
        OthersKept, Forward, Over, Carrying, Deciding, Threads, Home, Settled,
        Terminal, Contract!Terminal, Contract!Delivers
  <2>6. HandTrue(r, t)'
    BY <2>2, <2>3, <2>4, SaidFields
    DEF RunTrue, StoresTrue, PlacesTrue, HandTrue, Forward, Over, Carrying, Deciding, Home,
        Terminal, Contract!Terminal, Contract!Delivers
  <2> QED
    BY <1>1, <2>1, <2>3, <2>5, <2>6, Frame
<1>26. ASSUME NEW r \in Runs, NEW t \in Threads, Store(r, t) PROVE IndInv'
  <2>1. RunsKept(r) /\ OthersKept(r, t)
    BY <1>26, <1>1, Moves, Updates
    DEF Store, RunsKept, OthersKept, Threads, durable, volatile
  <2>2. /\ pc[r][t] = "store"
        /\ pc'[r][t] = "heard"
        /\ out'[r][t] = out[r][t]
        /\ binding'[r] = out[r][t].status
        /\ saved'[r] = saved[r] \/ saved'[r] = out[r][t]
        /\ status'[r] = status[r] /\ reason'[r] = reason[r]
        /\ worker'[r] = worker[r]
    <3>1. /\ pc[r][t] = "store"
          /\ pc'[r][t] = "heard"
          /\ out'[r][t] = out[r][t]
          /\ status'[r] = status[r] /\ reason'[r] = reason[r]
          /\ worker'[r] = worker[r]
      BY <1>26, <1>1, Moves, Updates
      DEF Store, Threads, durable, volatile
    <3>2. binding'[r] = out[r][t].status
      BY <1>26, <1>1
      DEF Store, Threads, durable, volatile, TypeOK
    <3>3. saved'[r] = saved[r] \/ saved'[r] = out[r][t]
      BY <1>26, <1>1
      DEF Store, Threads, durable, volatile, TypeOK
    <3> QED
      BY <3>1, <3>2, <3>3
  <2>3. Forward(r)
    BY <2>2
    DEF Forward
  <2>4. RunTrue(r) /\ HandTrue(r, t) /\ out[r][t].status \in Terminal \cup {"RUNNING"}
    BY <1>1, <1>2, HeardType
  <2>5. RunTrue(r)'
    BY <2>1, <2>2, <2>3, <2>4
    DEF RunTrue, StoresTrue, PlacesTrue, RecordTrue, Excused, Observed, HandTrue,
        OthersKept, Forward, Over, Carrying, Deciding, Threads, Home, Settled,
        Terminal, Contract!Terminal, Contract!Delivers
  <2>6. HandTrue(r, t)'
    BY <2>2, <2>3, <2>4, SaidFields
    DEF RunTrue, StoresTrue, HandTrue, Forward, Over, Carrying, Deciding, Home,
        Terminal, Contract!Terminal, Contract!Delivers
  <2> QED
    BY <1>1, <2>1, <2>3, <2>5, <2>6, Frame
<1>27. ASSUME NEW r \in Runs, NEW t \in Threads, JudgeFinal(r, t) PROVE IndInv'
  <2>1. RunsKept(r) /\ OthersKept(r, t)
    BY <1>27, <1>1, Moves, Updates
    DEF JudgeFinal, RunsKept, OthersKept, Threads, durable, volatile
  <2>2. /\ pc[r][t] = "heard"
        /\ t \in {"obs", "timer"}
        /\ \/ pc'[r][t] = "abort" /\ out'[r][t] = TimeUp
           \/ pc'[r][t] \in {"cleanup", "goal", "conclude"} /\ out'[r][t] = out[r][t]
               /\ out[r][t].status # "RUNNING"
        /\ status'[r] = status[r] /\ reason'[r] = reason[r]
        /\ worker'[r] = worker[r]
        /\ binding'[r] = binding[r]
        /\ saved'[r] = saved[r]
    BY <1>27, <1>1, Moves, Updates
    DEF JudgeFinal, Threads, durable, volatile, Disposal
  <2>3. Forward(r)
    BY <2>2
    DEF Forward
  <2>4. RunTrue(r) /\ HandTrue(r, t) /\ out[r][t].status \in Terminal \cup {"RUNNING"}
    BY <1>1, <1>2, HeardType
  <2>5. RunTrue(r)'
    BY <2>1, <2>2, <2>3, <2>4
    DEF RunTrue, StoresTrue, PlacesTrue, RecordTrue, Excused, Observed, HandTrue,
        OthersKept, Forward, Over, Carrying, Deciding, Threads, Home, Settled,
        Terminal, Contract!Terminal, Contract!Delivers
  <2>6. HandTrue(r, t)'
    BY <2>2, <2>3, <2>4, SaidFields
    DEF RunTrue, StoresTrue, HandTrue, Forward, Over, Carrying, Deciding, Home,
        Terminal, Contract!Terminal, Contract!Delivers
  <2> QED
    BY <1>1, <2>1, <2>3, <2>5, <2>6, Frame
<1>28. ASSUME NEW r \in Runs, NEW t \in Threads, CheckGoal(r, t) PROVE IndInv'
  <2>1. RunsKept(r) /\ OthersKept(r, t)
    BY <1>28, <1>1, Moves, Updates, TransitionFacts
    DEF CheckGoal, RunsKept, OthersKept, Threads, durable, volatile
  <2>2. /\ pc[r][t] = "goal"
        /\ \/ pc'[r][t] = Home(t) /\ out'[r][t] = NoOutcome
           \/ pc'[r][t] = "conclude" /\ out'[r][t] = out[r][t]
           \/ pc'[r][t] = "abort" /\ out'[r][t] = Say("CANCELLED", "LOCAL_LLM_GOAL_DRIFT")
        /\ \/ status'[r] = status[r] /\ reason'[r] = reason[r]
           \/ status'[r] = "BLOCKED" /\ out[r][t].goal # "ok"
        /\ worker'[r] = worker[r]
        /\ binding'[r] = binding[r]
        /\ saved'[r] = saved[r]
    BY <1>28, <1>1, Moves, Updates, TransitionFacts
    DEF CheckGoal, Threads, durable, volatile
  <2>3. Forward(r)
    BY <2>2
    DEF Forward
  <2>4. RunTrue(r) /\ HandTrue(r, t) /\ out[r][t].status \in Terminal \cup {"RUNNING"}
    BY <1>1, <1>2, HeardType
  <2>5. RunTrue(r)'
    BY <2>1, <2>2, <2>3, <2>4
    DEF RunTrue, StoresTrue, PlacesTrue, RecordTrue, Excused, Observed, HandTrue,
        OthersKept, Forward, Over, Carrying, Deciding, Threads, Home, Settled,
        Terminal, Contract!Terminal, Contract!Delivers
  <2>6. HandTrue(r, t)'
    BY <2>2, <2>3, <2>4, SaidFields
    DEF RunTrue, StoresTrue, HandTrue, Forward, Over, Carrying, Deciding, Home,
        Terminal, Contract!Terminal, Contract!Delivers
  <2> QED
    BY <1>1, <2>1, <2>3, <2>5, <2>6, Frame
<1>29. ASSUME NEW r \in Runs, NEW t \in Threads, CleanupTimeout(r, t) PROVE IndInv'
  <2>1. RunsKept(r) /\ OthersKept(r, t)
    BY <1>29, <1>1, Moves, Updates, CancelFacts
    DEF CleanupTimeout, RunsKept, OthersKept, Threads, durable, volatile
  <2>2. /\ pc[r][t] = "cleanup"
        /\ pc'[r][t] = "conclude"
        /\ out'[r][t] = out[r][t]
        /\ \/ binding'[r] = binding[r]
           \/ binding[r] # "none" /\ binding'[r] = "CANCELLED" /\ worker'[r] # "active"
        /\ worker'[r] = worker[r] \/ (worker[r] = "active" /\ worker'[r] = "aborted")
        /\ status'[r] = status[r] /\ reason'[r] = reason[r]
        /\ saved'[r] = saved[r]
    BY <1>29, <1>1, Moves, Updates, CancelFacts
    DEF CleanupTimeout, Threads, durable, volatile
  <2>3. Forward(r)
    BY <2>2
    DEF Forward
  <2>4. RunTrue(r) /\ HandTrue(r, t) /\ out[r][t].status \in Terminal \cup {"RUNNING"}
    BY <1>1, <1>2, HeardType
  <2>5. RunTrue(r)'
    <3>1. StoresTrue(r)'
      BY <2>1, <2>2, <2>3, <2>4
      DEF RunTrue, StoresTrue, HandTrue, Carrying, Forward, Over, Contract!Delivers
    <3>2. PlacesTrue(r)'
      BY <2>1, <2>2, <2>3, <2>4
      DEF RunTrue, PlacesTrue, OthersKept, Threads, Home, Forward, Over,
          Contract!Delivers
    <3>3. RecordTrue(r)'
      BY <2>1, <2>2, <2>3, <2>4
      DEF RunTrue, RecordTrue, StoresTrue, Excused, Legal, Forward, Over,
          Contract!Delivers
    <3>4. Observed(r)'
      BY <2>1, <2>2, <2>3, <2>4
      DEF RunTrue, Observed, OthersKept, Threads, Home, Forward, Over,
          Contract!Delivers
    <3> QED
      BY <3>1, <3>2, <3>3, <3>4
      DEF RunTrue
  <2>6. HandTrue(r, t)'
    BY <2>2, <2>3, <2>4, SaidFields
    DEF RunTrue, StoresTrue, HandTrue, Forward, Over, Carrying, Deciding, Home,
        Terminal, Contract!Terminal, Contract!Delivers
  <2> QED
    BY <1>1, <2>1, <2>3, <2>5, <2>6, Frame
<1>30. ASSUME NEW r \in Runs, NEW t \in Threads, AbortWorker(r, t) PROVE IndInv'
  <2>1. RunsKept(r) /\ OthersKept(r, t)
    BY <1>30, <1>1, Moves, Updates, CancelFacts
    DEF AbortWorker, RunsKept, OthersKept, Threads, durable, volatile
  <2>2. /\ pc[r][t] = "abort"
        /\ \/ pc'[r][t] = Home(t) /\ out'[r][t] = NoOutcome
           \/ pc'[r][t] = "conclude" /\ out'[r][t] = Say("FAIL", "POLICY_ABORT_FAILED")
           \/ pc'[r][t] = "conclude" /\ out'[r][t] = out[r][t] /\ binding[r] # "none" /\ worker'[r] # "active"
        /\ \/ binding'[r] = binding[r]
           \/ binding[r] # "none" /\ binding'[r] = "CANCELLED" /\ worker'[r] # "active"
        /\ worker'[r] = worker[r] \/ (worker[r] = "active" /\ worker'[r] = "aborted")
        /\ status'[r] = status[r] /\ reason'[r] = reason[r]
        /\ saved'[r] = saved[r]
    BY <1>30, <1>1, Moves, Updates, CancelFacts
    DEF AbortWorker, Threads, durable, volatile
  <2>3. Forward(r)
    BY <2>2
    DEF Forward
  <2>4. RunTrue(r) /\ HandTrue(r, t) /\ out[r][t].status \in Terminal \cup {"RUNNING"}
    BY <1>1, <1>2, HeardType
  <2>5. RunTrue(r)'
    <3>1. StoresTrue(r)'
      BY <2>1, <2>2, <2>3, <2>4
      DEF RunTrue, StoresTrue, HandTrue, Carrying, Forward, Over, Contract!Delivers
    <3>2. PlacesTrue(r)'
      BY <2>1, <2>2, <2>3, <2>4
      DEF RunTrue, PlacesTrue, OthersKept, Threads, Home, Forward, Over,
          Contract!Delivers
    <3>3. RecordTrue(r)'
      BY <2>1, <2>2, <2>3, <2>4
      DEF RunTrue, RecordTrue, StoresTrue, Excused, Legal, Forward, Over,
          Contract!Delivers
    <3>4. Observed(r)'
      BY <2>1, <2>2, <2>3, <2>4
      DEF RunTrue, Observed, OthersKept, Threads, Home, Forward, Over,
          Contract!Delivers
    <3> QED
      BY <3>1, <3>2, <3>3, <3>4
      DEF RunTrue
  <2>6. HandTrue(r, t)'
    BY <2>2, <2>3, <2>4, SaidFields
    DEF RunTrue, StoresTrue, HandTrue, Forward, Over, Carrying, Deciding, Home,
        Terminal, Contract!Terminal, Contract!Delivers
  <2> QED
    BY <1>1, <2>1, <2>3, <2>5, <2>6, Frame
<1>31. ASSUME NEW r \in Runs, NEW t \in Threads, Conclude(r, t) PROVE IndInv'
  <2>1. RunsKept(r) /\ OthersKept(r, t)
    BY <1>31, <1>1, Moves, Updates, TransitionFacts
    DEF Conclude, RunsKept, OthersKept, Threads, durable, volatile
  <2>2. /\ pc[r][t] = "conclude"
        /\ pc'[r][t] = Home(t) /\ out'[r][t] = NoOutcome
        /\ \/ status'[r] = status[r] /\ reason'[r] = reason[r]
           \/ status'[r] = out[r][t].status
        /\ worker'[r] = worker[r]
        /\ binding'[r] = binding[r]
        /\ saved'[r] = saved[r]
    BY <1>31, <1>1, Moves, Updates, TransitionFacts
    DEF Conclude, Threads, durable, volatile
  <2>3. Forward(r)
    BY <2>2
    DEF Forward
  <2>4. RunTrue(r) /\ HandTrue(r, t) /\ out[r][t].status \in Terminal \cup {"RUNNING"}
    BY <1>1, <1>2, HeardType
  <2>5. RunTrue(r)'
    BY <2>1, <2>2, <2>3, <2>4
    DEF RunTrue, StoresTrue, PlacesTrue, RecordTrue, Excused, Observed, HandTrue,
        OthersKept, Forward, Over, Carrying, Deciding, Threads, Home, Settled,
        Terminal, Contract!Terminal, Contract!Delivers
  <2>6. HandTrue(r, t)'
    BY <2>2, <2>3, <2>4, SaidFields
    DEF RunTrue, StoresTrue, HandTrue, Forward, Over, Carrying, Deciding, Home,
        Terminal, Contract!Terminal, Contract!Delivers
  <2> QED
    BY <1>1, <2>1, <2>3, <2>5, <2>6, Frame
<1>32. ASSUME Restart PROVE IndInv'
  <2>1. ASSUME NEW r \in Runs PROVE RunTrue(r)'
    <3>1. /\ pc'[r]["disp"] = "off" /\ pc'[r]["stop"] = "off"
          /\ pc'[r]["obs"] = IF status[r] = "RUNNING" /\ binding[r] # "none"
                             THEN "top" ELSE "off"
      BY <1>32 DEF Restart, Threads
    <3>2. /\ status'[r] = status[r] /\ reason'[r] = reason[r] /\ binding'[r] = binding[r]
          /\ saved'[r] = saved[r] /\ worker'[r] = worker[r]
      BY <1>32 DEF Restart, durable
    <3> QED
      BY <1>2, <3>1, <3>2
      DEF RunTrue, StoresTrue, PlacesTrue, RecordTrue, Excused, Observed, Over
  <2>2. ASSUME NEW r \in Runs, NEW t \in Threads PROVE HandTrue(r, t)'
    <3>1. pc'[r][t] \in {"top", "off"} /\ out'[r][t] = NoOutcome
      BY <1>32 DEF Restart
    <3> QED
      BY <3>1, SaidFields DEF HandTrue, Carrying, Deciding
  <2> QED
    BY <1>1, <2>1, <2>2 DEF IndInv
<1>33. ASSUME UNCHANGED vars PROVE IndInv'
  <2>1. ASSUME NEW r \in Runs PROVE RunTrue(r)'
    BY <1>2, <1>33
    DEF RunTrue, StoresTrue, PlacesTrue, RecordTrue, Excused, Observed, Over, vars, durable,
        volatile
  <2>2. ASSUME NEW r \in Runs, NEW t \in Threads PROVE HandTrue(r, t)'
    BY <1>2, <1>33 DEF HandTrue, Over, vars, durable, volatile
  <2> QED
    BY <1>1, <2>1, <2>2 DEF IndInv
<1> QED
  BY <1>3, <1>4, <1>5, <1>6, <1>7, <1>8, <1>9, <1>10, <1>11, <1>12, <1>13, <1>14,
     <1>15, <1>16, <1>17, <1>18, <1>19, <1>20, <1>21, <1>22, <1>23, <1>24, <1>25,
     <1>26, <1>27, <1>28, <1>29, <1>30, <1>31, <1>32, <1>33
  DEF Next, Dispatching, Observing, Deadline, Asking, Settling, Cancelling, Stopping

LEMMA IndInit == Init => IndInv
<1> SUFFICES ASSUME Init PROVE IndInv
  OBVIOUS
<1>1. TypeOK
  <2>1. /\ status \in [Runs -> Contract!Statuses]
        /\ reason \in [Runs -> Contract!Reasons]
        /\ worker \in [Runs -> Contract!Workers]
        /\ binding \in [Runs -> {"none", "RUNNING"} \cup Terminal]
    BY DEF Init, Contract!Statuses, Contract!Reasons, Contract!Workers
  <2>2. /\ saved \in [Runs -> Outcomes]
        /\ out \in [Runs -> [Threads -> Outcomes]]
    BY SomeOutcomes DEF Init
  <2>3. drift \in [Runs -> 0..3]
    <3>1. 0 \in 0..3
      OBVIOUS
    <3>2. drift = [r \in Runs |-> 0]
      BY DEF Init
    <3> QED
      BY <3>1, <3>2, Zenon
  <2>4. age \in [Runs -> Ages]
    BY DEF Init, Ages
  <2>5. pc \in [Runs -> [Threads -> Places]]
    BY DEF Init, Places
  <2>6. /\ timer \subseteq Runs /\ intent \subseteq Runs /\ closing \subseteq Runs
        /\ lock \in (Runs \X Threads) \cup {NoThread}
    BY DEF Init
  <2>7. crashes \in 0..MaxCrashes
    <3>1. 0 \in 0..MaxCrashes
      BY CrashAssumption
    <3>2. crashes = 0
      BY DEF Init
    <3> QED
      BY <3>1, <3>2
  <2> QED
    BY <2>1, <2>2, <2>3, <2>4, <2>5, <2>6, <2>7 DEF TypeOK
<1>2. ASSUME NEW r \in Runs PROVE RunTrue(r)
  BY SaidFields
  DEF Init, RunTrue, StoresTrue, PlacesTrue, RecordTrue, Observed, Over, Threads
<1>3. ASSUME NEW r \in Runs, NEW t \in Threads PROVE HandTrue(r, t)
  BY SaidFields DEF Init, HandTrue, Carrying, Deciding
<1> QED
  BY <1>1, <1>2, <1>3 DEF IndInv

(********************************* theorems ********************************)

\* The strengthened invariant holds of every behaviour: every store, every record
\* and every outcome in a thread's hands is true of the OpenClaw worker.
THEOREM Invariance == Spec => []IndInv
<1>1. IndInv /\ [Next]_vars => IndInv'
  BY IndStep
<1> QED
  BY IndInit, <1>1, PTL DEF Spec

\* Every store and every thread of the engine keeps to its type.
THEOREM TypeCorrect == Spec => []TypeOK
<1>1. IndInv => TypeOK
  BY DEF IndInv
<1> QED
  BY Invariance, <1>1, PTL

\* A record that claims its worker is over (CoreEngine.wait, cancel, mark_user_cancelled,
\* the deadline) tells the truth, but for a FAIL and the two refusals of an unstarted run.
THEOREM NoOrphanCorrect == Spec => []NoOrphan
<1>1. ASSUME IndInv PROVE NoOrphan
  <2>1. ASSUME NEW r \in Runs, Settled(r), worker[r] = "active"
        PROVE  status[r] = "FAIL" \/ Excused(r)
    <3>1. Over(status[r], "active") \/ Excused(r)
      BY <1>1, <2>1 DEF IndInv, RunTrue, RecordTrue
    <3> QED
      BY <2>1, <3>1 DEF Over, Settled, Terminal, Contract!Terminal, Contract!Delivers
  <2> QED
    BY <2>1 DEF NoOrphan
<1> QED
  BY Invariance, <1>1, PTL

\* Whatever races a result, PASS is recorded only for a worker that delivered one.
THEOREM EarnedPassCorrect == Spec => []EarnedPass
<1>1. ASSUME IndInv PROVE EarnedPass
  BY <1>1 DEF IndInv, RunTrue, RecordTrue, Over, Excused, EarnedPass
<1> QED
  BY Invariance, <1>1, PTL

\* Every RUNNING record has an observer, restarts included (resume_observation).
THEOREM ObservedCorrect == Spec => []RunningIsObserved
<1>1. IndInv => RunningIsObserved
  BY DEF IndInv, RunTrue, RunningIsObserved
<1> QED
  BY Invariance, <1>1, PTL

(******************************** refinement *******************************)

\* The steps of the contract, and a step it does not see.
Seen == Contract!Next \/ UNCHANGED Contract!vars

\* Recording a terminal status that is true of the worker is one honest settlement.
LEMMA SettleSeen ==
    ASSUME TypeOK, NEW r \in Runs, NEW s \in Terminal, NEW why \in Contract!Reasons,
           Transition(r, s, why), UNCHANGED worker,
           status[r] = "RUNNING" => Over(s, worker[r])
    PROVE  Seen
<1>1. CASE Legal(status[r], s)
  <2>1. /\ status' = [status EXCEPT ![r] = s]
        /\ reason' = [reason EXCEPT ![r] = why]
    BY <1>1 DEF Transition
  <2>2. /\ status[r] \in {"QUEUED", "RUNNING"}
        /\ Contract!Honest(status[r], s, worker[r])
    BY <1>1 DEF Legal, Contract!Honest, Over, Terminal, Contract!Terminal, Contract!Delivers
  <2>3. Contract!Settle(r)
    BY <2>1, <2>2 DEF Contract!Settle, Terminal
  <2> QED
    BY <2>3 DEF Seen, Contract!Next
<1>2. CASE ~Legal(status[r], s)
  BY <1>2 DEF Transition, Seen, Contract!vars
<1> QED
  BY <1>1, <1>2

\* A worker that moves while the registry does not is a worker step.
LEMMA WorkerSeen ==
    ASSUME TypeOK, NEW r \in Runs, NEW w \in Contract!Endings \cup {"aborted"},
           UNCHANGED <<status, reason>>,
           \/ worker' = worker
           \/ worker[r] = "none" /\ worker' = [worker EXCEPT ![r] = "active"]
           \/ worker[r] = "active" /\ worker' = [worker EXCEPT ![r] = w]
    PROVE  Seen
<1>1. CASE worker' = worker
  BY <1>1 DEF Seen, Contract!vars
<1>2. CASE worker' # worker
  <2>1. Contract!WorkerMoves(r)
    BY <1>2 DEF Contract!WorkerMoves
  <2> QED
    BY <2>1 DEF Seen, Contract!Next
<1> QED
  BY <1>1, <1>2

LEMMA CancelSeen ==
    ASSUME TypeOK, NEW r \in Runs, CancelConfirmed(r) \/ CancelFailed(r),
           UNCHANGED <<status, reason>>
    PROVE  Seen
<1>1. \/ worker' = worker
      \/ worker[r] = "active" /\ worker' = [worker EXCEPT ![r] = "aborted"]
  <2>1. worker = [worker EXCEPT ![r] = worker[r]]
    BY DEF TypeOK
  <2>2. \/ worker' = worker
        \/ worker' = [worker EXCEPT ![r] = worker[r]]
        \/ worker[r] = "active" /\ worker' = [worker EXCEPT ![r] = "aborted"]
    BY DEF CancelConfirmed, CancelFailed
  <2> QED
    BY <2>1, <2>2
<1> QED
  BY <1>1, WorkerSeen

LEMMA StepSeen ==
    ASSUME IndInv, [Next]_vars
    PROVE  Seen
<1>1. TypeOK
  BY DEF IndInv
<1>2. /\ \A r \in Runs : RunTrue(r)
      /\ \A r \in Runs, t \in Threads : HandTrue(r, t)
  BY DEF IndInv
<1>3. UNCHANGED <<status, reason, worker>> => Seen
  BY DEF Seen, Contract!vars
<1>4. ASSUME NEW r \in Runs, DispatchBegin(r) PROVE Seen
  <2>1. CASE status[r] = "none"
    <3>1. Contract!Create(r)
      BY <1>4, <2>1 DEF DispatchBegin, Contract!Create
    <3> QED
      BY <3>1 DEF Seen, Contract!Next
  <2>2. CASE status[r] = "QUEUED"
    <3>1. status' = status
      BY <1>1, <1>4, <2>2 DEF DispatchBegin, TypeOK
    <3> QED
      BY <1>3, <1>4, <3>1 DEF DispatchBegin
  <2> QED
    BY <1>4, <2>1, <2>2 DEF DispatchBegin
<1>5. ASSUME NEW r \in Runs, DispatchDenied(r) PROVE Seen
  <2>1. status[r] # "RUNNING"
    BY <1>2, <1>5 DEF DispatchDenied, RunTrue, PlacesTrue
  <2>2. "BLOCKED" \in Terminal /\ "AUTH" \in Contract!Reasons
    BY DEF Terminal, Contract!Terminal, Contract!Reasons
  <2> QED
    BY <1>1, <1>5, <2>1, <2>2, SettleSeen DEF DispatchDenied
<1>6. ASSUME NEW r \in Runs, DispatchSubmit(r) PROVE Seen
  <2>1. worker = [worker EXCEPT ![r] = worker[r]]
    BY <1>1 DEF TypeOK
  <2>2. \/ worker' = worker
        \/ worker' = [worker EXCEPT ![r] = worker[r]]
        \/ worker[r] = "none" /\ worker' = [worker EXCEPT ![r] = "active"]
    BY <1>6 DEF DispatchSubmit
  <2>3. UNCHANGED <<status, reason>>
    BY <1>6 DEF DispatchSubmit, durable
  <2> QED
    BY <1>1, <2>1, <2>2, <2>3, WorkerSeen
<1>7. ASSUME NEW r \in Runs, DispatchStart(r) PROVE Seen
  <2>1. CASE Legal(status[r], "RUNNING")
    <3>1. status' = [status EXCEPT ![r] = "RUNNING"] /\ worker' = worker
      BY <1>7, <2>1 DEF DispatchStart, Transition
    <3>2. reason' = reason
      BY <1>1, <1>7, <2>1 DEF DispatchStart, Transition, TypeOK
    <3>3. status[r] = "QUEUED" /\ worker[r] # "none"
      BY <1>2, <1>7, <2>1
      DEF DispatchStart, Legal, RunTrue, StoresTrue, PlacesTrue, Terminal, Contract!Terminal
    <3>4. Contract!Start(r)
      BY <3>1, <3>2, <3>3 DEF Contract!Start
    <3> QED
      BY <3>4 DEF Seen, Contract!Next
  <2>2. CASE ~Legal(status[r], "RUNNING")
    BY <1>3, <1>7, <2>2 DEF DispatchStart, Transition
  <2> QED
    BY <2>1, <2>2
<1>8. ASSUME NEW r \in Runs, CancelEnters(r) PROVE Seen
  <2>1. CASE status[r] = "QUEUED" /\ Transition(r, "CANCELLED", "CORE_CANCELLED")
              /\ UNCHANGED worker
    <3>1. "CANCELLED" \in Terminal /\ "CORE_CANCELLED" \in Contract!Reasons
      BY DEF Terminal, Contract!Terminal, Contract!Reasons
    <3> QED
      BY <1>1, <2>1, <3>1, SettleSeen
  <2>2. CASE UNCHANGED <<status, reason>> /\ (CancelConfirmed(r) \/ CancelFailed(r))
    BY <1>1, <2>2, CancelSeen
  <2>3. CASE UNCHANGED <<status, reason, worker>>
    BY <1>3, <2>3
  <2> QED
    BY <1>8, <2>1, <2>2, <2>3 DEF CancelEnters
<1>9. ASSUME NEW r \in Runs, ControlAbort(r) PROVE Seen
  <2>1. \/ worker' = worker
        \/ worker[r] = "active" /\ worker' = [worker EXCEPT ![r] = "aborted"]
    BY <1>9 DEF ControlAbort
  <2>2. UNCHANGED <<status, reason>>
    BY <1>9 DEF ControlAbort, durable
  <2> QED
    BY <1>1, <2>1, <2>2, WorkerSeen
<1>10. ASSUME NEW r \in Runs, ReconcileSettles(r) PROVE Seen
  <2>1. CASE UNCHANGED <<status, reason, worker>>
    BY <1>3, <2>1
  <2>2. CASE /\ out[r]["stop"].status # "RUNNING" /\ UNCHANGED worker
             /\ Transition(r, out[r]["stop"].status, out[r]["stop"].reason)
    <3>1. /\ out[r]["stop"].status \in Terminal
          /\ out[r]["stop"].reason \in Contract!Reasons
      BY <1>1, <2>2, HeardType DEF Threads
    <3>2. Over(out[r]["stop"].status, worker[r])
      BY <1>2, <1>10 DEF ReconcileSettles, HandTrue, Carrying, Threads
    <3> QED
      BY <1>1, <2>2, <3>1, <3>2, SettleSeen
  <2> QED
    BY <1>10, <2>1, <2>2 DEF ReconcileSettles
<1>11. ASSUME NEW r \in Runs, MarkCancelled(r) PROVE Seen
  <2>1. worker[r] \notin {"none", "active"} /\ status[r] # "none"
    BY <1>2, <1>11 DEF MarkCancelled, RunTrue, PlacesTrue, RecordTrue
  <2>2. UNCHANGED worker
    BY <1>11 DEF MarkCancelled
  <2>3. CASE UNCHANGED <<status, reason>>
    BY <1>3, <2>2, <2>3
  <2>4. CASE /\ ~Settled(r)
             /\ status' = [status EXCEPT ![r] = "CANCELLED"]
             /\ reason' = [reason EXCEPT ![r] = "USER_CANCEL"]
    <3>1. status[r] \in {"QUEUED", "RUNNING"}
      BY <1>1, <2>1, <2>4 DEF TypeOK, Settled, Terminal, Contract!Statuses
    <3>2. Contract!Settle(r)
      BY <2>1, <2>2, <2>4, <3>1
      DEF Contract!Settle, Contract!Honest, Contract!Terminal, Contract!Reasons
    <3> QED
      BY <3>2 DEF Seen, Contract!Next
  <2>5. CASE /\ status[r] = "FAIL" /\ reason[r] = "OPENCLAW_ERROR"
             /\ status' = [status EXCEPT ![r] = "CANCELLED"]
             /\ reason' = [reason EXCEPT ![r] = "USER_CANCEL"]
    <3>1. Contract!ReconcileAbort(r)
      BY <2>2, <2>5 DEF Contract!ReconcileAbort
    <3> QED
      BY <3>1 DEF Seen, Contract!Next
  <2> QED
    BY <1>11, <2>3, <2>4, <2>5 DEF MarkCancelled
<1>12. ASSUME NEW r \in Runs, WorkerEnds(r) PROVE Seen
  <2>1. PICK e \in Ends : worker' = [worker EXCEPT ![r] = e]
    BY <1>12 DEF WorkerEnds
  <2>2. worker[r] = "active" /\ UNCHANGED <<status, reason>>
    BY <1>12 DEF WorkerEnds, durable
  <2> QED
    BY <1>1, <2>1, <2>2, WorkerSeen, EndsAssumption
<1>13. ASSUME NEW r \in Runs, NEW t \in Threads, CheckGoal(r, t) PROVE Seen
  <2>1. UNCHANGED worker
    BY <1>13 DEF CheckGoal
  <2>2. CASE UNCHANGED <<status, reason>>
    BY <1>3, <2>1, <2>2
  <2>3. CASE /\ out[r][t].goal = "malformed"
             /\ Transition(r, "BLOCKED", "GOAL_CHECKPOINT_INVALID")
    <3>1. Over("BLOCKED", worker[r])
      BY <1>2, <1>13, <2>3 DEF CheckGoal, HandTrue, Carrying, Over, Contract!Delivers
    <3>2. "BLOCKED" \in Terminal /\ "GOAL_CHECKPOINT_INVALID" \in Contract!Reasons
      BY DEF Terminal, Contract!Terminal, Contract!Reasons
    <3> QED
      BY <1>1, <2>1, <2>3, <3>1, <3>2, SettleSeen
  <2> QED
    BY <1>13, <2>2, <2>3 DEF CheckGoal
<1>14. ASSUME NEW r \in Runs, NEW t \in Threads, CleanupTimeout(r, t) PROVE Seen
  BY <1>1, <1>14, CancelSeen DEF CleanupTimeout
<1>15. ASSUME NEW r \in Runs, NEW t \in Threads, AbortWorker(r, t) PROVE Seen
  BY <1>1, <1>15, CancelSeen DEF AbortWorker
<1>16. ASSUME NEW r \in Runs, NEW t \in Threads, Conclude(r, t) PROVE Seen
  <2>1. out[r][t].status \in Terminal /\ Over(out[r][t].status, worker[r])
    BY <1>2, <1>16 DEF Conclude, HandTrue, Carrying, Deciding
  <2>2. out[r][t].reason \in Contract!Reasons
    BY <1>1, HeardType
  <2> QED
    BY <1>1, <1>16, <2>1, <2>2, SettleSeen DEF Conclude
\* Every other step leaves the registry and the worker alone.
<1>17. ASSUME NEW r \in Runs,
              \/ DispatchBind(r) \/ StartObserver(r) \/ Observing(r) \/ Deadline(r)
              \/ ApiCancel(r)
              \/ StopRequest(r) \/ ReconcileEnters(r) \/ Tick(r)
       PROVE  Seen
  BY <1>3, <1>17
  DEF DispatchBind, StartObserver, Observing, ObserveTop, ApiWait, JudgeWait, ApplyWait,
      Deadline, TimerDue, EnforceDeadline, ApiCancel, StopRequest, ReconcileEnters, Tick, durable
<1>18. ASSUME NEW r \in Runs, NEW t \in Threads, Asking(r, t) \/ JudgeFinal(r, t)
       PROVE  Seen
  BY <1>3, <1>18 DEF Asking, Ask, AskEnded, Probe, Store, JudgeFinal, durable
<1>19. ASSUME Restart \/ UNCHANGED vars PROVE Seen
  BY <1>3, <1>19 DEF Restart, vars, durable
<1> QED
  BY <1>4, <1>5, <1>6, <1>7, <1>8, <1>9, <1>10, <1>11, <1>12, <1>13, <1>14, <1>15, <1>16,
     <1>17, <1>18, <1>19
  DEF Next, Dispatching, Settling, Cancelling, Stopping

\* CoreEngine implements RunContract: a run is admitted, started and settled once, on a
\* verdict its worker justifies, and only an abort race rewrites a settled record.
THEOREM ImplementsContract == Spec => ContractSpec
<1>1. Init => Contract!Init
  BY DEF Init, Contract!Init
<1>2. IndInv /\ [Next]_vars => [Contract!Next]_(Contract!vars)
  BY StepSeen DEF Seen
<1> QED
  BY Invariance, <1>1, <1>2, PTL DEF Spec, ContractSpec, Contract!Spec

(***************************** the goal check ******************************)

\* An action concerns one run and one thread of it; any other thread stays where it is,
\* or is not about to use an outcome.
Quiet(q, u) == \/ pc'[q][u] \notin Carrying
               \/ pc'[q][u] = pc[q][u] /\ out'[q][u] = out[q][u]
WorkerOf(q) == worker'[q] = worker[q] \/ Forward(q)
StoresOf(q) == binding'[q] = binding[q] /\ saved'[q] = saved[q]

\* An answer of a worker that is over stays its answer.
LEMMA AnswerStays ==
    ASSUME NEW q \in Runs, WorkerOf(q), NEW o \in Answers(worker[q])
    PROVE  o \in Answers(worker'[q])
<1>1. Answers("none") = {} /\ Answers("active") = {}
  BY DEF Answers
<1> QED
  BY <1>1 DEF WorkerOf, Forward

\* The run and the thread an action concerns are all it has to answer for.
LEMMA GoalFrame ==
    ASSUME GoalInv, NEW r \in Runs, NEW t \in Threads,
           \A q \in Runs : WorkerOf(q),
           \A q \in Runs : q # r => StoresOf(q),
           \A q \in Runs, u \in Threads : q # r \/ u # t => Quiet(q, u),
           StoresOf(r) \/ StoreGoal(r)',
           Quiet(r, t) \/ HandGoal(r, t)'
    PROVE  GoalInv'
<1>1. ASSUME NEW q \in Runs PROVE StoreGoal(q)'
  <2>1. CASE StoresOf(q)
    <3>1. StoreGoal(q)
      BY DEF GoalInv
    <3> QED
      BY <2>1, <3>1, AnswerStays DEF StoresOf, StoreGoal
  <2> QED
    BY <2>1
<1>2. ASSUME NEW q \in Runs, NEW u \in Threads PROVE HandGoal(q, u)'
  <2>1. CASE Quiet(q, u)
    <3>1. HandGoal(q, u)
      BY DEF GoalInv
    <3>2. CASE pc'[q][u] \notin Carrying
      BY <3>2 DEF HandGoal, Carrying
    <3>3. CASE pc'[q][u] = pc[q][u] /\ out'[q][u] = out[q][u]
      BY <3>1, <3>3, AnswerStays DEF HandGoal
    <3> QED
      BY <2>1, <3>2, <3>3 DEF Quiet
  <2> QED
    BY <2>1
<1> QED
  BY <1>1, <1>2 DEF GoalInv

\* What the engine makes up itself is not a validator's outcome.
LEMMA MadeUp ==
    /\ NoOutcome.status = "RUNNING" /\ ~Validated(NoOutcome)
    /\ TimeUp.status = "CANCELLED" /\ TimeUp.goal = "ok"
    /\ \A s, why : Say(s, why).status = s /\ Say(s, why).goal = "ok"
    /\ \A s : ~Validated(Say(s, "OPENCLAW_CONTRACT"))
    /\ \A s : ~Validated(Say(s, "OPENCLAW_TERMINAL_TIMEOUT"))
    /\ \A s : ~Validated(Say(s, "OPENCLAW_TIMEOUT"))
    /\ \A goal : Validated(Passed(goal))
BY DEF NoOutcome, TimeUp, Say, Passed, Validated

\* A PASS among the answers is a validated one.
LEMMA PassIsValidated ==
    ASSUME NEW w, NEW o \in Answers(w), o.status = "PASS", w \in Contract!Workers
    PROVE  Validated(o) /\ (o.goal \in {"ok", "progress"} => w \in {"pass", "progress"})
<1>1. CASE w \in {"pass", "progress", "drift", "malformed"}
  BY <1>1 DEF Answers, Passed, Validated
<1>2. CASE w \notin {"pass", "progress", "drift", "malformed"}
  BY <1>2 DEF Answers, Say
<1> QED
  BY <1>1, <1>2

\* The actions of a thread that neither asks, stores nor decides.
LEMMA GoalQuiet ==
    ASSUME TypeOK, GoalInv, NEW r \in Runs, NEW t \in Threads,
           \A q \in Runs : WorkerOf(q), UNCHANGED <<binding, saved>>,
           \A q \in Runs, u \in Threads : Quiet(q, u)
    PROVE  GoalInv'
BY GoalFrame DEF StoresOf

\* The requests, the deadline, the stop, the worker, the clock and the restart hand
\* nobody an outcome to use.
LEMMA GoalElsewhere ==
    ASSUME IndInv, GoalInv, NEW r \in Runs,
           \/ DispatchBegin(r) \/ DispatchDenied(r) \/ DispatchStart(r)
           \/ StartObserver(r) \/ ObserveTop(r) \/ ApiWait(r) \/ Deadline(r) \/ ApiCancel(r)
           \/ Stopping(r) \/ WorkerEnds(r) \/ Tick(r)
    PROVE  GoalInv'
<1>0. TypeOK
  BY DEF IndInv
<1>1. UNCHANGED <<binding, saved>>
  BY DEF DispatchBegin, DispatchDenied, DispatchStart, StartObserver, ObserveTop, ApiWait,
         Deadline, TimerDue, EnforceDeadline, ApiCancel, Stopping, StopRequest, ControlAbort, ReconcileEnters,
         ReconcileSettles, MarkCancelled, WorkerEnds, Tick, durable
<1>2. \A q \in Runs : WorkerOf(q)
  <2>1. CASE WorkerEnds(r)
    <3>1. PICK e \in Ends : worker' = [worker EXCEPT ![r] = e]
      BY <2>1 DEF WorkerEnds
    <3>2. e \notin {"none", "active"} /\ worker[r] = "active"
      BY <2>1, EndsAssumption DEF WorkerEnds, Contract!Endings
    <3> QED
      BY <1>0, <3>1, <3>2, Updates DEF WorkerOf, Forward
  <2>2. CASE ControlAbort(r)
    <3>1. \/ worker' = worker
          \/ worker[r] = "active" /\ worker' = [worker EXCEPT ![r] = "aborted"]
      BY <2>2 DEF ControlAbort
    <3> QED
      BY <1>0, <3>1, Updates DEF WorkerOf, Forward
  <2>3. CASE UNCHANGED worker
    BY <2>3 DEF WorkerOf
  <2> QED
    BY <2>1, <2>2, <2>3
    DEF DispatchBegin, DispatchDenied, DispatchStart, StartObserver, ObserveTop, ApiWait,
        Deadline, TimerDue, EnforceDeadline, ApiCancel, Stopping, StopRequest, ReconcileEnters,
        ReconcileSettles, MarkCancelled, Tick
<1>3. ASSUME NEW q \in Runs, NEW u \in Threads PROVE Quiet(q, u)
  <2>1. CASE DispatchBegin(r) \/ DispatchDenied(r)
    BY <1>0, <2>1, Moves DEF DispatchBegin, DispatchDenied, Quiet, Carrying, Home, Threads
  <2>2. CASE DispatchStart(r) \/ ObserveTop(r)
    BY <1>0, <2>2, Moves DEF DispatchStart, ObserveTop, Quiet, Carrying, Threads
  <2>3. CASE StartObserver(r) \/ ApiWait(r)
    BY <1>0, <2>3, StartsFacts DEF StartObserver, ApiWait, Quiet, Carrying, Threads
  <2>4. CASE Deadline(r)
    BY <1>0, <2>4, Moves
    DEF Deadline, TimerDue, EnforceDeadline, Quiet, Carrying, Home, Threads
  <2>5. CASE ApiCancel(r) \/ StopRequest(r) \/ ControlAbort(r)
    BY <1>0, <2>5, Moves DEF ApiCancel, StopRequest, ControlAbort, Quiet, Carrying, Threads
  <2>6. CASE ReconcileEnters(r) \/ ReconcileSettles(r) \/ MarkCancelled(r)
    BY <1>0, <2>6, Moves
    DEF ReconcileEnters, ReconcileSettles, MarkCancelled, Quiet, Carrying, Threads
  <2>7. CASE WorkerEnds(r) \/ Tick(r)
    BY <2>7 DEF WorkerEnds, Tick, volatile, Quiet
  <2> QED
    BY <2>1, <2>2, <2>3, <2>4, <2>5, <2>6, <2>7 DEF Stopping
<1> QED
  BY <1>0, <1>1, <1>2, <1>3, GoalQuiet DEF Threads

\* The abort leaves the binding CANCELLED or as it was, and the saved outcome alone.
LEMMA GoalAborts ==
    ASSUME TypeOK, GoalInv, NEW r \in Runs, CancelConfirmed(r) \/ CancelFailed(r),
           saved' = saved
    PROVE  /\ \A q \in Runs : WorkerOf(q)
           /\ \A q \in Runs : q # r => StoresOf(q)
           /\ StoreGoal(r)'
<1>1. \A q \in Runs : WorkerOf(q)
  BY CancelFacts DEF WorkerOf, Forward
<1>2. \A q \in Runs : q # r => StoresOf(q)
  BY CancelFacts DEF StoresOf
<1>3. binding'[r] = "CANCELLED" \/ binding'[r] = binding[r]
  BY CancelFacts
<1>4. StoreGoal(r) /\ \A o \in Answers(worker[r]) : o \in Answers(worker'[r])
  BY <1>1, AnswerStays DEF GoalInv
<1> QED
  BY <1>1, <1>2, <1>3, <1>4 DEF StoreGoal

\* The dispatcher records the binding of a run that has none, and a refusal of its own.
LEMMA GoalDispatch ==
    ASSUME IndInv, GoalInv, NEW r \in Runs, DispatchSubmit(r) \/ DispatchBind(r)
    PROVE  GoalInv'
<1>1. TypeOK
  BY DEF IndInv
<1>2. "disp" \in Threads
  BY DEF Threads
<1>3. CASE DispatchSubmit(r)
  <2>1. \/ worker' = worker
        \/ worker[r] = "none" /\ worker' = [worker EXCEPT ![r] = "active"]
        \/ worker' = [worker EXCEPT ![r] = worker[r]]
    BY <1>3 DEF DispatchSubmit
  <2>2. \A q \in Runs : WorkerOf(q)
    BY <1>1, <2>1, Updates DEF WorkerOf, Forward
  <2>3. \A q \in Runs : StoresOf(q)
    BY <1>3 DEF DispatchSubmit, durable, StoresOf
  <2>4. \A q \in Runs, u \in Threads : q # r \/ u # "disp" => Quiet(q, u)
    BY <1>1, <1>2, <1>3, Moves DEF DispatchSubmit, Quiet
  <2>5. Quiet(r, "disp") \/ HandGoal(r, "disp")'
    <3>1. CASE Go(r, "disp", "start") \/ Go(r, "disp", "bind")
      BY <1>1, <1>2, <3>1, Moves DEF Quiet, Carrying
    <3>2. CASE \E why : Hear(r, "disp", Say("FAIL", why)) /\ Go(r, "disp", "conclude")
      BY <1>1, <1>2, <3>2, Moves, MadeUp DEF HandGoal
    <3> QED
      BY <1>3, <3>1, <3>2 DEF DispatchSubmit
  <2> QED
    BY <1>2, <2>2, <2>3, <2>4, <2>5, GoalFrame
<1>4. CASE DispatchBind(r)
  <2>1. /\ \A q \in Runs : WorkerOf(q)
        /\ \A q \in Runs : q # r => StoresOf(q)
    BY <1>1, <1>4, Updates DEF DispatchBind, WorkerOf, StoresOf
  <2>2. binding'[r] = "RUNNING" /\ worker'[r] = worker[r] /\ saved'[r] = saved[r]
    BY <1>1, <1>4, Updates DEF DispatchBind
  <2>3. StoreGoal(r)'
    BY <2>2 DEF GoalInv, StoreGoal
  <2>4. \A q \in Runs, u \in Threads : Quiet(q, u)
    BY <1>1, <1>2, <1>4, Moves DEF DispatchBind, Quiet, Carrying
  <2> QED
    BY <1>2, <2>1, <2>3, <2>4, GoalFrame
<1> QED
  BY <1>3, <1>4

\* What adapter.wait answers is the worker's own answer, the saved one, or no PASS.
LEMMA GoalAsks ==
    ASSUME IndInv, GoalInv, NEW r \in Runs, NEW t \in Threads,
           Ask(r, t) \/ AskEnded(r, t) \/ Probe(r, t)
    PROVE  GoalInv'
<1>1. TypeOK /\ StoreGoal(r)
  BY DEF IndInv, GoalInv
<1>2. UNCHANGED <<worker, binding, saved>>
  BY DEF Ask, AskEnded, Probe, durable
<1>3. \A q \in Runs : WorkerOf(q) /\ StoresOf(q)
  BY <1>2 DEF WorkerOf, StoresOf
<1>4. \A q \in Runs, u \in Threads : q # r \/ u # t => Quiet(q, u)
  BY <1>1, Moves DEF Ask, AskEnded, Probe, Quiet
<1>5. CASE Ask(r, t)
  <2>1. Quiet(r, t) \/ HandGoal(r, t)'
    <3>1. CASE Hear(r, t, Rejected(r, t)) /\ Go(r, t, "heard")
      <4>1. Rejected(r, t).status # "PASS"
        BY MadeUp DEF Rejected
      <4> QED
        BY <1>1, <3>1, <4>1, Moves DEF HandGoal
    <3>2. CASE Hear(r, t, NoOutcome) /\ (Go(r, t, "heard") \/ Go(r, t, "store"))
      BY <1>1, <3>2, Moves, MadeUp DEF HandGoal
    <3>3. CASE Hear(r, t, Say("FAIL", "OPENCLAW_CONTRACT")) /\ Go(r, t, "store")
      BY <1>1, <3>3, Moves, MadeUp DEF HandGoal
    <3>4. CASE Hear(r, t, Replay(r)) /\ Go(r, t, "heard")
      <4>1. Replay(r).status = "PASS" => Replay(r) \in Answers(worker[r])
        BY <1>1, MadeUp DEF Replay, StoreGoal
      <4> QED
        BY <1>1, <1>2, <3>4, <4>1, Moves DEF HandGoal
    <3>5. CASE Go(r, t, "probe")
      BY <1>1, <3>5, Moves DEF Quiet, Carrying
    <3> QED
      BY <1>5, <3>1, <3>2, <3>3, <3>4, <3>5 DEF Ask
  <2> QED
    BY <1>3, <1>4, <2>1, GoalFrame
<1>6. CASE AskEnded(r, t)
  <2>1. PICK o \in Answers(worker[r]) : Hear(r, t, o)
    BY <1>6 DEF AskEnded
  <2>2. HandGoal(r, t)'
    BY <1>1, <1>2, <1>6, <2>1, Moves DEF AskEnded, HandGoal
  <2> QED
    BY <1>3, <1>4, <2>2, GoalFrame
<1>7. CASE Probe(r, t)
  <2>1. HandGoal(r, t)'
    BY <1>1, <1>7, Moves, MadeUp DEF Probe, WindowOver, HandGoal
  <2> QED
    BY <1>3, <1>4, <2>1, GoalFrame
<1> QED
  BY <1>5, <1>6, <1>7

\* Binding and saved outcome are written together, so that a PASS always leaves both.
LEMMA GoalStores ==
    ASSUME IndInv, GoalInv, NEW r \in Runs, NEW t \in Threads, Store(r, t)
    PROVE  GoalInv'
<1>1. TypeOK /\ StoreGoal(r) /\ HandGoal(r, t) /\ worker[r] \in Contract!Workers
  BY DEF IndInv, GoalInv, TypeOK
<1>2. pc[r][t] = "store" /\ worker' = worker /\ out' = out
  BY DEF Store
<1>3. pc'[r][t] = "heard"
  BY <1>1, Moves DEF Store
<1>4. \A q \in Runs, u \in Threads : q # r \/ u # t => Quiet(q, u)
  BY <1>1, <1>2, Moves DEF Store, Quiet
<1>5. \A q \in Runs : q # r => StoresOf(q)
  BY <1>1, Updates DEF Store, StoresOf
<1>6. /\ binding'[r] = out[r][t].status
      /\ Validated(out[r][t]) => saved'[r] = out[r][t]
      /\ ~Validated(out[r][t]) => saved'[r] = saved[r]
  <2>1. binding'[r] = out[r][t].status
    BY <1>1 DEF Store, TypeOK
  <2>2. Validated(out[r][t]) => saved' = [saved EXCEPT ![r] = out[r][t]]
    BY DEF Store
  <2>3. ~Validated(out[r][t]) => saved' = saved
    BY DEF Store
  <2> QED
    BY <1>1, <2>1, <2>2, <2>3, Updates
<1>7. out[r][t].status = "PASS" => Validated(out[r][t])
  BY <1>1, <1>2, PassIsValidated DEF HandGoal, Carrying
<1>8. StoreGoal(r)'
  BY <1>1, <1>2, <1>6, <1>7 DEF StoreGoal, HandGoal
<1>9. HandGoal(r, t)'
  BY <1>1, <1>2, <1>3 DEF HandGoal, Carrying
<1> QED
  BY <1>2, <1>4, <1>5, <1>8, <1>9, GoalFrame DEF WorkerOf

\* Whoever goes on with an outcome in hand keeps it as it heard it; only a good checkpoint
\* goes straight to the end, and what the engine decides itself is no PASS.
LEMMA GoalJudges ==
    ASSUME IndInv, GoalInv, NEW r \in Runs, NEW t \in Threads,
           \/ JudgeFinal(r, t)
           \/ t = "obs" /\ (JudgeWait(r) \/ ApplyWait(r))
    PROVE  GoalInv'
<1>1. TypeOK /\ HandGoal(r, t) /\ HandTrue(r, t)
  BY DEF IndInv, GoalInv
<1>2. UNCHANGED <<worker, binding, saved>>
  BY DEF JudgeFinal, JudgeWait, ApplyWait, durable
<1>3. \A q \in Runs, u \in Threads : q # r \/ u # t => Quiet(q, u)
  BY <1>1, Moves DEF JudgeFinal, JudgeWait, ApplyWait, Quiet
<1>4. Quiet(r, t) \/ HandGoal(r, t)'
  <2>1. CASE Leave(r, t) \/ Go(r, t, "abort") \/ Go(r, t, "ask")
    BY <1>1, <2>1, Moves DEF Quiet, Carrying, Home
  <2>2. CASE /\ pc[r][t] \in {"heard", "apply"} /\ UNCHANGED out
             /\ Go(r, t, "apply") \/ Go(r, t, Disposal(out[r][t]))
    <3>1. \/ pc'[r][t] \in {"apply", "goal"}
          \/ pc'[r][t] = "cleanup" /\ out[r][t].status = "TIMEOUT"
          \/ /\ pc'[r][t] = "conclude"
             /\ out[r][t].status = "TIMEOUT" \/ out[r][t].goal = "ok"
      BY <1>1, <2>2, Moves DEF Disposal
    <3>2. out[r][t].status = "TIMEOUT" => out[r][t].goal = "ok"
      BY <1>1 DEF HandTrue
    <3> QED
      BY <1>1, <1>2, <2>2, <3>1, <3>2 DEF HandGoal, Carrying
  <2> QED
    BY <2>1, <2>2 DEF JudgeFinal, JudgeWait, ApplyWait
<1> QED
  BY <1>2, <1>3, <1>4, GoalFrame DEF WorkerOf, StoresOf

\* Settling, with or without an abort.
LEMMA GoalSettles ==
    ASSUME IndInv, GoalInv, NEW r \in Runs, NEW t \in Threads,
           \/ CheckGoal(r, t) \/ CleanupTimeout(r, t) \/ AbortWorker(r, t) \/ Conclude(r, t)
           \/ t = "api" /\ CancelEnters(r)
    PROVE  GoalInv'
<1>1. TypeOK /\ HandGoal(r, t) /\ HandTrue(r, t)
  BY DEF IndInv, GoalInv
<1>2. /\ \A q \in Runs : WorkerOf(q)
      /\ \A q \in Runs : q # r => StoresOf(q)
      /\ StoresOf(r) \/ StoreGoal(r)'
  <2>1. CASE (CancelConfirmed(r) \/ CancelFailed(r)) /\ saved' = saved
    BY <1>1, <2>1, GoalAborts
  <2>2. CASE UNCHANGED <<worker, binding, saved>>
    BY <2>2 DEF WorkerOf, StoresOf
  <2> QED
    BY <2>1, <2>2 DEF CheckGoal, CleanupTimeout, AbortWorker, Conclude, CancelEnters
<1>3. \A q \in Runs, u \in Threads : q # r \/ u # t => Quiet(q, u)
  BY <1>1, Moves DEF CheckGoal, CleanupTimeout, AbortWorker, Conclude, CancelEnters, Quiet
<1>4. Quiet(r, t) \/ HandGoal(r, t)'
  <2>1. CASE Leave(r, t) \/ Go(r, t, "abort")
    BY <1>1, <2>1, Moves DEF Quiet, Carrying, Home
  <2>2. CASE CleanupTimeout(r, t)
    <3>1. out[r][t].status = "TIMEOUT" /\ out[r][t].goal = "ok"
      BY <1>1, <2>2 DEF CleanupTimeout, HandGoal, HandTrue
    <3>2. pc'[r][t] = "conclude" /\ out' = out
      BY <1>1, <2>2, Moves DEF CleanupTimeout
    <3> QED
      BY <3>1, <3>2 DEF HandGoal
  <2>3. CASE AbortWorker(r, t) /\ Go(r, t, "conclude")
    <3>1. pc'[r][t] = "conclude"
      BY <1>1, <2>3, Moves
    <3>2. \/ out' = out
          \/ Hear(r, t, Say("FAIL", "POLICY_ABORT_FAILED"))
          \/ Leave(r, t)
      BY <2>3 DEF AbortWorker
    <3>3. CASE out' = out
      <4>1. out[r][t].status = "CANCELLED" /\ out[r][t].goal = "ok"
        BY <1>1, <2>3 DEF AbortWorker, HandTrue
      <4> QED
        BY <3>1, <3>3, <4>1 DEF HandGoal
    <3>4. CASE Hear(r, t, Say("FAIL", "POLICY_ABORT_FAILED"))
      BY <1>1, <3>1, <3>4, Moves, MadeUp DEF HandGoal
    <3>5. CASE Leave(r, t)
      BY <1>1, <3>5, Moves DEF Quiet, Carrying, Home
    <3> QED
      BY <3>2, <3>3, <3>4, <3>5
  <2>4. CASE CheckGoal(r, t) /\ Go(r, t, "conclude") /\ UNCHANGED out
             /\ NextCheck(out[r][t].goal, drift[r]) = 1
    <3>1. out[r][t].goal = "progress" /\ pc[r][t] = "goal"
      BY <2>4 DEF CheckGoal, NextCheck
    <3>2. pc'[r][t] = "conclude" /\ worker' = worker
      BY <1>1, <2>4, Moves DEF CheckGoal
    <3> QED
      BY <1>1, <2>4, <3>1, <3>2 DEF HandGoal, Carrying
  <2> QED
    BY <2>1, <2>2, <2>3, <2>4 DEF CheckGoal, AbortWorker, Conclude, CancelEnters
<1> QED
  BY <1>2, <1>3, <1>4, GoalFrame

\* Every step of every thread, and a restart, which leaves the stores.
LEMMA GoalStep ==
    ASSUME IndInv, GoalInv, [Next]_vars
    PROVE  GoalInv'
<1>1. ASSUME NEW r \in Runs, Dispatching(r) PROVE GoalInv'
  BY <1>1, GoalElsewhere, GoalDispatch DEF Dispatching
<1>2. ASSUME NEW r \in Runs, Observing(r) PROVE GoalInv'
  BY <1>2, GoalElsewhere, GoalJudges DEF Observing, Threads
<1>3. ASSUME NEW r \in Runs, Cancelling(r) PROVE GoalInv'
  BY <1>3, GoalElsewhere, GoalSettles DEF Cancelling, Threads
<1>4. ASSUME NEW r \in Runs, Deadline(r) \/ Stopping(r) \/ WorkerEnds(r) \/ Tick(r)
      PROVE  GoalInv'
  BY <1>4, GoalElsewhere
<1>5. ASSUME NEW r \in Runs, NEW t \in Threads, Asking(r, t) PROVE GoalInv'
  BY <1>5, GoalAsks, GoalStores DEF Asking
<1>6. ASSUME NEW r \in Runs, NEW t \in Threads, Settling(r, t) PROVE GoalInv'
  BY <1>6, GoalJudges, GoalSettles DEF Settling
<1>7. ASSUME Restart \/ UNCHANGED vars PROVE GoalInv'
  <2>1. UNCHANGED <<worker, binding, saved>>
    BY <1>7 DEF Restart, vars, durable
  <2>2. ASSUME NEW q \in Runs, NEW u \in Threads PROVE HandGoal(q, u)'
    <3>1. CASE Restart
      <4>1. pc'[q][u] \in {"top", "off"}
        BY <3>1 DEF Restart
      <4> QED
        BY <4>1 DEF HandGoal, Carrying
    <3>2. CASE UNCHANGED vars
      BY <2>1, <3>2 DEF vars, volatile, GoalInv, HandGoal
    <3> QED
      BY <1>7, <3>1, <3>2
  <2>3. ASSUME NEW q \in Runs PROVE StoreGoal(q)'
    BY <2>1 DEF GoalInv, StoreGoal
  <2> QED
    BY <2>2, <2>3 DEF GoalInv
<1> QED
  BY <1>1, <1>2, <1>3, <1>4, <1>5, <1>6, <1>7 DEF Next

\* What a step records as PASS although the worker did not simply pass was recorded by
\* the stop.
LEMMA GateStep ==
    ASSUME IndInv, GoalInv, [Next]_vars, NEW q \in Runs,
           status[q] # "PASS", status'[q] = "PASS", worker[q] \notin {"pass", "progress"}
    PROVE  pc[q]["stop"] = "heard"
<1>1. TypeOK
  BY DEF IndInv
<1>2. status'[q] # status[q]
  OBVIOUS
<1>3. ASSUME NEW r \in Runs, NEW t \in Threads, Conclude(r, t) PROVE FALSE
  <2>1. q = r /\ out[r][t].status = "PASS" /\ pc[r][t] = "conclude"
    BY <1>1, <1>2, <1>3, TransitionFacts DEF Conclude
  <2>2. out[r][t] \in Answers(worker[r]) /\ out[r][t].goal \in {"ok", "progress"}
    BY <2>1 DEF GoalInv, HandGoal, Carrying
  <2>3. worker[r] \in Contract!Workers
    BY <1>1 DEF TypeOK
  <2> QED
    BY <2>1, <2>2, <2>3, PassIsValidated
<1>4. ASSUME NEW r \in Runs, NEW t \in Threads, CheckGoal(r, t) PROVE FALSE
  BY <1>1, <1>2, <1>4, TransitionFacts DEF CheckGoal
<1>5. ASSUME NEW r \in Runs, DispatchDenied(r) \/ DispatchStart(r) \/ CancelEnters(r)
      PROVE  FALSE
  BY <1>1, <1>2, <1>5, TransitionFacts DEF DispatchDenied, DispatchStart, CancelEnters
<1>6. ASSUME NEW r \in Runs, DispatchBegin(r) \/ MarkCancelled(r) PROVE FALSE
  BY <1>1, <1>2, <1>6, Updates DEF DispatchBegin, MarkCancelled
<1>7. ASSUME NEW r \in Runs, ReconcileSettles(r) PROVE pc[q]["stop"] = "heard"
  BY <1>1, <1>2, <1>7, TransitionFacts DEF ReconcileSettles
<1>8. ASSUME UNCHANGED status PROVE FALSE
  BY <1>2, <1>8
<1>9. ASSUME NEW r \in Runs, \/ Dispatching(r) \/ Observing(r) \/ Deadline(r)
                             \/ Cancelling(r) \/ Stopping(r) \/ WorkerEnds(r) \/ Tick(r)
      PROVE  pc[q]["stop"] = "heard"
  BY <1>5, <1>6, <1>7, <1>8, <1>9
  DEF Dispatching, DispatchSubmit, DispatchBind, StartObserver, Observing, ObserveTop, ApiWait, JudgeWait,
      ApplyWait, Deadline, TimerDue, EnforceDeadline, Cancelling, ApiCancel, Stopping,
      StopRequest, ControlAbort, ReconcileEnters, WorkerEnds, Tick, durable
<1>10. ASSUME NEW r \in Runs, NEW t \in Threads, Asking(r, t) \/ Settling(r, t)
       PROVE  FALSE
  BY <1>3, <1>4, <1>8, <1>10
  DEF Asking, Ask, AskEnded, Probe, Store, Settling, JudgeFinal, CleanupTimeout, AbortWorker,
      durable
<1> QED
  BY <1>8, <1>9, <1>10 DEF Next, Restart, vars, durable

\* The goal check of _apply_adapter_outcome cannot be bypassed by the engine itself: whatever
\* observer, timer and restarts do with an answer they heard or saved, a run whose worker
\* ended with a drifting or malformed checkpoint is passed only by the stop that reconciles it.
THEOREM GoalGateCorrect == Spec => GoalGate
<1>1. Init => GoalInv
  <2> SUFFICES ASSUME Init PROVE GoalInv
    OBVIOUS
  <2>1. \A r \in Runs : StoreGoal(r)
    BY DEF Init, StoreGoal
  <2>2. \A r \in Runs, t \in Threads : HandGoal(r, t)
    BY DEF Init, HandGoal, Carrying
  <2> QED
    BY <2>1, <2>2 DEF GoalInv
<1>2. IndInv /\ GoalInv /\ [Next]_vars => GoalInv'
  BY GoalStep
<1>3. IndInv /\ GoalInv /\ [Next]_vars =>
         [\A r \in Runs :
             status[r] # "PASS" /\ status'[r] = "PASS" /\ worker[r] \notin {"pass", "progress"}
                => pc[r]["stop"] = "heard"]_vars
  BY GateStep
<1> QED
  BY Invariance, <1>1, <1>2, <1>3, PTL DEF Spec, GoalGate
================================================================================
