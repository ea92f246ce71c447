------------------------------- MODULE RunRecovery -------------------------------
(***************************************************************************)
(* fast_gateway_service.py (PersistentExecutionHarness and the watchdog    *)
(* callback of get_persistent_harness) with the layers that hang on it:    *)
(* plachem_fast_gateway/recovery_layer.py and jev_session_watchdog.py.     *)
(*                                                                         *)
(* Three kinds of thread meet here: one observer per run, the callers of   *)
(* the HTTP API and the JEV judgment pool.  They share three locks: the    *)
(* harness lock (reentrant), CoreEngine._lock and the observation lock of  *)
(* each run (not reentrant).  A thread is a list of calls still to make,   *)
(* the current one first; a call that makes others puts them in its place. *)
(***************************************************************************)
EXTENDS Naturals, Sequences, FiniteSets

CONSTANTS
    Sources,        \* ids of the direct runs callers dispatch
    Children,       \* fresh ids; bounds how many recovery runs there can be
    Ends,           \* what a bounded adapter.wait may bring besides "still running"
    Drifters,       \* runs whose result may carry a drifted checkpoint
    DispatchEnds,   \* what CoreEngine.dispatch may make of a new record
    Window,         \* RunRegistry.recent(200): how many created runs are scanned
    MaxDispatches,  \* MAX_RECOVERY_DISPATCH_ATTEMPTS
    MaxCrashes      \* bound on process restarts

Runs     == Sources \cup Children
Threads  == Runs \cup {"api", "jev"}     \* the observer of run r is thread r
None     == "none"
Terminal == {"PASS", "FAIL", "UNFIT", "DENIED", "BLOCKED", "CANCELLED"}
    \* UNFIT: FAIL of a class that is not recoverable.  DENIED: blocked by
    \* authorization before the worker started, BLOCKED: any other block.
Statuses == {None, "RUNNING"} \cup Terminal
Modes    == {"requeue", "auto"}

ASSUME EndsAssumption     == /\ Ends \subseteq Terminal \ {"DENIED"} /\ Drifters \subseteq Runs
                             /\ DispatchEnds \subseteq {"RUNNING", "FAIL", "DENIED", "BLOCKED"}
ASSUME NamesAssumption    == Sources \cap Children = {} /\ Runs \cap {"api", "jev", None} = {}
ASSUME BoundsAssumption   == Window \in Nat /\ MaxDispatches \in Nat /\ MaxCrashes \in Nat

VARIABLES
    status,      \* the run registry: latest status of each record
    account,     \* policy_state.goal: whose child the record says it is
    managed,     \* watchdog_managed, fixed when the record is created
    escalated,   \* runs marked WATCHDOG_REQUEUE_REQUIRED
    order,       \* created runs, oldest first
    confirming,  \* live runs whose last JEV history entry asks to confirm a restart
    calls,       \* per thread: the calls still to make
    hand,        \* per thread: the record or outcome last returned to it
    harness,     \* owner of PersistentExecutionHarness._lock
    engine,      \* owner of CoreEngine._lock
    observing,   \* owner of each run's observation lock
    started,     \* runs whose controller has started its observer
    intents,     \* pending user cancel intents of live runs (no one reads the others)
    restored,    \* _restored_runs
    jobs,        \* _watchdog_jobs of live runs waiting for the judgment pool
    mode,        \* how the watchdog recovery is configured, fixed
    origin,      \* history: for which run each child was dispatched
    stillborn,   \* history: children that were terminal when dispatch returned
    lost,        \* history: children whose accounting was lost or overwritten
    crashes

durable  == <<status, account, managed, escalated, order, confirming>>
locks    == <<harness, engine, observing>>
volatile == <<calls, hand, locks, started, intents, restored, jobs>>
ghosts   == <<origin, stillborn, lost>>
vars     == <<durable, volatile, mode, ghosts, crashes>>

NoAccount == [kind |-> None, of |-> None, ran |-> FALSE]
Accounts  == [kind : {None, "recovery", "watchdog"}, of : Runs \cup {None}, ran : BOOLEAN]
Records   == [run : Runs \cup {None}, status : Statuses \cup {"DRIFT"}, account : Accounts,
              escalated : BOOLEAN]
NoRecord  == [run |-> None, status |-> None, account |-> NoAccount, escalated |-> FALSE]
Ops == {"dispatch", "record", "note", "await", "enter", "guard", "apply", "final", "merge",
        "leave", "recover", "account", "abort", "judge", "restart", "waccount"}
Calls == [op : Ops, run : Runs, with : Statuses \cup Runs \cup {"first", "safe", "unsafe", "own", "found"}]

Call(op, r)       == [op |-> op, run |-> r, with |-> None]
CallWith(op, r, w) == [op |-> op, run |-> r, with |-> w]

TypeOK ==
    /\ status \in [Runs -> Statuses]
    /\ account \in [Runs -> Accounts]
    /\ managed \subseteq Runs /\ escalated \subseteq Runs
    /\ order \in Seq(Runs)
    /\ confirming \subseteq Runs
    /\ calls \in [Threads -> Seq(Calls)]
    /\ hand \in [Threads -> Records]
    /\ harness \in Threads \cup {None}
    /\ engine \in Threads \cup {None}
    /\ observing \in [Runs -> Threads \cup {None}]
    /\ started \subseteq Runs /\ intents \subseteq Runs /\ restored \subseteq Runs
    /\ jobs \subseteq Runs
    /\ mode \in Modes
    /\ origin \in [Runs -> Runs \cup {None}]
    /\ stillborn \subseteq Children /\ lost \subseteq Children
    /\ crashes \in 0..MaxCrashes

Init ==
    /\ status = [r \in Runs |-> None]
    /\ account = [r \in Runs |-> NoAccount]
    /\ managed \in SUBSET Sources
    /\ escalated = {} /\ order = <<>>
    /\ confirming = {}
    /\ calls = [t \in Threads |-> <<>>]
    /\ hand = [t \in Threads |-> NoRecord]
    /\ harness = None /\ engine = None
    /\ observing = [r \in Runs |-> None]
    /\ started = {} /\ intents = {} /\ restored = {} /\ jobs = {}
    /\ mode \in IF managed = {} THEN {"requeue"} ELSE Modes   \* only managed runs read it
    /\ origin = [r \in Runs |-> None]
    /\ stillborn = {} /\ lost = {} /\ crashes = 0

(****************************** calls and locks ****************************)

Now(t, op)      == calls[t] # <<>> /\ Head(calls[t]).op = op
This(t)         == Head(calls[t]).run
With(t)         == Head(calls[t]).with
Settled(r)      == status[r] \in Terminal
Record(r)       == [run |-> r, status |-> status[r], account |-> account[r],
                    escalated |-> r \in escalated]

\* The current call is replaced by the calls cs; Return when it makes none.
Become(t, cs)   == calls' = [calls EXCEPT ![t] = cs \o Tail(@)]
Return(t)       == Become(t, <<>>)
Hold(t, rec)    == hand' = [hand EXCEPT ![t] = rec]
\* A call that leaves the thread's hand empty once the thread has nothing left.
Drop(t)         == hand' = [hand EXCEPT ![t] = IF Len(calls[t]) = 1 THEN NoRecord ELSE @]

HarnessFor(t)   == harness \in {None, t}
EngineFor(t)    == engine \in {None, t}

Recent == {order[i] : i \in {j \in 1..Len(order) : j + Window > Len(order)}}
Fresh  == {c \in Children : status[c] = None}


(************************* the observed run: CoreEngine ********************)

\* CoreEngine.dispatch under the engine lock: a new record, terminal at once if
\* submitting it fails or is refused.
NewRecord(t, r, d) ==
    /\ status' = [status EXCEPT ![r] = d]
    /\ order' = Append(order, r)
    /\ Hold(t, [run |-> r, status |-> d, account |-> NoAccount, escalated |-> FALSE])

\* A dispatch of a known id returns its record.
Dispatch(t) ==
    /\ Now(t, "dispatch") /\ EngineFor(t)
    /\ LET r == This(t) IN
       IF status[r] = None THEN \E d \in DispatchEnds : NewRecord(t, r, d)
                           ELSE Hold(t, Record(r)) /\ UNCHANGED <<status, order>>
    /\ Return(t)
    /\ UNCHANGED <<account, managed, escalated, confirming, locks, started, intents,
                   restored, jobs, mode, ghosts, crashes>>

Drift(r) == IF r \in Drifters THEN {"DRIFT"} ELSE {}

\* CoreEngine.wait: the observation lock of the run, then adapter.wait under no
\* other lock; its outcome is in hand.
Enter(t) ==
    /\ Now(t, "enter") /\ observing[This(t)] = None
    /\ LET r == This(t) IN
       IF Settled(r) THEN Hold(t, Record(r)) /\ Return(t) /\ UNCHANGED observing
                     ELSE /\ observing' = [observing EXCEPT ![r] = t]
                          /\ Become(t, <<Call("guard", r)>>)
                          /\ \E o \in Ends \cup {"RUNNING"} \cup Drift(r) :
                                Hold(t, [Record(r) EXCEPT !.status = o])
    /\ UNCHANGED <<durable, harness, engine, started, intents, restored, jobs, mode,
                   ghosts, crashes>>

\* A settled run is of no interest to the guard and to JEV any more.
Settle(r, s) ==
    /\ status' = [status EXCEPT ![r] = s]
    /\ intents' = intents \ {r} /\ jobs' = jobs \ {r} /\ confirming' = confirming \ {r}
SameRun == UNCHANGED <<status, intents, jobs, confirming>>

LetGo(r) == observing' = [observing EXCEPT ![r] = None]

\* The terminal transition guard is PersistentExecutionHarness.is_cancel_requested.
Guard(t) ==
    /\ Now(t, "guard") /\ HarnessFor(t)
    /\ LET r == This(t) IN
       IF r \in intents \/ hand[t].status = "RUNNING"
       THEN LetGo(r) /\ Hold(t, Record(r)) /\ Return(t)
       ELSE Become(t, <<Call("apply", r)>>) /\ UNCHANGED <<observing, hand>>
    /\ UNCHANGED <<durable, harness, engine, started, intents, restored, jobs, mode,
                   ghosts, crashes>>

Apply(t) ==
    /\ Now(t, "apply") /\ EngineFor(t)
    /\ LET r == This(t) IN
       IF Settled(r)
       THEN LetGo(r) /\ Hold(t, Record(r)) /\ Return(t) /\ UNCHANGED engine
       ELSE /\ engine' = t /\ Become(t, <<Call("final", r)>>)
            /\ UNCHANGED <<observing, hand>>
    /\ UNCHANGED <<durable, harness, started, intents, restored, jobs, mode, ghosts, crashes>>

\* The guard once more, now inside the engine lock; then the outcome is applied.
\* A drifted checkpoint reads the goal state that "merge" will write back whole.
Final(t) ==
    /\ Now(t, "final") /\ HarnessFor(t)
    /\ LET r == This(t)  o == hand[t].status IN
       IF o = "DRIFT" /\ r \notin intents
       THEN /\ Hold(t, [Record(r) EXCEPT !.status = "DRIFT"])
            /\ Become(t, <<Call("merge", r)>>) /\ SameRun /\ UNCHANGED <<engine, observing>>
       ELSE /\ IF r \in intents THEN SameRun ELSE Settle(r, o)
            /\ Hold(t, [Record(r) EXCEPT !.status = status'[r]])
            /\ engine' = None /\ LetGo(r) /\ Return(t)
    /\ UNCHANGED <<account, managed, escalated, order, harness, started, restored, mode,
                   ghosts, crashes>>

\* observe_progress_checkpoint: update_goal_state replaces policy_state.goal with
\* the copy read before, under the engine lock the accounting does not take.
Merge(t) ==
    /\ Now(t, "merge")
    /\ LET r == This(t) IN
       /\ account' = [account EXCEPT ![r] = hand[t].account]
       /\ lost' = IF account[r] = hand[t].account THEN lost ELSE lost \cup {r}
       /\ Hold(t, [hand[t] EXCEPT !.status = status[r]])
       /\ LetGo(r)
    /\ engine' = None /\ Return(t)
    /\ UNCHANGED <<status, managed, escalated, order, confirming, harness, started, intents,
                   restored, jobs, mode, origin, stillborn, crashes>>

(*************************** harness: record and observe *******************)

Observed(r) == calls[r] # <<>>
Loop(r)     == <<Call("enter", r), Call("note", r)>>

\* _handle_recovery looks at the record it is given, not at the registry.
RecoversAnything(rec) == rec.status = "FAIL"   \* mutant: children and restored runs too
Recovers(rec) ==
    /\ rec.status = "FAIL"
    /\ rec.run \notin restored /\ ~rec.escalated /\ rec.account.kind # "recovery"

\* _record under the (reentrant) harness lock, kept through a whole recovery.
\* A live record has an observer and is put before JEV; a terminal one gives up
\* its controller.  What follows in the thread is next.
Recorded(t, next) ==
    /\ HarnessFor(t)
    /\ LET rec == hand[t]  r == rec.run IN
       IF rec.status \in Terminal
       THEN /\ started' = started \ {r}
            /\ harness' = IF Recovers(rec) THEN t ELSE harness
            /\ Become(t, IF ~Recovers(rec) THEN next
                         ELSE <<Call("recover", r)>>
                              \o (IF harness = t THEN <<>> ELSE <<Call("leave", r)>>) \o next)
            /\ UNCHANGED jobs
       ELSE /\ started' = started \cup {r}
            /\ calls' = [u \in Threads |->
                            IF u = t THEN next \o Tail(calls[t])
                            ELSE IF u = r /\ r \notin started /\ ~Observed(r) THEN Loop(r)
                            ELSE calls[u]]
            /\ jobs' = jobs \cup ({r} \cap (managed \ {x \in Runs : Settled(x)}))
            /\ UNCHANGED harness
    /\ UNCHANGED <<durable, engine, observing, restored, mode, ghosts, crashes>>

RecordCall(t) ==
    /\ Now(t, "record") /\ Recorded(t, <<>>)
    /\ IF Recovers(hand[t]) THEN UNCHANGED hand ELSE Drop(t)
    /\ UNCHANGED intents

\* The observer's own: it waits again, or drops the cancel intent and ends.
Note(t) ==
    /\ Now(t, "note")
    /\ Recorded(t, IF hand[t].status \in Terminal THEN <<>> ELSE Loop(t))
    /\ intents' = IF hand[t].status \in Terminal THEN intents \ {t} ELSE intents
    /\ Hold(t, NoRecord)

Leave(t) ==
    /\ Now(t, "leave")
    /\ harness' = None
    /\ Return(t) /\ Drop(t)
    /\ UNCHANGED <<durable, engine, observing, started, intents, restored, jobs, mode,
                   ghosts, crashes>>

(****************************** recovery of a FAIL *************************)

RecoveriesOf(r) == {c \in Recent : account[c].kind = "recovery" /\ account[c].of = r}

EligibleManaged(r) ==   \* mutant: evaluate_recovery without the managed lane
    /\ status[r] = "FAIL"
    /\ \A c \in RecoveriesOf(r) : ~account[c].ran
    /\ Cardinality(RecoveriesOf(r)) < MaxDispatches
EligibleAgain(r) ==   \* mutant: execution attempts are not counted
    /\ status[r] = "FAIL" /\ r \notin managed
    /\ Cardinality(RecoveriesOf(r)) < MaxDispatches
\* evaluate_recovery and the two bounds of attempt_recovery.
Eligible(r) ==
    /\ status[r] = "FAIL" /\ r \notin managed
    /\ \A c \in RecoveriesOf(r) : ~account[c].ran
    /\ Cardinality(RecoveriesOf(r)) < MaxDispatches

\* The child c of run r as the dispatcher returns it.
NewChild(t, r, c, d) ==
    /\ NewRecord(t, c, d)
    /\ origin' = [origin EXCEPT ![c] = r]
    /\ stillborn' = IF d = "RUNNING" THEN stillborn ELSE stillborn \cup {c}

\* RecoveryLayer.recover: harness.dispatch records the child before it is accounted
\* for; then the accounting, and the wait for a child that runs.  A dispatch that
\* raises ends it.
Recover(t) ==
    /\ Now(t, "recover")
    /\ \/ /\ ~Eligible(This(t)) \/ EngineFor(t)   \* not eligible, or rejected
          /\ Return(t) /\ Drop(t) /\ UNCHANGED <<status, order, origin, stillborn>>
       \/ /\ Eligible(This(t)) /\ EngineFor(t) /\ Fresh # {}
          /\ LET r == This(t)  c == CHOOSE x \in Fresh : TRUE IN
             \E d \in DispatchEnds :
                /\ NewChild(t, r, c, d)
                /\ Become(t, <<Call("record", c), CallWith("account", r, c)>>
                             \o IF d = "RUNNING" THEN <<Call("enter", c)>> ELSE <<>>)
    /\ UNCHANGED <<account, managed, escalated, confirming, locks, started, intents, restored,
                   jobs, mode, lost, crashes>>

Account(t) ==
    account' = [account EXCEPT ![With(t)] =
        [kind |-> "recovery", of |-> This(t), ran |-> status[With(t)] # "DENIED"]]

AccountCall(t) ==
    /\ Now(t, "account") /\ Account(t)
    /\ Return(t) /\ Drop(t)
    /\ UNCHANGED <<status, managed, escalated, order, confirming, locks, started, intents,
                   restored, jobs, mode, ghosts, crashes>>

(******************************* callers of the API ************************)

\* direct_dispatch_and_wait, wait_run and cancel_run; one caller at a time.  A wait
\* or a cancel first takes the harness lock for its controller and its intent.
ApiDirect(s) ==
    /\ calls["api"] = <<>>
    /\ calls' = [calls EXCEPT !["api"] =
                    <<Call("dispatch", s), Call("record", s), Call("await", s)>>]
    /\ UNCHANGED <<durable, hand, locks, started, intents, restored, jobs, mode, ghosts, crashes>>

ApiWait(s) ==
    /\ calls["api"] = <<>> /\ status[s] # None /\ HarnessFor("api")
    /\ calls' = [calls EXCEPT !["api"] = <<Call("enter", s), Call("record", s)>>]
    /\ UNCHANGED <<durable, hand, locks, started, intents, restored, jobs, mode, ghosts, crashes>>

Cancel(r) == <<Call("abort", r), Call("record", r)>>

ApiCancel(s) ==
    /\ calls["api"] = <<>> /\ status[s] # None /\ HarnessFor("api")
    /\ calls' = [calls EXCEPT !["api"] = Cancel(s)]
    /\ intents' = IF Settled(s) THEN intents ELSE intents \cup {s}
    /\ UNCHANGED <<durable, hand, locks, started, restored, jobs, mode, ghosts, crashes>>

Await(t) ==
    /\ Now(t, "await")
    /\ LET s == This(t) IN
       IF hand[t].run = s /\ hand[t].status = "RUNNING"
       THEN HarnessFor(t) /\ Become(t, <<Call("enter", s), Call("record", s)>>)
       ELSE Return(t)
    /\ Hold(t, NoRecord)
    /\ UNCHANGED <<durable, locks, started, intents, restored, jobs, mode, ghosts, crashes>>

\* A raised error ends every call of the thread; none of them holds a lock here.
Raise(t) == /\ calls' = [calls EXCEPT ![t] = <<>>]
            /\ Hold(t, NoRecord)

\* CoreEngine.cancel: aborts a live run, returns a cancelled one and, after one
\* more abort, a failed one that has a binding; anything else is an error.
Abort(t) ==
    /\ Now(t, "abort") /\ EngineFor(t)
    /\ LET r == This(t) IN
       \/ /\ status[r] = "RUNNING"
          /\ Settle(r, "CANCELLED")
          /\ Hold(t, [Record(r) EXCEPT !.status = "CANCELLED"]) /\ Return(t)
       \/ status[r] = "RUNNING" /\ Raise(t) /\ SameRun
       \/ /\ \/ status[r] = "CANCELLED"
             \/ status[r] \in {"FAIL", "UNFIT"} /\ r \notin stillborn
          /\ Hold(t, Record(r)) /\ Return(t) /\ SameRun
       \/ /\ Settled(r) /\ status[r] # "CANCELLED"
          /\ status[r] \in {"FAIL", "UNFIT"} => r \in stillborn
          /\ Raise(t) /\ SameRun
    /\ UNCHANGED <<account, managed, escalated, order, locks, started, restored, mode,
                   ghosts, crashes>>

(******************************* JEV session watchdog **********************)

\* observe reads the record; before the start delay, within the cadence, for a
\* terminal or unmanaged run it does nothing.  One worker of the pool of two.
Assess(r) ==
    /\ calls["jev"] = <<>> /\ r \in jobs
    /\ jobs' = jobs \ {r}
    /\ \/ UNCHANGED calls
       \/ /\ ~Settled(r) /\ r \in managed
          /\ calls' = [calls EXCEPT !["jev"] =
                <<CallWith("judge", r, IF r \notin confirming THEN "first"
                                       ELSE IF r \in escalated THEN "unsafe" ELSE "safe")>>]
    /\ UNCHANGED <<durable, hand, locks, started, intents, restored, mode, ghosts, crashes>>

\* RESTART_SESSION must be judged twice in a row and pass the interlock.
Confirmed(w)   == w = "safe"

\* RecoveryLayer.mark_watchdog_requeue: the mark keeps the record out of recovery.
MarkRequeue(t, r) ==
    /\ escalated' = escalated \cup {r} /\ confirming' = confirming \ {r}
    /\ Return(t) /\ UNCHANGED <<hand, intents>>

\* watchdog_recovery marks the run for the controlled lane or, direct run of an
\* allow-listed agent, cancels it under a cancel intent (unless it finds it settled)
\* and restarts it.
WatchdogRecovery(t, r) ==
    \/ mode = "requeue" /\ MarkRequeue(t, r)
    \/ /\ mode = "auto" /\ ~Settled(r) /\ HarnessFor(t)
       /\ intents' = intents \cup {r}
       /\ Become(t, Cancel(r) \o <<CallWith("restart", r, "own")>>)
       /\ UNCHANGED <<escalated, confirming, hand>>
    \/ /\ mode = "auto" /\ Settled(r)
       /\ Hold(t, Record(r)) /\ Become(t, <<CallWith("restart", r, "found")>>)
       /\ UNCHANGED <<escalated, confirming, intents>>

\* Another choice, an interlock that does not pass, or a callback that is switched
\* off leave a plain entry.
Judge(t) ==
    /\ Now(t, "judge")
    /\ LET r == This(t)  go == Confirmed(With(t)) IN
       \/ /\ confirming' = confirming \ {r}
          /\ Return(t) /\ UNCHANGED <<escalated, hand, intents>>
       \/ /\ With(t) = "first" /\ ~go /\ ~Settled(r)
          /\ confirming' = confirming \cup {r}
          /\ Return(t) /\ UNCHANGED <<escalated, hand, intents>>
       \/ go /\ WatchdogRecovery(t, r)
    /\ UNCHANGED <<status, account, managed, order, locks, started, restored, jobs, mode,
                   ghosts, crashes>>

RestartsOf(r) == {c \in Recent : account[c].kind = "watchdog" /\ account[c].of = r}

Restartable(r) == account[r].kind # "watchdog" /\ RestartsOf(r) = {}

\* recover_watchdog_cancelled: a managed child in place of a cancelled run.
Restart(t) ==
    /\ Now(t, "restart")
    /\ LET r == This(t)
           may == hand[t].status = "CANCELLED" /\ status[r] = "CANCELLED" /\ Restartable(r)
       IN \/ /\ ~may \/ EngineFor(t)   \* rejected, by the layer or by the dispatch
             /\ Return(t) /\ Hold(t, NoRecord) /\ confirming' = confirming \ {r}
             /\ UNCHANGED <<status, order, managed, origin, stillborn>>
          \/ /\ may /\ EngineFor(t) /\ Fresh # {}
             /\ LET c == CHOOSE x \in Fresh : TRUE IN
                /\ \E d \in DispatchEnds : NewChild(t, r, c, d)
                /\ managed' = managed \cup {c}
                /\ Become(t, <<Call("record", c), CallWith("waccount", r, c)>>)
             /\ UNCHANGED confirming
    /\ UNCHANGED <<account, escalated, locks, started, intents, restored, jobs, mode, lost,
                   crashes>>

WatchdogAccount(t) ==
    /\ Now(t, "waccount")
    /\ account' = [account EXCEPT ![With(t)] =
                      [kind |-> "watchdog", of |-> This(t), ran |-> TRUE]]
    /\ confirming' = confirming \ {This(t)}
    /\ Return(t) /\ Hold(t, NoRecord)
    /\ UNCHANGED <<status, managed, escalated, order, locks, started, intents, restored, jobs,
                   mode, ghosts, crashes>>

(********************************* restart *********************************)

Live == {r \in Runs : status[r] = "RUNNING"}

\* The process dies: threads, locks and memory are gone.  get_persistent_harness
\* then resumes the observation of every active run.
RestoredNone == {}   \* mutant: the first active run that cannot be read ends the loop
Restored == Live
Crash ==
    /\ crashes < MaxCrashes /\ crashes' = crashes + 1
    /\ calls' = [t \in Threads |-> IF t \in Restored THEN Loop(t) ELSE <<>>]
    /\ hand' = [t \in Threads |-> NoRecord]
    /\ harness' = None /\ engine' = None
    /\ observing' = [r \in Runs |-> None]
    /\ started' = Restored /\ restored' = Restored
    /\ intents' = {} /\ jobs' = {}
    /\ lost' = lost \cup {c \in Children : origin[c] # None /\ account[c] = NoAccount}
    /\ UNCHANGED <<durable, mode, origin, stillborn>>

Step(t) ==
    \/ Dispatch(t) \/ Enter(t) \/ Guard(t) \/ Apply(t) \/ Final(t) \/ Merge(t)
    \/ RecordCall(t) \/ Note(t) \/ Leave(t) \/ Recover(t) \/ AccountCall(t)
    \/ Await(t) \/ Abort(t) \/ Judge(t) \/ Restart(t) \/ WatchdogAccount(t)

Next ==
    \/ \E t \in Threads : Step(t)
    \/ \E s \in Sources : ApiDirect(s) \/ ApiWait(s) \/ ApiCancel(s)
    \/ \E r \in Runs : Assess(r)
    \/ Crash

Spec == Init /\ [][Next]_vars

(******************************* properties ********************************)

ChildrenOf(r) == {c \in Children \ lost : origin[c] = r}

\* A run gets at most one recovery execution and a bounded number of dispatches,
\* over observers, API calls, nested recoveries, JEV restarts and process restarts
\* ("FAIL runs get at most one recovery run").  A child whose accounting a crash
\* or a concurrent checkpoint has lost is not counted, by the code either.
RecoveryOnce ==
    \A r \in Runs : /\ Cardinality({c \in ChildrenOf(r) : status[c] # "DENIED"}) <= 1
                    /\ Cardinality(ChildrenOf(r)) <= MaxDispatches

\* "Never recover a recovery child (max 1, no chaining)": holds for children that
\* ran; a child that failed while it was dispatched is recovered before it is
\* accounted for.  A watchdog child is not restarted again either.
NoChain == \A c \in Children : origin[c] \in Children => origin[c] \in stillborn \cup lost

\* Both: no sequence of failures, polls and restarts multiplies the recoveries.
RecoveryBounded == RecoveryOnce /\ NoChain

\* Every child has the ground its lane demands, whatever happened between the
\* look at the source and the dispatch: an unmanaged source that failed, or a
\* managed source that is cancelled, and the child stays in the lane.
ChildHasGround ==
    \A c \in Children : origin[c] # None =>
        IF origin[c] \in managed
        THEN status[origin[c]] = "CANCELLED" /\ mode = "auto" /\ c \in managed
        ELSE status[origin[c]] = "FAIL" /\ c \notin managed

\* "Restart restores observation, never a fresh recovery execution": the process
\* that restored a run does not dispatch its recovery.
RestoredOnlyObserved ==
    [][\A c \in Children : origin'[c] # origin[c] /\ origin'[c] \in restored
                              => origin'[c] \in managed]_vars

\* A run that is RUNNING is observed, or the thread that made it is about to record
\* it: across terminal records of stale waits, cancels and restarts no live run is
\* left without the thread that would ever settle it.
LiveIsObserved ==
    \A r \in Live : \/ Observed(r)
                    \/ \E t \in Threads : \E i \in 1..Len(calls[t]) :
                          calls[t][i].op = "record" /\ calls[t][i].run = r

\* Both: what a restart takes up again is observed, and only observed.
RestartObserves == []LiveIsObserved /\ RestoredOnlyObserved

\* The owner of the lock the current call of a thread needs; a recovery that is not
\* eligible ends before it needs one.
Blocker(t) ==
    IF calls[t] = <<>> THEN None
    ELSE CASE Head(calls[t]).op = "enter" -> observing[This(t)]
           [] Head(calls[t]).op \in {"guard", "final", "record", "note", "await", "judge"} ->
                 IF HarnessFor(t) THEN None ELSE harness
           [] Head(calls[t]).op = "recover" ->
                 IF EngineFor(t) \/ ~Eligible(This(t)) THEN None ELSE engine
           [] Head(calls[t]).op \in {"dispatch", "apply", "abort", "restart"} ->
                 IF EngineFor(t) THEN None ELSE engine
           [] OTHER -> None

NoCircle == ~\E ts \in SUBSET Threads : ts # {} /\ \A t \in ts : Blocker(t) \in ts

\* With watchdog-managed runs only, which is what the HTTP API creates by default,
\* the three locks are never waited for in a circle.
ManagedNoCircle == Sources \subseteq managed => NoCircle

\* The same for every run ("Network waits serialize only the same run, never
\* unrelated workers"; recovery is a "bounded wait").  Violated: a recovery holds
\* the harness lock while it waits for its child, whose observer holds the child's
\* observation lock and waits for the harness lock in the guard.
RecoveryNoCircle == NoCircle

\* "Never recover a recovery child (max 1, no chaining)", without the exception.
\* Violated: while the transport is down every child fails as it is dispatched, is
\* recovered before it is accounted for, and so on inside one call.
OneLink == \A c \in Children : origin[c] \notin Children

\* "Recover a watchdog-cancelled run": JEV restarts a run it cancelled itself.
\* Violated: a run the user cancelled while JEV judged it is restarted.
WatchdogRestartsOwn ==
    Now("jev", "restart") /\ hand["jev"].status = "CANCELLED" => With("jev") = "own"

(****************************** why they hold ******************************)

\* CoreEngine.wait and its stages; the calls that leave a record in the thread's hand
\* for the next one; the calls that may come after another; those nothing comes after.
Stages == {"guard", "apply", "final", "merge"}
Gives  == Stages \cup {"enter", "dispatch", "abort"}
Later  == {"record", "note", "await", "enter", "leave", "account", "restart", "waccount"}
Last   == {"await", "note", "judge", "restart", "waccount"}

\* What a call x of thread t is about, and what it is put before: its own record or note
\* comes right after it, and the accounting of a child before the wait for it.
CallTrue(t, x) ==
    /\ x.op = "note" => x.run = t
    /\ x.op = "dispatch" => x.run \in Sources
    /\ x.op \notin {"dispatch", "record", "await"} => status[x.run] # None
    /\ x.op \in {"judge", "restart", "waccount"} => t = "jev" /\ x.run \in managed
    /\ x.op = "restart" => mode = "auto"
    /\ x.op = "abort" => t \in {"api", "jev"} /\ x.run \in Sources \cup managed
    /\ x.op = "account" => x.run \notin managed /\ x.with \notin managed
    /\ x.op \in {"account", "waccount"} => x.with \in Children /\ origin[x.with] = x.run

Precedes(x, y) ==
    /\ y.op \in Later /\ x.op \notin Last
    /\ x.op = "leave" => y.op \notin {"leave", "account"}
    /\ x.op = "abort" => y.op \notin {"account", "waccount"}
    /\ y.op = "account" => /\ x.op \in {"record", "recover"} => x.run # y.run
                           /\ x.op \in Stages \cup {"enter"} => x.run # y.with

HandsTo(x, y) == y.op \in {"record", "note"} => x.op \in Gives /\ x.run = y.run

CallsOf(t) ==
    /\ t \in Runs /\ calls[t] # <<>> => status[t] # None
    /\ \A i \in 1..Len(calls[t]) : CallTrue(t, calls[t][i])
    /\ \A i, j \in 1..Len(calls[t]) : i < j => Precedes(calls[t][i], calls[t][j])
    /\ \A i, j \in 1..Len(calls[t]) : j = i + 1 => HandsTo(calls[t][i], calls[t][j])
CallsTrue == \A t \in Threads : CallsOf(t)

\* Who owns a lock is at a call that needs it; the harness lock is kept until "leave".
LocksTrue ==
    /\ \A t \in Threads : engine = t <=> Now(t, "final") \/ Now(t, "merge")
    /\ \A t \in Threads : \A r \in Runs :
          observing[r] = t <=> \E op \in Stages : Now(t, op) /\ This(t) = r
    /\ \A t \in Threads : \A i \in 1..Len(calls[t]) :
          calls[t][i].op \in {"recover", "account", "leave"} => harness = t
    /\ Sources \subseteq managed =>
          \A t \in Threads : harness = t =>
              \/ Now(t, "leave")
              \/ Now(t, "recover") /\ Len(calls[t]) > 1 /\ calls[t][2].op = "leave"

\* What the thread has in hand is of the run it is at; a terminal record of a child is
\* of one that is accounted for, unless it was stillborn or its accounting is lost.
Unmarked(r) == r \in Children \ managed => r \in stillborn \cup lost
HandTrue(t, op, r, h) ==
    /\ op = "dispatch" => Len(calls[t]) > 1 /\ calls[t][2].op = "record"
    /\ op \in Stages \cup {"record", "note"} => h.run = r /\ status[r] # None
    /\ op = "guard" => h.status \in Ends \cup {"RUNNING", "DRIFT"}
    /\ op \in {"apply", "final"} => h.status \in Ends \cup {"DRIFT"}
    /\ op \in {"final", "merge"} => status[r] = "RUNNING"
    /\ op = "merge" /\ r \in Sources => h.account = NoAccount
    /\ op \in {"record", "note"} /\ h.status \in Terminal =>
          Settled(r) /\ (h.account.kind = "recovery" \/ Unmarked(r))
    /\ op = "recover" => r \notin restored /\ Unmarked(r)
HandsTrue ==
    \A t \in Threads :
        /\ hand[t].run # None => status[hand[t].run] # None
        /\ calls[t] # <<>> => HandTrue(t, Head(calls[t]).op, This(t), hand[t])

RunsTrue ==
    /\ \A r \in Runs : status[r] # None => \E i \in 1..Len(order) : order[i] = r
    /\ \A r \in Runs : origin[r] # None <=> r \in Children /\ status[r] # None
    /\ \A r \in managed : r \in Sources \/ status[r] # None
    /\ \A r \in jobs \cup started : status[r] # None
    /\ \A r \in Runs : r \in Sources \/ status[r] = None => account[r] = NoAccount
    /\ Sources \subseteq managed => \A r \in Runs : status[r] # None => r \in managed

\* The accounting of a child, or the call that will write it.
Accounting(c) ==
    IF origin[c] \in managed THEN [kind |-> "watchdog", of |-> origin[c], ran |-> TRUE]
    ELSE [kind |-> "recovery", of |-> origin[c], ran |-> status[c] # "DENIED"]
Due(t, c) == \E i \in 1..Len(calls[t]) :
    calls[t][i] \in {CallWith("account", origin[c], c), CallWith("waccount", origin[c], c)}
AccountsTrue ==
    /\ \A c \in Children \ lost : origin[c] # None =>
          \/ account[c] = Accounting(c)
          \/ account[c] = NoAccount /\ \E t \in Threads : Due(t, c)
    /\ \A t \in Threads : \A i \in 1..Len(calls[t]) :
          calls[t][i].op = "account" /\ calls[t][i].with \notin stillborn =>
              status[calls[t][i].with] = "RUNNING"

\* RecoveryOnce as long as every run created is still scanned.
Scanned == Len(order) <= Window /\ MaxDispatches > 0
OnceTrue ==
    Scanned => \A r \in Runs :
        /\ \A c, d \in ChildrenOf(r) : status[c] # "DENIED" /\ status[d] # "DENIED" => c = d
        /\ IsFiniteSet(ChildrenOf(r)) /\ Cardinality(ChildrenOf(r)) <= MaxDispatches

LiveTrue ==
    \A r \in Live :
        /\ Observed(r) \/ \E t \in Threads : Now(t, "record") /\ This(t) = r
        /\ Observed(r) => calls[r][Len(calls[r])].op = "note"
        /\ r \in started => Observed(r)

IndInv == /\ TypeOK /\ CallsTrue /\ LocksTrue /\ HandsTrue /\ RunsTrue
          /\ ChildHasGround /\ AccountsTrue /\ NoChain /\ OnceTrue /\ LiveTrue
================================================================================
