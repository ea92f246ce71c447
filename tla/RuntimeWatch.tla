------------------------------ MODULE RuntimeWatch ------------------------------
(***************************************************************************)
(* What watches a running worker: the policy engine                        *)
(* (runtime_policy.evaluate_event, whose state is kept in the run record)  *)
(* counts retries, tool calls and repetitions and has the run cancelled;   *)
(* the loop detector (loop_detector.py, memory) reports output that        *)
(* repeats itself and cancels nothing.  Both see events one by one and     *)
(* keep only counters: the whole stream is kept here as their reference.   *)
(***************************************************************************)
EXTENDS Naturals, Sequences, FiniteSets

CONSTANTS
    Signatures,          \* of tool calls, and of results
    Words,               \* what output is made of, normalized
    Excepted,            \* words of the exception patterns
    None,
    MaxRetries, MaxTools, Threshold,       \* the runtime profile
    TailLength, MinUnit, MaxUnit, MinRepeats,  \* LoopDetectorConfig
    Cooldown,
    MaxSeen,             \* bound on events and pieces of output together
    MaxCrashes

VARIABLES
    status,      \* RUNNING, CANCELLED, or FAIL when the abort was not confirmed
    counters,    \* policy_state
    log,         \* every runtime event so far
    tail,        \* _tails of the run
    reported,    \* _last_events: when each unit was last reported
    reports,     \* LOOP_SUSPECTED events of the output, with their unit and time
    clock,
    written,     \* length of the output so far
    crashes

watch == <<status, counters, log, tail, reported, reports, clock, written, crashes>>
Detector == <<tail, reported, reports, written>>
Room == Len(log) + written < MaxSeen

Zero == [retries |-> 0, tools |-> 0, action |-> None, actions |-> 0,
         result |-> None, results |-> 0]

Init ==
    /\ status = "RUNNING" /\ counters = Zero /\ log = <<>>
    /\ tail = <<>> /\ reported = {} /\ reports = {} /\ clock = 0 /\ written = 0
    /\ crashes = 0

(***************************** the policy engine ***************************)

\* Tool calls may be unobservable; a result or an error may report a change of state,
\* and so may an event of another kind (a checkpoint).
Events ==
    [kind : {"retry", "checkpoint"}, sig : {None}, flag : {TRUE}] \cup
    [kind : {"tool_call", "result"}, sig : Signatures, flag : BOOLEAN]

KeepsCount(c, e) == c   \* mutant: a change of state does not end a repetition
Changed(c, e) == [c EXCEPT !.result = None, !.results = 0]
Called(c, e) ==
    [c EXCEPT !.tools = @ + 1, !.action = e.sig,
              !.actions = IF c.action = e.sig THEN @ + 1 ELSE 1]
Resulted(c, e) ==
    [c EXCEPT !.result = e.sig, !.results = IF c.result = e.sig THEN @ + 1 ELSE 1]

Counted(c, e) ==
    CASE e.kind = "retry" -> [c EXCEPT !.retries = @ + 1]
      [] e.kind = "tool_call" -> IF e.flag THEN Called(c, e) ELSE c
      [] e.kind = "result" /\ ~e.flag -> Resulted(c, e)
      [] OTHER -> Changed(c, e)

\* A limit is looked at when its counter has moved.
Exceeded(c, e) ==
    \/ e.kind = "retry" /\ c.retries > MaxRetries
    \/ e.kind = "tool_call" /\ e.flag /\ (c.tools > MaxTools \/ c.actions >= Threshold)
    \/ e.kind = "result" /\ ~e.flag /\ c.results >= Threshold

\* update_policy: the counters and the event become part of the record.
Stored(e) == log' = Append(log, e) /\ counters' = Counted(counters, e)

\* observe_runtime_event: the state is stored first, then a limit cancels the run.
ObserveEvent(e) ==
    /\ status = "RUNNING" /\ Room
    /\ Stored(e)
    /\ status' \in IF Exceeded(counters', e) THEN {"CANCELLED", "FAIL"} ELSE {status}
    /\ UNCHANGED <<Detector, clock, crashes>>

(***************************** the loop detector ***************************)

Last(s, n) == SubSeq(s, Len(s) - n + 1, Len(s))
\* The tail ends in n copies of its last k words.
Repeats(s, k, n) ==
    n * k <= Len(s) /\ \A i \in 0..(n * k - 1) : s[Len(s) - i] = s[Len(s) - (i % k)]

\* repeated_suffix: the smallest unit that repeats often enough, or 0.
Unit(s) ==
    LET K == {k \in MinUnit..MaxUnit : Repeats(s, k, MinRepeats)} IN
    IF K = {} THEN 0 ELSE CHOOSE k \in K : \A j \in K : k <= j

\* A unit with an exception pattern is no loop; one reported lately is not reported.
Exempt(u) == \E i \in DOMAIN u : u[i] \in Excepted
Recent(u) == \E r \in reported : r.unit = u /\ clock - r.at < Cooldown

\* RunScopedLoopDetector.observe: one more word, and what is reported of the tail.
Detect(w) ==
    /\ LET t == Append(tail, w) IN
       tail' = IF Len(t) > TailLength THEN Tail(t) ELSE t
    /\ LET k == Unit(tail') u == Last(tail', k) IN
       IF k > 0 /\ ~Exempt(u) /\ ~Recent(u)
       THEN /\ reported' = {r \in reported : r.unit # u} \cup {[unit |-> u, at |-> clock]}
            /\ reports' = reports \cup {[unit |-> u, at |-> clock, tail |-> tail', n |-> written']}
       ELSE UNCHANGED <<reported, reports>>

\* observe_local_run_output; the lifecycle of the worker stays as it is.
ObserveOutput(w) ==
    /\ status = "RUNNING" /\ Room
    /\ written' = written + 1 /\ Detect(w)
    /\ UNCHANGED <<status, counters, log, clock, crashes>>

Pass ==
    /\ clock < Cooldown /\ clock' = clock + 1
    /\ UNCHANGED <<status, counters, log, Detector, crashes>>

\* The record keeps the counters; the tails are gone.
Crash ==
    /\ crashes < MaxCrashes /\ crashes' = crashes + 1
    /\ tail' = <<>> /\ reported' = {}
    /\ UNCHANGED <<status, counters, log, reports, clock, written>>

Next ==
    \/ \E e \in Events : ObserveEvent(e)
    \/ \E w \in Words : ObserveOutput(w)
    \/ Pass \/ Crash

(******************************* properties ********************************)

Retries(l) == {i \in DOMAIN l : l[i].kind = "retry"}
Calls(l)   == {i \in DOMAIN l : l[i].kind = "tool_call" /\ l[i].flag}
Results(l) == {i \in DOMAIN l : l[i].kind \in {"result", "checkpoint"}}
\* The positions among P from which on nothing else follows at positions of P.
Streak(l, P) == {i \in P : \A j, k \in P : j >= i /\ k >= i => l[j] = l[k]}
Stuck(l)     == {i \in Streak(l, Results(l)) : ~l[i].flag}

\* A run is stopped exactly when its stream of events calls for it: too many retries
\* or tool calls, or the same call or the same unchanging result Threshold times with
\* nothing of its kind between them - over restarts, and over what is not counted.
StoppedForCause ==
    status # "RUNNING" <=>
        \/ Cardinality(Retries(log)) > MaxRetries
        \/ Cardinality(Calls(log)) > MaxTools
        \/ Cardinality(Streak(log, Calls(log))) >= Threshold
        \/ Cardinality(Stuck(log)) >= Threshold

\* Whoever is reported did repeat itself, and a loop at the end of the output is
\* reported unless the unit found is exempt or was reported in this period.
LoopsReported ==
    /\ \A r \in reports : \E k \in MinUnit..MaxUnit :
          Repeats(r.tail, k, MinRepeats) /\ r.unit = Last(r.tail, k) /\ ~Exempt(r.unit)
    /\ \A k \in MinUnit..MaxUnit : Repeats(tail, k, MinRepeats) =>
          \E j \in MinUnit..k : Repeats(tail, j, MinRepeats) /\
             (Exempt(Last(tail, j)) \/ \E r \in reports : r.unit = Last(tail, j))

WatchAgrees == StoppedForCause /\ LoopsReported

(****************************** why it holds *******************************)

TypeOK ==
    /\ status \in {"RUNNING", "CANCELLED", "FAIL"} /\ log \in Seq(Events)
    /\ counters \in [retries : Nat, tools : Nat, actions : Nat, results : Nat,
                     action : Signatures \cup {None}, result : Signatures \cup {None}]
    /\ tail \in Seq(Words) /\ clock \in Nat

\* The counters are those of the stream, and of the repetition that is still going on.
CountersTrue ==
    /\ counters.retries = Cardinality(Retries(log))
    /\ counters.tools = Cardinality(Calls(log))
    /\ counters.actions = Cardinality(Streak(log, Calls(log)))
    /\ \A i \in Streak(log, Calls(log)) : log[i].sig = counters.action
    /\ counters.results = Cardinality(Stuck(log))
    /\ \A i \in Stuck(log) : log[i].sig = counters.result

\* A limit is exceeded by the event that stops the run, and by none before it.
Exhausted == \/ counters.retries > MaxRetries \/ counters.tools > MaxTools
             \/ counters.actions >= Threshold \/ counters.results >= Threshold

IndInv == /\ TypeOK /\ CountersTrue /\ (status # "RUNNING" <=> Exhausted) /\ LoopsReported
          /\ \A q \in reported : \E r \in reports : r.unit = q.unit

\* "suppress duplicate observations": one loop is reported once in a period.  Violated:
\* the unit is cut at the end of the output, and a loop cut elsewhere is another unit.
Rotation(u, v) == Len(u) = Len(v) /\
    \E i \in 0..(Len(u) - 1) : \A j \in 1..Len(u) : u[j] = v[((j + i - 1) % Len(u)) + 1]
LoopReportedOnce == \A q, r \in reports :
    crashes = 0 /\ q # r /\ Rotation(q.unit, r.unit) =>
        q.at - r.at >= Cooldown \/ r.at - q.at >= Cooldown
================================================================================
