------------------------------ MODULE RecoveryProofs ------------------------------
(***************************************************************************)
(* Theorems of RunRecovery: the direct runs, their recoveries and restarts *)
(* and the three locks, over any number of runs, children, crashes and     *)
(* dispatch attempts.  The invariant says what each pending call of a      *)
(* thread may be followed by and what the thread then has in hand; a step  *)
(* replaces the first call of one thread and may start an observer.        *)
(***************************************************************************)
EXTENDS RunRecovery, FiniteSetTheorems, SequenceTheorems, TLAPS

(******************************** the lists ********************************)

\* A thread other than t keeps its calls and its hand, or is an observer that starts.
Others(t) ==
    \A u \in Threads \ {t} :
        /\ hand'[u] = hand[u]
        /\ \/ calls'[u] = calls[u]
           \/ u \in Runs /\ status[u] # None /\ calls[u] = <<>> /\ calls'[u] = Loop(u)

\* No step takes back a run, its end, its origin or its lane.
Grows ==
    /\ \A r \in Runs : status[r] # None => status'[r] # None
    /\ \A r \in Runs : Settled(r) => status'[r] = status[r]
    /\ \A r \in Runs : origin[r] # None => origin'[r] = origin[r]
    /\ managed \subseteq managed' /\ \A r \in managed' \ managed : r \in Children /\ status[r] = None
    /\ stillborn \subseteq stillborn' /\ lost \subseteq lost' /\ mode' = mode

LEMMA Names ==
    /\ Sources \cap Children = {} /\ "api" \notin Runs /\ "jev" \notin Runs /\ None \notin Runs
    /\ Sources \subseteq Runs /\ Children \subseteq Runs /\ Runs \subseteq Threads
    /\ "api" \in Threads /\ "jev" \in Threads /\ None \notin Threads
    /\ \A r \in Runs : r \in Sources \/ r \in Children
  BY NamesAssumption DEF Runs, Threads, None

LEMMA LoopCalls ==
    ASSUME NEW r \in Runs
    PROVE  /\ Loop(r) \in Seq(Calls) /\ Len(Loop(r)) = 2
           /\ Loop(r)[1] = Call("enter", r) /\ Loop(r)[2] = Call("note", r)
<1>1. Call("enter", r) \in Calls /\ Call("note", r) \in Calls
  BY DEF Call, Calls, Ops, Statuses, None
<1> QED
  BY <1>1 DEF Loop

LEMMA LoopEnds ==
    ASSUME NEW r \in Runs
    PROVE  Loop(r) # <<>> /\ Loop(r)[Len(Loop(r))].op = "note"
<1>1. Loop(r) # <<>> /\ Loop(r)[Len(Loop(r))] = Call("note", r)
  BY LoopCalls
<1> QED
  BY <1>1 DEF Call

\* Where a call that stays in the list goes when n calls take the place of the first of k.
LEMMA Shift ==
    ASSUME NEW n \in Nat, NEW k \in Nat, NEW i \in 1..k, i # 1
    PROVE  /\ (i - 1) + n \in 1..(n + (k - 1)) /\ ~((i - 1) + n <= n)
           /\ (((i - 1) + n) - n) + 1 = i
  OBVIOUS

\* The calls of t once its first call is replaced by cs; another thread may start.
Puts(t, cs) == Become(t, cs) \/ calls'[t] = cs \o Tail(calls[t])

LEMMA Put ==
    ASSUME NEW t \in Threads, calls \in [Threads -> Seq(Calls)], calls[t] # <<>>,
           NEW cs \in Seq(Calls), Puts(t, cs)
    PROVE  /\ calls'[t] = cs \o Tail(calls[t])
           /\ calls'[t] \in Seq(Calls) /\ Len(calls'[t]) = Len(cs) + (Len(calls[t]) - 1)
           /\ \A i \in 1..Len(calls'[t]) :
                 calls'[t][i] = IF i <= Len(cs) THEN cs[i] ELSE calls[t][(i - Len(cs)) + 1]
<1>1. calls[t] \in Seq(Calls) /\ Tail(calls[t]) \in Seq(Calls) /\ Len(Tail(calls[t])) = Len(calls[t]) - 1
      /\ \A i \in 1..(Len(calls[t]) - 1) : Tail(calls[t])[i] = calls[t][i + 1]
  OBVIOUS
<1>2. cs \o Tail(calls[t]) \in Seq(Calls)
  BY <1>1
<1>3. calls'[t] = cs \o Tail(calls[t])
  BY DEF Puts, Become
<1>4. Len(calls'[t]) = Len(cs) + (Len(calls[t]) - 1)
  BY <1>1, <1>3
<1>5. \A i \in 1..Len(calls'[t]) :
          calls'[t][i] = IF i <= Len(cs) THEN cs[i] ELSE calls[t][(i - Len(cs)) + 1]
  <2> SUFFICES ASSUME NEW i \in 1..Len(calls'[t])
               PROVE  calls'[t][i] = IF i <= Len(cs) THEN cs[i] ELSE calls[t][(i - Len(cs)) + 1]
    OBVIOUS
  <2>1. CASE i <= Len(cs)
    BY <1>1, <1>3, <1>4, <2>1
  <2>2. CASE ~(i <= Len(cs))
    <3>1. calls'[t][i] = Tail(calls[t])[i - Len(cs)] /\ i - Len(cs) \in 1..(Len(calls[t]) - 1)
      BY <1>1, <1>3, <1>4, <2>2
    <3> QED
      BY <1>1, <2>2, <3>1
  <2> QED
    BY <2>1, <2>2
<1> QED
  BY <1>2, <1>3, <1>4, <1>5

LEMMA Replaced ==
    ASSUME NEW t \in Threads, calls \in [Threads -> Seq(Calls)], calls[t] # <<>>,
           NEW cs \in Seq(Calls), Become(t, cs)
    PROVE  /\ calls' \in [Threads -> Seq(Calls)]
           /\ calls'[t] \in Seq(Calls) /\ Len(calls'[t]) = Len(cs) + (Len(calls[t]) - 1)
           /\ \A i \in 1..Len(calls'[t]) :
                 calls'[t][i] = IF i <= Len(cs) THEN cs[i] ELSE calls[t][(i - Len(cs)) + 1]
           /\ \A u \in Threads \ {t} : calls'[u] = calls[u]
<1>1. Puts(t, cs)
  BY DEF Puts
<1>2. calls' = [calls EXCEPT ![t] = cs \o Tail(calls[t])] /\ calls'[t] \in Seq(Calls)
  BY <1>1, Put DEF Become
<1>3. calls' \in [Threads -> Seq(Calls)] /\ \A u \in Threads \ {t} : calls'[u] = calls[u]
  BY <1>2
<1> QED
  BY <1>1, <1>3, Put

\* What a call is about stays as it is.
LEMMA CallStays ==
    ASSUME RunsTrue, Grows, NEW t \in Threads, NEW x \in Calls, CallTrue(t, x)
    PROVE  CallTrue(t, x)'
<1>1. x.run \in Runs /\ (x.op \in {"account", "waccount"} => x.with \in Runs /\ x.with \in Children)
  BY Names DEF Calls, CallTrue
<1>2. x.op = "account" => status[x.run] # None /\ origin[x.with] = x.run
                          /\ x.run \notin managed /\ x.with \notin managed
  BY DEF CallTrue
<1>3. x.op = "account" => status[x.with] # None
  BY <1>1, <1>2, Names DEF RunsTrue
<1>4. x.op = "account" => x.run \notin managed' /\ x.with \notin managed'
  BY <1>1, <1>2, <1>3 DEF Grows
<1>5. x.op \in {"account", "waccount"} => origin'[x.with] = x.run
  BY <1>1, Names DEF CallTrue, Grows
<1>6. x.run \in managed => x.run \in managed'
  BY DEF Grows
<1> QED
  BY <1>1, <1>4, <1>5, <1>6 DEF CallTrue, Grows

LEMMA LoopTrue ==
    ASSUME NEW u \in Runs, calls'[u] = Loop(u), status'[u] # None
    PROVE  CallsOf(u)'
<1>1. Len(calls'[u]) = 2 /\ calls'[u][1] = Call("enter", u) /\ calls'[u][2] = Call("note", u)
  BY LoopCalls
<1>2. ASSUME NEW i \in 1..Len(calls'[u]) PROVE CallTrue(u, calls[u][i])'
  <2>1. calls'[u][i] = Call("enter", u) \/ calls'[u][i] = Call("note", u)
    BY <1>1, <1>2
  <2> QED
    BY <2>1 DEF CallTrue, Call
<1>3. /\ Precedes(Call("enter", u), Call("note", u))
      /\ HandsTo(Call("enter", u), Call("note", u))
  BY DEF Precedes, HandsTo, Call, Later, Last, Gives
<1> QED
  BY <1>1, <1>2, <1>3 DEF CallsOf

LEMMA OtherCalls ==
    ASSUME TypeOK, RunsTrue, CallsTrue, Grows, NEW t \in Threads, Others(t),
           NEW u \in Threads, u # t
    PROVE  CallsOf(u)'
<1>1. CASE calls'[u] = calls[u]
  <2>1. calls[u] \in Seq(Calls) /\ CallsOf(u)
    BY DEF TypeOK, CallsTrue
  <2>2. ASSUME NEW i \in 1..Len(calls'[u]) PROVE CallTrue(u, calls[u][i])'
    <3>1. PICK x \in Calls : x = calls[u][i] /\ x = calls'[u][i]
      BY <1>1, <2>1, <2>2
    <3>2. CallTrue(u, x)'
      BY <1>1, <2>1, <2>2, <3>1, CallStays DEF CallsOf
    <3> QED
      BY <3>1, <3>2 DEF CallTrue
  <2>3. u \in Runs /\ calls'[u] # <<>> => status'[u] # None
    BY <1>1, <2>1 DEF CallsOf, Grows
  <2> QED
    BY <1>1, <2>1, <2>2, <2>3 DEF CallsOf
<1>2. CASE u \in Runs /\ status[u] # None /\ calls'[u] = Loop(u)
  BY <1>2, LoopTrue DEF Grows
<1> QED
  BY <1>1, <1>2 DEF Others

\* The calls of t itself, when cs takes the place of the first one.
LEMMA ListStep ==
    ASSUME TypeOK, RunsTrue, CallsTrue, Grows, NEW t \in Threads, calls[t] # <<>>,
           NEW cs \in Seq(Calls), Become(t, cs) \/ Puts(t, cs),
           \A x \in Calls : (\E i \in 1..Len(cs) : x = cs[i]) => CallTrue(t, x)',
           \A i, j \in 1..Len(cs) : i < j => Precedes(cs[i], cs[j]),
           \A i, j \in 1..Len(cs) : j = i + 1 => HandsTo(cs[i], cs[j]),
           \A i \in 1..Len(cs) : \A j \in 2..Len(calls[t]) : Precedes(cs[i], calls[t][j]),
           Len(cs) > 0 /\ Len(calls[t]) > 1 => HandsTo(cs[Len(cs)], calls[t][2])
    PROVE  CallsOf(t)'
<1> DEFINE n == Len(cs)
<1>1. /\ calls \in [Threads -> Seq(Calls)] /\ calls[t] \in Seq(Calls) /\ CallsOf(t)
      /\ n \in Nat /\ Len(calls[t]) \in Nat /\ Len(calls[t]) > 0
  BY DEF TypeOK, CallsTrue
<1>2. /\ calls'[t] \in Seq(Calls) /\ Len(calls'[t]) = n + (Len(calls[t]) - 1)
      /\ \A i \in 1..Len(calls'[t]) :
            calls'[t][i] = IF i <= n THEN cs[i] ELSE calls[t][(i - n) + 1]
  BY <1>1, Put DEF Puts
<1> HIDE DEF n
<1>3. \A i \in 1..Len(calls'[t]) : ~(i <= n) => (i - n) + 1 \in 2..Len(calls[t])
  BY <1>1, <1>2
<1>4. ASSUME NEW i \in 1..Len(calls'[t]) PROVE CallTrue(t, calls[t][i])'
  <2>1. PICK x \in Calls : x = calls'[t][i]
    BY <1>2
  <2>2. CASE i <= n
    <3>1. i \in 1..Len(cs) /\ x = cs[i]
      BY <1>1, <1>2, <2>1, <2>2 DEF n
    <3>2. CallTrue(t, x)'
      BY <3>1
    <3> QED
      BY <2>1, <3>2 DEF CallTrue
  <2>3. CASE ~(i <= n)
    <3>1. (i - n) + 1 \in 1..Len(calls[t]) /\ x = calls[t][(i - n) + 1]
      BY <1>1, <1>2, <1>3, <2>1, <2>3
    <3>2. CallTrue(t, x)
      BY <1>1, <3>1 DEF CallsOf
    <3>3. CallTrue(t, x)'
      BY <3>2, CallStays
    <3> QED
      BY <2>1, <3>3 DEF CallTrue
  <2> QED
    BY <2>2, <2>3
<1>5. ASSUME NEW i \in 1..Len(calls'[t]), NEW j \in 1..Len(calls'[t]), i < j
      PROVE  Precedes(calls'[t][i], calls'[t][j])
  <2>1. CASE j <= n
    BY <1>1, <1>2, <1>5, <2>1 DEF n
  <2>2. CASE i <= n /\ ~(j <= n)
    BY <1>1, <1>2, <1>3, <1>5, <2>2 DEF n
  <2>3. CASE ~(i <= n) /\ ~(j <= n)
    <3>1. /\ (i - n) + 1 \in 1..Len(calls[t]) /\ (j - n) + 1 \in 1..Len(calls[t])
          /\ (i - n) + 1 < (j - n) + 1
      BY <1>1, <1>2, <1>3, <1>5, <2>3
    <3> QED
      BY <1>1, <1>2, <2>3, <3>1 DEF CallsOf
  <2> QED
    BY <1>1, <1>2, <1>5, <2>1, <2>2, <2>3
<1>6. ASSUME NEW i \in 1..Len(calls'[t]), NEW j \in 1..Len(calls'[t]), j = i + 1
      PROVE  HandsTo(calls'[t][i], calls'[t][j])
  <2>1. CASE j <= n
    BY <1>1, <1>2, <1>6, <2>1 DEF n
  <2>2. CASE i <= n /\ ~(j <= n)
    <3>1. i = n /\ (j - n) + 1 = 2 /\ Len(calls[t]) > 1 /\ n > 0
      BY <1>1, <1>2, <1>3, <1>6, <2>2
    <3>2. calls'[t][i] = cs[n] /\ calls'[t][j] = calls[t][2]
      BY <1>2, <2>2, <3>1
    <3>3. HandsTo(cs[n], calls[t][2])
      BY <3>1 DEF n
    <3> QED
      BY <3>2, <3>3
  <2>3. CASE ~(i <= n) /\ ~(j <= n)
    <3>1. /\ (i - n) + 1 \in 1..Len(calls[t]) /\ (j - n) + 1 \in 1..Len(calls[t])
          /\ (j - n) + 1 = ((i - n) + 1) + 1
      BY <1>1, <1>2, <1>3, <1>6, <2>3
    <3> QED
      BY <1>1, <1>2, <2>3, <3>1 DEF CallsOf
  <2> QED
    BY <1>1, <1>2, <1>6, <2>1, <2>2, <2>3
<1>7. t \in Runs => status'[t] # None
  BY <1>1 DEF CallsOf, Grows
<1> QED
  BY <1>4, <1>5, <1>6, <1>7 DEF CallsOf

\* The call a thread is at, and the ones it is put before.
LEMMA Current ==
    ASSUME TypeOK, CallsTrue, NEW t \in Threads, calls[t] # <<>>
    PROVE  /\ calls[t] \in Seq(Calls) /\ Len(calls[t]) \in Nat /\ Len(calls[t]) > 0
           /\ Head(calls[t]) = calls[t][1] /\ Head(calls[t]) \in Calls /\ This(t) \in Runs
           /\ CallTrue(t, Head(calls[t]))
           /\ \A j \in 2..Len(calls[t]) : /\ calls[t][j] \in Calls
                                         /\ Precedes(Head(calls[t]), calls[t][j])
           /\ Len(calls[t]) > 1 => HandsTo(Head(calls[t]), calls[t][2])
<1>1. /\ calls[t] \in Seq(Calls) /\ CallsOf(t) /\ Len(calls[t]) \in Nat /\ Len(calls[t]) > 0
      /\ Head(calls[t]) = calls[t][1] /\ 1 \in 1..Len(calls[t])
  BY DEF TypeOK, CallsTrue
<1>2. Head(calls[t]) \in Calls
  BY <1>1
<1>3. CallTrue(t, Head(calls[t]))
  BY <1>1 DEF CallsOf
<1>4. \A j \in 2..Len(calls[t]) : calls[t][j] \in Calls /\ Precedes(Head(calls[t]), calls[t][j])
  BY <1>1 DEF CallsOf
<1>5. Len(calls[t]) > 1 => HandsTo(Head(calls[t]), calls[t][2])
  BY <1>1 DEF CallsOf
<1>6. This(t) \in Runs
  BY <1>2 DEF This, Calls
<1> QED
  BY <1>1, <1>2, <1>3, <1>4, <1>5, <1>6

\* The first call returns: the next one of the list is up.
LEMMA Returned ==
    ASSUME TypeOK, RunsTrue, CallsTrue, Grows, NEW t \in Threads, calls[t] # <<>>, Return(t) \/ Puts(t, <<>>)
    PROVE  /\ CallsOf(t)' /\ Len(calls'[t]) = Len(calls[t]) - 1
           /\ \A i \in 1..Len(calls'[t]) : calls'[t][i] = calls[t][i + 1] /\ i + 1 \in 2..Len(calls[t])
           /\ calls'[t] # <<>> => /\ Head(calls'[t]) = calls[t][2] /\ Len(calls[t]) > 1
                                  /\ Head(calls'[t]).op \in Later
                                  /\ HandsTo(Head(calls[t]), Head(calls'[t]))
                                  /\ Precedes(Head(calls[t]), Head(calls'[t]))
<1>1. Puts(t, <<>>) /\ <<>> \in Seq(Calls) /\ calls \in [Threads -> Seq(Calls)]
  BY DEF TypeOK, Puts, Return
<1>2. /\ calls'[t] \in Seq(Calls) /\ Len(calls'[t]) = Len(<<>>) + (Len(calls[t]) - 1)
      /\ \A i \in 1..Len(calls'[t]) :
            calls'[t][i] = IF i <= Len(<<>>) THEN (<<>>)[i] ELSE calls[t][(i - Len(<<>>)) + 1]
  BY <1>1, Put
<1>3. Len(calls[t]) \in Nat /\ Len(calls[t]) > 0
  BY Current
<1>4. Len(calls'[t]) = Len(calls[t]) - 1
  BY <1>2, <1>3
<1>5. \A i \in 1..Len(calls'[t]) : calls'[t][i] = calls[t][i + 1] /\ i + 1 \in 2..Len(calls[t])
  BY <1>2, <1>3, <1>4
<1>6. CallsOf(t)'
  <2> DEFINE cs == <<>>
  <2>1. cs \in Seq(Calls) /\ Puts(t, cs) /\ Len(cs) = 0 /\ \A i \in 1..Len(cs) : FALSE
    BY <1>1
  <2> HIDE DEF cs
  <2>2. /\ \A x \in Calls : (\E i \in 1..Len(cs) : x = cs[i]) => CallTrue(t, x)'
        /\ \A i, j \in 1..Len(cs) : i < j => Precedes(cs[i], cs[j])
        /\ \A i, j \in 1..Len(cs) : j = i + 1 => HandsTo(cs[i], cs[j])
        /\ \A i \in 1..Len(cs) : \A j \in 2..Len(calls[t]) : Precedes(cs[i], calls[t][j])
        /\ Len(cs) > 0 /\ Len(calls[t]) > 1 => HandsTo(cs[Len(cs)], calls[t][2])
    BY <2>1
  <2> QED
    BY <2>1, <2>2, ListStep
<1>7. ASSUME calls'[t] # <<>>
      PROVE  /\ Head(calls'[t]) = calls[t][2] /\ Len(calls[t]) > 1
             /\ Head(calls'[t]).op \in Later
             /\ HandsTo(Head(calls[t]), Head(calls'[t]))
             /\ Precedes(Head(calls[t]), Head(calls'[t]))
  <2>1. Head(calls'[t]) = calls'[t][1] /\ 1 \in 1..Len(calls'[t])
    BY <1>2, <1>7
  <2>2. Head(calls'[t]) = calls[t][2] /\ 2 \in 2..Len(calls[t]) /\ Len(calls[t]) > 1
    BY <1>3, <1>4, <1>5, <2>1
  <2> QED
    BY <2>2, Current DEF Precedes
<1> QED
  BY <1>2, <1>4, <1>5, <1>6, <1>7

\* A stage of CoreEngine.wait takes the place of the one before.
LEMMA Staged ==
    ASSUME TypeOK, RunsTrue, CallsTrue, Grows, NEW t \in Threads, NEW r \in Runs,
           calls[t] # <<>>, This(t) = r, Head(calls[t]).op \in Stages \cup {"enter"},
           NEW op \in Stages, Become(t, <<Call(op, r)>>)
    PROVE  /\ CallsOf(t)' /\ Len(calls'[t]) = Len(calls[t]) /\ calls'[t] # <<>>
           /\ Head(calls'[t]) = Call(op, r) /\ calls'[t][1] = Call(op, r)
           /\ \A i \in 2..Len(calls'[t]) : calls'[t][i] = calls[t][i]
           /\ \A u \in Threads \ {t} : calls'[u] = calls[u]
<1> DEFINE cs == <<Call(op, r)>>
<1>1. /\ Call(op, r) \in Calls /\ Call(op, r).op = op /\ Call(op, r).run = r
      /\ op \in Gives /\ op \notin Last /\ op # "leave" /\ op # "abort" /\ op \notin {"record", "recover"}
  BY DEF Call, Calls, Ops, Stages, Gives, Last, Statuses, None
<1>2. cs \in Seq(Calls) /\ Len(cs) = 1 /\ cs[1] = Call(op, r)
  BY <1>1
<1>3. calls \in [Threads -> Seq(Calls)]
  BY DEF TypeOK
<1>4. /\ calls'[t] \in Seq(Calls) /\ Len(calls'[t]) = Len(cs) + (Len(calls[t]) - 1)
      /\ \A i \in 1..Len(calls'[t]) :
            calls'[t][i] = IF i <= Len(cs) THEN cs[i] ELSE calls[t][(i - Len(cs)) + 1]
      /\ \A u \in Threads \ {t} : calls'[u] = calls[u]
  BY <1>2, <1>3, Replaced
<1> HIDE DEF cs
<1>5. /\ Len(calls[t]) \in Nat /\ Len(calls[t]) > 0
      /\ \A j \in 2..Len(calls[t]) : calls[t][j] \in Calls /\ Precedes(Head(calls[t]), calls[t][j])
      /\ Len(calls[t]) > 1 => HandsTo(Head(calls[t]), calls[t][2])
      /\ CallTrue(t, Head(calls[t]))
  BY Current
<1>6. /\ Len(calls'[t]) = Len(calls[t]) /\ calls'[t] # <<>> /\ calls'[t][1] = Call(op, r)
      /\ Head(calls'[t]) = calls'[t][1]
      /\ \A i \in 2..Len(calls'[t]) : calls'[t][i] = calls[t][i]
  <2>1. Len(calls'[t]) = Len(calls[t]) /\ 1 \in 1..Len(calls'[t])
    BY <1>2, <1>4, <1>5
  <2>2. calls'[t][1] = Call(op, r) /\ calls'[t] # <<>> /\ Head(calls'[t]) = calls'[t][1]
    BY <1>2, <1>4, <2>1
  <2>3. ASSUME NEW i \in 2..Len(calls'[t]) PROVE calls'[t][i] = calls[t][i]
    <3>1. i \in 1..Len(calls'[t]) /\ ~(i <= 1) /\ (i - 1) + 1 = i
      BY <1>5, <2>1
    <3> QED
      BY <1>2, <1>4, <3>1
  <2> QED
    BY <2>1, <2>2, <2>3
<1>7. CallTrue(t, Call(op, r))'
  <2>1. status[r] # None
    BY <1>5 DEF CallTrue, This, Stages
  <2>2. status'[r] # None
    BY <2>1 DEF Grows
  <2> QED
    BY <1>1, <2>2 DEF CallTrue, Stages
<1>8. \A j \in 2..Len(calls[t]) : Precedes(Call(op, r), calls[t][j])
  BY <1>1, <1>5 DEF Precedes, This
<1>9. Len(calls[t]) > 1 => HandsTo(Call(op, r), calls[t][2])
  BY <1>1, <1>5 DEF HandsTo, This
<1>10. CallsOf(t)'
  <2>1. \A x \in Calls : (\E i \in 1..Len(cs) : x = cs[i]) => x = Call(op, r)
    BY <1>2
  <2>2. \A x \in Calls : x = Call(op, r) => CallTrue(t, x)'
    BY <1>7 DEF CallTrue
  <2>3. \A i, j \in 1..Len(cs) : ~(i < j) /\ j # i + 1
    BY <1>2
  <2>4. Become(t, cs)
    BY DEF cs
  <2>5. \A x \in Calls : (\E i \in 1..Len(cs) : x = cs[i]) => CallTrue(t, x)'
    BY <2>1, <2>2
  <2>6. \A i \in 1..Len(cs) : \A j \in 2..Len(calls[t]) : Precedes(cs[i], calls[t][j])
    BY <1>2, <1>8
  <2>7. Len(cs) > 0 /\ Len(calls[t]) > 1 => HandsTo(cs[Len(cs)], calls[t][2])
    BY <1>2, <1>9
  <2> QED
    BY <1>2, <2>3, <2>4, <2>5, <2>6, <2>7, ListStep
<1> QED
  BY <1>4, <1>6, <1>10

(****************************** hands and locks ****************************)

LEMMA HandStays ==
    ASSUME NEW t \in Threads, NEW op \in Ops, NEW r \in Runs, NEW h \in Records,
           HandTrue(t, op, r, h), Grows, restored' = restored, calls'[t] = calls[t],
           op \in {"final", "merge"} => status'[r] = status[r]
    PROVE  HandTrue(t, op, r, h)'
<1>1. Unmarked(r) => Unmarked(r)'
  BY DEF Unmarked, Grows
<1>2. Settled(r) => Settled(r)'
  BY DEF Settled, Grows
<1>3. status[r] # None => status'[r] # None
  BY DEF Grows
<1> QED
  BY <1>1, <1>2, <1>3 DEF HandTrue

LEMMA HandsStep ==
    ASSUME TypeOK, CallsTrue, HandsTrue, LocksTrue, TypeOK', Grows, restored' = restored,
           NEW t \in Threads, Others(t), status' = status \/ engine \in {None, t},
           hand'[t].run # None => status'[hand'[t].run] # None,
           \A op \in Ops, r \in Runs, h \in Records :
              calls'[t] # <<>> /\ Head(calls'[t]).op = op /\ Head(calls'[t]).run = r
                 /\ hand'[t] = h => HandTrue(t, op, r, h)'
    PROVE  HandsTrue'
<1>5. ASSUME NEW u \in Threads, hand'[u].run # None PROVE status'[hand'[u].run] # None
  <2>1. CASE u = t
    BY <1>5, <2>1
  <2>2. CASE u # t
    <3>1. hand'[u] = hand[u]
      BY <2>2 DEF Others
    <3>2. hand[u].run \in Runs /\ status[hand[u].run] # None
      BY <1>5, <3>1 DEF TypeOK, Records, HandsTrue
    <3> QED
      BY <3>1, <3>2 DEF Grows
  <2> QED
    BY <2>1, <2>2
<1> SUFFICES ASSUME NEW u \in Threads, calls'[u] # <<>>
             PROVE  HandTrue(u, Head(calls[u]).op, This(u), hand[u])'
  BY <1>5 DEF HandsTrue
<1>1. calls'[u] \in Seq(Calls) /\ hand'[u] \in Records
  BY DEF TypeOK
<1>2. Head(calls'[u]) \in Calls
  BY <1>1
<1>3. PICK op \in Ops, r \in Runs, h \in Records :
          op = Head(calls'[u]).op /\ r = Head(calls'[u]).run /\ h = hand'[u]
  BY <1>1, <1>2 DEF Calls
<1>4. HandTrue(u, op, r, h)'
  <2>1. CASE u = t
    BY <1>3, <2>1
  <2>2. CASE u # t /\ calls'[u] = calls[u]
    <3>1. hand'[u] = hand[u]
      BY <2>2 DEF Others
    <3>2. calls[u] # <<>> /\ Head(calls[u]).op = op /\ This(u) = r /\ hand[u] = h
      BY <1>3, <2>2, <3>1 DEF This
    <3>3. HandTrue(u, op, r, h)
      BY <3>2 DEF HandsTrue
    <3>4. op \in {"final", "merge"} => engine = u
      BY <3>2 DEF LocksTrue, Now
    <3>5. op \in {"final", "merge"} => status' = status
      BY <2>2, <3>4, Names
    <3> QED
      BY <2>2, <3>3, <3>5, HandStays
  <2>3. CASE u # t /\ u \in Runs /\ calls'[u] = Loop(u)
    <3>1. Head(calls'[u]) = Call("enter", u)
      BY <2>3 DEF Loop
    <3>2. op = "enter"
      BY <1>3, <3>1 DEF Call
    <3> QED
      BY <3>2 DEF HandTrue, Stages
  <2> QED
    BY <2>1, <2>2, <2>3 DEF Others
<1> QED
  BY <1>3, <1>4 DEF HandTrue, This

LEMMA LocksStep ==
    ASSUME TypeOK, CallsTrue, LocksTrue, TypeOK', Grows, NEW t \in Threads, Others(t),
           \A u \in Threads \ {t} : /\ engine' = u <=> engine = u
                                    /\ harness' = u <=> harness = u
                                    /\ \A r \in Runs : observing'[r] = u <=> observing[r] = u,
           engine' = t <=> calls'[t] # <<>> /\ Head(calls'[t]).op \in {"final", "merge"},
           \A r \in Runs : observing'[r] = t <=> /\ calls'[t] # <<>> /\ Head(calls'[t]).run = r
                                                 /\ Head(calls'[t]).op \in Stages,
           \A i \in 1..Len(calls'[t]) :
              calls'[t][i].op \in {"recover", "account", "leave"} => harness' = t,
           Sources \subseteq managed /\ harness' = t =>
              /\ calls'[t] # <<>>
              /\ \/ Head(calls'[t]).op = "leave"
                 \/ /\ Head(calls'[t]).op = "recover"
                    /\ Len(calls'[t]) > 1 /\ calls'[t][2].op = "leave"
    PROVE  LocksTrue'
<1>1. ASSUME NEW u \in Threads \ {t}
      PROVE  \/ calls'[u] = calls[u]
             \/ /\ calls[u] = <<>> /\ calls'[u] # <<>> /\ Head(calls'[u]).op = "enter"
                /\ \A i \in 1..Len(calls'[u]) : calls'[u][i].op \in {"enter", "note"}
  <2>1. CASE u \in Runs /\ calls[u] = <<>> /\ calls'[u] = Loop(u)
    <3>1. /\ Len(calls'[u]) = 2 /\ calls'[u][1] = Call("enter", u)
          /\ calls'[u][2] = Call("note", u) /\ calls'[u] \in Seq(Calls)
      BY <2>1, LoopCalls
    <3>2. Call("enter", u).op = "enter" /\ Call("note", u).op = "note"
      BY DEF Call
    <3>3. Head(calls'[u]) = calls'[u][1] /\ calls'[u] # <<>>
      BY <3>1
    <3> QED
      BY <2>1, <3>1, <3>2, <3>3
  <2> QED
    BY <2>1 DEF Others
<1>2. \A u \in Threads : engine' = u <=> Now(u, "final")' \/ Now(u, "merge")'
  <2> SUFFICES ASSUME NEW u \in Threads PROVE engine' = u <=> Now(u, "final")' \/ Now(u, "merge")'
    OBVIOUS
  <2>1. CASE u = t
    BY <2>1 DEF Now
  <2>2. CASE u # t
    BY <1>1, <2>2 DEF Now, LocksTrue
  <2> QED
    BY <2>1, <2>2
<1>3. \A u \in Threads : \A r \in Runs :
          observing'[r] = u <=> \E op \in Stages : Now(u, op)' /\ This(u)' = r
  <2> SUFFICES ASSUME NEW u \in Threads, NEW r \in Runs
               PROVE  observing'[r] = u <=> \E op \in Stages : Now(u, op)' /\ This(u)' = r
    OBVIOUS
  <2>1. CASE u = t
    BY <2>1 DEF Now, This
  <2>2. CASE u # t
    BY <1>1, <2>2 DEF Now, This, LocksTrue, Stages
  <2> QED
    BY <2>1, <2>2
<1>4. \A u \in Threads : \A i \in 1..Len(calls'[u]) :
          calls'[u][i].op \in {"recover", "account", "leave"} => harness' = u
  BY <1>1 DEF LocksTrue
<1>5. Sources \subseteq managed' => Sources \subseteq managed
  BY Names DEF Grows
<1>6. Sources \subseteq managed => \A u \in Threads : harness' = u =>
          \/ Now(u, "leave")'
          \/ Now(u, "recover")' /\ Len(calls'[u]) > 1 /\ calls'[u][2].op = "leave"
  <2> SUFFICES ASSUME Sources \subseteq managed, NEW u \in Threads, harness' = u
               PROVE  \/ Now(u, "leave")'
                      \/ Now(u, "recover")' /\ Len(calls'[u]) > 1 /\ calls'[u][2].op = "leave"
    OBVIOUS
  <2>1. CASE u = t
    BY <2>1 DEF Now
  <2>2. CASE u # t
    BY <1>1, <2>2 DEF Now, LocksTrue
  <2> QED
    BY <2>1, <2>2
<1> QED
  BY <1>2, <1>3, <1>4, <1>5, <1>6 DEF LocksTrue

(*************************** runs and accounting ***************************)

\* A step that creates no run: at most it settles one that is live.
Steady ==
    /\ \A r \in Runs : \/ status'[r] = status[r]
                       \/ status[r] = "RUNNING" /\ status'[r] \in Terminal \ {"DENIED"}
    /\ UNCHANGED <<managed, order, origin, stillborn, mode>>
    /\ lost \subseteq lost' /\ lost' \subseteq Children

LEMMA SteadyGrows ==
    ASSUME TypeOK, Steady
    PROVE  Grows
<1>1. \A r \in Runs : Settled(r) => status'[r] = status[r]
  BY DEF Steady, Settled, Terminal
<1>2. \A r \in Runs : status[r] # None => status'[r] # None
  BY DEF Steady, Terminal, None
<1> QED
  BY <1>1, <1>2 DEF Steady, Grows

LEMMA RunsStay ==
    ASSUME TypeOK, RunsTrue, ChildHasGround, NoChain, OnceTrue, Steady,
           \A s \in Runs : s \in Sources \/ status[s] = None => account'[s] = account[s],
           jobs' \subseteq Runs, started' \subseteq Runs, \A r \in jobs' \cup started' : status[r] # None
    PROVE  RunsTrue' /\ ChildHasGround' /\ NoChain' /\ OnceTrue'
<1>1. \A r \in Runs : status'[r] # None <=> status[r] # None
  BY DEF Steady, Terminal, None
<1>2. RunsTrue'
  <2>1. \A r \in Runs : status'[r] # None => \E i \in 1..Len(order') : order'[i] = r
    BY <1>1 DEF RunsTrue, Steady
  <2>2. \A r \in Runs : origin'[r] # None <=> r \in Children /\ status'[r] # None
    BY <1>1 DEF RunsTrue, Steady
  <2>3. (\A r \in managed' : r \in Sources \/ status'[r] # None)
       /\ \A r \in jobs' \cup started' : status'[r] # None
    BY <1>1 DEF RunsTrue, Steady, TypeOK
  <2>4. (\A r \in Runs : r \in Sources \/ status'[r] = None => account'[r] = NoAccount)
        /\ (Sources \subseteq managed' => \A r \in Runs : status'[r] # None => r \in managed')
    BY <1>1 DEF RunsTrue, Steady
  <2> QED
    BY <2>1, <2>2, <2>3, <2>4 DEF RunsTrue
<1>3. ChildHasGround'
  <2> SUFFICES ASSUME NEW c \in Children, origin[c] # None
               PROVE  IF origin[c] \in managed
                      THEN status'[origin[c]] = "CANCELLED" /\ mode = "auto" /\ c \in managed
                      ELSE status'[origin[c]] = "FAIL" /\ c \notin managed
    BY DEF ChildHasGround, Steady
  <2>1. origin[c] \in Runs
    BY Names DEF TypeOK
  <2> QED
    BY <2>1 DEF ChildHasGround, Steady
<1>4. NoChain'
  BY DEF NoChain, Steady
<1>5. OnceTrue'
  <2> SUFFICES ASSUME Scanned, NEW r \in Runs
               PROVE  /\ \A c, d \in ChildrenOf(r)' :
                            status'[c] # "DENIED" /\ status'[d] # "DENIED" => c = d
                      /\ IsFiniteSet(ChildrenOf(r)') /\ Cardinality(ChildrenOf(r)') <= MaxDispatches
    BY DEF OnceTrue, Scanned, Steady
  <2>1. ChildrenOf(r)' \subseteq ChildrenOf(r) /\ ChildrenOf(r) \subseteq Runs
    BY Names DEF ChildrenOf, Steady
  <2>2. /\ \A c, d \in ChildrenOf(r) : status[c] # "DENIED" /\ status[d] # "DENIED" => c = d
        /\ IsFiniteSet(ChildrenOf(r)) /\ Cardinality(ChildrenOf(r)) <= MaxDispatches
    BY DEF OnceTrue
  <2>3. \A c \in Runs : status'[c] # "DENIED" => status[c] # "DENIED"
    BY DEF Steady
  <2>4. /\ IsFiniteSet(ChildrenOf(r)')
        /\ Cardinality(ChildrenOf(r)') <= Cardinality(ChildrenOf(r))
        /\ Cardinality(ChildrenOf(r)') \in Nat /\ Cardinality(ChildrenOf(r)) \in Nat
    BY <2>1, <2>2, FS_Subset, FS_CardinalityType
  <2>5. Cardinality(ChildrenOf(r)') <= MaxDispatches
    BY <2>2, <2>4, BoundsAssumption
  <2> QED
    BY <2>1, <2>2, <2>3, <2>4, <2>5
<1> QED
  BY <1>2, <1>3, <1>4, <1>5

LEMMA AccountsStep ==
    ASSUME TypeOK, RunsTrue, AccountsTrue, Steady, NEW t \in Threads, Others(t),
           \A c \in Children \ lost' : account'[c] = account[c],
           \A c \in Children : Due(t, c) => Due(t, c)',
           \A x \in Calls : x.op = "account" /\ (\E i \in 1..Len(calls'[t]) : calls'[t][i] = x)
                              => \E i \in 1..Len(calls[t]) : calls[t][i] = x,
           \A u \in Threads, x \in Calls :
              x.op = "account" /\ x.with \notin stillborn
                /\ (\E i \in 1..Len(calls[u]) : calls[u][i] = x) => status'[x.with] = status[x.with],
           calls' \in [Threads -> Seq(Calls)]
    PROVE  AccountsTrue'
<1>1. ASSUME NEW c \in Children \ lost', origin'[c] # None
      PROVE  \/ account'[c] = Accounting(c)'
             \/ account'[c] = NoAccount /\ \E u \in Threads : Due(u, c)'
  <2>1. c \in Children /\ c \in Runs /\ c \notin lost /\ origin[c] # None /\ origin'[c] = origin[c]
    BY <1>1, Names DEF Steady
  <2>2. Accounting(c)' = Accounting(c)
    BY <2>1 DEF Accounting, Steady
  <2>3. ASSUME NEW u \in Threads, Due(u, c) PROVE Due(u, c)'
    <3>1. CASE u = t
      BY <2>1, <2>3, <3>1
    <3>2. CASE calls'[u] = calls[u]
      BY <2>1, <2>3, <3>2 DEF Due
    <3>3. CASE calls[u] = <<>>
      BY <2>3, <3>3 DEF Due
    <3> QED
      BY <3>1, <3>2, <3>3 DEF Others
  <2> QED
    BY <2>1, <2>2, <2>3 DEF AccountsTrue
<1>2. ASSUME NEW u \in Threads, NEW i \in 1..Len(calls'[u]),
             calls'[u][i].op = "account", calls'[u][i].with \notin stillborn'
      PROVE  status'[calls'[u][i].with] = "RUNNING"
  <2>1. PICK x \in Calls : x = calls'[u][i]
    OBVIOUS
  <2>2. \E j \in 1..Len(calls[u]) : calls[u][j] = x
    <3>1. CASE u = t
      BY <1>2, <2>1, <3>1
    <3>2. CASE calls'[u] = calls[u]
      BY <2>1, <3>2
    <3>3. CASE u \in Runs /\ calls'[u] = Loop(u)
      <4>1. x \in {Call("enter", u), Call("note", u)}
        BY <2>1, <3>3, LoopCalls
      <4> QED
        BY <1>2, <2>1, <4>1 DEF Call
    <3> QED
      BY <3>1, <3>2, <3>3 DEF Others
  <2>3. x.op = "account" /\ x.with \notin stillborn
    BY <1>2, <2>1 DEF Steady
  <2>4. status[x.with] = "RUNNING"
    BY <2>2, <2>3 DEF AccountsTrue
  <2> QED
    BY <2>1, <2>2, <2>3, <2>4
<1> QED
  BY <1>1, <1>2 DEF AccountsTrue

\* The observer of a live run keeps its last call, and no record of one is dropped.
LEMMA LiveKept ==
    ASSUME TypeOK, CallsTrue, LiveTrue, NEW t \in Threads, Others(t),
           calls[t] # <<>> => Head(calls[t]).op \notin {"record", "note"}, started' = started,
           t \in Runs => calls[t] # <<>> /\ \E cs \in Seq(Calls) : Become(t, cs),
           NEW r \in Runs, status[r] = "RUNNING"
    PROVE  /\ Observed(r)' \/ \E u \in Threads : Now(u, "record")' /\ This(u)' = r
           /\ Observed(r)' => calls'[r][Len(calls'[r])].op = "note"
           /\ r \in started' => Observed(r)'
<1>1. r \in Live /\ r \in Threads
  BY Names DEF Live
<1>2. Observed(r) => Observed(r)'
  <2>1. CASE r # t
    BY <1>1, <2>1 DEF Others, Observed
  <2>2. CASE r = t /\ Observed(r)
    <3>1. PICK cs \in Seq(Calls) : calls[t] # <<>> /\ Become(t, cs)
      BY <2>2
    <3>2. calls \in [Threads -> Seq(Calls)]
      BY DEF TypeOK
    <3>3. calls[t][Len(calls[t])].op = "note"
      BY <1>1, <2>2 DEF LiveTrue
    <3>4. Len(calls[t]) > 1
      BY <3>1, <3>3, Current
    <3>5. Len(calls'[t]) = Len(cs) + (Len(calls[t]) - 1) /\ Len(cs) \in Nat /\ calls'[t] \in Seq(Calls)
      BY <3>1, <3>2, Replaced
    <3>6. Len(calls'[t]) > 0
      BY <3>4, <3>5, Current
    <3> QED
      BY <2>2, <3>5, <3>6 DEF Observed
  <2> QED
    BY <2>1, <2>2
<1>3. Observed(r)' => calls'[r][Len(calls'[r])].op = "note"
  <2>1. CASE r # t /\ calls'[r] = calls[r]
    BY <1>1, <2>1 DEF LiveTrue, Observed
  <2>2. CASE r # t /\ calls'[r] = Loop(r)
    <3>1. Len(calls'[r]) = 2 /\ calls'[r][2] = Call("note", r)
      BY <2>2, LoopCalls
    <3> QED
      BY <3>1 DEF Call
  <2>3. CASE r = t
    <3>1. PICK cs \in Seq(Calls) : calls[t] # <<>> /\ Become(t, cs)
      BY <2>3
    <3>2. calls \in [Threads -> Seq(Calls)]
      BY DEF TypeOK
    <3>3. calls[t][Len(calls[t])].op = "note"
      BY <1>1, <2>3 DEF LiveTrue, Observed
    <3>4. Len(calls[t]) > 1 /\ Len(calls[t]) \in Nat
      BY <3>1, <3>3, Current
    <3>5. /\ Len(calls'[t]) = Len(cs) + (Len(calls[t]) - 1) /\ Len(cs) \in Nat
          /\ \A i \in 1..Len(calls'[t]) :
                calls'[t][i] = IF i <= Len(cs) THEN cs[i] ELSE calls[t][(i - Len(cs)) + 1]
      BY <3>1, <3>2, Replaced
    <3> DEFINE n == Len(calls'[t])
    <3>6. n \in 1..n /\ ~(n <= Len(cs)) /\ (n - Len(cs)) + 1 = Len(calls[t])
      BY <3>4, <3>5
    <3>7. calls'[t][n] = calls[t][Len(calls[t])]
      BY <3>5, <3>6
    <3> QED
      BY <2>3, <3>3, <3>7
  <2> QED
    BY <1>1, <2>1, <2>2, <2>3 DEF Others
<1>4. ASSUME NEW u \in Threads, Now(u, "record"), This(u) = r
      PROVE  Now(u, "record")' /\ This(u)' = r
  <2>1. u # t /\ calls[u] # <<>>
    BY <1>4 DEF Now
  <2>2. calls'[u] = calls[u]
    BY <2>1 DEF Others
  <2> QED
    BY <1>4, <2>2 DEF Now, This
<1> QED
  BY <1>1, <1>2, <1>3, <1>4 DEF LiveTrue

LEMMA LiveStep ==
    ASSUME TypeOK, CallsTrue, LiveTrue, Steady, NEW t \in Threads, Others(t),
           calls[t] # <<>> => Head(calls[t]).op \notin {"record", "note"}, started' = started,
           t \in Runs => calls[t] # <<>> /\ \E cs \in Seq(Calls) : Become(t, cs)
    PROVE  LiveTrue'
<1> SUFFICES ASSUME NEW r \in Runs, status'[r] = "RUNNING"
             PROVE  /\ Observed(r)' \/ \E u \in Threads : Now(u, "record")' /\ This(u)' = r
                    /\ Observed(r)' => calls'[r][Len(calls'[r])].op = "note"
                    /\ r \in started' => Observed(r)'
  BY DEF LiveTrue, Live
<1>1. status[r] = "RUNNING"
  BY DEF Steady, Terminal
<1> QED
  BY <1>1, LiveKept

(****************************** kinds of steps *****************************)

\* A child of the recovery lane whose accounting is not pending is accounted for.
LEMMA Marked ==
    ASSUME IndInv, NEW r \in Runs, status[r] # None,
           \A t \in Threads, x \in Calls :
              x.op = "account" /\ x.with = r => ~\E i \in 1..Len(calls[t]) : calls[t][i] = x
    PROVE  account[r].kind = "recovery" \/ Unmarked(r)
<1> SUFFICES ASSUME r \in Children, r \notin managed, r \notin stillborn, r \notin lost
             PROVE  account[r].kind = "recovery"
  BY DEF Unmarked
<1>2. origin[r] # None /\ origin[r] \in Runs
  BY DEF IndInv, RunsTrue, TypeOK
<1>3. origin[r] \notin managed
  BY <1>2 DEF IndInv, ChildHasGround
<1>4. CASE account[r] = Accounting(r)
  BY <1>3, <1>4 DEF Accounting
<1>5. ASSUME NEW t \in Threads, Due(t, r) PROVE FALSE
  <2>1. PICK i \in 1..Len(calls[t]) :
            calls[t][i] \in {CallWith("account", origin[r], r), CallWith("waccount", origin[r], r)}
    BY <1>5 DEF Due
  <2>2. CallTrue(t, calls[t][i]) /\ calls[t] \in Seq(Calls)
    BY DEF IndInv, CallsTrue, CallsOf, TypeOK
  <2>3. calls[t][i] = CallWith("account", origin[r], r) /\ calls[t][i] \in Calls
    BY <1>3, <2>1, <2>2 DEF CallTrue, CallWith
  <2>4. calls[t][i].op = "account" /\ calls[t][i].with = r
    BY <2>3 DEF CallWith
  <2> QED
    BY <2>3, <2>4
<1> QED
  BY <1>2, <1>4, <1>5 DEF IndInv, AccountsTrue

LEMMA SettledMarked ==
    ASSUME IndInv, NEW r \in Runs, Settled(r)
    PROVE  account[r].kind = "recovery" \/ Unmarked(r)
<1>1. status[r] # None /\ status[r] # "RUNNING"
  BY DEF Settled, Terminal, None
<1>2. CASE r \in stillborn
  BY <1>2 DEF Unmarked
<1>3. CASE r \notin stillborn
  BY <1>1, <1>3, Marked DEF IndInv, AccountsTrue
<1> QED
  BY <1>2, <1>3

\* What a returning call leaves in the hand is true of the record or note it is for.
LEMMA ReturnHands ==
    ASSUME TypeOK, RunsTrue, CallsTrue, Grows, NEW t \in Threads, calls[t] # <<>>, Return(t) \/ Puts(t, <<>>),
           NEW r \in Runs, r = This(t), NEW h \in Records, hand'[t] = h,
           Head(calls[t]).op \in Gives =>
              /\ h.run = r /\ status'[r] # None
              /\ h.status \in Terminal => Settled(r)' /\ (h.account.kind = "recovery" \/ Unmarked(r)')
    PROVE  \A op \in Ops, q \in Runs, g \in Records :
              calls'[t] # <<>> /\ Head(calls'[t]).op = op /\ Head(calls'[t]).run = q
                 /\ hand'[t] = g => HandTrue(t, op, q, g)'
<1> SUFFICES ASSUME NEW op \in Ops, NEW q \in Runs, NEW g \in Records,
                    calls'[t] # <<>>, Head(calls'[t]).op = op, Head(calls'[t]).run = q, hand'[t] = g
             PROVE  HandTrue(t, op, q, g)'
  OBVIOUS
<1>1. op \in Later /\ g = h /\ HandsTo(Head(calls[t]), Head(calls'[t]))
  BY Returned
<1>2. op \notin Stages /\ op # "recover" /\ op # "dispatch"
  BY <1>1 DEF Later, Stages
<1>3. op \in {"record", "note"} => Head(calls[t]).op \in Gives /\ q = r
  BY <1>1 DEF HandsTo, This
<1> QED
  BY <1>1, <1>2, <1>3 DEF HandTrue, Stages

\* A call that is not an accounting returns, or is replaced by ones that are none.
LEMMA DuesKept ==
    ASSUME TypeOK, CallsTrue, NEW t \in Threads, calls[t] # <<>>, NEW cs \in Seq(Calls),
           Become(t, cs) \/ Puts(t, cs),
           Head(calls[t]).op \notin {"account", "waccount"},
           \A i \in 1..Len(cs) : cs[i].op \notin {"account", "waccount"},
           UNCHANGED origin
    PROVE  /\ \A c \in Children : Due(t, c) => Due(t, c)'
           /\ \A x \in Calls : x.op = "account" /\ (\E i \in 1..Len(calls'[t]) : calls'[t][i] = x)
                                 => \E i \in 1..Len(calls[t]) : calls[t][i] = x
<1> DEFINE n == Len(cs)
<1>1. /\ Len(calls'[t]) = n + (Len(calls[t]) - 1) /\ n \in Nat
      /\ \A i \in 1..Len(calls'[t]) :
            calls'[t][i] = IF i <= n THEN cs[i] ELSE calls[t][(i - n) + 1]
  <2>1. calls \in [Threads -> Seq(Calls)]
    BY DEF TypeOK
  <2>2. Puts(t, cs)
    BY DEF Puts
  <2> QED
    BY <2>1, <2>2, Put
<1>2. Len(calls[t]) \in Nat /\ Len(calls[t]) > 0 /\ Head(calls[t]) = calls[t][1]
  BY Current
<1> HIDE DEF n
<1>3. ASSUME NEW c \in Children, Due(t, c) PROVE Due(t, c)'
  <2>1. PICK i \in 1..Len(calls[t]) :
            calls[t][i] \in {CallWith("account", origin[c], c), CallWith("waccount", origin[c], c)}
    BY <1>3 DEF Due
  <2>2. i # 1
    BY <1>2, <2>1 DEF CallWith
  <2>3. /\ (i - 1) + n \in 1..Len(calls'[t]) /\ ~((i - 1) + n <= n)
        /\ (((i - 1) + n) - n) + 1 = i
    <3> DEFINE k == Len(calls[t])
    <3>1. n \in Nat /\ k \in Nat /\ i \in 1..k /\ Len(calls'[t]) = n + (k - 1)
      BY <1>1, <1>2
    <3> HIDE DEF k
    <3> QED
      BY <2>2, <3>1, Shift
  <2>4. calls'[t][(i - 1) + n] = calls[t][i]
    BY <1>1, <2>3
  <2> QED
    BY <2>1, <2>3, <2>4 DEF Due
<1>4. ASSUME NEW x \in Calls, x.op = "account", NEW i \in 1..Len(calls'[t]), calls'[t][i] = x
      PROVE  \E j \in 1..Len(calls[t]) : calls[t][j] = x
  <2>1. ~(i <= n)
    BY <1>1, <1>4 DEF n
  <2>2. (i - n) + 1 \in 1..Len(calls[t]) /\ calls[t][(i - n) + 1] = x
    BY <1>1, <1>2, <1>4, <2>1
  <2> QED
    BY <2>2
<1> QED
  BY <1>3, <1>4

\* The hypotheses of LocksStep for a call that takes and gives no lock.
LEMMA LocksSame ==
    ASSUME TypeOK, CallsTrue, LocksTrue, TypeOK', Grows, NEW t \in Threads, Others(t),
           calls[t] # <<>>, NEW cs \in Seq(Calls), Become(t, cs) \/ Puts(t, cs), UNCHANGED locks,
           Head(calls[t]).op \notin Stages \cup {"recover", "leave"},
           \A i \in 1..Len(cs) : cs[i].op \notin Stages \cup {"recover", "leave", "account"}
    PROVE  LocksTrue'
<1>1. UNCHANGED <<harness, engine, observing>>
  BY DEF locks
<1>3. \A r \in Runs : observing[r] # t
  BY DEF LocksTrue, Now
<1>4. /\ Len(calls'[t]) = Len(cs) + (Len(calls[t]) - 1) /\ Len(cs) \in Nat /\ calls'[t] \in Seq(Calls)
      /\ \A i \in 1..Len(calls'[t]) :
            calls'[t][i] = IF i <= Len(cs) THEN cs[i] ELSE calls[t][(i - Len(cs)) + 1]
  <2>1. calls \in [Threads -> Seq(Calls)]
    BY DEF TypeOK
  <2>2. Puts(t, cs)
    BY DEF Puts
  <2> QED
    BY <2>1, <2>2, Put
<1>5. /\ Len(calls[t]) \in Nat /\ Len(calls[t]) > 0
      /\ \A j \in 2..Len(calls[t]) : Precedes(Head(calls[t]), calls[t][j])
  BY Current
<1>6. \A i \in 1..Len(calls'[t]) : ~(i <= Len(cs)) =>
          (i - Len(cs)) + 1 \in 2..Len(calls[t]) /\ calls'[t][i] = calls[t][(i - Len(cs)) + 1]
  <2>1. \A i \in 1..Len(calls'[t]) : ~(i <= Len(cs)) => (i - Len(cs)) + 1 \in 2..Len(calls[t])
    BY <1>4, <1>5
  <2> QED
    BY <1>4, <2>1
<1>7. \A i \in 1..Len(calls'[t]) : calls'[t][i].op \notin Stages
  <2> SUFFICES ASSUME NEW i \in 1..Len(calls'[t]) PROVE calls'[t][i].op \notin Stages
    OBVIOUS
  <2>1. CASE i <= Len(cs)
    BY <1>4, <2>1
  <2>2. CASE ~(i <= Len(cs))
    <3>1. Precedes(Head(calls[t]), calls'[t][i])
      BY <1>5, <1>6, <2>2
    <3> QED
      BY <3>1 DEF Precedes, Later, Stages
  <2> QED
    BY <2>1, <2>2
<1>8. calls'[t] # <<>> => Head(calls'[t]).op \notin Stages
  BY <1>4, <1>7
<1>9. \A i \in 1..Len(calls'[t]) :
          calls'[t][i].op \in {"recover", "account", "leave"} => harness' = t
  <2> SUFFICES ASSUME NEW i \in 1..Len(calls'[t]),
                      calls'[t][i].op \in {"recover", "account", "leave"}
               PROVE  harness' = t
    OBVIOUS
  <2>1. ~(i <= Len(cs))
    BY <1>4
  <2>2. (i - Len(cs)) + 1 \in 1..Len(calls[t]) /\ calls'[t][i] = calls[t][(i - Len(cs)) + 1]
    BY <1>5, <1>6, <2>1
  <2> QED
    BY <1>1, <2>2 DEF LocksTrue
<1>10. engine # t
  BY DEF LocksTrue, Now, Stages
<1>11. Sources \subseteq managed => harness' # t
  BY <1>1 DEF LocksTrue, Now
<1> QED
  BY <1>1, <1>3, <1>8, <1>9, <1>10, <1>11, LocksStep DEF Stages

\* Both for a call that only returns.
LEMMA ReturnKeeps ==
    ASSUME TypeOK, CallsTrue, NEW t \in Threads, calls[t] # <<>>, Return(t) \/ Puts(t, <<>>),
           Head(calls[t]).op \notin {"account", "waccount"}, UNCHANGED origin
    PROVE  /\ \A c \in Children : Due(t, c) => Due(t, c)'
           /\ \A x \in Calls : x.op = "account" /\ (\E i \in 1..Len(calls'[t]) : calls'[t][i] = x)
                                 => \E i \in 1..Len(calls[t]) : calls[t][i] = x
<1> DEFINE cs == <<>>
<1>1. cs \in Seq(Calls) /\ Puts(t, cs) /\ \A i \in 1..Len(cs) : FALSE
  BY DEF Puts, Return
<1> HIDE DEF cs
<1>2. \A i \in 1..Len(cs) : cs[i].op \notin {"account", "waccount"}
  BY <1>1
<1> QED
  BY <1>1, <1>2, DuesKept

LEMMA ReturnLocks ==
    ASSUME TypeOK, CallsTrue, LocksTrue, TypeOK', Grows, NEW t \in Threads, Others(t),
           calls[t] # <<>>, Return(t) \/ Puts(t, <<>>), UNCHANGED locks,
           Head(calls[t]).op \notin Stages \cup {"recover", "leave"}
    PROVE  LocksTrue'
<1> DEFINE cs == <<>>
<1>1. cs \in Seq(Calls) /\ Puts(t, cs) /\ \A i \in 1..Len(cs) : FALSE
  BY DEF Puts, Return
<1> HIDE DEF cs
<1>2. \A i \in 1..Len(cs) : cs[i].op \notin Stages \cup {"recover", "leave", "account"}
  BY <1>1
<1> QED
  BY <1>1, <1>2, LocksSame

\* Everything but the lists, hands and locks of the thread itself, for a step that
\* neither creates a run nor writes an accounting.
LEMMA SteadyRest ==
    ASSUME IndInv, TypeOK', Steady, NEW t \in Threads, Others(t),
           hand'[t].run # None => status'[hand'[t].run] # None,
           \A s \in Runs : s \in Sources \/ status[s] = None => account'[s] = account[s],
           \A r \in jobs' \cup started' : status[r] # None,
           \A c \in Children \ lost' : account'[c] = account[c], UNCHANGED restored,
           CallsOf(t)', LocksTrue', status' = status \/ engine \in {None, t},
           \A op \in Ops, r \in Runs, h \in Records :
              calls'[t] # <<>> /\ Head(calls'[t]).op = op /\ Head(calls'[t]).run = r
                 /\ hand'[t] = h => HandTrue(t, op, r, h)',
           \A c \in Children : Due(t, c) => Due(t, c)',
           \A x \in Calls : x.op = "account" /\ (\E i \in 1..Len(calls'[t]) : calls'[t][i] = x)
                              => \E i \in 1..Len(calls[t]) : calls[t][i] = x,
           status' = status \/
              \A u \in Threads, x \in Calls :
                 x.op = "account" /\ x.with \notin stillborn
                   /\ (\E i \in 1..Len(calls[u]) : calls[u][i] = x) => status'[x.with] = status[x.with],
           LiveTrue'
    PROVE  IndInv'
<1>1. Grows
  BY SteadyGrows DEF IndInv
<1>2. CallsTrue'
  <2> SUFFICES ASSUME NEW u \in Threads PROVE CallsOf(u)'
    BY DEF CallsTrue
  <2>1. CASE u = t
    BY <2>1 DEF CallsOf, CallTrue
  <2>2. CASE u # t
    BY <1>1, <2>2, OtherCalls DEF IndInv
  <2> QED
    BY <2>1, <2>2
<1>3. HandsTrue'
  BY <1>1, HandsStep DEF IndInv
<1>4. RunsTrue' /\ ChildHasGround' /\ NoChain' /\ OnceTrue'
  <2>1. jobs' \subseteq Runs /\ started' \subseteq Runs
    BY DEF TypeOK
  <2> QED
    BY <2>1, RunsStay DEF IndInv
<1>5. AccountsTrue'
  <2>1. calls' \in [Threads -> Seq(Calls)]
    BY DEF TypeOK
  <2> QED
    BY <2>1, AccountsStep DEF IndInv
<1> QED
  BY <1>2, <1>3, <1>4, <1>5 DEF IndInv

LEMMA SteadyStep ==
    ASSUME IndInv, TypeOK', Steady, NEW t \in Threads, Others(t),
           calls[t] # <<>> => Head(calls[t]).op \notin {"record", "note"},
           hand'[t].run # None => status'[hand'[t].run] # None,
           \A s \in Runs : s \in Sources \/ status[s] = None => account'[s] = account[s],
           jobs' \subseteq jobs,
           \A c \in Children \ lost' : account'[c] = account[c], UNCHANGED <<restored, started>>,
           CallsOf(t)', LocksTrue', status' = status \/ engine \in {None, t},
           \A op \in Ops, r \in Runs, h \in Records :
              calls'[t] # <<>> /\ Head(calls'[t]).op = op /\ Head(calls'[t]).run = r
                 /\ hand'[t] = h => HandTrue(t, op, r, h)',
           \A c \in Children : Due(t, c) => Due(t, c)',
           \A x \in Calls : x.op = "account" /\ (\E i \in 1..Len(calls'[t]) : calls'[t][i] = x)
                              => \E i \in 1..Len(calls[t]) : calls[t][i] = x,
           status' = status \/
              \A u \in Threads, x \in Calls :
                 x.op = "account" /\ x.with \notin stillborn
                   /\ (\E i \in 1..Len(calls[u]) : calls[u][i] = x) => status'[x.with] = status[x.with],
           t \in Runs => calls[t] # <<>> /\ \E cs \in Seq(Calls) : Become(t, cs)
    PROVE  IndInv'
<1>1. LiveTrue'
  BY LiveStep DEF IndInv
<1>2. \A r \in jobs' \cup started' : status[r] # None
  BY DEF IndInv, RunsTrue
<1> QED
  BY <1>1, <1>2, SteadyRest

LEMMA ReplacedOthers ==
    ASSUME TypeOK, NEW t \in Threads, calls[t] # <<>>, NEW cs \in Seq(Calls), Become(t, cs),
           NEW h \in Records, Hold(t, h)
    PROVE  Others(t) /\ hand'[t] = h /\ hand' \in [Threads -> Records]
<1>1. calls \in [Threads -> Seq(Calls)] /\ hand \in [Threads -> Records]
  BY DEF TypeOK
<1>2. hand' = [hand EXCEPT ![t] = h]
  BY DEF Hold
<1>3. \A u \in Threads \ {t} : calls'[u] = calls[u]
  BY <1>1, Replaced
<1> QED
  BY <1>1, <1>2, <1>3 DEF Others

LEMMA ReturnOthers ==
    ASSUME TypeOK, NEW t \in Threads, calls[t] # <<>>, Return(t), NEW h \in Records, Hold(t, h)
    PROVE  /\ Others(t) /\ hand'[t] = h /\ hand' \in [Threads -> Records]
           /\ calls' \in [Threads -> Seq(Calls)] /\ \E cs \in Seq(Calls) : Become(t, cs)
<1> DEFINE cs == <<>>
<1>1. cs \in Seq(Calls) /\ Become(t, cs) /\ calls \in [Threads -> Seq(Calls)]
  BY DEF Return, TypeOK
<1> HIDE DEF cs
<1> QED
  BY <1>1, Replaced, ReplacedOthers

LEMMA RecordOf ==
    ASSUME TypeOK, NEW r \in Runs
    PROVE  /\ Record(r) \in Records /\ Record(r).run = r /\ Record(r).status = status[r]
           /\ Record(r).account = account[r] /\ Record(r).escalated = (r \in escalated)
           /\ \A s \in Statuses \cup {"DRIFT"} :
                 /\ [Record(r) EXCEPT !.status = s] \in Records
                 /\ [Record(r) EXCEPT !.status = s].run = r
                 /\ [Record(r) EXCEPT !.status = s].status = s
                 /\ [Record(r) EXCEPT !.status = s].account = account[r]
<1>1. status[r] \in Statuses /\ account[r] \in Accounts
  BY DEF TypeOK
<1>2. (r \in escalated) \in BOOLEAN
  OBVIOUS
<1> QED
  BY <1>1, <1>2 DEF Record, Records

LEMMA RecordWith ==
    ASSUME TypeOK, NEW r \in Runs, NEW s \in Statuses \cup {"DRIFT"}
    PROVE  \E h \in Records : /\ h = [Record(r) EXCEPT !.status = s] /\ h.run = r /\ h.status = s
                              /\ h.account = account[r]
<1> DEFINE g == [Record(r) EXCEPT !.status = s]
<1>1. g \in Records /\ g.run = r /\ g.status = s /\ g.account = account[r]
  BY RecordOf
<1> QED
  BY <1>1

(************************** the stages of a wait ***************************)

LEMMA EnterStep ==
    ASSUME IndInv, NEW t \in Threads, Enter(t)
    PROVE  IndInv'
<1>1. PICK r \in Runs : r = This(t)
  BY Current DEF IndInv, Enter, Now
<1>2. /\ TypeOK /\ CallsTrue /\ RunsTrue /\ LocksTrue /\ calls[t] # <<>>
      /\ Head(calls[t]).op = "enter" /\ observing[r] = None /\ status[r] # None
  <2>1. TypeOK /\ CallsTrue /\ RunsTrue /\ LocksTrue /\ calls[t] # <<>>
        /\ Head(calls[t]).op = "enter" /\ observing[r] = None
    BY <1>1 DEF IndInv, Enter, Now
  <2> QED
    BY <1>1, <2>1, Current DEF CallTrue, This
<1>3. UNCHANGED <<durable, harness, engine, started, intents, restored, jobs, mode, ghosts, crashes>>
  BY DEF Enter
<1>4. Steady /\ Grows
  BY <1>2, <1>3, SteadyGrows DEF Steady, durable, ghosts, TypeOK
<1>5. CASE Settled(r)
  <2>1. Hold(t, Record(r)) /\ Return(t) /\ UNCHANGED observing
    BY <1>1, <1>5 DEF Enter
  <2>2. /\ Become(t, <<>>) /\ <<>> \in Seq(Calls) /\ Record(r) \in Records /\ Record(r).run = r
        /\ Record(r).status = status[r] /\ Record(r).account = account[r]
    BY <1>2, <2>1, RecordOf DEF Return
  <2>3. Others(t) /\ hand'[t] = Record(r) /\ hand' \in [Threads -> Records]
    BY <1>2, <2>1, <2>2, ReplacedOthers
  <2>4. calls' \in [Threads -> Seq(Calls)]
    BY <1>2, <2>2, Replaced DEF TypeOK
  <2>5. TypeOK'
    BY <1>2, <1>3, <2>1, <2>3, <2>4 DEF TypeOK, durable, ghosts
  <2>6. CallsOf(t)'
    BY <1>2, <1>4, <2>1, Returned
  <2>7. LocksTrue'
    BY <1>2, <1>3, <1>4, <2>1, <2>3, <2>5, ReturnLocks DEF locks, Stages
  <2>8. \A op \in Ops, q \in Runs, g \in Records :
            calls'[t] # <<>> /\ Head(calls'[t]).op = op /\ Head(calls'[t]).run = q
               /\ hand'[t] = g => HandTrue(t, op, q, g)'
    <3>1. Settled(r)' /\ (account[r].kind = "recovery" \/ Unmarked(r)')
      BY <1>3, <1>5, SettledMarked DEF durable, ghosts, Settled, Unmarked
    <3> QED
      BY <1>1, <1>2, <1>3, <1>4, <2>1, <2>2, <2>3, <3>1, ReturnHands DEF durable
  <2>9. /\ \A c \in Children : Due(t, c) => Due(t, c)'
        /\ \A x \in Calls : x.op = "account" /\ (\E i \in 1..Len(calls'[t]) : calls'[t][i] = x)
                              => \E i \in 1..Len(calls[t]) : calls[t][i] = x
    BY <1>2, <1>3, <2>1, ReturnKeeps DEF ghosts
  <2> QED
    BY <1>2, <1>3, <1>4, <2>2, <2>3, <2>5, <2>6, <2>7, <2>8, <2>9, SteadyStep DEF durable
<1>6. CASE ~Settled(r)
  <2>1. PICK o \in Ends \cup {"RUNNING"} \cup Drift(r) :
            /\ observing' = [observing EXCEPT ![r] = t] /\ Become(t, <<Call("guard", r)>>)
            /\ Hold(t, [Record(r) EXCEPT !.status = o])
    BY <1>1, <1>6 DEF Enter
  <2>2. o \in Ends \cup {"RUNNING", "DRIFT"} /\ o \in Statuses \cup {"DRIFT"}
    BY <2>1, EndsAssumption DEF Drift, Statuses
  <2> DEFINE h == [Record(r) EXCEPT !.status = o]
             cs == <<Call("guard", r)>>
  <2>3. h \in Records /\ h.run = r /\ h.status = o
    BY <1>2, <2>2, RecordOf
  <2>4. cs \in Seq(Calls) /\ Len(cs) = 1 /\ cs[1].op = "guard" /\ Call("guard", r).op = "guard"
        /\ Call("guard", r).run = r
    BY DEF Call, Calls, Ops, Statuses, None
  <2> HIDE DEF h, cs
  <2>5. Hold(t, h) /\ Become(t, cs)
    BY <2>1 DEF h, cs
  <2>6. Others(t) /\ hand'[t] = h /\ hand' \in [Threads -> Records]
    BY <1>2, <2>3, <2>4, <2>5, ReplacedOthers
  <2>7. calls' \in [Threads -> Seq(Calls)]
    BY <1>2, <2>4, <2>5, Replaced DEF TypeOK
  <2>8. TypeOK'
    BY <1>2, <1>3, <2>1, <2>6, <2>7 DEF TypeOK, durable, ghosts
  <2>9. /\ CallsOf(t)' /\ Len(calls'[t]) = Len(calls[t]) /\ calls'[t] # <<>>
        /\ Head(calls'[t]) = Call("guard", r) /\ calls'[t][1] = Call("guard", r)
        /\ \A i \in 2..Len(calls'[t]) : calls'[t][i] = calls[t][i]
    BY <1>1, <1>2, <1>4, <2>1, Staged DEF Stages
  <2>10. LocksTrue'
    <3>1. \A q \in Runs : observing'[q] = IF q = r THEN t ELSE observing[q]
      BY <1>2, <2>1 DEF TypeOK
    <3>2. \A q \in Runs : observing[q] # t /\ engine # t
      BY <1>2 DEF LocksTrue, Now, Stages
    <3>3. \A u \in Threads \ {t} : u # None
      BY Names
    <3>4. \A i \in 1..Len(calls'[t]) : calls'[t][i].op \in {"recover", "account", "leave"} => harness' = t
      <4> SUFFICES ASSUME NEW i \in 1..Len(calls'[t]),
                          calls'[t][i].op \in {"recover", "account", "leave"}
                   PROVE  harness' = t
        OBVIOUS
      <4>1. i # 1
        BY <2>4, <2>9
      <4>2. i \in 1..Len(calls[t]) /\ calls'[t][i] = calls[t][i]
        BY <2>9, <4>1
      <4> QED
        BY <1>2, <1>3, <4>2 DEF LocksTrue
    <3>5. Sources \subseteq managed => harness' # t
      BY <1>2, <1>3 DEF LocksTrue, Now
    <3>6. engine' = engine /\ harness' = harness
      BY <1>3
    <3> QED
      BY <1>2, <1>4, <2>4, <2>6, <2>8, <2>9, <3>1, <3>2, <3>3, <3>4, <3>5, <3>6, LocksStep DEF Stages
  <2>11. \A op \in Ops, q \in Runs, g \in Records :
            calls'[t] # <<>> /\ Head(calls'[t]).op = op /\ Head(calls'[t]).run = q
               /\ hand'[t] = g => HandTrue(t, op, q, g)'
    BY <1>2, <1>3, <2>2, <2>3, <2>4, <2>6, <2>9 DEF HandTrue, durable
  <2>12. /\ \A c \in Children : Due(t, c) => Due(t, c)'
         /\ \A x \in Calls : x.op = "account" /\ (\E i \in 1..Len(calls'[t]) : calls'[t][i] = x)
                              => \E i \in 1..Len(calls[t]) : calls[t][i] = x
    BY <1>2, <1>3, <2>4, <2>5, DuesKept DEF ghosts
  <2> QED
    BY <1>2, <1>3, <1>4, <2>3, <2>4, <2>5, <2>6, <2>8, <2>9, <2>10, <2>11, <2>12, SteadyStep
       DEF durable
<1> QED
  BY <1>5, <1>6

\* The lock hypotheses when a wait is over, and when it moves on.
LEMMA StageReturns ==
    ASSUME TypeOK, CallsTrue, RunsTrue, LocksTrue, TypeOK', Grows, NEW t \in Threads, Others(t),
           calls[t] # <<>>, Return(t), NEW r \in Runs, r = This(t), Head(calls[t]).op \in Stages,
           LetGo(r), harness' = harness, engine' = IF engine = t THEN None ELSE engine
    PROVE  LocksTrue'
<1>1. /\ Len(calls'[t]) = Len(calls[t]) - 1
      /\ \A i \in 1..Len(calls'[t]) : calls'[t][i] = calls[t][i + 1] /\ i + 1 \in 2..Len(calls[t])
      /\ calls'[t] # <<>> => Head(calls'[t]).op \in Later
  BY Returned
<1>2. \A q \in Runs : observing'[q] = IF q = r THEN None ELSE observing[q]
  BY DEF LetGo, TypeOK
<1>3. observing[r] = t /\ \A q \in Runs : observing[q] = t => q = r
  BY DEF LocksTrue, Now, This
<1>4. \A i \in 1..Len(calls'[t]) :
          calls'[t][i].op \in {"recover", "account", "leave"} => harness' = t
  <2> SUFFICES ASSUME NEW i \in 1..Len(calls'[t]),
                      calls'[t][i].op \in {"recover", "account", "leave"}
               PROVE  harness' = t
    OBVIOUS
  <2>1. i + 1 \in 1..Len(calls[t]) /\ calls'[t][i] = calls[t][i + 1]
    BY <1>1, Current
  <2> QED
    BY <2>1 DEF LocksTrue
<1>5. Sources \subseteq managed => harness' # t
  BY DEF LocksTrue, Now, Stages
<1>6. calls'[t] # <<>> => Head(calls'[t]).op \notin Stages
  BY <1>1 DEF Later, Stages
<1>7. t # None /\ \A u \in Threads \ {t} : u # None
  BY Names
<1> QED
  BY <1>2, <1>3, <1>4, <1>5, <1>6, <1>7, LocksStep DEF Stages

LEMMA StageMoves ==
    ASSUME TypeOK, CallsTrue, RunsTrue, LocksTrue, TypeOK', Grows, NEW t \in Threads, Others(t),
           calls[t] # <<>>, NEW r \in Runs, r = This(t), Head(calls[t]).op \in Stages,
           NEW op \in Stages, Become(t, <<Call(op, r)>>), UNCHANGED <<harness, observing>>,
           engine' = IF op \in {"final", "merge"} THEN t ELSE engine, EngineFor(t) \/ op = "apply",
           op = "apply" => Head(calls[t]).op = "guard", op # "guard"
    PROVE  LocksTrue'
<1>1. /\ Len(calls'[t]) = Len(calls[t]) /\ calls'[t] # <<>>
      /\ Head(calls'[t]) = Call(op, r) /\ calls'[t][1] = Call(op, r)
      /\ \A i \in 2..Len(calls'[t]) : calls'[t][i] = calls[t][i]
  BY Staged
<1>2. Call(op, r).op = op /\ Call(op, r).run = r
  BY DEF Call
<1>3. \A q \in Runs : observing'[q] = t <=> q = r
  BY DEF LocksTrue, Now, This
<1>4. ASSUME NEW i \in 1..Len(calls'[t]), calls'[t][i].op \in {"recover", "account", "leave"}
      PROVE  harness' = t
  <2>1. i # 1
    BY <1>1, <1>2, <1>4 DEF Stages
  <2>2. i \in 1..Len(calls[t]) /\ calls'[t][i] = calls[t][i]
    BY <1>1, <2>1
  <2> QED
    BY <1>4, <2>2 DEF LocksTrue
<1>5. Sources \subseteq managed => harness' # t
  BY DEF LocksTrue, Now, Stages
<1>6. engine' = t <=> op \in {"final", "merge"}
  BY DEF LocksTrue, Now, Stages
<1>7. \A u \in Threads \ {t} : engine' = u <=> engine = u
  BY Names DEF EngineFor, Stages
<1> QED
  BY <1>1, <1>2, <1>3, <1>4, <1>5, <1>6, <1>7, LocksStep

\* The stages that give the run up without settling it: the record is read again.
LEMMA GivesUp ==
    ASSUME IndInv, NEW t \in Threads, calls[t] # <<>>, NEW r \in Runs, r = This(t),
           Head(calls[t]).op \in Stages, Return(t), LetGo(r), harness' = harness,
           engine' = IF engine = t THEN None ELSE engine, NEW h \in Records, Hold(t, h),
           h.run = r, h.status = status[r], h.account = account[r],
           UNCHANGED <<durable, started, intents, restored, jobs, mode, ghosts, crashes>>
    PROVE  IndInv'
<1>1. /\ TypeOK /\ CallsTrue /\ RunsTrue /\ LocksTrue
      /\ Head(calls[t]).op \notin {"record", "note", "account", "waccount"}
  BY DEF IndInv, Stages
<1>2. Steady /\ Grows
  BY <1>1, SteadyGrows DEF Steady, durable, ghosts, TypeOK
<1>3. Become(t, <<>>) /\ <<>> \in Seq(Calls) /\ calls \in [Threads -> Seq(Calls)]
  BY <1>1 DEF Return, TypeOK
<1>4. Others(t) /\ hand'[t] = h /\ hand' \in [Threads -> Records]
  BY <1>1, <1>3, ReplacedOthers
<1>5. calls' \in [Threads -> Seq(Calls)]
  BY <1>3, Replaced
<1>6. TypeOK'
  BY <1>1, <1>4, <1>5 DEF TypeOK, durable, ghosts, LetGo
<1>7. CallsOf(t)'
  BY <1>1, <1>2, Returned
<1>8. LocksTrue' /\ status'[hand'[t].run] # None
  <2>1. LocksTrue'
    BY <1>1, <1>2, <1>4, <1>6, StageReturns
  <2>2. status'[hand'[t].run] # None
    BY <1>1, <1>4, Current DEF CallTrue, This, Stages, durable
  <2> QED
    BY <2>1, <2>2
<1>9. \A op \in Ops, q \in Runs, g \in Records :
          calls'[t] # <<>> /\ Head(calls'[t]).op = op /\ Head(calls'[t]).run = q
             /\ hand'[t] = g => HandTrue(t, op, q, g)'
  <2>1. status[r] # None
    BY <1>1, Current DEF CallTrue, This, Stages
  <2>2. h.status \in Terminal => Settled(r)' /\ (h.account.kind = "recovery" \/ Unmarked(r)')
    BY SettledMarked DEF durable, ghosts, Settled, Unmarked
  <2> QED
    BY <1>1, <1>2, <1>4, <2>1, <2>2, ReturnHands DEF durable
<1>10. /\ \A c \in Children : Due(t, c) => Due(t, c)'
       /\ \A x \in Calls : x.op = "account" /\ (\E i \in 1..Len(calls'[t]) : calls'[t][i] = x)
                             => \E i \in 1..Len(calls[t]) : calls[t][i] = x
  BY <1>1, ReturnKeeps DEF ghosts
<1> QED
  BY <1>1, <1>2, <1>3, <1>4, <1>6, <1>7, <1>8, <1>9, <1>10, SteadyStep DEF durable

\* The stages that lead to another one.
LEMMA GoesOn ==
    ASSUME IndInv, NEW t \in Threads, calls[t] # <<>>, NEW r \in Runs, r = This(t),
           Head(calls[t]).op \in Stages, NEW op \in Stages, Become(t, <<Call(op, r)>>),
           UNCHANGED <<harness, observing>>,
           engine' = IF op \in {"final", "merge"} THEN t ELSE engine, EngineFor(t) \/ op = "apply",
           op = "apply" => Head(calls[t]).op = "guard", op # "guard",
           NEW h \in Records, hand' = [hand EXCEPT ![t] = h], h.run = r,
           op \in {"apply", "final"} => h.status \in Ends \cup {"DRIFT"},
           op \in {"final", "merge"} => status[r] = "RUNNING",
           op = "merge" => h.account = account[r],
           UNCHANGED <<durable, started, intents, restored, jobs, mode, ghosts, crashes>>
    PROVE  IndInv'
<1>1. /\ TypeOK /\ CallsTrue /\ RunsTrue /\ LocksTrue
      /\ Head(calls[t]).op \notin {"record", "note", "account", "waccount"}
  BY DEF IndInv, Stages
<1>2. Steady /\ Grows
  BY <1>1, SteadyGrows DEF Steady, durable, ghosts, TypeOK
<1> DEFINE cs == <<Call(op, r)>>
<1>3. /\ cs \in Seq(Calls) /\ cs[1] = Call(op, r) /\ Len(cs) = 1
      /\ Call(op, r).op = op /\ Call(op, r).run = r
  BY DEF Call, Calls, Ops, Stages, Statuses, None
<1>4. Become(t, cs)
  OBVIOUS
<1> HIDE DEF cs
<1>5. Others(t) /\ hand'[t] = h /\ hand' \in [Threads -> Records]
  BY <1>1, <1>3, <1>4, ReplacedOthers DEF Hold
<1>6. calls' \in [Threads -> Seq(Calls)]
  <2>1. calls \in [Threads -> Seq(Calls)]
    BY <1>1 DEF TypeOK
  <2> QED
    BY <1>3, <1>4, <2>1, Replaced
<1>7. TypeOK'
  BY <1>1, <1>5, <1>6 DEF TypeOK, durable, ghosts
<1>8. CallsOf(t)' /\ calls'[t] # <<>> /\ Head(calls'[t]) = Call(op, r)
  BY <1>1, <1>2, Staged
<1>9. LocksTrue' /\ status'[hand'[t].run] # None
  <2>1. LocksTrue'
    BY <1>1, <1>2, <1>5, <1>7, StageMoves
  <2>2. status'[hand'[t].run] # None
    BY <1>1, <1>5, Current DEF CallTrue, This, Stages, durable
  <2> QED
    BY <2>1, <2>2
<1>10. \A p \in Ops, q \in Runs, g \in Records :
           calls'[t] # <<>> /\ Head(calls'[t]).op = p /\ Head(calls'[t]).run = q
              /\ hand'[t] = g => HandTrue(t, p, q, g)'
  <2>1. status'[r] # None /\ (op \in {"final", "merge"} => status'[r] = "RUNNING")
    BY <1>1, Current DEF CallTrue, This, Stages, durable
  <2>2. op = "merge" /\ r \in Sources => h.account = NoAccount
    BY <1>1 DEF RunsTrue
  <2>3. op \notin {"guard", "record", "note", "recover", "dispatch"}
    BY DEF Stages
  <2> QED
    BY <1>3, <1>5, <1>8, <2>1, <2>2, <2>3 DEF HandTrue
<1>11. /\ \A c \in Children : Due(t, c) => Due(t, c)'
       /\ \A x \in Calls : x.op = "account" /\ (\E i \in 1..Len(calls'[t]) : calls'[t][i] = x)
                             => \E i \in 1..Len(calls[t]) : calls[t][i] = x
  <2>1. \A i \in 1..Len(cs) : cs[i].op \notin {"account", "waccount"}
    BY <1>3 DEF Stages
  <2> QED
    BY <1>1, <1>3, <1>4, <2>1, DuesKept DEF ghosts
<1> QED
  BY <1>1, <1>2, <1>3, <1>4, <1>5, <1>7, <1>8, <1>9, <1>10, <1>11, SteadyStep DEF durable

LEMMA GuardStep ==
    ASSUME IndInv, NEW t \in Threads, Guard(t)
    PROVE  IndInv'
<1>1. PICK r \in Runs : r = This(t)
  BY Current DEF IndInv, Guard, Now
<1>2. /\ TypeOK /\ CallsTrue /\ calls[t] # <<>> /\ Head(calls[t]).op = "guard"
      /\ engine # t /\ UNCHANGED <<durable, harness, engine, started, intents, restored, jobs, mode,
                                   ghosts, crashes>>
  BY DEF IndInv, Guard, Now, LocksTrue
<1>3. /\ hand[t] \in Records /\ hand[t].run = r
      /\ hand[t].status \in Ends \cup {"RUNNING", "DRIFT"}
  BY <1>1, <1>2 DEF IndInv, TypeOK, HandsTrue, HandTrue, Stages
<1>4. CASE r \in intents \/ hand[t].status = "RUNNING"
  <2>1. LetGo(r) /\ Hold(t, Record(r)) /\ Return(t)
    BY <1>1, <1>4 DEF Guard
  <2>2. /\ Record(r) \in Records /\ Record(r).run = r /\ Record(r).status = status[r]
        /\ Record(r).account = account[r]
    BY <1>2, RecordOf
  <2> QED
    BY <1>1, <1>2, <2>1, <2>2, GivesUp DEF Stages
<1>5. CASE ~(r \in intents \/ hand[t].status = "RUNNING")
  <2>1. Become(t, <<Call("apply", r)>>) /\ UNCHANGED <<observing, hand>>
    BY <1>1, <1>5 DEF Guard
  <2>2. hand' = [hand EXCEPT ![t] = hand[t]]
    BY <1>2, <2>1 DEF TypeOK
  <2>3. hand[t].status \in Ends \cup {"DRIFT"}
    BY <1>3, <1>5
  <2> QED
    BY <1>1, <1>2, <1>3, <2>1, <2>2, <2>3, GoesOn DEF Stages
<1> QED
  BY <1>4, <1>5

LEMMA ApplyStep ==
    ASSUME IndInv, NEW t \in Threads, Apply(t)
    PROVE  IndInv'
<1>1. PICK r \in Runs : r = This(t)
  BY Current DEF IndInv, Apply, Now
<1>2. /\ TypeOK /\ CallsTrue /\ calls[t] # <<>> /\ Head(calls[t]).op = "apply" /\ EngineFor(t)
      /\ engine # t /\ UNCHANGED <<durable, harness, started, intents, restored, jobs, mode,
                                   ghosts, crashes>>
  BY DEF IndInv, Apply, Now, LocksTrue
<1>3. /\ hand[t] \in Records /\ hand[t].run = r /\ status[r] # None
      /\ hand[t].status \in Ends \cup {"DRIFT"}
  BY <1>1, <1>2 DEF IndInv, TypeOK, HandsTrue, HandTrue, Stages
<1>4. CASE Settled(r)
  <2>1. LetGo(r) /\ Hold(t, Record(r)) /\ Return(t) /\ UNCHANGED engine
    BY <1>1, <1>4 DEF Apply
  <2>2. /\ Record(r) \in Records /\ Record(r).run = r /\ Record(r).status = status[r]
        /\ Record(r).account = account[r]
    BY <1>2, RecordOf
  <2> QED
    BY <1>1, <1>2, <2>1, <2>2, GivesUp DEF Stages
<1>5. CASE ~Settled(r)
  <2>1. engine' = t /\ Become(t, <<Call("final", r)>>) /\ UNCHANGED <<observing, hand>>
    BY <1>1, <1>5 DEF Apply
  <2>2. hand' = [hand EXCEPT ![t] = hand[t]]
    BY <1>2, <2>1 DEF TypeOK
  <2>3. status[r] = "RUNNING"
    BY <1>2, <1>3, <1>5 DEF TypeOK, Statuses, Settled
  <2> QED
    BY <1>1, <1>2, <1>3, <2>1, <2>2, <2>3, GoesOn DEF Stages
<1> QED
  BY <1>4, <1>5

LEMMA FinalStep ==
    ASSUME IndInv, NEW t \in Threads, Final(t)
    PROVE  IndInv'
<1>1. PICK r \in Runs : r = This(t)
  BY Current DEF IndInv, Final, Now
<1>2. /\ TypeOK /\ CallsTrue /\ RunsTrue /\ LocksTrue /\ calls[t] # <<>> /\ HarnessFor(t)
      /\ Head(calls[t]).op = "final" /\ engine = t
      /\ UNCHANGED <<account, managed, escalated, order, harness, started, restored, mode,
                     ghosts, crashes>>
  BY DEF IndInv, Final, Now, LocksTrue
<1>3. /\ hand[t] \in Records /\ hand[t].run = r /\ status[r] = "RUNNING"
      /\ hand[t].status \in Ends \cup {"DRIFT"}
  BY <1>1, <1>2 DEF IndInv, TypeOK, HandsTrue, HandTrue, Stages
<1> DEFINE o == hand[t].status
<1>4. CASE o = "DRIFT" /\ r \notin intents
  <2>1. /\ Hold(t, [Record(r) EXCEPT !.status = "DRIFT"]) /\ Become(t, <<Call("merge", r)>>)
        /\ UNCHANGED <<status, intents, jobs, confirming, engine, observing>>
    BY <1>1, <1>4 DEF Final, SameRun
  <2>2. PICK h \in Records : h = [Record(r) EXCEPT !.status = "DRIFT"] /\ h.run = r /\ h.account = account[r]
    BY <1>2, RecordWith
  <2>3. hand' = [hand EXCEPT ![t] = h] /\ UNCHANGED durable /\ EngineFor(t)
    BY <1>2, <2>1, <2>2 DEF Hold, durable, EngineFor
  <2> QED
    BY <1>1, <1>2, <1>3, <2>1, <2>2, <2>3, GoesOn DEF Stages
<1>5. CASE r \in intents
  <2>1. /\ Hold(t, [Record(r) EXCEPT !.status = status[r]]) /\ engine' = None /\ LetGo(r) /\ Return(t)
        /\ UNCHANGED <<status, intents, jobs, confirming>>
    BY <1>1, <1>5 DEF Final, SameRun
  <2>2. PICK h \in Records : h = [Record(r) EXCEPT !.status = status[r]] /\ h.run = r
                             /\ h.account = account[r] /\ h.status = status[r]
    <3>1. status[r] \in Statuses \cup {"DRIFT"}
      BY <1>3 DEF Statuses
    <3> QED
      BY <1>2, <3>1, RecordWith
  <2>3. Hold(t, h) /\ UNCHANGED durable
    BY <1>2, <2>1, <2>2 DEF durable
  <2> QED
    BY <1>1, <1>2, <2>1, <2>2, <2>3, GivesUp DEF Stages
<1>6. CASE o # "DRIFT" /\ r \notin intents
  <2>1. /\ Settle(r, o) /\ Hold(t, [Record(r) EXCEPT !.status = status'[r]])
        /\ engine' = None /\ LetGo(r) /\ Return(t)
    BY <1>1, <1>6 DEF Final
  <2>2. o \in Ends /\ o \in Terminal \ {"DENIED"} /\ o \in Statuses
    BY <1>3, <1>6, EndsAssumption DEF Statuses
  <2>3. status' = [status EXCEPT ![r] = o] /\ status'[r] = o
        /\ \A q \in Runs : q # r => status'[q] = status[q]
    BY <1>2, <2>1 DEF Settle, TypeOK
  <2>4. PICK h \in Records : h = [Record(r) EXCEPT !.status = status'[r]] /\ h.run = r
                             /\ h.account = account[r] /\ h.status = o
    BY <1>2, <2>2, <2>3, RecordWith
  <2>5. Steady /\ Grows
    BY <1>2, <1>3, <2>2, <2>3, SteadyGrows DEF Steady, ghosts, TypeOK
  <2>6. Hold(t, h)
    BY <2>1, <2>4
  <2>7. Others(t) /\ hand'[t] = h /\ hand' \in [Threads -> Records]
    BY <1>2, <2>1, <2>6, ReturnOthers
  <2>8. calls' \in [Threads -> Seq(Calls)] /\ \E cs \in Seq(Calls) : Become(t, cs)
    BY <1>2, <2>1, <2>6, ReturnOthers
  <2>9. TypeOK'
    BY <1>2, <2>1, <2>2, <2>3, <2>7, <2>8 DEF TypeOK, ghosts, LetGo, Settle
  <2>10. CallsOf(t)'
    BY <1>2, <2>1, <2>5, Returned
  <2>11. LocksTrue' /\ status'[hand'[t].run] # None
    <3>1. LocksTrue'
      BY <1>1, <1>2, <2>1, <2>5, <2>7, <2>9, StageReturns DEF Stages
    <3>2. status'[hand'[t].run] # None
      BY <2>2, <2>3, <2>4, <2>7 DEF Terminal, None
    <3> QED
      BY <3>1, <3>2
  \* No accounting of the run is pending: its caller would be at it, not in the wait.
  <2>12. \A u \in Threads, x \in Calls :
             x.op = "account" /\ (\E i \in 1..Len(calls[u]) : calls[u][i] = x) => x.with # r
    <3> SUFFICES ASSUME NEW u \in Threads, NEW x \in Calls, x.op = "account",
                        NEW i \in 1..Len(calls[u]), calls[u][i] = x
                 PROVE  x.with # r
      OBVIOUS
    <3>1. harness = u
      BY <1>2 DEF LocksTrue
    <3>2. u = t
      BY <1>2, <3>1, Names DEF HarnessFor
    <3>3. i # 1
      BY <1>2, <3>2, Current
    <3>4. i \in 2..Len(calls[t])
      BY <1>2, <3>2, <3>3, Current
    <3>5. Precedes(Head(calls[t]), x)
      BY <1>2, <3>2, <3>4, Current
    <3> QED
      BY <1>1, <1>2, <3>5 DEF Precedes, Stages, This
  <2>13. \A op \in Ops, q \in Runs, g \in Records :
            calls'[t] # <<>> /\ Head(calls'[t]).op = op /\ Head(calls'[t]).run = q
               /\ hand'[t] = g => HandTrue(t, op, q, g)'
    <3>1. Settled(r)' /\ status'[r] # None
      BY <2>2, <2>3 DEF Settled, Terminal, None
    <3>2. account[r].kind = "recovery" \/ Unmarked(r)
      BY <1>3, <2>12, Marked DEF None
    <3>3. h.account.kind = "recovery" \/ Unmarked(r)'
      BY <1>2, <2>4, <3>2 DEF Unmarked, ghosts
    <3> QED
      BY <1>1, <1>2, <2>1, <2>4, <2>5, <2>7, <3>1, <3>3, ReturnHands
  <2>14. /\ \A c \in Children : Due(t, c) => Due(t, c)'
         /\ \A x \in Calls : x.op = "account" /\ (\E i \in 1..Len(calls'[t]) : calls'[t][i] = x)
                               => \E i \in 1..Len(calls[t]) : calls[t][i] = x
    BY <1>2, <2>1, ReturnKeeps DEF ghosts
  <2>15. \A u \in Threads, x \in Calls :
            x.op = "account" /\ x.with \notin stillborn
              /\ (\E i \in 1..Len(calls[u]) : calls[u][i] = x) => status'[x.with] = status[x.with]
    <3> SUFFICES ASSUME NEW u \in Threads, NEW x \in Calls, x.op = "account",
                        NEW i \in 1..Len(calls[u]), calls[u][i] = x
                 PROVE  status'[x.with] = status[x.with]
      OBVIOUS
    <3>1. x.with # r
      BY <2>12
    <3> QED
      BY <1>2, <2>3, <3>1 DEF TypeOK
  <2>16. jobs' \subseteq jobs
    BY <2>1 DEF Settle
  <2> QED
    BY <1>2, <2>5, <2>7, <2>8, <2>9, <2>10, <2>11, <2>13, <2>14, <2>15, <2>16, SteadyStep
<1> QED
  BY <1>4, <1>5, <1>6

\* The checkpoint writes the goal back as it read it: either nothing changed, or an
\* accounting of this run is lost.
LEMMA MergeStep ==
    ASSUME IndInv, NEW t \in Threads, Merge(t)
    PROVE  IndInv'
<1>1. PICK r \in Runs : r = This(t)
  BY Current DEF IndInv, Merge, Now
<1>2. /\ TypeOK /\ CallsTrue /\ RunsTrue /\ LocksTrue /\ calls[t] # <<>>
      /\ Head(calls[t]).op = "merge" /\ engine = t
      /\ UNCHANGED <<status, managed, escalated, order, confirming, harness, started, intents,
                     restored, jobs, mode, origin, stillborn, crashes>>
      /\ engine' = None /\ Return(t)
  BY DEF IndInv, Merge, Now, LocksTrue
<1>3. /\ hand[t] \in Records /\ hand[t].run = r /\ status[r] = "RUNNING"
      /\ r \in Sources => hand[t].account = NoAccount
  BY <1>1, <1>2 DEF IndInv, TypeOK, HandsTrue, HandTrue, Stages
<1>4. /\ account' = [account EXCEPT ![r] = hand[t].account]
      /\ lost' = IF account[r] = hand[t].account THEN lost ELSE lost \cup {r}
      /\ Hold(t, [hand[t] EXCEPT !.status = status[r]]) /\ LetGo(r)
  BY <1>1 DEF Merge
<1>5. PICK h \in Records : h = [hand[t] EXCEPT !.status = status[r]] /\ h.run = r
                           /\ h.status = "RUNNING"
  <2>1. status[r] \in Statuses /\ hand[t].account \in Accounts /\ hand[t].escalated \in BOOLEAN
        /\ r \in Runs \cup {None}
    BY <1>2, <1>3 DEF Records, TypeOK
  <2>2. [hand[t] EXCEPT !.status = status[r]] =
            [run |-> r, status |-> status[r], account |-> hand[t].account, escalated |-> hand[t].escalated]
    BY <1>3 DEF Records
  <2> QED
    BY <1>3, <2>1, <2>2 DEF Records
<1>6. hand[t].account \in Accounts
  BY <1>3 DEF Records
<1>7. \A s \in Runs : s \in Sources \/ status[s] = None => account'[s] = account[s]
  BY <1>2, <1>3, <1>4, Names DEF TypeOK, RunsTrue, None
<1>8. lost \subseteq lost' /\ lost' \subseteq Children /\ \A c \in Children \ lost' : account'[c] = account[c]
  <2>1. r \in Sources => account[r] = hand[t].account
    BY <1>2, <1>3 DEF RunsTrue
  <2> QED
    BY <1>2, <1>4, <2>1, Names DEF TypeOK
<1>9. Steady /\ Grows
  BY <1>2, <1>8, SteadyGrows DEF Steady
<1>10. Hold(t, h)
  BY <1>4, <1>5
<1>11. Others(t) /\ hand'[t] = h /\ hand' \in [Threads -> Records]
  BY <1>2, <1>10, ReturnOthers
<1>12. calls' \in [Threads -> Seq(Calls)] /\ \E cs \in Seq(Calls) : Become(t, cs)
  BY <1>2, <1>10, ReturnOthers
<1>13. TypeOK'
  <2>1. account' \in [Runs -> Accounts] /\ observing' \in [Runs -> Threads \cup {None}]
    BY <1>2, <1>4, <1>6 DEF TypeOK, LetGo
  <2> QED
    BY <1>2, <1>8, <1>11, <1>12, <2>1 DEF TypeOK
<1>14. CallsOf(t)'
  BY <1>2, <1>9, Returned
<1>15. LocksTrue' /\ status'[hand'[t].run] # None
  <2>1. LocksTrue'
    BY <1>1, <1>2, <1>4, <1>9, <1>11, <1>13, StageReturns DEF Stages
  <2>2. status'[hand'[t].run] # None
    BY <1>2, <1>3, <1>5, <1>11 DEF None
  <2> QED
    BY <2>1, <2>2
<1>16. \A op \in Ops, q \in Runs, g \in Records :
          calls'[t] # <<>> /\ Head(calls'[t]).op = op /\ Head(calls'[t]).run = q
             /\ hand'[t] = g => HandTrue(t, op, q, g)'
  <2>1. h.status \notin Terminal /\ status'[r] # None
    BY <1>2, <1>3, <1>5 DEF Terminal, None
  <2> QED
    BY <1>1, <1>2, <1>5, <1>9, <1>11, <2>1, ReturnHands
<1>17. /\ \A c \in Children : Due(t, c) => Due(t, c)'
       /\ \A x \in Calls : x.op = "account" /\ (\E i \in 1..Len(calls'[t]) : calls'[t][i] = x)
                             => \E i \in 1..Len(calls[t]) : calls[t][i] = x
  BY <1>2, ReturnKeeps
<1> QED
  BY <1>2, <1>7, <1>8, <1>9, <1>11, <1>12, <1>13, <1>14, <1>15, <1>16, <1>17, SteadyStep

(**************************** other simple steps ***************************)

\* A thread that starts, or is emptied, or is at the last of its calls.
LEMMA Joined ==
    ASSUME NEW S, NEW a \in S, NEW b \in S, NEW c \in S
    PROVE  <<a, b>> \o <<c>> = <<a, b, c>> /\ <<a>> \o <<b>> = <<a, b>>
<1> DEFINE s == <<a, b>> \o <<c>>  u == <<a, b, c>>
           v == <<a>> \o <<b>>  w == <<a, b>>
<1>1. s \in Seq(S) /\ u \in Seq(S) /\ Len(s) = 3 /\ Len(u) = 3
  OBVIOUS
<1>2. s[1] = u[1] /\ s[2] = u[2] /\ s[3] = u[3]
  OBVIOUS
<1>3. v \in Seq(S) /\ w \in Seq(S) /\ Len(v) = 2 /\ Len(w) = 2 /\ v[1] = w[1] /\ v[2] = w[2]
  OBVIOUS
<1> HIDE DEF s, u, v, w
<1>4. s = u
  BY <1>1, <1>2, SeqEqual
<1>5. v = w
  BY <1>3, SeqEqual
<1> QED
  BY <1>4, <1>5 DEF s, u, v, w

LEMMA NoCalls ==
    ASSUME NEW t \in Threads, calls'[t] = <<>>
    PROVE  CallsOf(t)'
  BY DEF CallsOf

LEMMA OneCall ==
    ASSUME NEW t \in Threads, NEW a \in Calls, calls'[t] = <<a>>, CallTrue(t, a)',
           t \in Runs => status'[t] # None
    PROVE  CallsOf(t)'
<1>1. Len(calls'[t]) = 1 /\ calls'[t][1] = a
  OBVIOUS
<1> QED
  BY <1>1 DEF CallsOf, CallTrue

LEMMA TwoCalls ==
    ASSUME NEW t \in Threads, NEW a \in Calls, NEW b \in Calls, calls'[t] = <<a, b>>,
           CallTrue(t, a)', CallTrue(t, b)', Precedes(a, b), HandsTo(a, b),
           t \in Runs => status'[t] # None
    PROVE  CallsOf(t)'
<1>1. Len(calls'[t]) = 2 /\ calls'[t][1] = a /\ calls'[t][2] = b
  OBVIOUS
<1>2. ASSUME NEW i \in 1..Len(calls'[t]) PROVE CallTrue(t, calls[t][i])'
  <2>1. i = 1 \/ i = 2
    BY <1>1
  <2> QED
    BY <1>1, <2>1 DEF CallTrue
<1> QED
  BY <1>1, <1>2 DEF CallsOf

LEMMA ThreeCalls ==
    ASSUME NEW t \in Threads, NEW a \in Calls, NEW b \in Calls, NEW c \in Calls,
           calls'[t] = <<a, b, c>>, CallTrue(t, a)', CallTrue(t, b)', CallTrue(t, c)',
           Precedes(a, b), Precedes(a, c), Precedes(b, c), HandsTo(a, b), HandsTo(b, c),
           t \in Runs => status'[t] # None
    PROVE  CallsOf(t)'
<1>1. Len(calls'[t]) = 3 /\ calls'[t][1] = a /\ calls'[t][2] = b /\ calls'[t][3] = c
  OBVIOUS
<1>2. ASSUME NEW i \in 1..Len(calls'[t]) PROVE CallTrue(t, calls[t][i])'
  <2>1. i = 1 \/ i = 2 \/ i = 3
    BY <1>1
  <2> QED
    BY <1>1, <2>1 DEF CallTrue
<1> QED
  BY <1>1, <1>2 DEF CallsOf

\* A thread that holds no lock before and after, and has no accounting to write.
LEMMA FreshLocks ==
    ASSUME TypeOK, CallsTrue, LocksTrue, TypeOK', Grows, NEW t \in Threads, Others(t), UNCHANGED locks,
           calls[t] # <<>> => Head(calls[t]).op \notin Stages \cup {"recover", "leave"},
           \A i \in 1..Len(calls'[t]) :
              calls'[t][i].op \notin Stages \cup {"recover", "leave", "account"}
    PROVE  LocksTrue'
<1>1. UNCHANGED <<harness, engine, observing>>
  BY DEF locks
<1>2. (\A r \in Runs : observing[r] # t) /\ engine # t /\ (Sources \subseteq managed => harness # t)
  BY DEF LocksTrue, Now, Stages
<1>3. calls'[t] # <<>> => Head(calls'[t]).op \notin Stages
  <2>1. calls'[t] \in Seq(Calls)
    BY DEF TypeOK
  <2>2. calls'[t] # <<>> => 1 \in 1..Len(calls'[t]) /\ Head(calls'[t]) = calls'[t][1]
    BY <2>1
  <2> QED
    BY <2>2
<1> QED
  BY <1>1, <1>2, <1>3, LocksStep DEF Stages

LEMMA FreshDues ==
    ASSUME NEW t \in Threads,
           \A i \in 1..Len(calls[t]) : calls[t][i].op \notin {"account", "waccount"},
           \A i \in 1..Len(calls'[t]) : calls'[t][i].op \notin {"account", "waccount"}
    PROVE  /\ \A c \in Children : Due(t, c) => Due(t, c)'
           /\ \A x \in Calls : x.op = "account" /\ (\E i \in 1..Len(calls'[t]) : calls'[t][i] = x)
                                 => \E i \in 1..Len(calls[t]) : calls[t][i] = x
<1>1. \A c \in Children : ~Due(t, c)
  BY DEF Due, CallWith
<1> QED
  BY <1>1

LEMMA Single ==
    ASSUME NEW S, NEW s \in Seq(S), s # <<>>, ~(Len(s) > 1)
    PROVE  Len(s) = 1 /\ Tail(s) = <<>>
<1>1. Len(s) \in Nat /\ Len(s) > 0
  OBVIOUS
<1>2. Len(s) = 1
  BY <1>1
<1>3. Tail(s) \in Seq(S) /\ Len(Tail(s)) = 0
  BY <1>2
<1> QED
  BY <1>2, <1>3, EmptySeq

\* A call nothing comes after is alone.
LEMMA Alone ==
    ASSUME TypeOK, CallsTrue, NEW t \in Threads, calls[t] # <<>>, Head(calls[t]).op \in Last
    PROVE  /\ Len(calls[t]) = 1 /\ calls[t][1] = Head(calls[t]) /\ Tail(calls[t]) = <<>>
           /\ \A cs \in Seq(Calls) : Become(t, cs) => calls'[t] = cs
<1>1. calls[t] \in Seq(Calls) /\ Len(calls[t]) \in Nat /\ Len(calls[t]) > 0
      /\ calls[t][1] = Head(calls[t])
  BY Current
<1>2. Len(calls[t]) = 1
  <2>1. ASSUME Len(calls[t]) > 1 PROVE FALSE
    <3>1. 2 \in 2..Len(calls[t])
      BY <1>1, <2>1
    <3>2. Precedes(Head(calls[t]), calls[t][2])
      BY <3>1, Current
    <3> QED
      BY <3>2 DEF Precedes
  <2>2. ~(Len(calls[t]) > 1)
    BY <2>1
  <2> QED
    BY <1>1, <2>2, Single
<1>3. Tail(calls[t]) = <<>>
  <2>1. ~(Len(calls[t]) > 1)
    BY <1>2
  <2> QED
    BY <1>1, <2>1, Single
<1>4. ASSUME NEW cs \in Seq(Calls), Become(t, cs) PROVE calls'[t] = cs
  <2>1. calls'[t] = cs \o <<>>
    BY <1>3, <1>4 DEF Become, TypeOK
  <2> QED
    BY <2>1
<1> QED
  BY <1>1, <1>2, <1>3, <1>4

\* A caller or the judgment pool, idle until now, takes up the calls cs.
LEMMA Begins ==
    ASSUME IndInv, NEW t \in {"api", "jev"}, calls[t] = <<>>, NEW cs \in Seq(Calls),
           calls' = [calls EXCEPT ![t] = cs], CallsOf(t)',
           \A i \in 1..Len(cs) : cs[i].op \in {"dispatch", "record", "await", "enter", "abort", "judge"},
           cs # <<>> => /\ cs[1].op # "record"
                        /\ cs[1].op = "dispatch" => Len(cs) > 1 /\ cs[2].op = "record",
           intents' \subseteq Runs, jobs' \subseteq jobs,
           UNCHANGED <<durable, hand, locks, started, restored, mode, ghosts, crashes>>
    PROVE  IndInv'
<1>1. TypeOK /\ CallsTrue /\ RunsTrue /\ LocksTrue /\ HandsTrue /\ t \in Threads /\ t \notin Runs
  BY Names DEF IndInv
<1>2. calls \in [Threads -> Seq(Calls)] /\ calls'[t] = cs /\ calls' \in [Threads -> Seq(Calls)]
      /\ \A u \in Threads \ {t} : calls'[u] = calls[u]
  BY <1>1 DEF TypeOK
<1>3. Steady /\ Grows /\ Others(t)
  <2>1. Steady
    BY <1>1 DEF Steady, durable, ghosts, TypeOK
  <2> QED
    BY <1>1, <1>2, <2>1, SteadyGrows DEF Others
<1>4. TypeOK'
  BY <1>1, <1>2 DEF TypeOK, durable, locks, ghosts
<1>5. \A i \in 1..Len(calls'[t]) :
          calls'[t][i].op \notin Stages \cup {"recover", "leave", "account", "waccount"}
  BY <1>2 DEF Stages
<1>6. LocksTrue'
  BY <1>1, <1>3, <1>4, <1>5, FreshLocks
<1>7. /\ \A c \in Children : Due(t, c) => Due(t, c)'
      /\ \A x \in Calls : x.op = "account" /\ (\E i \in 1..Len(calls'[t]) : calls'[t][i] = x)
                            => \E i \in 1..Len(calls[t]) : calls[t][i] = x
  <2>1. \A i \in 1..Len(calls[t]) : calls[t][i].op \notin {"account", "waccount"}
    OBVIOUS
  <2> QED
    BY <1>1, <1>5, <2>1, FreshDues
<1>8. \A op \in Ops, q \in Runs, g \in Records :
          calls'[t] # <<>> /\ Head(calls'[t]).op = op /\ Head(calls'[t]).run = q
             /\ hand'[t] = g => HandTrue(t, op, q, g)'
  <2> SUFFICES ASSUME NEW op \in Ops, NEW q \in Runs, NEW g \in Records,
                      calls'[t] # <<>>, Head(calls'[t]).op = op
               PROVE  HandTrue(t, op, q, g)'
    OBVIOUS
  <2>1. Head(calls'[t]) = cs[1] /\ 1 \in 1..Len(cs) /\ cs # <<>>
    BY <1>2
  <2>2. op \in {"dispatch", "await", "enter", "abort", "judge"}
    BY <2>1
  <2>3. op = "dispatch" => Len(calls'[t]) > 1 /\ calls'[t][2].op = "record"
    BY <1>2, <2>1
  <2> QED
    BY <2>2, <2>3 DEF HandTrue, Stages
<1>9. hand'[t].run # None => status'[hand'[t].run] # None
  BY <1>1 DEF HandsTrue, durable
<1> QED
  BY <1>1, <1>3, <1>4, <1>6, <1>7, <1>8, <1>9, SteadyStep DEF durable

LEMMA ApiStep ==
    ASSUME IndInv, NEW s \in Sources, ApiDirect(s) \/ ApiWait(s) \/ ApiCancel(s)
    PROVE  IndInv'
<1>1. calls \in [Threads -> Seq(Calls)] /\ "api" \in Threads /\ s \in Runs
      /\ intents \subseteq Runs
  BY Names DEF IndInv, TypeOK
<1> DEFINE d == Call("dispatch", s)  e == Call("enter", s)  a == Call("abort", s)
           r == Call("record", s)  w == Call("await", s)
<1>2. /\ {d, e, a, r, w} \subseteq Calls
      /\ d.op = "dispatch" /\ e.op = "enter" /\ a.op = "abort" /\ r.op = "record" /\ w.op = "await"
      /\ d.run = s /\ e.run = s /\ a.run = s /\ r.run = s /\ w.run = s
  BY <1>1 DEF Call, Calls, Ops, Statuses, None
<1> HIDE DEF d, e, a, r, w
<1>3. CASE ApiDirect(s)
  <2>1. calls["api"] = <<>> /\ calls' = [calls EXCEPT !["api"] = <<d, r, w>>]
        /\ UNCHANGED <<durable, hand, locks, started, intents, restored, jobs, mode, ghosts, crashes>>
    BY <1>3 DEF ApiDirect, d, r, w
  <2>2. CallsOf("api")'
    <3>1. CallTrue("api", d)' /\ CallTrue("api", r)' /\ CallTrue("api", w)'
      BY <1>2 DEF CallTrue
    <3>2. Precedes(d, r) /\ Precedes(d, w) /\ Precedes(r, w) /\ HandsTo(d, r) /\ HandsTo(r, w)
      BY <1>2 DEF Precedes, HandsTo, Later, Last, Gives
    <3>3. calls'["api"] = <<d, r, w>>
      BY <1>1, <2>1
    <3> QED
      BY <1>1, <1>2, <3>1, <3>2, <3>3, ThreeCalls, Names
  <2> DEFINE cs == <<d, r, w>>
  <2>3. cs \in Seq(Calls) /\ Len(cs) = 3 /\ cs[1] = d /\ cs[2] = r /\ cs[3] = w
    BY <1>2
  <2>4. calls' = [calls EXCEPT !["api"] = cs]
    BY <2>1
  <2> HIDE DEF cs
  <2>5. ASSUME NEW i \in 1..Len(cs)
        PROVE  cs[i].op \in {"dispatch", "record", "await", "enter", "abort", "judge"}
    <3>1. i = 1 \/ i = 2 \/ i = 3
      BY <2>3
    <3> QED
      BY <1>2, <2>3, <3>1
  <2>6. /\ cs # <<>> => /\ cs[1].op # "record"
                        /\ cs[1].op = "dispatch" => Len(cs) > 1 /\ cs[2].op = "record"
        /\ intents' \subseteq Runs /\ jobs' \subseteq jobs
    BY <1>1, <1>2, <2>1, <2>3
  <2> QED
    BY <1>1, <2>1, <2>2, <2>3, <2>4, <2>5, <2>6, Begins
<1>4. CASE ApiWait(s)
  <2>1. calls["api"] = <<>> /\ calls' = [calls EXCEPT !["api"] = <<e, r>>] /\ status[s] # None
        /\ UNCHANGED <<durable, hand, locks, started, intents, restored, jobs, mode, ghosts, crashes>>
    BY <1>4 DEF ApiWait, e, r
  <2>2. CallsOf("api")'
    <3>1. CallTrue("api", e)' /\ CallTrue("api", r)'
      BY <1>2, <2>1 DEF CallTrue, durable
    <3>2. Precedes(e, r) /\ HandsTo(e, r)
      BY <1>2 DEF Precedes, HandsTo, Later, Last, Gives
    <3>3. calls'["api"] = <<e, r>>
      BY <1>1, <2>1
    <3> QED
      BY <1>1, <1>2, <3>1, <3>2, <3>3, TwoCalls, Names
  <2> DEFINE cs == <<e, r>>
  <2>3. cs \in Seq(Calls) /\ Len(cs) = 2 /\ cs[1] = e /\ cs[2] = r
    BY <1>2
  <2>4. calls' = [calls EXCEPT !["api"] = cs]
    BY <2>1
  <2> HIDE DEF cs
  <2>5. ASSUME NEW i \in 1..Len(cs)
        PROVE  cs[i].op \in {"dispatch", "record", "await", "enter", "abort", "judge"}
    <3>1. i = 1 \/ i = 2
      BY <2>3
    <3> QED
      BY <1>2, <2>3, <3>1
  <2> QED
    BY <1>1, <1>2, <2>1, <2>2, <2>3, <2>4, <2>5, Begins
<1>5. CASE ApiCancel(s)
  <2>1. calls["api"] = <<>> /\ calls' = [calls EXCEPT !["api"] = <<a, r>>] /\ status[s] # None
        /\ UNCHANGED <<durable, hand, locks, started, restored, jobs, mode, ghosts, crashes>>
        /\ intents' \subseteq intents \cup {s}
    BY <1>5 DEF ApiCancel, Cancel, a, r
  <2>2. CallsOf("api")'
    <3>1. CallTrue("api", a)' /\ CallTrue("api", r)'
      BY <1>2, <2>1 DEF CallTrue, durable
    <3>2. Precedes(a, r) /\ HandsTo(a, r)
      BY <1>2 DEF Precedes, HandsTo, Later, Last, Gives
    <3>3. calls'["api"] = <<a, r>>
      BY <1>1, <2>1
    <3> QED
      BY <1>1, <1>2, <3>1, <3>2, <3>3, TwoCalls, Names
  <2> DEFINE cs == <<a, r>>
  <2>3. cs \in Seq(Calls) /\ Len(cs) = 2 /\ cs[1] = a /\ cs[2] = r
    BY <1>2
  <2>4. calls' = [calls EXCEPT !["api"] = cs]
    BY <2>1
  <2> HIDE DEF cs
  <2>5. ASSUME NEW i \in 1..Len(cs)
        PROVE  cs[i].op \in {"dispatch", "record", "await", "enter", "abort", "judge"}
    <3>1. i = 1 \/ i = 2
      BY <2>3
    <3> QED
      BY <1>2, <2>3, <3>1
  <2>6. intents' \subseteq Runs /\ UNCHANGED jobs
    BY <1>1, <2>1
  <2> QED
    BY <1>1, <1>2, <2>1, <2>2, <2>3, <2>4, <2>5, <2>6, Begins
<1> QED
  BY <1>3, <1>4, <1>5

LEMMA AssessStep ==
    ASSUME IndInv, NEW r \in Runs, Assess(r)
    PROVE  IndInv'
<1>1. /\ calls \in [Threads -> Seq(Calls)] /\ "jev" \in Threads /\ calls["jev"] = <<>>
      /\ jobs' \subseteq jobs /\ intents' \subseteq Runs
      /\ UNCHANGED <<durable, hand, locks, started, restored, mode, ghosts, crashes>>
  BY Names DEF IndInv, TypeOK, Assess
<1>2. CASE UNCHANGED calls
  <2> DEFINE cs == <<>>
  <2>1. cs \in Seq(Calls) /\ calls' = [calls EXCEPT !["jev"] = cs] /\ cs = <<>>
        /\ \A i \in 1..Len(cs) : FALSE
    BY <1>1, <1>2
  <2> HIDE DEF cs
  <2>2. CallsOf("jev")'
    BY <1>1, <1>2, NoCalls
  <2> QED
    BY <1>1, <2>1, <2>2, Begins
<1>3. CASE ~Settled(r) /\ r \in managed /\ ~UNCHANGED calls
  <2>1. PICK w \in {"first", "safe", "unsafe"} :
             calls' = [calls EXCEPT !["jev"] = <<CallWith("judge", r, w)>>]
    BY <1>3 DEF Assess
  <2> DEFINE j == CallWith("judge", r, w)
             cs == <<j>>
  <2>2. j \in Calls /\ j.op = "judge" /\ j.run = r
    BY DEF CallWith, Calls, Ops
  <2>3. cs \in Seq(Calls) /\ Len(cs) = 1 /\ cs[1] = j /\ cs # <<>>
    BY <2>2
  <2>4. status[r] # None
    <3>1. r \in jobs
      BY DEF Assess
    <3> QED
      BY <1>3, <3>1 DEF IndInv, RunsTrue
  <2>5. CallTrue("jev", j)'
    BY <1>1, <1>3, <2>2, <2>4 DEF CallTrue, durable
  <2> HIDE DEF j
  <2>6. CallsOf("jev")'
    <3>1. calls'["jev"] = <<j>>
      BY <1>1, <2>1 DEF j
    <3> QED
      BY <1>1, <2>2, <2>5, <3>1, OneCall, Names
  <2>7. calls' = [calls EXCEPT !["jev"] = cs]
    BY <2>1 DEF j
  <2> HIDE DEF cs
  <2>8. (\A i \in 1..Len(cs) : cs[i].op = "judge")
        /\ cs[1].op # "record" /\ cs[1].op # "dispatch"
    BY <2>2, <2>3
  <2> QED
    BY <1>1, <2>3, <2>6, <2>7, <2>8, Begins
<1> QED
  BY <1>2, <1>3 DEF Assess

\* A restart: the threads are gone but for an observer of each live run.
LEMMA CrashStep ==
    ASSUME IndInv, Crash
    PROVE  IndInv'
<1>1. /\ TypeOK /\ RunsTrue /\ UNCHANGED <<durable, mode, origin, stillborn>>
      /\ crashes < MaxCrashes /\ crashes' = crashes + 1
      /\ calls' = [t \in Threads |-> IF t \in Live THEN Loop(t) ELSE <<>>]
      /\ hand' = [t \in Threads |-> NoRecord] /\ harness' = None /\ engine' = None
      /\ observing' = [r \in Runs |-> None] /\ started' = Live /\ restored' = Live
      /\ intents' = {} /\ jobs' = {}
      /\ lost' = lost \cup {c \in Children : origin[c] # None /\ account[c] = NoAccount}
  BY DEF IndInv, Crash, Restored
<1>2. Steady
  BY <1>1 DEF Steady, durable, TypeOK
<1>3. RunsTrue' /\ ChildHasGround' /\ NoChain' /\ OnceTrue'
  <2>1. jobs' \subseteq Runs /\ started' \subseteq Runs /\ \A r \in jobs' \cup started' : status[r] # None
    BY <1>1 DEF Live, None
  <2> QED
    BY <1>1, <1>2, <2>1, RunsStay DEF IndInv, durable
<1>4. Live \subseteq Runs /\ \A t \in Live : status'[t] # None
  BY <1>1 DEF Live, durable, None
<1>5. \A t \in Threads : IF t \in Live THEN calls'[t] = Loop(t) ELSE calls'[t] = <<>>
  BY <1>1
<1>6. TypeOK'
  <2>1. calls' \in [Threads -> Seq(Calls)]
    BY <1>1, <1>4, LoopCalls
  <2>2. NoRecord \in Records
    BY DEF NoRecord, Records, NoAccount, Accounts, Statuses
  <2>3. hand' \in [Threads -> Records]
    BY <1>1, <2>2
  <2>4. crashes' \in 0..MaxCrashes
    BY <1>1, BoundsAssumption DEF TypeOK
  <2> QED
    BY <1>1, <1>4, <2>1, <2>3, <2>4 DEF TypeOK, durable
<1>7. ASSUME NEW t \in Threads
      PROVE  /\ CallsOf(t)' /\ \A i \in 1..Len(calls'[t]) : calls'[t][i].op \in {"enter", "note"}
             /\ calls'[t] # <<>> => Head(calls'[t]).op = "enter"
  <2>1. CASE t \in Live
    <3>1. calls'[t] = Loop(t) /\ t \in Runs /\ CallsOf(t)'
      BY <1>4, <1>5, <2>1, LoopTrue
    <3>2. calls'[t] \in Seq(Calls) /\ Len(calls'[t]) = 2
          /\ calls'[t][1] = Call("enter", t) /\ calls'[t][2] = Call("note", t)
      BY <3>1, LoopCalls
    <3>3. Call("enter", t).op = "enter" /\ Call("note", t).op = "note"
      BY DEF Call
    <3> QED
      BY <3>1, <3>2, <3>3
  <2>2. CASE t \notin Live
    BY <1>5, <2>2, NoCalls
  <2> QED
    BY <2>1, <2>2
<1>8. CallsTrue'
  BY <1>7 DEF CallsTrue
<1>9. LocksTrue'
  <2>1. \A t \in Threads : engine' # t /\ harness' # t /\ \A r \in Runs : observing'[r] # t
    BY <1>1, Names
  <2> QED
    BY <1>7, <2>1 DEF LocksTrue, Now, Stages
<1>10. HandsTrue'
  <2>1. \A t \in Threads : hand'[t].run = None
    BY <1>1 DEF NoRecord
  <2>2. \A t \in Threads : calls'[t] # <<>> => HandTrue(t, Head(calls[t]).op, This(t), hand[t])'
    BY <1>7 DEF HandTrue, Stages
  <2> QED
    BY <2>1, <2>2 DEF HandsTrue
<1>11. AccountsTrue'
  <2>1. \A c \in Children : Accounting(c)' = Accounting(c)
    BY <1>1 DEF Accounting, durable
  <2>2. \A c \in Children \ lost' : origin'[c] # None => account'[c] = Accounting(c)'
    BY <1>1, <2>1 DEF IndInv, AccountsTrue, durable
  <2> QED
    BY <1>7, <2>2 DEF AccountsTrue
<1>12. LiveTrue'
  <2> SUFFICES ASSUME NEW r \in Live
               PROVE  Observed(r)' /\ calls'[r][Len(calls'[r])].op = "note"
    BY <1>1 DEF LiveTrue, Live, durable
  <2>1. calls'[r] = Loop(r) /\ r \in Runs
    BY <1>4, <1>5, Names
  <2>2. calls'[r] \in Seq(Calls) /\ Len(calls'[r]) = 2 /\ calls'[r][2] = Call("note", r)
    BY <2>1, LoopCalls
  <2> QED
    BY <2>2 DEF Observed, Call
<1> QED
  BY <1>3, <1>6, <1>8, <1>9, <1>10, <1>11, <1>12 DEF IndInv

\* The last call of a thread makes way for the calls cs, or for none.
LEMMA Concludes ==
    ASSUME IndInv, NEW t \in Threads, calls[t] # <<>>,
           Head(calls[t]).op \in {"await", "judge", "restart"},
           NEW cs \in Seq(Calls), Become(t, cs), CallsOf(t)',
           \A i \in 1..Len(cs) : cs[i].op \in {"enter", "record", "abort", "restart"},
           cs # <<>> => cs[1].op # "record",
           NEW h \in Records, Hold(t, h), h.run # None => status[h.run] # None,
           escalated' \subseteq Runs, confirming' \subseteq Runs, intents' \subseteq Runs,
           UNCHANGED <<status, account, managed, order, locks, started, restored, jobs, mode,
                       ghosts, crashes>>
    PROVE  IndInv'
<1>1. TypeOK /\ CallsTrue /\ RunsTrue /\ LocksTrue /\ HandsTrue
  BY DEF IndInv
<1>2. /\ Len(calls[t]) = 1 /\ calls[t][1] = Head(calls[t]) /\ calls'[t] = cs
      /\ calls' \in [Threads -> Seq(Calls)]
  <2>1. calls \in [Threads -> Seq(Calls)]
    BY <1>1 DEF TypeOK
  <2> QED
    BY <1>1, <2>1, Alone, Replaced DEF Last
<1>3. Steady /\ Grows
  <2>1. Steady
    BY <1>1 DEF Steady, ghosts, TypeOK
  <2> QED
    BY <1>1, <2>1, SteadyGrows
<1>4. Others(t) /\ hand'[t] = h /\ hand' \in [Threads -> Records]
  BY <1>1, ReplacedOthers
<1>5. TypeOK'
  BY <1>1, <1>2, <1>4 DEF TypeOK, locks, ghosts
<1>6. \A i \in 1..Len(calls'[t]) :
          calls'[t][i].op \notin Stages \cup {"recover", "leave", "account", "waccount"}
  BY <1>2 DEF Stages
<1>7. LocksTrue'
  <2>1. Head(calls[t]).op \notin Stages \cup {"recover", "leave"}
    BY DEF Stages
  <2> QED
    BY <1>1, <1>3, <1>4, <1>5, <1>6, <2>1, FreshLocks
<1>8. /\ \A c \in Children : Due(t, c) => Due(t, c)'
      /\ \A x \in Calls : x.op = "account" /\ (\E i \in 1..Len(calls'[t]) : calls'[t][i] = x)
                            => \E i \in 1..Len(calls[t]) : calls[t][i] = x
  <2>1. \A i \in 1..Len(calls[t]) : calls[t][i].op \notin {"account", "waccount"}
    BY <1>2
  <2> QED
    BY <1>6, <2>1, FreshDues
<1>9. \A op \in Ops, q \in Runs, g \in Records :
          calls'[t] # <<>> /\ Head(calls'[t]).op = op /\ Head(calls'[t]).run = q
             /\ hand'[t] = g => HandTrue(t, op, q, g)'
  <2> SUFFICES ASSUME NEW op \in Ops, NEW q \in Runs, NEW g \in Records,
                      calls'[t] # <<>>, Head(calls'[t]).op = op
               PROVE  HandTrue(t, op, q, g)'
    OBVIOUS
  <2>1. Head(calls'[t]) = cs[1] /\ 1 \in 1..Len(cs) /\ cs # <<>>
    BY <1>2
  <2>2. op \in {"enter", "abort", "restart"}
    BY <2>1
  <2> QED
    BY <2>2 DEF HandTrue, Stages
<1>10. hand'[t].run # None => status'[hand'[t].run] # None
  BY <1>4
<1> QED
  BY <1>1, <1>3, <1>4, <1>5, <1>7, <1>8, <1>9, <1>10, SteadyStep

\* The same when nothing follows.
LEMMA EndsThere ==
    ASSUME IndInv, NEW t \in Threads, calls[t] # <<>>,
           Head(calls[t]).op \in {"await", "judge", "restart"}, Return(t),
           NEW h \in Records, hand' = [hand EXCEPT ![t] = h], h.run # None => status[h.run] # None,
           escalated' \subseteq Runs, confirming' \subseteq Runs, intents' \subseteq Runs,
           UNCHANGED <<status, account, managed, order, locks, started, restored, jobs, mode,
                       ghosts, crashes>>
    PROVE  IndInv'
<1> DEFINE cs == <<>>
<1>1. cs \in Seq(Calls) /\ Become(t, cs) /\ (\A i \in 1..Len(cs) : FALSE) /\ cs = <<>>
  BY DEF Return
<1> HIDE DEF cs
<1>2. calls'[t] = cs
  BY <1>1, Alone DEF IndInv, Last
<1>3. CallsOf(t)'
  BY <1>1, <1>2, NoCalls
<1> QED
  BY <1>1, <1>3, Concludes DEF Hold

LEMMA EmptyHand == NoRecord \in Records /\ NoRecord.run = None
  BY DEF NoRecord, Records, NoAccount, Accounts, Statuses

LEMMA AwaitStep ==
    ASSUME IndInv, NEW t \in Threads, Await(t)
    PROVE  IndInv'
<1>1. PICK s \in Runs : s = This(t)
  BY Current DEF IndInv, Await, Now
<1>2. /\ TypeOK /\ CallsTrue /\ calls[t] # <<>> /\ Head(calls[t]).op = "await" /\ Hold(t, NoRecord)
      /\ UNCHANGED <<durable, locks, started, intents, restored, jobs, mode, ghosts, crashes>>
  BY DEF IndInv, Await, Now
<1>3. escalated' \subseteq Runs /\ confirming' \subseteq Runs /\ intents' \subseteq Runs
  BY <1>2 DEF TypeOK, durable
<1>4. CASE hand[t].run = s /\ hand[t].status = "RUNNING"
  <2> DEFINE e == Call("enter", s)  r == Call("record", s)  cs == <<e, r>>
  <2>1. Become(t, cs)
    BY <1>1, <1>4 DEF Await
  <2>2. e \in Calls /\ r \in Calls /\ e.op = "enter" /\ r.op = "record" /\ e.run = s /\ r.run = s
    BY DEF Call, Calls, Ops, Statuses, None
  <2> HIDE DEF e, r
  <2>3. cs \in Seq(Calls) /\ Len(cs) = 2 /\ cs[1] = e /\ cs[2] = r
    BY <2>2
  <2>4. status[s] # None
    BY <1>4, Names DEF IndInv, HandsTrue
  <2>5. calls'[t] = <<e, r>>
    BY <1>2, <2>1, <2>3, Alone DEF Last
  <2>6. CallsOf(t)'
    <3>1. CallTrue(t, e)' /\ CallTrue(t, r)'
      BY <1>2, <2>2, <2>4 DEF CallTrue, durable
    <3>2. Precedes(e, r) /\ HandsTo(e, r)
      BY <2>2 DEF Precedes, HandsTo, Later, Last, Gives
    <3>3. t \in Runs => status'[t] # None
      BY <1>2 DEF CallsTrue, CallsOf, durable
    <3> QED
      BY <2>2, <2>5, <3>1, <3>2, <3>3, TwoCalls
  <2> HIDE DEF cs
  <2>7. \A i \in 1..Len(cs) : cs[i].op \in {"enter", "record", "abort", "restart"}
    <3> SUFFICES ASSUME NEW i \in 1..Len(cs) PROVE cs[i].op \in {"enter", "record", "abort", "restart"}
      OBVIOUS
    <3>1. i = 1 \/ i = 2
      BY <2>3
    <3> QED
      BY <2>2, <2>3, <3>1
  <2> QED
    BY <1>2, <1>3, <2>1, <2>2, <2>3, <2>6, <2>7, EmptyHand, Concludes DEF durable
<1>5. CASE ~(hand[t].run = s /\ hand[t].status = "RUNNING")
  <2>1. Return(t)
    BY <1>1, <1>5 DEF Await
  <2> QED
    BY <1>2, <1>3, <2>1, EmptyHand, EndsThere DEF durable, Hold
<1> QED
  BY <1>4, <1>5

\* A judgment: a plain entry, a mark, or a cancel and a restart of the run's own lane.
LEMMA JudgeStep ==
    ASSUME IndInv, NEW t \in Threads, Judge(t)
    PROVE  IndInv'
<1>1. PICK r \in Runs : r = This(t)
  BY Current DEF IndInv, Judge, Now
<1>2. /\ TypeOK /\ CallsTrue /\ calls[t] # <<>> /\ Head(calls[t]).op = "judge"
      /\ UNCHANGED <<status, account, managed, order, locks, started, restored, jobs, mode,
                     ghosts, crashes>>
  BY DEF IndInv, Judge, Now
<1>3. t = "jev" /\ r \in managed /\ status[r] # None
  BY <1>1, <1>2, Current DEF CallTrue, This
<1>4. PICK h \in Records :
         h = hand[t] /\ hand = [hand EXCEPT ![t] = h] /\ (h.run # None => status[h.run] # None)
  BY <1>2 DEF IndInv, HandsTrue, TypeOK
<1>5. CASE Return(t) /\ UNCHANGED <<hand, intents>> /\ escalated' \subseteq Runs /\ confirming' \subseteq Runs
  <2>1. hand' = [hand EXCEPT ![t] = h] /\ intents' \subseteq Runs
    BY <1>2, <1>4, <1>5 DEF TypeOK
  <2> QED
    BY <1>2, <1>4, <1>5, <2>1, EndsThere
<1>6. CASE /\ mode = "auto" /\ Become(t, Cancel(r) \o <<CallWith("restart", r, "own")>>)
           /\ intents' = intents \cup {r} /\ UNCHANGED <<escalated, confirming, hand>>
  <2> DEFINE a == Call("abort", r)  b == Call("record", r)  c == CallWith("restart", r, "own")
             cs == <<a, b, c>>
  <2>1. Become(t, <<a, b>> \o <<c>>)
    BY <1>6 DEF Cancel
  <2>2. /\ a \in Calls /\ b \in Calls /\ c \in Calls /\ a.op = "abort" /\ b.op = "record"
        /\ c.op = "restart" /\ a.run = r /\ b.run = r /\ c.run = r
    BY DEF Call, CallWith, Calls, Ops, Statuses, None
  <2> HIDE DEF a, b, c
  <2>3. cs \in Seq(Calls) /\ Len(cs) = 3 /\ cs[1] = a /\ cs[2] = b /\ cs[3] = c
    BY <2>2
  <2>8. Become(t, cs)
    BY <2>1, <2>2, Joined
  <2>4. calls'[t] = <<a, b, c>>
    BY <1>2, <2>3, <2>8, Alone DEF Last
  <2>5. CallsOf(t)'
    <3>1. CallTrue(t, a)' /\ CallTrue(t, b)' /\ CallTrue(t, c)'
      BY <1>2, <1>3, <1>6, <2>2 DEF CallTrue
    <3>2. /\ Precedes(a, b) /\ Precedes(a, c) /\ Precedes(b, c)
          /\ HandsTo(a, b) /\ HandsTo(b, c)
      BY <2>2 DEF Precedes, HandsTo, Later, Last, Gives
    <3> QED
      BY <1>3, <2>2, <2>4, <3>1, <3>2, ThreeCalls, Names
  <2> HIDE DEF cs
  <2>6. \A i \in 1..Len(cs) : cs[i].op \in {"enter", "record", "abort", "restart"}
    <3> SUFFICES ASSUME NEW i \in 1..Len(cs) PROVE cs[i].op \in {"enter", "record", "abort", "restart"}
      OBVIOUS
    <3>1. i = 1 \/ i = 2 \/ i = 3
      BY <2>3
    <3> QED
      BY <2>2, <2>3, <3>1
  <2>7. Hold(t, h) /\ escalated' \subseteq Runs /\ confirming' \subseteq Runs /\ intents' \subseteq Runs
    BY <1>2, <1>4, <1>6 DEF Hold, TypeOK
  <2> QED
    BY <1>2, <1>4, <2>2, <2>3, <2>5, <2>6, <2>7, <2>8, Concludes
<1>7. CASE /\ mode = "auto" /\ Hold(t, Record(r)) /\ Become(t, <<CallWith("restart", r, "found")>>)
           /\ UNCHANGED <<escalated, confirming, intents>>
  <2> DEFINE c == CallWith("restart", r, "found")  cs == <<c>>
  <2>1. Become(t, cs)
    BY <1>7
  <2>2. c \in Calls /\ c.op = "restart" /\ c.run = r
    BY DEF CallWith, Calls, Ops
  <2> HIDE DEF c
  <2>3. cs \in Seq(Calls) /\ Len(cs) = 1 /\ cs[1] = c
    BY <2>2
  <2>4. calls'[t] = <<c>>
    BY <1>2, <2>1, <2>3, Alone DEF Last
  <2>5. CallsOf(t)'
    <3>1. CallTrue(t, c)'
      BY <1>2, <1>3, <1>7, <2>2 DEF CallTrue
    <3> QED
      BY <1>3, <2>2, <2>4, <3>1, OneCall, Names
  <2> HIDE DEF cs
  <2>6. \A i \in 1..Len(cs) : cs[i].op \in {"enter", "record", "abort", "restart"}
    BY <2>2, <2>3
  <2>7. Record(r) \in Records /\ Record(r).run = r
    BY <1>2, RecordOf
  <2>8. PICK g \in Records : g = Record(r) /\ g.run = r
    BY <2>7
  <2>9. Hold(t, g) /\ escalated' \subseteq Runs /\ confirming' \subseteq Runs /\ intents' \subseteq Runs
    BY <1>2, <1>7, <2>8 DEF TypeOK
  <2>10. cs[1].op # "record"
    BY <2>2, <2>3
  <2> QED
    BY <1>2, <1>3, <2>1, <2>3, <2>5, <2>6, <2>8, <2>9, <2>10, Concludes
<1>8. \/ Return(t) /\ UNCHANGED <<hand, intents>> /\ escalated' \subseteq Runs /\ confirming' \subseteq Runs
      \/ /\ mode = "auto" /\ Become(t, Cancel(r) \o <<CallWith("restart", r, "own")>>)
         /\ intents' = intents \cup {r} /\ UNCHANGED <<escalated, confirming, hand>>
      \/ /\ mode = "auto" /\ Hold(t, Record(r)) /\ Become(t, <<CallWith("restart", r, "found")>>)
         /\ UNCHANGED <<escalated, confirming, intents>>
  BY <1>1, <1>2 DEF Judge, WatchdogRecovery, MarkRequeue, TypeOK
<1> QED
  BY <1>5, <1>6, <1>7, <1>8

LEMMA AbortStep ==
    ASSUME IndInv, NEW t \in Threads, Abort(t)
    PROVE  IndInv'
<1>1. PICK r \in Runs : r = This(t)
  BY Current DEF IndInv, Abort, Now
<1>2. /\ TypeOK /\ CallsTrue /\ RunsTrue /\ LocksTrue /\ HandsTrue /\ calls[t] # <<>>
      /\ Head(calls[t]).op = "abort" /\ EngineFor(t)
      /\ UNCHANGED <<account, managed, escalated, order, locks, started, restored, mode, ghosts, crashes>>
  BY DEF IndInv, Abort, Now
<1>3. t \in {"api", "jev"} /\ r \in Sources \cup managed /\ status[r] # None
  BY <1>1, <1>2, Current DEF CallTrue, This
<1>4. Unmarked(r) /\ t \notin Runs
  BY <1>3, Names DEF Unmarked
\* No accounting is pending in the thread, and none of this run in another one.
<1>5. \A i \in 1..Len(calls[t]) : calls[t][i].op \notin {"account", "waccount"}
  <2> SUFFICES ASSUME NEW i \in 1..Len(calls[t]) PROVE calls[t][i].op \notin {"account", "waccount"}
    OBVIOUS
  <2>1. CASE i = 1
    BY <1>2, <2>1, Current
  <2>2. CASE i # 1
    <3>1. i \in 2..Len(calls[t])
      BY <1>2, <2>2, Current
    <3>2. Precedes(Head(calls[t]), calls[t][i])
      BY <1>2, <3>1, Current
    <3> QED
      BY <1>2, <3>2 DEF Precedes
  <2> QED
    BY <2>1, <2>2
<1>6. \A u \in Threads, x \in Calls :
          x.op = "account" /\ (\E i \in 1..Len(calls[u]) : calls[u][i] = x) => x.with # r
  <2> SUFFICES ASSUME NEW u \in Threads, NEW x \in Calls, x.op = "account",
                      NEW i \in 1..Len(calls[u]), calls[u][i] = x
               PROVE  x.with # r
    OBVIOUS
  <2>1. CallTrue(u, x)
    BY <1>2 DEF CallsTrue, CallsOf
  <2> QED
    BY <1>3, <2>1, Names DEF CallTrue
<1>7. CASE UNCHANGED <<status, intents, jobs, confirming>> /\ Raise(t)
  <2>1. Steady /\ Grows
    BY <1>2, <1>7, SteadyGrows DEF Steady, ghosts, TypeOK
  <2>2. /\ calls' = [calls EXCEPT ![t] = <<>>] /\ hand' = [hand EXCEPT ![t] = NoRecord]
        /\ calls \in [Threads -> Seq(Calls)] /\ hand \in [Threads -> Records]
    BY <1>2, <1>7 DEF Raise, Hold, TypeOK
  <2>3. calls'[t] = <<>> /\ hand'[t] = NoRecord /\ Others(t) /\ calls' \in [Threads -> Seq(Calls)]
        /\ hand' \in [Threads -> Records]
    BY <2>2, EmptyHand DEF Others
  <2>4. TypeOK'
    BY <1>2, <1>7, <2>3 DEF TypeOK, locks, ghosts
  <2>5. CallsOf(t)' /\ \A i \in 1..Len(calls'[t]) : FALSE
    BY <2>3, NoCalls
  <2>6. LocksTrue'
    BY <1>2, <2>1, <2>3, <2>4, <2>5, FreshLocks DEF Stages
  <2>7. /\ \A c \in Children : Due(t, c) => Due(t, c)'
        /\ \A x \in Calls : x.op = "account" /\ (\E i \in 1..Len(calls'[t]) : calls'[t][i] = x)
                              => \E i \in 1..Len(calls[t]) : calls[t][i] = x
    BY <1>5, <2>5, FreshDues
  <2> QED
    BY <1>2, <1>4, <1>7, <2>1, <2>3, <2>4, <2>5, <2>6, <2>7, EmptyHand, SteadyStep
<1>8. ASSUME NEW s \in Terminal, NEW h \in Records, Hold(t, h), Return(t), h.run = r, h.status = s,
             status' = [status EXCEPT ![r] = s], status[r] # s => status[r] = "RUNNING" /\ s = "CANCELLED",
             intents' \subseteq intents, jobs' \subseteq jobs, confirming' \subseteq confirming
      PROVE  IndInv'
  <2>1. status'[r] = s /\ (\A q \in Runs : q # r => status'[q] = status[q]) /\ s \in Statuses
    BY <1>2, <1>8 DEF TypeOK, Statuses
  <2>2. Steady /\ Grows
    BY <1>2, <1>8, <2>1, SteadyGrows DEF Steady, ghosts, TypeOK, Terminal
  <2>3. Others(t) /\ hand'[t] = h /\ hand' \in [Threads -> Records] /\ calls' \in [Threads -> Seq(Calls)]
    BY <1>2, <1>8, ReturnOthers
  <2>4. TypeOK'
    BY <1>2, <1>8, <2>1, <2>3 DEF TypeOK, locks, ghosts
  <2>5. CallsOf(t)'
    BY <1>2, <1>8, <2>2, Returned
  <2>6. LocksTrue'
    BY <1>2, <1>8, <2>2, <2>3, <2>4, ReturnLocks DEF Stages
  <2>7. \A op \in Ops, q \in Runs, g \in Records :
            calls'[t] # <<>> /\ Head(calls'[t]).op = op /\ Head(calls'[t]).run = q
               /\ hand'[t] = g => HandTrue(t, op, q, g)'
    <3>1. Settled(r)' /\ status'[r] # None /\ Unmarked(r)'
      BY <1>2, <1>4, <2>1 DEF Settled, Terminal, None, Unmarked, ghosts
    <3> QED
      BY <1>1, <1>2, <1>8, <2>2, <2>3, <3>1, ReturnHands
  <2>8. /\ \A c \in Children : Due(t, c) => Due(t, c)'
        /\ \A x \in Calls : x.op = "account" /\ (\E i \in 1..Len(calls'[t]) : calls'[t][i] = x)
                              => \E i \in 1..Len(calls[t]) : calls[t][i] = x
    BY <1>2, <1>8, ReturnKeeps DEF ghosts
  <2>9. \A u \in Threads, x \in Calls :
            x.op = "account" /\ x.with \notin stillborn
              /\ (\E i \in 1..Len(calls[u]) : calls[u][i] = x) => status'[x.with] = status[x.with]
    <3> SUFFICES ASSUME NEW u \in Threads, NEW x \in Calls, x.op = "account",
                        NEW i \in 1..Len(calls[u]), calls[u][i] = x
                 PROVE  status'[x.with] = status[x.with]
      OBVIOUS
    <3>1. x.with # r
      BY <1>6
    <3> QED
      BY <1>2, <1>8, <3>1 DEF TypeOK
  <2>10. hand'[t].run # None => status'[hand'[t].run] # None
    BY <1>3, <1>8, <2>2, <2>3 DEF Grows
  <2>11. status' = status \/ engine \in {None, t}
    BY <1>2 DEF EngineFor
  <2> QED
    BY <1>2, <1>4, <1>8, <2>2, <2>3, <2>4, <2>5, <2>6, <2>7, <2>8, <2>9, <2>10, <2>11, SteadyStep
<1>9. CASE status[r] = "RUNNING" /\ Settle(r, "CANCELLED")
           /\ Hold(t, [Record(r) EXCEPT !.status = "CANCELLED"]) /\ Return(t)
  <2>1. "CANCELLED" \in Terminal /\ "CANCELLED" \in Statuses \cup {"DRIFT"}
    BY DEF Terminal, Statuses
  <2>2. PICK h \in Records : h = [Record(r) EXCEPT !.status = "CANCELLED"] /\ h.run = r
                             /\ h.status = "CANCELLED"
    BY <1>2, <2>1, RecordWith
  <2>3. Hold(t, h) /\ status' = [status EXCEPT ![r] = "CANCELLED"]
        /\ intents' \subseteq intents /\ jobs' \subseteq jobs /\ confirming' \subseteq confirming
    BY <1>9, <2>2 DEF Settle
  <2> QED
    BY <1>8, <1>9, <2>1, <2>2, <2>3
<1>10. CASE status[r] \in Terminal /\ Hold(t, Record(r)) /\ Return(t)
            /\ UNCHANGED <<status, intents, jobs, confirming>>
  <2>1. PICK h \in Records : h = Record(r) /\ h.run = r /\ h.status = status[r]
    BY <1>2, RecordOf
  <2>2. Hold(t, h) /\ status' = [status EXCEPT ![r] = status[r]]
    BY <1>2, <1>10, <2>1 DEF TypeOK
  <2> QED
    BY <1>8, <1>10, <2>1, <2>2
<1>11. \/ UNCHANGED <<status, intents, jobs, confirming>> /\ Raise(t)
       \/ /\ status[r] = "RUNNING" /\ Settle(r, "CANCELLED")
          /\ Hold(t, [Record(r) EXCEPT !.status = "CANCELLED"]) /\ Return(t)
       \/ /\ status[r] \in Terminal /\ Hold(t, Record(r)) /\ Return(t)
          /\ UNCHANGED <<status, intents, jobs, confirming>>
  BY <1>1 DEF Abort, SameRun, Terminal
<1> QED
  BY <1>7, <1>9, <1>10, <1>11

(******************************* accountings *******************************)

LEMMA DropKeeps ==
    ASSUME TypeOK, HandsTrue, NEW t \in Threads, Drop(t)
    PROVE  \E h \in Records : Hold(t, h) /\ (h.run # None => status[h.run] # None)
<1>1. hand[t] \in Records /\ (hand[t].run # None => status[hand[t].run] # None)
  BY DEF TypeOK, HandsTrue
<1>2. hand' = [hand EXCEPT ![t] = IF Len(calls[t]) = 1 THEN NoRecord ELSE hand[t]]
  BY DEF Drop
<1> QED
  BY <1>1, <1>2, EmptyHand DEF Hold

LEMMA LeaveStep ==
    ASSUME IndInv, NEW t \in Threads, Leave(t)
    PROVE  IndInv'
<1>1. /\ TypeOK /\ CallsTrue /\ RunsTrue /\ LocksTrue /\ HandsTrue /\ calls[t] # <<>>
      /\ Head(calls[t]).op = "leave" /\ harness' = None /\ Return(t) /\ Drop(t)
      /\ UNCHANGED <<durable, engine, observing, started, intents, restored, jobs, mode, ghosts, crashes>>
  BY DEF IndInv, Leave, Now
<1>2. PICK r \in Runs : r = This(t)
  BY <1>1, Current
<1>3. PICK h \in Records : Hold(t, h) /\ (h.run # None => status[h.run] # None)
  BY <1>1, DropKeeps
<1>4. Steady /\ Grows
  <2>1. Steady
    BY <1>1 DEF Steady, durable, ghosts, TypeOK
  <2> QED
    BY <1>1, <2>1, SteadyGrows
<1>5. Others(t) /\ hand'[t] = h /\ hand' \in [Threads -> Records] /\ calls' \in [Threads -> Seq(Calls)]
      /\ \E cs \in Seq(Calls) : Become(t, cs)
  BY <1>1, <1>3, ReturnOthers
<1>6. TypeOK'
  BY <1>1, <1>5 DEF TypeOK, durable, ghosts
<1>7. CallsOf(t)'
  BY <1>1, <1>4, Returned
<1>8. LocksTrue'
  <2>1. harness = t
    <3>1. 1 \in 1..Len(calls[t]) /\ calls[t][1].op = "leave"
      BY <1>1, Current
    <3> QED
      BY <1>1, <3>1 DEF LocksTrue
  <2>2. (\A q \in Runs : observing'[q] # t) /\ engine' # t
    BY <1>1 DEF LocksTrue, Now, Stages
  <2>3. calls'[t] # <<>> => Head(calls'[t]).op \notin Stages
    BY <1>1, <1>4, Returned DEF Later, Stages
  <2>4. \A i \in 1..Len(calls'[t]) : calls'[t][i].op \notin {"recover", "account", "leave"}
    <3> SUFFICES ASSUME NEW i \in 1..Len(calls'[t])
                 PROVE  calls'[t][i].op \notin {"recover", "account", "leave"}
      OBVIOUS
    <3>1. i + 1 \in 2..Len(calls[t]) /\ calls'[t][i] = calls[t][i + 1]
      BY <1>1, <1>4, Returned
    <3>2. Precedes(Head(calls[t]), calls'[t][i])
      BY <1>1, <3>1, Current
    <3> QED
      BY <1>1, <3>2 DEF Precedes, Later
  <2>5. harness' # t /\ \A u \in Threads \ {t} : u # None
    BY <1>1, Names
  <2> QED
    BY <1>1, <1>4, <1>5, <1>6, <2>1, <2>2, <2>3, <2>4, <2>5, LocksStep DEF Stages
<1>9. \A op \in Ops, q \in Runs, g \in Records :
          calls'[t] # <<>> /\ Head(calls'[t]).op = op /\ Head(calls'[t]).run = q
             /\ hand'[t] = g => HandTrue(t, op, q, g)'
  BY <1>1, <1>2, <1>4, <1>5, ReturnHands DEF Gives, Stages
<1>10. /\ \A c \in Children : Due(t, c) => Due(t, c)'
       /\ \A x \in Calls : x.op = "account" /\ (\E i \in 1..Len(calls'[t]) : calls'[t][i] = x)
                             => \E i \in 1..Len(calls[t]) : calls[t][i] = x
  BY <1>1, ReturnKeeps DEF ghosts
<1>11. hand'[t].run # None => status'[hand'[t].run] # None
  BY <1>1, <1>3, <1>5 DEF durable
<1> QED
  BY <1>1, <1>4, <1>5, <1>6, <1>7, <1>8, <1>9, <1>10, <1>11, SteadyStep DEF durable

\* The call writes the accounting of child c and returns.
LEMMA AccountedStep ==
    ASSUME IndInv, NEW t \in Threads, calls[t] # <<>>, Head(calls[t]).op \in {"account", "waccount"},
           NEW c \in Children, c = With(t), origin[c] \in Runs,
           account' = [account EXCEPT ![c] = Accounting(c)], Return(t),
           NEW h \in Records, Hold(t, h), h.run # None => status[h.run] # None,
           confirming' \subseteq Runs,
           UNCHANGED <<status, managed, escalated, order, locks, started, intents, restored, jobs, mode,
                       ghosts, crashes>>
    PROVE  IndInv'
<1>1. TypeOK /\ CallsTrue /\ RunsTrue /\ LocksTrue /\ HandsTrue /\ AccountsTrue /\ c \in Runs
  BY Names DEF IndInv
<1>2. PICK r \in Runs : r = This(t)
  BY <1>1, Current
<1>3. Steady /\ Grows
  <2>1. Steady
    BY <1>1 DEF Steady, ghosts, TypeOK
  <2> QED
    BY <1>1, <2>1, SteadyGrows
<1>4. Others(t) /\ hand'[t] = h /\ hand' \in [Threads -> Records] /\ calls' \in [Threads -> Seq(Calls)]
      /\ \E cs \in Seq(Calls) : Become(t, cs)
  BY <1>1, ReturnOthers
<1>5. TypeOK'
  <2>1. Accounting(c) \in Accounts
    BY <1>1 DEF Accounting, Accounts
  <2>2. account' \in [Runs -> Accounts]
    BY <1>1, <2>1 DEF TypeOK
  <2> QED
    BY <1>1, <1>4, <2>2 DEF TypeOK, locks, ghosts
<1>6. CallsTrue'
  <2> SUFFICES ASSUME NEW u \in Threads PROVE CallsOf(u)'
    BY DEF CallsTrue
  <2>1. CASE u = t
    <3>1. CallsOf(t)'
      BY <1>1, <1>3, Returned
    <3> QED
      BY <2>1, <3>1 DEF CallsOf, CallTrue
  <2>2. CASE u # t
    BY <1>1, <1>3, <1>4, <2>2, OtherCalls
  <2> QED
    BY <2>1, <2>2
<1>7. LocksTrue'
  BY <1>1, <1>3, <1>4, <1>5, ReturnLocks DEF Stages
<1>8. HandsTrue'
  <2>1. \A op \in Ops, q \in Runs, g \in Records :
            calls'[t] # <<>> /\ Head(calls'[t]).op = op /\ Head(calls'[t]).run = q
               /\ hand'[t] = g => HandTrue(t, op, q, g)'
    BY <1>1, <1>2, <1>3, <1>4, ReturnHands DEF Gives, Stages
  <2> QED
    BY <1>1, <1>3, <1>4, <1>5, <2>1, HandsStep
<1>9. RunsTrue' /\ ChildHasGround' /\ NoChain' /\ OnceTrue'
  <2>1. status[c] # None
    BY <1>1, Names DEF RunsTrue
  <2>3. \A s \in Runs : s \in Sources \/ status[s] = None => account'[s] = account[s]
    BY <1>1, <2>1, Names DEF TypeOK
  <2>2. jobs' \subseteq Runs /\ started' \subseteq Runs
        /\ \A q \in jobs' \cup started' : status[q] # None
    BY <1>1 DEF RunsTrue, TypeOK
  <2> QED
    BY <1>3, <2>2, <2>3, RunsStay DEF IndInv
<1>10. AccountsTrue'
  <2>1. \A d \in Children : Accounting(d)' = Accounting(d)
    BY DEF Accounting, ghosts
  <2>2. UNCHANGED <<origin, stillborn, lost>>
    BY DEF ghosts
  <2>3. ASSUME NEW d \in Children \ {c}, NEW u \in Threads, Due(u, d) PROVE Due(u, d)'
    <3>1. PICK i \in 1..Len(calls[u]) :
              calls[u][i] \in {CallWith("account", origin[d], d), CallWith("waccount", origin[d], d)}
      BY <2>3 DEF Due
    <3>2. CASE u = t
      <4>1. i # 1
        <5>1. calls[t][1] = Head(calls[t]) /\ calls[t][i].with = d
          BY <1>1, <3>1, <3>2, Current DEF CallWith
        <5> QED
          BY <2>3, <5>1 DEF With
      <4>2. i - 1 \in 1..Len(calls'[t]) /\ (i - 1) + 1 = i
        BY <1>1, <1>3, <3>2, <4>1, Returned, Current
      <4>3. calls'[t][i - 1] = calls[t][i]
        BY <1>1, <1>3, <4>2, Returned
      <4> QED
        BY <2>2, <3>1, <3>2, <4>2, <4>3 DEF Due
    <3>3. CASE u # t
      <4>1. calls'[u] = calls[u]
        BY <1>4, <3>1, <3>3 DEF Others
      <4> QED
        BY <2>2, <3>1, <4>1 DEF Due
    <3> QED
      BY <3>2, <3>3
  <2>4. ASSUME NEW d \in Children \ lost', origin'[d] # None
        PROVE  \/ account'[d] = Accounting(d)'
               \/ account'[d] = NoAccount /\ \E u \in Threads : Due(u, d)'
    <3>1. CASE d = c
      BY <1>1, <2>1, <3>1 DEF TypeOK
    <3>2. CASE d # c
      <4>1. account'[d] = account[d] /\ d \in Children \ lost /\ origin[d] # None
        BY <1>1, <2>2, <2>4, <3>2, Names DEF TypeOK
      <4> QED
        BY <1>1, <2>1, <2>3, <3>2, <4>1 DEF AccountsTrue
    <3> QED
      BY <3>1, <3>2
  <2>5. ASSUME NEW u \in Threads, NEW i \in 1..Len(calls'[u]),
               calls'[u][i].op = "account", calls'[u][i].with \notin stillborn'
        PROVE  status'[calls'[u][i].with] = "RUNNING"
    <3>1. CASE u = t
      <4>1. i + 1 \in 1..Len(calls[t]) /\ calls'[t][i] = calls[t][i + 1]
        BY <1>1, <1>3, <2>5, <3>1, Returned, Current
      <4> QED
        BY <1>1, <2>2, <2>5, <3>1, <4>1 DEF AccountsTrue
    <3>2. CASE u # t /\ calls'[u] = calls[u]
      BY <1>1, <2>2, <2>5, <3>2 DEF AccountsTrue
    <3>3. CASE u # t /\ u \in Runs /\ calls'[u] = Loop(u)
      <4>1. calls'[u][i] \in {Call("enter", u), Call("note", u)}
        BY <2>5, <3>3, LoopCalls
      <4> QED
        BY <2>5, <4>1 DEF Call
    <3> QED
      BY <1>4, <3>1, <3>2, <3>3 DEF Others
  <2> QED
    BY <2>4, <2>5 DEF AccountsTrue
<1>11. LiveTrue'
  BY <1>1, <1>3, <1>4, LiveStep DEF IndInv
<1> QED
  BY <1>5, <1>6, <1>7, <1>8, <1>9, <1>10, <1>11 DEF IndInv

LEMMA AccountStep ==
    ASSUME IndInv, NEW t \in Threads, AccountCall(t) \/ WatchdogAccount(t)
    PROVE  IndInv'
<1>1. /\ TypeOK /\ CallsTrue /\ RunsTrue /\ HandsTrue /\ calls[t] # <<>> /\ Return(t)
      /\ Head(calls[t]).op \in {"account", "waccount"}
      /\ UNCHANGED <<status, managed, escalated, order, locks, started, intents, restored, jobs, mode,
                     ghosts, crashes>>
  BY DEF IndInv, AccountCall, WatchdogAccount, Now
<1>2. /\ This(t) \in Runs /\ With(t) \in Children /\ origin[With(t)] = This(t)
      /\ Head(calls[t]).op = "account" => This(t) \notin managed
      /\ Head(calls[t]).op = "waccount" => This(t) \in managed
  BY <1>1, Current DEF CallTrue, This, With
<1>3. PICK c \in Children : c = With(t)
  BY <1>2
<1>4. \E h \in Records : Hold(t, h) /\ (h.run # None => status[h.run] # None)
  BY <1>1, DropKeeps, EmptyHand DEF AccountCall, WatchdogAccount
<1>5. account' = [account EXCEPT ![c] = Accounting(c)]
  <2>1. CASE AccountCall(t)
    <3>1. Head(calls[t]).op = "account" /\ account' = [account EXCEPT ![c] =
              [kind |-> "recovery", of |-> This(t), ran |-> status[c] # "DENIED"]]
      BY <1>3, <2>1 DEF AccountCall, Account, Now
    <3>2. Accounting(c) = [kind |-> "recovery", of |-> This(t), ran |-> status[c] # "DENIED"]
      BY <1>2, <1>3, <3>1 DEF Accounting
    <3> QED
      BY <3>1, <3>2
  <2>2. CASE WatchdogAccount(t)
    <3>1. Head(calls[t]).op = "waccount" /\ account' = [account EXCEPT ![c] =
              [kind |-> "watchdog", of |-> This(t), ran |-> TRUE]]
      BY <1>3, <2>2 DEF WatchdogAccount, Now
    <3>2. Accounting(c) = [kind |-> "watchdog", of |-> This(t), ran |-> TRUE]
      BY <1>2, <1>3, <3>1 DEF Accounting
    <3> QED
      BY <3>1, <3>2
  <2> QED
    BY <2>1, <2>2
<1>6. confirming' \subseteq Runs
  BY <1>1 DEF AccountCall, WatchdogAccount, TypeOK
<1> QED
  BY <1>1, <1>2, <1>3, <1>4, <1>5, <1>6, AccountedStep

(******************************** recording ********************************)

\* An observer that goes on keeps its last call.
LEMMA LastKept ==
    ASSUME TypeOK, NEW t \in Threads, calls[t] # <<>>, Head(calls[t]).op # "note",
           calls[t][Len(calls[t])].op = "note", NEW cs \in Seq(Calls), Puts(t, cs)
    PROVE  calls'[t] # <<>> /\ calls'[t][Len(calls'[t])].op = "note"
<1>1. /\ calls \in [Threads -> Seq(Calls)] /\ Len(calls[t]) \in Nat /\ Len(calls[t]) > 0
      /\ Head(calls[t]) = calls[t][1] /\ Len(cs) \in Nat
  BY DEF TypeOK
<1>2. Len(calls[t]) > 1
  BY <1>1
<1>3. /\ calls'[t] \in Seq(Calls) /\ Len(calls'[t]) = Len(cs) + (Len(calls[t]) - 1)
      /\ \A i \in 1..Len(calls'[t]) :
            calls'[t][i] = IF i <= Len(cs) THEN cs[i] ELSE calls[t][(i - Len(cs)) + 1]
  BY <1>1, Put
<1> DEFINE n == Len(calls'[t])
<1>4. n \in 1..n /\ ~(n <= Len(cs)) /\ (n - Len(cs)) + 1 = Len(calls[t])
  BY <1>1, <1>2, <1>3
<1>5. calls'[t][n] = calls[t][Len(calls[t])]
  BY <1>3, <1>4
<1> QED
  BY <1>3, <1>4, <1>5

\* The record of a run that has ended: its controller goes, no live run is touched.
LEMMA EndedLive ==
    ASSUME TypeOK, CallsTrue, LiveTrue, status' = status, started' \subseteq started,
           NEW t \in Threads, calls[t] # <<>>, Head(calls[t]).op \in {"record", "note"},
           Settled(This(t)), NEW cs \in Seq(Calls), Become(t, cs)
    PROVE  LiveTrue'
<1>1. \A u \in Threads \ {t} : calls'[u] = calls[u]
  BY Replaced DEF TypeOK
<1> SUFFICES ASSUME NEW r \in Runs, status[r] = "RUNNING"
             PROVE  /\ Observed(r)' \/ \E u \in Threads : Now(u, "record")' /\ This(u)' = r
                    /\ Observed(r)' => calls'[r][Len(calls'[r])].op = "note"
                    /\ r \in started' => Observed(r)'
  BY DEF LiveTrue, Live
<1>2. r \in Live /\ r \in Threads /\ r # This(t)
  BY Names DEF Live, Settled, Terminal
<1>3. CASE r # t
  <2>1. calls'[r] = calls[r]
    BY <1>1, <1>2, <1>3
  <2>2. \A u \in Threads : Now(u, "record") /\ This(u) = r => Now(u, "record")' /\ This(u)' = r
    BY <1>1, <1>2 DEF Now, This
  <2> QED
    BY <1>2, <2>1, <2>2 DEF LiveTrue, Observed
<1>4. CASE r = t
  <2>1. Head(calls[t]).op # "note"
    BY <1>2, <1>4, Current DEF CallTrue, This
  <2>2. calls[t][Len(calls[t])].op = "note"
    BY <1>2, <1>4 DEF LiveTrue, Observed
  <2>3. calls'[t] # <<>> /\ calls'[t][Len(calls'[t])].op = "note"
    BY <2>1, <2>2, LastKept DEF Puts
  <2> QED
    BY <1>4, <2>3 DEF Observed
<1> QED
  BY <1>3, <1>4

\* Each other thread, when t puts cs in the place of its first call and the observer of
\* run r starts if it has to.
LEMMA Starts ==
    ASSUME TypeOK, NEW t \in Threads, NEW r \in Runs, status[r] # None, calls[t] # <<>>,
           NEW cs \in Seq(Calls), NEW h \in Records, Hold(t, h),
           calls' = [u \in Threads |->
                        IF u = t THEN cs \o Tail(calls[t])
                        ELSE IF u = r /\ r \notin started /\ ~Observed(r) THEN Loop(r)
                        ELSE calls[u]]
    PROVE  /\ Puts(t, cs) /\ Others(t) /\ calls' \in [Threads -> Seq(Calls)]
           /\ hand'[t] = h /\ hand' \in [Threads -> Records]
           /\ \A u \in Threads \ {t} : calls[u] # <<>> \/ u # r => calls'[u] = calls[u]
           /\ r # t /\ r \notin started /\ calls[r] = <<>> => calls'[r] = Loop(r)
<1>1. calls \in [Threads -> Seq(Calls)] /\ hand \in [Threads -> Records] /\ r \in Threads
  BY Names DEF TypeOK
<1>2. Puts(t, cs)
  BY DEF Puts
<1>3. calls'[t] \in Seq(Calls)
  BY <1>1, <1>2, Put
<1>4. calls' \in [Threads -> Seq(Calls)]
  <2> SUFFICES ASSUME NEW u \in Threads PROVE calls'[u] \in Seq(Calls)
    OBVIOUS
  <2>1. CASE u = t
    BY <1>3, <2>1
  <2>2. CASE u # t
    BY <1>1, <2>2, LoopCalls
  <2> QED
    BY <2>1, <2>2
<1>5. hand' = [hand EXCEPT ![t] = h]
  BY DEF Hold
<1>6. hand'[t] = h /\ hand' \in [Threads -> Records] /\ \A u \in Threads \ {t} : hand'[u] = hand[u]
  BY <1>1, <1>5
<1>7. Others(t)
  BY <1>6 DEF Others, Observed
<1> QED
  BY <1>1, <1>2, <1>4, <1>6, <1>7 DEF Observed

\* _record of a run that has ended: the thread returns, or recovers the run first and
\* then lets go of the harness lock if it took it here.
LEMMA EndedStep ==
    ASSUME IndInv, NEW t \in Threads, calls[t] # <<>>, Head(calls[t]).op \in {"record", "note"},
           NEW r \in Runs, r = This(t), hand[t].status \in Terminal, HarnessFor(t),
           started' = started \ {r}, UNCHANGED jobs, intents' \subseteq Runs,
           harness' = IF Recovers(hand[t]) THEN t ELSE harness,
           Become(t, IF ~Recovers(hand[t]) THEN <<>>
                     ELSE <<Call("recover", r)>>
                          \o (IF harness = t THEN <<>> ELSE <<Call("leave", r)>>) \o <<>>),
           NEW h \in Records, Hold(t, h), h.run # None => status[h.run] # None,
           UNCHANGED <<durable, engine, observing, restored, mode, ghosts, crashes>>
    PROVE  IndInv'
<1>1. TypeOK /\ CallsTrue /\ RunsTrue /\ LocksTrue /\ HandsTrue /\ LiveTrue
  BY DEF IndInv
<1>2. Steady /\ Grows
  <2>1. Steady
    BY <1>1 DEF Steady, durable, ghosts, TypeOK
  <2> QED
    BY <1>1, <2>1, SteadyGrows
<1>3. /\ hand[t] \in Records /\ hand[t].run = r /\ status[r] # None /\ Settled(r)
      /\ hand[t].account.kind = "recovery" \/ Unmarked(r)
  BY <1>1 DEF HandsTrue, HandTrue, TypeOK
<1>4. /\ \A s \in Runs : s \in Sources \/ status[s] = None => account'[s] = account[s]
      /\ \A q \in jobs' \cup started' : status[q] # None
      /\ \A c \in Children \ lost' : account'[c] = account[c]
  BY <1>1 DEF durable, RunsTrue
<1>5. ASSUME NEW cs \in Seq(Calls), Become(t, cs)
      PROVE  /\ Others(t) /\ hand'[t] = h /\ TypeOK' /\ LiveTrue'
             /\ hand'[t].run # None => status'[hand'[t].run] # None
  <2>1. Others(t) /\ hand'[t] = h /\ hand' \in [Threads -> Records]
    BY <1>1, <1>5, ReplacedOthers
  <2>2. calls' \in [Threads -> Seq(Calls)]
    BY <1>1, <1>5, Replaced DEF TypeOK
  <2>3. TypeOK'
    BY <1>1, <2>1, <2>2 DEF TypeOK, durable, ghosts
  <2>4. LiveTrue'
    BY <1>1, <1>3, <1>5, EndedLive DEF durable
  <2> QED
    BY <2>1, <2>3, <2>4 DEF durable
<1>6. CASE ~Recovers(hand[t])
  <2>1. Return(t) /\ UNCHANGED locks
    BY <1>6 DEF Return, locks
  <2>2. \E cs \in Seq(Calls) : Become(t, cs)
    BY <1>1, <2>1, ReturnOthers
  <2>3. CallsOf(t)'
    BY <1>1, <1>2, <2>1, Returned
  <2>4. LocksTrue'
    BY <1>1, <1>2, <1>5, <2>1, <2>2, ReturnLocks DEF Stages
  <2>5. \A op \in Ops, q \in Runs, g \in Records :
            calls'[t] # <<>> /\ Head(calls'[t]).op = op /\ Head(calls'[t]).run = q
               /\ hand'[t] = g => HandTrue(t, op, q, g)'
    BY <1>1, <1>2, <1>5, <2>1, <2>2, ReturnHands DEF Gives, Stages
  <2>6. /\ \A c \in Children : Due(t, c) => Due(t, c)'
        /\ \A x \in Calls : x.op = "account" /\ (\E i \in 1..Len(calls'[t]) : calls'[t][i] = x)
                              => \E i \in 1..Len(calls[t]) : calls[t][i] = x
    BY <1>1, <2>1, ReturnKeeps DEF ghosts
  <2> QED
    BY <1>1, <1>2, <1>4, <1>5, <2>2, <2>3, <2>4, <2>5, <2>6, SteadyRest DEF durable
<1>7. CASE Recovers(hand[t])
  <2> DEFINE a == Call("recover", r)  b == Call("leave", r)
  <2>1. /\ a \in Calls /\ b \in Calls /\ a.op = "recover" /\ b.op = "leave" /\ a.run = r /\ b.run = r
    BY DEF Call, Calls, Ops, Statuses, None
  <2> HIDE DEF a, b
  <2>2. \E cs \in Seq(Calls) : /\ Become(t, cs) /\ (Len(cs) = 1 \/ Len(cs) = 2) /\ cs[1] = a
                               /\ Len(cs) = 1 => harness = t
                               /\ Len(cs) = 2 => cs[2] = b /\ harness # t
    <3>1. CASE harness = t
      <4> DEFINE cs == <<a>>
      <4>1. cs \in Seq(Calls) /\ Len(cs) = 1 /\ cs[1] = a
        BY <2>1
      <4>2. cs = <<a>> \o <<>> \o <<>>
        BY <4>1, ConcatEmptySeq
      <4>3. Become(t, cs)
        BY <1>7, <3>1, <4>2 DEF a
      <4> HIDE DEF cs
      <4>4. Len(cs) # 2
        BY <4>1
      <4> QED
        BY <3>1, <4>1, <4>3, <4>4
    <3>2. CASE harness # t
      <4> DEFINE cs == <<a, b>>
      <4>1. cs \in Seq(Calls) /\ Len(cs) = 2 /\ cs[1] = a /\ cs[2] = b
        BY <2>1
      <4>2. cs = <<a>> \o <<b>> \o <<>>
        BY <2>1, <4>1, Joined, ConcatEmptySeq
      <4>3. Become(t, cs)
        BY <1>7, <3>2, <4>2 DEF a, b
      <4> HIDE DEF cs
      <4> QED
        BY <3>2, <4>1, <4>3
    <3> QED
      BY <3>1, <3>2
  <2>3. PICK cs \in Seq(Calls) : /\ Become(t, cs) /\ (Len(cs) = 1 \/ Len(cs) = 2) /\ cs[1] = a
                                 /\ Len(cs) = 1 => harness = t
                                 /\ Len(cs) = 2 => cs[2] = b /\ harness # t
    BY <2>2
  <2>4. \A i \in 1..Len(cs) : cs[i] = a \/ (cs[i] = b /\ harness # t)
    <3> SUFFICES ASSUME NEW i \in 1..Len(cs) PROVE cs[i] = a \/ (cs[i] = b /\ harness # t)
      OBVIOUS
    <3>2. Len(cs) = 1 \/ Len(cs) = 2
      BY <2>3
    <3>3. CASE Len(cs) = 1
      <4>1. i = 1
        BY <3>3
      <4> QED
        BY <2>3, <4>1
    <3>4. CASE Len(cs) = 2
      <4>1. i = 1 \/ i = 2
        BY <3>4
      <4> QED
        BY <2>3, <3>4, <4>1
    <3> QED
      BY <3>2, <3>3, <3>4
  <2>5. CallsOf(t)'
    <3>1. CallTrue(t, a)' /\ CallTrue(t, b)'
      BY <1>3, <2>1 DEF CallTrue, durable
    <3>2. \A x \in Calls : (\E i \in 1..Len(cs) : x = cs[i]) => CallTrue(t, x)'
      <4> SUFFICES ASSUME NEW x \in Calls, NEW i \in 1..Len(cs), x = cs[i] PROVE CallTrue(t, x)'
        OBVIOUS
      <4>1. x = a \/ x = b
        BY <2>4
      <4> QED
        BY <3>1, <4>1 DEF CallTrue
    <3>3. ASSUME NEW i \in 1..Len(cs), NEW j \in 1..Len(cs), i < j
          PROVE  cs[i] = a /\ cs[j] = b
      <4>1. Len(cs) = 1 \/ Len(cs) = 2
        BY <2>3
      <4>2. Len(cs) = 2
        <5>1. ASSUME Len(cs) = 1 PROVE FALSE
          <6>1. i = 1 /\ j = 1
            BY <5>1
          <6> QED
            BY <3>3, <6>1
        <5> QED
          BY <4>1, <5>1
      <4>3. i = 1 /\ j = 2
        BY <3>3, <4>2
      <4> QED
        BY <2>3, <4>2, <4>3
    <3>4. Precedes(a, b) /\ HandsTo(a, b)
      BY <2>1 DEF Precedes, HandsTo, Later, Last
    <3>5. /\ \A i, j \in 1..Len(cs) : i < j => Precedes(cs[i], cs[j])
          /\ \A i, j \in 1..Len(cs) : j = i + 1 => HandsTo(cs[i], cs[j])
      <4>1. \A i, j \in 1..Len(cs) : j = i + 1 => i < j
        BY <2>3
      <4> QED
        BY <3>3, <3>4, <4>1
    <3>6. \A i \in 1..Len(cs) : \A j \in 2..Len(calls[t]) : Precedes(cs[i], calls[t][j])
      <4> SUFFICES ASSUME NEW i \in 1..Len(cs), NEW j \in 2..Len(calls[t])
                   PROVE  Precedes(cs[i], calls[t][j])
        OBVIOUS
      <4>1. calls[t][j] \in Calls /\ Precedes(Head(calls[t]), calls[t][j]) /\ j \in 1..Len(calls[t])
        BY <1>1, Current
      <4>2. Head(calls[t]).op = "record" /\ Head(calls[t]).run = r
        BY <4>1 DEF Precedes, Last, This
      <4>3. CASE cs[i] = a
        BY <2>1, <4>1, <4>2, <4>3 DEF Precedes, Last, Stages
      <4>4. CASE cs[i] = b /\ harness # t
        <5>1. calls[t][j].op \notin {"leave", "account"}
          BY <1>1, <4>1, <4>4 DEF LocksTrue
        <5> QED
          BY <2>1, <4>1, <4>4, <5>1 DEF Precedes, Last
      <4> QED
        BY <2>4, <4>3, <4>4
    <3>7. Len(cs) > 0 /\ Len(calls[t]) > 1 => HandsTo(cs[Len(cs)], calls[t][2])
      <4> SUFFICES ASSUME Len(calls[t]) > 1 PROVE HandsTo(cs[Len(cs)], calls[t][2])
        OBVIOUS
      <4>1. HandsTo(Head(calls[t]), calls[t][2])
        BY <1>1, Current
      <4> QED
        BY <4>1 DEF HandsTo, Gives, Stages
    <3> QED
      BY <1>1, <1>2, <2>3, <3>2, <3>5, <3>6, <3>7, ListStep
  <2>6. /\ calls'[t] \in Seq(Calls) /\ Len(calls'[t]) = Len(cs) + (Len(calls[t]) - 1)
        /\ \A i \in 1..Len(calls'[t]) :
              calls'[t][i] = IF i <= Len(cs) THEN cs[i] ELSE calls[t][(i - Len(cs)) + 1]
        /\ Len(calls[t]) \in Nat /\ Len(calls[t]) > 0
    <3>1. calls \in [Threads -> Seq(Calls)]
      BY <1>1 DEF TypeOK
    <3> QED
      BY <1>1, <2>3, <3>1, Replaced, Current
  <2>7. calls'[t] # <<>> /\ Head(calls'[t]) = a /\ Len(calls'[t]) >= Len(cs)
    <3>1. Len(cs) \in Nat /\ Len(cs) > 0
      BY <2>3
    <3>2. Len(calls'[t]) \in Nat /\ Len(calls'[t]) > 0 /\ Len(calls'[t]) >= Len(cs)
      BY <2>6, <3>1
    <3>3. calls'[t][1] = cs[1]
      BY <2>6, <3>1, <3>2
    <3> QED
      BY <2>3, <2>6, <3>2, <3>3
  <2>8. LocksTrue'
    <3>1. /\ Others(t) /\ TypeOK' /\ harness' = t
      BY <1>5, <1>7, <2>3
    <3>2. (\A q \in Runs : observing'[q] # t) /\ engine' # t
      BY <1>1 DEF LocksTrue, Now, Stages
    <3>3. Head(calls'[t]).op = "recover"
      BY <2>1, <2>7
    <3>4. Sources \subseteq managed => Len(calls'[t]) > 1 /\ calls'[t][2].op = "leave"
      <4> SUFFICES ASSUME Sources \subseteq managed
                   PROVE  Len(calls'[t]) > 1 /\ calls'[t][2].op = "leave"
        OBVIOUS
      <4>1. harness # t
        BY <1>1 DEF LocksTrue, Now
      <4>2. Len(cs) = 2 /\ cs[2] = b
        BY <2>3, <4>1
      <4>3. 2 \in 1..Len(calls'[t]) /\ Len(calls'[t]) > 1
        BY <2>6, <4>2
      <4>4. calls'[t][2] = cs[2]
        BY <2>6, <4>2, <4>3
      <4> QED
        BY <2>1, <4>2, <4>3, <4>4
    <3>5. \A u \in Threads \ {t} : harness' # u /\ harness # u
      BY <3>1, Names DEF HarnessFor
    <3> QED
      BY <1>1, <1>2, <2>7, <3>1, <3>2, <3>3, <3>4, <3>5, LocksStep DEF Stages
  <2>9. \A op \in Ops, q \in Runs, g \in Records :
            calls'[t] # <<>> /\ Head(calls'[t]).op = op /\ Head(calls'[t]).run = q
               /\ hand'[t] = g => HandTrue(t, op, q, g)'
    <3>1. r \notin restored' /\ Unmarked(r)'
      BY <1>3, <1>7 DEF Recovers, Unmarked, durable, ghosts
    <3> QED
      BY <2>1, <2>7, <3>1 DEF HandTrue, Stages
  <2>10. /\ \A c \in Children : Due(t, c) => Due(t, c)'
         /\ \A x \in Calls : x.op = "account" /\ (\E i \in 1..Len(calls'[t]) : calls'[t][i] = x)
                              => \E i \in 1..Len(calls[t]) : calls[t][i] = x
    <3>1. \A i \in 1..Len(cs) : cs[i].op \notin {"account", "waccount"}
      BY <2>1, <2>4
    <3> QED
      BY <1>1, <2>3, <3>1, DuesKept DEF ghosts
  <2> QED
    BY <1>1, <1>2, <1>4, <1>5, <2>3, <2>5, <2>8, <2>9, <2>10, SteadyRest DEF durable
<1> QED
  BY <1>6, <1>7

\* _record of a run that has not ended: the caller goes on, the observer waits again,
\* and a run without an observer gets one.
LEMMA LiveRecorded ==
    ASSUME IndInv, NEW t \in Threads, calls[t] # <<>>, NEW r \in Runs, r = This(t),
           hand[t].status \notin Terminal, NEW cs \in Seq(Calls),
           \/ Head(calls[t]).op = "record" /\ cs = <<>>
           \/ Head(calls[t]).op = "note" /\ cs = Loop(t),
           started' = started \cup {r},
           calls' = [u \in Threads |->
                        IF u = t THEN cs \o Tail(calls[t])
                        ELSE IF u = r /\ r \notin started /\ ~Observed(r) THEN Loop(r)
                        ELSE calls[u]],
           jobs' = jobs \cup ({r} \cap (managed \ {x \in Runs : Settled(x)})),
           NEW h \in Records, Hold(t, h), h.run # None => status[h.run] # None,
           UNCHANGED <<durable, harness, engine, observing, intents, restored, mode, ghosts, crashes>>
    PROVE  IndInv'
<1>1. TypeOK /\ CallsTrue /\ RunsTrue /\ LocksTrue /\ HandsTrue /\ LiveTrue
  BY DEF IndInv
<1>2. Steady /\ Grows
  <2>1. Steady
    BY <1>1 DEF Steady, durable, ghosts, TypeOK
  <2> QED
    BY <1>1, <2>1, SteadyGrows
<1>3. status[r] # None
  BY <1>1 DEF HandsTrue, HandTrue
<1>4. /\ Puts(t, cs) /\ Others(t) /\ calls' \in [Threads -> Seq(Calls)]
      /\ hand'[t] = h /\ hand' \in [Threads -> Records]
      /\ \A u \in Threads \ {t} : calls[u] # <<>> \/ u # r => calls'[u] = calls[u]
      /\ r # t /\ r \notin started /\ calls[r] = <<>> => calls'[r] = Loop(r)
  BY <1>1, <1>3, Starts
<1>5. TypeOK' /\ UNCHANGED locks
  BY <1>1, <1>4 DEF TypeOK, durable, ghosts, locks
<1>6. /\ \A s \in Runs : s \in Sources \/ status[s] = None => account'[s] = account[s]
      /\ \A q \in jobs' \cup started' : status[q] # None
      /\ \A c \in Children \ lost' : account'[c] = account[c]
  BY <1>1, <1>3 DEF durable, RunsTrue
<1>7. hand'[t].run # None => status'[hand'[t].run] # None
  BY <1>4 DEF durable
<1>8. ASSUME NEW q \in Runs, status[q] = "RUNNING", q # t
      PROVE  /\ Observed(q)' \/ \E u \in Threads : Now(u, "record")' /\ This(u)' = q
             /\ Observed(q)' => calls'[q][Len(calls'[q])].op = "note"
             /\ q \in started' => Observed(q)'
  <2>1. q \in Live /\ q \in Threads
    BY <1>8, Names DEF Live
  <2>2. CASE Observed(q)
    <3>1. calls'[q] = calls[q]
      BY <1>4, <1>8, <2>1, <2>2 DEF Observed
    <3> QED
      BY <1>1, <2>1, <2>2, <3>1 DEF LiveTrue, Observed
  <2>3. CASE ~Observed(q) /\ q = r
    <3>1. r \notin started /\ calls[r] = <<>>
      BY <1>1, <2>1, <2>3 DEF LiveTrue, Observed
    <3>2. calls'[q] = Loop(q)
      BY <1>4, <1>8, <2>3, <3>1
    <3>4. calls'[q] # <<>> /\ calls'[q][Len(calls'[q])].op = "note"
      BY <3>2, LoopEnds
    <3> QED
      BY <3>4 DEF Observed
  <2>4. CASE ~Observed(q) /\ q # r
    <3>1. calls'[q] = calls[q] /\ q \notin started'
      BY <1>1, <1>4, <1>8, <2>1, <2>4 DEF LiveTrue
    <3>2. PICK u \in Threads : Now(u, "record") /\ This(u) = q
      BY <1>1, <2>1, <2>4 DEF LiveTrue
    <3>3. u # t /\ calls'[u] = calls[u]
      BY <1>4, <2>4, <3>2 DEF Now
    <3>4. Now(u, "record")' /\ This(u)' = q
      BY <3>2, <3>3 DEF Now, This
    <3> QED
      BY <2>4, <3>1, <3>4 DEF Observed
  <2> QED
    BY <2>2, <2>3, <2>4
<1>9. CASE Head(calls[t]).op = "record" /\ cs = <<>>
  <2>1. Puts(t, <<>>)
    BY <1>4, <1>9
  <2>2. CallsOf(t)'
    BY <1>1, <1>2, <2>1, Returned
  <2>3. LocksTrue'
    BY <1>1, <1>2, <1>4, <1>5, <1>9, <2>1, ReturnLocks DEF Stages
  <2>4. \A op \in Ops, q \in Runs, g \in Records :
            calls'[t] # <<>> /\ Head(calls'[t]).op = op /\ Head(calls'[t]).run = q
               /\ hand'[t] = g => HandTrue(t, op, q, g)'
    BY <1>1, <1>2, <1>4, <1>9, <2>1, ReturnHands DEF Gives, Stages
  <2>5. /\ \A c \in Children : Due(t, c) => Due(t, c)'
        /\ \A x \in Calls : x.op = "account" /\ (\E i \in 1..Len(calls'[t]) : calls'[t][i] = x)
                              => \E i \in 1..Len(calls[t]) : calls[t][i] = x
    BY <1>1, <1>9, <2>1, ReturnKeeps DEF ghosts
  <2>6. ASSUME t \in Runs, status[t] = "RUNNING"
        PROVE  calls'[t] # <<>> /\ calls'[t][Len(calls'[t])].op = "note"
    <3>1. calls[t][Len(calls[t])].op = "note"
      BY <1>1, <2>6 DEF LiveTrue, Live, Observed
    <3> QED
      BY <1>1, <1>4, <1>9, <3>1, LastKept
  <2>7. LiveTrue'
    BY <1>8, <2>6 DEF LiveTrue, Live, Observed, durable
  <2> QED
    BY <1>1, <1>2, <1>4, <1>5, <1>6, <1>7, <2>2, <2>3, <2>4, <2>5, <2>7, SteadyRest DEF durable
<1>10. CASE Head(calls[t]).op = "note" /\ cs = Loop(t)
  <2>1. t = r /\ t \in Runs
    BY <1>1, <1>10, Current DEF CallTrue, This
  <2>2. calls'[t] = Loop(t)
    <3>1. Tail(calls[t]) = <<>>
      BY <1>1, <1>10, Alone DEF Last
    <3>2. calls'[t] = cs \o <<>>
      BY <3>1
    <3> QED
      BY <1>10, <3>2, ConcatEmptySeq
  <2>3. /\ Len(cs) = 2 /\ cs[1] = Call("enter", t) /\ cs[2] = Call("note", t)
        /\ calls'[t] \in Seq(Calls) /\ Len(calls'[t]) = 2
        /\ calls'[t][1] = Call("enter", t) /\ calls'[t][2] = Call("note", t)
        /\ Call("enter", t).op = "enter" /\ Call("note", t).op = "note"
    BY <1>10, <2>1, <2>2, LoopCalls DEF Call
  <2>4. calls'[t] # <<>> /\ Head(calls'[t]).op = "enter"
    BY <2>3
  <2>5. CallsOf(t)'
    BY <1>3, <2>1, <2>2, LoopTrue DEF durable
  <2>6. \A i \in 1..Len(cs) : cs[i].op = "enter" \/ cs[i].op = "note"
    <3> SUFFICES ASSUME NEW i \in 1..Len(cs) PROVE cs[i].op = "enter" \/ cs[i].op = "note"
      OBVIOUS
    <3>1. i = 1 \/ i = 2
      BY <2>3
    <3> QED
      BY <2>3, <3>1
  <2>7. LocksTrue'
    <3>1. \A i \in 1..Len(cs) : cs[i].op \notin Stages \cup {"recover", "leave", "account"}
      BY <2>6 DEF Stages
    <3> QED
      BY <1>1, <1>2, <1>4, <1>5, <1>10, <3>1, LocksSame DEF Stages
  <2>8. \A op \in Ops, q \in Runs, g \in Records :
            calls'[t] # <<>> /\ Head(calls'[t]).op = op /\ Head(calls'[t]).run = q
               /\ hand'[t] = g => HandTrue(t, op, q, g)'
    BY <2>4 DEF HandTrue, Stages
  <2>9. /\ \A c \in Children : Due(t, c) => Due(t, c)'
        /\ \A x \in Calls : x.op = "account" /\ (\E i \in 1..Len(calls'[t]) : calls'[t][i] = x)
                              => \E i \in 1..Len(calls[t]) : calls[t][i] = x
    <3>1. \A i \in 1..Len(cs) : cs[i].op \notin {"account", "waccount"}
      BY <2>6
    <3> QED
      BY <1>1, <1>4, <1>10, <3>1, DuesKept DEF ghosts
  <2>10. LiveTrue'
    BY <1>8, <2>3, <2>4 DEF LiveTrue, Live, Observed, durable
  <2> QED
    BY <1>1, <1>2, <1>4, <1>5, <1>6, <1>7, <2>5, <2>7, <2>8, <2>9, <2>10, SteadyRest DEF durable
<1> QED
  BY <1>9, <1>10

LEMMA RecordStep ==
    ASSUME IndInv, NEW t \in Threads, RecordCall(t)
    PROVE  IndInv'
<1>1. PICK r \in Runs : r = This(t)
  BY Current DEF IndInv, RecordCall, Now
<1>2. /\ TypeOK /\ CallsTrue /\ HandsTrue /\ calls[t] # <<>> /\ Head(calls[t]).op = "record"
      /\ HarnessFor(t) /\ UNCHANGED <<durable, engine, observing, intents, restored, mode, ghosts, crashes>>
  BY DEF IndInv, RecordCall, Recorded, Now
<1>3. hand[t].run = r
  BY <1>1, <1>2 DEF HandsTrue, HandTrue
<1>4. PICK h \in Records : Hold(t, h) /\ (h.run # None => status[h.run] # None)
  <2>1. CASE UNCHANGED hand
    <3>1. hand[t] \in Records /\ hand' = [hand EXCEPT ![t] = hand[t]]
      BY <1>2, <2>1 DEF TypeOK
    <3> QED
      BY <1>2, <3>1 DEF Hold, HandsTrue
  <2>2. CASE Drop(t)
    BY <1>2, <2>2, DropKeeps
  <2> QED
    BY <2>1, <2>2 DEF RecordCall
<1>5. intents' \subseteq Runs
  BY <1>2 DEF TypeOK
<1>6. CASE hand[t].status \in Terminal
  <2>1. /\ started' = started \ {r} /\ UNCHANGED jobs
        /\ harness' = IF Recovers(hand[t]) THEN t ELSE harness
        /\ Become(t, IF ~Recovers(hand[t]) THEN <<>>
                     ELSE <<Call("recover", r)>>
                          \o (IF harness = t THEN <<>> ELSE <<Call("leave", r)>>) \o <<>>)
    BY <1>3, <1>6 DEF RecordCall, Recorded
  <2> QED
    BY <1>1, <1>2, <1>4, <1>5, <1>6, <2>1, EndedStep
<1>7. CASE hand[t].status \notin Terminal
  <2> DEFINE cs == <<>>
  <2>1. cs \in Seq(Calls) /\ cs = <<>>
    OBVIOUS
  <2>2. /\ started' = started \cup {r}
        /\ calls' = [u \in Threads |->
                        IF u = t THEN cs \o Tail(calls[t])
                        ELSE IF u = r /\ r \notin started /\ ~Observed(r) THEN Loop(r)
                        ELSE calls[u]]
        /\ jobs' = jobs \cup ({r} \cap (managed \ {x \in Runs : Settled(x)}))
        /\ UNCHANGED harness
    BY <1>3, <1>7 DEF RecordCall, Recorded
  <2> HIDE DEF cs
  <2> QED
    BY <1>1, <1>2, <1>4, <1>7, <2>1, <2>2, LiveRecorded
<1> QED
  BY <1>6, <1>7

LEMMA NoteStep ==
    ASSUME IndInv, NEW t \in Threads, Note(t)
    PROVE  IndInv'
<1>1. PICK r \in Runs : r = This(t)
  BY Current DEF IndInv, Note, Now
<1>2. /\ TypeOK /\ CallsTrue /\ HandsTrue /\ calls[t] # <<>> /\ Head(calls[t]).op = "note"
      /\ HarnessFor(t) /\ UNCHANGED <<durable, engine, observing, restored, mode, ghosts, crashes>>
      /\ Hold(t, NoRecord)
      /\ intents' = IF hand[t].status \in Terminal THEN intents \ {t} ELSE intents
  BY DEF IndInv, Note, Recorded, Now
<1>3. hand[t].run = r
  BY <1>1, <1>2 DEF HandsTrue, HandTrue
<1>4. PICK h \in Records : Hold(t, h) /\ (h.run # None => status[h.run] # None)
  BY <1>2, EmptyHand
<1>5. CASE hand[t].status \in Terminal
  <2>1. /\ started' = started \ {r} /\ UNCHANGED jobs
        /\ harness' = IF Recovers(hand[t]) THEN t ELSE harness
        /\ Become(t, IF ~Recovers(hand[t]) THEN <<>>
                     ELSE <<Call("recover", r)>>
                          \o (IF harness = t THEN <<>> ELSE <<Call("leave", r)>>) \o <<>>)
    BY <1>3, <1>5 DEF Note, Recorded
  <2>2. intents' \subseteq Runs
    BY <1>2 DEF TypeOK
  <2> QED
    BY <1>1, <1>2, <1>4, <1>5, <2>1, <2>2, EndedStep
<1>6. CASE hand[t].status \notin Terminal
  <2>1. t \in Runs
    BY <1>1, <1>2, Current DEF CallTrue, This
  <2> DEFINE cs == Loop(t)
  <2>2. cs \in Seq(Calls) /\ cs = Loop(t)
    BY <2>1, LoopCalls
  <2>3. /\ started' = started \cup {r}
        /\ calls' = [u \in Threads |->
                        IF u = t THEN cs \o Tail(calls[t])
                        ELSE IF u = r /\ r \notin started /\ ~Observed(r) THEN Loop(r)
                        ELSE calls[u]]
        /\ jobs' = jobs \cup ({r} \cap (managed \ {x \in Runs : Settled(x)}))
        /\ UNCHANGED <<harness, intents>>
    BY <1>2, <1>3, <1>6 DEF Note, Recorded
  <2> HIDE DEF cs
  <2> QED
    BY <1>1, <1>2, <1>4, <1>6, <2>2, <2>3, LiveRecorded
<1> QED
  BY <1>5, <1>6

(****************************** a run is created ***************************)

\* The calls after the first one stay, behind those that take its place.
LEMMA TailKept ==
    ASSUME TypeOK, CallsTrue, NEW t \in Threads, calls[t] # <<>>, NEW cs \in Seq(Calls), Become(t, cs)
    PROVE  /\ \A i \in 2..Len(calls[t]) : \E j \in 1..Len(calls'[t]) : calls'[t][j] = calls[t][i]
           /\ \A j \in 1..Len(calls'[t]) : \/ j \in 1..Len(cs) /\ calls'[t][j] = cs[j]
                                           \/ \E i \in 2..Len(calls[t]) : calls'[t][j] = calls[t][i]
           /\ \A j \in 1..Len(cs) : j \in 1..Len(calls'[t]) /\ calls'[t][j] = cs[j]
<1> DEFINE n == Len(cs)
<1>1. /\ Len(calls'[t]) = n + (Len(calls[t]) - 1) /\ n \in Nat
      /\ \A i \in 1..Len(calls'[t]) :
            calls'[t][i] = IF i <= n THEN cs[i] ELSE calls[t][(i - n) + 1]
  <2>1. calls \in [Threads -> Seq(Calls)]
    BY DEF TypeOK
  <2> QED
    BY <2>1, Replaced
<1>2. Len(calls[t]) \in Nat /\ Len(calls[t]) > 0
  BY Current
<1> HIDE DEF n
<1>3. ASSUME NEW i \in 2..Len(calls[t])
      PROVE  \E j \in 1..Len(calls'[t]) : calls'[t][j] = calls[t][i]
  <2>1. /\ (i - 1) + n \in 1..Len(calls'[t]) /\ ~((i - 1) + n <= n)
        /\ (((i - 1) + n) - n) + 1 = i
    BY <1>1, <1>2
  <2>2. calls'[t][(i - 1) + n] = calls[t][i]
    BY <1>1, <2>1
  <2> QED
    BY <2>1, <2>2
<1>4. ASSUME NEW j \in 1..Len(calls'[t])
      PROVE  \/ j \in 1..n /\ calls'[t][j] = cs[j]
             \/ \E i \in 2..Len(calls[t]) : calls'[t][j] = calls[t][i]
  <2>1. CASE j <= n
    BY <1>1, <2>1
  <2>2. CASE ~(j <= n)
    <3>1. (j - n) + 1 \in 2..Len(calls[t]) /\ calls'[t][j] = calls[t][(j - n) + 1]
      BY <1>1, <1>2, <2>2
    <3> QED
      BY <3>1
  <2> QED
    BY <2>1, <2>2
<1>5. ASSUME NEW j \in 1..n PROVE j \in 1..Len(calls'[t]) /\ calls'[t][j] = cs[j]
  BY <1>1, <1>2
<1> QED
  BY <1>3, <1>4, <1>5 DEF n

\* A step that adds run c with status d, as a source or as the child of run r.
Adds(c, d) ==
    /\ status[c] = None /\ status' = [status EXCEPT ![c] = d] /\ order' = Append(order, c)
    /\ UNCHANGED <<account, lost, jobs, started, restored, mode>>
AddsSource(c, d) == Adds(c, d) /\ c \in Sources /\ UNCHANGED <<managed, origin, stillborn>>
AddsChild(r, c, d) ==
    /\ Adds(c, d) /\ c \in Children
    /\ origin' = [origin EXCEPT ![c] = r]
    /\ stillborn' = IF d = "RUNNING" THEN stillborn ELSE stillborn \cup {c}
    /\ managed' \in {managed, managed \cup {c}}

LEMMA Added ==
    ASSUME TypeOK, RunsTrue, NEW c \in Runs, NEW d \in DispatchEnds,
           AddsSource(c, d) \/ \E r \in Runs : AddsChild(r, c, d)
    PROVE  /\ Grows /\ status'[c] = d /\ d # None /\ account[c] = NoAccount
           /\ \A q \in Runs \ {c} : status'[q] = status[q] /\ origin'[q] = origin[q]
           /\ managed' \subseteq managed \cup {c}
           /\ status[c] = None /\ origin[c] = None /\ c \notin jobs \cup started
           /\ c \in Children => c \notin managed
           /\ UNCHANGED <<account, lost, jobs, started, restored, mode>>
<1>1. /\ status[c] = None /\ status' = [status EXCEPT ![c] = d]
      /\ UNCHANGED <<account, lost, jobs, started, restored, mode>>
  BY DEF AddsSource, AddsChild, Adds
<1>2. d # None /\ status'[c] = d /\ \A q \in Runs \ {c} : status'[q] = status[q]
  BY <1>1, EndsAssumption DEF TypeOK, None
<1>3. /\ account[c] = NoAccount /\ origin[c] = None /\ c \notin jobs \cup started
      /\ c \in Children => c \notin managed
  BY <1>1, Names DEF RunsTrue
<1>4. \A q \in Runs \ {c} : origin'[q] = origin[q]
  BY DEF AddsSource, AddsChild, TypeOK
<1>5. managed' \subseteq managed \cup {c} /\ managed \subseteq managed'
  BY DEF AddsSource, AddsChild
<1>6. stillborn \subseteq stillborn' /\ (managed' # managed => c \in Children)
  BY DEF AddsSource, AddsChild
<1>7. Grows
  <2>1. \A q \in Runs : status[q] # None => status'[q] # None
    BY <1>1, <1>2
  <2>2. \A q \in Runs : Settled(q) => status'[q] = status[q]
    BY <1>1, <1>2 DEF Settled, Terminal, None
  <2>3. \A q \in Runs : origin[q] # None => origin'[q] = origin[q]
    BY <1>3, <1>4
  <2>4. \A q \in managed' \ managed : q \in Children /\ status[q] = None
    BY <1>1, <1>5, <1>6
  <2> QED
    BY <1>1, <1>5, <1>6, <2>1, <2>2, <2>3, <2>4 DEF Grows
<1> QED
  BY <1>1, <1>2, <1>3, <1>4, <1>5, <1>7

LEMMA AddedRuns ==
    ASSUME TypeOK, RunsTrue, NEW c \in Runs, NEW d \in DispatchEnds,
           AddsSource(c, d) \/ \E r \in Runs : AddsChild(r, c, d),
           Sources \subseteq managed => c \in managed'
    PROVE  RunsTrue'
<1>1. /\ Grows /\ status'[c] = d /\ d # None
      /\ \A q \in Runs \ {c} : status'[q] = status[q] /\ origin'[q] = origin[q]
      /\ status[c] = None /\ origin[c] = None
      /\ managed' \subseteq managed \cup {c} /\ UNCHANGED <<account, jobs, started>>
  BY Added
<1>2. order \in Seq(Runs) /\ order' = Append(order, c)
  BY DEF TypeOK, AddsSource, AddsChild, Adds
<1>3. ASSUME NEW q \in Runs, status'[q] # None PROVE \E i \in 1..Len(order') : order'[i] = q
  <2>1. CASE q = c
    <3>1. Len(order') \in 1..Len(order') /\ order'[Len(order')] = c
      BY <1>2
    <3> QED
      BY <2>1, <3>1
  <2>2. CASE q # c
    <3>1. PICK i \in 1..Len(order) : order[i] = q
      BY <1>1, <1>3, <2>2 DEF RunsTrue
    <3>2. i \in 1..Len(order') /\ order'[i] = q
      BY <1>2, <3>1
    <3> QED
      BY <3>2
  <2> QED
    BY <2>1, <2>2
<1>4. ASSUME NEW q \in Runs PROVE origin'[q] # None <=> q \in Children /\ status'[q] # None
  <2>1. CASE q # c
    BY <1>1, <2>1 DEF RunsTrue
  <2>2. CASE q = c /\ AddsSource(c, d)
    BY <1>1, <2>2, Names DEF AddsSource
  <2>3. CASE q = c /\ \E r \in Runs : AddsChild(r, c, d)
    <3>1. PICK r \in Runs : AddsChild(r, c, d)
      BY <2>3
    <3>2. origin'[c] = r /\ c \in Children
      BY <3>1 DEF AddsChild, TypeOK
    <3> QED
      BY <1>1, <2>3, <3>2, Names
  <2> QED
    BY <2>1, <2>2, <2>3
<1>5. /\ \A q \in managed' : q \in Sources \/ status'[q] # None
      /\ \A q \in jobs' \cup started' : status'[q] # None
  BY <1>1 DEF RunsTrue, TypeOK, Grows
<1>6. \A q \in Runs : q \in Sources \/ status'[q] = None => account'[q] = NoAccount
  <2> SUFFICES ASSUME NEW q \in Runs, q \in Sources \/ status'[q] = None PROVE account[q] = NoAccount
    BY <1>1
  <2> QED
    BY <1>1 DEF RunsTrue
<1>7. Sources \subseteq managed' => \A q \in Runs : status'[q] # None => q \in managed'
  <2> SUFFICES ASSUME Sources \subseteq managed', NEW q \in Runs, status'[q] # None
               PROVE  q \in managed'
    OBVIOUS
  <2>1. Sources \subseteq managed
    BY Names DEF Grows, AddsSource, AddsChild
  <2> QED
    BY <1>1, <2>1 DEF RunsTrue, Grows
<1> QED
  BY <1>3, <1>4, <1>5, <1>6, <1>7 DEF RunsTrue

\* The grounds, the links and the count of the children once one is added.
LEMMA AddedGround ==
    ASSUME TypeOK, RunsTrue, ChildHasGround, NoChain, NEW c \in Runs, NEW d \in DispatchEnds,
           \/ AddsSource(c, d)
           \/ \E r \in Runs :
                 /\ AddsChild(r, c, d) /\ (r \in Children => r \in stillborn \cup lost)
                 /\ IF r \in managed THEN status[r] = "CANCELLED" /\ mode = "auto" /\ c \in managed'
                                     ELSE status[r] = "FAIL" /\ managed' = managed
    PROVE  ChildHasGround' /\ NoChain'
<1>1. /\ Grows /\ \A q \in Runs \ {c} : status'[q] = status[q] /\ origin'[q] = origin[q]
      /\ status[c] = None /\ origin[c] = None /\ (c \in Children => c \notin managed)
      /\ managed' \subseteq managed \cup {c} /\ UNCHANGED <<lost, mode>>
  BY Added
<1>2. \A q \in Runs \ {c} : q \in managed' <=> q \in managed
  BY <1>1 DEF Grows
<1>3. ASSUME NEW x \in Children, x # c, origin[x] # None
      PROVE  origin'[x] = origin[x] /\ origin[x] \in Runs \ {c} /\ x \in Runs
  <2>1. origin[x] \in Runs /\ x \in Runs
    BY <1>3, Names DEF TypeOK
  <2>2. status[origin[x]] # None
    BY <1>3 DEF ChildHasGround, None
  <2> QED
    BY <1>1, <1>3, <2>1, <2>2
<1>4. ASSUME NEW x \in Children, x # c PROVE origin'[x] = origin[x]
  BY <1>1, <1>4, Names
<1>5. CASE AddsSource(c, d)
  <2>1. c \notin Children /\ origin' = origin /\ managed' = managed /\ stillborn' = stillborn
    BY <1>5, Names DEF AddsSource
  <2>2. ChildHasGround'
    BY <1>1, <1>2, <1>3, <2>1, Names DEF ChildHasGround
  <2> QED
    BY <1>1, <2>1, <2>2 DEF NoChain
<1>6. ASSUME NEW r \in Runs, AddsChild(r, c, d), r \in Children => r \in stillborn \cup lost,
             IF r \in managed THEN status[r] = "CANCELLED" /\ mode = "auto" /\ c \in managed'
                              ELSE status[r] = "FAIL" /\ managed' = managed
      PROVE  ChildHasGround' /\ NoChain'
  <2>1. origin'[c] = r /\ c \in Children /\ r # c
    <3>1. status[r] # None
      BY <1>6 DEF None
    <3> QED
      BY <1>1, <1>6, <3>1 DEF AddsChild, TypeOK
  <2>2. ASSUME NEW x \in Children, origin'[x] # None
        PROVE  IF origin'[x] \in managed'
               THEN status'[origin'[x]] = "CANCELLED" /\ mode' = "auto" /\ x \in managed'
               ELSE status'[origin'[x]] = "FAIL" /\ x \notin managed'
    <3>1. CASE x = c
      BY <1>1, <1>2, <1>6, <2>1, <3>1
    <3>2. CASE x # c
      <4>1. origin'[x] = origin[x] /\ origin[x] # None
        BY <1>4, <2>2, <3>2
      <4>2. IF origin[x] \in managed
            THEN status[origin[x]] = "CANCELLED" /\ mode = "auto" /\ x \in managed
            ELSE status[origin[x]] = "FAIL" /\ x \notin managed
        BY <4>1 DEF ChildHasGround
      <4> QED
        BY <1>1, <1>2, <1>3, <3>2, <4>1, <4>2
    <3> QED
      BY <3>1, <3>2
  <2>3. ASSUME NEW x \in Children, origin'[x] \in Children
        PROVE  origin'[x] \in stillborn' \cup lost'
    <3>1. CASE x = c
      BY <1>1, <1>6, <2>1, <2>3, <3>1 DEF Grows
    <3>2. CASE x # c
      BY <1>1, <1>4, <2>3, <3>2 DEF NoChain, Grows
    <3> QED
      BY <3>1, <3>2
  <2> QED
    BY <2>2, <2>3 DEF ChildHasGround, NoChain
<1> QED
  BY <1>5, <1>6

LEMMA AddedOnce ==
    ASSUME TypeOK, RunsTrue, OnceTrue, NEW c \in Runs, NEW d \in DispatchEnds,
           \/ AddsSource(c, d)
           \/ \E r \in Runs :
                 /\ AddsChild(r, c, d)
                 /\ Scanned => /\ \A x \in ChildrenOf(r) : status[x] = "DENIED"
                               /\ Cardinality(ChildrenOf(r)) < MaxDispatches
    PROVE  OnceTrue'
<1>1. /\ \A q \in Runs \ {c} : status'[q] = status[q] /\ origin'[q] = origin[q]
      /\ UNCHANGED lost
  BY Added
<1>2. order \in Seq(Runs) /\ order' = Append(order, c)
  BY DEF TypeOK, AddsSource, AddsChild, Adds
<1>3. Scanned' => Scanned
  BY <1>2, BoundsAssumption DEF Scanned
<1> SUFFICES ASSUME Scanned, NEW q \in Runs
             PROVE  /\ \A x, y \in ChildrenOf(q)' :
                          status'[x] # "DENIED" /\ status'[y] # "DENIED" => x = y
                    /\ IsFiniteSet(ChildrenOf(q)') /\ Cardinality(ChildrenOf(q)') <= MaxDispatches
  BY <1>3 DEF OnceTrue
<1>4. /\ \A x, y \in ChildrenOf(q) : status[x] # "DENIED" /\ status[y] # "DENIED" => x = y
      /\ IsFiniteSet(ChildrenOf(q)) /\ Cardinality(ChildrenOf(q)) <= MaxDispatches
  BY DEF OnceTrue
<1>5. ChildrenOf(q) \subseteq Runs
       /\ (c \notin ChildrenOf(q) => \A x \in ChildrenOf(q) : status'[x] = status[x])
  BY <1>1, Names DEF ChildrenOf
<1>6. c \notin ChildrenOf(q)
  BY Added, Names DEF ChildrenOf
<1>7. CASE AddsSource(c, d)
  <2>1. ChildrenOf(q)' = ChildrenOf(q)
    BY <1>1, <1>7 DEF ChildrenOf, AddsSource
  <2> QED
    BY <1>4, <1>5, <1>6, <2>1
<1>8. ASSUME NEW r \in Runs, AddsChild(r, c, d),
             \A x \in ChildrenOf(r) : status[x] = "DENIED", Cardinality(ChildrenOf(r)) < MaxDispatches
      PROVE  /\ \A x, y \in ChildrenOf(q)' :
                   status'[x] # "DENIED" /\ status'[y] # "DENIED" => x = y
             /\ IsFiniteSet(ChildrenOf(q)') /\ Cardinality(ChildrenOf(q)') <= MaxDispatches
  <2>1. \A x \in Children : origin'[x] = IF x = c THEN r ELSE origin[x]
    BY <1>8, Names DEF AddsChild, TypeOK
  <2>2. CASE q # r
    <3>1. ChildrenOf(q)' = ChildrenOf(q)
      <4>1. c \notin ChildrenOf(q)'
        BY <2>1, <2>2 DEF ChildrenOf
      <4>2. \A x \in Children \ {c} : x \in ChildrenOf(q)' <=> x \in ChildrenOf(q)
        BY <1>1, <2>1 DEF ChildrenOf
      <4> QED
        BY <1>6, <4>1, <4>2 DEF ChildrenOf
    <3> QED
      BY <1>4, <1>5, <1>6, <3>1
  <2>3. CASE q = r
    <3>1. ChildrenOf(q)' \subseteq ChildrenOf(q) \cup {c}
      BY <1>1, <2>1 DEF ChildrenOf
    <3>2. \A x \in ChildrenOf(q) : status'[x] = "DENIED"
      BY <1>5, <1>6, <1>8, <2>3
    <3>3. /\ IsFiniteSet(ChildrenOf(q) \cup {c})
          /\ Cardinality(ChildrenOf(q) \cup {c}) = Cardinality(ChildrenOf(q)) + 1
      BY <1>4, <1>6, FS_AddElement
    <3>4. /\ IsFiniteSet(ChildrenOf(q)')
          /\ Cardinality(ChildrenOf(q)') <= Cardinality(ChildrenOf(q) \cup {c})
          /\ Cardinality(ChildrenOf(q)') \in Nat /\ Cardinality(ChildrenOf(q)) \in Nat
      BY <1>4, <3>1, <3>3, FS_Subset, FS_CardinalityType
    <3>5. Cardinality(ChildrenOf(q)') <= MaxDispatches
      BY <1>8, <2>3, <3>3, <3>4, BoundsAssumption
    <3> QED
      BY <3>1, <3>2, <3>4, <3>5
  <2> QED
    BY <2>2, <2>3
<1> QED
  BY <1>7, <1>8

\* The accountings: the new child's is due, and what was due still is.
LEMMA AddedAccounts ==
    ASSUME TypeOK, RunsTrue, CallsTrue, ChildHasGround, AccountsTrue, NEW t \in Threads,
           \A u \in Threads \ {t} : calls'[u] = calls[u], NEW c \in Runs, NEW d \in DispatchEnds,
           AddsSource(c, d) \/ \E r \in Runs : AddsChild(r, c, d),
           \A x \in Children \ {c} : Due(t, x) => Due(t, x)',
           c \in Children => Due(t, c)',
           calls' \in [Threads -> Seq(Calls)],
           \A j \in 1..Len(calls'[t]) : calls'[t][j].op = "account" =>
              \/ \E i \in 1..Len(calls[t]) : calls[t][i] = calls'[t][j]
              \/ calls'[t][j].with = c /\ c \in Children
    PROVE  AccountsTrue'
<1>1. /\ Grows /\ \A q \in Runs \ {c} : status'[q] = status[q] /\ origin'[q] = origin[q]
      /\ status[c] = None /\ origin[c] = None /\ account[c] = NoAccount /\ status'[c] = d
      /\ managed' \subseteq managed \cup {c} /\ UNCHANGED <<account, lost>>
  BY Added
<1>2. ASSUME NEW x \in Children \ lost', origin'[x] # None
      PROVE  \/ account'[x] = Accounting(x)'
             \/ account'[x] = NoAccount /\ \E u \in Threads : Due(u, x)'
  <2>1. CASE x = c
    BY <1>1, <1>2, <2>1
  <2>2. CASE x # c
    <3>1. x \in Runs /\ x \in Children \ lost /\ origin'[x] = origin[x] /\ origin[x] # None
          /\ status'[x] = status[x] /\ account'[x] = account[x]
      BY <1>1, <1>2, <2>2, Names
    <3>2. origin[x] \in Runs \ {c}
      <4>1. origin[x] \in Runs
        BY <3>1 DEF TypeOK
      <4> QED
        BY <1>1, <3>1, <4>1 DEF ChildHasGround, None
    <3>3. origin[x] \in managed' <=> origin[x] \in managed
      BY <1>1, <3>2 DEF Grows
    <3>4. Accounting(x)' = Accounting(x)
      BY <3>1, <3>3 DEF Accounting
    <3>5. ASSUME NEW u \in Threads, Due(u, x) PROVE Due(u, x)'
      <4>1. CASE u = t
        BY <2>2, <3>1, <3>5, <4>1
      <4>2. CASE u # t
        BY <3>1, <3>5, <4>2 DEF Due
      <4> QED
        BY <4>1, <4>2
    <3> QED
      BY <3>1, <3>4, <3>5 DEF AccountsTrue
  <2> QED
    BY <2>1, <2>2
<1>3. ASSUME NEW u \in Threads, NEW i \in 1..Len(calls'[u]),
             calls'[u][i].op = "account", calls'[u][i].with \notin stillborn'
      PROVE  status'[calls'[u][i].with] = "RUNNING"
  <2>1. PICK x \in Calls : x = calls'[u][i]
    OBVIOUS
  <2>2. CASE \E j \in 1..Len(calls[u]) : calls[u][j] = x
    <3>1. x.with \notin stillborn
      BY <1>1, <1>3, <2>1 DEF Grows
    <3>2. status[x.with] = "RUNNING"
      BY <1>3, <2>1, <2>2, <3>1 DEF AccountsTrue
    <3>3. x.with \in Children
      BY <1>3, <2>1, <2>2 DEF CallsTrue, CallsOf, CallTrue
    <3> QED
      BY <1>1, <2>1, <3>2, <3>3, Names DEF None
  <2>3. CASE x.with = c /\ c \in Children
    <3>1. d = "RUNNING"
      BY <1>3, <2>1, <2>3, Names DEF AddsSource, AddsChild
    <3> QED
      BY <1>1, <2>1, <2>3, <3>1
  <2> QED
    BY <1>3, <2>1, <2>2, <2>3
<1> QED
  BY <1>2, <1>3 DEF AccountsTrue

\* A new live run is about to be recorded by the thread that made it.
LEMMA AddedLive ==
    ASSUME TypeOK, RunsTrue, CallsTrue, LiveTrue, NEW t \in Threads, Others(t), calls[t] # <<>>,
           \A u \in Threads \ {t} : calls'[u] = calls[u],
           Head(calls[t]).op \notin {"record", "note"}, NEW cs \in Seq(Calls), Become(t, cs),
           NEW c \in Runs, NEW d \in DispatchEnds,
           AddsSource(c, d) \/ \E r \in Runs : AddsChild(r, c, d),
           calls'[t] # <<>>, Head(calls'[t]).op = "record", Head(calls'[t]).run = c
    PROVE  LiveTrue'
<1>1. /\ \A q \in Runs \ {c} : status'[q] = status[q]
      /\ status[c] = None /\ c \notin started /\ started' = started
  BY Added
<1> SUFFICES ASSUME NEW q \in Runs, status'[q] = "RUNNING"
             PROVE  /\ Observed(q)' \/ \E u \in Threads : Now(u, "record")' /\ This(u)' = q
                    /\ Observed(q)' => calls'[q][Len(calls'[q])].op = "note"
                    /\ q \in started' => Observed(q)'
  BY DEF LiveTrue, Live
<1>2. CASE q # c
  BY <1>1, <1>2, LiveKept
<1>3. CASE q = c
  <2>1. q \in Threads /\ calls[q] = <<>>
    BY <1>1, <1>3, Names DEF CallsTrue, CallsOf
  <2>2. calls'[q] = <<>>
    BY <2>1
  <2> QED
    BY <1>1, <1>3, <2>2 DEF Observed, Now, This
<1> QED
  BY <1>2, <1>3

\* The step as a whole: what the thread does next is to record the run it has in hand.
LEMMA CreateStep ==
    ASSUME IndInv, TypeOK', NEW t \in Threads, calls[t] # <<>>, EngineFor(t),
           Head(calls[t]).op \notin {"record", "note"}, NEW cs \in Seq(Calls), Become(t, cs),
           NEW c \in Runs, NEW d \in DispatchEnds, UNCHANGED locks,
           \/ AddsSource(c, d)
           \/ \E r \in Runs :
                 /\ AddsChild(r, c, d) /\ (r \in Children => r \in stillborn \cup lost)
                 /\ IF r \in managed THEN status[r] = "CANCELLED" /\ mode = "auto" /\ c \in managed'
                                     ELSE status[r] = "FAIL" /\ managed' = managed
                 /\ Scanned => /\ \A x \in ChildrenOf(r) : status[x] = "DENIED"
                               /\ Cardinality(ChildrenOf(r)) < MaxDispatches,
           Sources \subseteq managed => c \in managed',
           NEW h \in Records, h = [run |-> c, status |-> d, account |-> NoAccount, escalated |-> FALSE],
           Hold(t, h), CallsOf(t)', LocksTrue',
           calls'[t] # <<>>, Head(calls'[t]).op = "record", Head(calls'[t]).run = c,
           \A x \in Children \ {c} : Due(t, x) => Due(t, x)',
           c \in Children => Due(t, c)',
           \A j \in 1..Len(calls'[t]) : calls'[t][j].op = "account" =>
              \/ \E i \in 1..Len(calls[t]) : calls[t][i] = calls'[t][j]
              \/ calls'[t][j].with = c /\ c \in Children
    PROVE  IndInv'
<1>1. /\ TypeOK /\ RunsTrue /\ CallsTrue /\ LocksTrue /\ HandsTrue /\ ChildHasGround /\ NoChain
      /\ OnceTrue /\ AccountsTrue /\ LiveTrue
  BY DEF IndInv
<1>2. AddsSource(c, d) \/ \E r \in Runs : AddsChild(r, c, d)
  OBVIOUS
<1>3. Grows /\ status'[c] = d /\ d # None /\ restored' = restored
  BY <1>1, <1>2, Added
<1>4. /\ Others(t) /\ hand'[t] = h /\ calls' \in [Threads -> Seq(Calls)]
      /\ \A u \in Threads \ {t} : calls'[u] = calls[u]
  <2>1. calls \in [Threads -> Seq(Calls)]
    BY <1>1 DEF TypeOK
  <2> QED
    BY <1>1, <2>1, ReplacedOthers, Replaced
<1>5. CallsTrue'
  <2> SUFFICES ASSUME NEW u \in Threads PROVE CallsOf(u)'
    BY DEF CallsTrue
  <2>1. CASE u = t
    BY <2>1 DEF CallsOf, CallTrue
  <2>2. CASE u # t
    BY <1>1, <1>3, <1>4, <2>2, OtherCalls
  <2> QED
    BY <2>1, <2>2
<1>6. HandsTrue'
  <2>1. h.run = c /\ h.status = d /\ hand'[t] = h
    BY <1>4
  <2>2. d \in Terminal => Settled(c)' /\ Unmarked(c)'
    BY <1>2, <1>3, Names DEF Settled, Unmarked, AddsSource, AddsChild, Terminal
  <2>3. ASSUME NEW op \in Ops, NEW q \in Runs, NEW g \in Records,
               Head(calls'[t]).op = op, Head(calls'[t]).run = q, hand'[t] = g
        PROVE  HandTrue(t, op, q, g)'
    <3>1. op = "record" /\ q = c /\ g.run = c /\ g.status = d
      BY <2>1, <2>3
    <3> QED
      BY <1>3, <2>2, <3>1 DEF HandTrue, Stages
  <2>4. hand'[t].run # None => status'[hand'[t].run] # None
    BY <1>3, <2>1
  <2>5. engine \in {None, t}
    BY DEF EngineFor
  <2> QED
    BY <1>1, <1>3, <1>4, <2>3, <2>4, <2>5, HandsStep
<1>7. RunsTrue'
  BY <1>1, <1>2, AddedRuns
<1>8. ChildHasGround' /\ NoChain'
  BY <1>1, AddedGround
<1>9. OnceTrue'
  BY <1>1, AddedOnce
<1>10. AccountsTrue'
  BY <1>1, <1>2, <1>4, AddedAccounts
<1>11. LiveTrue'
  BY <1>1, <1>2, <1>4, AddedLive
<1> QED
  BY <1>5, <1>6, <1>7, <1>8, <1>9, <1>10, <1>11 DEF IndInv

LEMMA NewType ==
    ASSUME TypeOK, NEW t \in Threads, NEW c \in Runs, NEW d \in DispatchEnds, NewRecord(t, c, d)
    PROVE  /\ status' \in [Runs -> Statuses] /\ order' \in Seq(Runs)
           /\ hand' \in [Threads -> Records] /\ DispatchEnds \subseteq Statuses
           /\ \E h \in Records : /\ Hold(t, h)
                                 /\ h = [run |-> c, status |-> d, account |-> NoAccount, escalated |-> FALSE]
                                 /\ h.run = c /\ h.status = d
<1>1. DispatchEnds \subseteq Statuses
  BY EndsAssumption DEF Statuses, Terminal
<1>2. status' \in [Runs -> Statuses] /\ order' \in Seq(Runs)
  BY <1>1 DEF NewRecord, TypeOK
<1> DEFINE g == [run |-> c, status |-> d, account |-> NoAccount, escalated |-> FALSE]
<1>3. g \in Records /\ g.run = c /\ g.status = d
  BY <1>1 DEF Records, NoAccount, Accounts
<1>4. Hold(t, g)
  BY DEF NewRecord
<1> HIDE DEF g
<1>5. hand' \in [Threads -> Records]
  BY <1>3, <1>4 DEF Hold, TypeOK
<1>6. \E h \in Records : h = g
  BY <1>3
<1> QED
  BY <1>1, <1>2, <1>3, <1>4, <1>5, <1>6 DEF g

\* A dispatch of a known id returns its record; of a new one, it creates the run.
LEMMA DispatchStep ==
    ASSUME IndInv, NEW t \in Threads, Dispatch(t)
    PROVE  IndInv'
<1>1. PICK r \in Runs : r = This(t)
  BY Current DEF IndInv, Dispatch, Now
<1>2. /\ TypeOK /\ RunsTrue /\ CallsTrue /\ LocksTrue /\ HandsTrue /\ calls[t] # <<>>
      /\ Head(calls[t]).op = "dispatch" /\ EngineFor(t) /\ Return(t)
      /\ UNCHANGED <<account, managed, escalated, confirming, locks, started, intents,
                     restored, jobs, mode, ghosts, crashes>>
  BY DEF IndInv, Dispatch, Now
<1>3. /\ r \in Sources /\ Len(calls[t]) > 1 /\ calls[t][2].op = "record"
  BY <1>1, <1>2, Current DEF CallTrue, This, HandsTrue, HandTrue
<1>4. CASE status[r] # None
  <2>1. Hold(t, Record(r)) /\ UNCHANGED <<status, order>>
    BY <1>1, <1>4 DEF Dispatch
  <2>2. PICK h \in Records : h = Record(r) /\ h.run = r /\ h.status = status[r] /\ h.account = account[r]
    BY <1>2, RecordOf
  <2>3. Hold(t, h)
    BY <2>1, <2>2
  <2>4. Steady /\ Grows
    BY <1>2, <2>1, SteadyGrows DEF Steady, ghosts, TypeOK
  <2>5. Others(t) /\ hand'[t] = h /\ hand' \in [Threads -> Records] /\ calls' \in [Threads -> Seq(Calls)]
        /\ \E cs \in Seq(Calls) : Become(t, cs)
    BY <1>2, <2>3, ReturnOthers
  <2>6. TypeOK'
    BY <1>2, <2>1, <2>5 DEF TypeOK, ghosts, locks
  <2>7. CallsOf(t)'
    BY <1>2, <2>4, Returned
  <2>8. LocksTrue'
    BY <1>2, <2>4, <2>5, <2>6, ReturnLocks DEF Stages
  <2>9. \A op \in Ops, q \in Runs, g \in Records :
            calls'[t] # <<>> /\ Head(calls'[t]).op = op /\ Head(calls'[t]).run = q
               /\ hand'[t] = g => HandTrue(t, op, q, g)'
    <3>1. status'[r] # None
      BY <1>4, <2>1
    <3>2. h.status \in Terminal => Settled(r)' /\ (h.account.kind = "recovery" \/ Unmarked(r)')
      BY <1>2, <2>1, <2>2, SettledMarked DEF Settled, Unmarked, ghosts
    <3> QED
      BY <1>1, <1>2, <2>2, <2>4, <2>5, <3>1, <3>2, ReturnHands
  <2>10. /\ \A c \in Children : Due(t, c) => Due(t, c)'
         /\ \A x \in Calls : x.op = "account" /\ (\E i \in 1..Len(calls'[t]) : calls'[t][i] = x)
                               => \E i \in 1..Len(calls[t]) : calls[t][i] = x
    BY <1>2, ReturnKeeps DEF ghosts
  <2>11. hand'[t].run # None => status'[hand'[t].run] # None
    BY <1>4, <2>1, <2>2, <2>5
  <2> QED
    BY <1>2, <2>1, <2>4, <2>5, <2>6, <2>7, <2>8, <2>9, <2>10, <2>11, SteadyStep
<1>5. CASE status[r] = None
  <2>1. PICK d \in DispatchEnds : NewRecord(t, r, d)
    BY <1>1, <1>5 DEF Dispatch
  <2>2. /\ status' \in [Runs -> Statuses] /\ order' \in Seq(Runs) /\ hand' \in [Threads -> Records]
    BY <1>2, <2>1, NewType
  <2>3. PICK h \in Records :
            /\ Hold(t, h) /\ h.run = r /\ h.status = d
            /\ h = [run |-> r, status |-> d, account |-> NoAccount, escalated |-> FALSE]
    BY <1>2, <2>1, NewType
  <2>4. AddsSource(r, d)
    BY <1>2, <1>3, <1>5, <2>1 DEF AddsSource, Adds, NewRecord, ghosts
  <2>5. Grows
    BY <1>2, <2>4, Added
  <2>6. /\ calls' \in [Threads -> Seq(Calls)] /\ Others(t)
        /\ \E cs \in Seq(Calls) : Become(t, cs)
    BY <1>2, <2>3, ReturnOthers
  <2>7. TypeOK'
    BY <1>2, <2>2, <2>6 DEF TypeOK, ghosts, locks
  <2>8. /\ CallsOf(t)' /\ Len(calls'[t]) = Len(calls[t]) - 1
        /\ \A i \in 1..Len(calls'[t]) : calls'[t][i] = calls[t][i + 1] /\ i + 1 \in 2..Len(calls[t])
    BY <1>2, <2>5, Returned
  <2>9. calls'[t] # <<>> /\ Head(calls'[t]).op = "record" /\ Head(calls'[t]).run = r
    <3>1. Len(calls[t]) \in Nat /\ HandsTo(Head(calls[t]), calls[t][2])
      BY <1>2, <1>3, Current
    <3>2. calls'[t] # <<>> /\ calls'[t] \in Seq(Calls)
      BY <1>2, <1>3, <2>6, <2>8, <3>1
    <3>3. Head(calls'[t]) = calls[t][2]
      BY <1>2, <2>5, <3>2, Returned
    <3> QED
      BY <1>1, <1>3, <3>1, <3>2, <3>3 DEF HandsTo, This
  <2>10. LocksTrue'
    BY <1>2, <2>5, <2>6, <2>7, ReturnLocks DEF Stages
  <2>11. \A c \in Children : Due(t, c) => Due(t, c)'
    BY <1>2, ReturnKeeps DEF ghosts
  <2>12. \A j \in 1..Len(calls'[t]) : \E i \in 1..Len(calls[t]) : calls[t][i] = calls'[t][j]
    <3> SUFFICES ASSUME NEW j \in 1..Len(calls'[t])
                 PROVE  \E i \in 1..Len(calls[t]) : calls[t][i] = calls'[t][j]
      OBVIOUS
    <3>1. j + 1 \in 1..Len(calls[t])
      BY <2>8
    <3> QED
      BY <2>8, <3>1
  <2>13. (Sources \subseteq managed => r \in managed') /\ r \notin Children /\ UNCHANGED locks
    BY <1>2, <1>3, Names
  <2>14. PICK cs \in Seq(Calls) : Become(t, cs)
    BY <2>6
  <2> QED
    BY <1>2, <2>3, <2>4, <2>7, <2>8, <2>9, <2>10, <2>11, <2>12, <2>13, <2>14, CreateStep
<1> QED
  BY <1>4, <1>5

\* Every run created is among those the registry scans.
LEMMA AllScanned ==
    ASSUME TypeOK, RunsTrue, Scanned
    PROVE  /\ \A r \in Runs : status[r] # None => r \in Recent
           /\ IsFiniteSet(Recent)
<1>1. order \in Seq(Runs) /\ Len(order) \in Nat /\ Len(order) <= Window /\ Window \in Nat
  BY BoundsAssumption DEF TypeOK, Scanned
<1>2. \A j \in 1..Len(order) : j + Window > Len(order)
  BY <1>1
<1>3. \A j \in 1..Len(order) : order[j] \in Recent
  BY <1>2 DEF Recent
<1>4. order \in Seq(Recent) /\ \A x \in Recent : \E j \in 1..Len(order) : order[j] = x
  BY <1>1, <1>3 DEF Recent
<1>5. IsFiniteSet(Recent)
  BY <1>4 DEF IsFiniteSet
<1> QED
  BY <1>3, <1>5 DEF RunsTrue

\* A child whose accounting is not pending is scanned with it.
LEMMA ChildScanned ==
    ASSUME TypeOK, RunsTrue, AccountsTrue, Scanned, NEW r \in Runs, NEW x \in ChildrenOf(r),
           ~\E u \in Threads : Due(u, x)
    PROVE  x \in Recent /\ account[x] = Accounting(x) /\ origin[x] = r /\ x \in Runs
<1>1. x \in Children /\ x \notin lost /\ origin[x] = r /\ r # None /\ x \in Runs
  BY Names DEF ChildrenOf
<1>2. account[x] = Accounting(x)
  BY <1>1 DEF AccountsTrue
<1>3. status[x] # None
  BY <1>1 DEF RunsTrue
<1> QED
  BY <1>1, <1>2, <1>3, AllScanned

\* While a recovery of run r is up no child of r waits to be accounted for: its call
\* would be in the list of the holder of the harness lock, behind the recovery.
LEMMA NoneDue ==
    ASSUME TypeOK, CallsTrue, LocksTrue, NEW t \in Threads, calls[t] # <<>>,
           Head(calls[t]).op = "recover", NEW r \in Runs, r = This(t), r \notin managed,
           NEW u \in Threads, NEW x \in Children, origin[x] = r
    PROVE  ~Due(u, x)
<1> SUFFICES ASSUME Due(u, x) PROVE FALSE
  OBVIOUS
<1>1. PICK i \in 1..Len(calls[u]) : calls[u][i] \in {CallWith("account", r, x), CallWith("waccount", r, x)}
  BY DEF Due
<1>2. CallTrue(u, calls[u][i]) /\ calls[u][i].run = r
  BY <1>1 DEF CallsTrue, CallsOf, CallWith
<1>3. calls[u][i].op = "account"
  BY <1>1, <1>2 DEF CallTrue, CallWith
<1>4. harness = u
  BY <1>3 DEF LocksTrue
<1>5. harness = t /\ calls[t][1] = Head(calls[t]) /\ Len(calls[t]) \in Nat
  <2>1. 1 \in 1..Len(calls[t]) /\ calls[t][1] = Head(calls[t]) /\ Len(calls[t]) \in Nat
    BY Current
  <2> QED
    BY <2>1 DEF LocksTrue
<1>6. u = t /\ i \in 2..Len(calls[t])
  BY <1>3, <1>4, <1>5
<1>7. Precedes(Head(calls[t]), calls[t][i])
  BY <1>6, Current
<1> QED
  BY <1>2, <1>3, <1>6, <1>7 DEF Precedes, This

\* A run is recovered only as long as no child of it has run.
LEMMA RecoverOnce ==
    ASSUME IndInv, NEW t \in Threads, calls[t] # <<>>, Head(calls[t]).op = "recover",
           NEW r \in Runs, r = This(t), Eligible(r), Scanned
    PROVE  /\ \A x \in ChildrenOf(r) : status[x] = "DENIED"
           /\ Cardinality(ChildrenOf(r)) < MaxDispatches
<1>1. /\ TypeOK /\ RunsTrue /\ CallsTrue /\ LocksTrue /\ AccountsTrue /\ r \notin managed
      /\ \A x \in RecoveriesOf(r) : ~account[x].ran
      /\ Cardinality(RecoveriesOf(r)) < MaxDispatches
  BY DEF IndInv, Eligible
<1>2. ASSUME NEW x \in ChildrenOf(r)
      PROVE  x \in RecoveriesOf(r) /\ status[x] = "DENIED"
  <2>1. ~\E u \in Threads : Due(u, x)
    BY <1>1, NoneDue DEF ChildrenOf
  <2>2. x \in Recent /\ account[x] = Accounting(x) /\ origin[x] = r
    BY <1>1, <2>1, ChildScanned
  <2>3. account[x] = [kind |-> "recovery", of |-> r, ran |-> status[x] # "DENIED"]
    BY <1>1, <2>2 DEF Accounting
  <2>4. x \in RecoveriesOf(r)
    BY <2>2, <2>3 DEF RecoveriesOf
  <2>5. ~account[x].ran
    BY <1>1, <2>4
  <2>6. account[x].ran = (status[x] # "DENIED")
    BY <2>3
  <2>7. status[x] = "DENIED"
    BY <2>5, <2>6
  <2> QED
    BY <2>4, <2>7
<1>3. RecoveriesOf(r) \subseteq Recent /\ ChildrenOf(r) \subseteq RecoveriesOf(r) /\ IsFiniteSet(Recent)
  BY <1>1, <1>2, AllScanned DEF RecoveriesOf
<1>4. IsFiniteSet(RecoveriesOf(r))
  BY <1>3, FS_Subset
<1>5. /\ Cardinality(ChildrenOf(r)) <= Cardinality(RecoveriesOf(r)) /\ IsFiniteSet(ChildrenOf(r))
  BY <1>3, <1>4, FS_Subset
<1>6. Cardinality(ChildrenOf(r)) \in Nat /\ Cardinality(RecoveriesOf(r)) \in Nat
  BY <1>4, <1>5, FS_CardinalityType
<1>7. Cardinality(ChildrenOf(r)) < MaxDispatches
  BY <1>1, <1>5, <1>6, BoundsAssumption
<1> QED
  BY <1>2, <1>7

\* Not eligible, or rejected: the recovery ends.
LEMMA RecoverEnds ==
    ASSUME IndInv, NEW t \in Threads, calls[t] # <<>>, Head(calls[t]).op = "recover",
           Return(t), Drop(t),
           UNCHANGED <<status, order, origin, stillborn, account, managed, escalated, confirming, locks,
                       started, intents, restored, jobs, mode, lost, crashes>>
    PROVE  IndInv'
<1>1. TypeOK /\ CallsTrue /\ RunsTrue /\ LocksTrue /\ HandsTrue
  BY DEF IndInv
<1>2. PICK r \in Runs : r = This(t)
  BY <1>1, Current
<1>3. PICK h \in Records : Hold(t, h) /\ (h.run # None => status[h.run] # None)
  BY <1>1, DropKeeps
<1>4. Steady /\ Grows
  <2>1. Steady
    BY <1>1 DEF Steady, TypeOK
  <2> QED
    BY <1>1, <2>1, SteadyGrows
<1>5. Others(t) /\ hand'[t] = h /\ hand' \in [Threads -> Records] /\ calls' \in [Threads -> Seq(Calls)]
      /\ \E cs \in Seq(Calls) : Become(t, cs)
  BY <1>1, <1>3, ReturnOthers
<1>6. TypeOK'
  BY <1>1, <1>5 DEF TypeOK, locks
<1>7. CallsOf(t)' /\ (calls'[t] # <<>> => Head(calls'[t]).op \in Later)
  BY <1>1, <1>4, Returned
<1>8. LocksTrue'
  <2>1. harness = t /\ Len(calls[t]) \in Nat
    <3>1. 1 \in 1..Len(calls[t]) /\ calls[t][1].op = "recover" /\ Len(calls[t]) \in Nat
      BY <1>1, Current
    <3> QED
      BY <1>1, <3>1 DEF LocksTrue
  <2>2. (\A q \in Runs : observing'[q] # t) /\ engine' # t
    BY <1>1 DEF LocksTrue, Now, Stages, locks
  <2>3. calls'[t] # <<>> => Head(calls'[t]).op \notin Stages
    BY <1>7 DEF Later, Stages
  <2>4. Sources \subseteq managed => calls'[t] # <<>> /\ Head(calls'[t]).op = "leave"
    <3> SUFFICES ASSUME Sources \subseteq managed PROVE calls'[t] # <<>> /\ Head(calls'[t]).op = "leave"
      OBVIOUS
    <3>1. Len(calls[t]) > 1 /\ calls[t][2].op = "leave"
      BY <1>1, <2>1 DEF LocksTrue, Now
    <3>2. Len(calls'[t]) = Len(calls[t]) - 1
      BY <1>1, <1>4, Returned
    <3>3. calls'[t] # <<>>
      BY <1>5, <2>1, <3>1, <3>2
    <3> QED
      BY <1>1, <1>4, <3>1, <3>3, Returned
  <2> QED
    BY <1>1, <1>4, <1>5, <1>6, <2>1, <2>2, <2>3, <2>4, LocksStep DEF Stages, locks
<1>9. \A op \in Ops, q \in Runs, g \in Records :
          calls'[t] # <<>> /\ Head(calls'[t]).op = op /\ Head(calls'[t]).run = q
             /\ hand'[t] = g => HandTrue(t, op, q, g)'
  BY <1>1, <1>2, <1>4, <1>5, ReturnHands DEF Gives, Stages
<1>10. /\ \A c \in Children : Due(t, c) => Due(t, c)'
       /\ \A x \in Calls : x.op = "account" /\ (\E i \in 1..Len(calls'[t]) : calls'[t][i] = x)
                             => \E i \in 1..Len(calls[t]) : calls[t][i] = x
  BY <1>1, ReturnKeeps
<1>11. hand'[t].run # None => status'[hand'[t].run] # None
  BY <1>3, <1>5
<1> QED
  BY <1>1, <1>4, <1>5, <1>6, <1>7, <1>8, <1>9, <1>10, <1>11, SteadyStep

\* What the recovery of run r puts in its place: the record of the new child, its
\* accounting and, for a child that runs, the wait for it.
LEMMA RecoverCalls ==
    ASSUME NEW r \in Runs, NEW c \in Children, NEW d \in DispatchEnds
    PROVE  \E cs \in Seq(Calls) :
              /\ cs = <<Call("record", c), CallWith("account", r, c)>>
                         \o IF d = "RUNNING" THEN <<Call("enter", c)>> ELSE <<>>
              /\ Len(cs) \in {2, 3} /\ cs[1] = Call("record", c) /\ cs[2] = CallWith("account", r, c)
              /\ Len(cs) = 3 => cs[3] = Call("enter", c)
<1>1. c \in Runs /\ c \in Statuses \cup Runs
  BY Names
<1>2. /\ Call("record", c) \in Calls /\ CallWith("account", r, c) \in Calls
      /\ Call("enter", c) \in Calls
  BY <1>1 DEF Call, CallWith, Calls, Ops, Statuses, None
<1> DEFINE a == Call("record", c)  b == CallWith("account", r, c)  e == Call("enter", c)
<1>3. a \in Calls /\ b \in Calls /\ e \in Calls
  BY <1>2
<1> HIDE DEF a, b, e
<1>4. <<a, b>> \o <<e>> = <<a, b, e>>
  BY <1>3, Joined
<1>5. <<a, b>> \o <<>> = <<a, b>>
  <2>1. <<a, b>> \in Seq(Calls)
    BY <1>3
  <2> QED
    BY <2>1, ConcatEmptySeq
<1>6. CASE d = "RUNNING"
  <2> DEFINE cs == <<a, b, e>>
  <2>1. cs \in Seq(Calls) /\ Len(cs) = 3 /\ cs[1] = a /\ cs[2] = b /\ cs[3] = e
    BY <1>3
  <2>2. cs = <<a, b>> \o IF d = "RUNNING" THEN <<e>> ELSE <<>>
    BY <1>4, <1>6
  <2> HIDE DEF cs
  <2> QED
    BY <2>1, <2>2 DEF a, b, e
<1>7. CASE d # "RUNNING"
  <2> DEFINE cs == <<a, b>>
  <2>1. cs \in Seq(Calls) /\ Len(cs) = 2 /\ cs[1] = a /\ cs[2] = b
    BY <1>3
  <2>2. cs = <<a, b>> \o IF d = "RUNNING" THEN <<e>> ELSE <<>>
    BY <1>5, <1>7
  <2> HIDE DEF cs
  <2> QED
    BY <2>1, <2>2 DEF a, b, e
<1> QED
  BY <1>6, <1>7

LEMMA RecoverList ==
    ASSUME TypeOK, RunsTrue, CallsTrue, NEW t \in Threads, calls[t] # <<>>,
           Head(calls[t]).op = "recover", NEW r \in Runs, r = This(t),
           NEW c \in Children, NEW d \in DispatchEnds, AddsChild(r, c, d), managed' = managed,
           r \notin managed, NEW cs \in Seq(Calls), Become(t, cs),
           Len(cs) \in {2, 3}, cs[1] = Call("record", c), cs[2] = CallWith("account", r, c),
           Len(cs) = 3 => cs[3] = Call("enter", c)
    PROVE  CallsOf(t)'
<1>1. /\ c \in Runs /\ Grows /\ status'[c] # None /\ status[c] = None /\ origin[c] = None
      /\ c \notin managed /\ origin'[c] = r /\ (t \in Runs => status'[t] # None)
  <2>1. c \in Runs
    BY Names
  <2>2. Grows /\ status'[c] # None /\ status[c] = None /\ origin[c] = None /\ c \notin managed
    BY <2>1, Added
  <2>3. origin'[c] = r
    BY <2>1 DEF AddsChild, TypeOK
  <2>4. t \in Runs => status'[t] # None
    BY <2>2 DEF CallsTrue, CallsOf, Grows
  <2> QED
    BY <2>1, <2>2, <2>3, <2>4
<1>2. /\ CallTrue(t, Head(calls[t])) /\ Head(calls[t]).run = r /\ status[r] # None
      /\ \A j \in 2..Len(calls[t]) : /\ calls[t][j] \in Calls
                                     /\ Precedes(Head(calls[t]), calls[t][j])
      /\ (Len(calls[t]) > 1 => HandsTo(Head(calls[t]), calls[t][2]))
      /\ Len(calls[t]) \in Nat
  BY Current DEF This, CallTrue
<1>3. r # c /\ status'[r] # None
  BY <1>1, <1>2 DEF Grows
<1> DEFINE a == Call("record", c)  b == CallWith("account", r, c)  e == Call("enter", c)
<1>4. /\ a.op = "record" /\ a.run = c /\ b.op = "account" /\ b.run = r /\ b.with = c
      /\ e.op = "enter" /\ e.run = c
  BY DEF Call, CallWith
<1>5. cs[1] = a /\ cs[2] = b /\ (Len(cs) = 3 => cs[3] = e)
  OBVIOUS
<1> HIDE DEF a, b, e
<1>6. CallTrue(t, a)' /\ CallTrue(t, b)' /\ CallTrue(t, e)'
  <2>1. a' = a /\ b' = b /\ e' = e
    BY DEF a, b, e
  <2> QED
    BY <1>1, <1>3, <1>4, <2>1 DEF CallTrue
<1>7. /\ Precedes(a, b) /\ Precedes(a, e) /\ Precedes(b, e) /\ HandsTo(a, b) /\ HandsTo(b, e)
  BY <1>3, <1>4 DEF Precedes, HandsTo, Later, Last, Stages
<1>8. ASSUME NEW j \in 2..Len(calls[t])
      PROVE  Precedes(a, calls[t][j]) /\ Precedes(b, calls[t][j]) /\ Precedes(e, calls[t][j])
  <2>1. PICK y \in Calls : y = calls[t][j]
    BY <1>2
  <2>2. CallTrue(t, y)
    <3>1. j \in 1..Len(calls[t])
      BY <1>2
    <3> QED
      BY <2>1, <3>1 DEF CallsTrue, CallsOf
  <2>3. y.op = "account" => y.run # c /\ y.with # c
    <3>1. y.op = "account" => status[y.run] # None /\ origin[y.with] = y.run /\ y.run \in Runs
      BY <2>2 DEF CallTrue, Calls
    <3> QED
      BY <1>1, <3>1, Names
  <2>4. Precedes(Head(calls[t]), y)
    BY <1>2, <2>1
  <2>5. y.op \in Later
    BY <2>4 DEF Precedes
  <2> QED
    BY <1>4, <2>1, <2>3, <2>5 DEF Precedes, Last, Stages
<1>9. Len(calls[t]) > 1 => \A x \in {a, b, e} : HandsTo(x, calls[t][2])
  BY <1>2 DEF HandsTo, Gives, Stages
<1>10. \A i \in 1..Len(cs) : (i = 1 \/ i = 2 \/ (i = 3 /\ Len(cs) = 3)) /\ cs[i] \in {a, b, e}
  BY <1>5
<1>11. \A x \in Calls : (\E i \in 1..Len(cs) : x = cs[i]) => CallTrue(t, x)'
  <2> SUFFICES ASSUME NEW x \in Calls, NEW i \in 1..Len(cs), x = cs[i] PROVE CallTrue(t, x)'
    OBVIOUS
  <2>1. x = a \/ x = b \/ x = e
    BY <1>10
  <2> QED
    BY <1>6, <2>1 DEF CallTrue
<1>12. \A i, j \in 1..Len(cs) : i < j => Precedes(cs[i], cs[j])
  BY <1>5, <1>7, <1>10
<1>13. \A i, j \in 1..Len(cs) : j = i + 1 => HandsTo(cs[i], cs[j])
  BY <1>5, <1>7, <1>10
<1>14. \A i \in 1..Len(cs) : \A j \in 2..Len(calls[t]) : Precedes(cs[i], calls[t][j])
  BY <1>8, <1>10
<1>15. Len(cs) > 0 /\ Len(calls[t]) > 1 => HandsTo(cs[Len(cs)], calls[t][2])
  <2>1. Len(cs) \in 1..Len(cs)
    OBVIOUS
  <2>2. cs[Len(cs)] \in {a, b, e}
    BY <1>10, <2>1
  <2> QED
    BY <1>9, <2>2
<1> QED
  BY <1>1, <1>11, <1>12, <1>13, <1>14, <1>15, ListStep

LEMMA RecoverStep ==
    ASSUME IndInv, NEW t \in Threads, Recover(t)
    PROVE  IndInv'
<1>1. /\ TypeOK /\ RunsTrue /\ CallsTrue /\ LocksTrue /\ HandsTrue /\ calls[t] # <<>>
      /\ Head(calls[t]).op = "recover"
      /\ UNCHANGED <<account, managed, escalated, confirming, locks, started, intents, restored,
                     jobs, mode, lost, crashes>>
  BY DEF IndInv, Recover, Now
<1>2. PICK r \in Runs : r = This(t)
  BY <1>1, Current
<1>3. r \notin restored /\ Unmarked(r)
  BY <1>1, <1>2 DEF HandsTrue, HandTrue
<1>4. CASE Return(t) /\ Drop(t) /\ UNCHANGED <<status, order, origin, stillborn>>
  BY <1>1, <1>4, RecoverEnds
<1>5. CASE /\ Eligible(r) /\ EngineFor(t) /\ Fresh # {}
           /\ LET c == CHOOSE x \in Fresh : TRUE IN
              \E d \in DispatchEnds :
                 /\ NewChild(t, r, c, d)
                 /\ Become(t, <<Call("record", c), CallWith("account", r, c)>>
                              \o IF d = "RUNNING" THEN <<Call("enter", c)>> ELSE <<>>)
  <2>1. PICK c \in Fresh : \E d \in DispatchEnds :
            /\ NewChild(t, r, c, d)
            /\ Become(t, <<Call("record", c), CallWith("account", r, c)>>
                         \o IF d = "RUNNING" THEN <<Call("enter", c)>> ELSE <<>>)
    <3>1. (CHOOSE x \in Fresh : TRUE) \in Fresh
      BY <1>5
    <3> QED
      BY <1>5, <3>1
  <2>2. PICK d \in DispatchEnds :
            /\ NewChild(t, r, c, d)
            /\ Become(t, <<Call("record", c), CallWith("account", r, c)>>
                         \o IF d = "RUNNING" THEN <<Call("enter", c)>> ELSE <<>>)
    BY <2>1
  <2>3. c \in Children /\ c \in Runs /\ status[c] = None
    BY Names DEF Fresh
  <2>4. PICK cs \in Seq(Calls) :
            /\ cs = <<Call("record", c), CallWith("account", r, c)>>
                       \o IF d = "RUNNING" THEN <<Call("enter", c)>> ELSE <<>>
            /\ Len(cs) \in {2, 3} /\ cs[1] = Call("record", c) /\ cs[2] = CallWith("account", r, c)
            /\ Len(cs) = 3 => cs[3] = Call("enter", c)
    BY <2>3, RecoverCalls
  <2>5. Become(t, cs)
    BY <2>2, <2>4
  <2>6. NewRecord(t, c, d) /\ AddsChild(r, c, d)
    BY <1>1, <2>2, <2>3 DEF NewChild, NewRecord, AddsChild, Adds
  <2>7. /\ status' \in [Runs -> Statuses] /\ order' \in Seq(Runs) /\ hand' \in [Threads -> Records]
    BY <1>1, <2>3, <2>6, NewType
  <2>8. PICK h \in Records :
            /\ Hold(t, h) /\ h.run = c /\ h.status = d
            /\ h = [run |-> c, status |-> d, account |-> NoAccount, escalated |-> FALSE]
    BY <1>1, <2>3, <2>6, NewType
  <2>9. Grows /\ status[r] = "FAIL" /\ r \notin managed
    BY <1>1, <1>5, <2>3, <2>6, Added DEF Eligible
  <2>10. /\ calls' \in [Threads -> Seq(Calls)] /\ calls'[t] \in Seq(Calls) /\ Others(t)
    <3>1. calls \in [Threads -> Seq(Calls)]
      BY <1>1 DEF TypeOK
    <3> QED
      BY <1>1, <2>5, <2>8, <3>1, Replaced, ReplacedOthers
  <2>11. TypeOK'
    <3>1. origin' \in [Runs -> Runs \cup {None}] /\ stillborn' \subseteq Children
      BY <1>1, <2>3, <2>6 DEF AddsChild, TypeOK
    <3> QED
      BY <1>1, <2>7, <2>10, <3>1 DEF TypeOK, locks
  <2>12. CallsOf(t)'
    BY <1>1, <1>2, <2>3, <2>4, <2>5, <2>6, <2>9, RecoverList
  <2>13. /\ \A i \in 2..Len(calls[t]) : \E j \in 1..Len(calls'[t]) : calls'[t][j] = calls[t][i]
         /\ \A j \in 1..Len(calls'[t]) : \/ j \in 1..Len(cs) /\ calls'[t][j] = cs[j]
                                         \/ \E i \in 2..Len(calls[t]) : calls'[t][j] = calls[t][i]
         /\ \A j \in 1..Len(cs) : j \in 1..Len(calls'[t]) /\ calls'[t][j] = cs[j]
    BY <1>1, <2>5, TailKept
  <2>14. /\ 1 \in 1..Len(calls'[t]) /\ calls'[t][1] = Call("record", c)
         /\ 2 \in 1..Len(calls'[t]) /\ calls'[t][2] = CallWith("account", r, c)
    BY <2>4, <2>13
  <2>15. calls'[t] # <<>> /\ Head(calls'[t]).op = "record" /\ Head(calls'[t]).run = c
    <3>1. calls'[t] # <<>> /\ Head(calls'[t]) = Call("record", c)
      BY <2>10, <2>14
    <3> QED
      BY <3>1 DEF Call
  <2>16. LocksTrue'
    <3>1. harness = t /\ engine # t /\ \A q \in Runs : observing[q] # t
      <4>1. 1 \in 1..Len(calls[t]) /\ calls[t][1].op = "recover"
        BY <1>1, Current
      <4> QED
        BY <1>1, <4>1 DEF LocksTrue, Now, Stages
    <3>2. ~(Sources \subseteq managed)
      BY <1>1, <2>9 DEF RunsTrue, None
    <3> QED
      BY <1>1, <2>9, <2>10, <2>11, <2>15, <3>1, <3>2, LocksStep DEF locks, Stages
  <2>17. origin'[c] = r /\ \A x \in Children \ {c} : origin'[x] = origin[x]
    BY <1>1, <2>3, <2>6, Names DEF AddsChild, TypeOK
  <2>18. Due(t, c)'
    BY <2>14, <2>17 DEF Due
  <2>19. ASSUME NEW x \in Children \ {c}, Due(t, x) PROVE Due(t, x)'
    <3>1. PICK i \in 1..Len(calls[t]) :
              calls[t][i] \in {CallWith("account", origin[x], x), CallWith("waccount", origin[x], x)}
      BY <2>19 DEF Due
    <3>2. i # 1 /\ Len(calls[t]) \in Nat
      BY <1>1, <3>1, Current DEF CallWith
    <3>3. i \in 2..Len(calls[t])
      BY <3>2
    <3>4. PICK j \in 1..Len(calls'[t]) : calls'[t][j] = calls[t][i]
      BY <2>13, <3>3
    <3> QED
      BY <2>17, <3>1, <3>4 DEF Due
  <2>20. ASSUME NEW j \in 1..Len(calls'[t]), calls'[t][j].op = "account"
         PROVE  \/ \E i \in 1..Len(calls[t]) : calls[t][i] = calls'[t][j]
                \/ calls'[t][j].with = c /\ c \in Children
    <3>1. CASE \E i \in 2..Len(calls[t]) : calls'[t][j] = calls[t][i]
      BY <1>1, <3>1, Current
    <3>2. CASE j \in 1..Len(cs) /\ calls'[t][j] = cs[j]
      <4>1. j = 1 \/ j = 2 \/ (j = 3 /\ Len(cs) = 3)
        BY <2>4, <3>2
      <4>2. cs[j] = CallWith("account", r, c)
        BY <2>4, <2>20, <3>2, <4>1 DEF Call
      <4> QED
        BY <2>3, <3>2, <4>2 DEF CallWith
    <3> QED
      BY <2>13, <3>1, <3>2
  <2>21. /\ r \in Children => r \in stillborn \cup lost
         /\ ~(Sources \subseteq managed) /\ managed' = managed /\ UNCHANGED locks
    BY <1>1, <1>3, <2>9 DEF Unmarked, RunsTrue, None
  <2>22. Scanned => /\ \A x \in ChildrenOf(r) : status[x] = "DENIED"
                    /\ Cardinality(ChildrenOf(r)) < MaxDispatches
    BY <1>1, <1>2, <1>5, RecoverOnce
  <2> QED
    BY <1>1, <1>5, <2>3, <2>5, <2>6, <2>8, <2>9, <2>11, <2>12, <2>15, <2>16, <2>18, <2>19, <2>20,
       <2>21, <2>22, CreateStep
<1> QED
  BY <1>2, <1>4, <1>5 DEF Recover

\* At a restart every child of a managed run is accounted for already.
LEMMA RestartAlone ==
    ASSUME IndInv, calls["jev"] # <<>>, Head(calls["jev"]).op = "restart",
           NEW x \in Children, x \notin lost, origin[x] \in managed
    PROVE  account[x] = [kind |-> "watchdog", of |-> origin[x], ran |-> TRUE]
<1>1. TypeOK /\ CallsTrue /\ AccountsTrue /\ "jev" \in Threads /\ origin[x] # None
  BY Names DEF IndInv, TypeOK
<1>2. ASSUME NEW u \in Threads, Due(u, x) PROVE FALSE
  <2>1. PICK i \in 1..Len(calls[u]) :
            calls[u][i] \in {CallWith("account", origin[x], x), CallWith("waccount", origin[x], x)}
    BY <1>2 DEF Due
  <2>2. CallTrue(u, calls[u][i]) /\ calls[u][i].run = origin[x]
    BY <1>1, <2>1 DEF CallsTrue, CallsOf, CallWith
  <2>3. calls[u][i].op = "waccount" /\ u = "jev"
    BY <2>1, <2>2 DEF CallTrue, CallWith
  <2>4. Len(calls["jev"]) = 1 /\ calls["jev"][1] = Head(calls["jev"])
    BY <1>1, Alone DEF Last
  <2> QED
    BY <2>1, <2>3, <2>4
<1> QED
  BY <1>1, <1>2 DEF AccountsTrue, Accounting

LEMMA RestartStep ==
    ASSUME IndInv, NEW t \in Threads, Restart(t)
    PROVE  IndInv'
<1>1. /\ TypeOK /\ RunsTrue /\ CallsTrue /\ LocksTrue /\ ChildHasGround /\ calls[t] # <<>>
      /\ Head(calls[t]).op = "restart"
      /\ UNCHANGED <<account, escalated, locks, started, intents, restored, jobs, mode, lost, crashes>>
  BY DEF IndInv, Restart, Now
<1>2. PICK r \in Runs : r = This(t)
  BY <1>1, Current
<1>3. t = "jev" /\ r \in managed /\ mode = "auto" /\ t \notin Runs
  BY <1>1, <1>2, Current, Names DEF CallTrue, This
<1>4. CASE /\ Return(t) /\ Hold(t, NoRecord) /\ confirming' = confirming \ {r}
           /\ UNCHANGED <<status, order, managed, origin, stillborn>>
  <2>1. escalated' \subseteq Runs /\ confirming' \subseteq Runs /\ intents' \subseteq Runs
    BY <1>1, <1>4 DEF TypeOK
  <2> QED
    BY <1>1, <1>4, <2>1, EndsThere, EmptyHand DEF Hold, ghosts
<1>5. CASE /\ status[r] = "CANCELLED" /\ Restartable(r) /\ EngineFor(t) /\ Fresh # {}
           /\ LET c == CHOOSE x \in Fresh : TRUE IN
              /\ \E d \in DispatchEnds : NewChild(t, r, c, d)
              /\ managed' = managed \cup {c}
              /\ Become(t, <<Call("record", c), CallWith("waccount", r, c)>>)
           /\ UNCHANGED confirming
  <2>1. PICK c \in Fresh :
            /\ \E d \in DispatchEnds : NewChild(t, r, c, d)
            /\ managed' = managed \cup {c}
            /\ Become(t, <<Call("record", c), CallWith("waccount", r, c)>>)
    <3>1. (CHOOSE x \in Fresh : TRUE) \in Fresh
      BY <1>5
    <3> QED
      BY <1>5, <3>1
  <2>2. PICK d \in DispatchEnds : NewChild(t, r, c, d)
    BY <2>1
  <2>3. c \in Children /\ c \in Runs /\ status[c] = None
    BY Names DEF Fresh
  <2>4. NewRecord(t, c, d) /\ AddsChild(r, c, d)
    BY <1>1, <2>1, <2>2, <2>3 DEF NewChild, NewRecord, AddsChild, Adds
  <2>5. /\ status' \in [Runs -> Statuses] /\ order' \in Seq(Runs) /\ hand' \in [Threads -> Records]
    BY <1>1, <2>3, <2>4, NewType
  <2>6. PICK h \in Records :
            /\ Hold(t, h) /\ h.run = c /\ h.status = d
            /\ h = [run |-> c, status |-> d, account |-> NoAccount, escalated |-> FALSE]
    BY <1>1, <2>3, <2>4, NewType
  <2>7. Grows /\ status'[c] # None /\ origin'[c] = r /\ \A x \in Children \ {c} : origin'[x] = origin[x]
    <3>1. Grows /\ status'[c] # None
      BY <1>1, <2>3, <2>4, Added
    <3> QED
      BY <1>1, <2>3, <2>4, <3>1, Names DEF AddsChild, TypeOK
  <2> DEFINE a == Call("record", c)  b == CallWith("waccount", r, c)  cs == <<a, b>>
  <2>8. /\ a \in Calls /\ b \in Calls /\ a.op = "record" /\ a.run = c
        /\ b.op = "waccount" /\ b.run = r /\ b.with = c /\ a' = a /\ b' = b
    BY <2>3 DEF Call, CallWith, Calls, Ops, Statuses, None
  <2>9. Become(t, cs) /\ b = CallWith("waccount", r, c)
    BY <2>1
  <2> HIDE DEF a, b
  <2>10. cs \in Seq(Calls) /\ Len(cs) = 2 /\ cs[1] = a /\ cs[2] = b
    BY <2>8
  <2>11. /\ calls'[t] = <<a, b>> /\ Len(calls[t]) = 1 /\ calls[t][1] = Head(calls[t])
    BY <1>1, <2>9, <2>10, Alone DEF Last
  <2>12. Len(calls'[t]) = 2 /\ calls'[t][1] = a /\ calls'[t][2] = b /\ Head(calls'[t]) = a
         /\ calls'[t] # <<>>
    BY <2>8, <2>11
  <2> HIDE DEF cs
  <2>13. calls' \in [Threads -> Seq(Calls)] /\ Others(t)
    <3>1. calls \in [Threads -> Seq(Calls)]
      BY <1>1 DEF TypeOK
    <3> QED
      BY <1>1, <2>6, <2>9, <2>10, <3>1, Replaced, ReplacedOthers
  <2>14. TypeOK'
    <3>1. origin' \in [Runs -> Runs \cup {None}] /\ stillborn' \subseteq Children /\ managed' \subseteq Runs
      BY <1>1, <2>1, <2>3, <2>4 DEF AddsChild, TypeOK
    <3> QED
      BY <1>1, <1>5, <2>5, <2>13, <3>1 DEF TypeOK, locks
  <2>15. CallsOf(t)'
    <3>1. status'[r] # None /\ r \in managed' /\ mode' = "auto" /\ c \in Children
      BY <1>1, <1>3, <1>5, <2>3, <2>7 DEF Grows, None
    <3>2. CallTrue(t, a)' /\ CallTrue(t, b)'
      BY <1>3, <2>7, <2>8, <3>1 DEF CallTrue
    <3>3. Precedes(a, b) /\ HandsTo(a, b)
      BY <2>8 DEF Precedes, HandsTo, Later, Last
    <3> QED
      BY <1>3, <2>8, <2>11, <3>2, <3>3, TwoCalls
  <2>16. LocksTrue'
    <3>1. \A i \in 1..Len(calls'[t]) : calls'[t][i].op \notin Stages \cup {"recover", "leave", "account"}
      <4> SUFFICES ASSUME NEW i \in 1..Len(calls'[t])
                   PROVE  calls'[t][i].op \notin Stages \cup {"recover", "leave", "account"}
        OBVIOUS
      <4>1. i = 1 \/ i = 2
        BY <2>12
      <4> QED
        BY <2>8, <2>12, <4>1 DEF Stages
    <3> QED
      BY <1>1, <2>7, <2>13, <2>14, <3>1, FreshLocks DEF Stages
  <2>17. Due(t, c)'
    <3>1. 2 \in 1..Len(calls'[t]) /\ calls'[t][2] = CallWith("waccount", r, c)
      BY <2>9, <2>12
    <3> QED
      BY <2>7, <3>1 DEF Due
  <2>18. ASSUME NEW x \in Children, Due(t, x) PROVE FALSE
    <3>1. PICK i \in 1..Len(calls[t]) :
              calls[t][i] \in {CallWith("account", origin[x], x), CallWith("waccount", origin[x], x)}
      BY <2>18 DEF Due
    <3>2. i = 1
      BY <2>11
    <3> QED
      BY <1>1, <2>11, <3>1, <3>2 DEF CallWith
  <2>19. \A j \in 1..Len(calls'[t]) : calls'[t][j].op # "account"
    <3> SUFFICES ASSUME NEW j \in 1..Len(calls'[t]) PROVE calls'[t][j].op # "account"
      OBVIOUS
    <3>1. j = 1 \/ j = 2
      BY <2>12
    <3> QED
      BY <2>8, <2>12, <3>1
  <2>20. r \in Children => r \in stillborn \cup lost
    <3> SUFFICES ASSUME r \in Children, r \notin lost PROVE FALSE
      OBVIOUS
    <3>1. origin[r] # None
      BY <1>1, <1>5 DEF RunsTrue, None
    <3>2. origin[r] \in managed
      BY <1>1, <1>3, <3>1 DEF ChildHasGround
    <3>3. account[r] = [kind |-> "watchdog", of |-> origin[r], ran |-> TRUE]
      BY <1>1, <1>3, <3>2, RestartAlone
    <3> QED
      BY <1>5, <3>3 DEF Restartable
  <2>21. Scanned => /\ \A x \in ChildrenOf(r) : status[x] = "DENIED"
                    /\ Cardinality(ChildrenOf(r)) < MaxDispatches
    <3> SUFFICES ASSUME Scanned PROVE ChildrenOf(r) = {} /\ Cardinality({}) < MaxDispatches
      OBVIOUS
    <3>1. ASSUME NEW x \in ChildrenOf(r) PROVE FALSE
      <4>1. x \in Children /\ x \in Runs /\ x \notin lost /\ origin[x] = r /\ r # None
        BY Names DEF ChildrenOf
      <4>2. account[x] = [kind |-> "watchdog", of |-> r, ran |-> TRUE]
        BY <1>1, <1>3, <4>1, RestartAlone
      <4>3. x \in Recent
        BY <1>1, <4>1, AllScanned DEF RunsTrue
      <4> QED
        BY <1>5, <4>2, <4>3 DEF Restartable, RestartsOf
    <3>2. Cardinality({}) = 0
      BY FS_EmptySet
    <3> QED
      BY <3>1, <3>2, BoundsAssumption DEF Scanned
  <2>22. Head(calls[t]).op \notin {"record", "note"} /\ EngineFor(t) /\ UNCHANGED locks
    BY <1>1, <1>5
  <2>23. c \in managed' /\ status[r] = "CANCELLED" /\ mode = "auto" /\ r \in managed
    BY <1>3, <1>5, <2>1
  <2>24. Head(calls'[t]).op = "record" /\ Head(calls'[t]).run = c
    BY <2>8, <2>12
  <2> QED
    BY <1>1, <2>3, <2>4, <2>6, <2>9, <2>10, <2>12, <2>14, <2>15, <2>16, <2>17, <2>18, <2>19, <2>20,
       <2>21, <2>22, <2>23, <2>24, CreateStep
<1> QED
  BY <1>2, <1>4, <1>5 DEF Restart

(******************************* the theorems ******************************)

LEMMA Initially ==
    ASSUME Init
    PROVE  IndInv
<1>1. /\ \A t \in Threads : calls[t] = <<>> /\ hand[t] = NoRecord
      /\ \A r \in Runs : status[r] = None /\ account[r] = NoAccount /\ origin[r] = None
                         /\ observing[r] = None
      /\ harness = None /\ engine = None /\ lost = {} /\ stillborn = {} /\ started = {} /\ jobs = {}
      /\ managed \subseteq Sources /\ order = <<>> /\ restored = {}
  BY DEF Init
<1>2. TypeOK
  <2>1. NoRecord \in Records /\ NoAccount \in Accounts
    BY EmptyHand DEF NoAccount, Accounts
  <2>2. mode \in Modes
    BY DEF Init, Modes
  <2>3. order \in Seq(Runs) /\ calls \in [Threads -> Seq(Calls)]
    BY DEF Init
  <2> QED
    BY <1>1, <2>1, <2>2, <2>3, Names, BoundsAssumption DEF Init, TypeOK, Statuses
<1>3. CallsTrue /\ LocksTrue
  <2>1. \A t \in Threads : t # None
    BY Names
  <2> QED
    BY <1>1, <2>1 DEF CallsTrue, CallsOf, LocksTrue, Now
<1>4. HandsTrue
  BY <1>1, EmptyHand DEF HandsTrue
<1>5. RunsTrue
  BY <1>1, Names DEF RunsTrue
<1>6. ChildHasGround /\ NoChain /\ AccountsTrue /\ LiveTrue
  <2>1. \A c \in Children : origin[c] = None /\ c \in Runs
    BY <1>1, Names
  <2>2. None \notin Children
    BY Names
  <2> QED
    BY <1>1, <2>1, <2>2 DEF ChildHasGround, NoChain, AccountsTrue, LiveTrue, Live, None
<1>7. OnceTrue
  <2>1. \A r \in Runs : ChildrenOf(r) = {}
    BY <1>1, Names DEF ChildrenOf
  <2> QED
    BY <2>1, FS_EmptySet, BoundsAssumption DEF OnceTrue
<1> QED
  BY <1>2, <1>3, <1>4, <1>5, <1>6, <1>7 DEF IndInv

LEMMA Stutters ==
    ASSUME IndInv, UNCHANGED vars
    PROVE  IndInv'
<1>1. UNCHANGED <<status, account, managed, escalated, order, confirming, calls, hand, harness, engine,
                  observing, started, intents, restored, jobs, mode, origin, stillborn, lost, crashes>>
  BY DEF vars, durable, volatile, locks, ghosts
<1>2. TypeOK'
  BY <1>1 DEF IndInv, TypeOK
<1>3. CallsTrue' /\ LocksTrue'
  BY <1>1 DEF IndInv, CallsTrue, CallsOf, CallTrue, LocksTrue, Now, This
<1>4. HandsTrue'
  BY <1>1 DEF IndInv, HandsTrue, HandTrue, This, Unmarked, Settled
<1>5. RunsTrue' /\ ChildHasGround' /\ NoChain'
  BY <1>1 DEF IndInv, RunsTrue, ChildHasGround, NoChain
<1>6. AccountsTrue'
  BY <1>1 DEF IndInv, AccountsTrue, Accounting, Due
<1>7. OnceTrue'
  BY <1>1 DEF IndInv, OnceTrue, Scanned, ChildrenOf
<1>8. LiveTrue'
  BY <1>1 DEF IndInv, LiveTrue, Live, Observed, Now, This
<1> QED
  BY <1>2, <1>3, <1>4, <1>5, <1>6, <1>7, <1>8 DEF IndInv

LEMMA NextKeeps ==
    ASSUME IndInv, [Next]_vars
    PROVE  IndInv'
<1>1. ASSUME NEW t \in Threads, Step(t) PROVE IndInv'
  BY <1>1, DispatchStep, EnterStep, GuardStep, ApplyStep, FinalStep, MergeStep, RecordStep, NoteStep,
     LeaveStep, RecoverStep, AccountStep, AwaitStep, AbortStep, JudgeStep, RestartStep
     DEF Step
<1>2. ASSUME NEW s \in Sources, ApiDirect(s) \/ ApiWait(s) \/ ApiCancel(s) PROVE IndInv'
  BY <1>2, ApiStep
<1>3. ASSUME NEW r \in Runs, Assess(r) PROVE IndInv'
  BY <1>3, AssessStep
<1>4. CASE Crash
  BY <1>4, CrashStep
<1>5. CASE UNCHANGED vars
  BY <1>5, Stutters
<1> QED
  BY <1>1, <1>2, <1>3, <1>4, <1>5 DEF Next

\* In every reachable state the calls still to make are well formed, each lock and each
\* observation belongs to a thread due to give it back, and every child has its origin.
THEOREM Invariance == Spec => []IndInv
<1>1. Init => IndInv
  BY Initially
<1>2. IndInv /\ [Next]_vars => IndInv'
  BY NextKeeps
<1> QED
  BY <1>1, <1>2, PTL DEF Spec

\* What the registry, the locks and the lists of calls may hold.
THEOREM TypeCorrect == Spec => []TypeOK
<1>1. IndInv => TypeOK
  BY DEF IndInv
<1> QED
  BY <1>1, Invariance, PTL

\* A child is dispatched for an unmanaged run that failed or a managed one that is
\* cancelled, and stays in the lane, for any number of threads between the look at the
\* source and the dispatch.
THEOREM GroundCorrect == Spec => []ChildHasGround
<1>1. IndInv => ChildHasGround
  BY DEF IndInv
<1> QED
  BY <1>1, Invariance, PTL

\* As long as the registry scans every run created, no run gets two recoveries that
\* ran or more than the bounded number of dispatches, and none is recovered that is a
\* recovery, unless it was stillborn or its accounting is lost.
THEOREM BoundedCorrect == Spec => [](Scanned => RecoveryBounded)
<1>1. ASSUME IndInv, Scanned PROVE RecoveryBounded
  <2>1. NoChain /\ OnceTrue
    BY <1>1 DEF IndInv
  <2>2. ASSUME NEW r \in Runs
        PROVE  /\ Cardinality({c \in ChildrenOf(r) : status[c] # "DENIED"}) <= 1
               /\ Cardinality(ChildrenOf(r)) <= MaxDispatches
    <3>1. /\ \A c, d \in ChildrenOf(r) : status[c] # "DENIED" /\ status[d] # "DENIED" => c = d
          /\ Cardinality(ChildrenOf(r)) <= MaxDispatches
      BY <1>1, <2>1 DEF OnceTrue
    <3> DEFINE S == {c \in ChildrenOf(r) : status[c] # "DENIED"}
    <3>2. CASE S = {}
      <4>1. Cardinality(S) = 0
        BY <3>2, FS_EmptySet
      <4> QED
        BY <3>1, <4>1
    <3>3. CASE S # {}
      <4>1. PICK c \in S : S = {c}
        BY <3>1, <3>3
      <4>2. Cardinality(S) = 1
        BY <4>1, FS_Singleton
      <4> QED
        BY <3>1, <4>2
    <3> QED
      BY <3>2, <3>3
  <2> QED
    BY <2>1, <2>2 DEF RecoveryBounded, RecoveryOnce
<1>2. IndInv => (Scanned => RecoveryBounded)
  BY <1>1
<1> QED
  BY <1>2, Invariance, PTL

\* With watchdog-managed sources the holder of the harness lock always goes on, so does
\* the holder of the engine lock once the harness lock is free, and whoever observes a
\* run waits for one of these two at most: nobody waits in a circle.
THEOREM NoCircleCorrect == Spec => []ManagedNoCircle
<1>1. ASSUME IndInv PROVE ManagedNoCircle
  <2> SUFFICES ASSUME Sources \subseteq managed, NEW ts \in SUBSET Threads, ts # {},
                      \A t \in ts : Blocker(t) \in ts
               PROVE  FALSE
    BY DEF ManagedNoCircle, NoCircle
  <2>1. TypeOK /\ CallsTrue /\ RunsTrue /\ LocksTrue
    BY <1>1 DEF IndInv
  <2>2. None \notin ts
    BY Names
  <2>3. ASSUME NEW t \in ts
        PROVE  calls[t] # <<>> /\ t \in Threads /\ This(t) \in Runs /\ Head(calls[t]) \in Calls
    <3>1. calls[t] # <<>>
      BY <2>2, <2>3 DEF Blocker
    <3> QED
      BY <2>1, <2>3, <3>1, Current
  <2>4. ASSUME NEW t \in ts
        PROVE  \/ Head(calls[t]).op = "enter" /\ Blocker(t) = observing[This(t)]
               \/ /\ Head(calls[t]).op \in {"guard", "final", "record", "note", "await", "judge"}
                  /\ Blocker(t) = harness
               \/ /\ Head(calls[t]).op = "recover" /\ Eligible(This(t))
                  /\ Blocker(t) = engine
               \/ /\ Head(calls[t]).op \in {"dispatch", "apply", "abort", "restart"}
                  /\ Blocker(t) = engine
    <3>1. calls[t] # <<>> /\ Blocker(t) # None
      BY <2>2, <2>3, <2>4
    <3> DEFINE op == Head(calls[t]).op
    <3>2. CASE op = "enter"
      BY <3>1, <3>2 DEF Blocker
    <3>3. CASE op \in {"guard", "final", "record", "note", "await", "judge"}
      BY <3>1, <3>3 DEF Blocker
    <3>4. CASE op = "recover"
      BY <3>1, <3>4 DEF Blocker
    <3>5. CASE op \in {"dispatch", "apply", "abort", "restart"}
      BY <3>1, <3>5 DEF Blocker
    <3>6. op \in {"enter", "recover"} \cup {"guard", "final", "record", "note", "await", "judge"}
                 \cup {"dispatch", "apply", "abort", "restart"}
      BY <3>1 DEF Blocker
    <3> QED
      BY <3>2, <3>3, <3>4, <3>5, <3>6
  <2>5. harness \notin ts
    <3> SUFFICES ASSUME harness \in ts PROVE FALSE
      OBVIOUS
    <3>1. Now(harness, "leave") \/ Now(harness, "recover")
      BY <2>1 DEF LocksTrue
    <3>2. Head(calls[harness]).op = "recover" /\ Eligible(This(harness))
      BY <2>4, <3>1 DEF Now
    <3>3. status[This(harness)] # None /\ This(harness) \in Runs
      BY <2>3, <3>2 DEF Eligible, None
    <3> QED
      BY <2>1, <3>2, <3>3 DEF RunsTrue, Eligible
  <2>6. engine \notin ts
    <3> SUFFICES ASSUME engine \in ts PROVE FALSE
      OBVIOUS
    <3>1. Now(engine, "final") \/ Now(engine, "merge")
      BY <2>1 DEF LocksTrue
    <3>2. Blocker(engine) = harness
      BY <2>4, <3>1 DEF Now
    <3> QED
      BY <2>5, <3>2
  <2>7. PICK t \in ts : TRUE
    OBVIOUS
  <2>8. Head(calls[t]).op = "enter" /\ observing[This(t)] \in ts
    BY <2>4, <2>5, <2>6
  <2>9. PICK u \in ts : u = observing[This(t)]
    BY <2>8
  <2>10. \E op \in Stages : Now(u, op)
    BY <2>1, <2>3, <2>9 DEF LocksTrue
  <2> QED
    BY <2>4, <2>5, <2>6, <2>10 DEF Now, Stages
<1>2. IndInv => ManagedNoCircle
  BY <1>1
<1> QED
  BY <1>2, Invariance, PTL

\* Only a recovery and a restart give a run a child, and a restored run is at most restarted.
LEMMA OriginStep ==
    ASSUME IndInv, [Next]_vars, NEW c \in Children, origin'[c] # origin[c]
    PROVE  origin'[c] \in restored => origin'[c] \in managed
<1>1. TypeOK /\ HandsTrue /\ CallsTrue /\ c \in Runs
  BY Names DEF IndInv
<1>2. ASSUME NEW t \in Threads, Recover(t) PROVE origin'[c] \notin restored
  <2>1. calls[t] # <<>> /\ Head(calls[t]).op = "recover"
    BY <1>2 DEF Recover, Now
  <2>2. This(t) \notin restored
    BY <1>1, <2>1 DEF HandsTrue, HandTrue
  <2>3. \E x : origin' = [origin EXCEPT ![x] = This(t)]
    BY <1>2 DEF Recover, NewChild
  <2> QED
    BY <1>1, <2>2, <2>3 DEF TypeOK
<1>3. ASSUME NEW t \in Threads, Restart(t) PROVE origin'[c] \in managed
  <2>1. calls[t] # <<>> /\ Head(calls[t]).op = "restart"
    BY <1>3 DEF Restart, Now
  <2>2. This(t) \in managed
    BY <1>1, <2>1, Current DEF CallTrue, This
  <2>3. \E x : origin' = [origin EXCEPT ![x] = This(t)]
    BY <1>3 DEF Restart, NewChild
  <2> QED
    BY <1>1, <2>2, <2>3 DEF TypeOK
<1>4. (\E t \in Threads : Recover(t) \/ Restart(t)) \/ UNCHANGED origin
  BY DEF Next, Step, vars, ghosts, Dispatch, Enter, Guard, Apply, Final, Merge, RecordCall, Note, Recorded,
         Leave, AccountCall, Await, Abort, Judge, WatchdogAccount, ApiDirect, ApiWait, ApiCancel,
         Assess, Crash
<1> QED
  BY <1>2, <1>3, <1>4

\* Every live run is observed, or about to be recorded by the thread that made it; and
\* what a process took up again at its start is never given a recovery by that process.
THEOREM RestartCorrect == Spec => RestartObserves
<1>1. ASSUME IndInv PROVE LiveIsObserved
  <2> SUFFICES ASSUME NEW r \in Live, ~Observed(r)
               PROVE  \E t \in Threads : \E i \in 1..Len(calls[t]) :
                         calls[t][i].op = "record" /\ calls[t][i].run = r
    BY DEF LiveIsObserved
  <2>1. TypeOK /\ CallsTrue
    BY <1>1 DEF IndInv
  <2>2. PICK t \in Threads : Now(t, "record") /\ This(t) = r
    BY <1>1 DEF IndInv, LiveTrue
  <2>3. 1 \in 1..Len(calls[t]) /\ calls[t][1] = Head(calls[t])
    BY <2>1, <2>2, Current DEF Now
  <2> QED
    BY <2>2, <2>3 DEF Now, This
<1>2. ASSUME IndInv, [Next]_vars
      PROVE  [\A c \in Children : origin'[c] # origin[c] /\ origin'[c] \in restored
                                     => origin'[c] \in managed]_vars
  <2> SUFFICES ASSUME ~UNCHANGED vars, NEW c \in Children, origin'[c] # origin[c], origin'[c] \in restored
               PROVE  origin'[c] \in managed
    OBVIOUS
  <2> QED
    BY <1>2, OriginStep
<1>3. IndInv => LiveIsObserved
  BY <1>1
<1>4. IndInv /\ [Next]_vars => [\A c \in Children : origin'[c] # origin[c] /\ origin'[c] \in restored
                                                       => origin'[c] \in managed]_vars
  BY <1>2
<1> QED
  BY <1>3, <1>4, Invariance, PTL DEF Spec, RestartObserves, RestoredOnlyObserved
==================================================================================
