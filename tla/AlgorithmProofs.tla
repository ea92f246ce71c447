------------------------------ MODULE AlgorithmProofs ------------------------------
(***************************************************************************)
(* Theorems about the two algorithms of MCServices, for every input and    *)
(* every value of the constants: the counters and the detector that watch  *)
(* a run agree with its whole stream; the compiler's depth-first visit     *)
(* finds exactly the cycles.                                               *)
(***************************************************************************)
EXTENDS MCServices, FiniteSetTheorems, WellFoundedInduction, TLAPS

(****************************** least elements *****************************)

\* A number exists only if a least one does: what stands for induction below.
LEMMA LeastIn ==
    ASSUME NEW R, R = {ss \in Nat \X Nat : ss[1] < ss[2]}, IsWellFoundedOn(R, Nat),
           NEW T \in SUBSET Nat, T # {}
    PROVE  \E n \in T : \A m \in T : n <= m
<1>1. PICK n \in T : \A m \in T : ~(<<m, n>> \in R)
  BY WFMin
<1>2. ASSUME NEW m \in T PROVE n <= m
  <2>1. m \in Nat /\ n \in Nat /\ ~(<<m, n>> \in {ss \in Nat \X Nat : ss[1] < ss[2]})
    BY <1>1
  <2> DEFINE p == <<m, n>>
  <2>2. p \in Nat \X Nat /\ p[1] = m /\ p[2] = n
    BY <2>1
  <2>3. ~(p[1] < p[2])
    <3> HIDE DEF p
    <3>1. p \notin {ss \in Nat \X Nat : ss[1] < ss[2]}
      BY <2>1 DEF p
    <3> QED
      BY <2>2, <3>1
  <2> QED
    BY <2>1, <2>2, <2>3
<1> QED
  BY <1>2

LEMMA LeastNumber ==
    ASSUME NEW T \in SUBSET Nat, T # {}
    PROVE  \E n \in T : \A m \in T : n <= m
<1>1. OpToRel(<, Nat) = {ss \in Nat \X Nat : ss[1] < ss[2]}
  BY DEF OpToRel
<1>2. PICK R : R = {ss \in Nat \X Nat : ss[1] < ss[2]} /\ IsWellFoundedOn(R, Nat)
  BY <1>1, NatLessThanWellFounded
<1> QED
  BY <1>2, LeastIn

(****************************** streams of events **************************)

\* RuntimeWatch counts with the same operator as this module.
LEMMA WatchCardinality ==
    ASSUME NEW S
    PROVE  Watch!Cardinality(S) = Cardinality(S)
BY DEF Watch!Cardinality, Cardinality

LEMMA Positions ==
    ASSUME NEW S, NEW l \in Seq(S), NEW P \in SUBSET DOMAIN l
    PROVE  IsFiniteSet(P) /\ Cardinality(P) \in Nat
<1>1. Len(l) \in Nat /\ DOMAIN l = 1..Len(l)
  OBVIOUS
<1>2. IsFiniteSet(1..Len(l))
  BY <1>1, FS_Interval
<1> QED
  BY <1>1, <1>2, FS_Subset, FS_CardinalityType

\* One position more, and one event more.
LEMMA OneMore ==
    ASSUME NEW S, NEW l \in Seq(S), NEW e \in S, NEW P \in SUBSET DOMAIN l
    PROVE  /\ Append(l, e) \in Seq(S)
           /\ DOMAIN Append(l, e) = DOMAIN l \cup {Len(l) + 1}
           /\ \A i \in DOMAIN l : Append(l, e)[i] = l[i]
           /\ Append(l, e)[Len(l) + 1] = e
           /\ Len(l) + 1 \notin DOMAIN l
           /\ \A i \in DOMAIN l : i \in Nat /\ i < Len(l) + 1
           /\ Cardinality(P \cup {Len(l) + 1}) = Cardinality(P) + 1
<1>1. Len(l) \in Nat /\ DOMAIN l = 1..Len(l)
  OBVIOUS
<1>2. Len(l) + 1 \notin P
  BY <1>1
<1>3. Cardinality(P \cup {Len(l) + 1}) = Cardinality(P) + 1
  BY <1>2, Positions, FS_AddElement
<1> QED
  BY <1>1, <1>3

LEMMA One == ASSUME NEW i PROVE Cardinality({i}) = 1
BY FS_Singleton

\* An event that is not among the positions looked at changes nothing there.
LEMMA StreakStays ==
    ASSUME NEW S, NEW l \in Seq(S), NEW e \in S, NEW P \in SUBSET DOMAIN l
    PROVE  Watch!Streak(Append(l, e), P) = Watch!Streak(l, P)
BY OneMore DEF Watch!Streak

\* An event that is continues the repetition it is like, or begins one.
LEMMA StreakGrows ==
    ASSUME NEW S, NEW l \in Seq(S), NEW e \in S, NEW P \in SUBSET DOMAIN l
    PROVE  LET n == Len(l) + 1 IN
           Watch!Streak(Append(l, e), P \cup {n}) =
               IF \A i \in Watch!Streak(l, P) : l[i] = e THEN Watch!Streak(l, P) \cup {n} ELSE {n}
<1> DEFINE n == Len(l) + 1
           m == Append(l, e)
           Q == P \cup {n}
           before == Watch!Streak(l, P)
<1>1. /\ \A i \in P : i \in Nat /\ i < n /\ m[i] = l[i]
      /\ n \in Nat /\ n \notin P /\ m[n] = e
  BY OneMore
<1> HIDE DEF n, m
<1>2. n \in Watch!Streak(m, Q)
  BY <1>1 DEF Watch!Streak
<1>3. ASSUME NEW i \in P
      PROVE  i \in Watch!Streak(m, Q) <=> i \in before /\ l[i] = e
  <2>1. CASE i \in Watch!Streak(m, Q)
    <3>1. \A j, k \in Q : j >= i /\ k >= i => m[j] = m[k]
      BY <2>1 DEF Watch!Streak
    <3>2. i \in Q /\ n \in Q /\ i >= i /\ n >= i
      BY <1>1, <1>3
    <3>3. m[i] = m[n]
      BY <3>1, <3>2
    <3>4. \A j, k \in P : j >= i /\ k >= i => l[j] = l[k]
      BY <1>1, <3>1
    <3> QED
      BY <1>1, <1>3, <2>1, <3>3, <3>4 DEF Watch!Streak
  <2>2. CASE i \in before /\ l[i] = e
    <3>1. \A j \in P : j >= i => l[j] = e
      BY <1>1, <1>3, <2>2 DEF Watch!Streak
    <3>2. \A j \in Q : j >= i => m[j] = e
      BY <1>1, <3>1
    <3>3. i \in Q /\ \A j, k \in Q : j >= i /\ k >= i => m[j] = m[k]
      BY <1>3, <3>2
    <3> HIDE DEF Q
    <3>4. i \in Watch!Streak(m, Q)
      BY <3>3 DEF Watch!Streak
    <3> QED
      BY <2>2, <3>4
  <2> QED
    BY <2>1, <2>2
<1>4. before \subseteq P /\ Watch!Streak(m, Q) \subseteq Q
  BY DEF Watch!Streak
<1>5. CASE \A i \in before : l[i] = e
  <2>1. Watch!Streak(m, Q) = before \cup {n}
    BY <1>2, <1>3, <1>4, <1>5
  <2> QED
    BY <1>5, <2>1 DEF n, m
<1>6. CASE ~\A i \in before : l[i] = e
  <2>1. PICK s \in before : l[s] # e
    BY <1>6
  <2>2. ASSUME NEW i \in before PROVE l[i] # e
    <3>1. s \in P /\ i \in P /\ s \in Nat /\ i \in Nat
      BY <1>1, <1>4
    <3>2. l[i] = l[s]
      BY <3>1, <2>1, <2>2 DEF Watch!Streak
    <3> QED
      BY <2>1, <3>2
  <2>3. Watch!Streak(m, Q) = {n}
    BY <1>2, <1>3, <1>4, <2>2
  <2> QED
    BY <1>6, <2>3 DEF n, m
<1> QED
  BY <1>5, <1>6

(****************************** the policy engine **************************)

\* Where an event is found in the stream it has joined.
LEMMA Joins ==
    ASSUME NEW l \in Seq(Watch!Events), NEW e \in Watch!Events
    PROVE  LET m == Append(l, e)  n == Len(l) + 1 IN
           /\ Watch!Retries(l) \subseteq DOMAIN l /\ Watch!Calls(l) \subseteq DOMAIN l
           /\ Watch!Results(l) \subseteq DOMAIN l
           /\ Watch!Retries(m) = IF e.kind = "retry" THEN Watch!Retries(l) \cup {n}
                                 ELSE Watch!Retries(l)
           /\ Watch!Calls(m) = IF e.kind = "tool_call" /\ e.flag THEN Watch!Calls(l) \cup {n}
                               ELSE Watch!Calls(l)
           /\ Watch!Results(m) = IF e.kind \in {"result", "checkpoint"}
                                 THEN Watch!Results(l) \cup {n} ELSE Watch!Results(l)
<1> DEFINE m == Append(l, e)
           n == Len(l) + 1
<1>1. DOMAIN m = DOMAIN l \cup {n} /\ m[n] = e /\ \A i \in DOMAIN l : m[i] = l[i]
  BY OneMore
<1> HIDE DEF m, n
<1>2. Watch!Retries(m) = IF e.kind = "retry" THEN Watch!Retries(l) \cup {n} ELSE Watch!Retries(l)
  BY <1>1 DEF Watch!Retries
<1>3. Watch!Calls(m) = IF e.kind = "tool_call" /\ e.flag THEN Watch!Calls(l) \cup {n}
                       ELSE Watch!Calls(l)
  BY <1>1 DEF Watch!Calls
<1>4. Watch!Results(m) = IF e.kind \in {"result", "checkpoint"}
                         THEN Watch!Results(l) \cup {n} ELSE Watch!Results(l)
  BY <1>1 DEF Watch!Results
<1> QED
  BY <1>2, <1>3, <1>4 DEF m, n, Watch!Retries, Watch!Calls, Watch!Results

LEMMA EventKinds ==
    ASSUME NEW e \in Watch!Events
    PROVE  /\ e.kind \in {"retry", "checkpoint", "tool_call", "result"}
           /\ e.flag \in BOOLEAN
           /\ e.kind \in {"tool_call", "result"} => e.sig \in Signatures
           /\ e.kind = "checkpoint" => e.flag
           /\ e = [kind |-> e.kind, sig |-> e.sig, flag |-> e.flag]
BY DEF Watch!Events

\* The values of policy_state.
Counts == [retries : Nat, tools : Nat, actions : Nat, results : Nat,
           action : Signatures \cup {NoValue}, result : Signatures \cup {NoValue}]

LEMMA CountsKeepTheirType ==
    ASSUME NEW c \in Counts, NEW a \in Signatures \cup {NoValue}, NEW k \in Nat, NEW m \in Nat
    PROVE  /\ [c EXCEPT !.tools = m, !.action = a, !.actions = k] \in Counts
           /\ [c EXCEPT !.result = a, !.results = k] \in Counts
BY Zenon DEF Counts

\* The counters keep counting the stream, whichever event comes next.
LEMMA StoredCounts ==
    ASSUME Watch!TypeOK, Watch!CountersTrue, NEW e \in Watch!Events, Watch!Stored(e)
    PROVE  /\ log' \in Seq(Watch!Events)
           /\ counters' \in Counts
           /\ Watch!CountersTrue'
<1> DEFINE l == log
           n == Len(log) + 1
           c == counters
<1>1. /\ l \in Seq(Watch!Events) /\ log' = Append(l, e) /\ counters' = Watch!Counted(c, e)
      /\ c \in Counts
  BY DEF Watch!TypeOK, Watch!Stored, Counts
<1>2. /\ log' \in Seq(Watch!Events) /\ log'[n] = e
      /\ \A i \in DOMAIN l : log'[i] = l[i] /\ i # n
  BY <1>1, OneMore
<1>3. /\ Watch!Retries(l) \subseteq DOMAIN l /\ Watch!Calls(l) \subseteq DOMAIN l
      /\ Watch!Results(l) \subseteq DOMAIN l
      /\ Watch!Retries(log') = IF e.kind = "retry" THEN Watch!Retries(l) \cup {n}
                               ELSE Watch!Retries(l)
      /\ Watch!Calls(log') = IF e.kind = "tool_call" /\ e.flag THEN Watch!Calls(l) \cup {n}
                             ELSE Watch!Calls(l)
      /\ Watch!Results(log') = IF e.kind \in {"result", "checkpoint"}
                               THEN Watch!Results(l) \cup {n} ELSE Watch!Results(l)
  BY <1>1, Joins
<1> DEFINE same == Watch!Streak(l, Watch!Calls(l))
           stuck == Watch!Streak(l, Watch!Results(l))
<1>4. same \subseteq Watch!Calls(l) /\ stuck \subseteq Watch!Results(l)
  BY DEF Watch!Streak
<1>5. /\ c.retries = Cardinality(Watch!Retries(l)) /\ c.tools = Cardinality(Watch!Calls(l))
      /\ c.actions = Cardinality(same) /\ \A i \in same : l[i].sig = c.action
      /\ c.results = Cardinality(Watch!Stuck(l)) /\ \A i \in Watch!Stuck(l) : l[i].sig = c.result
  BY WatchCardinality DEF Watch!CountersTrue
<1>6. /\ Watch!Streak(log', Watch!Calls(l)) = same /\ Watch!Streak(log', Watch!Results(l)) = stuck
      /\ Watch!Streak(log', Watch!Calls(l) \cup {n}) =
             IF \A i \in same : l[i] = e THEN same \cup {n} ELSE {n}
      /\ Watch!Streak(log', Watch!Results(l) \cup {n}) =
             IF \A i \in stuck : l[i] = e THEN stuck \cup {n} ELSE {n}
  <2>1. /\ Watch!Calls(l) \in SUBSET DOMAIN l /\ Watch!Results(l) \in SUBSET DOMAIN l
        /\ l \in Seq(Watch!Events) /\ e \in Watch!Events /\ log' = Append(l, e)
    BY <1>1, <1>3
  <2>2. /\ Watch!Streak(Append(l, e), Watch!Calls(l)) = same
        /\ Watch!Streak(Append(l, e), Watch!Results(l)) = stuck
    BY <2>1, StreakStays
  <2>3. Watch!Streak(Append(l, e), Watch!Calls(l) \cup {n}) =
             IF \A i \in same : l[i] = e THEN same \cup {n} ELSE {n}
    BY <2>1, StreakGrows
  <2>4. Watch!Streak(Append(l, e), Watch!Results(l) \cup {n}) =
             IF \A i \in stuck : l[i] = e THEN stuck \cup {n} ELSE {n}
    BY <2>1, StreakGrows
  <2> QED
    BY <2>1, <2>2, <2>3, <2>4
<1>7. ASSUME NEW P \in SUBSET DOMAIN l PROVE Cardinality(P \cup {n}) = Cardinality(P) + 1
  BY <1>1, OneMore
<1>8. /\ same \subseteq DOMAIN l /\ stuck \subseteq DOMAIN l
      /\ Watch!Stuck(l) = {i \in stuck : ~l[i].flag}
  BY <1>3, <1>4 DEF Watch!Stuck
<1>9. Cardinality({n}) = 1 /\ Cardinality({}) = 0
  BY One, FS_EmptySet
<1>10. \A i \in DOMAIN l : l[i] \in Watch!Events
  BY <1>1
<1> DEFINE Same == Watch!Streak(log', Watch!Calls(log'))
           Late == Watch!Stuck(log')
<1>11. SUFFICES
         /\ counters' \in Counts
         /\ counters'.retries = Cardinality(Watch!Retries(log'))
         /\ counters'.tools = Cardinality(Watch!Calls(log'))
         /\ counters'.actions = Cardinality(Same) /\ \A i \in Same : log'[i].sig = counters'.action
         /\ counters'.results = Cardinality(Late) /\ \A i \in Late : log'[i].sig = counters'.result
  BY <1>2, WatchCardinality DEF Watch!CountersTrue
<1>12. Late = {i \in Watch!Streak(log', Watch!Results(log')) : ~log'[i].flag}
  BY DEF Watch!Stuck
<1>13. ASSUME e.kind # "tool_call" \/ ~e.flag
       PROVE  Same = same /\ \A i \in Same : log'[i].sig = c.action
  BY <1>2, <1>3, <1>5, <1>6, <1>8, <1>13
<1>14. ASSUME e.kind \notin {"result", "checkpoint"}
       PROVE  Late = Watch!Stuck(l) /\ \A i \in Late : log'[i].sig = c.result
  BY <1>2, <1>3, <1>5, <1>6, <1>8, <1>12, <1>14
<1> HIDE DEF Same, Late, l, c, n, same, stuck
<1>15. CASE e.kind = "retry"
  <2>1. counters' = [c EXCEPT !.retries = @ + 1]
    BY <1>1, <1>15 DEF Watch!Counted
  <2>2. /\ counters'.retries = c.retries + 1 /\ counters'.tools = c.tools
        /\ counters'.actions = c.actions /\ counters'.results = c.results
        /\ counters'.action = c.action /\ counters'.result = c.result
        /\ counters' \in Counts
    BY <1>1, <2>1 DEF Counts
  <2>3. Watch!Retries(log') = Watch!Retries(l) \cup {n} /\ Watch!Calls(log') = Watch!Calls(l)
    BY <1>3, <1>15
  <2>4. Cardinality(Watch!Retries(log')) = Cardinality(Watch!Retries(l)) + 1
    BY <1>3, <1>7, <2>3
  <2>5. Same = same /\ Late = Watch!Stuck(l)
    BY <1>13, <1>14, <1>15
  <2> QED
    BY <1>5, <1>13, <1>14, <1>15, <2>2, <2>3, <2>4, <2>5
<1>16. CASE e.kind = "tool_call" /\ ~e.flag
  <2>1. counters' = c
    BY <1>1, <1>16 DEF Watch!Counted
  <2>2. Watch!Retries(log') = Watch!Retries(l) /\ Watch!Calls(log') = Watch!Calls(l)
    BY <1>3, <1>16
  <2>3. Same = same /\ Late = Watch!Stuck(l)
    BY <1>13, <1>14, <1>16
  <2> QED
    BY <1>1, <1>5, <1>13, <1>14, <1>16, <2>1, <2>2, <2>3
<1>17. CASE e.kind = "tool_call" /\ e.flag
  <2>1. counters' = [c EXCEPT !.tools = @ + 1, !.action = e.sig,
                              !.actions = IF c.action = e.sig THEN @ + 1 ELSE 1]
    BY <1>1, <1>17 DEF Watch!Counted, Watch!Called
  <2>2. Same = IF \A i \in same : l[i] = e THEN same \cup {n} ELSE {n}
    BY <1>3, <1>6, <1>17 DEF Same
  <2>3. e.sig \in Signatures
    BY <1>17, EventKinds
  <2>4. \A i \in same : l[i] = e <=> c.action = e.sig
    <3> SUFFICES ASSUME NEW i \in same PROVE l[i] = e <=> l[i].sig = e.sig
      BY <1>5
    <3>1. i \in Watch!Calls(l) /\ l[i] \in Watch!Events
      BY <1>4, <1>8, <1>10
    <3>2. l[i].kind = e.kind /\ l[i].flag = e.flag
      BY <1>17, <3>1, EventKinds DEF Watch!Calls
    <3> QED
      BY <3>1, <3>2, EventKinds
  <2>5. \A i \in Same : log'[i].sig = e.sig
    BY <1>2, <1>5, <1>8, <2>2, <2>4
  <2>6. same = {} => c.actions = 0
    BY <1>5, <1>9
  <2>7. Cardinality(Same) = IF c.action = e.sig THEN c.actions + 1 ELSE 1
    <3>1. CASE same = {}
      BY <1>9, <2>2, <2>6, <3>1
    <3>2. CASE same # {}
      BY <1>5, <1>7, <1>8, <1>9, <2>2, <2>4, <3>2
    <3> QED
      BY <3>1, <3>2
  <2>8. /\ counters'.retries = c.retries /\ counters'.tools = c.tools + 1
        /\ counters'.actions = (IF c.action = e.sig THEN c.actions + 1 ELSE 1)
        /\ counters'.results = c.results
        /\ counters'.action = e.sig /\ counters'.result = c.result
        /\ counters' \in Counts
    <3>1. counters'.retries = c.retries
      BY <1>1, <2>1, <2>3 DEF Counts
    <3>2. counters'.tools = c.tools + 1
      BY <1>1, <2>1, <2>3 DEF Counts
    <3>3. counters'.actions = (IF c.action = e.sig THEN c.actions + 1 ELSE 1)
      BY <1>1, <2>1, <2>3 DEF Counts
    <3>4. counters'.results = c.results
      BY <1>1, <2>1, <2>3 DEF Counts
    <3>5. counters'.action = e.sig
      BY <1>1, <2>1, <2>3 DEF Counts
    <3>6. counters'.result = c.result
      BY <1>1, <2>1, <2>3 DEF Counts
    <3>7. counters' \in Counts
      <4> DEFINE k == IF c.action = e.sig THEN c.actions + 1 ELSE 1
                 m == c.tools + 1
      <4>1. k \in Nat /\ m \in Nat
        BY <1>1 DEF Counts
      <4>2. counters' = [c EXCEPT !.tools = m, !.action = e.sig, !.actions = k]
        BY <1>1, <2>1 DEF Counts
      <4> HIDE DEF k, m
      <4>3. c \in Counts /\ e.sig \in Signatures \cup {NoValue}
        BY <1>1, <2>3
      <4> QED
        BY <4>1, <4>2, <4>3, CountsKeepTheirType
    <3> QED
      BY <3>1, <3>2, <3>3, <3>4, <3>5, <3>6, <3>7
  <2>9. Watch!Retries(log') = Watch!Retries(l) /\ Watch!Calls(log') = Watch!Calls(l) \cup {n}
    BY <1>3, <1>17
  <2>10. Cardinality(Watch!Calls(log')) = Cardinality(Watch!Calls(l)) + 1
    BY <1>3, <1>7, <2>9
  <2>11. Late = Watch!Stuck(l)
    BY <1>14, <1>17
  <2> QED
    BY <1>5, <1>14, <1>17, <2>5, <2>7, <2>8, <2>9, <2>10, <2>11
<1>18. CASE e.kind \in {"result", "checkpoint"} /\ e.flag
  <2>1. counters' = [c EXCEPT !.result = NoValue, !.results = 0]
    BY <1>1, <1>18 DEF Watch!Counted, Watch!Changed
  <2>2. Late = {}
    <3> SUFFICES ASSUME NEW i \in Watch!Streak(log', Watch!Results(log')) PROVE log'[i].flag
      BY <1>12
    <3>1. i = n \/ (i \in stuck /\ l[i] = e)
      BY <1>3, <1>6, <1>18
    <3> QED
      BY <1>2, <1>8, <1>18, <3>1
  <2>3. /\ counters'.retries = c.retries /\ counters'.tools = c.tools
        /\ counters'.actions = c.actions /\ counters'.results = 0
        /\ counters'.action = c.action
        /\ counters' \in Counts
    <3>1. counters'.retries = c.retries
      BY <1>1, <2>1 DEF Counts
    <3>2. counters'.tools = c.tools
      BY <1>1, <2>1 DEF Counts
    <3>3. counters'.actions = c.actions
      BY <1>1, <2>1 DEF Counts
    <3>4. counters'.results = 0
      BY <1>1, <2>1 DEF Counts
    <3>5. counters'.action = c.action
      BY <1>1, <2>1 DEF Counts
    <3>6. counters' \in Counts
      <4>1. c \in Counts /\ NoValue \in Signatures \cup {NoValue} /\ 0 \in Nat
        BY <1>1
      <4> QED
        BY <2>1, <4>1, CountsKeepTheirType
    <3> QED
      BY <3>1, <3>2, <3>3, <3>4, <3>5, <3>6
  <2>4. Watch!Retries(log') = Watch!Retries(l) /\ Watch!Calls(log') = Watch!Calls(l)
    BY <1>3, <1>18
  <2>5. Same = same
    BY <1>13, <1>18
  <2> QED
    BY <1>5, <1>9, <1>13, <1>18, <2>2, <2>3, <2>4, <2>5
<1>19. CASE e.kind = "result" /\ ~e.flag
  <2>1. counters' = [c EXCEPT !.result = e.sig,
                              !.results = IF c.result = e.sig THEN @ + 1 ELSE 1]
    BY <1>1, <1>19 DEF Watch!Counted, Watch!Resulted
  <2>2. e.sig \in Signatures
    BY <1>19, EventKinds
  <2>3. Late = IF \A i \in stuck : l[i] = e THEN stuck \cup {n} ELSE {n}
    <3>1. Watch!Streak(log', Watch!Results(log'))
             = IF \A i \in stuck : l[i] = e THEN stuck \cup {n} ELSE {n}
      BY <1>3, <1>6, <1>19
    <3> QED
      BY <1>2, <1>8, <1>12, <1>19, <3>1
  <2>4. ASSUME stuck # {}
        PROVE  (\A i \in stuck : l[i] = e) <=> (Watch!Stuck(l) # {} /\ c.result = e.sig)
    <3>1. \A i, j \in stuck : l[i] = l[j]
      <4> SUFFICES ASSUME NEW i \in stuck, NEW j \in stuck PROVE l[i] = l[j]
        OBVIOUS
      <4>1. i \in Nat /\ j \in Nat
        BY <1>1, <1>8, OneMore
      <4> QED
        BY <4>1, <1>4 DEF Watch!Streak, stuck
    <3>2. PICK i \in stuck : TRUE
      BY <2>4
    <3>3. l[i] \in Watch!Events /\ l[i].kind \in {"result", "checkpoint"}
      BY <1>4, <1>8, <1>10 DEF Watch!Results
    <3>4. (\A j \in stuck : l[j] = e) <=> l[i] = e
      BY <3>1
    <3>5. Watch!Stuck(l) # {} <=> ~l[i].flag
      BY <1>8, <3>1
    <3>6. ~l[i].flag => l[i].kind = "result" /\ l[i].sig = c.result
      BY <1>5, <1>8, <3>3, EventKinds
    <3>7. l[i] = e <=> (~l[i].flag /\ l[i].sig = e.sig)
      BY <1>19, <3>3, <3>6, EventKinds
    <3> QED
      BY <3>4, <3>5, <3>6, <3>7
  <2>5. \A i \in Late : log'[i].sig = e.sig
    BY <1>2, <1>8, <2>3
  <2>6. Cardinality(Late) = IF c.result = e.sig THEN c.results + 1 ELSE 1
    <3>1. CASE Watch!Stuck(l) = {}
      <4>1. c.results = 0
        BY <1>5, <1>9, <3>1
      <4>2. Late = {n}
        BY <2>3, <2>4, <3>1
      <4> QED
        BY <1>9, <4>1, <4>2
    <3>2. CASE Watch!Stuck(l) # {}
      <4>1. stuck # {}
        BY <1>8, <3>2
      <4>2. CASE c.result = e.sig
        <5>1. Late = stuck \cup {n} /\ \A i \in stuck : l[i] = e
          BY <2>3, <2>4, <3>2, <4>1, <4>2
        <5>2. Watch!Stuck(l) = stuck
          BY <1>8, <1>19, <5>1
        <5> QED
          BY <1>5, <1>7, <1>8, <4>2, <5>1, <5>2
      <4>3. CASE c.result # e.sig
        BY <1>9, <2>3, <2>4, <4>1, <4>3
      <4> QED
        BY <4>2, <4>3
    <3> QED
      BY <3>1, <3>2
  <2>7. /\ counters'.retries = c.retries /\ counters'.tools = c.tools
        /\ counters'.actions = c.actions /\ counters'.action = c.action
        /\ counters'.results = (IF c.result = e.sig THEN c.results + 1 ELSE 1)
        /\ counters'.result = e.sig
        /\ counters' \in Counts
    <3>1. counters'.retries = c.retries
      BY <1>1, <2>1, <2>2 DEF Counts
    <3>2. counters'.tools = c.tools
      BY <1>1, <2>1, <2>2 DEF Counts
    <3>3. counters'.actions = c.actions
      BY <1>1, <2>1, <2>2 DEF Counts
    <3>4. counters'.action = c.action
      BY <1>1, <2>1, <2>2 DEF Counts
    <3>5. counters'.results = (IF c.result = e.sig THEN c.results + 1 ELSE 1)
      BY <1>1, <2>1, <2>2 DEF Counts
    <3>6. counters'.result = e.sig
      BY <1>1, <2>1, <2>2 DEF Counts
    <3>7. counters' \in Counts
      <4> DEFINE k == IF c.result = e.sig THEN c.results + 1 ELSE 1
      <4>1. k \in Nat
        BY <1>1 DEF Counts
      <4>2. counters' = [c EXCEPT !.result = e.sig, !.results = k]
        BY <1>1, <2>1 DEF Counts
      <4> HIDE DEF k
      <4>3. c \in Counts /\ e.sig \in Signatures \cup {NoValue}
        BY <1>1, <2>2
      <4> QED
        BY <4>1, <4>2, <4>3, CountsKeepTheirType
    <3> QED
      BY <3>1, <3>2, <3>3, <3>4, <3>5, <3>6, <3>7
  <2>8. Watch!Retries(log') = Watch!Retries(l) /\ Watch!Calls(log') = Watch!Calls(l)
    BY <1>3, <1>19
  <2>9. Same = same
    BY <1>13, <1>19
  <2> QED
    BY <1>5, <1>13, <1>19, <2>5, <2>6, <2>7, <2>8, <2>9
<1> QED
  BY <1>15, <1>16, <1>17, <1>18, <1>19, EventKinds

\* A counter moves only at an event that has its limit looked at.
LEMMA LimitsMove ==
    ASSUME NEW c \in Counts, NEW e \in Watch!Events, NEW d, d = Watch!Counted(c, e)
    PROVE  /\ e.kind # "retry" => d.retries = c.retries
           /\ e.kind # "tool_call" \/ ~e.flag => d.tools = c.tools /\ d.actions = c.actions
           /\ e.kind # "result" \/ e.flag => d.results \in {0, c.results}
           /\ e.kind = "retry" => d.tools = c.tools /\ d.actions = c.actions /\ d.results = c.results
           /\ e.kind = "tool_call" => d.retries = c.retries /\ d.results = c.results
           /\ e.kind = "result" => d.retries = c.retries /\ d.tools = c.tools
                                     /\ d.actions = c.actions
<1>1. CASE e.kind = "retry"
  <2>1. d = [c EXCEPT !.retries = @ + 1]
    BY <1>1 DEF Watch!Counted
  <2>2. d.tools = c.tools
    BY <2>1 DEF Counts
  <2>3. d.actions = c.actions
    BY <2>1 DEF Counts
  <2>4. d.results = c.results
    BY <2>1 DEF Counts
  <2> QED
    BY <1>1, <2>2, <2>3, <2>4
<1>2. CASE e.kind = "tool_call"
  <2>1. d = c \/ (e.flag /\ d = Watch!Called(c, e))
    BY <1>2 DEF Watch!Counted
  <2>2. d.retries = c.retries
    BY <2>1 DEF Counts, Watch!Called
  <2>3. d.results = c.results
    BY <2>1 DEF Counts, Watch!Called
  <2> QED
    BY <1>2, <2>1, <2>2, <2>3
<1>3. CASE e.kind = "result" /\ ~e.flag
  <2>1. d = Watch!Resulted(c, e)
    BY <1>3 DEF Watch!Counted
  <2>2. d.retries = c.retries
    BY <2>1 DEF Counts, Watch!Resulted
  <2>3. d.tools = c.tools
    BY <2>1 DEF Counts, Watch!Resulted
  <2>4. d.actions = c.actions
    BY <2>1 DEF Counts, Watch!Resulted
  <2> QED
    BY <1>3, <2>2, <2>3, <2>4
<1>4. CASE e.kind \in {"result", "checkpoint"} /\ e.flag
  <2>1. d = [c EXCEPT !.result = NoValue, !.results = 0]
    BY <1>4 DEF Watch!Counted, Watch!Changed
  <2>2. d.retries = c.retries
    BY <2>1 DEF Counts
  <2>3. d.tools = c.tools
    BY <2>1 DEF Counts
  <2>4. d.actions = c.actions
    BY <2>1 DEF Counts
  <2>5. d.results = 0
    BY <2>1 DEF Counts
  <2> QED
    BY <1>4, <2>2, <2>3, <2>4, <2>5
<1> QED
  BY <1>1, <1>2, <1>3, <1>4, EventKinds

LEMMA WatchEvent ==
    ASSUME Watch!IndInv, NEW e \in Watch!Events, Watch!ObserveEvent(e)
    PROVE  Watch!IndInv'
<1>1. /\ Watch!TypeOK /\ Watch!CountersTrue /\ ~Watch!Exhausted /\ status = "RUNNING"
      /\ counters \in Counts
  BY DEF Watch!IndInv, Watch!ObserveEvent, Watch!TypeOK, Counts
<1>2. log' \in Seq(Watch!Events) /\ counters' \in Counts /\ Watch!CountersTrue'
  BY <1>1, StoredCounts DEF Watch!ObserveEvent
<1>3. counters' = Watch!Counted(counters, e)
  BY DEF Watch!ObserveEvent, Watch!Stored
<1>4. Watch!Exhausted' <=> Watch!Exceeded(counters', e)
  <2> DEFINE d == counters'
  <2>1. /\ e.kind # "retry" => d.retries = counters.retries
        /\ e.kind # "tool_call" \/ ~e.flag =>
             d.tools = counters.tools /\ d.actions = counters.actions
        /\ e.kind # "result" \/ e.flag => d.results \in {0, counters.results}
        /\ e.kind = "retry" => d.tools = counters.tools /\ d.actions = counters.actions
                                 /\ d.results = counters.results
        /\ e.kind = "tool_call" => d.retries = counters.retries /\ d.results = counters.results
        /\ e.kind = "result" => d.retries = counters.retries /\ d.tools = counters.tools
                                  /\ d.actions = counters.actions
    BY <1>1, <1>3, LimitsMove
  <2>2. /\ ~(counters.retries > MaxRetries) /\ ~(counters.tools > MaxTools)
        /\ ~(counters.actions >= Threshold) /\ ~(counters.results >= Threshold)
        /\ ~(0 >= Threshold)
    BY <1>1, WatchAssumption DEF Watch!Exhausted
  <2>3. Watch!Exhausted' <=> \/ d.retries > MaxRetries \/ d.tools > MaxTools
                             \/ d.actions >= Threshold \/ d.results >= Threshold
    BY DEF Watch!Exhausted
  <2>4. Watch!Exceeded(d, e) <=>
          \/ e.kind = "retry" /\ d.retries > MaxRetries
          \/ e.kind = "tool_call" /\ e.flag /\ (d.tools > MaxTools \/ d.actions >= Threshold)
          \/ e.kind = "result" /\ ~e.flag /\ d.results >= Threshold
    BY DEF Watch!Exceeded
  <2>5. CASE e.kind = "retry"
    BY <2>1, <2>2, <2>3, <2>4, <2>5
  <2>6. CASE e.kind = "tool_call"
    BY <2>1, <2>2, <2>3, <2>4, <2>6
  <2>7. CASE e.kind = "result"
    BY <2>1, <2>2, <2>3, <2>4, <2>7
  <2>8. CASE e.kind = "checkpoint"
    BY <2>1, <2>2, <2>3, <2>4, <2>8
  <2> QED
    BY <2>5, <2>6, <2>7, <2>8, EventKinds
<1>5. /\ status' \in {"RUNNING", "CANCELLED", "FAIL"}
      /\ status' # "RUNNING" <=> Watch!Exceeded(counters', e)
  BY <1>1 DEF Watch!ObserveEvent
<1>6. UNCHANGED <<tail, reported, reports, clock>>
  BY DEF Watch!ObserveEvent, Watch!Detector
<1>7. Watch!TypeOK'
  BY <1>1, <1>2, <1>5, <1>6 DEF Watch!TypeOK, Counts
<1>8. Watch!LoopsReported' /\ \A q \in reported' : \E x \in reports' : x.unit = q.unit
  BY <1>6 DEF Watch!IndInv, Watch!LoopsReported
<1> QED
  BY <1>2, <1>4, <1>5, <1>7, <1>8 DEF Watch!IndInv

(****************************** the loop detector **************************)

\* The unit that is found is the smallest one, if any repeats.
LEMMA SmallestUnit ==
    ASSUME NEW s, NEW k \in MinUnit..MaxUnit, Watch!Repeats(s, k, MinRepeats)
    PROVE  /\ Watch!Unit(s) \in MinUnit..k /\ Watch!Unit(s) \in MinUnit..MaxUnit
           /\ Watch!Repeats(s, Watch!Unit(s), MinRepeats)
<1> DEFINE K == {j \in MinUnit..MaxUnit : Watch!Repeats(s, j, MinRepeats)}
<1>1. k \in K /\ K \in SUBSET Nat
  <2>1. \A j \in MinUnit..MaxUnit : j \in Nat
    BY WatchAssumption
  <2> QED
    BY <2>1
<1>2. Watch!Unit(s) = CHOOSE j \in K : \A i \in K : j <= i
  BY <1>1 DEF Watch!Unit
<1>3. \E j \in K : \A i \in K : j <= i
  <2> HIDE DEF K
  <2> QED
    BY <1>1, LeastNumber
<1>4. Watch!Unit(s) \in K /\ \A i \in K : Watch!Unit(s) <= i
  <2> HIDE DEF K
  <2> QED
    BY <1>2, <1>3
<1> QED
  BY <1>1, <1>4

LEMMA SomeUnit ==
    ASSUME NEW s, Watch!Unit(s) > 0
    PROVE  \E k \in MinUnit..MaxUnit : Watch!Repeats(s, k, MinRepeats)
BY DEF Watch!Unit

\* A tail without words repeats nothing: a unit has words, and is seen more than once.
LEMMA NothingRepeats ==
    ASSUME NEW k \in MinUnit..MaxUnit
    PROVE  ~Watch!Repeats(<<>>, k, MinRepeats)
<1>1. k \in Nat \ {0} /\ MinRepeats \in Nat \ {0}
  BY WatchAssumption
<1>2. MinRepeats * k > 0
  BY <1>1
<1> QED
  BY <1>1, <1>2 DEF Watch!Repeats

LEMMA WatchOutput ==
    ASSUME Watch!IndInv, NEW w \in Words, Watch!ObserveOutput(w)
    PROVE  Watch!IndInv'
<1>1. /\ UNCHANGED <<status, counters, log, clock>> /\ Watch!Detect(w)
      /\ Watch!TypeOK /\ Watch!CountersTrue /\ (status # "RUNNING" <=> Watch!Exhausted)
      /\ Watch!LoopsReported /\ \A q \in reported : \E x \in reports : x.unit = q.unit
  BY DEF Watch!ObserveOutput, Watch!IndInv
<1>2. tail' \in Seq(Words)
  <2> DEFINE t == Append(tail, w)
  <2>1. t \in Seq(Words) /\ t # <<>>
    BY <1>1 DEF Watch!TypeOK
  <2>2. tail' = IF Len(t) > TailLength THEN Tail(t) ELSE t
    BY <1>1 DEF Watch!Detect
  <2> HIDE DEF t
  <2> QED
    BY <2>1, <2>2
<1> DEFINE k == Watch!Unit(tail')
           u == Watch!Last(tail', k)
           new == [unit |-> u, at |-> clock, tail |-> tail', n |-> written']
<1>3. ASSUME k > 0 /\ ~Watch!Exempt(u) /\ ~Watch!Recent(u)
      PROVE  Watch!LoopsReported' /\ \A q \in reported' : \E x \in reports' : x.unit = q.unit
  <2>1. /\ reported' = {x \in reported : x.unit # u} \cup {[unit |-> u, at |-> clock]}
        /\ reports' = reports \cup {new}
    BY <1>1, <1>3 DEF Watch!Detect
  <2>2. PICK j \in MinUnit..MaxUnit : Watch!Repeats(tail', j, MinRepeats)
    BY <1>3, SomeUnit
  <2>3. k \in MinUnit..MaxUnit /\ Watch!Repeats(tail', k, MinRepeats)
    BY <2>2, SmallestUnit
  <2>4. new.unit = u /\ new.tail = tail'
    OBVIOUS
  <2> HIDE DEF k, u, new
  <2>5. \A x \in reports' : \E i \in MinUnit..MaxUnit :
          Watch!Repeats(x.tail, i, MinRepeats) /\ x.unit = Watch!Last(x.tail, i)
            /\ ~Watch!Exempt(x.unit)
    <3>1. \E i \in MinUnit..MaxUnit :
            Watch!Repeats(new.tail, i, MinRepeats) /\ new.unit = Watch!Last(new.tail, i)
              /\ ~Watch!Exempt(new.unit)
      BY <1>3, <2>3, <2>4 DEF u
    <3> QED
      BY <1>1, <2>1, <3>1 DEF Watch!LoopsReported
  <2>6. ASSUME NEW i \in MinUnit..MaxUnit, Watch!Repeats(tail', i, MinRepeats)
        PROVE  \E m \in MinUnit..i : Watch!Repeats(tail', m, MinRepeats) /\
                 (Watch!Exempt(Watch!Last(tail', m))
                    \/ \E x \in reports' : x.unit = Watch!Last(tail', m))
    <3>1. k \in MinUnit..i
      BY <2>6, SmallestUnit DEF k
    <3>2. new \in reports' /\ new.unit = Watch!Last(tail', k)
      BY <2>1, <2>4 DEF u
    <3> QED
      BY <2>3, <3>1, <3>2
  <2>7. \A q \in reported' : \E x \in reports' : x.unit = q.unit
    BY <1>1, <2>1, <2>4
  <2> QED
    BY <2>5, <2>6, <2>7 DEF Watch!LoopsReported
<1>4. ASSUME ~(k > 0 /\ ~Watch!Exempt(u) /\ ~Watch!Recent(u))
      PROVE  Watch!LoopsReported' /\ \A q \in reported' : \E x \in reports' : x.unit = q.unit
  <2>1. UNCHANGED <<reported, reports>>
    BY <1>1, <1>4 DEF Watch!Detect
  <2>2. ASSUME NEW i \in MinUnit..MaxUnit, Watch!Repeats(tail', i, MinRepeats)
        PROVE  \E m \in MinUnit..i : Watch!Repeats(tail', m, MinRepeats) /\
                 (Watch!Exempt(Watch!Last(tail', m))
                    \/ \E x \in reports' : x.unit = Watch!Last(tail', m))
    <3>1. k \in MinUnit..i /\ Watch!Repeats(tail', k, MinRepeats)
      BY <2>2, SmallestUnit
    <3>2. Watch!Exempt(u) \/ Watch!Recent(u)
      <4>1. k > 0
        <5> HIDE DEF k
        <5> QED
          BY <3>1, WatchAssumption
      <4> QED
        BY <1>4, <4>1
    <3>3. Watch!Recent(u) => \E x \in reports' : x.unit = u
      BY <1>1, <2>1 DEF Watch!Recent
    <3> QED
      BY <3>1, <3>2, <3>3
  <2> QED
    BY <1>1, <2>1, <2>2 DEF Watch!LoopsReported
<1>5. Watch!TypeOK' /\ Watch!CountersTrue' /\ (status' # "RUNNING" <=> Watch!Exhausted')
  BY <1>1, <1>2 DEF Watch!TypeOK, Watch!CountersTrue, Watch!Exhausted
<1>6. Watch!LoopsReported' /\ \A q \in reported' : \E x \in reports' : x.unit = q.unit
  BY <1>3, <1>4
<1> QED
  BY <1>5, <1>6 DEF Watch!IndInv

LEMMA WatchInit ==
    ASSUME Watch!Init
    PROVE  Watch!IndInv
<1>1. /\ log = <<>> /\ tail = <<>> /\ reported = {} /\ reports = {} /\ clock = 0
      /\ counters = Watch!Zero /\ status = "RUNNING"
  BY DEF Watch!Init
<1>2. /\ counters.retries = 0 /\ counters.tools = 0 /\ counters.actions = 0
      /\ counters.results = 0 /\ counters \in Counts
  BY <1>1 DEF Watch!Zero, Counts
<1>3. Watch!TypeOK
  BY <1>1, <1>2 DEF Watch!TypeOK, Counts
<1>4. /\ Watch!Retries(log) = {} /\ Watch!Calls(log) = {} /\ Watch!Results(log) = {}
      /\ Watch!Streak(log, Watch!Calls(log)) = {} /\ Watch!Stuck(log) = {}
  BY <1>1 DEF Watch!Retries, Watch!Calls, Watch!Results, Watch!Streak, Watch!Stuck
<1>5. Watch!CountersTrue
  BY <1>2, <1>4, WatchCardinality, FS_EmptySet DEF Watch!CountersTrue
<1>6. ~Watch!Exhausted
  BY <1>2, WatchAssumption DEF Watch!Exhausted
<1>7. Watch!LoopsReported
  BY <1>1, NothingRepeats DEF Watch!LoopsReported
<1> QED
  BY <1>1, <1>3, <1>5, <1>6, <1>7 DEF Watch!IndInv

\* What the counters count is what the property asks of the stream.
LEMMA WatchHolds ==
    ASSUME Watch!IndInv
    PROVE  Watch!WatchAgrees
<1>1. Watch!Stuck(log) \subseteq Watch!Streak(log, Watch!Results(log))
  BY DEF Watch!Stuck
<1>2. Watch!StoppedForCause
  BY DEF Watch!IndInv, Watch!CountersTrue, Watch!Exhausted, Watch!StoppedForCause
<1> QED
  BY <1>2 DEF Watch!IndInv, Watch!WatchAgrees

\* WatchAgrees, for every profile, configuration and stream: the policy engine stops a
\* run exactly when its events call for it (evaluate_event keeps counters only, and
\* they survive a restart), and the loop detector reports what does repeat itself and
\* misses no loop (observe).
THEOREM WatchAgreesCorrect == Spec => []WatchAgrees
<1>1. Init => Watch!IndInv
  BY WatchInit DEF Init
<1>2. Watch!IndInv /\ [Next]_vars => Watch!IndInv'
  <2> SUFFICES ASSUME Watch!IndInv, [Next]_vars PROVE Watch!IndInv'
    OBVIOUS
  <2>1. CASE Watch!Next
    <3>1. ASSUME NEW e \in Watch!Events, Watch!ObserveEvent(e) PROVE Watch!IndInv'
      BY <3>1, WatchEvent
    <3>2. ASSUME NEW w \in Words, Watch!ObserveOutput(w) PROVE Watch!IndInv'
      BY <3>2, WatchOutput
    <3>3. CASE Watch!Pass
      <4>1. clock' \in Nat /\ UNCHANGED <<status, counters, log, tail, reported, reports>>
        BY <3>3 DEF Watch!Pass, Watch!Detector, Watch!IndInv, Watch!TypeOK
      <4> QED
        BY <4>1 DEF Watch!IndInv, Watch!TypeOK, Watch!CountersTrue, Watch!Exhausted,
                    Watch!LoopsReported
    <3>4. CASE Watch!Crash
      <4>1. /\ tail' = <<>> /\ reported' = {} /\ UNCHANGED <<status, counters, log, reports, clock>>
        BY <3>4 DEF Watch!Crash
      <4>2. tail' \in Seq(Words)
        BY <4>1
      <4>3. \A i \in MinUnit..MaxUnit : ~Watch!Repeats(tail', i, MinRepeats)
        BY <4>1, NothingRepeats
      <4>4. Watch!LoopsReported'
        BY <4>1, <4>3 DEF Watch!IndInv, Watch!LoopsReported
      <4>5. Watch!TypeOK' /\ Watch!CountersTrue' /\ (status' # "RUNNING" <=> Watch!Exhausted')
        BY <4>1, <4>2 DEF Watch!IndInv, Watch!TypeOK, Watch!CountersTrue, Watch!Exhausted
      <4> QED
        BY <4>1, <4>4, <4>5 DEF Watch!IndInv
    <3> QED
      BY <2>1, <3>1, <3>2, <3>3, <3>4 DEF Watch!Next
  <2>2. CASE UNCHANGED watch
    BY <2>2 DEF watch, Watch!IndInv, Watch!TypeOK, Watch!CountersTrue, Watch!Exhausted,
                Watch!LoopsReported
  <2> QED
    BY <2>1, <2>2 DEF Next, vars
<1>3. Watch!IndInv => WatchAgrees
  BY WatchHolds DEF WatchAgrees
<1> QED
  BY <1>1, <1>2, <1>3, PTL DEF Spec

(****************************** lists of agents ****************************)

LEMMA Appended ==
    ASSUME NEW S, NEW s \in Seq(S), NEW a \in S
    PROVE  Compiler!Elements(Append(s, a)) = Compiler!Elements(s) \cup {a}
BY OneMore DEF Compiler!Elements

\* What the deduplication has kept of the first n members of a list.
Keeping(f, s, n) ==
    f = [i \in 0..n |->
            IF i = 0 THEN <<>>
            ELSE IF s[i] \in Compiler!Elements(f[i - 1]) THEN f[i - 1]
            ELSE Append(f[i - 1], s[i])]

\* Its recursion defines something: there is no least length for which it does not.
LEMMA KeepingExists ==
    ASSUME NEW S, NEW s \in Seq(S)
    PROVE  \E f : Keeping(f, s, Len(s))
<1> DEFINE Bad == {n \in Nat : ~\E f : Keeping(f, s, n)}
<1>0. Len(s) \in Nat
  OBVIOUS
<1>1. SUFFICES ASSUME Bad # {} PROVE FALSE
  BY <1>0
<1>2. PICK n \in Bad : \A m \in Bad : n <= m
  <2>1. Bad \in SUBSET Nat
    OBVIOUS
  <2> HIDE DEF Bad
  <2> QED
    BY <1>1, <2>1, LeastNumber
<1>3. n \in Nat /\ ~\E f : Keeping(f, s, n)
  OBVIOUS
<1>4. n # 0
  <2>1. Keeping([i \in 0..0 |-> <<>>], s, 0)
    BY DEF Keeping
  <2> QED
    BY <1>3, <2>1
<1>5. n - 1 \in Nat /\ n - 1 \notin Bad
  <2>1. n - 1 \in Nat /\ ~(n <= n - 1)
    BY <1>3, <1>4
  <2> HIDE DEF Bad
  <2> QED
    BY <1>2, <2>1
<1>6. PICK g : Keeping(g, s, n - 1)
  BY <1>5
<1> DEFINE h == [i \in 0..n |->
                    IF i = n THEN (IF s[n] \in Compiler!Elements(g[n - 1]) THEN g[n - 1]
                                   ELSE Append(g[n - 1], s[n]))
                    ELSE g[i]]
<1>7. /\ \A i \in 0..n - 1 : h[i] = g[i]
      /\ h[n] = IF s[n] \in Compiler!Elements(g[n - 1]) THEN g[n - 1]
                ELSE Append(g[n - 1], s[n])
      /\ h = [i \in 0..n |-> h[i]]
  BY <1>3, <1>4
<1> HIDE DEF h, Bad
<1>8. ASSUME NEW i \in 0..n
      PROVE  h[i] = IF i = 0 THEN <<>>
                    ELSE IF s[i] \in Compiler!Elements(h[i - 1]) THEN h[i - 1]
                    ELSE Append(h[i - 1], s[i])
  <2>1. CASE i = n
    <3>1. h[n - 1] = g[n - 1]
      BY <1>3, <1>5, <1>7
    <3> QED
      BY <1>4, <1>7, <2>1, <3>1
  <2>2. CASE i # n
    <3>1. i \in 0..n - 1 /\ (i # 0 => i - 1 \in 0..n - 1)
      BY <1>3, <2>2
    <3>2. h[i] = g[i] /\ (i # 0 => h[i - 1] = g[i - 1])
      BY <1>7, <3>1
    <3>3. g[i] = IF i = 0 THEN <<>>
                 ELSE IF s[i] \in Compiler!Elements(g[i - 1]) THEN g[i - 1]
                 ELSE Append(g[i - 1], s[i])
      BY <1>6, <3>1 DEF Keeping
    <3> QED
      BY <3>2, <3>3
  <2> QED
    BY <2>1, <2>2
<1>9. Keeping(h, s, n)
  BY <1>7, <1>8 DEF Keeping
<1> QED
  BY <1>3, <1>9

Firsts(s, n) == {s[j] : j \in 1..n}

\* It keeps everybody, and nobody else.
LEMMA KeepingKeeps ==
    ASSUME NEW S, NEW s \in Seq(S), NEW f, Keeping(f, s, Len(s)), NEW k \in 0..Len(s)
    PROVE  f[k] \in Seq(S) /\ Compiler!Elements(f[k]) = Firsts(s, k)
<1> DEFINE Good(n) == f[n] \in Seq(S) /\ Compiler!Elements(f[n]) = Firsts(s, n)
           Bad == {n \in 0..Len(s) : ~Good(n)}
<1>0. SUFFICES Good(k)
  OBVIOUS
<1>1. SUFFICES ASSUME Bad # {} PROVE FALSE
  <2> HIDE DEF Good
  <2> QED
    OBVIOUS
<1>2. PICK n \in Bad : \A m \in Bad : n <= m
  <2>1. Bad \in SUBSET Nat
    OBVIOUS
  <2> HIDE DEF Bad
  <2> QED
    BY <1>1, <2>1, LeastNumber
<1>3. n \in 0..Len(s) /\ ~Good(n) /\ Len(s) \in Nat
  BY DEF Bad
<1>4. f[n] = IF n = 0 THEN <<>>
             ELSE IF s[n] \in Compiler!Elements(f[n - 1]) THEN f[n - 1]
             ELSE Append(f[n - 1], s[n])
  BY <1>3 DEF Keeping
<1>5. n # 0
  <2>1. <<>> \in Seq(S) /\ Compiler!Elements(<<>>) = {} /\ Firsts(s, 0) = {}
    BY DEF Compiler!Elements, Firsts
  <2> QED
    BY <1>3, <1>4, <2>1
<1>6. Good(n - 1)
  <2>1. n - 1 \in 0..Len(s) /\ ~(n <= n - 1)
    BY <1>3, <1>5
  <2>2. n - 1 \notin Bad
    <3> HIDE DEF Bad
    <3> QED
      BY <1>2, <2>1
  <2> HIDE DEF Good
  <2> QED
    BY <2>1, <2>2
<1>7. s[n] \in S /\ Firsts(s, n) = Firsts(s, n - 1) \cup {s[n]}
  BY <1>3, <1>5 DEF Firsts
<1>8. CASE s[n] \in Compiler!Elements(f[n - 1])
  <2>1. f[n] = f[n - 1]
    BY <1>4, <1>5, <1>8
  <2>2. Firsts(s, n) = Firsts(s, n - 1)
    BY <1>6, <1>7, <1>8
  <2> QED
    BY <1>3, <1>6, <2>1, <2>2
<1>9. CASE s[n] \notin Compiler!Elements(f[n - 1])
  <2>1. f[n] = Append(f[n - 1], s[n])
    BY <1>4, <1>5, <1>9
  <2>2. f[n] \in Seq(S)
    BY <1>6, <1>7, <2>1
  <2>3. Compiler!Elements(f[n]) = Compiler!Elements(f[n - 1]) \cup {s[n]}
    BY <1>6, <1>7, <2>1, Appended
  <2> QED
    BY <1>3, <1>6, <1>7, <2>2, <2>3
<1> QED
  BY <1>8, <1>9

LEMMA DedupedKeeps ==
    ASSUME NEW S, NEW s \in Seq(S)
    PROVE  /\ Compiler!Deduped(s) \in Seq(S)
           /\ Compiler!Elements(Compiler!Deduped(s)) = Compiler!Elements(s)
<1>1. \E f : Keeping(f, s, Len(s))
  BY KeepingExists
<1>2. PICK f : Keeping(f, s, Len(s)) /\ Compiler!Deduped(s) = f[Len(s)]
  BY <1>1 DEF Compiler!Deduped, Keeping
<1>3. Len(s) \in 0..Len(s) /\ Compiler!Elements(s) = Firsts(s, Len(s))
  BY DEF Compiler!Elements, Firsts
<1>4. f[Len(s)] \in Seq(S) /\ Compiler!Elements(f[Len(s)]) = Firsts(s, Len(s))
  BY <1>2, <1>3, KeepingKeeps
<1> QED
  BY <1>2, <1>3, <1>4

LEMMA Split ==
    ASSUME NEW S, NEW s \in Seq(S), s # <<>>
    PROVE  /\ Head(s) \in S /\ Tail(s) \in Seq(S)
           /\ Compiler!Elements(s) = {Head(s)} \cup Compiler!Elements(Tail(s))
<1>1. Len(s) \in Nat \ {0} /\ DOMAIN s = 1..Len(s) /\ Head(s) = s[1]
  OBVIOUS
<1>2. /\ Tail(s) \in Seq(S) /\ DOMAIN Tail(s) = 1..Len(s) - 1
      /\ \A i \in 1..Len(s) - 1 : Tail(s)[i] = s[i + 1]
  OBVIOUS
<1>3. \A i \in DOMAIN s : i = 1 \/ (i - 1 \in DOMAIN Tail(s) /\ s[i] = Tail(s)[i - 1])
  BY <1>1, <1>2
<1>4. \A i \in DOMAIN Tail(s) : i + 1 \in DOMAIN s /\ Tail(s)[i] = s[i + 1]
  BY <1>1, <1>2
<1>5. 1 \in DOMAIN s
  BY <1>1
<1>6. ASSUME NEW x \in Compiler!Elements(s)
      PROVE  x = Head(s) \/ x \in Compiler!Elements(Tail(s))
  <2>1. PICK i \in DOMAIN s : x = s[i]
    BY DEF Compiler!Elements
  <2> QED
    BY <1>1, <1>3, <2>1 DEF Compiler!Elements
<1>7. Head(s) \in Compiler!Elements(s)
  BY <1>1, <1>5 DEF Compiler!Elements
<1>8. Compiler!Elements(Tail(s)) \subseteq Compiler!Elements(s)
  BY <1>4 DEF Compiler!Elements
<1> QED
  BY <1>1, <1>2, <1>5, <1>6, <1>7, <1>8

LEMMA Pushed ==
    ASSUME NEW S, NEW s \in Seq(S), NEW x \in S
    PROVE  LET p == <<x>> \o s IN
           /\ p \in Seq(S) /\ DOMAIN p = 1..Len(s) + 1 /\ p[1] = x
           /\ \A i \in DOMAIN p : i = 1 \/ (i - 1 \in DOMAIN s /\ p[i] = s[i - 1])
           /\ \A i \in DOMAIN s : i \in Nat \ {0} /\ i + 1 \in DOMAIN p /\ p[i + 1] = s[i]
OBVIOUS

(***************************** the dependencies ****************************)

\* What a request can be, and what it means to be well formed.
LEMMA RequestIs ==
    ASSUME Compiler!TypeOK
    PROVE  /\ request.agents \in Seq(Agents) /\ Compiler!Ordered \in Seq(Agents)
           /\ Compiler!Units = Compiler!Elements(request.agents) /\ Compiler!Units \subseteq Agents
           /\ \A a \in DOMAIN request.depends : Compiler!Deps(a) \in Seq(Agents)
           /\ Compiler!WellFormed => \A a \in Compiler!Units :
                 Compiler!Deps(a) \in Seq(Agents) /\ Compiler!Needs(a) \subseteq Compiler!Units
<1>1. request.agents \in AgentLists
  BY DEF Compiler!TypeOK, Compiler!Requests
<1>2. request.agents \in Seq(Agents)
  BY <1>1, CompilerAssumption
<1>3. Compiler!Ordered \in Seq(Agents) /\ Compiler!Units = Compiler!Elements(request.agents)
  BY <1>2, DedupedKeeps DEF Compiler!Ordered, Compiler!Units
<1>4. Compiler!Units \subseteq Agents
  BY <1>2, <1>3 DEF Compiler!Elements
<1>5. ASSUME NEW a \in DOMAIN request.depends
      PROVE  Compiler!Deps(a) \in Seq(Agents)
  <2>1. request.depends \in UNION {[D -> Compiler!Lists(Agents, MaxDepends)] : D \in SUBSET Agents}
    BY DEF Compiler!TypeOK, Compiler!Requests
  <2>2. request.depends[a] \in Compiler!Lists(Agents, MaxDepends)
    BY <2>1
  <2>3. PICK k \in 0..MaxDepends : request.depends[a] \in [1..k -> Agents]
    BY <2>2 DEF Compiler!Lists
  <2>4. request.depends[a] \in Seq(Agents)
    BY <2>3, CompilerAssumption
  <2> QED
    BY <2>4, DedupedKeeps DEF Compiler!Deps
<1> QED
  BY <1>2, <1>3, <1>4, <1>5 DEF Compiler!WellFormed, Compiler!Needs

\* A request does not change, nor what follows from it.
LEMMA SameRequest ==
    ASSUME request' = request
    PROVE  /\ Compiler!Ordered' = Compiler!Ordered /\ Compiler!Units' = Compiler!Units
           /\ \A a : Compiler!Deps(a)' = Compiler!Deps(a) /\ Compiler!Needs(a)' = Compiler!Needs(a)
           /\ Compiler!WellFormed' = Compiler!WellFormed /\ Compiler!Cyclic' = Compiler!Cyclic
BY DEF Compiler!Ordered, Compiler!Units, Compiler!Deps, Compiler!Needs, Compiler!WellFormed,
       Compiler!Cyclic

LEMMA SamePath ==
    ASSUME Compiler!Path, Compiler!Grounded, UNCHANGED <<request, stack, visiting, visited>>
    PROVE  Compiler!Path' /\ Compiler!Grounded'
<1>1. Compiler!Grounded'
  BY DEF Compiler!Grounded, Compiler!Needs, Compiler!Deps
<1>2. Compiler!Path'
  BY DEF Compiler!Path, Compiler!Waiting, Compiler!Needs, Compiler!Deps
<1> QED
  BY <1>1, <1>2

LEMMA NextPath ==
    ASSUME request' = request, NEW st, stack' = st,
           visiting' = {st[i].node : i \in DOMAIN st}, visiting' \cap visited' = {},
           \A i, j \in DOMAIN st : st[i].node = st[j].node => i = j,
           \A i \in DOMAIN st :
              LET above == IF i = 1 THEN {} ELSE {st[i - 1].node} IN
              /\ Compiler!Elements(st[i].left) \cup above \subseteq Compiler!Needs(st[i].node)
              /\ Compiler!Needs(st[i].node)
                   \subseteq Compiler!Elements(st[i].left) \cup above \cup visited'
    PROVE  Compiler!Path'
BY DEF Compiler!Path, Compiler!Waiting, Compiler!Needs, Compiler!Deps

LEMMA CompilerInit ==
    ASSUME Compiler!Init
    PROVE  Compiler!IndInv
<1>1. /\ request \in Compiler!Requests /\ ids = <<>> /\ stack = <<>> /\ todo = <<>>
      /\ visiting = {} /\ visited = {} /\ outcome = [is |-> "compiling", units |-> <<>>]
  BY DEF Compiler!Init
<1>2. Compiler!TypeOK
  BY <1>1 DEF Compiler!TypeOK
<1>3. ids = [i \in 1..Len(ids) |-> i - 1]
  BY <1>1
<1>4. Compiler!Path /\ Compiler!Grounded /\ Compiler!Resolved /\ Compiler!CompilesDags
  BY <1>1 DEF Compiler!Path, Compiler!Waiting, Compiler!Grounded, Compiler!Resolved,
              Compiler!CompilesDags
<1> QED
  BY <1>2, <1>3, <1>4 DEF Compiler!IndInv

\* An error that is no cycle ends the compilation and leaves the rest alone.
LEMMA CompilerReject ==
    ASSUME Compiler!IndInv, NEW why \in {"DUPLICATE_EXECUTION_ID", "MALFORMED"},
           Compiler!Reject(why), request' = request
    PROVE  Compiler!IndInv'
<1>1. /\ UNCHANGED <<ids, stack, visiting, visited, todo>>
      /\ outcome' = [outcome EXCEPT !.is = why]
      /\ outcome = [is |-> outcome.is, units |-> outcome.units]
  BY DEF Compiler!Reject, Compiler!IndInv, Compiler!TypeOK
<1>2. outcome'.is = why /\ outcome' = [is |-> outcome'.is, units |-> outcome'.units]
  BY <1>1
<1>3. Compiler!TypeOK' /\ ids' = [i \in 1..Len(ids') |-> i - 1]
  BY <1>1, <1>2 DEF Compiler!IndInv, Compiler!TypeOK
<1>4. Compiler!Path' /\ Compiler!Grounded' /\ Compiler!Resolved'
  BY <1>1, SamePath, SameRequest DEF Compiler!IndInv, Compiler!Resolved
<1>5. Compiler!CompilesDags'
  BY <1>2 DEF Compiler!CompilesDags
<1> QED
  BY <1>3, <1>4, <1>5 DEF Compiler!IndInv

LEMMA CompilerNumber ==
    ASSUME Compiler!IndInv, Compiler!Number
    PROVE  Compiler!IndInv'
<1>1. CASE Compiler!Reject("DUPLICATE_EXECUTION_ID")
  BY <1>1, CompilerReject DEF Compiler!Number
<1>2. CASE ids' = Append(ids, Len(ids))
             /\ UNCHANGED <<request, stack, visiting, visited, todo, outcome>>
  <2>1. /\ ids \in Seq(Nat) /\ ids = [i \in 1..Len(ids) |-> i - 1]
        /\ Len(ids) < Len(Compiler!Ordered)
    BY DEF Compiler!IndInv, Compiler!TypeOK, Compiler!Number
  <2>2. ids' \in Seq(Nat) /\ Len(ids') = Len(ids) + 1
    BY <1>2, <2>1
  <2>3. ids' = [i \in 1..Len(ids') |-> i - 1]
    <3>1. \A i \in 1..Len(ids') : ids'[i] = i - 1
      BY <1>2, <2>1
    <3> QED
      BY <2>2, <3>1
  <2>4. Compiler!TypeOK'
    BY <1>2, <2>2 DEF Compiler!IndInv, Compiler!TypeOK
  <2>5. Compiler!Path' /\ Compiler!Grounded'
    BY <1>2, SamePath DEF Compiler!IndInv
  <2>6. Len(ids) # Len(Compiler!Ordered)
    <3>1. Compiler!Ordered \in Seq(Agents)
      BY RequestIs DEF Compiler!IndInv
    <3> QED
      BY <2>1, <3>1
  <2>7. Compiler!Resolved'
    BY <1>2, <2>6 DEF Compiler!IndInv, Compiler!Resolved
  <2>8. Compiler!CompilesDags'
    BY <1>2, SameRequest DEF Compiler!Number, Compiler!Compiling, Compiler!CompilesDags
  <2> QED
    BY <2>3, <2>4, <2>5, <2>7, <2>8 DEF Compiler!IndInv
<1> QED
  BY <1>1, <1>2 DEF Compiler!Number

LEMMA CompilerResolve ==
    ASSUME Compiler!IndInv, Compiler!Resolve
    PROVE  Compiler!IndInv'
<1>1. CASE Compiler!Reject("MALFORMED")
  BY <1>1, CompilerReject DEF Compiler!Resolve
<1>2. CASE ~Compiler!Reject("MALFORMED")
  <2>1. /\ Compiler!WellFormed /\ Len(ids) = Len(Compiler!Ordered)
        /\ todo' = Compiler!Ordered /\ stack = <<>> /\ visited = {} /\ outcome.is = "compiling"
        /\ UNCHANGED <<request, ids, stack, visiting, visited, outcome>>
    BY <1>2 DEF Compiler!Resolve, Compiler!Compiling
  <2>2. visiting = {}
    BY <2>1 DEF Compiler!IndInv, Compiler!Path, Compiler!Waiting
  <2>3. todo' \in Seq(Agents) /\ visited \cup visiting \cup Compiler!Elements(todo') = Compiler!Units
    BY <2>1, <2>2, RequestIs DEF Compiler!IndInv, Compiler!Units
  <2>4. Compiler!TypeOK'
    BY <2>1, <2>3 DEF Compiler!IndInv, Compiler!TypeOK
  <2>5. Compiler!Path' /\ Compiler!Grounded'
    BY <2>1, SamePath DEF Compiler!IndInv
  <2>6. Compiler!Resolved'
    BY <2>1, <2>3, SameRequest DEF Compiler!Resolved
  <2>7. Compiler!CompilesDags'
    BY <2>1 DEF Compiler!CompilesDags
  <2> QED
    BY <2>1, <2>4, <2>5, <2>6, <2>7 DEF Compiler!IndInv
<1> QED
  BY <1>1, <1>2

\* _visit(a): called with nothing on the stack, or by the node on its top that needs a.
LEMMA CompilerVisit ==
    ASSUME Compiler!IndInv, Compiler!Compiling, Compiler!WellFormed,
           Len(ids) = Len(Compiler!Ordered), UNCHANGED <<request, ids, visited>>,
           NEW a \in Compiler!Units, NEW rest \in Seq(Compiler!Frames), NEW left \in Seq(Agents),
           Compiler!Waiting(rest, {a}),
           visited \cup visiting \cup {a} \cup Compiler!Elements(left) = Compiler!Units,
           Compiler!Visit(a, rest, left)
    PROVE  Compiler!IndInv'
<1>1. /\ Compiler!TypeOK /\ ids = [i \in 1..Len(ids) |-> i - 1] /\ Compiler!Grounded
      /\ Compiler!Path /\ Compiler!Resolved /\ outcome.is = "compiling"
  BY DEF Compiler!IndInv, Compiler!Compiling
<1>2. /\ Compiler!Units' = Compiler!Units /\ Compiler!WellFormed' = Compiler!WellFormed
      /\ Compiler!Ordered' = Compiler!Ordered /\ Compiler!Cyclic' = Compiler!Cyclic
      /\ \A b : Compiler!Needs(b)' = Compiler!Needs(b)
  BY SameRequest
<1>3. Compiler!Grounded'
  BY <1>1, <1>2 DEF Compiler!Grounded
<1>4. /\ visiting = {rest[i].node : i \in DOMAIN rest}
      /\ \A i, j \in DOMAIN rest : rest[i].node = rest[j].node => i = j
      /\ visiting \cap visited = {}
  BY <1>1 DEF Compiler!Waiting, Compiler!Path
<1>5. \A i \in DOMAIN rest : i \in Nat \ {0} /\ (i # 1 => i - 1 \in DOMAIN rest)
  OBVIOUS
<1>6. /\ a \in Agents /\ Compiler!Deps(a) \in Seq(Agents)
      /\ Compiler!Needs(a) = Compiler!Elements(Compiler!Deps(a))
  BY <1>1, RequestIs DEF Compiler!Needs
<1>7. ids' = [i \in 1..Len(ids') |-> i - 1]
  BY <1>1
<1>8. CASE Compiler!Done(a)
  <2>1. a \in visited /\ stack' = rest /\ todo' = left /\ UNCHANGED <<visiting, outcome>>
    BY <1>8 DEF Compiler!Done, Compiler!Visit
  <2>2. Compiler!TypeOK'
    BY <1>1, <2>1 DEF Compiler!TypeOK
  <2>3. ASSUME NEW i \in DOMAIN rest
        PROVE  LET above == IF i = 1 THEN {} ELSE {rest[i - 1].node} IN
               /\ Compiler!Elements(rest[i].left) \cup above \subseteq Compiler!Needs(rest[i].node)
               /\ Compiler!Needs(rest[i].node)
                    \subseteq Compiler!Elements(rest[i].left) \cup above \cup visited
    <3>1. LET above == IF i = 1 THEN {a} ELSE {rest[i - 1].node} IN
          /\ Compiler!Elements(rest[i].left) \cup above \subseteq Compiler!Needs(rest[i].node)
          /\ Compiler!Needs(rest[i].node)
               \subseteq Compiler!Elements(rest[i].left) \cup above \cup visited
      BY DEF Compiler!Waiting
    <3> QED
      BY <2>1, <3>1
  <2>4. Compiler!Path'
    BY <1>4, <2>1, <2>3, NextPath
  <2>5. Compiler!Resolved'
    BY <1>2, <2>1 DEF Compiler!Resolved
  <2>6. Compiler!CompilesDags'
    BY <1>1, <2>1 DEF Compiler!CompilesDags
  <2> QED
    BY <1>3, <1>7, <2>2, <2>4, <2>5, <2>6 DEF Compiler!IndInv
<1>9. CASE ~Compiler!Done(a) /\ a \in visiting
  <2>1. /\ outcome' = [outcome EXCEPT !.is = "WORKFLOW_CYCLE"]
        /\ UNCHANGED <<stack, visiting, todo>>
    BY <1>9 DEF Compiler!Visit
  <2>2. /\ outcome'.is = "WORKFLOW_CYCLE"
        /\ outcome' = [is |-> outcome'.is, units |-> outcome'.units]
    BY <1>1, <2>1 DEF Compiler!TypeOK
  <2>3. ASSUME NEW b \in visiting
        PROVE  Compiler!Needs(b) \cap visiting # {}
    <3>1. PICK i \in DOMAIN rest : b = rest[i].node
      BY <1>4
    <3>2. IF i = 1 THEN a \in Compiler!Needs(b) ELSE rest[i - 1].node \in Compiler!Needs(b)
      BY <3>1 DEF Compiler!Waiting
    <3> QED
      BY <1>4, <1>5, <1>9, <3>2
  <2>4. visiting \in (SUBSET Compiler!Units) \ {{}}
    BY <1>9
  <2>5. Compiler!Cyclic
    BY <2>3, <2>4 DEF Compiler!Cyclic, Compiler!Needs
  <2>6. Compiler!CompilesDags'
    BY <1>2, <2>2, <2>5 DEF Compiler!CompilesDags
  <2>7. Compiler!TypeOK'
    BY <1>1, <2>1, <2>2 DEF Compiler!TypeOK
  <2>8. Compiler!Path' /\ Compiler!Resolved'
    BY <1>1, <1>2, <2>1, SamePath DEF Compiler!Resolved
  <2> QED
    BY <1>3, <1>7, <2>6, <2>7, <2>8 DEF Compiler!IndInv
<1>10. CASE ~Compiler!Done(a) /\ a \notin visiting
  <2> DEFINE top == [node |-> a, left |-> Compiler!Deps(a)]
             pushed == <<top>> \o rest
  <2>1. /\ stack' = pushed /\ visiting' = visiting \cup {a} /\ todo' = left
        /\ UNCHANGED outcome /\ a \notin visited
    BY <1>10 DEF Compiler!Visit, Compiler!Done
  <2>2. top \in Compiler!Frames /\ top.node = a /\ top.left = Compiler!Deps(a)
    BY <1>6 DEF Compiler!Frames
  <2>3. /\ pushed \in Seq(Compiler!Frames) /\ DOMAIN pushed = 1..Len(rest) + 1
        /\ pushed[1] = top
        /\ \A i \in DOMAIN pushed : i = 1 \/ (i - 1 \in DOMAIN rest /\ pushed[i] = rest[i - 1])
        /\ \A i \in DOMAIN rest : i + 1 \in DOMAIN pushed /\ pushed[i + 1] = rest[i]
    BY <2>2, Pushed
  <2>4. 1 \in DOMAIN pushed /\ \A i \in DOMAIN pushed : i \in Nat \ {0}
    BY <2>3
  <2> HIDE DEF top, pushed
  <2>5. Compiler!TypeOK'
    BY <1>1, <2>1, <2>3 DEF Compiler!TypeOK
  <2>6. visiting' = {pushed[i].node : i \in DOMAIN pushed}
    <3>1. \A i \in DOMAIN pushed : pushed[i].node \in visiting \cup {a}
      BY <1>4, <2>2, <2>3
    <3>2. \A b \in visiting : \E i \in DOMAIN pushed : pushed[i].node = b
      BY <1>4, <2>3
    <3>3. pushed[1].node = a /\ 1 \in DOMAIN pushed
      BY <2>2, <2>3, <2>4
    <3> QED
      BY <2>1, <3>1, <3>2, <3>3
  <2>7. ASSUME NEW i \in DOMAIN pushed, NEW j \in DOMAIN pushed, pushed[i].node = pushed[j].node
        PROVE  i = j
    <3>1. \A k \in DOMAIN rest : rest[k].node # a
      BY <1>4, <1>10
    <3>2. i = 1 <=> j = 1
      BY <2>2, <2>3, <2>7, <3>1
    <3>3. i # 1 => i - 1 = j - 1
      BY <1>4, <2>3, <2>7, <3>2
    <3> QED
      BY <2>4, <3>2, <3>3
  <2>8. ASSUME NEW i \in DOMAIN pushed
        PROVE  LET above == IF i = 1 THEN {} ELSE {pushed[i - 1].node} IN
               /\ Compiler!Elements(pushed[i].left) \cup above
                    \subseteq Compiler!Needs(pushed[i].node)
               /\ Compiler!Needs(pushed[i].node)
                    \subseteq Compiler!Elements(pushed[i].left) \cup above \cup visited
    <3>1. CASE i = 1
      BY <1>6, <2>2, <2>3, <3>1
    <3>2. CASE i # 1
      <4> DEFINE k == i - 1
      <4>1. k \in DOMAIN rest /\ pushed[i] = rest[k]
        BY <2>3, <3>2
      <4>2. LET above == IF k = 1 THEN {a} ELSE {rest[k - 1].node} IN
            /\ Compiler!Elements(rest[k].left) \cup above \subseteq Compiler!Needs(rest[k].node)
            /\ Compiler!Needs(rest[k].node)
                 \subseteq Compiler!Elements(rest[k].left) \cup above \cup visited
        BY <4>1 DEF Compiler!Waiting
      <4>3. pushed[k].node = IF k = 1 THEN a ELSE rest[k - 1].node
        <5>1. k = 1 => pushed[k] = top
          BY <2>3
        <5>2. k # 1 => k \in DOMAIN pushed
          BY <1>5, <2>3, <4>1
        <5> HIDE DEF k
        <5>3. k # 1 => pushed[k] = rest[k - 1]
          BY <2>3, <5>2
        <5> QED
          BY <2>2, <5>1, <5>3
      <4> HIDE DEF k
      <4>4. {pushed[k].node} = IF k = 1 THEN {a} ELSE {rest[k - 1].node}
        BY <4>3
      <4>5. /\ Compiler!Elements(pushed[i].left) \cup {pushed[k].node}
                 \subseteq Compiler!Needs(pushed[i].node)
            /\ Compiler!Needs(pushed[i].node)
                 \subseteq Compiler!Elements(pushed[i].left) \cup {pushed[k].node} \cup visited
        BY <4>1, <4>2, <4>4
      <4> QED
        BY <3>2, <4>5 DEF k
    <3> QED
      BY <3>1, <3>2
  <2>9. visiting' \cap visited' = {} /\ visited' = visited /\ stack' = pushed
    BY <1>4, <2>1
  <2>10. Compiler!Path'
    BY <2>6, <2>7, <2>8, <2>9, NextPath
  <2>11. Compiler!Resolved'
    BY <1>2, <2>1 DEF Compiler!Resolved
  <2>12. Compiler!CompilesDags'
    BY <1>1, <2>1 DEF Compiler!CompilesDags
  <2> QED
    BY <1>3, <1>7, <2>5, <2>10, <2>11, <2>12 DEF Compiler!IndInv
<1> QED
  BY <1>8, <1>9, <1>10

\* The outer loop takes the next unit.
LEMMA CompilerEnter ==
    ASSUME Compiler!IndInv, Compiler!Enter
    PROVE  Compiler!IndInv'
<1>1. /\ stack = <<>> /\ todo # <<>> /\ todo \in Seq(Agents) /\ Compiler!Compiling
      /\ Compiler!Visit(Head(todo), <<>>, Tail(todo)) /\ UNCHANGED <<request, ids, visited>>
  BY DEF Compiler!Enter, Compiler!IndInv, Compiler!TypeOK
<1>2. /\ Compiler!WellFormed /\ Len(ids) = Len(Compiler!Ordered)
      /\ visited \cup visiting \cup Compiler!Elements(todo) = Compiler!Units
  BY <1>1 DEF Compiler!IndInv, Compiler!Resolved
<1>3. /\ Tail(todo) \in Seq(Agents)
      /\ Compiler!Elements(todo) = {Head(todo)} \cup Compiler!Elements(Tail(todo))
  BY <1>1, Split
<1>4. visiting = {}
  BY <1>1 DEF Compiler!IndInv, Compiler!Path, Compiler!Waiting
<1>5. <<>> \in Seq(Compiler!Frames) /\ Compiler!Waiting(<<>>, {Head(todo)})
  BY <1>4 DEF Compiler!Waiting
<1>6. /\ Head(todo) \in Compiler!Units
      /\ visited \cup visiting \cup {Head(todo)} \cup Compiler!Elements(Tail(todo)) = Compiler!Units
  BY <1>2, <1>3
<1> QED
  BY <1>1, <1>2, <1>3, <1>5, <1>6, CompilerVisit

\* The node on the top takes its next dependency.
LEMMA CompilerDescend ==
    ASSUME Compiler!IndInv, Compiler!Descend
    PROVE  Compiler!IndInv'
<1> DEFINE top == Head(stack)
           left == top.left
           a == Head(left)
           frame == [top EXCEPT !.left = Tail(@)]
           rest == <<frame>> \o Tail(stack)
<1>1. /\ stack # <<>> /\ left # <<>> /\ Compiler!Compiling
      /\ Compiler!Visit(a, rest, todo) /\ UNCHANGED <<request, ids, visited>>
  BY DEF Compiler!Descend, Compiler!Top
<1>2. /\ stack \in Seq(Compiler!Frames) /\ todo \in Seq(Agents)
      /\ Compiler!Path /\ Compiler!TypeOK
  BY DEF Compiler!IndInv, Compiler!TypeOK
<1>3. /\ Compiler!WellFormed /\ Len(ids) = Len(Compiler!Ordered)
      /\ visited \cup visiting \cup Compiler!Elements(todo) = Compiler!Units
  BY <1>1 DEF Compiler!IndInv, Compiler!Resolved
<1>4. /\ Len(stack) \in Nat \ {0} /\ DOMAIN stack = 1..Len(stack) /\ top = stack[1]
      /\ top \in Compiler!Frames /\ Tail(stack) \in Seq(Compiler!Frames)
      /\ DOMAIN Tail(stack) = 1..Len(stack) - 1
      /\ \A i \in 1..Len(stack) - 1 : Tail(stack)[i] = stack[i + 1]
  BY <1>1, <1>2
<1>5. left \in Seq(Agents)
  BY <1>4 DEF Compiler!Frames
<1>6. /\ a \in Agents /\ Tail(left) \in Seq(Agents)
      /\ Compiler!Elements(left) = {a} \cup Compiler!Elements(Tail(left))
  <2> HIDE DEF left
  <2> QED
    BY <1>1, <1>5, Split
<1>7. frame \in Compiler!Frames /\ frame.node = top.node /\ frame.left = Tail(left)
  BY <1>4, <1>6 DEF Compiler!Frames
<1>8. rest \in Seq(Compiler!Frames) /\ DOMAIN rest = DOMAIN stack /\ rest[1] = frame
  <2> HIDE DEF frame, top
  <2> QED
    BY <1>4, <1>7, Pushed
<1>9. \A i \in DOMAIN stack : i # 1 => rest[i] = stack[i]
  <2> HIDE DEF frame, top
  <2>1. ASSUME NEW i \in DOMAIN stack, i # 1 PROVE rest[i] = stack[i]
    <3>1. i - 1 \in DOMAIN Tail(stack) /\ (i - 1) + 1 = i
      BY <1>4, <2>1
    <3>2. rest[(i - 1) + 1] = Tail(stack)[i - 1]
      BY <1>4, <1>7, <3>1, Pushed
    <3> QED
      BY <1>4, <3>1, <3>2
  <2> QED
    BY <2>1
<1>10. \A i \in DOMAIN stack : i \in Nat \ {0} /\ (i # 1 => i - 1 \in DOMAIN stack)
  BY <1>4
<1>11. 1 \in DOMAIN stack
  BY <1>4
<1> HIDE DEF rest, frame, top
<1>12. \A i \in DOMAIN stack : rest[i].node = stack[i].node
  BY <1>4, <1>7, <1>8, <1>9
<1>13. a \in Compiler!Units
  <2>1. top.node \in visiting
    BY <1>2, <1>4, <1>11 DEF Compiler!Path, Compiler!Waiting
  <2>2. Compiler!Elements(left) \subseteq Compiler!Needs(top.node)
    BY <1>2, <1>4, <1>11 DEF Compiler!Path, Compiler!Waiting
  <2>3. Compiler!Needs(top.node) \subseteq Compiler!Units
    BY <1>2, <1>3, <2>1, RequestIs
  <2> QED
    BY <1>6, <2>2, <2>3
<1>14. ASSUME NEW i \in DOMAIN rest
       PROVE  LET above == IF i = 1 THEN {a} ELSE {rest[i - 1].node} IN
              /\ Compiler!Elements(rest[i].left) \cup above \subseteq Compiler!Needs(rest[i].node)
              /\ Compiler!Needs(rest[i].node)
                   \subseteq Compiler!Elements(rest[i].left) \cup above \cup visited
  <2>1. LET above == IF i = 1 THEN {} ELSE {stack[i - 1].node} IN
        /\ Compiler!Elements(stack[i].left) \cup above \subseteq Compiler!Needs(stack[i].node)
        /\ Compiler!Needs(stack[i].node)
             \subseteq Compiler!Elements(stack[i].left) \cup above \cup visited
    BY <1>2, <1>8 DEF Compiler!Path, Compiler!Waiting
  <2>2. CASE i = 1
    BY <1>4, <1>6, <1>7, <1>8, <2>1, <2>2
  <2>3. CASE i # 1
    <3>1. rest[i - 1].node = stack[i - 1].node
      BY <1>8, <1>10, <1>12, <2>3
    <3> QED
      BY <1>8, <1>9, <2>1, <2>3, <3>1
  <2> QED
    BY <2>2, <2>3
<1>15. Compiler!Waiting(rest, {a})
  <2>1. visiting = {rest[i].node : i \in DOMAIN rest}
    <3>1. visiting = {stack[i].node : i \in DOMAIN stack}
      BY <1>2 DEF Compiler!Path, Compiler!Waiting
    <3> QED
      BY <1>8, <1>12, <3>1
  <2>2. \A i, j \in DOMAIN rest : rest[i].node = rest[j].node => i = j
    BY <1>2, <1>8, <1>12 DEF Compiler!Path, Compiler!Waiting
  <2> QED
    BY <1>14, <2>1, <2>2 DEF Compiler!Waiting
<1>16. visited \cup visiting \cup {a} \cup Compiler!Elements(todo) = Compiler!Units
  BY <1>3, <1>13
<1> HIDE DEF a
<1> QED
  BY <1>1, <1>2, <1>3, <1>8, <1>13, <1>15, <1>16, CompilerVisit

\* The node on the top has nothing left to wait for, and is visited.
LEMMA CompilerLeave ==
    ASSUME Compiler!IndInv, Compiler!Leave
    PROVE  Compiler!IndInv'
<1> DEFINE top == Head(stack)
           b == top.node
           rest == Tail(stack)
<1>1. /\ stack # <<>> /\ top.left = <<>> /\ outcome.is = "compiling"
      /\ visiting' = visiting \ {b} /\ visited' = visited \cup {b} /\ stack' = rest
      /\ UNCHANGED <<request, ids, todo, outcome>>
  BY DEF Compiler!Leave, Compiler!Top, Compiler!Compiling
<1>2. /\ Compiler!TypeOK /\ stack \in Seq(Compiler!Frames) /\ Compiler!Path /\ Compiler!Grounded
      /\ Compiler!Resolved /\ ids = [i \in 1..Len(ids) |-> i - 1]
  BY DEF Compiler!IndInv, Compiler!TypeOK
<1>3. /\ Len(stack) \in Nat \ {0} /\ DOMAIN stack = 1..Len(stack) /\ top = stack[1]
      /\ rest \in Seq(Compiler!Frames) /\ DOMAIN rest = 1..Len(stack) - 1
      /\ \A i \in DOMAIN rest : i \in Nat \ {0} /\ i + 1 \in DOMAIN stack
                                  /\ rest[i] = stack[i + 1]
  BY <1>1, <1>2
<1>4. /\ visiting = {stack[i].node : i \in DOMAIN stack} /\ visiting \cap visited = {}
      /\ \A i, j \in DOMAIN stack : stack[i].node = stack[j].node => i = j
  BY <1>2 DEF Compiler!Path, Compiler!Waiting
<1>5. /\ 1 \in DOMAIN stack /\ b = stack[1].node /\ b \in visiting
      /\ \A i \in DOMAIN stack : i = 1 \/ (i - 1 \in DOMAIN rest /\ (i - 1) + 1 = i)
  BY <1>3, <1>4
<1>6. Compiler!Needs(b) \subseteq visited
  <2>1. Compiler!Elements(<<>>) = {}
    BY DEF Compiler!Elements
  <2>2. Compiler!Needs(b) \subseteq Compiler!Elements(top.left) \cup {} \cup visited
    BY <1>2, <1>3, <1>5 DEF Compiler!Path, Compiler!Waiting
  <2> QED
    BY <1>1, <2>1, <2>2
<1> HIDE DEF top, b, rest
<1>7. b \notin visited /\ visited' = visited \cup {b}
  BY <1>1, <1>4, <1>5
<1>8. Compiler!Grounded'
  <2>1. \A a : Compiler!Needs(a)' = Compiler!Needs(a)
    BY <1>1, SameRequest
  <2>2. \A a \in visited' : Compiler!Needs(a) \subseteq visited'
    BY <1>2, <1>6, <1>7 DEF Compiler!Grounded
  <2>3. ASSUME NEW S \in (SUBSET visited') \ {{}}
        PROVE  \E a \in S : Compiler!Needs(a) \cap S = {}
    <3>1. CASE S \cap visited = {}
      <4>1. S = {b}
        BY <1>7, <3>1
      <4> QED
        BY <1>6, <1>7, <4>1
    <3>2. CASE S \cap visited # {}
      <4> DEFINE T == S \cap visited
      <4>1. T \in (SUBSET visited) \ {{}}
        BY <3>2
      <4>2. PICK a \in T : Compiler!Needs(a) \cap T = {}
        <5> HIDE DEF T
        <5> QED
          BY <1>2, <4>1 DEF Compiler!Grounded
      <4>3. Compiler!Needs(a) \subseteq visited
        BY <1>2 DEF Compiler!Grounded
      <4> QED
        BY <4>2, <4>3
    <3> QED
      BY <3>1, <3>2
  <2> QED
    BY <2>1, <2>2, <2>3 DEF Compiler!Grounded
<1>9. visiting' = {rest[i].node : i \in DOMAIN rest}
  <2>1. ASSUME NEW i \in DOMAIN rest PROVE rest[i].node \in visiting \ {b}
    <3>1. i + 1 \in DOMAIN stack /\ rest[i].node = stack[i + 1].node /\ i + 1 # 1
      BY <1>3
    <3> QED
      BY <1>4, <1>5, <3>1
  <2>2. ASSUME NEW a \in visiting \ {b} PROVE \E i \in DOMAIN rest : rest[i].node = a
    <3>1. PICK i \in DOMAIN stack : stack[i].node = a
      BY <1>4
    <3>2. i - 1 \in DOMAIN rest /\ (i - 1) + 1 = i
      BY <1>5, <3>1
    <3>3. rest[i - 1] = stack[i]
      BY <1>3, <3>2
    <3> QED
      BY <3>1, <3>2, <3>3
  <2> QED
    BY <1>1, <2>1, <2>2
<1>10. \A i, j \in DOMAIN rest : rest[i].node = rest[j].node => i = j
  <2> SUFFICES ASSUME NEW i \in DOMAIN rest, NEW j \in DOMAIN rest, rest[i].node = rest[j].node
               PROVE  i = j
    OBVIOUS
  <2>1. i + 1 = j + 1
    BY <1>3, <1>4
  <2> QED
    BY <1>3, <2>1
<1>11. ASSUME NEW i \in DOMAIN rest
       PROVE  LET above == IF i = 1 THEN {} ELSE {rest[i - 1].node} IN
              /\ Compiler!Elements(rest[i].left) \cup above \subseteq Compiler!Needs(rest[i].node)
              /\ Compiler!Needs(rest[i].node)
                   \subseteq Compiler!Elements(rest[i].left) \cup above \cup visited'
  <2> DEFINE k == i + 1
  <2>1. k \in DOMAIN stack /\ k # 1 /\ k - 1 = i /\ rest[i] = stack[k]
    BY <1>3
  <2>2. /\ Compiler!Elements(stack[k].left) \cup {stack[k - 1].node}
             \subseteq Compiler!Needs(stack[k].node)
        /\ Compiler!Needs(stack[k].node)
             \subseteq Compiler!Elements(stack[k].left) \cup {stack[k - 1].node} \cup visited
    <3> HIDE DEF k
    <3> QED
      BY <1>2, <2>1 DEF Compiler!Path, Compiler!Waiting
  <2>3. stack[i].node = IF i = 1 THEN b ELSE rest[i - 1].node
    <3>1. i # 1 => i - 1 \in DOMAIN rest /\ (i - 1) + 1 = i
      BY <1>3
    <3>2. i # 1 => rest[i - 1] = stack[i]
      BY <1>3, <3>1
    <3> QED
      BY <1>5, <3>2
  <2> HIDE DEF k
  <2>4. CASE i = 1
    BY <1>7, <2>1, <2>2, <2>3, <2>4
  <2>5. CASE i # 1
    BY <1>7, <2>1, <2>2, <2>3, <2>5
  <2> QED
    BY <2>4, <2>5
<1>12. visiting' \cap visited' = {} /\ request' = request /\ stack' = rest
  BY <1>1, <1>4, <1>7
<1>13. Compiler!Path'
  BY <1>9, <1>10, <1>11, <1>12, NextPath
<1>14. Compiler!TypeOK' /\ ids' = [i \in 1..Len(ids') |-> i - 1]
  BY <1>1, <1>2, <1>3 DEF Compiler!TypeOK
<1>15. Compiler!Resolved'
  <2>1. /\ Compiler!WellFormed /\ Len(ids) = Len(Compiler!Ordered)
        /\ visited \cup visiting \cup Compiler!Elements(todo) = Compiler!Units
    BY <1>1, <1>2 DEF Compiler!Resolved
  <2>2. visited' \cup visiting' \cup Compiler!Elements(todo') = Compiler!Units
    BY <1>1, <1>5, <1>7, <2>1
  <2> QED
    BY <1>1, <2>1, <2>2, SameRequest DEF Compiler!Resolved
<1>16. Compiler!CompilesDags'
  BY <1>1 DEF Compiler!CompilesDags
<1> QED
  BY <1>8, <1>13, <1>14, <1>15, <1>16 DEF Compiler!IndInv

\* The cardinality that the compiler's property speaks of is the one of this module.
LEMMA CompilerCardinality ==
    ASSUME NEW S
    PROVE  Compiler!Cardinality(S) = Cardinality(S)
BY DEF Compiler!Cardinality, Cardinality

\* All units are visited, so what they need is grounded.
LEMMA CompilerFinish ==
    ASSUME Compiler!IndInv, Compiler!Finish
    PROVE  Compiler!IndInv'
<1> DEFINE O == Compiler!Ordered
           unit(i) == [agent |-> O[i], id |-> ids[i],
                       depends |-> {ids[j] : j \in {k \in DOMAIN O :
                                       O[k] \in Compiler!Elements(Compiler!Deps(O[i]))}}]
           U == [i \in DOMAIN O |-> unit(i)]
<1>1. /\ stack = <<>> /\ todo = <<>> /\ visited # {}
      /\ outcome' = [is |-> "compiled", units |-> U]
      /\ UNCHANGED <<request, ids, stack, visiting, visited, todo>>
  BY DEF Compiler!Finish
<1>2. /\ Compiler!TypeOK /\ Compiler!Path /\ Compiler!Grounded /\ Compiler!Resolved
      /\ ids = [i \in 1..Len(ids) |-> i - 1] /\ ids \in Seq(Nat)
  BY DEF Compiler!IndInv, Compiler!TypeOK
<1>3. /\ O \in Seq(Agents) /\ Compiler!Elements(O) = Compiler!Elements(request.agents)
      /\ Compiler!Elements(O) = Compiler!Units
  BY <1>2, RequestIs DEF Compiler!Units
<1>4. /\ Len(O) \in Nat /\ DOMAIN O = 1..Len(O) /\ Len(ids) = Len(O)
  BY <1>1, <1>2, <1>3 DEF Compiler!Resolved
<1>5. Compiler!Units \subseteq visited
  <2>1. visiting = {} /\ Compiler!Elements(todo) = {}
    BY <1>1, <1>2 DEF Compiler!Path, Compiler!Waiting, Compiler!Elements
  <2> QED
    BY <1>1, <1>2, <2>1 DEF Compiler!Resolved
<1>6. DOMAIN U = DOMAIN O /\ Len(U) = Len(O)
  <2>1. DOMAIN U = DOMAIN O
    OBVIOUS
  <2> HIDE DEF U, O
  <2> QED
    BY <1>4, <2>1
<1>7. \A i \in DOMAIN O : /\ U[i].agent = O[i] /\ U[i].id = i - 1
                          /\ U[i].depends = {j - 1 : j \in {k \in DOMAIN O :
                                                O[k] \in Compiler!Needs(O[i])}}
  BY <1>2, <1>4 DEF Compiler!Needs
<1> HIDE DEF U, O
<1>8. {U[i].agent : i \in DOMAIN U} = Compiler!Elements(request.agents)
  BY <1>3, <1>6, <1>7 DEF Compiler!Elements
<1>9. Cardinality({U[i].id : i \in DOMAIN U}) = Len(U)
  <2>1. {U[i].id : i \in DOMAIN U} = 0..Len(O) - 1
    <3>1. \A i \in DOMAIN U : U[i].id \in 0..Len(O) - 1
      BY <1>4, <1>6, <1>7
    <3>2. ASSUME NEW k \in 0..Len(O) - 1 PROVE \E i \in DOMAIN U : U[i].id = k
      <4>1. k + 1 \in DOMAIN U /\ (k + 1) - 1 = k
        BY <1>4, <1>6
      <4> QED
        BY <1>6, <1>7, <4>1
    <3> QED
      BY <3>1, <3>2
  <2> DEFINE m == Len(O) - 1
  <2>2. Cardinality(0..m) = IF 0 > m THEN 0 ELSE m - 0 + 1
    <3>1. 0 \in Int /\ m \in Int
      BY <1>4
    <3> HIDE DEF m
    <3> QED
      BY <3>1, FS_Interval
  <2>3. Cardinality(0..m) = Len(O)
    BY <1>4, <2>2
  <2> QED
    BY <1>6, <2>1, <2>3
<1>10. ASSUME NEW S \in (SUBSET DOMAIN U) \ {{}}
       PROVE  \E i \in S : U[i].depends \cap {U[j].id : j \in S} = {}
  <2> DEFINE A == {O[i] : i \in S}
  <2>1. A \in (SUBSET visited) \ {{}}
    <3>1. PICK i \in S : TRUE
      BY <1>10
    <3>2. O[i] \in A
      BY <3>1
    <3>3. A \subseteq Compiler!Elements(O)
      BY <1>6 DEF Compiler!Elements
    <3> QED
      BY <1>3, <1>5, <3>2, <3>3
  <2>2. PICK a \in A : Compiler!Needs(a) \cap A = {}
    <3> HIDE DEF A
    <3> QED
      BY <1>2, <2>1 DEF Compiler!Grounded
  <2>3. PICK i \in S : a = O[i]
    BY <2>2
  <2>4. ASSUME NEW j \in S, U[j].id \in U[i].depends PROVE FALSE
    <3>1. i \in DOMAIN O /\ j \in DOMAIN O
      BY <1>6
    <3>2. PICK k \in DOMAIN O : O[k] \in Compiler!Needs(O[i]) /\ k - 1 = j - 1
      BY <1>7, <2>4, <3>1
    <3>3. k = j
      BY <1>4, <3>1, <3>2
    <3> QED
      BY <2>2, <2>3, <3>2, <3>3
  <2> QED
    BY <2>3, <2>4
<1>11. /\ outcome'.is = "compiled" /\ outcome'.units = U
       /\ outcome' = [is |-> outcome'.is, units |-> outcome'.units]
  BY <1>1
<1>12. Compiler!Runnable(U)
  BY <1>10 DEF Compiler!Runnable
<1>13. Compiler!CompilesDags'
  <2>1. Compiler!Cardinality({U[i].id : i \in DOMAIN U}) = Len(U)
    BY <1>9, CompilerCardinality
  <2>2. Compiler!Runnable(outcome'.units)
    BY <1>11, <1>12
  <2> QED
    BY <1>1, <1>8, <1>11, <2>1, <2>2 DEF Compiler!CompilesDags
<1>14. Compiler!TypeOK' /\ ids' = [i \in 1..Len(ids') |-> i - 1]
  BY <1>1, <1>2, <1>11 DEF Compiler!TypeOK
<1>15. Compiler!Path' /\ Compiler!Grounded'
  BY <1>1, <1>2, SamePath
<1>16. Compiler!Resolved'
  BY <1>1, <1>2, SameRequest DEF Compiler!Resolved
<1> QED
  BY <1>13, <1>14, <1>15, <1>16 DEF Compiler!IndInv

\* CompilesDags, for every list of agents and every workflow: compile_task_intent lets
\* through a graph of distinct units that can be run in some order, one unit for each
\* agent, and its depth-first visit calls a cycle only what is one.
THEOREM CompilesDagsCorrect == Spec => []CompilesDags
<1>1. Init => Compiler!IndInv
  BY CompilerInit DEF Init
<1>2. Compiler!IndInv /\ [Next]_vars => Compiler!IndInv'
  <2> SUFFICES ASSUME Compiler!IndInv, [Next]_vars PROVE Compiler!IndInv'
    OBVIOUS
  <2>1. CASE Compiler!Next
    BY <2>1, CompilerNumber, CompilerResolve, CompilerEnter, CompilerDescend, CompilerLeave,
       CompilerFinish
    DEF Compiler!Next
  <2>2. CASE UNCHANGED compiler
    <3>1. UNCHANGED <<request, ids, stack, visiting, visited, todo, outcome>>
      BY <2>2 DEF compiler
    <3>2. Compiler!TypeOK' /\ ids' = [i \in 1..Len(ids') |-> i - 1]
      BY <3>1 DEF Compiler!IndInv, Compiler!TypeOK
    <3>3. Compiler!Path' /\ Compiler!Grounded'
      BY <3>1, SamePath DEF Compiler!IndInv
    <3>4. Compiler!Resolved'
      BY <3>1, SameRequest DEF Compiler!IndInv, Compiler!Resolved
    <3>5. Compiler!CompilesDags'
      BY <3>1, SameRequest DEF Compiler!IndInv, Compiler!CompilesDags
    <3> QED
      BY <3>2, <3>3, <3>4, <3>5 DEF Compiler!IndInv
  <2> QED
    BY <2>1, <2>2 DEF Next, vars
<1>3. Compiler!IndInv => CompilesDags
  BY DEF Compiler!IndInv, CompilesDags
<1> QED
  BY <1>1, <1>2, <1>3, PTL DEF Spec
====================================================================================
