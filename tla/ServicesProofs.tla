------------------------------ MODULE ServicesProofs ------------------------------
(***************************************************************************)
(* Theorems about the components of MCServices, for every value of the     *)
(* constants.  A component that is not the part a behaviour is about       *)
(* stands still, so its invariant holds in the other parts too.            *)
(***************************************************************************)
EXTENDS MCServices, FiniteSetTheorems, TLAPS

\* AuthBroker counts with the same operator as this module.
LEMMA AuthCardinality ==
    ASSUME NEW S
    PROVE  Auth!Cardinality(S) = Cardinality(S)
BY DEF Auth!Cardinality, Cardinality

(************************** authorization: types ***************************)

LEMMA AuthInit ==
    ASSUME Auth!Init
    PROVE  Auth!IndInv
<1>1. Auth!TypeOK
  <2>1. Auth!NoGrant \in Auth!GrantRows
    BY DEF Auth!NoGrant, Auth!GrantRows
  <2>2. 0 \in Nat /\ checked \in 0..now /\ presented \in 0..now /\ War \subseteq War
    BY DEF Auth!Init
  <2> QED
    BY <2>1, <2>2 DEF Auth!Init, Auth!TypeOK, Auth!Phases
<1>2. Auth!Admitted = {}
  BY DEF Auth!Init, Auth!Admitted
<1>3. Auth!Counted
  <2>1. Auth!Admitted \cap War = {}
    BY <1>2
  <2> QED
    BY <2>1, FS_EmptySet, AuthCardinality, AuthAssumption DEF Auth!Counted, Auth!Init
<1>4. Auth!Held
  BY <1>2 DEF Auth!Held
<1>5. Auth!StillAdmissible
  BY DEF Auth!Init, Auth!StillAdmissible, Auth!HoldsWar
<1>6. Auth!GrantsSound
  BY AuthAssumption DEF Auth!Init, Auth!GrantsSound, Auth!NoGrant
<1> QED
  BY <1>1, <1>3, <1>4, <1>5, <1>6 DEF Auth!IndInv

LEMMA AuthTypeStep ==
    ASSUME Auth!TypeOK, Auth!StillAdmissible, Auth!Next
    PROVE  Auth!TypeOK'
<1> USE DEF Auth!TypeOK, Auth!Phases, Auth!readings
<1>1. ASSUME NEW r \in Auth!Runs, Auth!Dispatch(r) PROVE Auth!TypeOK'
  BY <1>1, AuthAssumption DEF Auth!Dispatch, Auth!Runs
<1>2. ASSUME NEW r \in Direct, Auth!Register(r) PROVE Auth!TypeOK'
  BY <1>2, AuthAssumption DEF Auth!Register
<1>3. ASSUME NEW r \in Bearer, Auth!IssueBearer(r) PROVE Auth!TypeOK'
  <2>1. Auth!NewGrant(r, Ttl) \in Auth!GrantRows
    BY AuthAssumption DEF Auth!NewGrant, Auth!GrantRows, Auth!Scope, Auth!Runs
  <2> QED
    BY <1>3, <2>1 DEF Auth!IssueBearer
<1>4. ASSUME NEW g \in Grants, Auth!RevokeGrant(g) PROVE Auth!TypeOK'
  <2>1. grant' = [grant EXCEPT ![g].revoked = TRUE] /\ grant[g] \in Auth!GrantRows
    BY <1>4 DEF Auth!RevokeGrant
  <2>2. grant' \in [Grants -> Auth!GrantRows]
    BY <2>1 DEF Auth!GrantRows
  <2> QED
    BY <1>4, <2>2 DEF Auth!RevokeGrant
<1>5. ASSUME NEW r \in War, Auth!LoseLease(r) PROVE Auth!TypeOK'
  BY <1>5 DEF Auth!LoseLease
<1>6. CASE Auth!AuthorizeDirect
  BY <1>6 DEF Auth!AuthorizeDirect, Auth!Block
<1>7. CASE Auth!AuthorizeWar
  BY <1>7 DEF Auth!AuthorizeWar, Auth!Block
<1>8. CASE Auth!IssueGrant
  <2>1. CASE Auth!Block /\ UNCHANGED grant
    BY <1>8, <2>1 DEF Auth!IssueGrant, Auth!Block
  <2>2. CASE /\ Auth!Insert(who, Auth!Lifetime(who)) /\ phase' = "present"
             /\ UNCHANGED <<record, who, checked, presented>>
    <3>1. who \in Auth!Runs
      BY <1>8 DEF Auth!IssueGrant
    <3>2. Auth!Lifetime(who) \in Nat
      BY <1>8, AuthAssumption
      DEF Auth!Lifetime, Auth!Left, Auth!StillAdmissible, Auth!HoldsWar, Auth!IssueGrant
    <3>3. Auth!NewGrant(who, Auth!Lifetime(who)) \in Auth!GrantRows
      BY <3>1, <3>2 DEF Auth!NewGrant, Auth!GrantRows, Auth!Scope
    <3>4. PICK g \in Grants : grant' = [grant EXCEPT ![g] = Auth!NewGrant(who, Auth!Lifetime(who))]
                              /\ token' = g
      BY <2>2 DEF Auth!Insert, Auth!Fresh
    <3> QED
      BY <1>8, <2>2, <3>1, <3>3, <3>4 DEF Auth!IssueGrant
  <2> QED
    BY <1>8, <2>1, <2>2 DEF Auth!IssueGrant, Auth!readings
<1>9. CASE Auth!Consume
  BY <1>9 DEF Auth!Consume, Auth!Block, Auth!GrantRows
<1>10. CASE Auth!Count
  BY <1>10 DEF Auth!Count, Auth!Block
<1>11. CASE Auth!Submit
  BY <1>11 DEF Auth!Submit
<1>12. CASE Auth!RevokeApproval \/ Auth!StopOrResume
  BY <1>12 DEF Auth!RevokeApproval, Auth!StopOrResume
<1>13. CASE Auth!Tick
  BY <1>13 DEF Auth!Tick
<1>14. CASE Auth!Crash
  BY <1>14 DEF Auth!Crash
<1>15. CASE Auth!Present
  BY <1>15 DEF Auth!Present
<1> QED
  BY <1>1, <1>2, <1>3, <1>4, <1>5, <1>6, <1>7, <1>8, <1>9, <1>10, <1>11, <1>12, <1>13, <1>14,
     <1>15
  DEF Auth!Next

(********************** authorization: the invariant ***********************)

\* Who has been admitted depends on the records and on the submission under way.
LEMMA AdmittedSame ==
    ASSUME Auth!TypeOK, UNCHANGED record, phase # "submit", phase' # "submit"
    PROVE  Auth!Admitted' = Auth!Admitted
BY DEF Auth!Admitted, Auth!Runs

\* A run that becomes QUEUED or BLOCKED was not RUNNING.
LEMMA AdmittedAfter ==
    ASSUME Auth!TypeOK, NEW r \in Auth!Runs, NEW s \in {"QUEUED", "BLOCKED"},
           record[r] # "RUNNING", record' = [record EXCEPT ![r] = s],
           phase # "submit", phase' # "submit"
    PROVE  Auth!Admitted' = Auth!Admitted
<1>1. \A q \in Auth!Runs : record'[q] = "RUNNING" <=> record[q] = "RUNNING"
  BY DEF Auth!TypeOK
<1> QED
  BY <1>1 DEF Auth!Admitted, Auth!Runs

LEMMA BlockAdmits ==
    ASSUME Auth!TypeOK, Auth!Block, phase \in {"authorize", "issue", "present", "consume", "count"}
    PROVE  Auth!Admitted' = Auth!Admitted
BY AdmittedAfter DEF Auth!TypeOK, Auth!Block

\* The counts survive a step that admits nobody and counts no call.
LEMMA CountedSame ==
    ASSUME Auth!Counted, Auth!Admitted' = Auth!Admitted, UNCHANGED calls
    PROVE  Auth!Counted'
BY DEF Auth!Counted

\* So does a worker's grant when grants are only issued, used or revoked before use.
LEMMA HeldSame ==
    ASSUME Auth!Held, Auth!Admitted' \subseteq Auth!Admitted,
           \A g \in Grants : grant[g].by # NoOne =>
               grant'[g].by = grant[g].by /\ grant'[g].revoked = grant[g].revoked,
           Auth!TypeOK
    PROVE  Auth!Held'
<1> SUFFICES ASSUME NEW r \in Auth!Admitted
             PROVE  \E g \in Grants : grant'[g].by = r /\ ~grant'[g].revoked
  BY DEF Auth!Held
<1>1. PICK g \in Grants : grant[g].by = r /\ ~grant[g].revoked
  BY DEF Auth!Held
<1>2. r # NoOne
  BY AuthAssumption DEF Auth!Admitted, Auth!Runs
<1> QED
  BY <1>1, <1>2

LEMMA CountedStep ==
    ASSUME Auth!IndInv, Auth!Next
    PROVE  Auth!Counted'
<1> USE DEF Auth!IndInv
<1>1. ASSUME NEW r \in Auth!Runs, Auth!Dispatch(r) PROVE Auth!Counted'
  BY <1>1, AdmittedAfter, CountedSame DEF Auth!Dispatch, Auth!Open
<1>2. CASE phase # "submit" /\ phase' # "submit" /\ UNCHANGED <<record, calls>>
  BY <1>2, AdmittedSame, CountedSame
<1>3. CASE phase = "submit" /\ UNCHANGED <<record, phase, who, calls>>
  BY <1>3, CountedSame DEF Auth!Admitted, Auth!Runs
<1>4. CASE Auth!Block /\ phase \in {"authorize", "issue", "consume", "count"} /\ UNCHANGED calls
  BY <1>4, BlockAdmits, CountedSame
<1>5. CASE Auth!Consume
  <2>1. CASE phase' = "submit" /\ who \notin War /\ UNCHANGED <<record, who, calls>>
    <3>1. Auth!Admitted' \cap War = Auth!Admitted \cap War
      BY <1>5, <2>1 DEF Auth!Admitted, Auth!Consume, Auth!Runs
    <3> QED
      BY <2>1, <3>1 DEF Auth!Counted
  <2> QED
    BY <1>2, <1>4, <1>5, <2>1 DEF Auth!Consume
<1>6. CASE Auth!Count
  <2>1. CASE calls' = calls + 1 /\ phase' = "submit" /\ UNCHANGED <<record, who, token>>
    <3>1. who \in Auth!Runs /\ record[who] # "RUNNING"
      BY <1>6 DEF Auth!Count, Auth!TypeOK
    <3>2. Auth!Admitted' = Auth!Admitted \cup {who}
      BY <1>6, <2>1, <3>1 DEF Auth!Admitted, Auth!Count, Auth!Runs
    <3>3. IsFiniteSet(Auth!Admitted \cap War)
      BY FS_Subset, AuthAssumption
    <3>4. Cardinality((Auth!Admitted \cap War) \cup {who}) <= Cardinality(Auth!Admitted \cap War) + 1
          /\ Cardinality(Auth!Admitted \cap War) \in Nat
      <4>1. Cardinality(Auth!Admitted \cap War) \in Nat
        BY <3>3, FS_CardinalityType
      <4>2. Cardinality((Auth!Admitted \cap War) \cup {who}) =
              IF who \in Auth!Admitted \cap War THEN Cardinality(Auth!Admitted \cap War)
                                              ELSE Cardinality(Auth!Admitted \cap War) + 1
        BY <3>3, FS_AddElement
      <4> QED
        BY <4>1, <4>2
    <3>5. IsFiniteSet(Auth!Admitted' \cap War)
      BY FS_Subset, AuthAssumption
    <3>6. Auth!Admitted' \cap War \subseteq (Auth!Admitted \cap War) \cup {who}
      BY <3>2
    <3>7. Cardinality(Auth!Admitted' \cap War) <= Cardinality((Auth!Admitted \cap War) \cup {who})
          /\ Cardinality(Auth!Admitted' \cap War) \in Nat
          /\ Cardinality((Auth!Admitted \cap War) \cup {who}) \in Nat
      BY <3>3, <3>5, <3>6, FS_AddElement, FS_Subset, FS_CardinalityType
    <3>8. calls < CallLimit \/ who \notin War
      BY <1>6 DEF Auth!Count, Auth!StillAdmissible, Auth!HoldsWar
    <3>9. who \in War
      BY <1>6 DEF Auth!Count, Auth!GrantsSound
    <3> QED
      BY <2>1, <3>4, <3>7, <3>8, <3>9, AuthCardinality, AuthAssumption
      DEF Auth!Counted, Auth!TypeOK
  <2> QED
    BY <1>4, <1>6, <2>1 DEF Auth!Count
<1>7. CASE Auth!Submit
  <2>1. Auth!Admitted' = Auth!Admitted
    BY <1>7 DEF Auth!Submit, Auth!Admitted, Auth!TypeOK, Auth!Runs
  <2> QED
    BY <1>7, <2>1, CountedSame DEF Auth!Submit
<1>8. CASE Auth!Crash
  <2>1. Auth!Admitted' \subseteq Auth!Admitted
    BY <1>8 DEF Auth!Crash, Auth!Admitted, Auth!Runs
  <2>2. Cardinality(Auth!Admitted' \cap War) <= Cardinality(Auth!Admitted \cap War)
        /\ Cardinality(Auth!Admitted \cap War) \in Nat
        /\ Cardinality(Auth!Admitted' \cap War) \in Nat
    BY <2>1, FS_Subset, FS_CardinalityType, AuthAssumption
  <2> QED
    BY <1>8, <2>2, AuthCardinality, AuthAssumption DEF Auth!Crash, Auth!Counted, Auth!TypeOK
<1>9. CASE Auth!AuthorizeDirect \/ Auth!AuthorizeWar \/ Auth!IssueGrant \/ Auth!Present
  BY <1>2, <1>4, <1>9
  DEF Auth!AuthorizeDirect, Auth!AuthorizeWar, Auth!IssueGrant, Auth!Present
<1>10. CASE UNCHANGED <<record, phase, who, calls>>
  BY <1>2, <1>3, <1>10
<1> QED
  BY <1>1, <1>5, <1>6, <1>7, <1>8, <1>9, <1>10
  DEF Auth!Next, Auth!Register, Auth!IssueBearer, Auth!RevokeGrant, Auth!LoseLease,
      Auth!RevokeApproval, Auth!StopOrResume, Auth!Tick

LEMMA HeldStep ==
    ASSUME Auth!IndInv, Auth!Next
    PROVE  Auth!Held'
<1> USE DEF Auth!IndInv
<1>1. ASSUME NEW r \in Auth!Runs, Auth!Dispatch(r) PROVE Auth!Held'
  BY <1>1, AdmittedAfter, HeldSame DEF Auth!Dispatch, Auth!Open
<1>2. CASE phase # "submit" /\ phase' # "submit" /\ UNCHANGED <<record, grant>>
  BY <1>2, AdmittedSame, HeldSame
<1>3. CASE phase = "submit" /\ UNCHANGED <<record, phase, who, grant>>
  BY <1>3, HeldSame DEF Auth!Admitted, Auth!Runs
<1>4. CASE Auth!Block /\ phase \in {"authorize", "issue", "consume", "count"} /\ UNCHANGED grant
  BY <1>4, BlockAdmits, HeldSame
<1>5. ASSUME NEW g \in Auth!Fresh, NEW x, grant' = [grant EXCEPT ![g] = x],
             UNCHANGED <<record, who>>, phase' = "submit" => phase = "submit"
      PROVE  Auth!Held'
  <2>1. \A h \in Grants : grant[h].by # NoOne => h # g
    BY <1>5 DEF Auth!Fresh, Auth!GrantsSound
  <2>2. \A h \in Grants : grant[h].by # NoOne => grant'[h] = grant[h]
    BY <1>5, <2>1 DEF Auth!TypeOK
  <2>3. Auth!Admitted' \subseteq Auth!Admitted
    BY <1>5 DEF Auth!Admitted, Auth!Runs
  <2> QED
    BY <2>2, <2>3, HeldSame
<1>6. ASSUME NEW r \in Bearer, Auth!IssueBearer(r) PROVE Auth!Held'
  <2>1. (CHOOSE x \in Auth!Fresh : TRUE) \in Auth!Fresh
    BY <1>6 DEF Auth!IssueBearer
  <2> QED
    BY <1>5, <1>6, <2>1 DEF Auth!IssueBearer
<1>7. CASE Auth!IssueGrant
  <2>1. CASE Auth!Insert(who, Auth!Lifetime(who)) /\ phase' = "present" /\ UNCHANGED <<record, who>>
    <3>1. (CHOOSE x \in Auth!Fresh : TRUE) \in Auth!Fresh
      BY <2>1 DEF Auth!Insert
    <3> QED
      BY <1>5, <2>1, <3>1 DEF Auth!Insert
  <2> QED
    BY <1>4, <1>7, <2>1 DEF Auth!IssueGrant
<1>8. CASE Auth!Consume
  <2>1. CASE /\ Auth!Consumable(token, who) /\ grant' = [grant EXCEPT ![token].by = who]
             /\ phase' \in {"count", "submit"} /\ UNCHANGED <<record, who, token>>
    <3>1. token \in Grants /\ who \in Auth!Runs /\ record[who] # "RUNNING"
      BY <1>8 DEF Auth!Consume, Auth!TypeOK
    <3>2. /\ grant'[token].by = who /\ ~grant'[token].revoked
          /\ \A g \in Grants : g # token => grant'[g] = grant[g]
      BY <2>1, <3>1 DEF Auth!Consumable, Auth!TypeOK, Auth!GrantRows
    <3>3. \A g \in Grants : grant[g].by # NoOne => grant'[g] = grant[g]
      BY <2>1, <3>2 DEF Auth!Consumable
    <3>4. Auth!Admitted' \subseteq Auth!Admitted \cup {who}
      BY <1>8, <2>1, <3>1 DEF Auth!Admitted, Auth!Runs
    <3> SUFFICES ASSUME NEW r \in Auth!Admitted'
                 PROVE  \E g \in Grants : grant'[g].by = r /\ ~grant'[g].revoked
      BY DEF Auth!Held
    <3>5. CASE r = who
      BY <3>1, <3>2, <3>5
    <3>6. CASE r # who
      <4>1. PICK g \in Grants : grant[g].by = r /\ ~grant[g].revoked
        BY <3>4, <3>6 DEF Auth!Held
      <4>2. r # NoOne
        BY <3>4, <3>6, AuthAssumption DEF Auth!Admitted, Auth!Runs
      <4> QED
        BY <3>3, <4>1, <4>2
    <3> QED
      BY <3>5, <3>6
  <2> QED
    BY <1>4, <1>8, <2>1 DEF Auth!Consume
<1>9. CASE Auth!Count
  <2>1. CASE calls' = calls + 1 /\ phase' = "submit" /\ UNCHANGED <<record, who, token>>
    <3>1. Auth!Admitted' \subseteq Auth!Admitted \cup {who}
      BY <2>1 DEF Auth!Admitted, Auth!Runs
    <3>2. token \in Grants /\ grant[token].by = who /\ ~grant[token].revoked
      BY <1>9 DEF Auth!Count, Auth!GrantsSound, Auth!TypeOK
    <3> QED
      BY <1>9, <3>1, <3>2 DEF Auth!Count, Auth!Held
  <2> QED
    BY <1>4, <1>9, <2>1 DEF Auth!Count
<1>10. CASE Auth!Submit
  <2>1. Auth!Admitted' = Auth!Admitted
    BY <1>10 DEF Auth!Submit, Auth!Admitted, Auth!TypeOK, Auth!Runs
  <2> QED
    BY <1>10, <2>1, HeldSame DEF Auth!Submit
<1>11. CASE Auth!Crash
  <2>1. Auth!Admitted' \subseteq Auth!Admitted
    BY <1>11 DEF Auth!Crash, Auth!Admitted, Auth!Runs
  <2> QED
    BY <1>11, <2>1, HeldSame DEF Auth!Crash
<1>12. ASSUME NEW g \in Grants, Auth!RevokeGrant(g) PROVE Auth!Held'
  <2>1. \A h \in Grants : grant[h].by # NoOne => grant'[h] = grant[h]
    BY <1>12 DEF Auth!RevokeGrant, Auth!TypeOK
  <2>2. Auth!Admitted' = Auth!Admitted
    BY <1>12 DEF Auth!RevokeGrant, Auth!Admitted, Auth!Runs
  <2> QED
    BY <2>1, <2>2, HeldSame
<1>13. CASE Auth!AuthorizeDirect \/ Auth!AuthorizeWar \/ Auth!Present
  BY <1>2, <1>4, <1>13 DEF Auth!AuthorizeDirect, Auth!AuthorizeWar, Auth!Present
<1>14. CASE UNCHANGED <<record, phase, who, grant>>
  BY <1>2, <1>3, <1>14
<1> QED
  BY <1>1, <1>6, <1>7, <1>8, <1>9, <1>10, <1>11, <1>12, <1>13, <1>14
  DEF Auth!Next, Auth!Register, Auth!LoseLease, Auth!RevokeApproval, Auth!StopOrResume, Auth!Tick

\* The lock keeps stop, revocation and lease where AuthorizeWar has found them, and the
\* authorizer keeps its reading of the clock.
LEMMA AdmissibleStep ==
    ASSUME Auth!IndInv, Auth!Next
    PROVE  Auth!StillAdmissible'
<1> USE DEF Auth!IndInv, Auth!StillAdmissible, Auth!HoldsWar
<1>1. CASE \/ \E r \in Auth!Runs : Auth!Dispatch(r)
           \/ Auth!AuthorizeDirect \/ Auth!Count \/ Auth!Submit \/ Auth!Crash
  BY <1>1, AuthAssumption
  DEF Auth!Dispatch, Auth!AuthorizeDirect, Auth!Count, Auth!Submit, Auth!Crash, Auth!Block
<1>2. CASE Auth!AuthorizeWar
  BY <1>2 DEF Auth!AuthorizeWar, Auth!Admissible, Auth!Block
<1>3. CASE Auth!IssueGrant \/ Auth!Present \/ Auth!Consume
  BY <1>3 DEF Auth!IssueGrant, Auth!Present, Auth!Consume, Auth!Block, Auth!readings
<1>4. CASE \/ \E r \in War : Auth!LoseLease(r)
           \/ Auth!RevokeApproval \/ Auth!StopOrResume
  BY <1>4 DEF Auth!LoseLease, Auth!RevokeApproval, Auth!StopOrResume, Auth!readings
<1>5. CASE UNCHANGED <<phase, who, checked, leased, approved, stopped, calls>>
  BY <1>5
<1> QED
  BY <1>1, <1>2, <1>3, <1>4, <1>5
  DEF Auth!Next, Auth!Register, Auth!IssueBearer, Auth!RevokeGrant, Auth!Tick, Auth!readings

\* Nothing is used before it is issued, and no grant outlives what it was issued for.
LEMMA GrantsStep ==
    ASSUME Auth!IndInv, Auth!Next
    PROVE  Auth!GrantsSound'
<1> USE DEF Auth!IndInv, Auth!GrantsSound, Auth!Issued, Auth!Left, Auth!readings
<1>1. CASE \/ \E r \in Auth!Runs : Auth!Dispatch(r)
           \/ Auth!AuthorizeDirect \/ Auth!AuthorizeWar \/ Auth!Count \/ Auth!Submit \/ Auth!Crash
  BY <1>1, AuthAssumption
  DEF Auth!Dispatch, Auth!AuthorizeDirect, Auth!AuthorizeWar, Auth!Count, Auth!Submit,
      Auth!Crash, Auth!Block
<1>2. ASSUME NEW g \in Auth!Fresh, NEW r \in Auth!Runs, NEW ttl \in 0..Ttl,
             grant' = [grant EXCEPT ![g] = Auth!NewGrant(r, ttl)],
             \/ phase = "idle" /\ phase' = "idle"
             \/ phase' = "present" /\ token' = g /\ who' = r /\ UNCHANGED checked
                /\ (r \in War => ttl <= Auth!Left)
      PROVE  Auth!GrantsSound'
  <2>1. Auth!NewGrant(r, ttl) = [for |-> r, issued |-> now, expires |-> now + 2 * ttl,
                                 revoked |-> FALSE, by |-> NoOne]
    BY DEF Auth!NewGrant, Auth!Scope
  <2>2. \A h \in Grants : grant'[h] = IF h = g THEN Auth!NewGrant(r, ttl) ELSE grant[h]
    BY <1>2 DEF Auth!TypeOK, Auth!Fresh
  <2>3. g \in Grants /\ now \in Nat /\ Ttl \in Nat /\ checked \in 0..now /\ Until \in Nat
    BY AuthAssumption DEF Auth!TypeOK, Auth!Fresh
  <2> QED
    BY <1>2, <2>1, <2>2, <2>3
<1>3. ASSUME NEW r \in Bearer, Auth!IssueBearer(r) PROVE Auth!GrantsSound'
  <2>1. (CHOOSE x \in Auth!Fresh : TRUE) \in Auth!Fresh
    BY <1>3 DEF Auth!IssueBearer
  <2>2. Ttl \in 0..Ttl /\ r \in Auth!Runs
    BY AuthAssumption DEF Auth!Runs
  <2> QED
    BY <1>2, <1>3, <2>1, <2>2 DEF Auth!IssueBearer
<1>4. CASE Auth!IssueGrant
  <2>1. CASE /\ Auth!Insert(who, Auth!Lifetime(who)) /\ phase' = "present"
             /\ UNCHANGED <<record, who, checked, presented>>
    <3>1. (CHOOSE x \in Auth!Fresh : TRUE) \in Auth!Fresh
      BY <2>1 DEF Auth!Insert
    <3>2. who \in Auth!Runs /\ now \in Nat
      BY <1>4 DEF Auth!IssueGrant, Auth!TypeOK
    <3>3. who \in War => Auth!Left \in Nat
      BY <1>4, <3>2, AuthAssumption
      DEF Auth!StillAdmissible, Auth!HoldsWar, Auth!IssueGrant, Auth!TypeOK
    <3>4. Auth!Lifetime(who) \in 0..Ttl /\ (who \in War => Auth!Lifetime(who) <= Auth!Left)
      BY <3>3, AuthAssumption DEF Auth!Lifetime
    <3> QED
      BY <1>2, <2>1, <3>1, <3>2, <3>4 DEF Auth!Insert
  <2> QED
    BY <1>4, <2>1 DEF Auth!IssueGrant, Auth!Block
<1>5. CASE Auth!Consume
  <2>1. CASE /\ Auth!Consumable(token, who) /\ grant' = [grant EXCEPT ![token].by = who]
             /\ phase' = IF who \in War THEN "count" ELSE "submit"
             /\ UNCHANGED <<record, who, token>>
    <3>1. token \in Grants /\ who \in Auth!Runs
      BY <1>5 DEF Auth!Consume, Auth!TypeOK
    <3>2. /\ grant'[token].by = who /\ ~grant'[token].revoked /\ grant'[token].for = who
          /\ grant'[token].expires = grant[token].expires /\ grant[token].for = who
          /\ grant'[token].issued = grant[token].issued
      BY <2>1, <3>1 DEF Auth!Consumable, Auth!TypeOK, Auth!GrantRows, Auth!Scope
    <3>3. \A h \in Grants : h # token => grant'[h] = grant[h]
      BY <2>1, <3>1 DEF Auth!TypeOK
    <3>4. who # NoOne
      BY <3>1, AuthAssumption DEF Auth!Runs
    <3> QED
      BY <2>1, <3>1, <3>2, <3>3, <3>4
  <2> QED
    BY <1>5, <2>1 DEF Auth!Consume, Auth!Block
<1>6. ASSUME NEW g \in Grants, Auth!RevokeGrant(g) PROVE Auth!GrantsSound'
  <2>1. /\ grant'[g].by = NoOne /\ grant'[g].for = grant[g].for
        /\ grant'[g].expires = grant[g].expires /\ grant'[g].issued = grant[g].issued
    BY <1>6 DEF Auth!RevokeGrant, Auth!TypeOK, Auth!GrantRows
  <2>2. \A h \in Grants : h # g => grant'[h] = grant[h]
    BY <1>6 DEF Auth!RevokeGrant, Auth!TypeOK
  <2>3. phase \in {"count", "submit"} => token # g
    BY <1>6, AuthAssumption DEF Auth!RevokeGrant, Auth!TypeOK, Auth!Runs
  <2> QED
    BY <1>6, <2>1, <2>2, <2>3 DEF Auth!RevokeGrant, Auth!TypeOK
<1>7. CASE UNCHANGED <<phase, who, token, checked, grant>>
  BY <1>7
<1>8. CASE Auth!Present
  BY <1>8 DEF Auth!Present
<1> QED
  BY <1>1, <1>3, <1>4, <1>5, <1>6, <1>7, <1>8
  DEF Auth!Next, Auth!Register, Auth!LoseLease, Auth!RevokeApproval, Auth!StopOrResume, Auth!Tick

\* Only Consume writes who has used a grant, and it finds the task as it was checked.
LEMMA ConsumedStep ==
    ASSUME Auth!IndInv, Auth!Next
    PROVE  Auth!ConsumedInForce
<1> USE DEF Auth!IndInv
<1>1. CASE UNCHANGED grant
  BY <1>1 DEF Auth!ConsumedInForce
<1>2. CASE Auth!Consume
  <2>1. CASE Auth!Consumable(token, who) /\ grant' = [grant EXCEPT ![token].by = who]
    <3>1. token \in Grants /\ who \in Auth!Runs /\ now \in Nat
      BY <1>2 DEF Auth!Consume, Auth!TypeOK
    <3>2. grant'[token].by = who
      BY <2>1, <3>1 DEF Auth!TypeOK, Auth!GrantRows
    <3>3. \A h \in Grants : h # token => grant'[h].by = grant[h].by
      BY <2>1, <3>1 DEF Auth!TypeOK
    <3>4. /\ grant[token].for = who /\ ~grant[token].revoked /\ presented < grant[token].expires
          /\ grant[token] \in Auth!GrantRows
      BY <2>1, <3>1 DEF Auth!Consumable, Auth!Scope, Auth!TypeOK
    <3>5. who \in War => /\ approved /\ ~stopped /\ who \in leased /\ calls < CallLimit
                        /\ checked \div 2 < Until
      BY <1>2 DEF Auth!Consume, Auth!StillAdmissible, Auth!HoldsWar
    <3>6. /\ presented < grant[token].issued + 2 * Ttl
          /\ who \in War => /\ checked <= grant[token].issued
                           /\ presented < grant[token].issued + 2 * Auth!Left
      <4>1. /\ presented \in Nat /\ grant[token].issued \in Nat /\ grant[token].expires \in Nat
            /\ checked \in Nat /\ Ttl \in Nat /\ Until \in Nat
        BY <3>4, AuthAssumption DEF Auth!TypeOK, Auth!GrantRows
      <4>2. /\ grant[token].expires <= grant[token].issued + 2 * Ttl
            /\ who \in War => /\ checked <= grant[token].issued
                             /\ grant[token].expires <= grant[token].issued + 2 * Auth!Left
        BY <1>2, <3>1 DEF Auth!Consume, Auth!GrantsSound
      <4> QED
        BY <3>4, <4>1, <4>2 DEF Auth!Left
    <3> QED
      BY <3>2, <3>3, <3>4, <3>5, <3>6 DEF Auth!ConsumedInForce
  <2> QED
    BY <1>1, <1>2, <2>1 DEF Auth!Consume
<1>3. ASSUME NEW g, NEW r, NEW ttl, grant' = [grant EXCEPT ![g] = Auth!NewGrant(r, ttl)]
      PROVE  Auth!ConsumedInForce
  <2>1. \A h \in Grants : grant'[h].by = grant[h].by \/ grant'[h].by = NoOne
    BY <1>3 DEF Auth!NewGrant, Auth!TypeOK
  <2> QED
    BY <2>1 DEF Auth!ConsumedInForce
<1>4. CASE Auth!IssueGrant \/ \E r \in Bearer : Auth!IssueBearer(r)
  BY <1>1, <1>3, <1>4 DEF Auth!IssueGrant, Auth!IssueBearer, Auth!Insert
<1>5. ASSUME NEW g \in Grants, Auth!RevokeGrant(g) PROVE Auth!ConsumedInForce
  <2>1. \A h \in Grants : grant'[h].by = grant[h].by
    BY <1>5 DEF Auth!RevokeGrant, Auth!TypeOK, Auth!GrantRows
  <2> QED
    BY <2>1 DEF Auth!ConsumedInForce
<1> QED
  BY <1>1, <1>2, <1>4, <1>5
  DEF Auth!Next, Auth!Dispatch, Auth!Register, Auth!LoseLease, Auth!AuthorizeDirect,
      Auth!AuthorizeWar, Auth!Present, Auth!Count, Auth!Submit, Auth!RevokeApproval,
      Auth!StopOrResume, Auth!Tick, Auth!Crash

LEMMA AuthStep ==
    ASSUME Auth!IndInv, [Next]_vars
    PROVE  Auth!IndInv' /\ [Auth!ConsumedInForce]_auth
<1>1. CASE Auth!Next
  BY <1>1, AuthTypeStep, CountedStep, HeldStep, AdmissibleStep, GrantsStep, ConsumedStep
  DEF Auth!IndInv
<1>2. CASE UNCHANGED auth
  BY <1>2
  DEF auth, Auth!IndInv, Auth!TypeOK, Auth!StillAdmissible, Auth!HoldsWar, Auth!Counted,
      Auth!Held, Auth!Admitted, Auth!GrantsSound, Auth!Issued, Auth!Left
<1> QED
  BY <1>1, <1>2 DEF Next, vars

\* CoreEngine._dispatch with the broker and the two authorizers: whatever is revoked,
\* stopped, expired or lost to a crash around it, every running worker of a task is
\* counted within its call limit and runs on a grant consumed for it, and a grant is
\* consumed only while approval, project and lease are as they were checked, within the
\* lifetime, counted from its issue, that the approval had left at that check.
THEOREM AdmissionCorrect == Spec => Admission
<1>1. Init => Auth!IndInv
  BY AuthInit DEF Init
<1>2. Auth!IndInv /\ [Next]_vars => Auth!IndInv' /\ [Auth!ConsumedInForce]_auth
  BY AuthStep
<1>3. Auth!IndInv => Auth!CallsCounted
  <2> SUFFICES ASSUME Auth!IndInv PROVE Auth!CallsCounted
    OBVIOUS
  <2> DEFINE R == {r \in War : record[r] = "RUNNING"}
  <2>1. R \subseteq Auth!Admitted \cap War
    BY DEF Auth!Admitted, Auth!Runs
  <2>2. /\ Cardinality(R) <= Cardinality(Auth!Admitted \cap War)
        /\ Cardinality(R) \in Nat /\ Cardinality(Auth!Admitted \cap War) \in Nat
    BY <2>1, FS_Subset, FS_CardinalityType, AuthAssumption
  <2> QED
    BY <2>2, AuthCardinality, AuthAssumption
    DEF Auth!IndInv, Auth!Counted, Auth!CallsCounted, Auth!TypeOK
<1>4. Auth!IndInv => Auth!WorkerHasGrant
  BY DEF Auth!IndInv, Auth!Held, Auth!Admitted, Auth!WorkerHasGrant
<1>5. [Auth!ConsumedInForce]_auth => [Auth!ConsumedInForce]_Auth!auth
  BY DEF auth, Auth!auth, Auth!readings
<1> QED
  BY <1>1, <1>2, <1>3, <1>4, <1>5, PTL DEF Spec, Admission, Auth!Admission

(******************************** documents ********************************)

LEMMA DocumentsInit ==
    ASSUME Documents!Init
    PROVE  Documents!IndInv
<1> USE DEF Documents!Init
<1>1. Documents!TypeOK
  <2>1. (CHOOSE c \in Contents : TRUE) \in Contents
    BY DocumentsAssumption
  <2>2. Import \in Seq(Files)
    BY DocumentsAssumption
  <2>3. Documents!Nothing \in Documents!Places
    BY DEF Documents!Nothing, Documents!Places
  <2>4. saved \in Documents!Stores
    BY DEF Documents!Stores
  <2>5. file \in [Files -> Contents]
    BY <2>1
  <2>6. seed \in Seq(Files)
    BY <2>2
  <2>7. found \in [at : Documents!Places, sha : Contents \cup {NoDoc}]
    BY <2>3 DEF Documents!NotLooked
  <2>8. answer \in [Clients -> [doc : Docs \cup {NoDoc}, version : Nat, uri : Files \cup {NoDoc},
                               sha : Contents \cup {NoDoc}, new : BOOLEAN]]
    BY DEF Documents!NoAnswer
  <2>9. history \in [Docs -> Seq(Documents!Versions)] /\ current \in [Docs -> Nat]
    <3>1. <<>> \in Seq(Documents!Versions)
      OBVIOUS
    <3> QED
      BY <3>1
  <2>10. seen \in [Clients -> Documents!Places]
    BY <2>3
  <2>11. frozen \in BOOLEAN /\ importing \in BOOLEAN
    OBVIOUS
  <2> HIDE DEF Documents!Init
  <2> QED
    BY <2>4, <2>5, <2>6, <2>7, <2>8, <2>9, <2>10, <2>11 DEF Documents!TypeOK
<1>2. Documents!FoundTrue /\ Documents!SavedTrue
  BY DEF Documents!FoundTrue, Documents!SavedTrue
<1>3. Documents!DocumentHistory
  BY DEF Documents!DocumentHistory, Documents!AnswersKept, Documents!LatestShown,
         Documents!OneAuthor, Documents!NoAnswer
<1>4. \A c \in Clients : Documents!ClientTrue(c)
  BY DEF Documents!ClientTrue
<1> QED
  BY <1>1, <1>2, <1>3, <1>4 DEF Documents!IndInv

\* An appended version is the last of its document; all the others stay where they are.
LEMMA Appended ==
    ASSUME Documents!TypeOK, NEW at \in Documents!Places, NEW f \in Files, NEW x \in Contents,
           Documents!Target(at) \in Docs, Documents!Append1(at, f, x)
    PROVE  /\ history' \in [Docs -> Seq(Documents!Versions)] /\ current' \in [Docs -> Nat]
           /\ current'[Documents!Target(at)] = at.version + 1
           /\ \A d \in Docs : d # Documents!Target(at) => current'[d] = current[d] /\ history'[d] = history[d]
           /\ Len(history'[Documents!Target(at)]) = Len(history[Documents!Target(at)]) + 1
           /\ history'[Documents!Target(at)][Len(history[Documents!Target(at)]) + 1] = [uri |-> f, sha |-> x]
           /\ \A d \in Docs : /\ Len(history[d]) <= Len(history'[d])
                              /\ \A i \in 1..Len(history[d]) : history'[d][i] = history[d][i]
<1> DEFINE d == Documents!Target(at)
<1>1. [uri |-> f, sha |-> x] \in Documents!Versions
  BY DEF Documents!Versions
<1>2. history[d] \in Seq(Documents!Versions)
  BY DEF Documents!TypeOK
<1>3. /\ history' = [history EXCEPT ![d] = Append(history[d], [uri |-> f, sha |-> x])]
      /\ current' = [current EXCEPT ![d] = at.version + 1]
  BY DEF Documents!Append1
<1>4. Append(history[d], [uri |-> f, sha |-> x]) \in Seq(Documents!Versions)
  BY <1>1, <1>2
<1>5. history'[d] = Append(history[d], [uri |-> f, sha |-> x])
  BY <1>3 DEF Documents!TypeOK
<1>6. /\ Len(history'[d]) = Len(history[d]) + 1
      /\ history'[d][Len(history[d]) + 1] = [uri |-> f, sha |-> x]
      /\ \A i \in 1..Len(history[d]) : history'[d][i] = history[d][i]
  BY <1>1, <1>2, <1>5
<1>7. \A e \in Docs : e # d => current'[e] = current[e] /\ history'[e] = history[e]
  BY <1>3 DEF Documents!TypeOK
<1>8. \A e \in Docs : Len(history[e]) \in Nat
  BY DEF Documents!TypeOK
<1>9. at.version \in Nat
  BY DEF Documents!Places
<1>10. history' \in [Docs -> Seq(Documents!Versions)] /\ current' \in [Docs -> Nat]
  BY <1>3, <1>4, <1>9 DEF Documents!TypeOK
<1>11. current'[d] = at.version + 1
  BY <1>3 DEF Documents!TypeOK
<1> HIDE DEF d
<1>12. \A e \in Docs : /\ Len(history[e]) <= Len(history'[e])
                      /\ \A i \in 1..Len(history[e]) : history'[e][i] = history[e][i]
  BY <1>6, <1>7, <1>8
<1> QED
  BY <1>6, <1>7, <1>10, <1>11, <1>12 DEF d

\* Where a registration appends there is room: a fresh document, or the one it is for.
LEMMA TargetIsDoc ==
    ASSUME Documents!TypeOK, NEW at \in Documents!Places, Documents!Room(at),
           at.version > 0 => at.doc \in Docs
    PROVE  /\ Documents!Target(at) \in Docs
           /\ at.version = 0 => current[Documents!Target(at)] = 0
           /\ at.version > 0 => Documents!Target(at) = at.doc
<1>1. CASE at.version = 0
  <2>1. Documents!NewDoc \in Docs /\ ~Documents!Exists(Documents!NewDoc)
    BY <1>1 DEF Documents!Room, Documents!NewDoc
  <2> QED
    BY <1>1, <2>1 DEF Documents!Exists, Documents!Target, Documents!TypeOK
<1>2. CASE at.version # 0
  BY <1>2 DEF Documents!Target, Documents!Places
<1> QED
  BY <1>1, <1>2

\* Who is told of a version hears of it for good, and nobody hears of it twice.
LEMMA RegisteredStep ==
    ASSUME Documents!IndInv, NEW c \in Clients, NEW f \in Files, NEW at \in Documents!Places,
           Documents!Registered(c, at, f),
           at.version > 0 => at.doc \in Docs /\ at.version = current[at.doc],
           seen[c] # Documents!Nothing => at.version > 0 /\ at.version = seen[c].version
    PROVE  Documents!IndInv'
<1> DEFINE d == Documents!Target(at)
           same == Documents!Same(at, f, file[f])
           told == [doc |-> d, version |-> current'[d], uri |-> f, sha |-> file[f], new |-> ~same]
<1> USE DEF Documents!IndInv
<1>1. /\ Documents!TypeOK /\ Documents!SavedTrue /\ Documents!DocumentHistory
      /\ \A b \in Clients : Documents!ClientTrue(b)
  OBVIOUS
<1>2. /\ answer[c] = Documents!NoAnswer /\ ~importing
      /\ IF same THEN UNCHANGED <<history, current>>
                 ELSE Documents!Room(at) /\ Documents!Append1(at, f, file[f])
      /\ answer' = [answer EXCEPT ![c] = told]
      /\ saved' = [history |-> history', current |-> current']
      /\ UNCHANGED <<file, frozen, seen, seed, found, importing>>
  BY DEF Documents!Registered, Documents!Tables
<1>3. file[f] \in Contents
  BY <1>1 DEF Documents!TypeOK
<1>4. saved.history = history /\ \A e \in Docs : current[e] = Len(history[e])
  BY <1>1, <1>2 DEF Documents!SavedTrue, Documents!DocumentHistory, Documents!LatestShown
<1>5. /\ d \in Docs /\ current'[d] > 0 /\ current'[d] <= Len(history'[d])
      /\ history'[d][current'[d]] = [uri |-> f, sha |-> file[f]]
      /\ ~same => current'[d] = at.version + 1 /\ current'[d] = Len(history[d]) + 1
      /\ history' \in [Docs -> Seq(Documents!Versions)] /\ current' \in [Docs -> Nat]
      /\ \A e \in Docs : /\ Len(history[e]) <= Len(history'[e])
                         /\ current'[e] = Len(history'[e])
                         /\ \A i \in 1..Len(history[e]) : history'[e][i] = history[e][i]
  <2>1. CASE same
    <3>1. d = at.doc /\ at.version > 0 /\ d \in Docs
      BY <2>1 DEF Documents!Same, Documents!Target
    <3>2. UNCHANGED <<history, current>> /\ current[d] = at.version
      BY <1>2, <2>1, <3>1
    <3>3. history[d][current[d]] = [uri |-> f, sha |-> file[f]]
      BY <2>1, <3>1 DEF Documents!Same, Documents!Version
    <3>4. history \in [Docs -> Seq(Documents!Versions)] /\ current \in [Docs -> Nat]
      BY <1>1 DEF Documents!TypeOK
    <3>5. \A e \in Docs : Len(history[e]) \in Nat
      BY <3>4
    <3> HIDE DEF d, same
    <3> QED
      BY <1>4, <2>1, <3>1, <3>2, <3>3, <3>4, <3>5
  <2>2. CASE ~same
    <3>1. /\ d \in Docs
          /\ at.version = 0 => current[d] = 0
          /\ at.version > 0 => d = at.doc
      BY <1>1, <1>2, <2>2, TargetIsDoc
    <3>2. at.version \in Nat /\ at.version = current[d]
      BY <3>1 DEF Documents!Places
    <3>3. /\ history' \in [Docs -> Seq(Documents!Versions)] /\ current' \in [Docs -> Nat]
          /\ current'[d] = at.version + 1
          /\ \A e \in Docs : e # d => current'[e] = current[e] /\ history'[e] = history[e]
          /\ Len(history'[d]) = Len(history[d]) + 1
          /\ history'[d][Len(history[d]) + 1] = [uri |-> f, sha |-> file[f]]
          /\ \A e \in Docs : /\ Len(history[e]) <= Len(history'[e])
                             /\ \A i \in 1..Len(history[e]) : history'[e][i] = history[e][i]
      BY <1>1, <1>2, <1>3, <2>2, <3>1, Appended
    <3>4. current[d] = Len(history[d])
      BY <1>4, <3>1
    <3>5. current'[d] = Len(history'[d]) /\ current'[d] > 0 /\ current'[d] = Len(history[d]) + 1
      BY <3>2, <3>3, <3>4
    <3>6. \A e \in Docs : current'[e] = Len(history'[e])
      BY <1>4, <3>3, <3>5
    <3>7. current'[d] <= Len(history'[d])
      BY <3>2, <3>3, <3>5
    <3> HIDE DEF d, same
    <3> QED
      BY <2>2, <3>1, <3>3, <3>5, <3>6, <3>7
  <2> QED
    BY <2>1, <2>2
<1> HIDE DEF d, same
<1>6. told \in [doc : Docs \cup {NoDoc}, version : Nat, uri : Files \cup {NoDoc},
               sha : Contents \cup {NoDoc}, new : BOOLEAN]
  BY <1>3, <1>5 DEF same
<1>7. answer'[c] = told /\ \A b \in Clients : b # c => answer'[b] = answer[b]
  BY <1>1, <1>2 DEF Documents!TypeOK
<1>8. Documents!TypeOK'
  <2>1. saved' \in Documents!Stores
    BY <1>2, <1>5 DEF Documents!Stores
  <2>2. answer' \in [Clients -> [doc : Docs \cup {NoDoc}, version : Nat, uri : Files \cup {NoDoc},
                                 sha : Contents \cup {NoDoc}, new : BOOLEAN]]
    BY <1>1, <1>2, <1>6 DEF Documents!TypeOK
  <2> QED
    BY <1>1, <1>2, <1>5, <2>1, <2>2 DEF Documents!TypeOK
<1>9. Documents!FoundTrue'
  <2>1. \A e \in Docs : Len(history[e]) \in Nat /\ Len(history'[e]) \in Nat
    BY <1>1, <1>5 DEF Documents!TypeOK
  <2>2. found.at.version \in Nat
    BY <1>1 DEF Documents!TypeOK, Documents!Places
  <2> QED
    BY <1>2, <1>5, <2>1, <2>2 DEF Documents!FoundTrue
<1>10. Documents!SavedTrue'
  <2>1. \A e \in Docs : Len(history'[e]) \in Nat
    BY <1>5
  <2>2. saved'.history = history' /\ saved'.current = current'
    BY <1>2
  <2> QED
    BY <1>5, <2>1, <2>2 DEF Documents!SavedTrue
<1>11. \A b \in Clients : Documents!ClientTrue(b)'
  BY <1>1, <1>2, <1>5, <1>7 DEF Documents!ClientTrue
<1>12. Documents!AnswersKept'
  <2> SUFFICES ASSUME NEW b \in Clients, answer'[b] # Documents!NoAnswer
               PROVE  LET a == answer'[b] IN
                      /\ a.version <= Len(saved'.history[a.doc])
                      /\ saved'.history[a.doc][a.version] = [uri |-> a.uri, sha |-> a.sha]
                      /\ a.new /\ seen'[b] # Documents!Nothing => a.version = seen'[b].version + 1
    BY DEF Documents!AnswersKept
  <2>1. CASE b = c
    <3>1. /\ answer'[b].doc = d /\ answer'[b].version = current'[d] /\ answer'[b].uri = f
          /\ answer'[b].sha = file[f] /\ answer'[b].new = ~same
      BY <1>7, <2>1
    <3>2. saved'.history = history' /\ seen' = seen
      BY <1>2
    <3>3. answer'[b].new /\ seen'[b] # Documents!Nothing => answer'[b].version = seen'[b].version + 1
      BY <1>5, <2>1, <3>1, <3>2
    <3> QED
      BY <1>5, <3>1, <3>2, <3>3
  <2>2. CASE b # c
    <3> DEFINE a == answer[b]
    <3>1. answer'[b] = a /\ a # Documents!NoAnswer /\ seen' = seen /\ saved'.history = history'
      BY <1>2, <1>7, <2>2
    <3>2. /\ a.version <= Len(history[a.doc])
          /\ history[a.doc][a.version] = [uri |-> a.uri, sha |-> a.sha]
          /\ a.new /\ seen[b] # Documents!Nothing => a.version = seen[b].version + 1
      BY <1>1, <1>4, <3>1 DEF Documents!DocumentHistory, Documents!AnswersKept
    <3>3. a.doc \in Docs /\ a.version > 0 /\ a.version \in Nat
      BY <1>1, <3>1 DEF Documents!ClientTrue, Documents!TypeOK
    <3>4. Len(history[a.doc]) \in Nat /\ Len(history'[a.doc]) \in Nat
      BY <1>1, <1>5, <3>3 DEF Documents!TypeOK
    <3>5. history'[a.doc][a.version] = history[a.doc][a.version]
      BY <1>5, <3>2, <3>3, <3>4
    <3>6. a.version <= Len(history'[a.doc])
      BY <1>5, <3>2, <3>3, <3>4
    <3> HIDE DEF a
    <3> QED
      BY <3>1, <3>2, <3>5, <3>6
  <2> QED
    BY <2>1, <2>2
<1>13. Documents!LatestShown'
  BY <1>5 DEF Documents!LatestShown
<1>14. Documents!OneAuthor'
  <2>1. ASSUME NEW b \in Clients, b # c, answer[b].new, ~same
        PROVE  <<answer[b].doc, answer[b].version>> # <<d, current'[d]>>
    <3>1. answer[b] # Documents!NoAnswer
      BY <2>1 DEF Documents!NoAnswer
    <3>2. answer[b].version <= Len(history[answer[b].doc]) /\ answer[b].doc \in Docs
          /\ answer[b].version \in Nat
      BY <1>1, <1>4, <3>1
      DEF Documents!DocumentHistory, Documents!AnswersKept, Documents!ClientTrue, Documents!TypeOK
    <3>3. Len(history[answer[b].doc]) \in Nat
      BY <1>1, <3>2 DEF Documents!TypeOK
    <3> QED
      BY <1>5, <2>1, <3>2, <3>3
  <2>2. \A a, b \in Clients : a # b /\ answer[a].new /\ answer[b].new =>
            <<answer[a].doc, answer[a].version>> # <<answer[b].doc, answer[b].version>>
    BY <1>1 DEF Documents!DocumentHistory, Documents!OneAuthor
  <2>3. answer'[c].doc = d /\ answer'[c].version = current'[d] /\ answer'[c].new = ~same
    BY <1>7
  <2> HIDE DEF told
  <2> QED
    <3> SUFFICES ASSUME NEW a \in Clients, NEW b \in Clients, a # b, answer'[a].new, answer'[b].new
                 PROVE  <<answer'[a].doc, answer'[a].version>> # <<answer'[b].doc, answer'[b].version>>
      BY DEF Documents!OneAuthor
    <3>1. CASE a # c /\ b # c
      BY <1>7, <2>2, <3>1
    <3>2. CASE a = c
      BY <1>7, <2>1, <2>3, <3>2
    <3>3. CASE b = c
      BY <1>7, <2>1, <2>3, <3>3
    <3> QED
      BY <3>1, <3>2, <3>3
<1> QED
  BY <1>8, <1>9, <1>10, <1>11, <1>12, <1>13, <1>14 DEF Documents!DocumentHistory

LEMMA SeedWriteStep ==
    ASSUME Documents!IndInv, Documents!SeedWrite
    PROVE  Documents!IndInv'
<1> USE DEF Documents!IndInv
<1>1. /\ Documents!TypeOK /\ Documents!FoundTrue /\ Documents!SavedTrue /\ Documents!DocumentHistory
      /\ \A b \in Clients : Documents!ClientTrue(b)
  OBVIOUS
<1>2. /\ found # Documents!NotLooked /\ found' = Documents!NotLooked
      /\ UNCHANGED <<file, frozen, seen, answer, saved>>
  BY DEF Documents!SeedWrite
<1>3. /\ seed # <<>> /\ seed \in Seq(Files) /\ found.sha \in Contents
      /\ found.at \in Documents!Places
      /\ found.at.version > 0 =>
            found.at.doc \in Docs /\ found.at.version <= Len(history[found.at.doc])
  BY <1>1, <1>2 DEF Documents!FoundTrue, Documents!TypeOK
<1>4. \A b \in Clients : Documents!ClientTrue(b)'
  BY <1>1, <1>2 DEF Documents!ClientTrue
<1>5. Documents!AnswersKept' /\ Documents!OneAuthor'
  BY <1>1, <1>2 DEF Documents!DocumentHistory, Documents!AnswersKept, Documents!OneAuthor
<1>6. Documents!FoundTrue'
  BY <1>2 DEF Documents!FoundTrue
<1>7. found' \in [at : Documents!Places, sha : Contents \cup {NoDoc}]
  BY <1>2 DEF Documents!NotLooked, Documents!Nothing, Documents!Places
<1>8. CASE Documents!Collides(found.at)
  <2>1. /\ history' = saved.history /\ current' = saved.current
        /\ seed' = <<>> /\ importing' = FALSE
    BY <1>8 DEF Documents!SeedWrite
  <2>2. saved.history \in [Docs -> Seq(Documents!Versions)] /\ saved.current \in [Docs -> Nat]
    BY <1>1 DEF Documents!TypeOK, Documents!Stores
  <2>3. Documents!TypeOK'
    <3>1. seed' \in Seq(Files)
      BY <2>1
    <3>2. importing' \in BOOLEAN
      BY <2>1
    <3> QED
      BY <1>1, <1>2, <1>7, <2>1, <2>2, <3>1, <3>2 DEF Documents!TypeOK
  <2>4. Documents!LatestShown'
    BY <1>1, <2>1 DEF Documents!SavedTrue, Documents!LatestShown
  <2>5. Documents!SavedTrue'
    <3>1. \A d \in Docs : Len(saved.history[d]) \in Nat
      BY <2>2
    <3> QED
      BY <1>1, <1>2, <2>1, <3>1 DEF Documents!SavedTrue
  <2> QED
    BY <1>4, <1>5, <1>6, <2>3, <2>4, <2>5 DEF Documents!DocumentHistory
<1>9. CASE ~Documents!Collides(found.at)
  <2> DEFINE d == Documents!Target(found.at)
             f == Head(seed)
  <2>1. /\ Documents!Room(found.at) /\ Documents!Append1(found.at, f, found.sha)
        /\ seed' = Tail(seed) /\ importing' = TRUE
    BY <1>9 DEF Documents!SeedWrite
  <2>2. f \in Files /\ Tail(seed) \in Seq(Files)
    BY <1>3
  <2>3. /\ d \in Docs
        /\ found.at.version = 0 => current[d] = 0
        /\ found.at.version > 0 => d = found.at.doc
    BY <1>1, <1>3, <2>1, TargetIsDoc
  <2>4. /\ history' \in [Docs -> Seq(Documents!Versions)] /\ current' \in [Docs -> Nat]
        /\ current'[d] = found.at.version + 1
        /\ \A e \in Docs : e # d => current'[e] = current[e] /\ history'[e] = history[e]
        /\ Len(history'[d]) = Len(history[d]) + 1
        /\ \A e \in Docs : /\ Len(history[e]) <= Len(history'[e])
                           /\ \A i \in 1..Len(history[e]) : history'[e][i] = history[e][i]
    BY <1>1, <1>3, <2>1, <2>2, <2>3, Appended
  <2>5. \A e \in Docs : /\ current[e] = Len(history[e]) /\ Len(history[e]) \in Nat
                       /\ Len(history'[e]) \in Nat
    BY <1>1, <2>4 DEF Documents!DocumentHistory, Documents!LatestShown, Documents!TypeOK
  <2>6. found.at.version = Len(history[d])
    <3>1. found.at.version \in Nat
      BY <1>3 DEF Documents!Places
    <3>2. CASE found.at.version = 0
      BY <2>3, <2>5, <3>2
    <3>3. CASE found.at.version > 0
      <4>1. ~(Len(history[d]) > found.at.version) /\ found.at.version <= Len(history[d])
        BY <1>3, <1>9, <2>3, <3>3 DEF Documents!Collides
      <4> QED
        BY <2>3, <2>5, <3>1, <4>1
    <3> QED
      BY <3>1, <3>2, <3>3
  <2> HIDE DEF d, f
  <2>7. Documents!LatestShown'
    BY <2>4, <2>5, <2>6 DEF Documents!LatestShown
  <2>8. Documents!TypeOK'
    <3>1. seed' \in Seq(Files)
      BY <2>1, <2>2
    <3>2. importing' \in BOOLEAN
      BY <2>1
    <3> QED
      BY <1>1, <1>2, <1>7, <2>4, <3>1, <3>2 DEF Documents!TypeOK
  <2>9. Documents!SavedTrue'
    <3>1. \A e \in Docs : Len(saved.history[e]) \in Nat
      BY <1>1 DEF Documents!TypeOK, Documents!Stores
    <3>2. \A e \in Docs : /\ Len(saved.history[e]) <= Len(history[e])
                         /\ \A i \in 1..Len(saved.history[e]) : history[e][i] = saved.history[e][i]
      BY <1>1 DEF Documents!SavedTrue
    <3>3. \A e \in Docs : /\ Len(saved.history[e]) <= Len(history'[e])
                         /\ \A i \in 1..Len(saved.history[e]) : history'[e][i] = saved.history[e][i]
      BY <2>4, <2>5, <3>1, <3>2
    <3> QED
      BY <1>1, <1>2, <2>1, <3>3 DEF Documents!SavedTrue
  <2> QED
    BY <1>4, <1>5, <1>6, <2>7, <2>8, <2>9 DEF Documents!DocumentHistory
<1> QED
  BY <1>8, <1>9

LEMMA DocumentsStep ==
    ASSUME Documents!IndInv, [Next]_vars
    PROVE  Documents!IndInv'
<1> USE DEF Documents!IndInv
<1>1. ASSUME NEW c \in Clients, NEW d \in Docs, Documents!Look(c, d) PROVE Documents!IndInv'
  <2>1. current[d] > 0 /\ current[d] \in Nat /\ answer[c] = Documents!NoAnswer
    BY <1>1 DEF Documents!Look, Documents!Exists, Documents!TypeOK
  <2>2. Documents!TypeOK'
    BY <1>1, <2>1 DEF Documents!Look, Documents!Tables, Documents!TypeOK, Documents!Places
  <2>3. \A b \in Clients : b # c => seen'[b] = seen[b]
    BY <1>1 DEF Documents!Look, Documents!TypeOK
  <2>4. seen'[c] = [doc |-> d, version |-> current[d]]
    BY <1>1 DEF Documents!Look, Documents!TypeOK
  <2>5. \A b \in Clients : Documents!ClientTrue(b)'
    BY <1>1, <2>1, <2>3, <2>4 DEF Documents!Look, Documents!ClientTrue
  <2>6. Documents!AnswersKept'
    BY <1>1, <2>1, <2>3
    DEF Documents!Look, Documents!Tables, Documents!DocumentHistory, Documents!AnswersKept
  <2> QED
    BY <1>1, <2>2, <2>5, <2>6
    DEF Documents!Look, Documents!Tables, Documents!DocumentHistory, Documents!LatestShown,
        Documents!OneAuthor, Documents!FoundTrue, Documents!SavedTrue
<1>2. ASSUME UNCHANGED <<history, current, seen, answer, found, importing, saved>>,
             Documents!TypeOK', Documents!FoundTrue'
      PROVE  Documents!IndInv'
  BY <1>2
  DEF Documents!DocumentHistory, Documents!AnswersKept, Documents!LatestShown,
      Documents!OneAuthor, Documents!SavedTrue, Documents!ClientTrue
<1>3. ASSUME NEW f \in Files, NEW x \in Contents, Documents!Edit(f, x) PROVE Documents!IndInv'
  <2>1. Documents!TypeOK' /\ Documents!FoundTrue'
    BY <1>3 DEF Documents!Edit, Documents!Tables, Documents!TypeOK, Documents!FoundTrue
  <2> QED
    BY <1>2, <1>3, <2>1 DEF Documents!Edit, Documents!Tables
<1>4. ASSUME NEW c \in Clients, NEW f \in Files, Documents!Register(c, f) PROVE Documents!IndInv'
  <2> DEFINE at == [doc |-> seen[c].doc, version |-> current[seen[c].doc]]
  <2>1. seen[c].doc \in Docs /\ seen[c].version > 0
    BY <1>4 DEF Documents!Register, Documents!ClientTrue
  <2>2. at \in Documents!Places /\ at.version = seen[c].version
    BY <1>4, <2>1 DEF Documents!Register, Documents!Expected, Documents!Places, Documents!TypeOK
  <2>3. Documents!Registered(c, at, f)
    BY <1>4 DEF Documents!Register
  <2> QED
    BY <2>1, <2>2, <2>3, RegisteredStep
<1>5. ASSUME NEW f \in Files, NEW at \in Documents!ByUri(f)
      PROVE  /\ at \in Documents!Places
             /\ at.version > 0 => at.doc \in Docs /\ at.version = current[at.doc]
  BY <1>5 DEF Documents!ByUri, Documents!Nothing, Documents!Places, Documents!TypeOK
<1>6. ASSUME NEW c \in Clients, NEW f \in Files, Documents!Capture(c, f) PROVE Documents!IndInv'
  BY <1>5, <1>6, RegisteredStep DEF Documents!Capture
<1>7. CASE Documents!SeedLook
  <2>1. PICK at \in Documents!ByUri(Head(seed)) :
            \/ seed' = Tail(seed) /\ UNCHANGED found
            \/ found' = [at |-> at, sha |-> file[Head(seed)]] /\ UNCHANGED seed
    BY <1>7 DEF Documents!SeedLook
  <2>2. seed # <<>> /\ Head(seed) \in Files /\ Tail(seed) \in Seq(Files) /\ found = Documents!NotLooked
    BY <1>7 DEF Documents!SeedLook, Documents!TypeOK
  <2>3. /\ at \in Documents!Places
        /\ at.version > 0 => at.doc \in Docs /\ at.version = current[at.doc]
    BY <1>5, <2>2
  <2>4. file[Head(seed)] \in Contents
    BY <2>2 DEF Documents!TypeOK
  <2>5. UNCHANGED <<file, history, current, frozen, seen, answer, importing, saved>>
    BY <1>7 DEF Documents!SeedLook, Documents!Tables
  <2>6. Documents!TypeOK'
    <3>1. seed' \in Seq(Files)
      BY <2>1, <2>2 DEF Documents!TypeOK
    <3>2. found' \in [at : Documents!Places, sha : Contents \cup {NoDoc}]
      BY <2>1, <2>3, <2>4 DEF Documents!TypeOK
    <3> QED
      BY <2>5, <3>1, <3>2 DEF Documents!TypeOK
  <2>7. Documents!FoundTrue'
    <3>1. \A d \in Docs : current[d] = Len(history[d]) /\ current[d] \in Nat
      BY DEF Documents!DocumentHistory, Documents!LatestShown, Documents!TypeOK
    <3>2. CASE UNCHANGED found
      BY <2>2, <3>2 DEF Documents!FoundTrue
    <3>3. CASE found' = [at |-> at, sha |-> file[Head(seed)]] /\ UNCHANGED seed
      BY <2>2, <2>3, <2>4, <2>5, <3>1, <3>3 DEF Documents!FoundTrue
    <3> QED
      BY <2>1, <3>2, <3>3
  <2> QED
    BY <2>5, <2>6, <2>7
    DEF Documents!DocumentHistory, Documents!AnswersKept, Documents!LatestShown,
        Documents!OneAuthor, Documents!SavedTrue, Documents!ClientTrue
<1>8. CASE Documents!SeedCommit
  <2>1. /\ importing' = FALSE /\ saved' = [history |-> history, current |-> current]
        /\ UNCHANGED <<file, history, current, frozen, seen, answer, seed, found>>
    BY <1>8 DEF Documents!SeedCommit, Documents!Tables
  <2>2. Documents!TypeOK'
    BY <2>1 DEF Documents!TypeOK, Documents!Stores
  <2>3. Documents!SavedTrue' /\ Documents!LatestShown' /\ Documents!FoundTrue'
    BY <2>1, <2>2
    DEF Documents!SavedTrue, Documents!LatestShown, Documents!FoundTrue,
        Documents!DocumentHistory, Documents!TypeOK
  <2>4. Documents!AnswersKept'
    <3> SUFFICES ASSUME NEW b \in Clients, answer[b] # Documents!NoAnswer
                 PROVE  /\ answer[b].version <= Len(history[answer[b].doc])
                        /\ history[answer[b].doc][answer[b].version] =
                                [uri |-> answer[b].uri, sha |-> answer[b].sha]
                        /\ answer[b].new /\ seen[b] # Documents!Nothing =>
                                answer[b].version = seen[b].version + 1
      BY <2>1 DEF Documents!AnswersKept
    <3> DEFINE a == answer[b]
    <3>1. /\ a.version <= Len(saved.history[a.doc])
          /\ saved.history[a.doc][a.version] = [uri |-> a.uri, sha |-> a.sha]
          /\ a.new /\ seen[b] # Documents!Nothing => a.version = seen[b].version + 1
      BY DEF Documents!DocumentHistory, Documents!AnswersKept
    <3>2. a.doc \in Docs /\ a.version > 0 /\ a.version \in Nat
      BY DEF Documents!ClientTrue, Documents!TypeOK
    <3>3. Len(saved.history[a.doc]) \in Nat /\ Len(history[a.doc]) \in Nat
      BY <3>2 DEF Documents!TypeOK, Documents!Stores
    <3>4. /\ Len(saved.history[a.doc]) <= Len(history[a.doc])
          /\ \A i \in 1..Len(saved.history[a.doc]) : history[a.doc][i] = saved.history[a.doc][i]
      BY <3>2 DEF Documents!SavedTrue
    <3> HIDE DEF a
    <3>5. a.version <= Len(history[a.doc]) /\ history[a.doc][a.version] = saved.history[a.doc][a.version]
      BY <3>1, <3>2, <3>3, <3>4
    <3> QED
      BY <3>1, <3>5 DEF a
  <2> QED
    BY <2>1, <2>2, <2>3, <2>4
    DEF Documents!DocumentHistory, Documents!OneAuthor, Documents!ClientTrue
<1>9. CASE Documents!Archive
  <2>1. Documents!TypeOK' /\ Documents!FoundTrue'
    BY <1>9 DEF Documents!Archive, Documents!Tables, Documents!TypeOK, Documents!FoundTrue
  <2> QED
    BY <1>2, <1>9, <2>1 DEF Documents!Archive, Documents!Tables
<1>10. CASE UNCHANGED documents
  <2>1. Documents!TypeOK' /\ Documents!FoundTrue'
    BY <1>10 DEF documents, Documents!TypeOK, Documents!FoundTrue
  <2> QED
    BY <1>2, <1>10, <2>1 DEF documents
<1>11. Documents!Next \/ UNCHANGED documents
  BY DEF Next, vars
<1> QED
  BY <1>1, <1>3, <1>4, <1>6, <1>7, <1>8, <1>9, <1>10, <1>11, SeedWriteStep DEF Documents!Next

\* register_document, artifact capture and war_room_seed_documents: over concurrent
\* registrations, edits and an import that rolls back, the version a caller was told
\* stays in the history, replaces exactly what it had read, and is told to one caller
\* as new; every document shows its latest version.
THEOREM DocumentsCorrect == Spec => []DocumentHistory
<1>1. Init => Documents!IndInv
  BY DocumentsInit DEF Init
<1>2. Documents!IndInv /\ [Next]_vars => Documents!IndInv'
  BY DocumentsStep
<1>3. Documents!IndInv => DocumentHistory
  BY DEF Documents!IndInv, DocumentHistory
<1> QED
  BY <1>1, <1>2, <1>3, PTL DEF Spec

(******************************** advisories *******************************)

LEMMA AdviceCardinality ==
    ASSUME NEW S
    PROVE  Advice!Cardinality(S) = Cardinality(S)
BY DEF Advice!Cardinality, Cardinality

LEMMA AdviceInit ==
    ASSUME Advice!Init
    PROVE  Advice!IndInv
<1> USE DEF Advice!Init
<1>1. Advice!Numbered
  <2>1. 0 \in 0..MaxAdvisories /\ 0..(0 - 1) = {}
    BY AdviceAssumption
  <2> QED
    BY <2>1 DEF Advice!Numbered
<1>2. Advice!TypeOK /\ Advice!AdvisoriesTrue /\ Advice!DecidingTrue
  BY DEF Advice!TypeOK, Advice!AdvisoriesTrue, Advice!DecidingTrue
<1>3. Advice!Advised
  BY DEF Advice!Advised, Advice!AcceptsItsOwn, Advice!OncePerKey, Advice!OneState
<1> QED
  BY <1>1, <1>2, <1>3 DEF Advice!IndInv

\* The state of the task moves on: a row that was true of it before stays true.
LEMMA AdviceChange ==
    ASSUME Advice!IndInv, Advice!Change
    PROVE  Advice!IndInv'
<1> USE DEF Advice!IndInv
<1>1. /\ facts' \in Nat /\ revision' \in Nat /\ revision <= revision' /\ revision \in Nat
      /\ eligible' \subseteq Experts
      /\ UNCHANGED <<asking, advisories, deciding, decisions, verifying, verdicts>>
  BY DEF Advice!Change, Advice!Router, Advice!TypeOK
<1>2. Advice!TypeOK'
  BY <1>1 DEF Advice!TypeOK, Advice!Decisions
<1>3. Advice!AdvisoriesTrue'
  BY <1>1 DEF Advice!AdvisoriesTrue, Advice!TypeOK, Advice!Asks
<1>4. Advice!DecidingTrue'
  <2>1. deciding # NoValue => deciding.revision \in Nat /\ deciding.revision <= revision'
    <3>1. deciding # NoValue => deciding.revision \in Nat
      BY DEF Advice!TypeOK, Advice!Decisions
    <3>2. deciding # NoValue => deciding.revision <= revision
      BY DEF Advice!DecidingTrue
    <3> QED
      BY <1>1, <3>1, <3>2
  <2> QED
    BY <1>1, <2>1 DEF Advice!DecidingTrue
<1> QED
  BY <1>1, <1>2, <1>3, <1>4
  DEF Advice!Numbered, Advice!Advised, Advice!AcceptsItsOwn, Advice!OncePerKey, Advice!OneState

\* A row is about the state that was read when the judge was asked.
LEMMA AdviceRow ==
    ASSUME Advice!IndInv, asking # NoValue, NEW choice, NEW ok \in BOOLEAN,
           Advice!Row(choice, ok), ok => choice \in asking.listed \cup {"insufficient_evidence"},
           UNCHANGED <<facts, revision, eligible, deciding, decisions, verifying, verdicts>>
    PROVE  Advice!IndInv'
<1> USE DEF Advice!IndInv
<1> DEFINE r == [id |-> Advice!Cardinality(advisories), about |-> asking, choice |-> choice, ok |-> ok]
<1>1. /\ advisories' = advisories \cup {r} /\ asking' = NoValue
      /\ r.about = asking /\ r.choice = choice /\ r.ok = ok
  BY DEF Advice!Row
<1> HIDE DEF r
<1>2. Advice!TypeOK'
  BY <1>1 DEF Advice!TypeOK, Advice!Decisions
<1>3. Advice!AdvisoriesTrue'
  BY <1>1 DEF Advice!AdvisoriesTrue
<1>4. Advice!DecidingTrue'
  BY <1>1 DEF Advice!DecidingTrue
<1> QED
  BY <1>2, <1>3, <1>4
  DEF Advice!Numbered, Advice!Advised, Advice!AcceptsItsOwn, Advice!OncePerKey, Advice!OneState

LEMMA AdviceAsk ==
    ASSUME Advice!IndInv, Advice!Ask \/ Advice!ChooseDomain \/ Advice!ChooseAgent
    PROVE  Advice!IndInv'
<1> USE DEF Advice!IndInv
<1>1. ASSUME asking' \in Advice!Asks, asking'.revision <= revision,
             UNCHANGED <<facts, revision, eligible, advisories, deciding, decisions, verifying,
                         verdicts>>
      PROVE  Advice!IndInv'
  <2>1. Advice!TypeOK'
    BY <1>1 DEF Advice!TypeOK, Advice!Decisions
  <2> QED
    BY <1>1, <2>1
    DEF Advice!AdvisoriesTrue, Advice!DecidingTrue, Advice!Numbered, Advice!Advised,
        Advice!AcceptsItsOwn, Advice!OncePerKey, Advice!OneState
<1>2. CASE Advice!Ask
  <2>1. asking' \in Advice!Asks /\ asking'.revision <= revision
    BY <1>2 DEF Advice!Ask, Advice!TypeOK, Advice!Asks
  <2> QED
    BY <1>1, <1>2, <2>1 DEF Advice!Ask, Advice!Task
<1>3. CASE Advice!ChooseDomain
  <2>1. ASSUME NEW d \in Domains \cup {"insufficient_evidence"},
               asking' = [asking EXCEPT !.domain = d, !.listed = Advice!Candidates(d)],
               UNCHANGED advisories
        PROVE  Advice!IndInv'
    <3>1. asking \in Advice!Asks /\ asking.revision <= revision
      BY <1>3 DEF Advice!ChooseDomain, Advice!TypeOK, Advice!AdvisoriesTrue
    <3>2. Advice!Candidates(d) \in SUBSET Experts
      BY DEF Advice!Candidates, Advice!TypeOK
    <3>3. asking' \in Advice!Asks /\ asking'.revision <= revision
      BY <2>1, <3>1, <3>2 DEF Advice!Asks
    <3> QED
      BY <1>1, <1>3, <2>1, <3>3 DEF Advice!ChooseDomain, Advice!Task
  <2> QED
    BY <1>3, <2>1, AdviceRow DEF Advice!ChooseDomain, Advice!Task
<1>4. CASE Advice!ChooseAgent
  BY <1>4, AdviceRow DEF Advice!ChooseAgent, Advice!Task
<1> QED
  BY <1>2, <1>3, <1>4

\* A decision reads the task at three moments; the revision it keeps is the first one's.
LEMMA AdviceDecide ==
    ASSUME Advice!IndInv,
           \/ \E k \in RequestKeys, a \in advisories, w \in Experts \cup {"ACCEPT", "INSUFFICIENT"} :
                 Advice!Decide(k, a, w)
           \/ Advice!Check \/ Advice!Flag
    PROVE  Advice!IndInv'
<1> USE DEF Advice!IndInv
<1>1. UNCHANGED <<facts, revision, eligible, asking, advisories, decisions, verifying, verdicts>>
  BY DEF Advice!Decide, Advice!Check, Advice!Flag, Advice!Task
<1>2. ASSUME deciding' = NoValue \/ deciding' \in Advice!Decisions, Advice!DecidingTrue'
      PROVE  Advice!IndInv'
  <2>1. Advice!TypeOK'
    BY <1>1, <1>2 DEF Advice!TypeOK, Advice!Decisions
  <2> QED
    BY <1>1, <1>2, <2>1
    DEF Advice!AdvisoriesTrue, Advice!Numbered, Advice!Advised, Advice!AcceptsItsOwn,
        Advice!OncePerKey, Advice!OneState
<1>3. ASSUME NEW k \in RequestKeys, NEW a \in advisories,
             NEW w \in Experts \cup {"ACCEPT", "INSUFFICIENT"}, Advice!Decide(k, a, w)
      PROVE  Advice!IndInv'
  <2>1. deciding' = [key |-> k, of |-> a, what |-> w, revision |-> revision, at |-> "stale"]
    BY <1>3 DEF Advice!Decide
  <2>2. revision \in Nat /\ a.about.revision <= revision
    BY DEF Advice!TypeOK, Advice!AdvisoriesTrue
  <2>3. w = "ACCEPT" => a.ok
    BY <1>3, AdviceAssumption DEF Advice!Decide, Advice!TypeOK
  <2>4. deciding' \in Advice!Decisions
    BY <2>1, <2>2 DEF Advice!Decisions
  <2>5. Advice!DecidingTrue'
    BY <1>1, <2>1, <2>2, <2>3 DEF Advice!DecidingTrue
  <2> QED
    BY <1>2, <2>4, <2>5
<1>4. CASE Advice!Check
  <2>1. deciding # NoValue /\ deciding \in Advice!Decisions /\ deciding.at = "stale"
    BY <1>4 DEF Advice!Check, Advice!TypeOK
  <2>2. CASE deciding' = NoValue
    BY <1>2, <2>2 DEF Advice!DecidingTrue
  <2>3. CASE /\ deciding' = [deciding EXCEPT !.at = "eligible"]
             /\ deciding.what = "ACCEPT" => ~Advice!Stale(deciding.of)
    <3>1. /\ deciding' \in Advice!Decisions /\ deciding'.revision = deciding.revision
          /\ deciding'.of = deciding.of /\ deciding'.what = deciding.what
          /\ deciding'.at = "eligible"
      BY <2>1, <2>3 DEF Advice!Decisions
    <3>2. /\ deciding.revision <= revision /\ deciding.of.about.revision <= deciding.revision
          /\ deciding.what = "ACCEPT" => deciding.of.ok
      BY <2>1 DEF Advice!DecidingTrue
    <3>3. deciding.what = "ACCEPT" => deciding.of.about.revision = revision
      BY <2>3 DEF Advice!Stale
    <3>4. deciding.revision \in Nat /\ revision \in Nat
      BY <2>1 DEF Advice!Decisions, Advice!TypeOK
    <3>5. deciding.what = "ACCEPT" => deciding.revision = deciding.of.about.revision
      BY <3>2, <3>3, <3>4
    <3>6. Advice!DecidingTrue'
      BY <1>1, <3>1, <3>2, <3>5 DEF Advice!DecidingTrue
    <3> QED
      BY <1>2, <3>1, <3>6
  <2> QED
    BY <1>4, <2>2, <2>3 DEF Advice!Check, Advice!Accepting
<1>5. CASE Advice!Flag
  <2>1. deciding # NoValue /\ deciding \in Advice!Decisions /\ deciding.at = "eligible"
    BY <1>5 DEF Advice!Flag, Advice!TypeOK
  <2>2. CASE deciding' = NoValue
    BY <1>2, <2>2 DEF Advice!DecidingTrue
  <2>3. CASE deciding' # NoValue
    <3>1. PICK flag \in {"row", "stale row"} : deciding' = [deciding EXCEPT !.at = flag]
      BY <1>5, <2>3 DEF Advice!Flag
    <3>2. deciding.what = "ACCEPT" => deciding.of.choice \in Experts
      BY <1>5, <2>3 DEF Advice!Flag, Advice!Accepting, Advice!Candidates, Advice!TypeOK
    <3>3. /\ deciding' \in Advice!Decisions /\ deciding'.revision = deciding.revision
          /\ deciding'.of = deciding.of /\ deciding'.what = deciding.what
      BY <2>1, <3>1 DEF Advice!Decisions
    <3>4. deciding.of \in advisories
      BY <2>1 DEF Advice!Decisions
    <3>5. deciding.what = "ACCEPT" => deciding.of.choice \in deciding.of.about.listed
      BY <2>1, <3>2, <3>4, AdviceAssumption DEF Advice!AdvisoriesTrue, Advice!DecidingTrue
    <3>6. Advice!DecidingTrue'
      BY <1>1, <2>1, <3>3, <3>5 DEF Advice!DecidingTrue
    <3> QED
      BY <1>2, <3>3, <3>6
  <2> QED
    BY <2>2, <2>3
<1> QED
  BY <1>3, <1>4, <1>5

LEMMA AdviceRecord ==
    ASSUME Advice!IndInv, Advice!Record
    PROVE  Advice!IndInv'
<1> USE DEF Advice!IndInv
<1>1. /\ deciding # NoValue /\ deciding.at \in {"row", "stale row"} /\ deciding' = NoValue
      /\ UNCHANGED <<facts, revision, eligible, asking, advisories, verifying, verdicts>>
  BY DEF Advice!Record, Advice!Task
<1> DEFINE d == [key |-> deciding.key, of |-> deciding.of, what |-> deciding.what,
                 revision |-> deciding.revision, stale |-> deciding.at = "stale row"]
<1>2. /\ \/ UNCHANGED decisions
         \/ decisions' = decisions \cup {d} /\ ~Advice!Known(deciding.key, deciding.of)
      /\ d.key = deciding.key /\ d.of = deciding.of /\ d.what = deciding.what
      /\ d.revision = deciding.revision
  BY DEF Advice!Record
<1> HIDE DEF d
<1>3. Advice!AcceptsItsOwn'
  <2>1. deciding.what = "ACCEPT" =>
            /\ deciding.of.ok /\ deciding.revision = deciding.of.about.revision
            /\ deciding.of.choice \in deciding.of.about.listed
    BY <1>1 DEF Advice!DecidingTrue
  <2> QED
    BY <1>2, <2>1 DEF Advice!Advised, Advice!AcceptsItsOwn
<1>4. Advice!OncePerKey'
  BY <1>2 DEF Advice!Advised, Advice!OncePerKey, Advice!Known
<1>5. Advice!TypeOK'
  BY <1>1 DEF Advice!TypeOK
<1> QED
  BY <1>1, <1>3, <1>4, <1>5
  DEF Advice!AdvisoriesTrue, Advice!DecidingTrue, Advice!Numbered, Advice!Advised, Advice!OneState

\* The rows of one verifier request are written together, under a number nobody has.
LEMMA AdviceVerify ==
    ASSUME Advice!IndInv, Advice!Verify \/ Advice!Verdict
    PROVE  Advice!IndInv'
<1> USE DEF Advice!IndInv
<1> DEFINE Numbers == {v.id : v \in verdicts}
<1>1. PICK n \in 0..MaxAdvisories :
          /\ Numbers = 0..(n - 1)
          /\ verifying # NoValue => verifying.id = n /\ n < MaxAdvisories
  <2>1. Advice!Numbered
    OBVIOUS
  <2> QED
    BY <2>1, Zenon DEF Advice!Numbered
<1>2. UNCHANGED <<facts, revision, eligible, asking, advisories, deciding, decisions>>
  BY DEF Advice!Verify, Advice!Verdict, Advice!Task, Advice!Router
<1>3. ASSUME Advice!Numbered', Advice!OneState'
      PROVE  Advice!IndInv'
  <2>1. Advice!TypeOK'
    BY <1>2 DEF Advice!TypeOK, Advice!Decisions
  <2> QED
    BY <1>2, <1>3, <2>1
    DEF Advice!AdvisoriesTrue, Advice!DecidingTrue, Advice!Advised, Advice!AcceptsItsOwn,
        Advice!OncePerKey
<1>4. CASE Advice!Verify
  <2>1. n \in Nat /\ n <= MaxAdvisories /\ MaxAdvisories \in Nat
    BY AdviceAssumption
  <2>2. Cardinality(0..(n - 1)) = n
    BY <2>1, FS_Interval
  <2>3. verifying'.id = n /\ n < MaxAdvisories /\ verdicts' = verdicts
    BY <1>1, <1>4, <2>2, AdviceCardinality DEF Advice!Verify
  <2> QED
    BY <1>1, <1>3, <2>3 DEF Advice!Numbered, Advice!Advised, Advice!OneState
<1>5. CASE Advice!Verdict
  <2> DEFINE m == verifying.id
  <2>1. m = n /\ n < MaxAdvisories /\ verifying' = NoValue
    BY <1>1, <1>5 DEF Advice!Verdict
  <2>2. PICK answers : verdicts' = verdicts \cup
             {[id |-> m, facts |-> verifying.facts, signal |-> s, answer |-> answers[s]] : s \in Signals}
    BY <1>5 DEF Advice!Verdict
  <2> DEFINE New == {[id |-> m, facts |-> verifying.facts, signal |-> s, answer |-> answers[s]] : s \in Signals}
  <2>3. \A v \in New : v.id = m /\ v.facts = verifying.facts /\ v.signal \in Signals
    OBVIOUS
  <2>4. ASSUME NEW s \in Signals PROVE \E v \in New : v.signal = s
    <3>1. [id |-> m, facts |-> verifying.facts, signal |-> s, answer |-> answers[s]] \in New
      OBVIOUS
    <3> QED
      BY <3>1
  <2>5. \A v \in verdicts : v.id # m
    BY <1>1, <2>1, AdviceAssumption
  <2> HIDE DEF New, m
  <2>6. verdicts' = verdicts \cup New
    BY <2>2 DEF New, m
  <2>7. Advice!Numbered'
    <3>1. {v.id : v \in verdicts'} = Numbers \/ {v.id : v \in verdicts'} = Numbers \cup {m}
      BY <2>3, <2>6
    <3>2. Numbers \cup {m} = 0..((n + 1) - 1)
      BY <1>1, <2>1, AdviceAssumption
    <3>3. n + 1 \in 0..MaxAdvisories
      BY <2>1, AdviceAssumption
    <3> QED
      BY <1>1, <2>1, <3>1, <3>2, <3>3 DEF Advice!Numbered
  <2>8. Advice!OneState'
    <3> SUFFICES ASSUME NEW u \in verdicts', NEW v \in verdicts', u.id = v.id
                 PROVE  /\ u.facts = v.facts
                        /\ {w.signal : w \in {x \in verdicts' : x.id = u.id}} = Signals
      BY DEF Advice!OneState
    <3>1. CASE u \in verdicts
      <4>1. v \in verdicts
        BY <2>3, <2>5, <2>6, <3>1
      <4>2. {x \in verdicts' : x.id = u.id} = {x \in verdicts : x.id = u.id}
        BY <2>3, <2>5, <2>6, <3>1
      <4> QED
        BY <3>1, <4>1, <4>2 DEF Advice!Advised, Advice!OneState
    <3>2. CASE u \in New
      <4>1. v \in New /\ u.id = m
        BY <2>3, <2>5, <2>6, <3>2
      <4>2. {x \in verdicts' : x.id = u.id} = New
        BY <2>3, <2>5, <2>6, <4>1
      <4>3. {w.signal : w \in New} = Signals
        BY <2>3, <2>4
      <4> QED
        BY <2>3, <3>2, <4>1, <4>2, <4>3
    <3> QED
      BY <2>6, <3>1, <3>2
  <2> QED
    BY <1>3, <2>7, <2>8
<1> QED
  BY <1>4, <1>5

\* jev_task_router.decide_advisory and jev_result_verifier: an accepted advisory had an
\* answer, is recorded for the revision it was made for and names a candidate of then; a
\* key decides an advisory once; the answers of a verifier request are about one state.
THEOREM AdvisedCorrect == Spec => []Advised
<1>1. Init => Advice!IndInv
  BY AdviceInit DEF Init
<1>2. Advice!IndInv /\ [Next]_vars => Advice!IndInv'
  <2> SUFFICES ASSUME Advice!IndInv, [Next]_vars PROVE Advice!IndInv'
    OBVIOUS
  <2>1. CASE Advice!Next
    BY <2>1, AdviceChange, AdviceAsk, AdviceDecide, AdviceRecord, AdviceVerify DEF Advice!Next
  <2>2. CASE UNCHANGED advice
    BY <2>2
    DEF advice, Advice!IndInv, Advice!TypeOK, Advice!Decisions, Advice!AdvisoriesTrue,
        Advice!DecidingTrue, Advice!Numbered, Advice!Advised, Advice!AcceptsItsOwn,
        Advice!OncePerKey, Advice!OneState
  <2> QED
    BY <2>1, <2>2 DEF Next, vars
<1>3. Advice!IndInv => Advised
  BY DEF Advice!IndInv, Advised
<1> QED
  BY <1>1, <1>2, <1>3, PTL DEF Spec

(********************************* receipts ********************************)

LEMMA BridgeInit ==
    ASSUME Bridge!Init
    PROVE  Bridge!IndInv
<1>1. Bridge!TypeOK
  <2>1. <<>> \in Seq(Bridge!Requests) /\ <<>> \in Seq(Bridge!Lines)
    OBVIOUS
  <2> QED
    BY <2>1 DEF Bridge!Init, Bridge!TypeOK
<1>2. Bridge!OpTrue /\ Bridge!ReceiptsTrue
  BY DEF Bridge!Init, Bridge!OpTrue, Bridge!Free, Bridge!ReceiptsTrue
<1> QED
  BY <1>1, <1>2 DEF Bridge!Init, Bridge!IndInv

\* Requests and lines that were true stay true when the call under the lock ends, when
\* the next request raises the counter, and when a run moves on from where it was.
LEMMA BridgeStays ==
    ASSUME Bridge!IndInv, Bridge!TypeOK', known \subseteq known',
           \/ op' = Bridge!Free
           \/ counter' = counter + 1
           \/ op' = op /\ counter' = counter,
           counter <= counter',
           \A d \in Deliveries : \/ run'[d] = run[d]
                                 \/ run[d] = "none" /\ run'[d] = "active"
                                 \/ run[d] = "active" /\ run'[d] \in {"done", "aborted"}
    PROVE  /\ \A q \in Bridge!Requests : Bridge!RequestTrue(q) => Bridge!RequestTrue(q)'
           /\ \A line \in Bridge!Lines : Bridge!LineTrue(line) => Bridge!LineTrue(line)'
<1>1. counter \in Nat /\ counter' \in Nat
  BY DEF Bridge!IndInv, Bridge!TypeOK
<1>2. op # Bridge!Free => op.of \in Deliveries
  BY DEF Bridge!IndInv, Bridge!TypeOK
<1>3. ASSUME NEW x, x.id \in Nat, x.id <= counter, Bridge!Awaited(x)'
      PROVE  Bridge!Awaited(x) /\ op' = op
  BY <1>1, <1>3 DEF Bridge!Awaited
<1>4. ASSUME NEW x, x.id \in Nat, x.id <= counter
      PROVE  x.id <= counter'
  BY <1>1, <1>4
<1>5. ASSUME NEW q \in Bridge!Requests, Bridge!RequestTrue(q) PROVE Bridge!RequestTrue(q)'
  <2>1. q.id \in Nat /\ q.id <= counter
    BY <1>5 DEF Bridge!Requests, Bridge!RequestTrue
  <2> QED
    BY <1>3, <1>4, <1>5, <2>1 DEF Bridge!RequestTrue
<1>6. ASSUME NEW line \in Bridge!Lines, Bridge!LineTrue(line) PROVE Bridge!LineTrue(line)'
  <2>1. line.id \in Nat /\ line.id <= counter
    BY <1>6 DEF Bridge!Lines, Bridge!LineTrue
  <2>2. CASE ~Bridge!Awaited(line)'
    BY <1>4, <2>1, <2>2 DEF Bridge!LineTrue
  <2>3. CASE Bridge!Awaited(line)'
    <3>1. Bridge!Awaited(line) /\ op' = op /\ op.of \in Deliveries
      BY <1>2, <1>3, <2>1, <2>3 DEF Bridge!Awaited
    <3> QED
      BY <1>4, <1>6, <2>1, <3>1 DEF Bridge!LineTrue
  <2> QED
    BY <2>2, <2>3
<1> QED
  BY <1>5, <1>6

\* What BridgeStays keeps, as the invariant states it of the queues after the step.
BridgeKept ==
    /\ \A x \in flight' : Bridge!RequestTrue(x)'
    /\ \A i \in 1..Len(pipe') : (Bridge!LineTrue(pipe[i]))'
    /\ \A i \in 1..Len(buffer') : (Bridge!LineTrue(buffer[i]))'
    /\ node' # Bridge!Idle => node'.id <= counter'

LEMMA BridgeLines ==
    ASSUME Bridge!IndInv, Bridge!TypeOK', flight' \subseteq flight, node' \in {node, Bridge!Idle},
           \A q \in Bridge!Requests : Bridge!RequestTrue(q) => Bridge!RequestTrue(q)',
           \A line \in Bridge!Lines : Bridge!LineTrue(line) => Bridge!LineTrue(line)',
           \A i \in 1..Len(pipe') : Bridge!LineTrue(pipe'[i]),
           \A i \in 1..Len(buffer') : Bridge!LineTrue(buffer'[i]),
           counter <= counter'
    PROVE  BridgeKept
<1>1. \A i \in 1..Len(pipe') : (Bridge!LineTrue(pipe[i]))'
  <2> SUFFICES ASSUME NEW i \in 1..Len(pipe') PROVE (Bridge!LineTrue(pipe[i]))'
    OBVIOUS
  <2>1. pipe'[i] \in Bridge!Lines /\ Bridge!LineTrue(pipe'[i])
    BY DEF Bridge!TypeOK
  <2> QED
    BY <2>1 DEF Bridge!LineTrue, Bridge!Awaited
<1>2. \A i \in 1..Len(buffer') : (Bridge!LineTrue(buffer[i]))'
  <2> SUFFICES ASSUME NEW i \in 1..Len(buffer') PROVE (Bridge!LineTrue(buffer[i]))'
    OBVIOUS
  <2>1. buffer'[i] \in Bridge!Lines /\ Bridge!LineTrue(buffer'[i])
    BY DEF Bridge!TypeOK
  <2> QED
    BY <2>1 DEF Bridge!LineTrue, Bridge!Awaited
<1>3. \A x \in flight' : Bridge!RequestTrue(x)'
  BY DEF Bridge!IndInv, Bridge!TypeOK
<1>4. node' # Bridge!Idle => node'.id <= counter'
  <2>1. node # Bridge!Idle => node.id \in Nat /\ node.id <= counter
    BY DEF Bridge!IndInv, Bridge!TypeOK, Bridge!Requests
  <2>2. counter \in Nat /\ counter' \in Nat
    BY DEF Bridge!IndInv, Bridge!TypeOK
  <2> QED
    BY <2>1, <2>2
<1> QED
  BY <1>1, <1>2, <1>3, <1>4 DEF BridgeKept

\* The next request of the call under the lock.
LEMMA SendStep ==
    ASSUME Bridge!IndInv, NEW call \in {"deliver", "poll", "stop"}, NEW d \in Deliveries,
           NEW method \in Bridge!Methods, NEW s \in {"none", "ok", "pending"},
           Bridge!Send(call, d, method, s),
           method \in {"agent.wait", "chat.history"} => d \in known,
           s = "ok" => run[d] = "done", s = "pending" => d \in known,
           buffer' \in Seq(Bridge!Lines), pipe' \in Seq(Bridge!Lines),
           \A i \in 1..Len(buffer') : Bridge!LineTrue(buffer'[i]),
           \A i \in 1..Len(pipe') : Bridge!LineTrue(pipe'[i]),
           UNCHANGED <<node, flight, run, known, receipt>>
    PROVE  Bridge!IndInv'
<1> USE DEF Bridge!IndInv
<1>1. counter' = counter + 1 /\ op' = [call |-> call, of |-> d, status |-> s]
  BY DEF Bridge!Send
<1>2. counter \in Nat /\ stdin \in Seq(Bridge!Requests)
  BY DEF Bridge!TypeOK
<1>3. PICK q \in Bridge!Requests :
          stdin' = Append(stdin, q) /\ q.id = counter' /\ q.method = method /\ q.of = d
  <2>1. [id |-> counter', method |-> method, of |-> d] \in Bridge!Requests
    BY <1>1, <1>2 DEF Bridge!Requests
  <2> QED
    BY <2>1 DEF Bridge!Send
<1>4. stdin' \in Seq(Bridge!Requests) /\ Len(stdin') = Len(stdin) + 1
      /\ \A i \in 1..Len(stdin') : stdin'[i] = IF i <= Len(stdin) THEN stdin[i] ELSE q
  BY <1>2, <1>3
<1>5. Bridge!TypeOK'
  BY <1>1, <1>2, <1>4 DEF Bridge!TypeOK
<1>6. /\ \A x \in Bridge!Requests : Bridge!RequestTrue(x) => Bridge!RequestTrue(x)'
      /\ \A x \in Bridge!Lines : Bridge!LineTrue(x) => Bridge!LineTrue(x)'
  BY <1>1, <1>2, <1>5, BridgeStays
<1>7. Bridge!RequestTrue(q)'
  BY <1>1, <1>2, <1>3 DEF Bridge!RequestTrue, Bridge!Methods
<1>8. \A i \in 1..Len(stdin') : (Bridge!RequestTrue(stdin[i]))'
  <2> SUFFICES ASSUME NEW i \in 1..Len(stdin') PROVE (Bridge!RequestTrue(stdin[i]))'
    OBVIOUS
  <2>1. CASE i <= Len(stdin)
    <3>1. stdin'[i] = stdin[i] /\ stdin[i] \in Bridge!Requests /\ Bridge!RequestTrue(stdin[i])
      BY <1>2, <1>4, <2>1
    <3> QED
      BY <1>6, <3>1 DEF Bridge!RequestTrue, Bridge!Awaited
  <2>2. CASE ~(i <= Len(stdin))
    <3>1. stdin'[i] = q
      BY <1>2, <1>4, <2>2
    <3> QED
      BY <1>7, <3>1 DEF Bridge!RequestTrue, Bridge!Awaited
  <2> QED
    BY <2>1, <2>2
<1>9. BridgeKept
  BY <1>1, <1>2, <1>5, <1>6, BridgeLines
<1>10. Bridge!OpTrue'
  BY <1>1 DEF Bridge!OpTrue
<1>11. Bridge!ReceiptsTrue'
  BY DEF Bridge!ReceiptsTrue
<1> QED
  BY <1>5, <1>8, <1>9, <1>10, <1>11 DEF BridgeKept

\* The call under the lock ends with a receipt that is true.
LEMMA FinishStep ==
    ASSUME Bridge!IndInv, NEW d \in Deliveries,
           NEW r \in {"received", "responded", "stopped", "failed", "timed_out"},
           Bridge!Finish(d, r), known' \in SUBSET Deliveries, known \subseteq known',
           \A e \in known' : run[e] # "none",
           r = "received" => run[d] # "none", r = "responded" => run[d] = "done",
           r = "stopped" => run[d] = "aborted",
           buffer' \in Seq(Bridge!Lines), pipe' \in Seq(Bridge!Lines),
           \A i \in 1..Len(buffer') : Bridge!LineTrue(buffer'[i]),
           \A i \in 1..Len(pipe') : Bridge!LineTrue(pipe'[i]),
           UNCHANGED <<counter, stdin, node, flight, run>>
    PROVE  Bridge!IndInv'
<1> USE DEF Bridge!IndInv
<1>1. receipt' = [receipt EXCEPT ![d] = r] /\ op' = Bridge!Free
  BY DEF Bridge!Finish
<1>2. counter \in Nat
  BY DEF Bridge!TypeOK
<1>3. Bridge!TypeOK'
  BY <1>1 DEF Bridge!TypeOK
<1>4. /\ \A x \in Bridge!Requests : Bridge!RequestTrue(x) => Bridge!RequestTrue(x)'
      /\ \A x \in Bridge!Lines : Bridge!LineTrue(x) => Bridge!LineTrue(x)'
  BY <1>1, <1>2, <1>3, BridgeStays
<1>5. \A i \in 1..Len(stdin') : (Bridge!RequestTrue(stdin[i]))'
  <2> SUFFICES ASSUME NEW i \in 1..Len(stdin) PROVE (Bridge!RequestTrue(stdin[i]))'
    OBVIOUS
  <2>1. stdin'[i] = stdin[i] /\ stdin[i] \in Bridge!Requests /\ Bridge!RequestTrue(stdin[i])
    BY DEF Bridge!TypeOK
  <2> QED
    BY <1>4, <2>1 DEF Bridge!RequestTrue, Bridge!Awaited
<1>6. BridgeKept
  BY <1>2, <1>3, <1>4, BridgeLines
<1>7. Bridge!OpTrue'
  BY <1>1 DEF Bridge!OpTrue, Bridge!Free
<1>8. Bridge!ReceiptsTrue'
  BY <1>1 DEF Bridge!ReceiptsTrue, Bridge!TypeOK
<1> QED
  BY <1>3, <1>5, <1>6, <1>7, <1>8 DEF BridgeKept

\* Python's side: what is made of the first line of all, or of none.
LEMMA ReadStep ==
    ASSUME Bridge!IndInv, Bridge!Read
    PROVE  Bridge!IndInv'
<1> USE DEF Bridge!IndInv
<1> DEFINE lines == buffer \o pipe
           line == Head(lines)
<1>1. /\ op # Bridge!Free /\ pipe # <<>> /\ buffer' = Tail(lines) /\ pipe' = <<>>
      /\ IF Bridge!Matches(line) THEN Bridge!Accepted(line.method, op.of, line.value)
                                 ELSE Bridge!Refused(op.of, "failed")
      /\ UNCHANGED <<node, flight, run>>
  BY DEF Bridge!Read
<1>2. pipe \in Seq(Bridge!Lines) /\ buffer \in Seq(Bridge!Lines)
  BY DEF Bridge!TypeOK
<1>3. lines \in Seq(Bridge!Lines) /\ Len(lines) = Len(buffer) + Len(pipe) /\ lines # <<>>
      /\ \A i \in 1..Len(lines) :
            lines[i] = IF i <= Len(buffer) THEN buffer[i] ELSE pipe[i - Len(buffer)]
  BY <1>1, <1>2
<1>4. \A i \in 1..Len(lines) : Bridge!LineTrue(lines[i])
  <2> HIDE DEF lines
  <2> SUFFICES ASSUME NEW i \in 1..Len(lines) PROVE Bridge!LineTrue(lines[i])
    OBVIOUS
  <2>1. CASE i <= Len(buffer)
    BY <1>2, <1>3, <2>1
  <2>2. CASE ~(i <= Len(buffer))
    <3>1. i - Len(buffer) \in 1..Len(pipe)
      BY <1>2, <1>3, <2>2
    <3> QED
      BY <1>3, <2>2, <3>1
  <2> QED
    BY <2>1, <2>2
<1> HIDE DEF lines
<1>5. /\ line \in Bridge!Lines /\ Bridge!LineTrue(line)
      /\ Tail(lines) \in Seq(Bridge!Lines) /\ Len(lines) \in Nat /\ Len(lines) > 0
      /\ Len(Tail(lines)) = Len(lines) - 1
      /\ \A i \in 1..Len(Tail(lines)) : Tail(lines)[i] = lines[i + 1]
  BY <1>3, <1>4
<1>6. /\ buffer' \in Seq(Bridge!Lines) /\ pipe' \in Seq(Bridge!Lines)
      /\ \A i \in 1..Len(buffer') : Bridge!LineTrue(buffer'[i])
      /\ \A i \in 1..Len(pipe') : Bridge!LineTrue(pipe'[i])
  <2>1. buffer' = Tail(lines) /\ pipe' = <<>>
    BY <1>1
  <2>2. ASSUME NEW i \in 1..Len(Tail(lines)) PROVE Bridge!LineTrue(Tail(lines)[i])
    <3>1. i + 1 \in 1..Len(lines)
      BY <1>5
    <3> QED
      BY <1>4, <1>5, <3>1
  <2> QED
    BY <1>5, <2>1, <2>2
<1> HIDE DEF line
<1>7. /\ op.of \in Deliveries /\ op.status \in {"none", "ok", "pending"}
      /\ op.status = "ok" => run[op.of] = "done"
      /\ op.status = "pending" => op.of \in known
      /\ known \in SUBSET Deliveries /\ \A e \in known : run[e] # "none"
  BY <1>1 DEF Bridge!TypeOK, Bridge!OpTrue, Bridge!ReceiptsTrue
<1>8. CASE Bridge!Refused(op.of, "failed")
  BY <1>1, <1>6, <1>7, <1>8, FinishStep DEF Bridge!Refused, Bridge!NoRequest
<1>9. CASE Bridge!Matches(line) /\ Bridge!Accepted(line.method, op.of, line.value)
  <2> DEFINE d == op.of
  <2>1. /\ line.method \in {"agent.wait", "chat.history"} => d \in known
        /\ line.method = "agent" => run[d] # "none"
        /\ line.method = "agent.wait" => line.value \in {"ok", "error", "pending"}
        /\ line.value = "ok" => run[d] = "done"
        /\ line.method = "chat.abort" /\ line.value = "aborted" => run[d] = "aborted"
    BY <1>1, <1>5, <1>9 DEF Bridge!Matches, Bridge!LineTrue, Bridge!Awaited
  <2>2. CASE line.method = "agent"
    <3>1. known' = known \cup {d} /\ Bridge!Finish(d, "received") /\ UNCHANGED <<counter, stdin>>
      BY <1>9, <2>2 DEF Bridge!Accepted, Bridge!NoRequest
    <3> QED
      BY <1>1, <1>6, <1>7, <2>1, <2>2, <3>1, FinishStep
  <2>3. CASE line.method = "agent.wait" /\ line.value = "error"
    <3>1. Bridge!Finish(d, "failed") /\ UNCHANGED <<counter, stdin, known>>
      BY <1>9, <2>3 DEF Bridge!Accepted, Bridge!NoRequest
    <3> QED
      BY <1>1, <1>6, <1>7, <3>1, FinishStep
  <2>4. CASE line.method = "agent.wait" /\ line.value # "error"
    <3>1. Bridge!Send("poll", d, "chat.history", line.value) /\ UNCHANGED <<known, receipt>>
      BY <1>9, <2>4 DEF Bridge!Accepted, Bridge!NoRequest
    <3> QED
      BY <1>1, <1>6, <1>7, <2>1, <2>4, <3>1, SendStep DEF Bridge!Methods
  <2>5. CASE line.method = "chat.history"
    <3>1. Bridge!Finish(d, IF op.status = "ok" \/ line.value = "ok" THEN "responded" ELSE "received")
          /\ UNCHANGED <<counter, stdin, known>>
      BY <1>9, <2>5 DEF Bridge!Accepted, Bridge!NoRequest
    <3> QED
      BY <1>1, <1>6, <1>7, <2>1, <2>5, <3>1, FinishStep
  <2>6. CASE line.method = "bridge.status"
    <3>1. Bridge!Send("stop", d, "chat.abort", "none") /\ UNCHANGED <<known, receipt>>
      BY <1>9, <2>6 DEF Bridge!Accepted, Bridge!NoRequest
    <3> QED
      BY <1>1, <1>6, <1>7, <3>1, SendStep DEF Bridge!Methods
  <2>7. CASE line.method = "chat.abort"
    <3>1. Bridge!Finish(d, IF line.value = "aborted" THEN "stopped" ELSE "failed")
          /\ UNCHANGED <<counter, stdin, known>>
      BY <1>9, <2>7 DEF Bridge!Accepted, Bridge!NoRequest
    <3> QED
      BY <1>1, <1>6, <1>7, <2>1, <2>7, <3>1, FinishStep
  <2> QED
    BY <1>9, <2>2, <2>3, <2>4, <2>5, <2>6, <2>7 DEF Bridge!Accepted
<1> QED
  BY <1>1, <1>8, <1>9

\* The other side moves requests, adds at most one line, and lets runs move on.
LEMMA NodeSide ==
    ASSUME Bridge!IndInv, UNCHANGED <<counter, op, buffer, known, receipt>>,
           stdin' \in Seq(Bridge!Requests), flight' \in SUBSET Bridge!Requests,
           node' \in Bridge!Requests \cup {Bridge!Idle},
           run' \in [Deliveries -> {"none", "active", "done", "aborted"}],
           NEW line \in Bridge!Lines,
           \/ pipe' = pipe
           \/ pipe' = Append(pipe, line) /\ Bridge!LineTrue(line)',
           \A i \in 1..Len(stdin') : \E j \in 1..Len(stdin) : stdin'[i] = stdin[j],
           \A q \in flight' : Bridge!RequestTrue(q),
           node' # Bridge!Idle => node'.id <= counter,
           \A d \in Deliveries : \/ run'[d] = run[d]
                                 \/ run[d] = "none" /\ run'[d] = "active"
                                 \/ run[d] = "active" /\ run'[d] \in {"done", "aborted"}
    PROVE  Bridge!IndInv'
<1> USE DEF Bridge!IndInv
<1>1. pipe \in Seq(Bridge!Lines) /\ pipe' \in Seq(Bridge!Lines) /\ counter \in Nat
  <2>1. pipe \in Seq(Bridge!Lines) /\ counter \in Nat
    BY DEF Bridge!TypeOK
  <2>2. Append(pipe, line) \in Seq(Bridge!Lines)
    BY <2>1
  <2> QED
    BY <2>1, <2>2
<1>2. Bridge!TypeOK'
  BY <1>1 DEF Bridge!TypeOK
<1>3. /\ \A x \in Bridge!Requests : Bridge!RequestTrue(x) => Bridge!RequestTrue(x)'
      /\ \A x \in Bridge!Lines : Bridge!LineTrue(x) => Bridge!LineTrue(x)'
  BY <1>1, <1>2, BridgeStays
<1>4. \A i \in 1..Len(stdin') : (Bridge!RequestTrue(stdin[i]))'
  <2> SUFFICES ASSUME NEW i \in 1..Len(stdin') PROVE (Bridge!RequestTrue(stdin[i]))'
    OBVIOUS
  <2>1. stdin'[i] \in Bridge!Requests /\ Bridge!RequestTrue(stdin'[i])
    OBVIOUS
  <2> QED
    BY <1>3, <2>1 DEF Bridge!RequestTrue, Bridge!Awaited
<1>5. \A q \in flight' : Bridge!RequestTrue(q)'
  BY <1>3
<1>6. \A i \in 1..Len(pipe') : (Bridge!LineTrue(pipe[i]))'
  <2> SUFFICES ASSUME NEW i \in 1..Len(pipe') PROVE (Bridge!LineTrue(pipe[i]))'
    OBVIOUS
  <2>1. CASE i \in 1..Len(pipe)
    <3>1. pipe'[i] = pipe[i] /\ pipe[i] \in Bridge!Lines /\ Bridge!LineTrue(pipe[i])
      BY <1>1, <2>1
    <3> QED
      BY <1>3, <3>1 DEF Bridge!LineTrue, Bridge!Awaited
  <2>2. CASE i \notin 1..Len(pipe)
    <3>1. pipe'[i] = line /\ Bridge!LineTrue(line)'
      BY <1>1, <2>2
    <3> QED
      BY <3>1 DEF Bridge!LineTrue, Bridge!Awaited
  <2> QED
    BY <2>1, <2>2
<1>7. \A i \in 1..Len(buffer') : (Bridge!LineTrue(buffer[i]))'
  <2> SUFFICES ASSUME NEW i \in 1..Len(buffer) PROVE (Bridge!LineTrue(buffer[i]))'
    OBVIOUS
  <2>1. buffer'[i] = buffer[i] /\ buffer[i] \in Bridge!Lines /\ Bridge!LineTrue(buffer[i])
    BY DEF Bridge!TypeOK
  <2> QED
    BY <1>3, <2>1 DEF Bridge!LineTrue, Bridge!Awaited
<1>8. Bridge!OpTrue'
  <2>1. op # Bridge!Free => op.of \in Deliveries
    BY DEF Bridge!TypeOK
  <2>2. op = Bridge!Free => op.status = "none"
    BY DEF Bridge!Free
  <2> QED
    BY <2>1, <2>2 DEF Bridge!OpTrue
<1>9. Bridge!ReceiptsTrue'
  BY DEF Bridge!ReceiptsTrue
<1> QED
  BY <1>2, <1>4, <1>5, <1>6, <1>7, <1>8, <1>9

LEMMA ExecuteStep ==
    ASSUME Bridge!IndInv, NEW q \in flight, Bridge!GatewayExecutes(q)
    PROVE  Bridge!IndInv'
<1> USE DEF Bridge!IndInv
<1> DEFINE line == Bridge!Line(q, TRUE, Bridge!Outcome(q.method, run[q.of]))
<1>1. /\ q \in Bridge!Requests /\ Bridge!RequestTrue(q) /\ q.of \in Deliveries
      /\ q.id \in Nat /\ q.method \in Bridge!Methods /\ q.id <= counter
      /\ run[q.of] \in {"none", "active", "done", "aborted"}
  BY DEF Bridge!TypeOK, Bridge!Requests, Bridge!RequestTrue
<1>2. /\ run' = [run EXCEPT ![q.of] = CASE q.method = "agent" /\ run[q.of] = "none" -> "active"
                                       [] q.method = "chat.abort" /\ run[q.of] = "active" -> "aborted"
                                       [] OTHER -> run[q.of]]
      /\ flight' = flight \ {q}
      /\ IF node = q THEN node' = Bridge!Idle /\ pipe' = Append(pipe, line) ELSE UNCHANGED <<node, pipe>>
      /\ UNCHANGED <<counter, op, stdin, buffer, known, receipt>>
  BY DEF Bridge!GatewayExecutes
<1>3. run'[q.of] = CASE q.method = "agent" /\ run[q.of] = "none" -> "active"
                     [] q.method = "chat.abort" /\ run[q.of] = "active" -> "aborted"
                     [] OTHER -> run[q.of]
  BY <1>1, <1>2 DEF Bridge!TypeOK
<1>4. \A d \in Deliveries : d # q.of => run'[d] = run[d]
  BY <1>2 DEF Bridge!TypeOK
<1>5. /\ run' \in [Deliveries -> {"none", "active", "done", "aborted"}]
      /\ \/ run'[q.of] = run[q.of]
         \/ run[q.of] = "none" /\ run'[q.of] = "active"
         \/ run[q.of] = "active" /\ run'[q.of] \in {"done", "aborted"}
  <2>1. run'[q.of] \in {"none", "active", "done", "aborted"}
    BY <1>1, <1>3
  <2>2. run' = [run EXCEPT ![q.of] = run'[q.of]]
    BY <1>2, <1>3
  <2>3. run' \in [Deliveries -> {"none", "active", "done", "aborted"}]
    BY <2>1, <2>2 DEF Bridge!TypeOK
  <2> QED
    BY <1>1, <1>3, <2>3
<1>6. PICK l \in Bridge!Lines :
          l = line /\ l.id = q.id /\ l.ok = TRUE /\ l.method = q.method
          /\ l.value = Bridge!Outcome(q.method, run[q.of])
  <2>1. Bridge!Outcome(q.method, run[q.of]) \in Bridge!Values
    BY <1>1 DEF Bridge!Outcome, Bridge!Values
  <2>2. line \in Bridge!Lines
    BY <1>1, <2>1 DEF Bridge!Line, Bridge!Lines
  <2> QED
    BY <2>2 DEF Bridge!Line
<1>7. IF node = q THEN node' = Bridge!Idle /\ pipe' = Append(pipe, l) ELSE UNCHANGED <<node, pipe>>
  BY <1>2, <1>6
<1> HIDE DEF line
<1>8. /\ q.method = "agent" => run'[q.of] # "none"
      /\ q.method = "agent.wait" => l.value \in {"ok", "error", "pending"}
      /\ l.value = "ok" => run'[q.of] = "done"
      /\ q.method = "chat.abort" /\ l.value = "aborted" => run'[q.of] = "aborted"
  BY <1>1, <1>3, <1>6 DEF Bridge!Outcome
<1>9. Bridge!LineTrue(l)'
  <2>1. Bridge!Awaited(l)' => Bridge!Awaited(q) /\ op' = op
    BY <1>2, <1>6 DEF Bridge!Awaited
  <2>2. Bridge!Awaited(l)' =>
            q.of = op'.of /\ (q.method \in {"agent.wait", "chat.history"} => op'.of \in known)
    BY <1>1, <2>1 DEF Bridge!RequestTrue
  <2>3. l.id <= counter'
    BY <1>1, <1>2, <1>6
  <2> QED
    BY <1>2, <1>6, <1>8, <2>2, <2>3 DEF Bridge!LineTrue
<1>10. /\ stdin' \in Seq(Bridge!Requests) /\ flight' \in SUBSET Bridge!Requests
       /\ node' \in Bridge!Requests \cup {Bridge!Idle}
       /\ node' # Bridge!Idle => node'.id <= counter
  BY <1>2 DEF Bridge!TypeOK
<1> QED
  BY <1>2, <1>4, <1>5, <1>6, <1>7, <1>9, <1>10, NodeSide

LEMMA BridgeStep ==
    ASSUME Bridge!IndInv, Bridge!Next
    PROVE  Bridge!IndInv'
<1> USE DEF Bridge!IndInv
<1>1. /\ pipe \in Seq(Bridge!Lines) /\ buffer \in Seq(Bridge!Lines) /\ stdin \in Seq(Bridge!Requests)
      /\ flight \in SUBSET Bridge!Requests /\ node \in Bridge!Requests \cup {Bridge!Idle}
      /\ run \in [Deliveries -> {"none", "active", "done", "aborted"}]
      /\ known \in SUBSET Deliveries /\ counter \in Nat
  BY DEF Bridge!TypeOK
<1>2. ASSUME NEW d \in Deliveries, Bridge!Deliver(d) PROVE Bridge!IndInv'
  BY <1>1, <1>2, SendStep DEF Bridge!Deliver, Bridge!Methods
<1>3. ASSUME NEW d \in Deliveries, Bridge!Poll(d) PROVE Bridge!IndInv'
  BY <1>1, <1>3, SendStep DEF Bridge!Poll, Bridge!Methods
<1>4. ASSUME NEW d \in Deliveries, Bridge!Stop(d) PROVE Bridge!IndInv'
  BY <1>1, <1>4, SendStep DEF Bridge!Stop, Bridge!Methods
<1>5. ASSUME NEW d \in Deliveries, Bridge!RunEnds(d) PROVE Bridge!IndInv'
  <2> DEFINE line == [id |-> 0, ok |-> FALSE, method |-> "agent", value |-> "none"]
  <2>1. line \in Bridge!Lines
    BY DEF Bridge!Lines, Bridge!Methods, Bridge!Values
  <2>2. /\ UNCHANGED <<counter, op, stdin, node, flight, pipe, buffer, known, receipt>>
        /\ run' \in [Deliveries -> {"none", "active", "done", "aborted"}]
        /\ run[d] = "active" /\ run'[d] = "done" /\ \A e \in Deliveries : e # d => run'[e] = run[e]
    BY <1>1, <1>5 DEF Bridge!RunEnds
  <2> HIDE DEF line
  <2> QED
    BY <1>1, <2>1, <2>2, NodeSide
<1>6. CASE Bridge!ReadTimeout
  <2>1. /\ op.of \in Deliveries /\ op.status \in {"none", "ok", "pending"}
        /\ op.status = "ok" => run[op.of] = "done"
        /\ op.status = "pending" => op.of \in known
        /\ \A e \in known : run[e] # "none"
    BY <1>6 DEF Bridge!ReadTimeout, Bridge!TypeOK, Bridge!OpTrue, Bridge!ReceiptsTrue
  <2> QED
    BY <1>1, <1>6, <2>1, FinishStep DEF Bridge!ReadTimeout, Bridge!Refused, Bridge!NoRequest
<1>7. CASE Bridge!NodeTakes
  <2> DEFINE h == Head(stdin)
  <2>1. /\ h \in Bridge!Requests /\ Bridge!RequestTrue(h) /\ Tail(stdin) \in Seq(Bridge!Requests)
        /\ \A i \in 1..Len(Tail(stdin)) : i + 1 \in 1..Len(stdin) /\ Tail(stdin)[i] = stdin[i + 1]
    BY <1>1, <1>7 DEF Bridge!NodeTakes
  <2>2. PICK q \in Bridge!Requests : q = h
    BY <2>1
  <2>3. /\ q.id \in Nat /\ q.id <= counter /\ q.method \in Bridge!Methods
        /\ Bridge!RequestTrue(q)
    BY <2>1, <2>2 DEF Bridge!RequestTrue, Bridge!Requests
  <2>4. PICK l \in Bridge!Lines : /\ l = Bridge!Line(q, TRUE, "connected")
                                 /\ l.id = q.id /\ l.method = q.method /\ l.value = "connected"
    <3>1. "connected" \in Bridge!Values
      BY DEF Bridge!Values
    <3>2. Bridge!Line(q, TRUE, "connected") \in Bridge!Lines
      BY <2>3, <3>1 DEF Bridge!Line, Bridge!Lines
    <3> QED
      BY <3>2 DEF Bridge!Line
  <2>5. /\ stdin' = Tail(stdin) /\ UNCHANGED <<counter, op, buffer, run, known, receipt>>
        /\ \/ /\ q.method = "bridge.status" /\ pipe' = Append(pipe, l)
              /\ UNCHANGED <<node, flight>>
           \/ node' = q /\ flight' = flight \cup {q} /\ UNCHANGED pipe
    BY <1>7, <2>2, <2>4 DEF Bridge!NodeTakes
  <2> HIDE DEF h
  <2>6. q.method = "bridge.status" => Bridge!LineTrue(l)'
    BY <2>3, <2>4, <2>5 DEF Bridge!LineTrue
  <2>7. /\ flight' \in SUBSET Bridge!Requests /\ \A x \in flight' : Bridge!RequestTrue(x)
        /\ node' \in Bridge!Requests \cup {Bridge!Idle}
        /\ node' # Bridge!Idle => node'.id <= counter
    BY <1>1, <2>3, <2>5
  <2>8. /\ \A i \in 1..Len(stdin') : \E j \in 1..Len(stdin) : stdin'[i] = stdin[j]
        /\ stdin' \in Seq(Bridge!Requests)
    BY <2>1, <2>5
  <2>9. \/ pipe' = pipe
        \/ pipe' = Append(pipe, l) /\ Bridge!LineTrue(l)'
    BY <2>5, <2>6
  <2> QED
    BY <1>1, <2>5, <2>7, <2>8, <2>9, NodeSide
<1>8. CASE Bridge!NodeTimeout
  <2>1. /\ node \in Bridge!Requests /\ node.id \in Nat /\ node.id <= counter
        /\ node.method \in Bridge!Methods
        /\ node' = Bridge!Idle /\ pipe' = Append(pipe, Bridge!Line(node, FALSE, "none"))
        /\ UNCHANGED <<counter, op, stdin, flight, buffer, run, known, receipt>>
    BY <1>1, <1>8 DEF Bridge!NodeTimeout, Bridge!Requests
  <2>2. PICK l \in Bridge!Lines :
            l = Bridge!Line(node, FALSE, "none") /\ l.id = node.id /\ l.ok = FALSE
    <3>1. "none" \in Bridge!Values
      BY DEF Bridge!Values
    <3>2. Bridge!Line(node, FALSE, "none") \in Bridge!Lines
      BY <2>1, <3>1 DEF Bridge!Line, Bridge!Lines
    <3> QED
      BY <3>2 DEF Bridge!Line
  <2>3. Bridge!LineTrue(l)'
    BY <2>1, <2>2 DEF Bridge!LineTrue
  <2> QED
    BY <1>1, <2>1, <2>2, <2>3, NodeSide
<1> QED
  BY <1>2, <1>3, <1>4, <1>5, <1>6, <1>7, <1>8, ReadStep, ExecuteStep DEF Bridge!Next

\* OpenClawSessionAdapter and PersistentGatewayBridge: over timeouts on both sides and
\* lines read by the wrong request, received means there is a run at the Gateway,
\* responded that it finished, stopped that it was aborted.
THEOREM ReceiptsCorrect == Spec => []ReceiptsTrue
<1>1. Init => Bridge!IndInv
  BY BridgeInit DEF Init
<1>2. Bridge!IndInv /\ [Next]_vars => Bridge!IndInv'
  <2> SUFFICES ASSUME Bridge!IndInv, [Next]_vars PROVE Bridge!IndInv'
    OBVIOUS
  <2>1. CASE UNCHANGED bridge
    BY <2>1
    DEF bridge, Bridge!IndInv, Bridge!TypeOK, Bridge!OpTrue, Bridge!ReceiptsTrue,
        Bridge!RequestTrue, Bridge!LineTrue, Bridge!Awaited
  <2> QED
    BY <2>1, BridgeStep DEF Next, vars
<1>3. Bridge!IndInv => ReceiptsTrue
  BY DEF Bridge!IndInv, ReceiptsTrue
<1> QED
  BY <1>1, <1>2, <1>3, PTL DEF Spec
==================================================================================
