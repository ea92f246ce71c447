------------------------------- MODULE StageProofs -------------------------------
(***************************************************************************)
(* Theorems about the stage recoveries, StageRecovery as a part of         *)
(* MCServices: for any team, and any number of revisions and QA cycles of  *)
(* its task.                                                               *)
(***************************************************************************)
EXTENDS MCServices, AlgorithmProofs   \* for its least elements

(******************************** the measure ******************************)

LEMMA StageRanks ==
    /\ Stage!Rank("rework_required") = 0 /\ Stage!Rank("awaiting_approval") = 1
    /\ Stage!Rank("running") = 2 /\ Stage!Rank("qa") = 3 /\ Stage!Rank("completed") = 4
    /\ \A s \in Stage!Statuses : Stage!Rank(s) \in Nat
  BY DEF Stage!Rank, Stage!Statuses

LEMMA StageProgress ==
    \A v \in Stage!Reviews : /\ Stage!Progress(v) \in Nat
                             /\ v.st = "absent" => Stage!Progress(v) = 0
                             /\ v.st = "queued" => Stage!Progress(v) = 1
                             /\ v.st \in {"responded", "failed"} => Stage!Progress(v) = 2
  BY DEF Stage!Progress, Stage!Reviews

LEMMA StageShown ==
    ASSUME Stage!TypeOK
    PROVE  /\ Stage!Shown \in Stage!Reviews
           /\ rev <= MaxRev => rev \in 1..MaxRev /\ Stage!Shown = review[rev]
           /\ rev > MaxRev => Stage!Shown = Stage!NoReview
<1>1. Stage!NoReview \in Stage!Reviews
  BY DEF Stage!NoReview, Stage!Reviews
<1> QED
  BY <1>1, StageAssumption DEF Stage!TypeOK, Stage!Shown

\* The task, or its review, gets further: in a later revision, cycle, status or answer.
Climbs == \/ rev < rev'
          \/ rev = rev' /\ cycle < cycle'
          \/ rev = rev' /\ cycle = cycle' /\ Stage!Rank(taskStatus) < Stage!Rank(taskStatus')
          \/ /\ UNCHANGED <<taskStatus, rev, cycle>>
             /\ Stage!Progress(Stage!Shown) < Stage!Progress(Stage!Shown')
Level == /\ UNCHANGED <<taskStatus, rev, cycle, moved>>
         /\ Stage!Progress(Stage!Shown') = Stage!Progress(Stage!Shown)

\* A step that keeps its place, or climbs, leaves what a slow client holds below the task
\* if the task has moved; a token may be used up.
LEMMA StageTokens ==
    ASSUME Stage!TypeOK, Stage!TypeOK', Stage!TokenTrue, Climbs \/ Level,
           context' \in {context, NoToken}
    PROVE  Stage!TokenTrue'
<1> SUFFICES ASSUME context' # NoToken PROVE Stage!TokenTrue'
  BY DEF Stage!TokenTrue
<1> DEFINE p == Stage!Progress(Stage!Shown)
           q == Stage!Progress(Stage!Shown')
<1>1. context' = context /\ context # NoToken
  OBVIOUS
<1>2. PICK s \in Stage!Statuses, r \in Nat, c \in Nat, v \in Stage!Reviews :
         /\ s = context[1][1] /\ r = context[1][2] /\ c = context[1][3] /\ v = context[4]
         /\ \/ Stage!Below(s, r, c, v)
            \/ /\ ~moved /\ context[1] = <<taskStatus, rev, cycle>>
               /\ Stage!Progress(v) = p
  BY <1>1 DEF Stage!TokenTrue, Stage!task
<1>3. /\ p \in Nat /\ q \in Nat /\ Stage!Progress(v) \in Nat
      /\ Stage!Rank(s) \in Nat /\ Stage!Rank(taskStatus) \in Nat
      /\ Stage!Rank(taskStatus') \in Nat
      /\ rev \in Nat /\ rev' \in Nat /\ cycle \in Nat /\ cycle' \in Nat
  <2>1. Stage!Shown \in Stage!Reviews
    BY StageShown
  <2>2. Stage!Shown' \in Stage!Reviews
    BY StageAssumption DEF Stage!TypeOK, Stage!Shown, Stage!NoReview, Stage!Reviews
  <2> QED
    BY <1>2, <2>1, <2>2, StageRanks, StageProgress DEF Stage!TypeOK
<1> DEFINE Under(t, n, m, z, x) == \/ r < n
                                   \/ r = n /\ c < m
                                   \/ r = n /\ c = m /\ Stage!Rank(s) < z
                                   \/ r = n /\ c = m /\ s = t /\ Stage!Progress(v) < x
<1>4. /\ Stage!Below(s, r, c, v) <=> Under(taskStatus, rev, cycle, Stage!Rank(taskStatus), p)
      /\ Stage!Below(s, r, c, v)'
         <=> Under(taskStatus', rev', cycle', Stage!Rank(taskStatus'), q)
  BY DEF Stage!Below
<1>5. /\ Climbs <=> \/ rev < rev'
                    \/ rev = rev' /\ cycle < cycle'
                    \/ /\ rev = rev' /\ cycle = cycle'
                       /\ Stage!Rank(taskStatus) < Stage!Rank(taskStatus')
                    \/ UNCHANGED <<taskStatus, rev, cycle>> /\ p < q
      /\ Level <=> UNCHANGED <<taskStatus, rev, cycle, moved>> /\ q = p
  BY DEF Climbs, Level
<1> HIDE DEF p, q
<1>6. \/ Stage!Below(s, r, c, v)'
      \/ ~moved' /\ context[1] = <<taskStatus', rev', cycle'>> /\ Stage!Progress(v) = q
  <2>1. CASE Stage!Below(s, r, c, v)
    BY <1>3, <1>4, <1>5, <2>1
  <2>2. CASE ~moved /\ context[1] = <<taskStatus, rev, cycle>> /\ Stage!Progress(v) = p
    <3>1. s = taskStatus /\ r = rev /\ c = cycle
      BY <1>2, <2>2
    <3> QED
      BY <1>3, <1>4, <1>5, <2>2, <3>1
  <2> QED
    BY <1>2, <2>1, <2>2
<1>7. /\ context'[1][1] \in Stage!Statuses /\ context'[1][2] \in Nat
      /\ context'[1][3] \in Nat /\ context'[4] \in Stage!Reviews
      /\ \/ Stage!Below(context[1][1], context[1][2], context[1][3], context[4])'
         \/ ~moved' /\ context'[1] = <<taskStatus', rev', cycle'>>
            /\ Stage!Progress(context'[4]) = q
  BY <1>1, <1>2, <1>4, <1>6 DEF Stage!Below, p, q
<1> QED
  BY <1>7 DEF Stage!TokenTrue, Stage!task, q

(******************************* the evidence ******************************)

\* Among those who have answered in revision r, somebody is the first in the team.
LEMMA StageFirst ==
    ASSUME NEW w, NEW r, Stage!Responded(w, r) # {}
    PROVE  /\ Stage!First(Stage!Responded(w, r)) \in Stage!Runs
           /\ w[Stage!First(Stage!Responded(w, r))] = "responded"
<1> DEFINE K == Stage!Responded(w, r)
           places == {m \in DOMAIN Team : \E k \in K : k[2] = Team[m]}
<1>1. \A k \in K : /\ k \in Stage!Runs /\ w[k] = "responded"
                   /\ \E m \in DOMAIN Team : k[2] = Team[m]
  BY DEF Stage!Responded, Stage!Keys, Stage!Runs, Stage!Worker
<1>2. \E k \in K : \A j \in K : \E m, n \in DOMAIN Team :
         k[2] = Team[m] /\ j[2] = Team[n] /\ m <= n
  <2>1. places \in SUBSET Nat /\ places # {}
    BY <1>1, StageAssumption
  <2>2. PICK m \in places : \A n \in places : m <= n
    <3> HIDE DEF places
    <3> QED
      BY <2>1, LeastNumber
  <2>3. PICK k \in K : k[2] = Team[m]
    BY <2>2
  <2>4. ASSUME NEW j \in K
        PROVE  \E n \in DOMAIN Team : j[2] = Team[n] /\ m <= n
    <3>1. PICK n \in DOMAIN Team : j[2] = Team[n]
      BY <1>1
    <3> QED
      BY <2>2, <3>1
  <2> QED
    BY <2>2, <2>3, <2>4
<1>3. Stage!First(K) \in K
  BY <1>2 DEF Stage!First
<1> QED
  BY <1>1, <1>3

\* Captured evidence is of an answered delivery.
LEMMA StageCaptured ==
    ASSUME NEW w, NEW c
    PROVE  /\ evidence \subseteq Stage!Captured(w, c)
           /\ \A e \in Stage!Captured(w, c) : \/ e \in evidence
                                              \/ e.of \in Stage!Runs /\ w[e.of] = "responded"
  BY StageFirst DEF Stage!Captured

\* Copied evidence is named after the run whose recovery it serves.
LEMMA StageCopied ==
    ASSUME NEW E, NEW n, NEW k
    PROVE  /\ evidence \subseteq Stage!Copied(E, n, k)
           /\ \A e \in Stage!Copied(E, n, k) : e \in evidence \/ e.of = k
  BY DEF Stage!Copied

Grounded(e) == \/ e.of \in Stage!Runs /\ work[e.of] = "responded"
               \/ \E h \in revalidated : h[2] = e.of

\* Answers, evidence and accepted responses stay; what is added is grounded.
Keeps ==
    /\ profiled' = profiled
    /\ \A k \in Stage!Runs :
          /\ work[k] = "responded" => work'[k] = "responded" /\ coreRun'[k] = coreRun[k]
          /\ work'[k] = "responded" => work[k] = "responded" \/ coreRun'[k] = "pass"
    /\ \A k \in Stage!Runs :
          work[k] = "absent" => \/ work'[k] = "absent"
                                \/ k[1] = rev /\ taskStatus' = "running"
    /\ evidence \subseteq evidence' /\ revalidated \subseteq revalidated'
    /\ \A e \in evidence' : e \in evidence \/ Grounded(e)'
    /\ \A h \in revalidated' : \/ h \in revalidated
                               \/ h[1] = rev /\ rev' = rev /\ taskStatus' = "qa"

\* No revision comes back, and none is run again once it has reached QA, or approved
\* again once it is running.
Forward == /\ rev <= rev'
           /\ rev' = rev /\ taskStatus \in {"qa", "completed"}
              => taskStatus' \in {"qa", "completed"}
           /\ rev' = rev /\ taskStatus' \in {"rework_required", "awaiting_approval"}
              => taskStatus \in {"rework_required", "awaiting_approval"}

LEMMA StageEvidence ==
    ASSUME Stage!TypeOK, Stage!TypeOK', Stage!EvidenceTrue, Keeps
    PROVE  Stage!EvidenceTrue' /\ \A e \in evidence : Grounded(e)'
<1>1. \A k \in Stage!Runs : work'[k] = "responded" => coreRun'[k] = "pass"
  BY DEF Keeps, Stage!EvidenceTrue
<1>2. \A e \in evidence : Grounded(e)'
  BY DEF Keeps, Stage!EvidenceTrue, Grounded
<1>3. \A e \in evidence' : Grounded(e)'
  BY <1>2 DEF Keeps
<1> QED
  BY <1>1, <1>2, <1>3 DEF Stage!EvidenceTrue, Grounded

\* What has been signed stays signed for; a PASS that is added stands on proven evidence.
LEMMA StageSigned ==
    ASSUME Stage!TypeOK, Stage!EvidenceTrue', Stage!SignedIsProven, Keeps,
           \A e \in evidence : Grounded(e)',
           \A i \in DOMAIN qaVerdicts' :
              \/ i \in DOMAIN qaVerdicts /\ qaVerdicts'[i] = qaVerdicts[i]
              \/ qaVerdicts'[i].v = "PASS" =>
                    /\ qaVerdicts'[i].rev = rev /\ qaVerdicts'[i].cycle = cycle
                    /\ Stage!Provable
    PROVE  Stage!SignedIsProven'
<1> SUFFICES ASSUME NEW i \in DOMAIN qaVerdicts', qaVerdicts'[i].v = "PASS"
             PROVE  \E e \in Stage!Of(evidence', qaVerdicts'[i].rev, qaVerdicts'[i].cycle) :
                       /\ coreRun'[e.of] = "pass" \/ \E h \in revalidated' : h[2] = e.of
                       /\ profiled' => e.sha = <<qaVerdicts'[i].rev, qaVerdicts'[i].cycle, e.sha[3]>>
  BY DEF Stage!SignedIsProven
<1>1. \E e \in Stage!Of(evidence, qaVerdicts'[i].rev, qaVerdicts'[i].cycle) :
         profiled => e.sha = <<qaVerdicts'[i].rev, qaVerdicts'[i].cycle, e.sha[3]>>
  <2>1. CASE i \in DOMAIN qaVerdicts /\ qaVerdicts'[i] = qaVerdicts[i]
    BY <2>1 DEF Stage!SignedIsProven
  <2>2. CASE /\ qaVerdicts'[i].rev = rev /\ qaVerdicts'[i].cycle = cycle /\ Stage!Provable
    BY <2>2 DEF Stage!Provable, Stage!Sha
  <2> QED
    BY <2>1, <2>2
<1>2. PICK e \in Stage!Of(evidence, qaVerdicts'[i].rev, qaVerdicts'[i].cycle) :
         profiled => e.sha = <<qaVerdicts'[i].rev, qaVerdicts'[i].cycle, e.sha[3]>>
  BY <1>1
<1>3. e \in evidence /\ Grounded(e)'
      /\ e \in Stage!Of(evidence', qaVerdicts'[i].rev, qaVerdicts'[i].cycle)
  BY <1>2 DEF Stage!Of, Keeps
<1>4. coreRun'[e.of] = "pass" \/ \E h \in revalidated' : h[2] = e.of
  BY <1>3 DEF Grounded, Stage!EvidenceTrue
<1> QED
  BY <1>2, <1>3, <1>4 DEF Keeps

LEMMA StageHistory ==
    ASSUME Stage!TypeOK, Stage!TypeOK', Stage!HistoryTrue, Keeps, Forward
    PROVE  Stage!HistoryTrue'
<1> SUFFICES ASSUME NEW h \in revalidated'
             PROVE  /\ h[1] \in Nat /\ h[1] <= rev'
                    /\ h[1] = rev' => taskStatus' \in {"qa", "completed"}
  BY DEF Stage!HistoryTrue
<1>1. rev \in Nat /\ rev' \in Nat
  BY DEF Stage!TypeOK
<1>2. CASE h \in revalidated
  BY <1>1, <1>2 DEF Stage!HistoryTrue, Forward
<1>3. CASE h[1] = rev /\ rev' = rev /\ taskStatus' = "qa"
  BY <1>1, <1>3
<1> QED
  BY <1>2, <1>3 DEF Keeps

LEMMA StageUnsent ==
    ASSUME Stage!TypeOK, Stage!TypeOK', Stage!Unsent, Keeps, Forward
    PROVE  Stage!Unsent'
<1> SUFFICES ASSUME NEW k \in Stage!Runs,
                    \/ k[1] > rev'
                    \/ /\ k[1] = rev'
                       /\ taskStatus' \in {"rework_required", "awaiting_approval"}
             PROVE  work'[k] = "absent"
  BY DEF Stage!Unsent, Stage!RevOf
<1>1. rev \in Nat /\ rev' \in Nat /\ k[1] \in Nat
  BY DEF Stage!TypeOK, Stage!Runs
<1>2. work[k] = "absent" /\ ~(k[1] = rev /\ taskStatus' = "running")
  BY <1>1 DEF Stage!Unsent, Stage!RevOf, Forward
<1> QED
  BY <1>2 DEF Keeps

\* A step that signs nothing.
LEMMA StageFrame ==
    ASSUME Stage!IndInv, Stage!TypeOK', Keeps, Forward, Climbs \/ Level,
           context' \in {context, NoToken}, UNCHANGED qaVerdicts
    PROVE  Stage!IndInv'
<1> USE DEF Stage!IndInv
<1>1. Stage!TokenTrue'
  BY StageTokens
<1>2. Stage!EvidenceTrue' /\ \A e \in evidence : Grounded(e)'
  BY StageEvidence
<1>3. Stage!HistoryTrue'
  BY StageHistory
<1>4. Stage!SignedIsProven'
  BY <1>2, StageSigned
<1>5. Stage!Unsent'
  BY StageUnsent
<1> QED
  BY <1>1, <1>2, <1>3, <1>4, <1>5

(******************************** the actions ******************************)

LEMMA StageInit ==
    ASSUME Stage!Init
    PROVE  Stage!IndInv
<1>1. Stage!TypeOK
  <2>1. /\ taskStatus \in Stage!Statuses /\ rev \in Nat \ {0} /\ cycle \in Nat
        /\ taskStatus \notin {"running", "qa", "completed"}
    BY DEF Stage!Init, Stage!Statuses
  <2>4. profiled \in BOOLEAN /\ moved \in BOOLEAN
    BY Zenon DEF Stage!Init
  <2>2. /\ work \in [Stage!Runs -> {"absent", "queued", "running", "responded", "failed"}]
        /\ coreRun \in [Stage!Runs -> {"none", "pass", "fail"}]
    BY DEF Stage!Init
  <2>3. review \in [1..MaxRev -> Stage!Reviews] /\ qaVerdicts \in Seq(Stage!Verdicts)
    BY DEF Stage!Init, Stage!NoReview, Stage!Reviews
  <2> QED
    BY <2>1, <2>2, <2>3, <2>4 DEF Stage!TypeOK
<1>2. Stage!EvidenceTrue /\ Stage!HistoryTrue /\ Stage!Unsent
  BY DEF Stage!Init, Stage!EvidenceTrue, Stage!HistoryTrue, Stage!Unsent
<1>3. Stage!SignedIsProven /\ Stage!TokenTrue
  BY DEF Stage!Init, Stage!SignedIsProven, Stage!TokenTrue
<1> QED
  BY <1>1, <1>2, <1>3 DEF Stage!IndInv

\* No place, answer, evidence or verdict is touched.
LEMMA StageQuiet ==
    ASSUME Stage!IndInv,
           \/ \E k \in Stage!Runs : Stage!WorkStarts(k) \/ Stage!Retry(k)
           \/ Stage!ApprovalLapses \/ Stage!FileChanges
           \/ Stage!SupersedeLook \/ Stage!SupersedeWrite
           \/ \E v \in {"passed", "reworked"} : Stage!OtherJudged(v)
    PROVE  Stage!IndInv'
<1>1. /\ UNCHANGED <<profiled, taskStatus, rev, cycle, moved, coreRun, review, qaVerdicts, evidence,
                     revalidated, context>>
      /\ \/ work' = work
         \/ \E k \in Stage!Runs : /\ work[k] \in {"queued", "failed"}
                                  /\ \E s \in {"queued", "running"} :
                                        work' = [work EXCEPT ![k] = s]
  BY DEF Stage!WorkStarts, Stage!Retry, Stage!ApprovalLapses, Stage!FileChanges,
         Stage!SupersedeLook, Stage!SupersedeWrite, Stage!OtherJudged, Stage!Fixed, Stage!Asked,
         Stage!task
<1>2. /\ work' \in [Stage!Runs -> {"absent", "queued", "running", "responded", "failed"}]
      /\ \A k \in Stage!Runs : work'[k] = "responded" <=> work[k] = "responded"
  BY <1>1 DEF Stage!IndInv, Stage!TypeOK
<1>3. Stage!TypeOK'
  BY <1>1, <1>2 DEF Stage!IndInv, Stage!TypeOK
<1>4. Keeps /\ Forward
  BY <1>1, <1>2 DEF Keeps, Forward, Stage!IndInv, Stage!TypeOK
<1>5. Level /\ context' = context
  BY <1>1 DEF Level, Stage!Shown
<1> QED
  BY <1>1, <1>3, <1>4, <1>5, StageFrame

\* A delivery that fails sends the task back, is held for its answer, or is late.
LEMMA StageFails ==
    ASSUME Stage!IndInv, NEW k \in Stage!Runs, Stage!WorkRefused(k) \/ Stage!WorkFails(k)
    PROVE  Stage!IndInv'
<1>1. /\ work[k] \in {"queued", "running"}
      /\ \E b \in BOOLEAN : Stage!Fails(k, b)
      /\ \/ work[k] = "queued" /\ coreRun' = coreRun
         \/ work[k] = "running" /\ coreRun' = [coreRun EXCEPT ![k] = "fail"]
  BY DEF Stage!WorkRefused, Stage!WorkFails, Stage!IndInv, Stage!TypeOK
<1>2. /\ UNCHANGED <<profiled, review, qaVerdicts, evidence, revalidated, context>>
      /\ \A j \in Stage!Runs : /\ work'[j] \in {work[j], "failed"}
                               /\ work[j] \in {"responded", "absent"} => work'[j] = work[j]
      /\ work' \in [Stage!Runs -> {"absent", "queued", "running", "responded", "failed"}]
      /\ \/ Stage!Stands
         \/ Stage!Rework /\ taskStatus \in {"running", "qa"}
  <2>1. PICK b \in BOOLEAN : Stage!Fails(k, b)
    BY <1>1
  <2>2. UNCHANGED <<profiled, review, qaVerdicts, evidence, revalidated, context>>
    BY <2>1 DEF Stage!Fails, Stage!Fixed, Stage!Asked
  <2>3. Stage!Stands \/ (Stage!Rework /\ taskStatus \in {"running", "qa"})
    BY <2>1 DEF Stage!Fails
  <2>4. /\ \A j \in Stage!Runs : /\ work'[j] \in {work[j], "failed"}
                                 /\ work[j] \in {"responded", "absent"} => work'[j] = work[j]
        /\ work' \in [Stage!Runs -> {"absent", "queued", "running", "responded", "failed"}]
    BY <1>1, <2>1 DEF Stage!Fails, Stage!IndInv, Stage!TypeOK
  <2> QED
    BY <2>2, <2>3, <2>4
<1>3. /\ coreRun' \in [Stage!Runs -> {"none", "pass", "fail"}]
      /\ \A j \in Stage!Runs : work[j] = "responded" => coreRun'[j] = coreRun[j]
  BY <1>1 DEF Stage!IndInv, Stage!TypeOK
<1>4. \/ UNCHANGED <<taskStatus, rev, cycle, moved>>
      \/ taskStatus' = "rework_required" /\ rev' = rev + 1 /\ cycle' = cycle /\ moved' = TRUE
  BY <1>2 DEF Stage!Stands, Stage!Rework, Stage!Moves, Stage!task
<1>5. Stage!TypeOK'
  <2>2. moved' \in BOOLEAN
    BY <1>4 DEF Stage!IndInv, Stage!TypeOK
  <2>1. /\ taskStatus' \in Stage!Statuses
        /\ rev' \in Nat \ {0} /\ cycle' \in Nat
        /\ taskStatus' \in {"running", "qa", "completed"} => rev' <= MaxRev
    BY <1>4 DEF Stage!IndInv, Stage!TypeOK, Stage!Statuses
  <2> QED
    BY <1>2, <1>3, <2>1, <2>2 DEF Stage!IndInv, Stage!TypeOK
<1>6. rev \in Nat
  BY DEF Stage!IndInv, Stage!TypeOK
<1>7. Forward
  BY <1>4, <1>6 DEF Forward
<1>8. Keeps
  <2>1. \A j \in Stage!Runs :
           /\ work[j] = "responded" => work'[j] = "responded" /\ coreRun'[j] = coreRun[j]
           /\ work'[j] = "responded" => work[j] = "responded"
           /\ work[j] = "absent" => work'[j] = "absent"
    BY <1>2, <1>3
  <2> QED
    BY <1>2, <2>1 DEF Keeps
<1>9. Climbs \/ Level
  BY <1>2, <1>4, <1>6 DEF Climbs, Level, Stage!Shown
<1> QED
  BY <1>2, <1>5, <1>7, <1>8, <1>9, StageFrame

\* The rows of the reviewer once a delivery to it is asked for.
LEMMA StageQueued ==
    ASSUME Stage!TypeOK, rev <= MaxRev
    PROVE  /\ Stage!Queued(review) \in [1..MaxRev -> Stage!Reviews]
           /\ Stage!Queued(review)[rev] \in Stage!Reviews
           /\ Stage!Progress(review[rev]) <= Stage!Progress(Stage!Queued(review)[rev])
<1>1. rev \in 1..MaxRev /\ review[rev] \in Stage!Reviews
  BY StageAssumption DEF Stage!TypeOK
<1>2. [Stage!NoReview EXCEPT !.st = "queued"] \in Stage!Reviews
  BY DEF Stage!NoReview, Stage!Reviews
<1>3. Stage!Queued(review) \in [1..MaxRev -> Stage!Reviews]
  BY <1>1, <1>2 DEF Stage!Queued, Stage!TypeOK
<1>4. \/ Stage!Queued(review)[rev] = review[rev]
      \/ review[rev].st = "absent" /\ Stage!Queued(review)[rev] \in Stage!Reviews
  BY <1>1, <1>2 DEF Stage!Queued, Stage!TypeOK
<1>5. Stage!Queued(review)[rev] \in Stage!Reviews
  BY <1>1, <1>4
<1>6. /\ Stage!Progress(review[rev]) \in Nat /\ Stage!Progress(Stage!Queued(review)[rev]) \in Nat
      /\ review[rev].st = "absent" => Stage!Progress(review[rev]) = 0
  BY <1>1, <1>5, StageProgress
<1> QED
  BY <1>3, <1>4, <1>5, <1>6

\* The reviewer's delivery is as it was, or asked for: it gets no less far.
LEMMA StageAsked ==
    ASSUME Stage!TypeOK, rev <= MaxRev, rev' = rev,
           review' = review \/ review' = Stage!Queued(review)
    PROVE  /\ review' \in [1..MaxRev -> Stage!Reviews]
           /\ \/ Stage!Progress(Stage!Shown') = Stage!Progress(Stage!Shown)
              \/ Stage!Progress(Stage!Shown) < Stage!Progress(Stage!Shown')
<1>1. rev \in 1..MaxRev /\ review[rev] \in Stage!Reviews /\ ~(rev > MaxRev)
  BY StageAssumption DEF Stage!TypeOK
<1>2. Stage!Shown = review[rev] /\ Stage!Shown' = review'[rev]
  BY <1>1 DEF Stage!Shown
<1>3. review' \in [1..MaxRev -> Stage!Reviews] /\ review'[rev] \in Stage!Reviews
  BY <1>1, StageQueued DEF Stage!TypeOK
<1>4. Stage!Progress(review[rev]) <= Stage!Progress(review'[rev])
  <2>1. Stage!Progress(review[rev]) \in Nat
    BY <1>1, StageProgress
  <2>2. CASE review' = review
    BY <2>1, <2>2
  <2>3. CASE review' = Stage!Queued(review)
    BY <2>3, StageQueued
  <2> QED
    BY <2>2, <2>3
<1>5. Stage!Progress(review[rev]) \in Nat /\ Stage!Progress(review'[rev]) \in Nat
  BY <1>1, <1>3, StageProgress
<1> QED
  BY <1>2, <1>3, <1>4, <1>5

\* The last answer of the team opens QA with its evidence; a late one is only kept.
LEMMA StageAnswers ==
    ASSUME Stage!IndInv, NEW k \in Stage!Runs, Stage!WorkAnswers(k)
    PROVE  Stage!IndInv'
<1> DEFINE kept == [work EXCEPT ![k] = "responded"]
<1>1. /\ work[k] = "running" /\ work' = kept
      /\ coreRun' = [coreRun EXCEPT ![k] = "pass"]
      /\ UNCHANGED <<profiled, qaVerdicts, revalidated, context>>
  BY DEF Stage!WorkAnswers, Stage!Fixed, Stage!Asked
<1>2. \/ /\ taskStatus \in {"running", "qa"} /\ taskStatus' = "qa" /\ rev' = rev
         /\ cycle' = IF taskStatus = "running" THEN cycle + 1 ELSE cycle
         /\ IF taskStatus = "running" THEN moved' = TRUE ELSE moved' = moved
         /\ \E c : evidence' = Stage!Captured(kept, c)
         /\ review' = review \/ review' = Stage!Queued(review)
      \/ UNCHANGED <<taskStatus, rev, cycle, moved, evidence, review>>
  BY DEF Stage!WorkAnswers, Stage!Stands, Stage!Moves, Stage!Provision, Stage!task
<1>3. /\ work' \in [Stage!Runs -> {"absent", "queued", "running", "responded", "failed"}]
      /\ coreRun' \in [Stage!Runs -> {"none", "pass", "fail"}]
      /\ \A j \in Stage!Runs :
            /\ work[j] = "responded" => work'[j] = "responded" /\ coreRun'[j] = coreRun[j]
            /\ work'[j] = "responded" => work[j] = "responded" \/ coreRun'[j] = "pass"
  BY <1>1 DEF Stage!IndInv, Stage!TypeOK
<1>4. /\ evidence \subseteq evidence'
      /\ \A e \in evidence' : e \in evidence \/ Grounded(e)'
  <2>1. CASE evidence' = evidence
    BY <2>1
  <2>2. CASE \E c : evidence' = Stage!Captured(kept, c)
    <3>1. PICK c : evidence' = Stage!Captured(kept, c)
      BY <2>2
    <3>2. /\ evidence \subseteq Stage!Captured(kept, c)
          /\ \A e \in Stage!Captured(kept, c) :
                e \in evidence \/ (e.of \in Stage!Runs /\ kept[e.of] = "responded")
      BY StageCaptured
    <3> QED
      BY <1>1, <3>1, <3>2 DEF Grounded
  <2> QED
    BY <1>2, <2>1, <2>2
<1>5. Keeps
  BY <1>1, <1>3, <1>4 DEF Keeps
<1>6. rev \in Nat /\ cycle \in Nat /\ (taskStatus \in {"running", "qa"} => rev <= MaxRev)
  BY DEF Stage!IndInv, Stage!TypeOK
<1>7. /\ review' \in [1..MaxRev -> Stage!Reviews]
      /\ rev' = rev
      /\ UNCHANGED <<taskStatus, cycle, moved>> \/ (taskStatus' = "qa" /\ rev <= MaxRev)
      /\ cycle' = cycle \/ cycle' = cycle + 1
      /\ taskStatus \in {"qa", "completed"} => taskStatus' = taskStatus
      /\ Climbs \/ Level
  <2>1. CASE UNCHANGED <<taskStatus, rev, cycle, moved, evidence, review>>
    <3>1. Level
      BY <2>1 DEF Level, Stage!Shown
    <3> QED
      BY <2>1, <3>1 DEF Stage!IndInv, Stage!TypeOK
  <2>2. CASE /\ taskStatus = "running" /\ taskStatus' = "qa" /\ rev' = rev /\ cycle' = cycle + 1
             /\ review' = review \/ review' = Stage!Queued(review)
    BY <1>6, <2>2, StageAsked DEF Climbs, Stage!IndInv
  <2>3. CASE /\ taskStatus = "qa" /\ UNCHANGED <<taskStatus, rev, cycle, moved>>
             /\ review' = review \/ review' = Stage!Queued(review)
    BY <1>6, <2>3, StageAsked DEF Climbs, Level, Stage!IndInv
  <2> QED
    BY <1>2, <2>1, <2>2, <2>3
<1>8. Stage!TypeOK'
  <2>1. moved' \in BOOLEAN
    BY <1>2 DEF Stage!IndInv, Stage!TypeOK
  <2>2. /\ taskStatus' \in Stage!Statuses /\ rev' \in Nat \ {0} /\ cycle' \in Nat
        /\ taskStatus' \in {"running", "qa", "completed"} => rev' <= MaxRev
    BY <1>7 DEF Stage!IndInv, Stage!TypeOK, Stage!Statuses
  <2> QED
    BY <1>1, <1>3, <1>7, <2>1, <2>2 DEF Stage!IndInv, Stage!TypeOK
<1>9. Forward
  BY <1>6, <1>7 DEF Forward
<1> QED
  BY <1>1, <1>5, <1>7, <1>8, <1>9, StageFrame

\* A token that is used was taken of a state nobody has moved since.
LEMMA StageFresh ==
    ASSUME Stage!TypeOK, Stage!TokenTrue, Stage!Fresh
    PROVE  /\ context' \in {context, NoToken}
           /\ Stage!TokenSeesAll
<1>1. context' \in {context, NoToken}
  BY DEF Stage!Fresh
<1>2. ASSUME context # NoToken, context' = NoToken PROVE ~moved
  <2>1. context[1] = <<taskStatus, rev, cycle>> /\ context[4] = Stage!Shown
    BY <1>2 DEF Stage!Fresh, Stage!Fingerprint, Stage!task, Stage!Shown
  <2>2. Stage!Shown \in Stage!Reviews
    BY StageShown
  <2>3. rev \in Nat /\ cycle \in Nat /\ taskStatus \in Stage!Statuses
    BY DEF Stage!TypeOK
  <2>4. /\ Stage!Progress(Stage!Shown) \in Nat /\ Stage!Rank(taskStatus) \in Nat
    BY <2>2, <2>3, StageProgress, StageRanks
  <2>5. ~Stage!Below(taskStatus, rev, cycle, Stage!Shown)
    BY <2>3, <2>4 DEF Stage!Below
  <2>6. /\ context[1][1] = taskStatus /\ context[1][2] = rev /\ context[1][3] = cycle
    BY <2>1
  <2> QED
    BY <1>2, <2>1, <2>5, <2>6 DEF Stage!TokenTrue
<1> QED
  BY <1>1, <1>2 DEF Stage!TokenSeesAll

\* A token is taken.
LEMMA StageContext ==
    ASSUME Stage!IndInv, Stage!MutationContext
    PROVE  Stage!IndInv'
<1>1. /\ context' = Stage!Fingerprint /\ moved' = FALSE
      /\ UNCHANGED <<profiled, taskStatus, rev, cycle, work, coreRun, review, qaVerdicts, evidence,
                     revalidated>>
  BY DEF Stage!MutationContext, Stage!task
<1>2. moved' \in BOOLEAN
  BY <1>1
<1>3. Stage!TypeOK'
  BY <1>1, <1>2 DEF Stage!IndInv, Stage!TypeOK
<1>4. Stage!EvidenceTrue' /\ Stage!HistoryTrue' /\ Stage!Unsent'
  BY <1>1 DEF Stage!IndInv, Stage!EvidenceTrue, Stage!HistoryTrue, Stage!Unsent
<1>5. Stage!SignedIsProven'
  BY <1>1 DEF Stage!IndInv, Stage!SignedIsProven, Stage!Of
<1>6. Stage!TokenTrue'
  <2>1. context'[1] = <<taskStatus, rev, cycle>> /\ context'[4] = Stage!Shown
    BY <1>1 DEF Stage!Fingerprint, Stage!task, Stage!Shown
  <2>2. Stage!Shown' = Stage!Shown
    BY <1>1 DEF Stage!Shown
  <2>3. Stage!Shown \in Stage!Reviews
    BY StageShown DEF Stage!IndInv
  <2>4. taskStatus \in Stage!Statuses /\ rev \in Nat /\ cycle \in Nat
    BY DEF Stage!IndInv, Stage!TypeOK
  <2>5. /\ context'[1][1] = taskStatus /\ context'[1][2] = rev /\ context'[1][3] = cycle
    BY <2>1
  <2>6. context'[1] = <<taskStatus', rev', cycle'>> /\ context'[4] = Stage!Shown'
    BY <1>1, <2>1, <2>2
  <2> QED
    BY <1>1, <2>3, <2>4, <2>1, <2>5, <2>6 DEF Stage!TokenTrue, Stage!task
<1> QED
  BY <1>3, <1>4, <1>5, <1>6 DEF Stage!IndInv

\* The task is approved and started, or sent for another approval, or completed.
LEMMA StageMoves ==
    ASSUME Stage!IndInv, Stage!ApproveExecute \/ Stage!Renew \/ Stage!Complete
    PROVE  Stage!IndInv'
<1>1. /\ UNCHANGED <<profiled, rev, cycle, coreRun, review, qaVerdicts, evidence, revalidated>>
      /\ moved' = TRUE /\ context' \in {context, NoToken}
      /\ \/ /\ taskStatus = "awaiting_approval" /\ taskStatus' = "running" /\ rev <= MaxRev
            /\ work' = [k \in Stage!Runs |-> IF Stage!RevOf(k) = rev THEN "queued" ELSE work[k]]
         \/ /\ taskStatus = "rework_required" /\ taskStatus' = "awaiting_approval"
            /\ work' = work
         \/ /\ taskStatus = "qa" /\ taskStatus' = "completed" /\ work' = work
  BY DEF Stage!ApproveExecute, Stage!Renew, Stage!Complete, Stage!Moves, Stage!Request, Stage!Fresh
<1>2. rev \in Nat /\ cycle \in Nat
  BY DEF Stage!IndInv, Stage!TypeOK
<1>3. /\ work' \in [Stage!Runs -> {"absent", "queued", "running", "responded", "failed"}]
      /\ \A k \in Stage!Runs : \/ work'[k] = work[k]
                               \/ /\ k[1] = rev /\ work[k] = "absent" /\ work'[k] = "queued"
                                  /\ taskStatus' = "running"
  <2>1. CASE work' = work
    BY <2>1 DEF Stage!IndInv, Stage!TypeOK
  <2>2. CASE /\ taskStatus = "awaiting_approval" /\ taskStatus' = "running"
             /\ work' = [k \in Stage!Runs |-> IF Stage!RevOf(k) = rev THEN "queued" ELSE work[k]]
    <3>1. \A k \in Stage!Runs : k[1] = rev => work[k] = "absent"
      BY <2>2 DEF Stage!IndInv, Stage!Unsent, Stage!RevOf
    <3>2. work \in [Stage!Runs -> {"absent", "queued", "running", "responded", "failed"}]
      BY DEF Stage!IndInv, Stage!TypeOK
    <3> QED
      BY <2>2, <3>1, <3>2 DEF Stage!RevOf
  <2> QED
    BY <1>1, <2>1, <2>2
<1>4. Stage!TypeOK'
  <2>1. moved' \in BOOLEAN
    BY <1>1
  <2>2. /\ taskStatus' \in Stage!Statuses
        /\ taskStatus' \in {"running", "qa", "completed"} => rev <= MaxRev
    BY <1>1 DEF Stage!IndInv, Stage!TypeOK, Stage!Statuses
  <2> QED
    BY <1>1, <1>3, <2>1, <2>2 DEF Stage!IndInv, Stage!TypeOK
<1>5. Keeps
  <2>1. \A k \in Stage!Runs :
           /\ work[k] = "responded" => work'[k] = "responded"
           /\ work'[k] = "responded" => work[k] = "responded"
           /\ work[k] = "absent" => work'[k] = "absent" \/ (k[1] = rev /\ taskStatus' = "running")
    BY <1>3
  <2> QED
    BY <1>1, <2>1 DEF Keeps
<1>6. Forward
  BY <1>1, <1>2 DEF Forward
<1>7. Climbs
  BY <1>1, <1>2, StageRanks DEF Climbs
<1> QED
  BY <1>1, <1>4, <1>5, <1>6, <1>7, StageFrame

\* QA is opened by a recovery, or anew: the revision stands and its cycle is a later one,
\* or its review has been asked for.
LEMMA StageReopens ==
    ASSUME Stage!IndInv,
           \E k \in Stage!Runs : \/ Stage!Revalidate(k)
                                 \/ \E i \in DOMAIN qaVerdicts : Stage!RecoverRework(i, k)
    PROVE  Stage!IndInv'
<1>1. PICK k \in Stage!Runs : \/ Stage!Revalidate(k)
                              \/ \E i \in DOMAIN qaVerdicts : Stage!RecoverRework(i, k)
  OBVIOUS
<1>2. /\ UNCHANGED <<profiled, rev, coreRun, qaVerdicts>> /\ context' \in {context, NoToken}
      /\ rev <= MaxRev /\ taskStatus' = "qa" /\ taskStatus \in {"running", "qa", "rework_required"}
      /\ review' = Stage!Queued(review)
  BY <1>1 DEF Stage!Revalidate, Stage!RecoverRework, Stage!Request, Stage!Fresh
<1>3. \/ cycle' = cycle + 1 /\ moved' = TRUE
      \/ taskStatus = "qa" /\ UNCHANGED <<cycle, moved>>
  BY <1>1 DEF Stage!Revalidate, Stage!RecoverRework, Stage!Moves
<1>4. /\ \/ work' = work
         \/ work' = [j \in Stage!Runs |-> IF Stage!RevOf(j) = rev /\ work[j] = "queued"
                                          THEN "failed" ELSE work[j]]
      /\ \E E, n : evidence' = Stage!Copied(E, n, k)
      /\ \/ revalidated' = revalidated \cup {<<rev, k>>}
         \/ revalidated' = revalidated /\ work[k] = "responded" /\ work' = work
  <2>1. CASE Stage!Revalidate(k)
    BY <2>1 DEF Stage!Revalidate
  <2>2. CASE \E i \in DOMAIN qaVerdicts : Stage!RecoverRework(i, k)
    BY <2>2 DEF Stage!RecoverRework, Stage!Bound
  <2> QED
    BY <1>1, <2>1, <2>2
<1>5. /\ work' \in [Stage!Runs -> {"absent", "queued", "running", "responded", "failed"}]
      /\ \A j \in Stage!Runs : \/ work'[j] = work[j]
                               \/ work[j] = "queued" /\ work'[j] = "failed"
  <2>1. work \in [Stage!Runs -> {"absent", "queued", "running", "responded", "failed"}]
    BY DEF Stage!IndInv, Stage!TypeOK
  <2> QED
    BY <1>4, <2>1
<1>6. /\ evidence \subseteq evidence'
      /\ \A e \in evidence' : e \in evidence \/ Grounded(e)'
  <2>1. PICK E, n : evidence' = Stage!Copied(E, n, k)
    BY <1>4
  <2>2. /\ evidence \subseteq evidence'
        /\ \A e \in evidence' : e \in evidence \/ e.of = k
    BY <2>1, StageCopied
  <2>3. work'[k] = "responded" \/ \E h \in revalidated' : h[2] = k
    <3>1. CASE revalidated' = revalidated \cup {<<rev, k>>}
      <4>1. <<rev, k>> \in revalidated' /\ <<rev, k>>[2] = k
        BY <3>1
      <4> QED
        BY <4>1
    <3>2. CASE work[k] = "responded" /\ work' = work
      BY <3>2
    <3> QED
      BY <1>4, <3>1, <3>2
  <2> QED
    BY <2>2, <2>3 DEF Grounded
<1>7. Keeps
  <2>1. \A j \in Stage!Runs :
           /\ work[j] = "responded" => work'[j] = "responded"
           /\ work'[j] = "responded" => work[j] = "responded"
           /\ work[j] = "absent" => work'[j] = "absent"
    BY <1>5
  <2>2. revalidated \subseteq revalidated' /\ \A h \in revalidated' : h \in revalidated \/ h[1] = rev
    BY <1>4
  <2> QED
    BY <1>2, <1>6, <2>1, <2>2 DEF Keeps
<1>8. rev \in Nat /\ cycle \in Nat
  BY DEF Stage!IndInv, Stage!TypeOK
<1>9. Forward
  BY <1>2, <1>8 DEF Forward
<1>10. /\ review' \in [1..MaxRev -> Stage!Reviews]
       /\ Climbs \/ Level
  <2>1. /\ review' \in [1..MaxRev -> Stage!Reviews]
        /\ \/ Stage!Progress(Stage!Shown') = Stage!Progress(Stage!Shown)
           \/ Stage!Progress(Stage!Shown) < Stage!Progress(Stage!Shown')
    BY <1>2, StageAsked DEF Stage!IndInv
  <2>2. CASE cycle' = cycle + 1
    BY <1>2, <1>8, <2>1, <2>2 DEF Climbs
  <2>3. CASE taskStatus = "qa" /\ UNCHANGED <<cycle, moved>>
    BY <1>2, <2>1, <2>3 DEF Climbs, Level
  <2> QED
    BY <1>3, <2>1, <2>2, <2>3
<1>11. Stage!TypeOK'
  <2>1. moved' \in BOOLEAN
    BY <1>3 DEF Stage!IndInv, Stage!TypeOK
  <2>2. taskStatus' \in Stage!Statuses /\ cycle' \in Nat
    BY <1>2, <1>3, <1>8 DEF Stage!Statuses
  <2> QED
    BY <1>2, <1>5, <1>10, <2>1, <2>2 DEF Stage!IndInv, Stage!TypeOK
<1> QED
  BY <1>2, <1>7, <1>9, <1>10, <1>11, StageFrame

\* A review that is over is asked for again, in another cycle.
LEMMA StageResumes ==
    ASSUME Stage!IndInv, Stage!ResumeQa
    PROVE  Stage!IndInv'
<1>1. /\ UNCHANGED <<profiled, taskStatus, rev, work, coreRun, qaVerdicts, revalidated>>
      /\ context' \in {context, NoToken} /\ cycle' = cycle + 1 /\ moved' = TRUE
      /\ evidence' = Stage!Captured(work, cycle + 1)
      /\ \/ review' = [review EXCEPT ![rev] = [Stage!NoReview EXCEPT !.st = "queued"]]
         \/ review' = [review EXCEPT ![rev] = Stage!NoReview]
  BY DEF Stage!ResumeQa, Stage!Moves, Stage!Request, Stage!Fresh
<1>2. review' \in [1..MaxRev -> Stage!Reviews]
  <2>1. /\ Stage!NoReview \in Stage!Reviews
        /\ [Stage!NoReview EXCEPT !.st = "queued"] \in Stage!Reviews
    BY DEF Stage!NoReview, Stage!Reviews
  <2> QED
    BY <1>1, <2>1 DEF Stage!IndInv, Stage!TypeOK
<1>3. Stage!TypeOK'
  <2>1. moved' \in BOOLEAN /\ cycle' \in Nat
    BY <1>1 DEF Stage!IndInv, Stage!TypeOK
  <2> QED
    BY <1>1, <1>2, <2>1 DEF Stage!IndInv, Stage!TypeOK
<1>4. /\ evidence \subseteq evidence'
      /\ \A e \in evidence' : e \in evidence \/ Grounded(e)'
  <2>1. \A e \in evidence' : e \in evidence \/ (e.of \in Stage!Runs /\ work[e.of] = "responded")
    BY <1>1, StageCaptured
  <2> QED
    BY <1>1, <2>1, StageCaptured DEF Grounded
<1>5. Keeps
  BY <1>1, <1>4 DEF Keeps
<1>6. rev \in Nat /\ cycle \in Nat
  BY DEF Stage!IndInv, Stage!TypeOK
<1>7. Forward /\ Climbs
  BY <1>1, <1>6 DEF Forward, Climbs
<1> QED
  BY <1>1, <1>3, <1>5, <1>7, StageFrame

\* The reviewer's row of this revision, once it is over, got further.
LEMMA StageReviewed ==
    ASSUME Stage!TypeOK, rev <= MaxRev, review[rev].st = "queued", rev' = rev,
           NEW v \in Stage!Reviews, v.st \in {"responded", "failed"},
           review' = [review EXCEPT ![rev] = v]
    PROVE  Stage!Progress(Stage!Shown) < Stage!Progress(Stage!Shown')
<1>1. rev \in 1..MaxRev /\ review[rev] \in Stage!Reviews /\ ~(rev > MaxRev)
  BY StageAssumption DEF Stage!TypeOK
<1>2. Stage!Shown = review[rev] /\ Stage!Shown' = v
  BY <1>1 DEF Stage!Shown, Stage!TypeOK
<1>3. Stage!Progress(review[rev]) = 1 /\ Stage!Progress(v) = 2
  BY <1>1, StageProgress
<1> QED
  BY <1>2, <1>3

\* The reviewer's delivery ends: QA stands, is passed, or sends the task back.
LEMMA StageReviews ==
    ASSUME Stage!IndInv,
           Stage!ReviewFails \/ \E says \in {"PASS", "rework", "missing"} : Stage!ReviewAnswers(says)
    PROVE  Stage!IndInv'
<1>1. /\ UNCHANGED <<profiled, work, coreRun, evidence, revalidated, context>>
      /\ taskStatus = "qa" /\ review[rev].st = "queued"
      /\ \/ UNCHANGED <<taskStatus, rev, cycle>> /\ moved' \in {moved, TRUE}
         \/ /\ taskStatus' = "rework_required" /\ rev' = rev + 1 /\ cycle' = cycle
            /\ moved' = TRUE
  BY DEF Stage!ReviewFails, Stage!ReviewAnswers, Stage!Fixed, Stage!Asked, Stage!Stands,
         Stage!Rework, Stage!Moves, Stage!task
<1>2. rev \in Nat /\ rev # 0 /\ cycle \in Nat /\ rev <= MaxRev /\ rev \in 1..MaxRev
      /\ review[rev] \in Stage!Reviews
  BY <1>1, StageAssumption DEF Stage!IndInv, Stage!TypeOK
<1>3. \E v \in Stage!Reviews : /\ v.st \in {"responded", "failed"}
                               /\ review' = [review EXCEPT ![rev] = v]
  <2>1. CASE Stage!ReviewFails
    <3>1. review' = [review EXCEPT ![rev] = [review[rev] EXCEPT !.st = "failed"]]
      BY <2>1, <1>2 DEF Stage!ReviewFails, Stage!IndInv, Stage!TypeOK
    <3>2. /\ [review[rev] EXCEPT !.st = "failed"] \in Stage!Reviews
          /\ [review[rev] EXCEPT !.st = "failed"].st = "failed"
      BY <1>2 DEF Stage!Reviews
    <3> QED
      BY <3>1, <3>2
  <2>2. CASE \E says \in {"PASS", "rework", "missing"} : Stage!ReviewAnswers(says)
    <3>1. PICK says \in {"PASS", "rework", "missing"} : Stage!ReviewAnswers(says)
      BY <2>2
    <3>2. review' = [review EXCEPT ![rev] = [st |-> "responded", says |-> says]]
      BY <3>1 DEF Stage!ReviewAnswers
    <3>3. [st |-> "responded", says |-> says] \in Stage!Reviews
      BY DEF Stage!Reviews
    <3> QED
      BY <3>2, <3>3
  <2> QED
    BY <2>1, <2>2
<1>4. /\ review' \in [1..MaxRev -> Stage!Reviews]
      /\ rev' = rev => Stage!Progress(Stage!Shown) < Stage!Progress(Stage!Shown')
  <2>1. PICK v \in Stage!Reviews : /\ v.st \in {"responded", "failed"}
                                   /\ review' = [review EXCEPT ![rev] = v]
    BY <1>3
  <2>2. rev' = rev => Stage!Progress(Stage!Shown) < Stage!Progress(Stage!Shown')
    BY <1>1, <1>2, <2>1, StageReviewed DEF Stage!IndInv
  <2> QED
    BY <2>1, <2>2 DEF Stage!IndInv, Stage!TypeOK
<1>5. /\ qaVerdicts' \in Seq(Stage!Verdicts)
      /\ \A i \in DOMAIN qaVerdicts' :
            \/ i \in DOMAIN qaVerdicts /\ qaVerdicts'[i] = qaVerdicts[i]
            \/ qaVerdicts'[i].v = "PASS" =>
                  /\ qaVerdicts'[i].rev = rev /\ qaVerdicts'[i].cycle = cycle
                  /\ Stage!Provable
  <2>1. qaVerdicts \in Seq(Stage!Verdicts)
    BY DEF Stage!IndInv, Stage!TypeOK
  <2>2. CASE qaVerdicts' = qaVerdicts
    BY <2>1, <2>2
  <2>3. CASE \E says \in {"PASS", "rework", "missing"} :
                /\ says # "PASS" \/ Stage!Provable
                /\ qaVerdicts' = Append(qaVerdicts, [rev |-> rev, cycle |-> cycle, v |-> says])
    <3>1. PICK says \in {"PASS", "rework", "missing"} :
             /\ says # "PASS" \/ Stage!Provable
             /\ qaVerdicts' = Append(qaVerdicts, [rev |-> rev, cycle |-> cycle, v |-> says])
      BY <2>3
    <3> DEFINE d == [rev |-> rev, cycle |-> cycle, v |-> says]
    <3>2. d \in Stage!Verdicts /\ d.rev = rev /\ d.cycle = cycle /\ d.v = says
      BY <1>2 DEF Stage!Verdicts
    <3>3. qaVerdicts' = Append(qaVerdicts, d)
      BY <3>1
    <3> HIDE DEF d
    <3>4. /\ qaVerdicts' \in Seq(Stage!Verdicts)
          /\ \A i \in DOMAIN qaVerdicts' : \/ i \in DOMAIN qaVerdicts /\ qaVerdicts'[i] = qaVerdicts[i]
                                           \/ qaVerdicts'[i] = d
      BY <2>1, <3>2, <3>3
    <3> QED
      BY <3>1, <3>2, <3>4
  <2>4. \/ qaVerdicts' = qaVerdicts
        \/ \E says \in {"PASS", "rework", "missing"} :
              /\ says # "PASS" \/ Stage!Provable
              /\ qaVerdicts' = Append(qaVerdicts, [rev |-> rev, cycle |-> cycle, v |-> says])
    BY DEF Stage!ReviewFails, Stage!ReviewAnswers
  <2> QED
    BY <2>2, <2>3, <2>4
<1>6. Stage!TypeOK'
  <2>1. moved' \in BOOLEAN
    BY <1>1 DEF Stage!IndInv, Stage!TypeOK
  <2>2. /\ taskStatus' \in Stage!Statuses /\ rev' \in Nat \ {0} /\ cycle' \in Nat
        /\ taskStatus' \in {"running", "qa", "completed"} => rev' <= MaxRev
    <3>1. CASE taskStatus' = "qa" /\ rev' = rev /\ cycle' = cycle
      BY <1>2, <3>1 DEF Stage!Statuses
    <3>2. CASE taskStatus' = "rework_required" /\ rev' = rev + 1 /\ cycle' = cycle
      BY <1>2, <3>2 DEF Stage!Statuses
    <3> QED
      BY <1>1, <3>1, <3>2
  <2> QED
    BY <1>1, <1>4, <1>5, <2>1, <2>2 DEF Stage!IndInv, Stage!TypeOK
<1>7. Keeps
  BY <1>1 DEF Keeps
<1>8. Forward /\ Climbs
  <2>1. CASE taskStatus' = "qa" /\ rev' = rev /\ cycle' = cycle
    BY <1>1, <1>2, <1>4, <2>1 DEF Forward, Climbs
  <2>2. CASE taskStatus' = "rework_required" /\ rev' = rev + 1 /\ cycle' = cycle
    BY <1>2, <2>2 DEF Forward, Climbs
  <2> QED
    BY <1>1, <2>1, <2>2
<1>9. Stage!EvidenceTrue' /\ \A e \in evidence : Grounded(e)'
  BY <1>6, <1>7, StageEvidence DEF Stage!IndInv
<1>10. Stage!SignedIsProven'
  BY <1>5, <1>7, <1>9, StageSigned DEF Stage!IndInv
<1>11. Stage!HistoryTrue' /\ Stage!Unsent'
  BY <1>6, <1>7, <1>8, StageHistory, StageUnsent DEF Stage!IndInv
<1>12. Stage!TokenTrue'
  BY <1>1, <1>6, <1>8, StageTokens DEF Stage!IndInv
<1> QED
  BY <1>6, <1>9, <1>10, <1>11, <1>12 DEF Stage!IndInv

(******************************** the theorem ******************************)

LEMMA StageStep ==
    ASSUME Stage!IndInv, [Next]_vars
    PROVE  Stage!IndInv'
<1>1. CASE Stage!Next
  BY <1>1, StageQuiet, StageFails, StageAnswers, StageReopens, StageReviews, StageContext,
     StageMoves, StageResumes
  DEF Stage!Next
<1>2. CASE UNCHANGED stages
  <2>1. Stage!TypeOK' /\ Stage!EvidenceTrue' /\ Stage!HistoryTrue' /\ Stage!Unsent'
    BY <1>2 DEF stages, Stage!IndInv, Stage!TypeOK, Stage!EvidenceTrue, Stage!HistoryTrue,
                Stage!Unsent
  <2>2. Stage!SignedIsProven'
    BY <1>2 DEF stages, Stage!IndInv, Stage!SignedIsProven, Stage!Of
  <2>3. Stage!TokenTrue'
    <3>1. /\ \A s, r, c, v : Stage!Below(s, r, c, v)' <=> Stage!Below(s, r, c, v)
          /\ Stage!Shown' = Stage!Shown
      BY <1>2 DEF stages, Stage!Below, Stage!Shown
    <3> QED
      BY <1>2, <3>1 DEF stages, Stage!IndInv, Stage!TokenTrue, Stage!task
  <2> QED
    BY <2>1, <2>2, <2>3 DEF Stage!IndInv
<1> QED
  BY <1>1, <1>2 DEF Next, vars

\* Only the delivery loop starts a worker.
LEMMA StageStarts ==
    ASSUME Stage!IndInv, Stage!Next, NEW k \in Stage!Runs, work[k] = "queued",
           work'[k] = "running"
    PROVE  Stage!WorkStarts(k)
<1>1. work \in [Stage!Runs -> {"absent", "queued", "running", "responded", "failed"}]
  BY DEF Stage!IndInv, Stage!TypeOK
<1>2. ASSUME NEW j \in Stage!Runs, Stage!WorkStarts(j) PROVE Stage!WorkStarts(k)
  <2>1. j = k
    BY <1>1, <1>2 DEF Stage!WorkStarts
  <2> QED
    BY <1>2, <2>1
<1>3. \A j \in Stage!Runs : ~Stage!Retry(j) /\ ~Stage!WorkAnswers(j)
  BY <1>1 DEF Stage!Retry, Stage!WorkAnswers
<1>4. \A j \in Stage!Runs : ~Stage!WorkRefused(j) /\ ~Stage!WorkFails(j)
  BY <1>1 DEF Stage!WorkRefused, Stage!WorkFails, Stage!Fails
<1>5. \A j \in Stage!Runs : ~Stage!Revalidate(j)
  BY <1>1 DEF Stage!Revalidate
<1>6. /\ \A j \in Stage!Runs : \A i \in DOMAIN qaVerdicts : ~Stage!RecoverRework(i, j)
      /\ \A says : ~Stage!ReviewAnswers(says)
      /\ ~Stage!ReviewFails /\ ~Stage!ApprovalLapses /\ ~Stage!FileChanges
  BY DEF Stage!RecoverRework, Stage!ReviewAnswers, Stage!ReviewFails, Stage!ApprovalLapses,
         Stage!FileChanges
<1>7. ~Stage!ApproveExecute
  BY <1>1 DEF Stage!ApproveExecute
<1>8. /\ ~Stage!MutationContext /\ ~Stage!Renew /\ ~Stage!ResumeQa /\ ~Stage!Complete
      /\ ~Stage!SupersedeLook /\ ~Stage!SupersedeWrite /\ \A v : ~Stage!OtherJudged(v)
  BY DEF Stage!MutationContext, Stage!Renew, Stage!ResumeQa, Stage!Complete,
         Stage!SupersedeLook, Stage!SupersedeWrite, Stage!OtherJudged
<1> QED
  BY <1>2, <1>3, <1>4, <1>5, <1>6, <1>7, <1>8 DEF Stage!Next

\* A revision that a revalidation has taken to QA is not running.
LEMMA StageRuns ==
    ASSUME Stage!IndInv, Stage!Next
    PROVE  Stage!NotRerun
<1> SUFFICES ASSUME NEW k \in Stage!Runs, work[k] = "queued", work'[k] = "running",
                    <<Stage!RevOf(k), k>> \in revalidated
             PROVE  FALSE
  BY DEF Stage!NotRerun
<1>1. taskStatus = "running" /\ rev = Stage!RevOf(k)
  BY StageStarts DEF Stage!WorkStarts, Stage!Authorized
<1>2. <<Stage!RevOf(k), k>>[1] = rev
  BY <1>1
<1> QED
  BY <1>1, <1>2 DEF Stage!IndInv, Stage!HistoryTrue

\* Only a request uses a token, after it has looked at the task.
LEMMA StageSees ==
    ASSUME Stage!IndInv, Stage!Next
    PROVE  Stage!TokenSeesAll
<1>1. Stage!Fresh \/ context' = context \/ context = NoToken
  <2>1. ASSUME NEW k \in Stage!Runs, \/ Stage!WorkStarts(k) \/ Stage!WorkRefused(k)
                                     \/ Stage!WorkFails(k) \/ Stage!WorkAnswers(k)
                                     \/ Stage!Retry(k)
        PROVE  context' = context
    BY <2>1 DEF Stage!WorkStarts, Stage!WorkRefused, Stage!WorkFails, Stage!WorkAnswers,
                Stage!Retry, Stage!Fails, Stage!Fixed, Stage!Asked
  <2>2. ASSUME NEW k \in Stage!Runs,
               \/ Stage!Revalidate(k)
               \/ \E i \in DOMAIN qaVerdicts : Stage!RecoverRework(i, k)
        PROVE  Stage!Fresh
    BY <2>2 DEF Stage!Revalidate, Stage!RecoverRework, Stage!Request
  <2>3. ASSUME Stage!ApproveExecute \/ Stage!ResumeQa \/ Stage!Complete PROVE Stage!Fresh
    BY <2>3 DEF Stage!ApproveExecute, Stage!ResumeQa, Stage!Complete, Stage!Request
  <2>4. ASSUME \/ \E says \in {"PASS", "rework", "missing"} : Stage!ReviewAnswers(says)
               \/ Stage!ReviewFails \/ Stage!ApprovalLapses \/ Stage!FileChanges \/ Stage!Renew
               \/ Stage!SupersedeLook \/ Stage!SupersedeWrite
               \/ \E v \in {"passed", "reworked"} : Stage!OtherJudged(v)
        PROVE  context' = context
    BY <2>4 DEF Stage!ReviewAnswers, Stage!ReviewFails, Stage!ApprovalLapses,
                Stage!FileChanges, Stage!Renew, Stage!SupersedeLook, Stage!SupersedeWrite,
                Stage!OtherJudged, Stage!Fixed, Stage!Asked
  <2>5. Stage!MutationContext => context = NoToken
    BY DEF Stage!MutationContext
  <2> QED
    BY <2>1, <2>2, <2>3, <2>4, <2>5 DEF Stage!Next
<1> QED
  BY <1>1, StageFresh DEF Stage!IndInv, Stage!TokenSeesAll

\* war_room_stage_recovery and the handlers around it: a QA PASS stands on evidence of its
\* own revision and cycle, of a run that passed or was revalidated; what was revalidated
\* is not dispatched again; and a fresh-context token is accepted only while no step has
\* moved the task since it was taken.
THEOREM StageKeptCorrect == Spec => StageKept
<1>1. Init => Stage!IndInv
  BY StageInit DEF Init
<1>2. Stage!IndInv /\ [Next]_vars => Stage!IndInv'
  BY StageStep
<1>3. Stage!IndInv /\ [Next]_vars => [Stage!NotRerun /\ Stage!TokenSeesAll]_(Stage!stage)
  <2> SUFFICES ASSUME Stage!IndInv, [Next]_vars, ~UNCHANGED stages
               PROVE  Stage!NotRerun /\ Stage!TokenSeesAll
    BY DEF stages, Stage!stage, Stage!task
  <2>1. Stage!Next
    BY DEF Next, vars, stages
  <2> QED
    BY <2>1, StageRuns, StageSees
<1>4. Stage!IndInv => Stage!SignedIsProven
  BY DEF Stage!IndInv
<1> QED
  BY <1>1, <1>2, <1>3, <1>4, PTL DEF Spec, StageKept, Stage!StageKept
==================================================================================
