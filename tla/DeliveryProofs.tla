----------------------------- MODULE DeliveryProofs -----------------------------
(***************************************************************************)
(* Theorems about DeliveryWorker, for every set of tasks, agents and       *)
(* teams, both lanes, every subset of the API, and any bounds.             *)
(***************************************************************************)
EXTENDS DeliveryWorker, FiniteSetTheorems, TLAPS

(******************************* deliveries ********************************)

\* A key names a task, an agent of its team or the reviewer, and a revision.
LEMMA KeyFacts ==
    /\ \A k \in Keys : /\ TaskOf(k) \in Tasks /\ AgentOf(k) \in Agents \cup {Reviewer}
                       /\ RevOf(k) \in 1..MaxRev
                       /\ AgentOf(k) # Reviewer => AgentOf(k) \in Team[TaskOf(k)]
                       /\ k = <<TaskOf(k), AgentOf(k), RevOf(k)>>
    /\ \A t \in Tasks : \A a \in Team[t] \cup {Reviewer} : \A r \in 1..MaxRev :
           /\ <<t, a, r>> \in Keys
           /\ TaskOf(<<t, a, r>>) = t /\ AgentOf(<<t, a, r>>) = a /\ RevOf(<<t, a, r>>) = r
    /\ NoKey \notin Keys
BY TeamAssumption, KeyAssumption DEF Keys, TaskOf, AgentOf, RevOf

\* The reviewer is in no team.
LEMMA TeamFacts == \A t \in Tasks : Reviewer \notin Team[t] /\ Team[t] \subseteq Agents
BY TeamAssumption

(******************************* sound moves *******************************)

\* How one transaction may change a delivery: it never disappears, unless it is the
\* reviewer's and a cycle begins; an answer stays; a new one belongs to the revision that
\* runs, or to the reviewer of the one that is in QA.
RowMoves(s, n, k) ==
    LET t == TaskOf(k) IN
    /\ n.row[k].st \in Active => s.row[k].st \in Active
    /\ s.row[k].st = "responded" =>
          \/ n.row[k].st = "responded" /\ n.row[k].says = s.row[k].says
          \/ AgentOf(k) = Reviewer /\ n.cycle[t] # s.cycle[t]
    /\ n.row[k].st \in {"queued", "sent"} => n.row[k].tries < MaxTries
    /\ FastRun(k) => n.row[k].says = "none"
    /\ n.row[k].st # "absent" /\ s.row[k].st = "absent" =>
          OfTask(n, k) /\ n.status[t] = (IF AgentOf(k) = Reviewer THEN "qa" ELSE "running")
    /\ s.row[k].st # "absent" /\ AgentOf(k) # Reviewer => n.row[k].st # "absent"

SameBooks(s, n, t) == n.rev[t] = s.rev[t] /\ n.cycle[t] = s.cycle[t]

\* How it may change a task: not at all; to the next revision; between statuses outside
\* QA; into QA, when all the team has answered, or reopened; to completion; to the next
\* cycle of QA.
TaskMoves(s, n, t) ==
    \/ SameBooks(s, n, t) /\ n.status[t] = s.status[t]
    \/ n.rev[t] = s.rev[t] + 1 /\ n.cycle[t] = s.cycle[t] /\ n.status[t] \notin Checked
    \/ /\ SameBooks(s, n, t) /\ s.status[t] \notin Checked /\ n.status[t] \notin Checked
       /\ s.status[t] \in Executed => n.status[t] \in Executed
    \/ /\ s.status[t] = "running" /\ n.status[t] = "qa"
       /\ n.rev[t] = s.rev[t] /\ n.cycle[t] = s.cycle[t] + 1
       /\ \E k \in Keys : /\ TaskOf(k) = t /\ OfTask(s, k) /\ AgentOf(k) # Reviewer
                          /\ n.row[k].st # "absent"
       /\ \A k \in Keys : TaskOf(k) = t /\ OfTask(s, k) /\ AgentOf(k) # Reviewer
                          => n.row[k].st \in {"absent", "responded"}
    \/ /\ SameBooks(s, n, t) /\ s.status[t] = "qa" /\ n.status[t] = "completed"
       /\ <<t, s.rev[t], s.cycle[t], "PASS">> \in s.verdicts
    \/ /\ n.rev[t] = s.rev[t] /\ n.cycle[t] = s.cycle[t] + 1 /\ s.cycle[t] < MaxCycle
       /\ s.status[t] = "qa" /\ n.status[t] = "qa"
    \/ /\ s.status[t] \in {"running", "rework_required"} /\ n.status[t] = "qa"
       /\ n.rev[t] = s.rev[t] /\ n.cycle[t] = s.cycle[t] + 1 /\ Reopens(n, t)

Lawful(s, n) ==
    /\ n \in Snapshots
    /\ \A k \in Keys : RowMoves(s, n, k)
    /\ \A t \in Tasks : TaskMoves(s, n, t)
    /\ s.verdicts \subseteq n.verdicts /\ s.recovered \subseteq n.recovered
    /\ \A v \in n.verdicts \ s.verdicts : VerdictTrue(n, v)

\* What a sound snapshot is made of.
LEMMA SnapshotFacts ==
    ASSUME NEW s \in Snapshots
    PROVE  /\ \A t \in Tasks : /\ s.status[t] \in Statuses
                               /\ s.rev[t] \in Nat /\ s.rev[t] \in 1..(MaxRev + 1)
                               /\ s.cycle[t] \in Nat
           /\ \A k \in Keys : /\ s.row[k].st \in RowStatuses /\ s.row[k].tries \in Nat
           /\ \A v \in s.verdicts : v[1] \in Tasks /\ v[2] \in Nat /\ v[3] \in Nat
BY BoundAssumption DEF Snapshots

\* A revision that was reopened stays so.
LEMMA ReopensStays ==
    ASSUME NEW s, NEW n, Lawful(s, n), NEW t, n.rev[t] = s.rev[t], Reopens(s, t)
    PROVE  Reopens(n, t)
BY DEF Lawful, Reopens

LEMMA RowSound ==
    ASSUME NEW s, NEW n, Sound(s), Lawful(s, n), NEW k \in Keys
    PROVE  RowTrue(n, k)
<1> DEFINE t == TaskOf(k)
<1>1. t \in Tasks /\ RevOf(k) \in Nat
  BY KeyFacts
<1>2. RowTrue(s, k) /\ RowMoves(s, n, k) /\ TaskMoves(s, n, t)
  BY <1>1 DEF Sound, Lawful
<1>3. s.rev[t] \in Nat /\ n.rev[t] \in Nat /\ s.cycle[t] \in Nat /\ n.cycle[t] \in Nat
  BY <1>1, SnapshotFacts DEF Sound, Lawful
<1>4. n.rev[t] = s.rev[t] /\ Reopens(s, t) => Reopens(n, t)
  BY ReopensStays
<1> HIDE DEF t
<1> QED
  BY <1>1, <1>2, <1>3, <1>4
  DEF RowTrue, RowMoves, TaskMoves, SameBooks, OfTask, Reached, Executed, Checked, Closed, t

LEMMA TaskSound ==
    ASSUME NEW s, NEW n, Sound(s), Lawful(s, n), NEW t \in Tasks
    PROVE  TaskTrue(n, t)
<1>1. TaskTrue(s, t) /\ TaskMoves(s, n, t) /\ s.verdicts \subseteq n.verdicts
  BY DEF Sound, Lawful
<1>2. /\ s.rev[t] \in Nat /\ n.rev[t] \in Nat /\ s.cycle[t] \in Nat /\ n.cycle[t] \in Nat
      /\ MaxCycle \in Nat
  BY SnapshotFacts, BoundAssumption DEF Sound, Lawful
<1>3. \A k \in Keys : AgentOf(k) # Reviewer /\ s.row[k].st # "absent" => n.row[k].st # "absent"
  BY DEF Lawful, RowMoves
<1>7. n.rev[t] = s.rev[t] /\ Reopens(s, t) => Reopens(n, t)
  BY ReopensStays
<1>4. n.status[t] \in Checked =>
        \/ Reopens(n, t)
        \/ \E k \in Keys : TaskOf(k) = t /\ OfTask(n, k) /\ AgentOf(k) # Reviewer
                           /\ n.row[k].st # "absent"
  BY <1>1, <1>2, <1>3, <1>7 DEF TaskTrue, TaskMoves, SameBooks, OfTask, Checked
<1>5. n.status[t] = "completed" => <<t, n.rev[t], n.cycle[t], "PASS">> \in n.verdicts
  BY <1>1, <1>2 DEF TaskTrue, TaskMoves, SameBooks, Checked
<1>6. n.cycle[t] <= MaxCycle + n.rev[t] - (IF n.status[t] \in Checked THEN 0 ELSE 1)
  BY <1>1, <1>2 DEF TaskTrue, TaskMoves, SameBooks, Checked
<1> QED
  BY <1>4, <1>5, <1>6 DEF TaskTrue

LEMMA VerdictSound ==
    ASSUME NEW s, NEW n, Sound(s), Lawful(s, n), NEW v \in n.verdicts
    PROVE  VerdictTrue(n, v)
<1>1. CASE v \notin s.verdicts
  BY <1>1 DEF Lawful
<1>2. CASE v \in s.verdicts
  <2>1. v[1] \in Tasks /\ v[2] \in Nat /\ v[3] \in Nat
    BY <1>2, SnapshotFacts DEF Sound
  <2>2. VerdictTrue(s, v) /\ TaskMoves(s, n, v[1])
    BY <1>2, <2>1 DEF Sound, Lawful
  <2>3. /\ s.rev[v[1]] \in Nat /\ n.rev[v[1]] \in Nat
        /\ s.cycle[v[1]] \in Nat /\ n.cycle[v[1]] \in Nat
    BY <2>1, SnapshotFacts DEF Sound, Lawful
  <2>4. \A k \in Keys : TaskOf(k) = v[1] /\ s.row[k].st = "responded"
                        /\ n.cycle[v[1]] = s.cycle[v[1]]
                        => n.row[k].st = "responded" /\ n.row[k].says = s.row[k].says
    BY DEF Lawful, RowMoves
  <2> QED
    BY <2>1, <2>2, <2>3, <2>4 DEF VerdictTrue, TaskMoves, SameBooks, OfTask
<1> QED
  BY <1>1, <1>2

\* Lawful steps keep a snapshot sound.
LEMMA LawfulIsSound ==
    ASSUME NEW s, NEW n, Sound(s), Lawful(s, n)
    PROVE  Sound(n)
<1>1. \A j, k \in Keys : j # k /\ AgentOf(j) = AgentOf(k)
                         => ~(n.row[j].st \in Active /\ n.row[k].st \in Active)
  BY DEF Sound, Lawful, RowMoves
<1> QED
  BY <1>1, RowSound, TaskSound, VerdictSound DEF Sound, Lawful

(******************************* the present state *************************)

LEMMA StoredIs ==
    /\ Stored.status = status /\ Stored.rev = rev /\ Stored.cycle = cycle
    /\ Stored.recovered = recovered /\ Stored.verdicts = verdicts /\ Stored.issues = issues
    /\ Stored.row = row /\ Stored.bound = bound
BY DEF Stored

LEMMA StoredIsNext ==
    /\ Stored'.status = status' /\ Stored'.rev = rev' /\ Stored'.cycle = cycle'
    /\ Stored'.recovered = recovered' /\ Stored'.verdicts = verdicts'
    /\ Stored'.issues = issues'
    /\ Stored'.row = row' /\ Stored'.bound = bound'
BY DEF Stored

\* TypeOK without the stored variables: the runtime thread's job, and the others.
JobOK ==
    /\ job \in [at : {"idle", "due", "claimed", "sent", "poll", "polled"},
               key : Keys \cup {NoKey}, todo : SUBSET Keys, late : SUBSET Keys,
               got : Receipts, lock : BOOLEAN, base : {<<>>} \cup Snapshots]
    /\ job.lock <=> job.base # <<>>
WorldOK ==
    /\ appr \subseteq Tasks
    /\ control \in {"running", "stopped", "stop_failed"}
    /\ touched \subseteq Keys
    /\ run \in [Keys -> {"none", "running"} \cup Ended]
    /\ asked \in [Keys -> {"nothing", "work", "review"}]
    /\ faults \in 0..MaxFaults

LEMMA TypeIs == TypeOK <=> Stored \in Snapshots /\ WorldOK /\ JobOK
BY DEF TypeOK, WorldOK, JobOK

LEMMA TypeIsNext == TypeOK' <=> Stored' \in Snapshots /\ WorldOK' /\ JobOK'
BY DEF TypeOK, WorldOK, JobOK

LEMMA StoredIsSome == Stored # <<>>
BY DEF Stored

\* The stored variables one by one.
Row      == [st : RowStatuses, id : BOOLEAN, tries : 0..MaxTries, late : BOOLEAN,
             says : {"none", "PASS", "FAIL"}]
Revs     == 1..(MaxRev + 1)
Cycles   == 0..(MaxCycle + MaxRev + 1)
Issues   == SUBSET (Tasks \X Revs \X (Keys \cup {NoKey}))
Verdicts == SUBSET (Tasks \X Revs \X Cycles \X {"PASS", "FAIL"})
Recovered == SUBSET (Tasks \X (1..MaxRev) \X Keys)
Bounds   == [Tasks -> [Agents \cup {Reviewer} -> 0..MaxRev]]

LEMMA StoredTypes ==
    ASSUME Sound(Stored)
    PROVE  /\ status \in [Tasks -> Statuses] /\ rev \in [Tasks -> Revs]
           /\ cycle \in [Tasks -> Cycles] /\ verdicts \in Verdicts /\ issues \in Issues
           /\ row \in [Keys -> Row] /\ bound \in Bounds /\ recovered \in Recovered
BY DEF Sound, Snapshots, Stored, Revs, Cycles, Verdicts, Issues, Row, Bounds, Recovered

LEMMA NextTypes ==
    ASSUME status' \in [Tasks -> Statuses], rev' \in [Tasks -> Revs],
           cycle' \in [Tasks -> Cycles], verdicts' \in Verdicts, issues' \in Issues,
           row' \in [Keys -> Row], bound' \in Bounds, recovered' \in Recovered
    PROVE  Stored' \in Snapshots
BY DEF Snapshots, Stored, Revs, Cycles, Verdicts, Issues, Row, Bounds, Recovered

\* The next state stores a sound snapshot when the step is lawful.
LEMMA StoredSound ==
    ASSUME Sound(Stored), Lawful(Stored, Stored')
    PROVE  Sound(Stored)'
<1>1. Sound(Stored')
  BY LawfulIsSound
<1> QED
  BY <1>1

(******************************* rows that settle **************************)

\* What a step of the runtime may do to the rows there are.
Settles(rows, j) ==
    /\ rows[j].st = "absent" <=> row[j].st = "absent"
    /\ rows[j].st \in Active => row[j].st \in Active
    /\ row[j].st = "responded" => rows[j].st = "responded" /\ rows[j].says = row[j].says
    /\ rows[j].st \in {"queued", "sent"} => rows[j].tries < MaxTries
    /\ FastRun(j) => rows[j].says = "none"
Settled(rows) == rows \in [Keys -> Row] /\ \A j \in Keys : Settles(rows, j)

LEMMA RowFacts ==
    ASSUME Sound(Stored), NEW k \in Keys
    PROVE  /\ row[k] \in Row
           /\ row[k].st \in {"queued", "sent"} => row[k].tries < MaxTries
           /\ FastRun(k) => row[k].says = "none"
BY StoredTypes, StoredIs DEF Sound, RowTrue

LEMMA RowsAreSettled == ASSUME Sound(Stored) PROVE Settled(row)
BY RowFacts, StoredTypes DEF Settled, Settles

\* One row that is not settled for good changes.
LEMMA OneRowSettles ==
    ASSUME Sound(Stored), NEW k \in Keys, NEW r \in Row,
           row[k].st \notin {"absent", "responded"}, r.st # "absent",
           r.st \in Active => row[k].st \in Active,
           r.st \in {"queued", "sent"} => r.tries < MaxTries,
           FastRun(k) => r.says = "none"
    PROVE  Settled([row EXCEPT ![k] = r])
BY RowFacts, StoredTypes DEF Settled, Settles

\* A row is of a revision its task has executed.
LEMMA PresentIsReached ==
    ASSUME Sound(Stored), NEW k \in Keys, row[k].st # "absent"
    PROVE  Reached(Stored, k)
BY StoredIs DEF Sound, RowTrue

(******************************* what settled rows do **********************)

TaskStays(t) == status'[t] = status[t] /\ rev'[t] = rev[t] /\ cycle'[t] = cycle[t]
Refused(t)   == status'[t] = "rework_required" /\ rev'[t] = rev[t] + 1 /\ cycle'[t] = cycle[t]

\* The books of a step that settles rows and refuses at most the task of one key.
LEMMA RefusalIsLawful ==
    ASSUME Sound(Stored), NEW k \in Keys,
           \/ UNCHANGED task
           \/ OfTask(Stored, k) /\ Rework(TaskOf(k)),
           Settled(row'), UNCHANGED verdicts, issues' \in Issues, bound' \in Bounds
    PROVE  /\ Lawful(Stored, Stored')
           /\ \A t \in Tasks : TaskStays(t) \/ (t = TaskOf(k) /\ OfTask(Stored, k) /\ Refused(t))
<1>1. TaskOf(k) \in Tasks /\ RevOf(k) \in 1..MaxRev /\ MaxRev \in Nat
  BY KeyFacts, BoundAssumption
<1>2. \A t \in Tasks : TaskStays(t) \/ (t = TaskOf(k) /\ OfTask(Stored, k) /\ Refused(t))
  BY <1>1, StoredTypes DEF TaskStays, Refused, task, Rework
<1>3. status' \in [Tasks -> Statuses] /\ cycle' \in [Tasks -> Cycles] /\ UNCHANGED recovered
  BY <1>1, StoredTypes DEF task, Rework, Statuses
<1>4. rev' \in [Tasks -> Revs]
  BY <1>1, StoredTypes, StoredIs DEF task, Rework, Revs, OfTask
<1>5. Stored' \in Snapshots
  BY <1>3, <1>4, StoredTypes, NextTypes DEF Settled
<1>6. \A j \in Keys : RowMoves(Stored, Stored', j)
  BY StoredIs, StoredIsNext DEF Settled, Settles, RowMoves
<1>7. \A t \in Tasks : TaskMoves(Stored, Stored', t)
  BY <1>2, StoredIs, StoredIsNext DEF TaskStays, Refused, TaskMoves, SameBooks, Checked
<1> QED
  BY <1>2, <1>3, <1>5, <1>6, <1>7, StoredIs, StoredIsNext DEF Lawful

\* Issues are opened for a task at its present revision.
LEMMA IssueTypes ==
    ASSUME Sound(Stored), NEW k \in Keys
    PROVE  /\ Mark(TaskOf(k), k) \in Issues /\ Mark(TaskOf(k), NoKey) \in Issues
           /\ Resolved(k) \in Issues
           /\ Resolved(k) \cup {<<TaskOf(k), rev[TaskOf(k)], NoKey>>} \in Issues
<1>1. TaskOf(k) \in Tasks /\ rev[TaskOf(k)] \in Revs /\ issues \in Issues
  BY KeyFacts, StoredTypes
<1>2. issues \subseteq Tasks \X Revs \X (Keys \cup {NoKey})
  BY <1>1 DEF Issues
<1> QED
  BY <1>1, <1>2 DEF Mark, Resolved, Issues

\* Nothing happens to tasks or rows but what TerminalFailure says.
LEMMA FailureIsLawful ==
    ASSUME Sound(Stored), NEW k \in Keys, NEW rows, NEW soft, Settled(rows),
           TerminalFailure(k, rows, soft), UNCHANGED verdicts, bound' \in Bounds
    PROVE  /\ Lawful(Stored, Stored')
           /\ \A t \in Tasks :
                 TaskStays(t) \/ (t = TaskOf(k) /\ OfTask(Stored, k) /\ Current(k) /\ Refused(t))
           /\ Settled(row') /\ row'[k] = rows[k]
           /\ \A j \in Keys : row'[j].st = "responded" => rows[j].st = "responded"
           /\ \A j \in Keys : row'[j].st # rows[j].st => status'[TaskOf(j)] = "rework_required"
<1> DEFINE failed == [j \in Keys |-> IF /\ TaskOf(j) = TaskOf(k) /\ RevOf(j) = RevOf(k) /\ j # k
                                        /\ rows[j].st = "queued"
                                     THEN [rows[j] EXCEPT !.st = "failed"] ELSE rows[j]]
<1>1. TaskOf(k) \in Tasks
  BY KeyFacts
<1>2. row' \in {rows, failed} /\ issues' \in {issues, Mark(TaskOf(k), k)}
  BY DEF TerminalFailure
<1>3. UNCHANGED task \/ (Current(k) /\ Rework(TaskOf(k)))
  BY DEF TerminalFailure
<1>4. Current(k) => OfTask(Stored, k)
  BY StoredIs DEF Current, OfTask
<1>5. rows \in [Keys -> Row] /\ \A j \in Keys : Settles(rows, j)
  BY DEF Settled
<1>6. \A j \in Keys : rows[j] \in Row
  BY <1>5
<1>7. failed \in [Keys -> Row]
  <2>1. \A j \in Keys : [rows[j] EXCEPT !.st = "failed"] \in Row
    BY <1>6 DEF Row, RowStatuses
  <2> QED
    BY <1>6, <2>1
<1>8. \A j \in Keys : failed[j].st # rows[j].st => failed[j].st = "failed" /\ rows[j].st = "queued"
  BY <1>6 DEF Row
<1>9. \A j \in Keys : failed[j].tries = rows[j].tries /\ failed[j].says = rows[j].says
  BY <1>6 DEF Row
<1>10. \A j \in Keys : Settles(failed, j)
  <2> HIDE DEF failed
  <2> QED
    BY <1>5, <1>8, <1>9 DEF Settles, Active
<1>11. Settled(row')
  BY <1>2, <1>5, <1>7, <1>10 DEF Settled
<1>12. issues' \in Issues
  BY <1>2, IssueTypes, StoredTypes
<1>13. Lawful(Stored, Stored')
  BY <1>3, <1>4, <1>11, <1>12, RefusalIsLawful
<1>14. \A t \in Tasks : TaskStays(t) \/ (t = TaskOf(k) /\ OfTask(Stored, k) /\ Current(k) /\ Refused(t))
  <2>1. CASE UNCHANGED task
    BY <2>1 DEF task, TaskStays
  <2>2. CASE Current(k) /\ Rework(TaskOf(k))
    BY <1>4, <1>11, <1>12, <2>2, RefusalIsLawful
  <2> QED
    BY <1>3, <2>1, <2>2
<1>15. \A j \in Keys : row'[j].st = "responded" => rows[j].st = "responded"
  BY <1>2, <1>8
<1>16. row'[k] = rows[k]
  BY <1>2, <1>5
<1>17. \A j \in Keys : row'[j].st # rows[j].st => status'[TaskOf(j)] = "rework_required"
  <2>1. CASE row' = rows
    BY <2>1
  <2>2. CASE row' # rows
    <3>1. status'[TaskOf(k)] = "rework_required"
      BY <1>1, <2>2, StoredTypes DEF TerminalFailure, task, Rework
    <3>2. \A j \in Keys : failed[j].st # rows[j].st => TaskOf(j) = TaskOf(k)
      OBVIOUS
    <3> QED
      BY <1>2, <3>1, <3>2
  <2> QED
    BY <2>1, <2>2
<1> QED
  BY <1>11, <1>13, <1>14, <1>15, <1>16, <1>17

\* An automatic verdict is signed for the present revision and cycle, on the reviewer's
\* one delivery of that revision.
LEMMA ReviewIsLawful ==
    ASSUME Sound(Stored), NEW k \in Keys, NEW rows, Settled(rows), rows[k].st = "responded",
           IsReview(k), OfTask(Stored, k), ReviewVerdict(k, rows), bound' \in Bounds
    PROVE  /\ Lawful(Stored, Stored')
           /\ \A t \in Tasks :
                 TaskStays(t) \/ (t = TaskOf(k) /\ status[t] = "qa" /\ Refused(t))
           /\ row' = rows
<1> DEFINE t == TaskOf(k)
           v == <<t, rev[t], cycle[t], rows[k].says>>
<1>1. t \in Tasks /\ RevOf(k) = rev[t] /\ rev[t] \in 1..MaxRev /\ MaxRev \in Nat
  BY KeyFacts, BoundAssumption, StoredIs DEF OfTask
<1>2. row' = rows /\ issues' \in {Resolved(k), Resolved(k) \cup {<<t, rev[t], NoKey>>}}
  BY DEF ReviewVerdict
<1>3. issues' \in Issues
  BY <1>2, IssueTypes
<1>4. status[t] = "qa" /\ AgentOf(k) = Reviewer
  BY DEF IsReview
<1>5. \/ rows[k].says \in {"PASS", "FAIL"} /\ verdicts' = verdicts \cup {v}
         /\ (UNCHANGED task \/ Rework(t))
         /\ (rows[k].says = "FAIL" => Rework(t))
      \/ UNCHANGED verdicts /\ UNCHANGED task
  BY DEF ReviewVerdict
<1>6. \A u \in Tasks : TaskStays(u) \/ (u = t /\ Refused(u))
  BY <1>1, <1>5, StoredTypes DEF TaskStays, Refused, task, Rework
<1>7. CASE UNCHANGED verdicts
  BY <1>2, <1>3, <1>4, <1>5, <1>6, <1>7, RefusalIsLawful
<1>8. CASE ~UNCHANGED verdicts
  <2>1. verdicts' = verdicts \cup {v} /\ rows[k].says \in {"PASS", "FAIL"}
        /\ (UNCHANGED task \/ Rework(t))
    BY <1>5, <1>8
  <2>2. /\ status' \in [Tasks -> Statuses] /\ cycle' = cycle /\ rev' \in [Tasks -> Revs]
        /\ recovered' = recovered
    BY <1>1, <2>1, StoredTypes DEF task, Rework, Statuses, Revs
  <2>3. v \in Tasks \X Revs \X Cycles \X {"PASS", "FAIL"}
    BY <1>1, <2>1, StoredTypes DEF Revs
  <2>4. verdicts' \in Verdicts
    <3> HIDE DEF v
    <3> QED
      BY <2>1, <2>3, StoredTypes DEF Verdicts
  <2>5. Stored' \in Snapshots
    BY <1>2, <1>3, <2>2, <2>4, StoredTypes, NextTypes DEF Settled
  <2>6. \A j \in Keys : RowMoves(Stored, Stored', j)
    BY <1>2, StoredIs, StoredIsNext DEF Settled, Settles, RowMoves
  <2>7. \A u \in Tasks : TaskMoves(Stored, Stored', u)
    BY <1>6, StoredIs, StoredIsNext DEF TaskStays, Refused, TaskMoves, SameBooks, Checked
  <2>8. \A j \in Keys : TaskOf(j) = t /\ AgentOf(j) = Reviewer /\ RevOf(j) = rev[t] => j = k
    BY <1>1, <1>4, KeyFacts
  <2>9. rev'[t] = rev[t] \/ rev'[t] = rev[t] + 1
    BY <1>1, <1>6 DEF TaskStays, Refused
  <2>10. VerdictTrue(Stored', v)
    <3>1. v[1] = t /\ v[2] = rev[t] /\ v[3] = cycle[t] /\ v[4] = rows[k].says /\ rev[t] \in Nat /\ cycle[t] \in Nat
      BY <1>1, StoredTypes DEF Cycles
    <3>2. Stored'.rev[t] = rev'[t] /\ Stored'.cycle[t] = cycle[t] /\ Stored'.row = rows
      BY <1>2, <2>2, StoredIsNext
    <3> HIDE DEF v
    <3> QED
      BY <2>8, <2>9, <3>1, <3>2 DEF VerdictTrue, OfTask
  <2>11. Lawful(Stored, Stored')
    <3> HIDE DEF v
    <3> QED
      BY <2>1, <2>2, <2>5, <2>6, <2>7, <2>10, StoredIs, StoredIsNext DEF Lawful
  <2> QED
    BY <1>2, <1>4, <1>6, <2>11
<1> QED
  BY <1>7, <1>8

\* A row that does not exist and a fresh one.
LEMMA FreshRows ==
    /\ NoRow \in Row /\ NewRow \in Row
    /\ NewRow.st = "queued" /\ NewRow.tries = 0 /\ NewRow.says = "none" /\ NoRow.st = "absent"
    /\ NoRow.says = "none"
<1>1. NoRow \in Row
  BY BoundAssumption DEF NoRow, Row, RowStatuses
<1>2. NewRow \in Row
  BY <1>1 DEF NewRow, Row, RowStatuses, Live
<1> QED
  BY <1>1, <1>2 DEF NewRow, NoRow

\* Asking the reviewer adds the reviewer's row or nothing.
LEMMA QueueFacts ==
    ASSUME Sound(Stored), NEW q \in Keys, NEW rows, NEW open \in Issues, Settled(rows),
           QueueReview(q, rows, open),
           OfTask(Stored, q)
    PROVE  /\ row' \in [Keys -> Row] /\ issues' \in Issues
           /\ \A j \in Keys \ {q} : row'[j] = rows[j]
           /\ row'[q] = rows[q] \/ (rows[q].st = "absent" /\ row'[q] = NewRow)
<1>1. NewRow \in Row /\ rows \in [Keys -> Row]
  BY FreshRows DEF Settled
<1>2. issues' \in {open, open \cup {<<TaskOf(q), RevOf(q), NoKey>>}}
  BY DEF QueueReview
<1>3. TaskOf(q) \in Tasks /\ RevOf(q) \in Revs
  BY KeyFacts, StoredTypes, StoredIs DEF OfTask
<1>4. issues' \in Issues
  BY <1>2, <1>3 DEF Issues
<1>5. row' = rows \/ (rows[q].st = "absent" /\ row' = [rows EXCEPT ![q] = NewRow])
  BY DEF QueueReview
<1> QED
  BY <1>1, <1>4, <1>5

\* What the last answer of a revision does: it is refused, or goes to QA.
ToQA(t) ==
    /\ status[t] = "running" /\ status'[t] = "qa"
    /\ rev'[t] = rev[t] /\ cycle'[t] = cycle[t] + 1

LEMMA CollaborationIsLawful ==
    ASSUME Sound(Stored), NEW k \in Keys, NEW rows, Settled(rows), rows[k].st = "responded",
           row[k].st = "received",
           ~IsReview(k), OfTask(Stored, k), ~Pending(k, rows), Collaboration(k, rows),
           bound' \in Bounds
    PROVE  /\ Lawful(Stored, Stored')
           /\ \A t \in Tasks :
                 TaskStays(t) \/ (t = TaskOf(k) /\ (ToQA(t) \/ Refused(t)))
           /\ \A j \in Keys : row'[j] = rows[j] \/ (rows[j].st = "absent" /\ row'[j] = NewRow)
<1> DEFINE t == TaskOf(k)
           q == QAKey(t)
<1>1. /\ t \in Tasks /\ RevOf(k) = rev[t] /\ rev[t] \in 1..MaxRev /\ MaxRev \in Nat
      /\ MaxCycle \in Nat
  BY KeyFacts, BoundAssumption, StoredIs DEF OfTask
<1>2. q \in Keys /\ TaskOf(q) = t /\ AgentOf(q) = Reviewer /\ RevOf(q) = rev[t]
  BY <1>1, KeyFacts DEF QAKey
<1>3. OfTask(Stored, q)
  BY <1>2, StoredIs DEF OfTask
<1>4. Resolved(k) \in Issues
  BY IssueTypes
<1>5. rows \in [Keys -> Row] /\ \A j \in Keys : Settles(rows, j)
  BY DEF Settled
<1>6. AgentOf(k) = Reviewer => status[t] = "completed"
  BY <1>1, StoredIs DEF Sound, RowTrue, IsReview, Checked
<1>7. UNCHANGED verdicts
  BY DEF Collaboration
<1>8. CASE row' = rows /\ issues' \in Issues /\ (UNCHANGED task \/ Rework(t))
  <2>1. /\ Lawful(Stored, Stored')
        /\ \A u \in Tasks : TaskStays(u) \/ (u = TaskOf(k) /\ OfTask(Stored, k) /\ Refused(u))
    BY <1>7, <1>8, RefusalIsLawful
  <2> QED
    BY <1>8, <2>1
<1>9. CASE status[t] = "qa" /\ UNCHANGED task /\ QueueReview(q, rows, Resolved(k))
  <2>1. /\ row' \in [Keys -> Row] /\ issues' \in Issues
        /\ \A j \in Keys \ {q} : row'[j] = rows[j]
        /\ row'[q] = rows[q] \/ (rows[q].st = "absent" /\ row'[q] = NewRow)
    BY <1>2, <1>3, <1>4, <1>9, QueueFacts
  <2>2. CASE row'[q] = rows[q]
    <3>1. row' = rows
      BY <1>2, <1>5, <2>1, <2>2
    <3> QED
      BY <1>8, <1>9, <2>1, <3>1
  <2>3. CASE rows[q].st = "absent" /\ row'[q] = NewRow
    <3>1. row[q].st = "absent" /\ row'[q].st = "queued" /\ row'[q].tries = 0
      BY <1>2, <1>5, <2>3, FreshRows DEF Settles
    <3>2. Stored' \in Snapshots
      BY <1>7, <1>9, <2>1, StoredTypes, NextTypes DEF task
    <3>3. ASSUME NEW j \in Keys, j # q PROVE RowMoves(Stored, Stored', j)
      BY <1>5, <2>1, <3>3, StoredIs, StoredIsNext DEF Settles, RowMoves
    <3>4. RowMoves(Stored, Stored', q)
      <4>1. Stored'.status[t] = "qa" /\ OfTask(Stored', q) /\ ~FastRun(q)
        BY <1>2, <1>3, <1>9, StoredIs, StoredIsNext DEF OfTask, task, FastRun
      <4> HIDE DEF q
      <4> QED
        BY <1>2, <3>1, <4>1, StoredIs, StoredIsNext, BoundAssumption DEF RowMoves, Active
    <3>5. \A u \in Tasks : TaskStays(u) /\ TaskMoves(Stored, Stored', u)
      BY <1>9, StoredIs, StoredIsNext DEF TaskStays, TaskMoves, SameBooks, task
    <3>6. Lawful(Stored, Stored')
      <4>1. UNCHANGED recovered
        BY <1>9 DEF task
      <4> HIDE DEF q
      <4> QED
        BY <1>7, <3>2, <3>3, <3>4, <3>5, <4>1, StoredIs, StoredIsNext DEF Lawful
    <3> QED
      BY <2>1, <2>3, <3>5, <3>6
  <2> QED
    BY <2>1, <2>2, <2>3
<1>10. CASE /\ status[t] = "running"
            /\ status' = [status EXCEPT ![t] = "qa"] /\ cycle' = [cycle EXCEPT ![t] = @ + 1]
            /\ UNCHANGED <<rev, recovered>>
            /\ QueueReview(q, rows, Resolved(k))
  <2>1. /\ status[t] = "running"
        /\ status' = [status EXCEPT ![t] = "qa"] /\ cycle' = [cycle EXCEPT ![t] = @ + 1]
        /\ UNCHANGED <<rev, verdicts, recovered>>
        /\ QueueReview(q, rows, Resolved(k))
    BY <1>7, <1>10
  <2>2. /\ row' \in [Keys -> Row] /\ issues' \in Issues
        /\ \A j \in Keys \ {q} : row'[j] = rows[j]
        /\ row'[q] = rows[q] \/ (rows[q].st = "absent" /\ row'[q] = NewRow)
    BY <1>2, <1>3, <1>4, <2>1, QueueFacts
  <2>3. row[q].st = "absent" /\ rows[q].st = "absent"
    BY <1>2, <1>3, <1>5, <2>1, StoredIs DEF Sound, RowTrue, Checked, Settles
  <2>4. row'[q].st \in {"absent", "queued"}
    BY <2>2, <2>3, FreshRows
  <2>5. /\ \A u \in Tasks : TaskStays(u) \/ (u = t /\ ToQA(u))
        /\ status' \in [Tasks -> Statuses]
    BY <1>1, <2>1, StoredTypes DEF TaskStays, ToQA, Statuses
  <2>6. cycle' \in [Tasks -> Cycles]
    <3>1. TaskTrue(Stored, t)
      BY <1>1 DEF Sound
    <3>2. cycle[t] \in Nat /\ cycle[t] + 1 <= MaxCycle + rev[t]
      BY <1>1, <2>1, <3>1, StoredIs, StoredTypes DEF TaskTrue, Checked, Cycles
    <3> QED
      BY <1>1, <2>1, <3>2, StoredTypes DEF Cycles
  <2>7. Stored' \in Snapshots
    BY <2>1, <2>2, <2>5, <2>6, StoredTypes, NextTypes
  <2>8. \A j \in Keys : RowMoves(Stored, Stored', j)
    <3>1. ASSUME NEW j \in Keys, j # q PROVE RowMoves(Stored, Stored', j)
      BY <1>5, <2>2, <3>1, StoredIs, StoredIsNext DEF Settles, RowMoves
    <3>2. row'[q].st = "queued" => row'[q].tries = 0
      BY <2>2, <2>3, FreshRows
    <3>3. FastRun(q) => FALSE
      BY <1>2 DEF FastRun
    <3>4. RowMoves(Stored, Stored', q)
      <4>1. Stored'.status[t] = "qa" /\ OfTask(Stored', q)
        BY <1>1, <1>2, <1>3, <2>1, StoredTypes, StoredIs, StoredIsNext DEF OfTask
      <4> HIDE DEF q
      <4> QED
        BY <1>2, <2>3, <2>4, <3>2, <3>3, <4>1, StoredIs, StoredIsNext, BoundAssumption
        DEF RowMoves, Active
    <3> QED
      BY <3>1, <3>4
  <2>9. AgentOf(k) # Reviewer /\ row'[k].st = "responded"
    BY <1>2, <1>6, <2>1, <2>2
  <2>10. \A j \in Keys : TaskOf(j) = t /\ OfTask(Stored, j) /\ AgentOf(j) # Reviewer
                         => row'[j].st \in {"absent", "responded"}
    <3>1. SUFFICES ASSUME NEW j \in Keys, TaskOf(j) = t, OfTask(Stored, j),
                          AgentOf(j) # Reviewer, row[j].st # "absent"
                   PROVE  rows[j].st = "responded"
      BY <1>2, <1>5, <2>2 DEF Settles
    <3>2. j \in TeamRows(t, RevOf(k))
      BY <1>1, <3>1, KeyFacts, StoredIs DEF TeamRows, RowsOf, OfTask
    <3> QED
      BY <3>2 DEF Pending
  <2>11. \A u \in Tasks : TaskMoves(Stored, Stored', u)
    <3>1. CASE TaskMoves(Stored, Stored', t)
      BY <2>5, <3>1, StoredIs, StoredIsNext DEF TaskMoves, SameBooks, TaskStays
    <3>2. \E j \in Keys : /\ TaskOf(j) = t /\ OfTask(Stored, j) /\ AgentOf(j) # Reviewer
                          /\ row'[j].st # "absent"
      BY <2>9
    <3>3. TaskMoves(Stored, Stored', t)
      BY <1>1, <2>1, <2>10, <3>2, StoredTypes, StoredIs, StoredIsNext DEF TaskMoves
    <3> QED
      BY <3>1, <3>3
  <2>12. Lawful(Stored, Stored')
    BY <2>1, <2>7, <2>8, <2>11, StoredIs, StoredIsNext DEF Lawful
  <2> QED
    BY <2>2, <2>5, <2>12
<1>11. \/ row' = rows /\ issues' \in Issues /\ (UNCHANGED task \/ Rework(t))
       \/ status[t] = "qa" /\ UNCHANGED task /\ QueueReview(q, rows, Resolved(k))
       \/ /\ status[t] = "running"
          /\ status' = [status EXCEPT ![t] = "qa"] /\ cycle' = [cycle EXCEPT ![t] = @ + 1]
          /\ UNCHANGED <<rev, recovered>>
          /\ QueueReview(q, rows, Resolved(k))
  BY <1>4 DEF Collaboration
<1> QED
  BY <1>8, <1>9, <1>10, <1>11

\* A task of the Fast Gateway that is not in QA is not refused by the answers of its team,
\* nor by the reviewer's when it has been completed: what remains of the first is no
\* opinion, and the second has signed a PASS.
LEMMA CollaborationAgrees ==
    ASSUME Sound(Stored), AutoQa, NEW k \in Keys, NEW rows, Settled(rows),
           \A j \in Keys : j # k => rows[j] = row[j],
           row[k].st = "received", status[TaskOf(k)] # "qa", OfTask(Stored, k)
    PROVE  TRUE \notin Conflicts(k, rows)
<1> DEFINE t == TaskOf(k)
<1>1. t \in Tasks /\ RevOf(k) = rev[t]
  BY KeyFacts, StoredIs DEF OfTask
<1>2. ASSUME NEW j \in Keys, TaskOf(j) = t, RevOf(j) = rev[t], AgentOf(j) = Reviewer,
             row[j].st # "absent"
      PROVE  row[j].st = "responded" /\ row[j].says = "PASS"
  <2>1. status[t] = "completed"
    BY <1>2, StoredIs DEF Sound, RowTrue, OfTask, Checked
  <2>2. <<t, rev[t], cycle[t], "PASS">> \in verdicts
    BY <1>1, <2>1, StoredIs DEF Sound, TaskTrue
  <2>3. VerdictTrue(Stored, <<t, rev[t], cycle[t], "PASS">>)
    BY <2>2, StoredIs DEF Sound
  <2> QED
    BY <1>2, <2>3, StoredIs DEF VerdictTrue, AutoQa, OfTask
<1>3. AgentOf(k) # Reviewer
  BY <1>1, <1>2
<1>4. ASSUME NEW j \in Keys, TaskOf(j) = t, RevOf(j) = RevOf(k), rows[j].st = "responded"
      PROVE  rows[j].says # "FAIL"
  <2>1. CASE AgentOf(j) = Reviewer
    <3>1. j # k /\ rows[j] = row[j]
      BY <1>3, <2>1
    <3> QED
      BY <1>1, <1>2, <1>4, <2>1, <3>1
  <2>2. CASE AgentOf(j) # Reviewer
    <3>1. FastRun(j)
      BY <1>1, <1>4, <2>2 DEF FastRun, AutoQa
    <3> QED
      BY <3>1 DEF Settled, Settles
  <2> QED
    BY <2>1, <2>2
<1>5. Failing(k, rows) = {}
  BY <1>4 DEF Failing, Answers
<1>6. ~(Cardinality(Failing(k, rows)) > 1)
  <2>1. Cardinality(Failing(k, rows)) = 0
    BY <1>5, FS_EmptySet
  <2> QED
    BY <2>1
<1>7. ~(\E j \in Failing(k, rows) : AgentOf(j) = Reviewer)
  BY <1>5
<1>8. Conflicts(k, rows) = {FALSE}
  BY <1>5, <1>6, <1>7, Zenon DEF Conflicts
<1> QED
  BY <1>8

\* An answer has been stored: what follows is lawful, moves the delivery's own task, if
\* it is at that revision still, and no other.
LEMMA AnswerIsLawful ==
    ASSUME Sound(Stored), NEW k \in Keys, NEW v \in {"none", "PASS", "FAIL"}, NEW rows,
           rows = [row EXCEPT ![k].st = "responded", ![k].says = v],
           row[k].st = "received", FastRun(k) => v = "none",
           AfterResponded(k, rows), bound' \in Bounds
    PROVE  /\ Lawful(Stored, Stored')
           /\ \A t \in Tasks :
                 \/ TaskStays(t)
                 \/ t = TaskOf(k) /\ OfTask(Stored, k) /\ (ToQA(t) \/ Refused(t))
           /\ AutoQa => \A t \in Tasks : TaskStays(t) \/ ToQA(t) \/ status[t] = "qa"
           /\ row'[k].st = "responded"
           /\ \A j \in Keys \ {k} : row'[j] = row[j] \/ row[j].st = "absent"
<1> DEFINE t == TaskOf(k)
<1>1. t \in Tasks
  BY KeyFacts
<1>2. row[k] \in Row
  BY RowFacts
<1>3. rows = [row EXCEPT ![k] = [row[k] EXCEPT !.st = "responded", !.says = v]]
  BY StoredTypes
<1>4. [row[k] EXCEPT !.st = "responded", !.says = v] \in Row
  BY <1>2 DEF Row, RowStatuses
<1>5. /\ Settled(rows) /\ rows[k].st = "responded"
      /\ \A j \in Keys : j # k => rows[j] = row[j]
  <2> DEFINE r == [row[k] EXCEPT !.st = "responded", !.says = v]
  <2>1. r.st = "responded" /\ r.says = v /\ r \in Row
    BY <1>2, <1>4 DEF Row
  <2> HIDE DEF r
  <2>2. Settled([row EXCEPT ![k] = r])
    BY <2>1, OneRowSettles DEF Active
  <2> QED
    BY <1>3, <2>1, <2>2, StoredTypes DEF r
<1>6. OfTask(Stored, k) <=> rev[t] = RevOf(k)
  BY StoredIs DEF OfTask
<1>7. CASE row' = rows /\ UNCHANGED <<task, verdicts>>
           /\ issues' \in {Resolved(k), Resolved(k) \cup {<<t, rev[t], NoKey>>}}
  <2>1. issues' \in Issues
    BY <1>7, IssueTypes
  <2>2. Lawful(Stored, Stored') /\ \A u \in Tasks : TaskStays(u)
    BY <1>5, <1>7, <2>1, RefusalIsLawful DEF task, TaskStays
  <2> QED
    BY <1>5, <1>7, <2>2
<1>8. CASE rev[t] = RevOf(k) /\ IsReview(k) /\ ReviewVerdict(k, rows)
  <2>1. /\ Lawful(Stored, Stored') /\ row' = rows
        /\ \A u \in Tasks : TaskStays(u) \/ (u = TaskOf(k) /\ status[u] = "qa" /\ Refused(u))
    BY <1>5, <1>6, <1>8, ReviewIsLawful
  <2> QED
    BY <1>5, <1>6, <1>8, <2>1
<1>9. CASE rev[t] = RevOf(k) /\ ~IsReview(k) /\ ~Pending(k, rows) /\ Collaboration(k, rows)
  <2>1. /\ Lawful(Stored, Stored')
        /\ \A u \in Tasks : TaskStays(u) \/ (u = TaskOf(k) /\ (ToQA(u) \/ Refused(u)))
        /\ \A j \in Keys : row'[j] = rows[j] \/ (rows[j].st = "absent" /\ row'[j] = NewRow)
    BY <1>5, <1>6, <1>9, CollaborationIsLawful
  <2>2. /\ row'[k].st = "responded"
        /\ \A j \in Keys \ {k} : row'[j] = row[j] \/ row[j].st = "absent"
    BY <1>5, <2>1
  <2>3. AutoQa => \A u \in Tasks : TaskStays(u) \/ ToQA(u) \/ status[u] = "qa"
    <3>1. SUFFICES ASSUME AutoQa, status[t] # "qa"
                   PROVE  \A u \in Tasks : TaskStays(u) \/ ToQA(u)
      BY <2>1
    <3>2. TRUE \notin Conflicts(k, rows)
      BY <1>5, <1>6, <1>9, <3>1, CollaborationAgrees
    <3>3. UNCHANGED task \/ status'[t] = "qa"
      BY <1>1, <1>9, <3>2, StoredTypes DEF Collaboration
    <3> QED
      BY <1>1, <2>1, <3>3 DEF Refused, TaskStays, task
  <2> QED
    BY <1>6, <1>9, <2>1, <2>2, <2>3
<1> QED
  BY <1>7, <1>8, <1>9 DEF AfterResponded

(******************************* the runtime thread ************************)

Sending    == {"due", "claimed", "sent"}
NoAnswers  == \A j \in Keys : row'[j].st = "responded" => row[j].st = "responded"
Unmoved(t) == status'[t] = status[t] /\ rev'[t] = rev[t]

\* What serving the delivery k does to what is stored, and to the thread's job.
Served(k) ==
    /\ Sound(Stored')
    /\ \A t \in Tasks :
          TaskStays(t) \/ (t = TaskOf(k) /\ OfTask(Stored, k) /\ (ToQA(t) \/ Refused(t)))
    /\ AutoQa => \A t \in Tasks : TaskStays(t) \/ ToQA(t) \/ status[t] \in {"running", "qa"}
    /\ \A t \in Tasks : Unmoved(t) \/ row'[k].st # row[k].st
                        \/ (job.at = "due" /\ k \in job.todo
                            /\ (k \in job.late \/ AgentOf(k) \in Revocable))
    /\ \A j \in Keys : row[j].st # "absent" => row'[j].st # "absent"
    /\ \A j \in Keys \ {k} : row[j].st \in Live /\ status'[TaskOf(j)] = "qa" => row'[j].st \in Live
Turned(k) ==
    /\ WorldOK' /\ JobOK'
    /\ Seen' = IF job'.lock THEN Seen ELSE Stored'
    /\ job'.todo \subseteq job.todo
    /\ k \in job'.todo => row'[k].st \in {"sent", row[k].st}
    /\ job'.at \in Sending => job.at \in Sending /\ NoAnswers

\* A step that stores nothing.
LEMMA IdleServes ==
    ASSUME Sound(Stored), UNCHANGED <<task, verdicts, issues, row, bound>>, NEW k \in Keys
    PROVE  Served(k) /\ NoAnswers
<1>1. Stored' = Stored
  BY DEF Stored, task
<1> QED
  BY <1>1 DEF Served, TaskStays, Unmoved, NoAnswers, task

\* A delivery that fails, with the rows it fails with.
LEMMA FailureServes ==
    ASSUME Sound(Stored), NEW k \in Keys, NEW rows, NEW soft, Settled(rows),
           TerminalFailure(k, rows, soft), UNCHANGED verdicts, bound' \in Bounds,
           row[k].st # "absent", \A j \in Keys \ {k} : rows[j] = row[j],
           \/ rows[k].st # row[k].st
           \/ job.at = "due" /\ k \in job.todo /\ (k \in job.late \/ AgentOf(k) \in Revocable)
    PROVE  Served(k) /\ \A j \in Keys : row'[j].st = "responded" => rows[j].st = "responded"
<1>1. /\ Lawful(Stored, Stored') /\ Settled(row') /\ row'[k] = rows[k]
      /\ \A t \in Tasks :
            TaskStays(t) \/ (t = TaskOf(k) /\ OfTask(Stored, k) /\ Current(k) /\ Refused(t))
      /\ \A j \in Keys : row'[j].st = "responded" => rows[j].st = "responded"
      /\ \A j \in Keys : row'[j].st # rows[j].st => status'[TaskOf(j)] = "rework_required"
  BY FailureIsLawful
<1>2. Sound(Stored')
  BY <1>1, LawfulIsSound
<1>3. Reached(Stored, k) /\ RevOf(k) \in Nat
  BY PresentIsReached, KeyFacts
<1>4. OfTask(Stored, k) /\ Current(k) => status[TaskOf(k)] \in {"running", "qa"}
  BY <1>3, StoredIs DEF Reached, OfTask, Current, Executed
<1>5. \A j \in Keys : row[j].st # "absent" => row'[j].st # "absent"
  BY <1>1 DEF Settled, Settles
<1> QED
  BY <1>1, <1>2, <1>4, <1>5 DEF Served, Unmoved, TaskStays

\* An answer that is stored.
LEMMA AnswerServes ==
    ASSUME Sound(Stored), NEW k \in Keys, NEW v \in {"none", "PASS", "FAIL"},
           row[k].st = "received", FastRun(k) => v = "none",
           AfterResponded(k, [row EXCEPT ![k].st = "responded", ![k].says = v]), bound' \in Bounds
    PROVE  Served(k)
<1>1. /\ Lawful(Stored, Stored')
      /\ \A t \in Tasks : \/ TaskStays(t)
                          \/ t = TaskOf(k) /\ OfTask(Stored, k) /\ (ToQA(t) \/ Refused(t))
      /\ AutoQa => \A t \in Tasks : TaskStays(t) \/ ToQA(t) \/ status[t] = "qa"
      /\ row'[k].st = "responded"
      /\ \A j \in Keys \ {k} : row'[j] = row[j] \/ row[j].st = "absent"
  BY AnswerIsLawful
<1>2. Sound(Stored')
  BY <1>1, LawfulIsSound
<1>3. \A j \in Keys : row[j].st # "absent" => row'[j].st # "absent"
  BY <1>1
<1>4. \A j \in Keys \ {k} : row[j].st \in Live => row'[j].st \in Live
  BY <1>1 DEF Live, Active
<1> QED
  BY <1>1, <1>2, <1>3, <1>4 DEF Served

\* The thread drops a delivery, with or without a commit.
LEMMA DropTurns ==
    ASSUME JobOK, Stored \in Snapshots, WorldOK', NEW k, NEW lock \in BOOLEAN, Drop(k, lock),
           job.at # "idle", job.at \in Sending => NoAnswers
    PROVE  Turned(k)
<1>1. /\ job'.at = (IF job.at \in {"poll", "polled"} THEN "poll" ELSE "due")
      /\ job'.todo = job.todo \ {k} /\ job'.lock = lock /\ job'.base = Base(lock)
      /\ job'.key = NoKey /\ job'.got = "none" /\ job'.late = job.late
  BY DEF Drop, JobOK
<1>2. job.base \in {<<>>} \cup Snapshots /\ (job.lock <=> job.base # <<>>)
  BY DEF JobOK
<1>3. Base(lock) \in {<<>>} \cup Snapshots /\ (lock <=> Base(lock) # <<>>)
  BY <1>2, StoredIsSome DEF Base
<1>4. JobOK'
  <2>1. job' = [job EXCEPT !.at = IF @ \in {"poll", "polled"} THEN "poll" ELSE "due",
                           !.key = NoKey, !.todo = @ \ {k}, !.got = "none",
                           !.lock = lock, !.base = Base(lock)]
    BY DEF Drop
  <2> HIDE DEF Drop
  <2> QED
    BY <1>1, <1>3, <2>1 DEF JobOK, Receipts
<1>5. Seen' = IF job'.lock THEN Seen ELSE Stored'
  BY <1>1 DEF Seen, Base
<1>6. job.at \in {"due", "claimed", "sent", "poll", "polled"}
  BY DEF JobOK
<1> QED
  BY <1>1, <1>4, <1>5, <1>6 DEF Turned, Sending

\* The thread sets about a delivery: neither a commit nor a write.
LEMMA PollTurns ==
    ASSUME JobOK, WorldOK', NEW k \in Keys, Poll(k)
    PROVE  Turned(k)
<1>1. PICK got \in Replies(k) : job' = [job EXCEPT !.at = "polled", !.key = k, !.got = got]
  BY DEF Poll
<1>2. UNCHANGED <<run, row, status, rev, cycle, verdicts, issues, bound>>
  BY DEF Poll, task, books, world
<1>3. got \in Receipts
  <2>1. run[k] \in {"none", "running", "pass", "fail", "cancelled"}
    BY <1>2 DEF WorldOK, Ended
  <2>2. [none |-> "failed", running |-> "received", pass |-> "responded", fail |-> "failed",
         cancelled |-> "stopped"][run[k]] \in Receipts
    BY <2>1 DEF Receipts
  <2> QED
    BY <1>1, <2>2 DEF Replies, Receipts
<1>4. JobOK'
  BY <1>1, <1>3 DEF JobOK
<1>5. job'.lock = job.lock /\ job'.base = job.base /\ job'.todo = job.todo /\ job'.at = "polled"
  BY <1>1 DEF JobOK
<1>6. Seen' = IF job'.lock THEN Seen ELSE Stored'
  BY <1>2, <1>5 DEF Seen
<1> QED
  BY <1>2, <1>4, <1>5, <1>6 DEF Turned, Sending

(*************************** each step of the thread ***********************)

\* What the invariant says of the stored state and of the job.
LEMMA Ready ==
    ASSUME IndInv
    PROVE  /\ Sound(Stored) /\ Stored \in Snapshots /\ Sound(Seen) /\ WorldOK /\ JobOK
           /\ \A k \in job.todo : Carried(k)
           /\ job.todo \subseteq Keys /\ job.late \subseteq Keys /\ job.lock \in BOOLEAN
           /\ bound \in Bounds /\ row \in [Keys -> Row] /\ MaxTries \in Nat
BY TypeIs, StoredTypes, BoundAssumption DEF IndInv, JobOK

\* A delivery that has not been answered ends with another status.
LEMMA WithSettles ==
    ASSUME Sound(Stored), NEW k \in Keys, NEW st \in {"responded", "failed", "timed_out", "stopped"},
           row[k].st \notin {"absent", "responded"}
    PROVE  /\ Settled(With(k, st)) /\ With(k, st)[k].st = st
           /\ \A j \in Keys \ {k} : With(k, st)[j] = row[j]
<1> DEFINE r == [row[k] EXCEPT !.st = st]
<1>1. row \in [Keys -> Row] /\ row[k] \in Row /\ (FastRun(k) => row[k].says = "none")
  BY StoredTypes, RowFacts
<1>2. r \in Row /\ r.st = st /\ r.says = row[k].says
  BY <1>1 DEF Row, RowStatuses
<1>3. With(k, st) = [row EXCEPT ![k] = r]
  BY <1>1 DEF With
<1> HIDE DEF r
<1>4. Settled([row EXCEPT ![k] = r])
  BY <1>1, <1>2, OneRowSettles DEF Active
<1> QED
  BY <1>1, <1>2, <1>3, <1>4

LEMMA WorldStays ==
    ASSUME IndInv, UNCHANGED <<appr, control, touched, world, faults>>
    PROVE  WorldOK'
BY Ready DEF WorldOK, world

LEMMA RevokedServes ==
    ASSUME IndInv, NEW k \in Keys, Revoked(k)
    PROVE  Served(k) /\ Turned(k)
<1> DEFINE rows == IF row[k].st = "queued" THEN With(k, "failed") ELSE row
<1>1. /\ job.at = "due" /\ k \in job.todo /\ AgentOf(k) \in Revocable
      /\ TerminalFailure(k, rows, IsReview(k)) /\ Drop(k, FALSE)
      /\ UNCHANGED <<appr, verdicts, control, touched, bound, run, asked, faults>>
  BY DEF Revoked, books, world
<1>2. Sound(Stored) /\ row[k].st # "absent" /\ bound' \in Bounds
  BY <1>1, Ready DEF Carried
<1>3. /\ Settled(rows) /\ \A j \in Keys \ {k} : rows[j] = row[j]
      /\ \A j \in Keys : rows[j].st = "responded" => row[j].st = "responded"
  BY <1>2, WithSettles, RowsAreSettled
<1> HIDE DEF rows
<1>4. Served(k) /\ \A j \in Keys : row'[j].st = "responded" => rows[j].st = "responded"
  BY <1>1, <1>2, <1>3, FailureServes
<1>5. NoAnswers
  BY <1>3, <1>4 DEF NoAnswers
<1>6. WorldOK'
  BY <1>1, WorldStays DEF world
<1> QED
  BY <1>1, <1>4, <1>5, <1>6, Ready, DropTurns

LEMMA ExpireServes ==
    ASSUME IndInv, NEW k \in Keys, Expire(k)
    PROVE  Served(k) /\ Turned(k)
<1>1. /\ job.at = "due" /\ k \in job.todo /\ k \in job.late
      /\ TerminalFailure(k, With(k, "timed_out"), IsReview(k)) /\ Drop(k, TRUE)
      /\ UNCHANGED <<appr, verdicts, control, touched, bound, run, asked, faults>>
  BY DEF Expire, books, world
<1>2. Sound(Stored) /\ row[k].st \notin {"absent", "responded"} /\ bound' \in Bounds
  BY <1>1, Ready DEF Carried
<1>3. /\ Settled(With(k, "timed_out")) /\ With(k, "timed_out")[k].st = "timed_out"
      /\ \A j \in Keys \ {k} : With(k, "timed_out")[j] = row[j]
  BY <1>2, WithSettles
<1>4. /\ Served(k)
      /\ \A j \in Keys : row'[j].st = "responded" => With(k, "timed_out")[j].st = "responded"
  BY <1>1, <1>2, <1>3, FailureServes
<1>5. NoAnswers
  BY <1>3, <1>4 DEF NoAnswers
<1>6. WorldOK'
  BY <1>1, WorldStays DEF world
<1> QED
  BY <1>1, <1>4, <1>5, <1>6, Ready, DropTurns

LEMMA SkipServes ==
    ASSUME IndInv, NEW k \in Keys, Skip(k)
    PROVE  Served(k) /\ Turned(k)
<1>1. /\ job.at = "due" /\ (Drop(k, TRUE) \/ Drop(k, FALSE))
      /\ UNCHANGED <<task, verdicts, issues, row, bound>>
      /\ UNCHANGED <<appr, control, touched, world, faults>>
  BY DEF Skip, books
<1>2. Served(k) /\ NoAnswers
  BY <1>1, Ready, IdleServes
<1>3. WorldOK'
  BY <1>1, WorldStays
<1>4. Turned(k)
  BY <1>1, <1>2, <1>3, Ready, DropTurns
<1> QED
  BY <1>2, <1>4

\* A claim makes a row active, and it is the only one of its agent.
LEMMA ClaimServes ==
    ASSUME IndInv, NEW k \in Keys, Claim(k)
    PROVE  Served(k) /\ Turned(k)
<1> DEFINE r == [row[k] EXCEPT !.st = "sent"]
<1>1. /\ job.at = "due" /\ k \in job.todo /\ ~AgentBusy(k) /\ k \in Due /\ row' = With(k, "sent")
      /\ job' = [job EXCEPT !.at = "claimed", !.key = k, !.lock = FALSE, !.base = <<>>]
      /\ UNCHANGED <<task, verdicts, issues, bound>>
      /\ UNCHANGED <<appr, control, touched, world, faults>>
  BY DEF Claim, books
<1>2. Sound(Stored) /\ JobOK /\ row \in [Keys -> Row] /\ row[k] \in Row
  BY Ready
<1>3. row[k].st \in {"queued", "sent"} /\ row[k].tries < MaxTries
  BY <1>1, <1>2, RowFacts DEF Due
<1>4. /\ row' = [row EXCEPT ![k] = r] /\ r \in Row /\ r.st = "sent"
      /\ r.tries = row[k].tries /\ r.says = row[k].says
  BY <1>1, <1>2 DEF With, Row, RowStatuses, Live, Active
<1> HIDE DEF r
<1>5. /\ \A j \in Keys : /\ row'[j].tries = row[j].tries /\ row'[j].says = row[j].says
                         /\ j # k => row'[j].st = row[j].st
      /\ row'[k].st = "sent" /\ row' \in [Keys -> Row]
  BY <1>2, <1>4
<1>6. Sound(Stored')
  <2>1. Stored' \in Snapshots
    BY <1>1, <1>2, <1>5, StoredTypes, NextTypes DEF task
  <2>2. \A j \in Keys : RowTrue(Stored', j)
    <3>1. SUFFICES ASSUME NEW j \in Keys PROVE RowTrue(Stored', j)
      OBVIOUS
    <3>2. RowTrue(Stored, j)
      BY <1>2 DEF Sound
    <3>3. /\ row'[j].st # "absent" => row[j].st # "absent"
          /\ row[j].st = "responded" => row'[j].st = "responded"
          /\ row'[j].st \in {"queued", "sent"} => row[j].st \in {"queued", "sent"}
      BY <1>3, <1>5
    <3> QED
      BY <1>1, <1>5, <3>2, <3>3, StoredIs, StoredIsNext DEF RowTrue, OfTask, Reached, Reopens, task
  <2>3. \A t \in Tasks : TaskTrue(Stored', t)
    <3>1. \A j \in Keys : row[j].st # "absent" => row'[j].st # "absent"
      BY <1>5
    <3> QED
      BY <1>1, <1>2, <3>1, StoredIs, StoredIsNext DEF Sound, TaskTrue, OfTask, Reopens, task
  <2>4. \A v \in Stored'.verdicts : VerdictTrue(Stored', v)
    <3>1. \A j \in Keys : row[j].st = "responded" => row'[j].st = "responded" /\ row'[j].says = row[j].says
      BY <1>3, <1>5
    <3> QED
      BY <1>1, <1>2, <3>1, StoredIs, StoredIsNext DEF Sound, VerdictTrue, OfTask, task
  <2>5. \A i, j \in Keys : i # j /\ AgentOf(i) = AgentOf(j)
                           => ~(row'[i].st \in Active /\ row'[j].st \in Active)
    BY <1>1, <1>2, <1>5, StoredIs DEF Sound, AgentBusy
  <2> QED
    BY <2>1, <2>2, <2>3, <2>4, <2>5, StoredIsNext DEF Sound
<1>7. Served(k)
  <2>1. \A j \in Keys : /\ row[j].st # "absent" => row'[j].st # "absent"
                        /\ j # k /\ row[j].st \in Live => row'[j].st \in Live
    BY <1>5
  <2> QED
    BY <1>1, <1>6, <2>1 DEF Served, TaskStays, Unmoved, task
<1>8. WorldOK'
  BY <1>1, WorldStays
<1>9. JobOK' /\ job'.lock = FALSE /\ job'.at = "claimed" /\ job'.todo = job.todo
  BY <1>1, <1>2 DEF JobOK
<1>10. NoAnswers
  BY <1>5 DEF NoAnswers
<1> QED
  BY <1>1, <1>5, <1>7, <1>8, <1>9, <1>10 DEF Turned, Sending, Seen

\* A receipt is kept with the job until the row is written.
LEMMA HeardTurns ==
    ASSUME IndInv, WorldOK', NEW k \in Keys, NEW lock \in BOOLEAN, NEW got \in Receipts,
           Heard(lock, got), job.at = "claimed",
           UNCHANGED <<task, verdicts, issues, row, bound>>
    PROVE  Served(k) /\ Turned(k)
<1>1. JobOK /\ Sound(Stored)
  BY Ready
<1>2. /\ job' = [job EXCEPT !.at = "sent", !.got = got, !.lock = lock, !.base = Base(lock)]
      /\ job'.at = "sent" /\ job'.lock = lock /\ job'.base = Base(lock) /\ job'.todo = job.todo
  BY <1>1 DEF Heard, JobOK
<1>3. Base(lock) \in {<<>>} \cup Snapshots /\ (lock <=> Base(lock) # <<>>)
  BY <1>1, Ready, StoredIsSome DEF Base, JobOK
<1>4. JobOK'
  BY <1>1, <1>2, <1>3 DEF JobOK
<1>5. Seen' = IF job'.lock THEN Seen ELSE Stored'
  BY <1>2 DEF Seen, Base
<1>6. Served(k) /\ NoAnswers
  BY <1>1, IdleServes
<1> QED
  BY <1>2, <1>4, <1>5, <1>6 DEF Turned, Sending

LEMMA SendFastServes ==
    ASSUME IndInv, NEW k \in Keys, SendFast(k)
    PROVE  Served(k) /\ Turned(k)
<1>1. /\ job.at = "claimed" /\ UNCHANGED <<task, verdicts, issues, row, bound>>
      /\ UNCHANGED <<appr, control, touched, faults>>
      /\ \E got \in {"received", "failed"} : Heard(FALSE, got)
  BY DEF SendFast, books
<1>2. WorldOK
  BY Ready
<1>3. /\ run' = run \/ run' = [run EXCEPT ![k] = "running"] \/ run' = [run EXCEPT ![k] = "fail"]
      /\ asked' = asked \/ asked' = [asked EXCEPT ![k] = IF IsReview(k) THEN "review" ELSE "work"]
  BY DEF SendFast, Start, world
<1>4. WorldOK'
  BY <1>1, <1>2, <1>3 DEF WorldOK, Ended
<1>5. \E got \in Receipts : Heard(FALSE, got)
  BY <1>1 DEF Receipts
<1> QED
  BY <1>1, <1>4, <1>5, HeardTurns

LEMMA SendDirectServes ==
    ASSUME IndInv, NEW k \in Keys, SendDirect(k)
    PROVE  Served(k) /\ Turned(k)
<1>1. /\ job.at = "claimed" /\ UNCHANGED <<task, verdicts, issues, row, bound>>
      /\ UNCHANGED <<appr, control, touched, faults>>
      /\ \E got \in {"received", "failed", "timed_out"} : Heard(TRUE, got)
  BY DEF SendDirect, books
<1>2. WorldOK
  BY Ready
<1>3. /\ run' = run \/ run' = [run EXCEPT ![k] = "running"]
      /\ asked' = asked \/ asked' = [asked EXCEPT ![k] = IF IsReview(k) THEN "review" ELSE "work"]
  BY DEF SendDirect, Start, world
<1>4. WorldOK'
  BY <1>1, <1>2, <1>3 DEF WorldOK, Ended
<1>5. \E got \in Receipts : Heard(TRUE, got)
  BY <1>1 DEF Receipts
<1> QED
  BY <1>1, <1>4, <1>5, HeardTurns

\* What the engine's snapshots say of runs is stored per task and agent.
LEMMA PersistedTypes == ASSUME bound \in Bounds, NEW ks \in SUBSET Keys PROVE Persisted(ks) \in Bounds
<1>1. ASSUME NEW t \in Tasks, NEW a \in Agents \cup {Reviewer}
      PROVE  (LET new == {k \in ks : TaskOf(k) = t /\ AgentOf(k) = a /\ run[k] # "none"}
              IN IF new = {} THEN bound[t][a] ELSE RevOf(CHOOSE k \in new : TRUE)) \in 0..MaxRev
  <2> DEFINE new == {k \in ks : TaskOf(k) = t /\ AgentOf(k) = a /\ run[k] # "none"}
  <2>1. bound[t][a] \in 0..MaxRev
    BY DEF Bounds
  <2>2. new # {} => RevOf(CHOOSE k \in new : TRUE) \in 0..MaxRev
    <3>1. new # {} => (CHOOSE k \in new : TRUE) \in Keys
      <4>1. new # {} => (CHOOSE k \in new : TRUE) \in new
        BY Zenon
      <4> QED
        BY <4>1
    <3>2. \A k \in Keys : RevOf(k) \in 0..MaxRev
      BY KeyFacts, BoundAssumption
    <3> HIDE DEF new
    <3> QED
      BY <3>1, <3>2
  <2> QED
    BY <2>1, <2>2
<1> QED
  BY <1>1 DEF Persisted, Bounds

LEMMA SettleServes ==
    ASSUME IndInv, NEW k \in Keys, Settle(k)
    PROVE  Served(k) /\ Turned(k)
<1> DEFINE known == row[k].id \/ job.got = "received"
           r(st) == [row[k] EXCEPT !.st = st, !.tries = @ + 1, !.id = known]
           Rows(st) == [row EXCEPT ![k].st = st, ![k].tries = row[k].tries + 1,
                                   ![k].id = @ \/ job.got = "received"]
<1>1. /\ job.at = "sent" /\ k = job.key /\ Drop(k, TRUE)
      /\ UNCHANGED <<appr, control, touched, world, faults>>
  BY DEF Settle
<1>2. /\ Sound(Stored) /\ JobOK /\ bound \in Bounds /\ row \in [Keys -> Row] /\ row[k] \in Row
      /\ MaxTries \in Nat
  BY Ready
<1>3. WorldOK'
  BY <1>1, WorldStays
<1>4. CASE row[k].st # "sent"
  <2>1. UNCHANGED <<task, verdicts, issues, row, bound>>
    BY <1>4 DEF Settle, Unsettled
  <2>2. Served(k) /\ NoAnswers
    BY <1>2, <2>1, IdleServes
  <2> QED
    BY <1>1, <1>2, <1>3, <2>2, Ready, DropTurns
<1>5. CASE row[k].st = "sent"
  <2>1. row[k].tries < MaxTries
    BY <1>2, <1>5, RowFacts
  <2>2. ASSUME NEW st \in {"received", "queued", "failed", "timed_out"},
               st = "queued" => row[k].tries + 1 < MaxTries
        PROVE  /\ Settled(Rows(st)) /\ Rows(st)[k].st = st /\ Rows(st) \in [Keys -> Row]
               /\ \A j \in Keys \ {k} : Rows(st)[j] = row[j]
    <3>1. /\ r(st) \in Row /\ r(st).st = st /\ r(st).tries = row[k].tries + 1
          /\ r(st).says = row[k].says
      <4>1. known \in BOOLEAN
        OBVIOUS
      <4>2. row[k].tries + 1 \in 0..MaxTries
        BY <1>2, <2>1 DEF Row
      <4>3. st \in RowStatuses
        BY <2>2 DEF RowStatuses, Live, Active
      <4> HIDE DEF known
      <4> QED
        BY <1>2, <4>1, <4>2, <4>3 DEF Row
    <3>2. Rows(st) = [row EXCEPT ![k] = r(st)]
      BY <1>2 DEF Row
    <3> HIDE DEF r, Rows
    <3>3. Settled([row EXCEPT ![k] = r(st)])
      BY <1>2, <1>5, <2>2, <3>1, OneRowSettles, RowFacts DEF Active
    <3> QED
      BY <1>2, <3>1, <3>2, <3>3 DEF Settled
  <2>3. bound' \in Bounds
    BY <1>2, <1>5, PersistedTypes DEF Settle
  <2>4. UNCHANGED verdicts /\ job.got \in Receipts
    BY <1>2, <1>5 DEF Settle, JobOK
  <2>5. \/ \E st \in {"received", "queued"} :
             /\ row' = Rows(st) /\ UNCHANGED <<task, issues>>
             /\ st = "queued" => row[k].tries + 1 < MaxTries
        \/ /\ job.got \in {"failed", "timed_out"}
           /\ \E soft \in BOOLEAN : TerminalFailure(k, Rows(job.got), soft)
    BY <1>5 DEF Settle
  <2> HIDE DEF Rows
  <2>6. CASE \E st \in {"received", "queued"} :
               /\ row' = Rows(st) /\ UNCHANGED <<task, issues>>
               /\ st = "queued" => row[k].tries + 1 < MaxTries
    <3>1. PICK st \in {"received", "queued"} :
               /\ row' = Rows(st) /\ UNCHANGED <<task, issues>>
               /\ st = "queued" => row[k].tries + 1 < MaxTries
      BY <2>6
    <3>2. /\ Settled(row') /\ row'[k].st = st /\ \A j \in Keys \ {k} : row'[j] = row[j]
      BY <2>2, <3>1
    <3>3. Lawful(Stored, Stored')
      BY <1>2, <2>3, <2>4, <3>1, <3>2, RefusalIsLawful, StoredTypes
    <3>4. Sound(Stored')
      BY <1>2, <3>3, LawfulIsSound
    <3>5. \A j \in Keys : row[j].st # "absent" => row'[j].st # "absent"
      BY <3>2
    <3>6. Served(k) /\ NoAnswers
      BY <3>1, <3>2, <3>4, <3>5 DEF Served, TaskStays, Unmoved, NoAnswers, task
    <3> QED
      BY <1>1, <1>2, <1>3, <3>6, Ready, DropTurns
  <2>7. CASE /\ job.got \in {"failed", "timed_out"}
             /\ \E soft \in BOOLEAN : TerminalFailure(k, Rows(job.got), soft)
    <3>1. PICK soft \in BOOLEAN : TerminalFailure(k, Rows(job.got), soft)
      BY <2>7
    <3>2. /\ Settled(Rows(job.got)) /\ Rows(job.got)[k].st = job.got
          /\ \A j \in Keys \ {k} : Rows(job.got)[j] = row[j]
      BY <2>2, <2>7
    <3>3. /\ Served(k)
          /\ \A j \in Keys : row'[j].st = "responded" => Rows(job.got)[j].st = "responded"
      BY <1>2, <1>5, <2>3, <2>4, <2>7, <3>1, <3>2, FailureServes
    <3>4. NoAnswers
      BY <2>7, <3>2, <3>3 DEF NoAnswers
    <3> QED
      BY <1>1, <1>2, <1>3, <3>3, <3>4, Ready, DropTurns
  <2> QED
    BY <2>5, <2>6, <2>7
<1> QED
  BY <1>4, <1>5

\* Steps that open or resolve issues and leave tasks and deliveries alone.
LEMMA IssuesServe ==
    ASSUME Sound(Stored), UNCHANGED <<task, verdicts, row>>, issues' \in Issues,
           bound' \in Bounds, NEW k \in Keys
    PROVE  Served(k) /\ NoAnswers
<1>1. Settled(row')
  BY RowsAreSettled
<1>2. Lawful(Stored, Stored')
  BY <1>1, RefusalIsLawful
<1>3. Sound(Stored')
  BY <1>2, LawfulIsSound
<1> QED
  BY <1>3 DEF Served, TaskStays, Unmoved, NoAnswers, task

LEMMA PollFailsServes ==
    ASSUME IndInv, NEW k \in Keys, PollFails(k)
    PROVE  Served(k) /\ Turned(k)
<1>1. /\ job.at = "poll" /\ Drop(k, FALSE) /\ UNCHANGED <<task, verdicts, row, bound>>
      /\ UNCHANGED <<appr, control, touched, world>>
      /\ faults < MaxFaults /\ faults' = faults + 1
      /\ issues' \in {issues, Mark(TaskOf(k), k)}
  BY DEF PollFails, books
<1>2. WorldOK'
  BY <1>1, Ready, BoundAssumption DEF WorldOK, world
<1>3. Served(k) /\ NoAnswers
  BY <1>1, Ready, IssuesServe, IssueTypes, StoredTypes
<1> QED
  BY <1>1, <1>2, <1>3, Ready, DropTurns

\* Every outcome of a poll but the one that raises out of the loop.
LEMMA SettlePollServes ==
    ASSUME IndInv, NEW k \in Keys, SettlePoll(k), job.at = "polled",
           row[k].st # "received" \/ job.got # "lost"
    PROVE  Served(k) /\ Turned(k)
<1> DEFINE Collected == IF FastRun(k) THEN Persisted({k}) ELSE bound
           answer == IF FastRun(k) THEN {"none"} ELSE {"PASS", "FAIL"}
<1>1. /\ Sound(Stored) /\ JobOK /\ WorldOK /\ bound \in Bounds /\ job.lock \in BOOLEAN
      /\ UNCHANGED <<appr, control, touched, asked, faults>>
  BY Ready DEF SettlePoll
<1>2. Collected \in Bounds
  BY <1>1, PersistedTypes
<1>3. run' \in {run, Aborted({k})} /\ \E lock \in BOOLEAN : Drop(k, lock)
  BY <1>1 DEF SettlePoll
<1>4. WorldOK'
  <2>1. Aborted({k}) \in [Keys -> {"none", "running"} \cup Ended]
    BY <1>1 DEF WorldOK, Aborted, Ended
  <2> QED
    BY <1>1, <1>3, <2>1 DEF WorldOK
<1>5. job.at \notin Sending /\ job.at # "idle"
  BY DEF Sending
<1>6. Served(k) => Turned(k)
  BY <1>1, <1>3, <1>4, <1>5, Ready, DropTurns
<1>7. CASE row[k].st # "received"
  <2>1. UNCHANGED <<task, verdicts, issues, row, bound>>
    BY <1>7 DEF SettlePoll, Unsettled
  <2> QED
    BY <1>1, <1>6, <2>1, IdleServes
<1>8. CASE row[k].st = "received" /\ UNCHANGED <<task, verdicts, row>>
           /\ bound' \in {bound, Collected} /\ issues' \in {Resolved(k), Mark(TaskOf(k), k)}
  BY <1>1, <1>2, <1>6, <1>8, IssuesServe, IssueTypes
<1>9. ASSUME row[k].st = "received",
             NEW st \in {"failed", "timed_out"}, NEW soft,
             TerminalFailure(k, With(k, st), soft), UNCHANGED verdicts, bound' \in {bound, Collected}
      PROVE  Served(k)
  <2>1. /\ Settled(With(k, st)) /\ With(k, st)[k].st = st
        /\ \A j \in Keys \ {k} : With(k, st)[j] = row[j]
    BY <1>1, <1>9, WithSettles
  <2> QED
    BY <1>1, <1>2, <1>9, <2>1, FailureServes
<1>10. CASE /\ row[k].st = "received" /\ row' = With(k, "stopped") /\ bound' = Collected
            /\ UNCHANGED <<task, issues, verdicts>>
  <2>1. /\ Settled(row') /\ row'[k].st = "stopped" /\ \A j \in Keys \ {k} : row'[j] = row[j]
    BY <1>1, <1>10, WithSettles
  <2>2. Lawful(Stored, Stored')
    BY <1>1, <1>2, <1>10, <2>1, RefusalIsLawful, StoredTypes
  <2>3. Sound(Stored')
    BY <1>1, <2>2, LawfulIsSound
  <2>4. \A j \in Keys : row[j].st # "absent" => row'[j].st # "absent"
    BY <2>1
  <2>5. Served(k)
    BY <1>10, <2>1, <2>3, <2>4 DEF Served, TaskStays, Unmoved, task
  <2> QED
    BY <1>6, <2>5
<1>11. ASSUME row[k].st = "received", NEW v \in answer,
              AfterResponded(k, [row EXCEPT ![k].st = "responded", ![k].says = v]),
              bound' = Collected
       PROVE  Served(k)
  BY <1>1, <1>2, <1>11, AnswerServes
<1>12. CASE row[k].st = "received"
  <2>1. \/ UNCHANGED <<task, verdicts, row>> /\ bound' \in {bound, Collected}
           /\ issues' \in {Resolved(k), Mark(TaskOf(k), k)}
        \/ \E st \in {"failed", "timed_out"} : \E soft :
              TerminalFailure(k, With(k, st), soft) /\ UNCHANGED verdicts
              /\ bound' \in {bound, Collected}
        \/ row' = With(k, "stopped") /\ bound' = Collected /\ UNCHANGED <<task, issues, verdicts>>
        \/ \E v \in answer : AfterResponded(k, [row EXCEPT ![k].st = "responded", ![k].says = v])
                             /\ bound' = Collected
    <3> HIDE DEF Collected, answer
    <3>1. CASE job.got = "received" /\ k \notin job.late
      BY <1>12, <3>1 DEF SettlePoll
    <3>2. CASE job.got = "received" /\ k \in job.late
      <4>1. UNCHANGED <<bound, verdicts>>
        BY <1>12, <3>2 DEF SettlePoll
      <4>2. \/ TerminalFailure(k, With(k, "timed_out"), IsReview(k))
            \/ issues' = Mark(TaskOf(k), k) /\ UNCHANGED <<row, task>>
        BY <1>12, <3>2 DEF SettlePoll
      <4> QED
        BY <4>1, <4>2
    <3>3. CASE job.got \in {"failed", "timed_out"}
      BY <1>12, <3>3 DEF SettlePoll, Collected
    <3>4. CASE job.got = "stopped"
      BY <1>12, <3>4 DEF SettlePoll, Collected
    <3>5. CASE job.got = "responded"
      BY <1>12, <3>5 DEF SettlePoll, Collected, answer
    <3>6. job.got \in {"received", "failed", "timed_out", "stopped", "responded"}
      BY <1>12 DEF SettlePoll
    <3> QED
      BY <3>1, <3>2, <3>3, <3>4, <3>5, <3>6
  <2> HIDE DEF Collected, answer
  <2> QED
    BY <1>6, <1>8, <1>9, <1>10, <1>11, <1>12, <2>1
<1> QED
  BY <1>7, <1>12

(************************ each step keeps the invariant ********************)

\* The invariant of the next state, part by part.
LEMMA IndInvNext ==
    ASSUME Sound(Stored'), Sound(Seen'), WorldOK', JobOK',
           \A k \in job'.todo : Carried(k)',
           \A t \in Tasks : status'[t] = "running" => Seen'.status[t] = "running",
           AutoQa => \A t \in Tasks : Once(Seen', Stored', t)
    PROVE  IndInv'
<1>1. TypeOK'
  BY TypeIsNext DEF Sound
<1> QED
  BY <1>1 DEF IndInv

\* What is not committed yet, and what one more step makes of it.
LEMMA OnceMore ==
    ASSUME Sound(Stored), NEW s, NEW t \in Tasks, Once(s, Stored, t),
           \/ TaskStays(t)
           \/ ToQA(t)
           \/ Refused(t) /\ status[t] \in {"running", "qa"}
    PROVE  Once(s, Stored', t)
BY StoredIs, StoredIsNext DEF Once, TaskStays, ToQA, Refused

LEMMA ServedKeeps ==
    ASSUME IndInv, NEW k \in Keys, Served(k), Turned(k)
    PROVE  /\ IndInv'
           /\ AutoQa => \A t \in Tasks : Once(Seen, Stored', t)
           /\ \A t \in Tasks : status'[t] = "running" => status[t] = "running"
<1>1. /\ Sound(Stored) /\ Sound(Seen) /\ Sound(Stored') /\ WorldOK' /\ JobOK'
      /\ \A j \in job.todo : Carried(j)
      /\ Seen' = (IF job'.lock THEN Seen ELSE Stored')
      /\ job'.todo \subseteq job.todo /\ job.todo \subseteq Keys
  BY Ready DEF Served, Turned
<1>2. \A t \in Tasks : TaskStays(t) \/ ToQA(t) \/ Refused(t)
  BY DEF Served
<1>3. \A t \in Tasks : status'[t] = "running" => status[t] = "running"
  BY <1>2 DEF TaskStays, ToQA, Refused
<1>4. AutoQa => \A t \in Tasks : Once(Seen, Stored', t)
  <2>1. AutoQa => \A t \in Tasks : TaskStays(t) \/ ToQA(t) \/ status[t] \in {"running", "qa"}
    BY DEF Served
  <2>2. AutoQa => \A t \in Tasks : Once(Seen, Stored, t)
    BY DEF IndInv
  <2> QED
    BY <1>1, <1>2, <2>1, <2>2, OnceMore
<1>5. ASSUME NEW j \in job'.todo PROVE Carried(j)'
  <2>1. j \in Keys /\ j \in job.todo /\ Carried(j)
    BY <1>1
  <2>2. TaskOf(j) \in Tasks
    BY <2>1, KeyFacts
  <2>3. row'[j].st # "absent"
    BY <2>1 DEF Carried, Served
  <2>4. job'.at \in Sending => row'[j].st # "responded"
    BY <2>1 DEF Carried, Turned, NoAnswers, Sending
  <2>5. ASSUME OfTask(Stored', j), AgentOf(j) = Reviewer, status'[TaskOf(j)] = "qa"
        PROVE  row'[j].st \in Live
    <3>1. ~Refused(TaskOf(j))
      BY <2>5 DEF Refused
    <3>2. ~ToQA(TaskOf(j))
      <4>1. SUFFICES ASSUME ToQA(TaskOf(j)) PROVE FALSE
        OBVIOUS
      <4>2. OfTask(Stored, j) /\ status[TaskOf(j)] = "running"
        BY <2>5, <4>1, StoredIs, StoredIsNext DEF ToQA, OfTask
      <4>3. row[j].st # "absent"
        BY <2>1 DEF Carried
      <4> QED
        BY <1>1, <2>1, <2>5, <4>2, <4>3, StoredIs DEF Sound, RowTrue, Checked
    <3>3. TaskStays(TaskOf(j))
      BY <1>2, <2>2, <3>1, <3>2
    <3>4. OfTask(Stored, j) /\ IsReview(j)
      BY <2>5, <3>3, StoredIs, StoredIsNext DEF TaskStays, OfTask, IsReview
    <3>5. row[j].st \in Live
      BY <2>1, <3>4 DEF Carried
    <3>6. CASE j = k
      BY <3>5, <3>6 DEF Turned, Live, Active
    <3>7. CASE j # k
      BY <2>1, <2>5, <3>5, <3>7 DEF Served
    <3> QED
      BY <3>6, <3>7
  <2> QED
    BY <2>3, <2>4, <2>5 DEF Carried, IsReview, Sending
<1>6. Sound(Seen')
  BY <1>1
<1>7. \A t \in Tasks : status'[t] = "running" => Seen'.status[t] = "running"
  <2>1. \A t \in Tasks : status[t] = "running" => Seen.status[t] = "running"
    BY DEF IndInv
  <2> QED
    BY <1>1, <1>3, <2>1, StoredIsNext
<1>8. AutoQa => \A t \in Tasks : Once(Seen', Stored', t)
  BY <1>1, <1>4 DEF Once
<1> QED
  BY <1>1, <1>3, <1>4, <1>5, <1>6, <1>7, <1>8, IndInvNext

\* The thread is idle, or has just read its deliveries: nothing is uncommitted.
LEMMA ReadKeeps ==
    ASSUME IndInv, UNCHANGED <<task, verdicts, issues, row, bound>>, WorldOK',
           NEW phase \in {"idle", "due", "poll"}, NEW ks \in SUBSET (Due \cup Received),
           NEW over \in SUBSET Keys,
           job' = [at |-> phase, key |-> NoKey, todo |-> ks, late |-> over, got |-> "none",
                   lock |-> FALSE, base |-> <<>>],
           ks \subseteq Due \/ phase = "poll"
    PROVE  IndInv' /\ Seen' = Stored'
<1>1. /\ Sound(Stored) /\ Stored' = Stored
  BY Ready DEF Stored, task
<1>2. ks \subseteq Keys /\ job'.at = phase /\ job'.todo = ks
  BY DEF Due, Received
<1>3. JobOK' /\ Seen' = Stored'
  BY <1>2 DEF JobOK, Receipts, Seen
<1>4. ASSUME NEW j \in job'.todo PROVE Carried(j)'
  <2>1. j \in ks /\ row'[j] = row[j] /\ job'.at = phase
    BY <1>2
  <2>2. row[j].st \in {"queued", "sent", "received"}
    BY <2>1 DEF Due, Received
  <2> QED
    BY <2>1, <2>2 DEF Carried, Live, Active
<1>5. \A t \in Tasks : status'[t] = "running" => Seen'.status[t] = "running"
  BY <1>3, StoredIsNext
<1>6. \A t \in Tasks : Once(Seen', Stored', t)
  BY <1>3 DEF Once
<1> QED
  BY <1>1, <1>3, <1>4, <1>5, <1>6, IndInvNext

\* An abandoned tick falls back to what was committed.
LEMMA UndoKeeps ==
    ASSUME IndInv, Undo, WorldOK', job' = IdleJob
    PROVE  IndInv' /\ Seen'.status = Seen.status /\ Seen'.rev = Seen.rev
<1>1. Sound(Stored) /\ Sound(Seen) /\ JobOK
  BY Ready
<1>2. Seen' = Stored' /\ job'.todo = {} /\ JobOK'
  BY DEF IdleJob, JobOK, Receipts, Seen
<1>3. /\ Sound(Stored') /\ Stored'.status = Seen.status /\ Stored'.rev = Seen.rev
  <2>1. CASE ~job.lock
    <3>1. Stored' = Stored /\ Seen = Stored
      BY <2>1 DEF Undo, Stored, Seen, task
    <3> QED
      BY <1>1, <3>1
  <2>2. CASE job.lock
    <3>1. /\ status' = Seen.status /\ rev' = Seen.rev /\ cycle' = Seen.cycle
          /\ verdicts' = Seen.verdicts /\ issues' = Seen.issues /\ bound' = Seen.bound
          /\ recovered' = Seen.recovered
          /\ row' = [k \in Keys |-> [Seen.row[k] EXCEPT !.late = row[k].late]]
      BY <2>2 DEF Undo, Seen
    <3>2. Seen \in Snapshots
      BY <1>1 DEF Sound
    <3>3. /\ Seen.status \in [Tasks -> Statuses] /\ Seen.rev \in [Tasks -> Revs]
          /\ Seen.cycle \in [Tasks -> Cycles] /\ Seen.verdicts \in Verdicts
          /\ Seen.issues \in Issues /\ Seen.row \in [Keys -> Row] /\ Seen.bound \in Bounds
          /\ Seen.recovered \in Recovered
      BY <3>2 DEF Snapshots, Revs, Cycles, Verdicts, Issues, Row, Bounds, Recovered
    <3>4. ASSUME NEW k \in Keys
          PROVE  /\ row'[k] \in Row /\ row'[k].st = Seen.row[k].st
                 /\ row'[k].tries = Seen.row[k].tries /\ row'[k].says = Seen.row[k].says
      <4>1. row[k].late \in BOOLEAN /\ Seen.row[k] \in Row
        BY <1>1, <3>3, RowFacts DEF Row
      <4>2. row'[k] = [Seen.row[k] EXCEPT !.late = row[k].late]
        BY <3>1
      <4> QED
        BY <4>1, <4>2 DEF Row
    <3>5. row' \in [Keys -> Row]
      BY <3>1, <3>4
    <3>6. Stored' \in Snapshots
      BY <3>1, <3>3, <3>5, NextTypes
    <3>7. Lawful(Seen, Stored')
      <4>1. \A k \in Keys : RowTrue(Seen, k)
        BY <1>1 DEF Sound
      <4>2. \A k \in Keys : RowMoves(Seen, Stored', k)
        BY <3>1, <3>4, <4>1, StoredIsNext DEF RowMoves, RowTrue
      <4>3. \A t \in Tasks : TaskMoves(Seen, Stored', t)
        BY <3>1, StoredIsNext DEF TaskMoves, SameBooks
      <4> QED
        BY <3>1, <3>6, <4>2, <4>3, StoredIsNext DEF Lawful
    <3> QED
      BY <1>1, <3>1, <3>7, LawfulIsSound, StoredIsNext
  <2> QED
    BY <2>1, <2>2
<1>4. \A t \in Tasks : status'[t] = "running" => Seen'.status[t] = "running"
  BY <1>2, StoredIsNext
<1>5. \A t \in Tasks : Once(Seen', Stored', t)
  BY <1>2 DEF Once
<1> QED
  BY <1>2, <1>3, <1>4, <1>5, IndInvNext

(*************************** requests and the world ************************)

\* What is stored, as a state of the contract.
Plain == INSTANCE TaskContract WITH status <- status, revision <- rev

\* What one request, or the world, does between two steps of the thread: a delivery
\* disappears only when its review is taken up again, and no request answers one.
Granted ==
    /\ Lawful(Stored, Stored') /\ WorldOK' /\ NoAnswers /\ UNCHANGED job
    /\ \A j \in Keys : row[j].st # "absent" /\ row'[j].st = "absent" =>
          IsReview(j) /\ OfTask(Stored, j) /\ row[j].st \notin Live
    /\ \A j \in Keys : AgentOf(j) = Reviewer /\ status'[TaskOf(j)] = "qa" /\ row[j].st \in Live
                       => row'[j].st \in Live
    /\ \A t \in Tasks : Plain!Step(t) \/ Plain!Same(t)
    /\ job.lock => \A t \in Tasks : Unmoved(t)

LEMMA GrantedKeeps ==
    ASSUME IndInv, Granted
    PROVE  IndInv' /\ (job.lock => Seen' = Seen) /\ (~job.lock => Seen = Stored /\ Seen' = Stored')
<1>1. /\ Sound(Stored) /\ Sound(Seen) /\ JobOK /\ Lawful(Stored, Stored') /\ WorldOK'
      /\ \A j \in job.todo : Carried(j)
      /\ job.todo \subseteq Keys /\ job' = job
  BY Ready DEF Granted
<1>2. Sound(Stored')
  BY <1>1, LawfulIsSound
<1>3. (job.lock => Seen' = Seen) /\ (~job.lock => Seen = Stored /\ Seen' = Stored')
  BY <1>1 DEF Seen
<1>4. JobOK' /\ Sound(Seen')
  BY <1>1, <1>2, <1>3 DEF JobOK
<1>5. ASSUME NEW j \in job'.todo PROVE Carried(j)'
  <2>1. j \in Keys /\ j \in job.todo /\ Carried(j)
    BY <1>1, <1>5
  <2>2. TaskOf(j) \in Tasks
    BY <2>1, KeyFacts
  <2>3. row'[j].st # "absent"
    BY <2>1 DEF Carried, Granted
  <2>4. job'.at \in Sending => row'[j].st # "responded"
    BY <1>1, <2>1 DEF Carried, Granted, NoAnswers, Sending
  <2>5. ASSUME OfTask(Stored', j), AgentOf(j) = Reviewer, status'[TaskOf(j)] = "qa"
        PROVE  row'[j].st \in Live
    <3>1. TaskMoves(Stored, Stored', TaskOf(j))
      BY <1>1, <2>2 DEF Lawful
    <3>2. rev'[TaskOf(j)] = rev[TaskOf(j)] /\ status[TaskOf(j)] \in {"running", "qa", "rework_required"}
      BY <2>5, <3>1, StoredIs, StoredIsNext DEF TaskMoves, SameBooks, Checked
    <3>3. OfTask(Stored, j)
      BY <2>5, <3>2, StoredIs, StoredIsNext DEF OfTask
    <3>4. status[TaskOf(j)] = "qa"
      BY <1>1, <2>1, <2>5, <3>2, <3>3, StoredIs DEF Carried, Sound, RowTrue, Checked
    <3>5. row[j].st \in Live
      BY <2>1, <2>5, <3>3, <3>4 DEF Carried, IsReview
    <3> QED
      BY <2>1, <2>5, <3>5 DEF Granted
  <2> QED
    BY <2>3, <2>4, <2>5 DEF Carried, IsReview, Sending
<1>6. \A t \in Tasks : status'[t] = "running" => Seen'.status[t] = "running"
  BY <1>3, StoredIs, StoredIsNext DEF Granted, Unmoved, IndInv
<1>7. AutoQa => \A t \in Tasks : Once(Seen', Stored', t)
  <2>1. CASE job.lock
    BY <1>3, <2>1, StoredIs, StoredIsNext DEF Granted, Unmoved, IndInv, Once
  <2>2. CASE ~job.lock
    BY <1>3, <2>2 DEF Once
  <2> QED
    BY <2>1, <2>2
<1> QED
  BY <1>2, <1>1, <1>3, <1>4, <1>5, <1>6, <1>7, IndInvNext

\* A request that moves one task and leaves the deliveries and the verdicts alone.
LEMMA TaskRequest ==
    ASSUME IndInv, NEW t \in Tasks, NEW from, NEW to \in Statuses, Moves(t, from, to),
           ~job.lock, WorldOK', issues' \in Issues,
           UNCHANGED <<cycle, recovered, verdicts, row, bound, job>>,
           \/ UNCHANGED rev
           \/ rev[t] <= MaxRev /\ rev' = [rev EXCEPT ![t] = @ + 1],
           \/ UNCHANGED rev /\ status[t] \notin Checked /\ to \notin Checked
              /\ (status[t] \in Executed => to \in Executed)
           \/ rev'[t] = rev[t] + 1 /\ to \notin Checked
           \/ UNCHANGED rev /\ status[t] = "qa" /\ to = "completed" /\ Signed(t),
           Plain!Step(t)
    PROVE  Granted
<1>1. Sound(Stored) /\ MaxRev \in Nat
  BY Ready, BoundAssumption
<1>2. /\ status \in [Tasks -> Statuses] /\ rev \in [Tasks -> Revs] /\ cycle \in [Tasks -> Cycles]
      /\ verdicts \in Verdicts /\ row \in [Keys -> Row] /\ bound \in Bounds
      /\ recovered \in Recovered
  BY <1>1, StoredTypes
<1>3. /\ status' = [status EXCEPT ![t] = to]
      /\ status' \in [Tasks -> Statuses] /\ rev' \in [Tasks -> Revs]
  BY <1>1, <1>2 DEF Moves, Revs
<1>4. /\ \A u \in Tasks \ {t} : TaskStays(u)
      /\ status'[t] = to /\ cycle'[t] = cycle[t]
  BY <1>2, <1>3 DEF TaskStays
<1>5. Stored' \in Snapshots
  BY <1>2, <1>3, NextTypes
<1>6. \A k \in Keys : RowMoves(Stored, Stored', k)
  BY <1>1, RowFacts, StoredIs, StoredIsNext DEF RowMoves
<1>7. \A u \in Tasks : TaskMoves(Stored, Stored', u)
  <2>1. TaskMoves(Stored, Stored', t)
    BY <1>4, StoredIs, StoredIsNext DEF TaskMoves, SameBooks, Signed
  <2> QED
    BY <1>4, <2>1, StoredIs, StoredIsNext DEF TaskMoves, SameBooks, TaskStays
<1>8. Lawful(Stored, Stored')
  BY <1>5, <1>6, <1>7, StoredIs, StoredIsNext DEF Lawful
<1>9. \A u \in Tasks : Plain!Step(u) \/ Plain!Same(u)
  BY <1>4 DEF TaskStays, Plain!Same, Plain!Kept
<1> QED
  BY <1>8, <1>9 DEF Granted, NoAnswers

\* Requests that move no task and no delivery.
LEMMA QuietRequest ==
    ASSUME IndInv, WorldOK', UNCHANGED <<task, verdicts, issues, row, bound, job>>
    PROVE  Granted
<1>1. Sound(Stored)
  BY Ready
<1>2. \A k \in Keys : RowMoves(Stored, Stored', k)
  BY <1>1, RowFacts, StoredIs, StoredIsNext DEF RowMoves
<1>3. Stored' = Stored
  BY DEF Stored, task
<1>4. \A t \in Tasks : TaskMoves(Stored, Stored', t)
  BY <1>3 DEF TaskMoves, SameBooks
<1>5. Lawful(Stored, Stored')
  BY <1>1, <1>2, <1>3, <1>4 DEF Lawful, Sound
<1> QED
  BY <1>5 DEF Granted, NoAnswers, Unmoved, task, Plain!Same, Plain!Kept

LEMMA WorldParts ==
    ASSUME IndInv
    PROVE  /\ appr \subseteq Tasks /\ touched \subseteq Keys
           /\ control \in {"running", "stopped", "stop_failed"}
           /\ run \in [Keys -> {"none", "running"} \cup Ended]
           /\ asked \in [Keys -> {"nothing", "work", "review"}]
           /\ faults \in 0..MaxFaults
BY Ready DEF WorldOK

LEMMA ApproveGranted == ASSUME IndInv, NEW t \in Tasks, Approve(t) PROVE Granted
<1>1. WorldOK'
  BY WorldParts DEF Approve, Untouched, WorldOK, world
<1>2. Plain!Step(t)
  BY StoredTypes, Ready DEF Approve, Moves, Plain!Step, Plain!Decide, Plain!To, Plain!Kept
<1>3. issues' \in Issues
  BY StoredTypes, Ready DEF Approve
<1> QED
  BY <1>1, <1>2, <1>3, TaskRequest
  DEF Approve, Asks, Moves, Untouched, Statuses, Checked, Executed, Closed

LEMMA RejectGranted == ASSUME IndInv, NEW t \in Tasks, Reject(t) PROVE Granted
<1>1. WorldOK'
  BY WorldParts DEF Reject, Untouched, WorldOK, world
<1>2. Plain!Step(t)
  BY StoredTypes, Ready DEF Reject, Moves, Plain!Step, Plain!Decide, Plain!To, Plain!Kept
<1>3. issues' \in Issues
  BY StoredTypes, Ready DEF Reject
<1> QED
  BY <1>1, <1>2, <1>3, TaskRequest
  DEF Reject, Asks, Moves, Untouched, Statuses, Checked, Executed, Closed

LEMMA RunTaskGranted == ASSUME IndInv, NEW t \in Tasks, RunTask(t) PROVE Granted
<1>1. WorldOK'
  BY WorldParts DEF RunTask, Untouched, WorldOK, world, books
<1>2. Plain!Step(t)
  BY StoredTypes, Ready DEF RunTask, Moves, Plain!Step, Plain!Execute, Plain!To, Plain!Kept
<1>3. issues' \in Issues
  BY StoredTypes, Ready DEF RunTask
<1> QED
  BY <1>1, <1>2, <1>3, TaskRequest
  DEF RunTask, Asks, Moves, Untouched, Statuses, Checked, Executed, Closed, books

LEMMA SendBackGranted == ASSUME IndInv, NEW t \in Tasks, SendBack(t) PROVE Granted
<1>1. WorldOK'
  BY WorldParts DEF SendBack, Untouched, WorldOK, world, books
<1>2. rev'[t] = rev[t] + 1
  BY StoredTypes, Ready DEF SendBack, Bump
<1>3. Plain!Step(t)
  BY <1>2, StoredTypes, Ready
  DEF SendBack, Moves, Plain!Step, Plain!Refuse, Plain!To, Plain!Renewed
<1>4. issues' \in Issues
  BY StoredTypes, Ready DEF SendBack
<1> QED
  BY <1>1, <1>2, <1>3, <1>4, TaskRequest
  DEF SendBack, Asks, Moves, Bump, Untouched, Statuses, Checked, books

LEMMA RenewGranted == ASSUME IndInv, NEW t \in Tasks, Renew(t) PROVE Granted
<1>1. WorldOK'
  BY WorldParts DEF Renew, Untouched, WorldOK, world
<1>2. issues' \in Issues
  BY StoredTypes, Ready DEF Renew
<1>3. ~job.lock /\ UNCHANGED <<cycle, recovered, verdicts, row, bound, job>>
  BY DEF Renew, Asks, Untouched
<1>4. "awaiting_approval" \in Statuses \ (Checked \cup Executed)
  BY DEF Statuses, Checked, Executed, Closed
<1>5. CASE Moves(t, {"rework_required"}, "awaiting_approval") /\ UNCHANGED rev
  <2>1. Plain!Step(t)
    BY <1>5, StoredTypes, Ready DEF Moves, Plain!Step, Plain!Decide, Plain!To, Plain!Kept
  <2> QED
    BY <1>1, <1>2, <1>3, <1>4, <1>5, <2>1, TaskRequest DEF Moves, Checked, Executed, Closed
<1>6. CASE Moves(t, {"stopped", "stop_unconfirmed"}, "awaiting_approval") /\ Bump(t)
  <2>1. rev'[t] = rev[t] + 1
    BY <1>6, StoredTypes, Ready DEF Bump
  <2>2. Plain!Step(t)
    BY <1>6, <2>1, StoredTypes, Ready DEF Moves, Plain!Step, Plain!Reopen, Plain!To, Plain!Renewed
  <2> QED
    BY <1>1, <1>2, <1>3, <1>4, <1>6, <2>1, <2>2, TaskRequest DEF Bump
<1>7. CASE Moves(t, {"draft"}, "awaiting_approval") /\ UNCHANGED rev
  <2>1. Plain!Step(t)
    BY <1>7, StoredTypes, Ready DEF Moves, Plain!Step, Plain!Decide, Plain!To, Plain!Kept
  <2> QED
    BY <1>1, <1>2, <1>3, <1>4, <1>7, <2>1, TaskRequest DEF Moves, Checked, Executed, Closed
<1> QED
  BY <1>5, <1>6, <1>7 DEF Renew

LEMMA HaltGranted == ASSUME IndInv, NEW t \in Tasks, Halt(t) PROVE Granted
<1>1. WorldOK'
  BY WorldParts DEF Halt, Untouched, WorldOK, world, books
<1>2. issues' \in Issues
  BY StoredTypes, Ready DEF Halt
<1>3. Plain!Step(t)
  BY StoredTypes, Ready DEF Halt, Moves, Plain!Step, Plain!Halt, Plain!To, Plain!Kept
<1>4. \E to \in {"stopped", "stop_unconfirmed"} : Moves(t, {"approved", "running"}, to)
  BY DEF Halt, Moves
<1> QED
  BY <1>1, <1>2, <1>3, <1>4, TaskRequest
  DEF Halt, Asks, Moves, Untouched, Statuses, Checked, Executed, Closed, books

LEMMA CompleteGranted == ASSUME IndInv, NEW t \in Tasks, Complete(t) PROVE Granted
<1>1. WorldOK'
  BY WorldParts DEF Complete, Untouched, WorldOK, world, books
<1>2. issues' \in Issues
  BY StoredTypes, Ready DEF Complete
<1>3. Plain!Step(t)
  BY StoredTypes, Ready DEF Complete, Moves, Plain!Step, Plain!Accept, Plain!To, Plain!Kept
<1> QED
  BY <1>1, <1>2, <1>3, TaskRequest
  DEF Complete, Asks, Moves, Untouched, Statuses, books

\* A task in QA has a delivery of its revision, so that there is a next one.
LEMMA ReviewedRev ==
    ASSUME IndInv, NEW t \in Tasks, status[t] = "qa"
    PROVE  rev[t] \in 1..MaxRev /\ rev[t] + 1 \in Revs
<1>1. TaskTrue(Stored, t)
  BY Ready DEF Sound
<1>2. ASSUME Reopens(Stored, t) PROVE rev[t] \in 1..MaxRev
  <2>1. PICK h \in recovered : h[1] = t /\ h[2] = rev[t]
    BY <1>2, StoredIs DEF Reopens
  <2>2. h \in Tasks \X (1..MaxRev) \X Keys
    BY <2>1, Ready, StoredTypes DEF Recovered
  <2> QED
    BY <2>1, <2>2
<1>4. ASSUME \E k \in Keys : TaskOf(k) = t /\ OfTask(Stored, k) PROVE rev[t] \in 1..MaxRev
  BY <1>4, KeyFacts, StoredIs DEF OfTask
<1>3. rev[t] \in 1..MaxRev
  BY <1>1, <1>2, <1>4, StoredIs DEF TaskTrue, Checked
<1> QED
  BY <1>3, BoundAssumption DEF Revs

\* A review that is refused, whoever refuses it.
LEMMA ReworkMoves ==
    ASSUME IndInv, NEW t \in Tasks, status[t] = "qa", Rework(t)
    PROVE  /\ Moves(t, {"qa"}, "rework_required") /\ UNCHANGED <<cycle, recovered>>
           /\ rev[t] <= MaxRev /\ rev' = [rev EXCEPT ![t] = @ + 1] /\ rev'[t] = rev[t] + 1
           /\ Plain!Step(t)
<1>1. status \in [Tasks -> Statuses] /\ rev \in [Tasks -> Revs]
  BY Ready, StoredTypes
<1>2. rev'[t] = rev[t] + 1 /\ status'[t] = "rework_required"
  BY <1>1 DEF Rework
<1>3. rev[t] <= MaxRev
  BY ReviewedRev, BoundAssumption
<1> QED
  BY <1>2, <1>3 DEF Rework, Moves, Plain!Step, Plain!Refuse, Plain!To, Plain!Renewed

LEMMA RejectCompletionGranted ==
    ASSUME IndInv, NEW t \in Tasks, RejectCompletion(t) PROVE Granted
<1>1. WorldOK'
  BY WorldParts DEF RejectCompletion, Untouched, WorldOK, world, books
<1>2. issues' \in Issues
  BY StoredTypes, Ready DEF RejectCompletion
<1>3. /\ ~job.lock /\ status[t] = "qa" /\ Rework(t)
      /\ UNCHANGED <<verdicts, row, bound, job>>
  BY DEF RejectCompletion, Asks, Untouched, books
<1>4. "rework_required" \in Statuses \ Checked
  BY DEF Statuses, Checked
<1> QED
  BY <1>1, <1>2, <1>3, <1>4, ReworkMoves, TaskRequest

\* A verdict of the reviewer is signed for the present revision and cycle.
LEMMA QaVerdictGranted ==
    ASSUME IndInv, NEW t \in Tasks, NEW v \in {"PASS", "FAIL"}, QaVerdict(t, v) PROVE Granted
<1> DEFINE signed == <<t, rev[t], cycle[t], v>>
<1>1. /\ ~job.lock /\ status[t] = "qa" /\ verdicts' = verdicts \cup {signed}
      /\ "verdict" \in Ops
      /\ UNCHANGED task \/ Rework(t)
      /\ UNCHANGED <<appr, control, touched, issues, row, bound, job, run, asked, faults>>
  BY DEF QaVerdict, Asks, Untouched, world
<1>2. WorldOK'
  BY <1>1, WorldParts DEF WorldOK
<1>3. Sound(Stored) /\ MaxRev \in Nat
  BY Ready, BoundAssumption
<1>4. /\ status \in [Tasks -> Statuses] /\ rev \in [Tasks -> Revs] /\ cycle \in [Tasks -> Cycles]
      /\ verdicts \in Verdicts /\ row \in [Keys -> Row] /\ bound \in Bounds /\ issues \in Issues
  BY <1>3, StoredTypes
<1>5. rev[t] \in Revs /\ rev[t] \in Nat /\ rev[t] + 1 \in Revs /\ cycle[t] \in Cycles /\ cycle[t] \in Nat
  BY <1>1, <1>3, <1>4, ReviewedRev DEF Revs, Cycles
<1>6. \A u \in Tasks : TaskStays(u) \/ (u = t /\ Refused(t))
  BY <1>1, <1>4 DEF TaskStays, Refused, task, Rework
<1>7. /\ status' \in [Tasks -> Statuses] /\ rev' \in [Tasks -> Revs] /\ cycle' = cycle
      /\ recovered' = recovered
  BY <1>1, <1>4, <1>5 DEF task, Rework, Statuses
<1>8. verdicts' \in Verdicts
  BY <1>1, <1>4, <1>5 DEF Verdicts
<1>9. Stored' \in Snapshots
  BY <1>1, <1>3, <1>4, <1>7, <1>8, StoredTypes, NextTypes
<1>10. \A k \in Keys : RowMoves(Stored, Stored', k)
  BY <1>1, <1>3, RowFacts, StoredIs, StoredIsNext DEF RowMoves
<1>11. \A u \in Tasks : TaskMoves(Stored, Stored', u)
  BY <1>6, StoredIs, StoredIsNext DEF TaskMoves, SameBooks, TaskStays, Refused, Checked
<1>12. VerdictTrue(Stored', signed)
  <2>1. rev'[t] = rev[t] \/ rev'[t] = rev[t] + 1
    BY <1>6 DEF TaskStays, Refused
  <2>2. signed[1] = t /\ signed[2] = rev[t] /\ signed[3] = cycle[t]
    OBVIOUS
  <2> HIDE DEF signed
  <2> QED
    BY <1>1, <1>5, <1>7, <2>1, <2>2, StoredIsNext DEF VerdictTrue
<1>13. Lawful(Stored, Stored')
  <2> HIDE DEF signed
  <2> QED
    BY <1>1, <1>7, <1>9, <1>10, <1>11, <1>12, StoredIs, StoredIsNext DEF Lawful
<1>14. \A u \in Tasks : Plain!Step(u) \/ Plain!Same(u)
  BY <1>1, <1>6 DEF TaskStays, Refused, Plain!Same, Plain!Kept, Plain!Step, Plain!Refuse, Plain!To,
                    Plain!Renewed
<1> QED
  BY <1>1, <1>2, <1>13, <1>14 DEF Granted, NoAnswers

\* A request that changes deliveries and at most the task of those it creates.
LEMMA RowsRequest ==
    ASSUME IndInv, ~job.lock, WorldOK', UNCHANGED <<verdicts, job>>,
           status' \in [Tasks -> Statuses], rev' \in [Tasks -> Revs], cycle' \in [Tasks -> Cycles],
           issues' \in Issues, row' \in [Keys -> Row], bound' \in Bounds,
           UNCHANGED recovered \/ (recovered' \in Recovered /\ recovered \subseteq recovered'),
           \A k \in Keys : RowMoves(Stored, Stored', k),
           \A k \in Keys : row'[k].st = "absent" => row[k].st = "absent",
           \A k \in Keys : AgentOf(k) = Reviewer /\ status'[TaskOf(k)] = "qa" /\ row[k].st \in Live
                           => row'[k] = row[k],
           NoAnswers,
           \A t \in Tasks : TaskMoves(Stored, Stored', t) /\ (Plain!Step(t) \/ Plain!Same(t))
    PROVE  Granted
<1>1. Stored' \in Snapshots
  BY NextTypes, StoredTypes, Ready
<1>2. Lawful(Stored, Stored')
  BY <1>1, StoredIs, StoredIsNext DEF Lawful
<1> QED
  BY <1>2 DEF Granted

LEMMA EnterQAGranted == ASSUME IndInv, NEW t \in Tasks, EnterQA(t) PROVE Granted
<1>1. /\ ~job.lock /\ status[t] = "running" /\ status' = [status EXCEPT ![t] = "qa"]
      /\ cycle' = [cycle EXCEPT ![t] = @ + 1]
      /\ RowsOf(t, rev[t]) # {} /\ \A k \in RowsOf(t, rev[t]) : row[k].st = "responded"
      /\ UNCHANGED <<rev, recovered, appr, verdicts, control, touched, issues, row, bound>>
      /\ UNCHANGED <<job, run, asked, faults>>
  BY DEF EnterQA, Asks, Moves, Untouched, books, world
<1>2. WorldOK'
  BY <1>1, WorldParts DEF WorldOK
<1>3. Sound(Stored) /\ MaxRev \in Nat /\ MaxCycle \in Nat
  BY Ready, BoundAssumption
<1>4. /\ status \in [Tasks -> Statuses] /\ rev \in [Tasks -> Revs] /\ cycle \in [Tasks -> Cycles]
      /\ row \in [Keys -> Row] /\ bound \in Bounds /\ issues \in Issues
  BY <1>3, StoredTypes
<1>5. \A u \in Tasks : TaskStays(u) \/ (u = t /\ ToQA(u))
  BY <1>1, <1>4 DEF TaskStays, ToQA
<1>6. cycle' \in [Tasks -> Cycles] /\ status' \in [Tasks -> Statuses]
  <2>1. TaskTrue(Stored, t)
    BY <1>3 DEF Sound
  <2>2. cycle[t] \in Nat /\ cycle[t] + 1 <= MaxCycle + rev[t] /\ rev[t] \in 1..(MaxRev + 1)
    BY <1>1, <1>3, <1>4, <2>1, StoredIs DEF TaskTrue, Checked, Cycles, Revs
  <2> QED
    BY <1>1, <1>3, <1>4, <2>2 DEF Cycles, Statuses
<1>7. \A k \in Keys : RowMoves(Stored, Stored', k)
  BY <1>1, <1>3, RowFacts, StoredIs, StoredIsNext DEF RowMoves
<1>8. ASSUME NEW k \in Keys, k \in RowsOf(t, rev[t])
      PROVE  /\ TaskOf(k) = t /\ OfTask(Stored, k) /\ AgentOf(k) # Reviewer
             /\ row[k].st = "responded"
  <2>1. /\ TaskOf(k) = t /\ OfTask(Stored, k) /\ row[k].st # "absent"
    BY <1>8, StoredIs DEF RowsOf, OfTask
  <2> QED
    BY <1>1, <1>3, <1>8, <2>1, StoredIs DEF Sound, RowTrue, Checked
<1>9. \E k \in Keys : /\ TaskOf(k) = t /\ OfTask(Stored, k) /\ AgentOf(k) # Reviewer
                      /\ row'[k].st # "absent"
  BY <1>1, <1>8 DEF RowsOf
<1>10. \A k \in Keys : TaskOf(k) = t /\ OfTask(Stored, k) => row'[k].st \in {"absent", "responded"}
  BY <1>1, StoredIs DEF RowsOf, OfTask
<1>11. \A u \in Tasks : TaskMoves(Stored, Stored', u)
  <2>1. TaskMoves(Stored, Stored', t)
    BY <1>1, <1>4, <1>9, <1>10, StoredIs, StoredIsNext DEF TaskMoves
  <2> QED
    BY <1>5, <2>1, StoredIs, StoredIsNext DEF TaskMoves, SameBooks, TaskStays
<1>12. \A u \in Tasks : Plain!Step(u) \/ Plain!Same(u)
  BY <1>5 DEF TaskStays, ToQA, Plain!Same, Plain!Kept, Plain!Step, Plain!Answer, Plain!To
<1>13. NoAnswers /\ row' \in [Keys -> Row] /\ rev' \in [Tasks -> Revs] /\ bound' \in Bounds
       /\ issues' \in Issues
  BY <1>1, <1>4 DEF NoAnswers
<1>14. \A k \in Keys : row'[k] = row[k]
  BY <1>1
<1> QED
  BY <1>1, <1>2, <1>6, <1>7, <1>11, <1>12, <1>13, <1>14, RowsRequest

\* New deliveries are queued for the agents of a running task, at its present revision.
LEMMA FreshMoves ==
    ASSUME IndInv, NEW t \in Tasks, NEW some \in SUBSET Team[t], NEW k \in Keys,
           k \in {<<t, a, rev[t]>> : a \in some}, row[k].st = "absent", row'[k] = NewRow,
           status'[t] = "running", rev' = rev, cycle' = cycle
    PROVE  RowMoves(Stored, Stored', k)
<1>1. k[1] = t /\ k[3] = rev[t] /\ k[2] \in Team[t]
  OBVIOUS
<1>2. TaskOf(k) = t /\ OfTask(Stored', k) /\ AgentOf(k) # Reviewer
  BY <1>1, TeamFacts, StoredIsNext DEF TaskOf, RevOf, AgentOf, OfTask
<1> QED
  BY <1>2, FreshRows, BoundAssumption, StoredIs, StoredIsNext DEF RowMoves, Active

LEMMA DeliverGranted ==
    ASSUME IndInv, NEW t \in Tasks, NEW some \in SUBSET Team[t], Deliver(t, some) PROVE Granted
<1> DEFINE new == {<<t, a, rev[t]>> : a \in some}
<1>1. /\ ~job.lock /\ status[t] = "running" /\ Absent(new) /\ row' = Fresh(new)
      /\ UNCHANGED <<task, appr, verdicts, control, touched, issues, bound, job, run, asked, faults>>
  BY DEF Deliver, Asks, Untouched, books, world
<1>2. WorldOK'
  BY <1>1, WorldParts DEF WorldOK
<1>3. Sound(Stored)
  BY Ready
<1>4. /\ status \in [Tasks -> Statuses] /\ rev \in [Tasks -> Revs] /\ cycle \in [Tasks -> Cycles]
      /\ row \in [Keys -> Row] /\ bound \in Bounds /\ issues \in Issues
  BY <1>3, StoredTypes
<1>5. /\ \A k \in Keys \cap new : row[k].st = "absent" /\ row'[k] = NewRow
      /\ \A k \in Keys \ new : row'[k] = row[k]
      /\ row' \in [Keys -> Row]
  BY <1>1, <1>4, FreshRows DEF Absent, Fresh
<1>6. \A k \in Keys \cap new : RowMoves(Stored, Stored', k)
  BY <1>1, <1>5, FreshMoves DEF task
<1> HIDE DEF new
<1>7. \A k \in Keys : RowMoves(Stored, Stored', k)
  BY <1>1, <1>3, <1>5, <1>6, RowFacts, StoredIs, StoredIsNext DEF RowMoves
<1>8. \A u \in Tasks : TaskMoves(Stored, Stored', u) /\ Plain!Same(u)
  BY <1>1, StoredIs, StoredIsNext DEF TaskMoves, SameBooks, task, Plain!Same, Plain!Kept
<1>9. \A k \in Keys \cap new : AgentOf(k) # Reviewer
  BY TeamFacts DEF new, AgentOf
<1>10. NoAnswers /\ \A k \in Keys : row'[k].st = "absent" => row[k].st = "absent"
  BY <1>5, FreshRows DEF NoAnswers
<1> QED
  BY <1>1, <1>2, <1>4, <1>5, <1>7, <1>8, <1>9, <1>10, RowsRequest DEF task

LEMMA ApproveExecuteGranted == ASSUME IndInv, NEW t \in Tasks, ApproveExecute(t) PROVE Granted
<1> DEFINE own   == {<<t, a, rev[t]>> : a \in Team[t]}
           stale == {k \in Keys : AgentOf(k) \in Team[t] /\ row[k].st \in Live /\ row[k].late}
<1>1. /\ ~job.lock /\ status[t] = "awaiting_approval" /\ status' = [status EXCEPT ![t] = "running"]
      /\ Absent(own) /\ appr' = appr \cup {t}
      /\ row' = [k \in Keys |-> CASE k \in own   -> NewRow
                                  [] k \in stale -> [row[k] EXCEPT !.st = "timed_out"]
                                  [] OTHER       -> row[k]]
      /\ UNCHANGED <<rev, cycle, recovered, verdicts, control, touched, issues, bound>>
      /\ UNCHANGED <<job, run, asked, faults>>
  BY DEF ApproveExecute, Asks, Moves, Untouched, world
<1>2. WorldOK'
  BY <1>1, WorldParts DEF WorldOK
<1>3. Sound(Stored)
  BY Ready
<1>4. /\ status \in [Tasks -> Statuses] /\ rev \in [Tasks -> Revs] /\ cycle \in [Tasks -> Cycles]
      /\ row \in [Keys -> Row] /\ bound \in Bounds /\ issues \in Issues
  BY <1>3, StoredTypes
<1>5. /\ status'[t] = "running" /\ status' \in [Tasks -> Statuses]
      /\ \A u \in Tasks \ {t} : status'[u] = status[u]
  BY <1>1, <1>4 DEF Statuses
<1> HIDE DEF own, stale
<1>6. \A k \in Keys \cap own : row[k].st = "absent" /\ row'[k] = NewRow
  <2>1. \A k \in Keys \cap own : row[k].st = "absent" /\ k \notin stale
    BY <1>1 DEF Absent, stale, Live, Active
  <2> QED
    BY <1>1, <2>1
<1>7. \A k \in Keys \cap own : RowMoves(Stored, Stored', k) /\ AgentOf(k) # Reviewer
  <2>1. \A k \in Keys \cap own : AgentOf(k) # Reviewer
    BY TeamFacts DEF AgentOf, own
  <2> QED
    BY <1>1, <1>5, <1>6, <2>1, FreshMoves DEF own
<1>8. ASSUME NEW k \in Keys, k \notin own
      PROVE  /\ row'[k] \in Row /\ row'[k].tries = row[k].tries /\ row'[k].says = row[k].says
             /\ row'[k].st = row[k].st
                \/ (k \in stale /\ row[k].st \in Live /\ row'[k].st = "timed_out")
             /\ k \notin stale => row'[k] = row[k]
  <2>1. row[k] \in Row
    BY <1>4
  <2>2. row'[k] = (IF k \in stale THEN [row[k] EXCEPT !.st = "timed_out"] ELSE row[k])
    BY <1>1, <1>8
  <2>3. k \in stale => row[k].st \in Live
    BY DEF stale
  <2> QED
    BY <2>1, <2>2, <2>3 DEF Row, RowStatuses
<1>9. \A k \in stale : AgentOf(k) # Reviewer
  BY TeamFacts DEF stale
<1>10. row' \in [Keys -> Row]
  <2>1. \A k \in Keys : row'[k] \in Row
    BY <1>6, <1>8, FreshRows
  <2>2. \E f : row' = [k \in Keys |-> f[k]]
    <3>1. row' = [k \in Keys |-> row'[k]]
      BY <1>1
    <3> QED
      BY <3>1
  <2> QED
    BY <2>1, <2>2
<1>11. \A k \in Keys : RowMoves(Stored, Stored', k)
  <2>1. ASSUME NEW k \in Keys, k \notin own PROVE RowMoves(Stored, Stored', k)
    <3>1. /\ row[k].st \in {"queued", "sent"} => row[k].tries < MaxTries
          /\ FastRun(k) => row[k].says = "none"
      BY <1>3, RowFacts
    <3> QED
      BY <1>8, <2>1, <3>1, StoredIs, StoredIsNext DEF RowMoves, Active, Live
  <2> QED
    BY <1>7, <2>1
<1>12. \A u \in Tasks : TaskMoves(Stored, Stored', u) /\ (Plain!Step(u) \/ Plain!Same(u))
  BY <1>1, <1>5, StoredIs, StoredIsNext
  DEF TaskMoves, SameBooks, Checked, Executed, Closed, Plain!Same, Plain!Kept, Plain!Step,
      Plain!Execute, Plain!To
<1>13. NoAnswers /\ \A k \in Keys : row'[k].st = "absent" => row[k].st = "absent"
  BY <1>6, <1>8, FreshRows DEF NoAnswers
<1>14. \A k \in Keys : AgentOf(k) = Reviewer => row'[k] = row[k]
  BY <1>7, <1>8, <1>9
<1> QED
  BY <1>1, <1>2, <1>4, <1>5, <1>10, <1>11, <1>12, <1>13, <1>14, RowsRequest

LEMMA RetryGranted == ASSUME IndInv, NEW k \in Keys, Retry(k) PROVE Granted
<1> DEFINE r == [row[k] EXCEPT !.st = "queued", !.tries = 0]
<1>1. /\ ~job.lock /\ AgentOf(k) \in Team[TaskOf(k)] /\ row[k].st \in {"failed", "timed_out"}
      /\ row' = [row EXCEPT ![k].st = "queued", ![k].tries = 0]
      /\ UNCHANGED <<task, appr, verdicts, control, touched, issues, bound, job, run, asked, faults>>
  BY DEF Retry, Asks, Untouched, books, world
<1>2. WorldOK'
  BY <1>1, WorldParts DEF WorldOK
<1>3. Sound(Stored) /\ MaxTries \in Nat \ {0}
  BY Ready, BoundAssumption
<1>4. /\ status \in [Tasks -> Statuses] /\ rev \in [Tasks -> Revs] /\ cycle \in [Tasks -> Cycles]
      /\ row \in [Keys -> Row] /\ row[k] \in Row /\ bound \in Bounds /\ issues \in Issues
  BY <1>3, StoredTypes
<1>5. AgentOf(k) # Reviewer
  BY <1>1, TeamFacts, KeyFacts
<1>6. r \in Row /\ r.st = "queued" /\ r.tries = 0 /\ r.says = row[k].says
  <2>1. "queued" \in RowStatuses /\ 0 \in 0..MaxTries
    BY <1>3 DEF RowStatuses, Live
  <2> QED
    BY <1>4, <2>1 DEF Row
<1>7. row' = [row EXCEPT ![k] = r]
  BY <1>1, <1>4 DEF Row
<1> HIDE DEF r
<1>8. /\ row'[k] = r /\ row' \in [Keys -> Row] /\ \A j \in Keys \ {k} : row'[j] = row[j]
  BY <1>4, <1>6, <1>7
<1>9. \A j \in Keys : RowMoves(Stored, Stored', j)
  BY <1>1, <1>3, <1>6, <1>8, RowFacts, StoredIs, StoredIsNext DEF RowMoves, Active
<1>10. \A u \in Tasks : TaskMoves(Stored, Stored', u) /\ Plain!Same(u)
  BY <1>1, StoredIs, StoredIsNext DEF TaskMoves, SameBooks, task, Plain!Same, Plain!Kept
<1>11. NoAnswers /\ \A j \in Keys : row'[j].st = "absent" => row[j].st = "absent"
  BY <1>6, <1>8 DEF NoAnswers
<1> QED
  BY <1>1, <1>2, <1>4, <1>5, <1>8, <1>9, <1>10, <1>11, RowsRequest DEF task

\* A review that is over is taken up again, in the next cycle.
LEMMA ResumeQaGranted == ASSUME IndInv, NEW t \in Tasks, ResumeQa(t) PROVE Granted
<1> DEFINE q == QAKey(t)
<1>1. /\ ~job.lock /\ status[t] = "qa" /\ cycle[t] < MaxCycle
      /\ q \in Keys /\ row[q].st \notin Live
      /\ cycle' = [cycle EXCEPT ![t] = @ + 1]
      /\ run' = [run EXCEPT ![q] = "none"] /\ asked' = [asked EXCEPT ![q] = "nothing"]
      /\ \/ row' = [row EXCEPT ![q] = NewRow] /\ issues' \subseteq issues
         \/ row' = [row EXCEPT ![q] = NoRow] /\ issues' = Mark(t, NoKey)
      /\ UNCHANGED <<status, rev, recovered, appr, verdicts, control, touched, bound, job, faults>>
  BY DEF ResumeQa, Asks, books
<1>2. WorldOK'
  BY <1>1, WorldParts DEF WorldOK
<1>3. Sound(Stored) /\ MaxRev \in Nat /\ MaxCycle \in Nat
  BY Ready, BoundAssumption
<1>4. /\ status \in [Tasks -> Statuses] /\ rev \in [Tasks -> Revs] /\ cycle \in [Tasks -> Cycles]
      /\ verdicts \in Verdicts /\ row \in [Keys -> Row] /\ bound \in Bounds /\ issues \in Issues
  BY <1>3, StoredTypes
<1>5. TaskOf(q) = t /\ AgentOf(q) = Reviewer /\ RevOf(q) = rev[t]
  BY DEF QAKey, TaskOf, AgentOf, RevOf
<1>6. cycle' \in [Tasks -> Cycles] /\ cycle'[t] = cycle[t] + 1 /\ cycle'[t] # cycle[t]
      /\ \A u \in Tasks \ {t} : TaskStays(u)
  BY <1>1, <1>3, <1>4 DEF Cycles, TaskStays
<1>7. issues' \in Issues
  BY <1>1, <1>4 DEF Issues, Mark
<1> HIDE DEF q
<1>8. /\ row' \in [Keys -> Row] /\ row'[q] \in {NewRow, NoRow}
      /\ \A j \in Keys \ {q} : row'[j] = row[j]
  BY <1>1, <1>4, FreshRows
<1>9. Stored' \in Snapshots
  BY <1>1, <1>3, <1>4, <1>6, <1>7, <1>8, StoredTypes, NextTypes
<1>10. \A j \in Keys : RowMoves(Stored, Stored', j)
  <2>1. OfTask(Stored', q) /\ Stored'.status[t] = "qa"
    BY <1>1, <1>5, StoredIsNext DEF OfTask
  <2>2. RowMoves(Stored, Stored', q)
    BY <1>3, <1>5, <1>6, <1>8, <2>1, FreshRows, BoundAssumption, StoredIs, StoredIsNext
    DEF RowMoves, Active
  <2>3. ASSUME NEW j \in Keys \ {q} PROVE RowMoves(Stored, Stored', j)
    BY <1>3, <1>8, RowFacts, StoredIs, StoredIsNext DEF RowMoves
  <2> QED
    BY <2>2, <2>3
<1>11. \A u \in Tasks : TaskMoves(Stored, Stored', u)
  BY <1>1, <1>6, StoredIs, StoredIsNext DEF TaskMoves, SameBooks, TaskStays
<1>12. Lawful(Stored, Stored')
  BY <1>1, <1>9, <1>10, <1>11, StoredIs, StoredIsNext DEF Lawful
<1>13. \A u \in Tasks : Plain!Same(u)
  BY <1>1 DEF Plain!Same, Plain!Kept
<1>14. NoAnswers
  BY <1>8, FreshRows DEF NoAnswers
<1>15. IsReview(q) /\ OfTask(Stored, q)
  BY <1>1, <1>5, StoredIs DEF IsReview, OfTask
<1> QED
  BY <1>1, <1>2, <1>8, <1>12, <1>13, <1>14, <1>15 DEF Granted

\* What the two requests do that open QA of a revision again: the team's queued deliveries
\* may fail, the reviewer has one.
LEMMA QaIsReopened ==
    ASSUME IndInv, NEW t \in Tasks, Revalidate(t) \/ RecoverQa(t)
    PROVE  /\ ~job.lock /\ rev[t] \in 1..MaxRev /\ QAKey(t) \in Keys
           /\ TaskOf(QAKey(t)) = t /\ AgentOf(QAKey(t)) = Reviewer
           /\ status[t] \in {"running", "qa", "rework_required"}
           /\ status' = [status EXCEPT ![t] = "qa"] /\ status'[t] = "qa"
           /\ cycle' = [cycle EXCEPT ![t] = IF status[t] = "qa" THEN @ ELSE @ + 1]
           /\ \E k \in Keys : recovered' = recovered \cup {<<t, rev[t], k>>}
           /\ issues' \in Issues /\ \A i \in issues : i[1] # t => i \in issues'
           /\ row' \in [Keys -> Row]
           /\ \A j \in Keys : \/ row'[j] = row[j]
                              \/ /\ TaskOf(j) = t /\ AgentOf(j) # Reviewer /\ row[j].st = "queued"
                                 /\ row'[j].st = "failed" /\ row'[j].says = row[j].says
                              \/ j = QAKey(t) /\ row[j].st = "absent" /\ row'[j] = NewRow
           /\ UNCHANGED <<rev, appr, verdicts, control, touched, bound, run, asked, job, faults>>
<1>1. PICK k \in Keys, rows \in {row, Bypassed(t)}, results \in SUBSET {<<t, rev[t], a>> : a \in Keys} :
          OpenQa(t, k, rows) /\ issues' = issues \ results
  <2>1. CASE Revalidate(t)
    BY <2>1 DEF Revalidate
  <2>2. CASE RecoverQa(t)
    <3>1. PICK k \in Keys : OpenQa(t, k, row) /\ issues' = issues \ {}
      BY <2>2 DEF RecoverQa
    <3> QED
      BY <3>1
  <2> QED
    BY <2>1, <2>2
<1>2. /\ ~job.lock /\ rev[t] <= MaxRev /\ status[t] \in {"running", "qa", "rework_required"}
      /\ UNCHANGED <<appr, verdicts, control, touched, bound, run, asked, job, faults>>
  BY DEF Revalidate, RecoverQa, Asks, Untouched, books, world
<1>3. /\ status \in [Tasks -> Statuses] /\ rev \in [Tasks -> Revs] /\ row \in [Keys -> Row]
      /\ issues \in Issues /\ MaxRev \in Nat
  BY StoredTypes, Ready, BoundAssumption
<1>4. rev[t] \in 1..MaxRev
  BY <1>2, <1>3 DEF Revs
<1>5. QAKey(t) \in Keys /\ TaskOf(QAKey(t)) = t /\ AgentOf(QAKey(t)) = Reviewer
  BY <1>4, KeyFacts DEF QAKey
<1>6. /\ rows \in [Keys -> Row]
      /\ \A j \in Keys : \/ rows[j] = row[j]
                         \/ /\ TaskOf(j) = t /\ AgentOf(j) # Reviewer /\ row[j].st = "queued"
                            /\ rows[j].st = "failed" /\ rows[j].says = row[j].says
  <2>1. CASE rows = row
    BY <1>3, <2>1
  <2>2. CASE rows = Bypassed(t)
    <3>1. ASSUME NEW j \in Keys
          PROVE  /\ row[j] \in Row /\ [row[j] EXCEPT !.st = "failed"] \in Row
                 /\ [row[j] EXCEPT !.st = "failed"].st = "failed"
                 /\ [row[j] EXCEPT !.st = "failed"].says = row[j].says
      BY <1>3 DEF Row, RowStatuses
    <3>2. ASSUME NEW j \in Keys
          PROVE  \/ rows[j] = row[j]
                 \/ /\ TaskOf(j) = t /\ AgentOf(j) # Reviewer /\ row[j].st = "queued"
                    /\ rows[j] = [row[j] EXCEPT !.st = "failed"]
      BY <2>2 DEF Bypassed
    <3>3. rows = [j \in Keys |-> rows[j]]
      BY <2>2 DEF Bypassed
    <3>4. \A j \in Keys : rows[j] \in Row
      BY <3>1, <3>2
    <3>5. rows \in [Keys -> Row]
      BY <3>3, <3>4
    <3> QED
      BY <3>1, <3>2, <3>5
  <2> QED
    BY <2>1, <2>2
<1>7. /\ row' = rows \/ (rows[QAKey(t)].st = "absent" /\ row' = [rows EXCEPT ![QAKey(t)] = NewRow])
      /\ status' = [status EXCEPT ![t] = "qa"] /\ rev' = rev
      /\ cycle' = [cycle EXCEPT ![t] = IF status[t] = "qa" THEN @ ELSE @ + 1]
      /\ recovered' = recovered \cup {<<t, rev[t], k>>}
  BY <1>1 DEF OpenQa
<1>8. row' \in [Keys -> Row]
  BY <1>6, <1>7, FreshRows
<1>9. ASSUME NEW j \in Keys
      PROVE  \/ row'[j] = row[j]
             \/ /\ TaskOf(j) = t /\ AgentOf(j) # Reviewer /\ row[j].st = "queued"
                /\ row'[j].st = "failed" /\ row'[j].says = row[j].says
             \/ j = QAKey(t) /\ row[j].st = "absent" /\ row'[j] = NewRow
  <2>1. CASE row'[j] = rows[j]
    BY <1>6, <2>1
  <2>2. CASE row'[j] # rows[j]
    <3>1. j = QAKey(t) /\ rows[j].st = "absent" /\ row'[j] = NewRow
      BY <1>5, <1>6, <1>7, <2>2
    <3>2. rows[j] = row[j]
      BY <1>5, <1>6, <3>1
    <3> QED
      BY <3>1, <3>2
  <2> QED
    BY <2>1, <2>2
<1>10. issues' \in Issues /\ \A i \in issues : i[1] # t => i \in issues'
  BY <1>1, <1>3 DEF Issues
<1>11. status'[t] = "qa"
  BY <1>3, <1>7
<1> QED
  BY <1>2, <1>4, <1>5, <1>7, <1>8, <1>9, <1>10, <1>11

\* What they open is lawful, and a step of the contract.
LEMMA ReopenGranted ==
    ASSUME IndInv, NEW t \in Tasks, Revalidate(t) \/ RecoverQa(t) PROVE Granted
<1> DEFINE q == QAKey(t)
<1>1. /\ ~job.lock /\ rev[t] \in 1..MaxRev /\ q \in Keys
      /\ status[t] \in {"running", "qa", "rework_required"}
      /\ status' = [status EXCEPT ![t] = "qa"] /\ status'[t] = "qa"
      /\ cycle' = [cycle EXCEPT ![t] = IF status[t] = "qa" THEN @ ELSE @ + 1]
      /\ \E k \in Keys : recovered' = recovered \cup {<<t, rev[t], k>>}
      /\ issues' \in Issues /\ row' \in [Keys -> Row]
      /\ \A j \in Keys : \/ row'[j] = row[j]
                         \/ /\ TaskOf(j) = t /\ AgentOf(j) # Reviewer /\ row[j].st = "queued"
                            /\ row'[j].st = "failed" /\ row'[j].says = row[j].says
                         \/ j = q /\ row[j].st = "absent" /\ row'[j] = NewRow
      /\ UNCHANGED <<rev, appr, verdicts, control, touched, bound, run, asked, job, faults>>
  BY QaIsReopened
<1>2. Sound(Stored) /\ MaxRev \in Nat /\ MaxCycle \in Nat
  BY Ready, BoundAssumption
<1>3. /\ status \in [Tasks -> Statuses] /\ rev \in [Tasks -> Revs] /\ cycle \in [Tasks -> Cycles]
      /\ row \in [Keys -> Row] /\ bound \in Bounds /\ recovered \in Recovered
  BY <1>2, StoredTypes
<1>4. WorldOK'
  BY <1>1, WorldParts DEF WorldOK
<1>5. /\ recovered' \in Recovered /\ recovered \subseteq recovered'
      /\ Reopens(Stored', t)
  <2>1. PICK k \in Keys : recovered' = recovered \cup {<<t, rev[t], k>>}
    BY <1>1
  <2>2. /\ <<t, rev[t], k>> \in Tasks \X (1..MaxRev) \X Keys /\ <<t, rev[t], k>>[1] = t
        /\ <<t, rev[t], k>>[2] = rev[t] /\ rev' = rev
    BY <1>1
  <2>3. \E h \in recovered' : h[1] = t /\ h[2] = rev'[t]
    BY <2>1, <2>2
  <2>4. recovered' \in Recovered /\ recovered \subseteq recovered'
    BY <1>3, <2>1, <2>2 DEF Recovered
  <2> QED
    BY <2>3, <2>4, StoredIsNext DEF Reopens
<1>6. TaskOf(q) = t /\ AgentOf(q) = Reviewer /\ RevOf(q) = rev[t]
  BY DEF QAKey, TaskOf, AgentOf, RevOf
<1>7. \A u \in Tasks \ {t} : TaskStays(u)
  BY <1>1, <1>3 DEF TaskStays
<1>8. /\ cycle'[t] = (IF status[t] = "qa" THEN cycle[t] ELSE cycle[t] + 1)
      /\ cycle' \in [Tasks -> Cycles] /\ status' \in [Tasks -> Statuses]
  <2>1. TaskTrue(Stored, t)
    BY <1>2 DEF Sound
  <2>2. /\ cycle[t] \in Nat /\ rev[t] \in 1..(MaxRev + 1)
        /\ status[t] # "qa" => cycle[t] + 1 <= MaxCycle + rev[t]
    BY <1>1, <1>2, <1>3, <2>1, StoredIs DEF TaskTrue, Checked, Cycles, Revs
  <2> QED
    BY <1>1, <1>2, <1>3, <2>2 DEF Cycles, Statuses
<1> HIDE DEF q
<1>9. ASSUME NEW j \in Keys PROVE RowMoves(Stored, Stored', j)
  <2>1. CASE row'[j] = row[j]
    BY <1>2, <2>1, RowFacts, StoredIs, StoredIsNext DEF RowMoves
  <2>2. CASE row[j].st = "queued" /\ row'[j].st = "failed" /\ row'[j].says = row[j].says
    BY <1>2, <2>2, RowFacts, StoredIs, StoredIsNext DEF RowMoves, Active
  <2>3. CASE j = q /\ row[j].st = "absent" /\ row'[j] = NewRow
    <3>1. OfTask(Stored', j) /\ Stored'.status[TaskOf(j)] = "qa" /\ ~FastRun(j)
      BY <1>1, <1>6, <2>3, StoredIsNext DEF OfTask, FastRun
    <3> QED
      BY <1>6, <2>3, <3>1, FreshRows, BoundAssumption, StoredIs, StoredIsNext DEF RowMoves, Active
  <2> QED
    BY <1>1, <2>1, <2>2, <2>3
<1>10. \A u \in Tasks : TaskMoves(Stored, Stored', u)
  <2>1. TaskMoves(Stored, Stored', t)
    BY <1>1, <1>5, <1>8, StoredIs, StoredIsNext DEF TaskMoves, SameBooks
  <2> QED
    BY <1>7, <2>1, StoredIs, StoredIsNext DEF TaskMoves, SameBooks, TaskStays
<1>11. \A u \in Tasks : Plain!Step(u) \/ Plain!Same(u)
  <2>1. Plain!Step(t) \/ Plain!Same(t)
    BY <1>1 DEF Plain!Step, Plain!Same, Plain!Answer, Plain!Reconsider, Plain!To, Plain!Kept
  <2> QED
    BY <1>7, <2>1 DEF TaskStays, Plain!Same, Plain!Kept
<1>12. NoAnswers /\ \A j \in Keys : row'[j].st = "absent" => row[j].st = "absent"
  BY <1>1, FreshRows DEF NoAnswers
<1>13. \A j \in Keys : AgentOf(j) = Reviewer /\ row[j].st \in Live => row'[j] = row[j]
  BY <1>1 DEF Live, Active
<1> QED
  BY <1>1, <1>3, <1>4, <1>5, <1>8, <1>9, <1>10, <1>11, <1>12, <1>13, RowsRequest

\* What a stop does to the deliveries of the tasks it is about.
LEMMA StopFacts ==
    ASSUME IndInv, NEW ts \in SUBSET Tasks, NEW confirmed \in SUBSET LiveOf(ts),
           StopDeliveries(ts, confirmed)
    PROVE  /\ row' \in [Keys -> Row] /\ bound' \in Bounds
           /\ \A k \in Keys : TaskOf(k) \notin ts => row'[k] = row[k]
           /\ \A k \in Keys : RowMoves(Stored, Stored', k)
           /\ \A k \in Keys : row'[k].st = "absent" => row[k].st = "absent"
           /\ NoAnswers
           /\ run' \in [Keys -> {"none", "running"} \cup Ended]
<1>1. /\ row' = StopRows(LiveOf(ts), confirmed) /\ run' = Aborted(confirmed)
      /\ bound' \in {Persisted({k \in {j \in LiveOf(ts) : row[j].st \in Active} : FastRun(k)})}
  BY DEF StopDeliveries
<1>2. Sound(Stored) /\ row \in [Keys -> Row] /\ bound \in Bounds
  BY Ready
<1>3. bound' \in Bounds
  <2>1. {k \in {j \in LiveOf(ts) : row[j].st \in Active} : FastRun(k)} \in SUBSET Keys
    BY DEF LiveOf
  <2> QED
    BY <1>1, <1>2, <2>1, PersistedTypes
<1>4. run' \in [Keys -> {"none", "running"} \cup Ended]
  BY <1>1, WorldParts DEF Aborted, Ended
<1>5. ASSUME NEW k \in Keys
      PROVE  /\ row'[k] \in Row /\ row'[k].tries = row[k].tries /\ row'[k].says = row[k].says
             /\ \/ row'[k] = row[k]
                \/ k \in LiveOf(ts) /\ row[k].st \in Live /\ row'[k].st \in {"stopped", "failed"}
  <2>1. row[k] \in Row
    BY <1>2
  <2>2. row'[k] \in {row[k], [row[k] EXCEPT !.st = "stopped"], [row[k] EXCEPT !.st = "failed"]}
        /\ (row'[k] # row[k] => k \in LiveOf(ts))
    BY <1>1 DEF StopRows, Active
  <2>3. k \in LiveOf(ts) => row[k].st \in Live
    BY DEF LiveOf
  <2> QED
    BY <2>1, <2>2, <2>3 DEF Row, RowStatuses
<1>6. row' \in [Keys -> Row]
  <2>1. row' = [k \in Keys |-> row'[k]]
    BY <1>1 DEF StopRows
  <2> QED
    BY <1>5, <2>1
<1>7. \A k \in Keys : RowMoves(Stored, Stored', k)
  <2>1. ASSUME NEW k \in Keys PROVE RowMoves(Stored, Stored', k)
    <3>1. /\ row[k].st \in {"queued", "sent"} => row[k].tries < MaxTries
          /\ FastRun(k) => row[k].says = "none"
      BY <1>2, RowFacts
    <3> QED
      BY <1>5, <3>1, StoredIs, StoredIsNext DEF RowMoves, Active, Live
  <2> QED
    BY <2>1
<1>8. NoAnswers /\ \A k \in Keys : row'[k].st = "absent" => row[k].st = "absent"
  BY <1>5 DEF NoAnswers
<1>9. \A k \in Keys : TaskOf(k) \notin ts => row'[k] = row[k]
  BY <1>5 DEF LiveOf
<1> QED
  BY <1>3, <1>4, <1>6, <1>7, <1>8, <1>9

LEMMA StopTaskGranted == ASSUME IndInv, NEW t \in Tasks, StopTask(t) PROVE Granted
<1>1. PICK confirmed \in SUBSET LiveOf({t}), final \in {"stopped", "stop_unconfirmed"} :
          /\ ~job.lock /\ status[t] # "completed"
          /\ StopDeliveries({t}, confirmed)
          /\ appr' = appr \ {t} /\ touched' = touched \ LiveOf({t})
          /\ status' = [status EXCEPT ![t] = final]
          /\ IF status[t] = final THEN UNCHANGED rev ELSE Bump(t)
          /\ UNCHANGED <<cycle, recovered, verdicts, control, issues, asked, job, faults>>
  BY DEF StopTask, Asks
<1>2. /\ row' \in [Keys -> Row] /\ bound' \in Bounds
      /\ \A k \in Keys : TaskOf(k) # t => row'[k] = row[k]
      /\ \A k \in Keys : RowMoves(Stored, Stored', k)
      /\ \A k \in Keys : row'[k].st = "absent" => row[k].st = "absent"
      /\ NoAnswers
      /\ run' \in [Keys -> {"none", "running"} \cup Ended]
  BY <1>1, StopFacts
<1>3. WorldOK'
  BY <1>1, <1>2, WorldParts DEF WorldOK
<1>4. /\ status \in [Tasks -> Statuses] /\ rev \in [Tasks -> Revs] /\ cycle \in [Tasks -> Cycles]
      /\ issues \in Issues /\ MaxRev \in Nat
  BY Ready, StoredTypes, BoundAssumption
<1>5. /\ status' \in [Tasks -> Statuses] /\ rev' \in [Tasks -> Revs] /\ status'[t] = final
      /\ rev'[t] = (IF status[t] = final THEN rev[t] ELSE rev[t] + 1)
      /\ \A u \in Tasks \ {t} : TaskStays(u)
  BY <1>1, <1>4 DEF Statuses, Revs, Bump, TaskStays
<1>6. \A u \in Tasks : TaskMoves(Stored, Stored', u)
  <2>1. TaskMoves(Stored, Stored', t)
    BY <1>1, <1>5, StoredIs, StoredIsNext DEF TaskMoves, SameBooks, Checked
  <2> QED
    BY <1>5, <2>1, StoredIs, StoredIsNext DEF TaskMoves, SameBooks, TaskStays
<1>7. \A u \in Tasks : Plain!Step(u) \/ Plain!Same(u)
  <2>1. Plain!Step(t) \/ Plain!Same(t)
    BY <1>1, <1>5 DEF Plain!Step, Plain!Stop, Plain!Renewed, Plain!Same, Plain!Kept
  <2> QED
    BY <1>5, <2>1 DEF TaskStays, Plain!Same, Plain!Kept
<1>8. \A k \in Keys : AgentOf(k) = Reviewer /\ status'[TaskOf(k)] = "qa" => row'[k] = row[k]
  BY <1>2, <1>5
<1> QED
  BY <1>1, <1>2, <1>3, <1>4, <1>5, <1>6, <1>7, <1>8, RowsRequest

LEMMA StopProjectGranted == ASSUME IndInv, StopProject PROVE Granted
<1> DEFINE begun == {t \in Tasks : status[t] \in {"approved", "running", "qa", "rework_required"}}
<1>1. PICK confirmed \in SUBSET LiveOf(Tasks), sure \in BOOLEAN :
          /\ ~job.lock /\ \A t \in begun : rev[t] <= MaxRev
          /\ StopDeliveries(Tasks, confirmed)
          /\ control' = IF sure THEN "stopped" ELSE "stop_failed"
          /\ touched' = LiveOf(Tasks) /\ appr' = {}
          /\ status' = [t \in Tasks |-> IF t \notin begun THEN status[t]
                                        ELSE IF sure THEN "stopped" ELSE "stop_unconfirmed"]
          /\ rev' = [t \in Tasks |-> IF t \in begun THEN rev[t] + 1 ELSE rev[t]]
          /\ UNCHANGED <<cycle, recovered, verdicts, issues, asked, job, faults>>
  <2>1. \A confirmed : AllConfirmed(Tasks, confirmed) \in BOOLEAN
    BY DEF AllConfirmed
  <2> QED
    BY <2>1 DEF StopProject, Asks
<1>2. /\ row' \in [Keys -> Row] /\ bound' \in Bounds
      /\ \A k \in Keys : RowMoves(Stored, Stored', k)
      /\ \A k \in Keys : row'[k].st = "absent" => row[k].st = "absent"
      /\ NoAnswers
      /\ run' \in [Keys -> {"none", "running"} \cup Ended]
  BY <1>1, StopFacts
<1>3. WorldOK'
  BY <1>1, <1>2, WorldParts DEF WorldOK, LiveOf
<1>4. /\ status \in [Tasks -> Statuses] /\ rev \in [Tasks -> Revs] /\ cycle \in [Tasks -> Cycles]
      /\ issues \in Issues /\ MaxRev \in Nat
  BY Ready, StoredTypes, BoundAssumption
<1>5. ASSUME NEW t \in Tasks
      PROVE  \/ status'[t] = status[t] /\ rev'[t] = rev[t] /\ status[t] # "qa"
             \/ /\ status'[t] \in {"stopped", "stop_unconfirmed"} /\ rev'[t] = rev[t] + 1
                /\ status[t] \in {"approved", "running", "qa", "rework_required"}
  BY <1>1
<1>6. status' \in [Tasks -> Statuses] /\ rev' \in [Tasks -> Revs]
  BY <1>1, <1>4 DEF Statuses, Revs
<1>7. \A u \in Tasks : TaskMoves(Stored, Stored', u)
  BY <1>1, <1>5, StoredIs, StoredIsNext DEF TaskMoves, SameBooks, Checked
<1>8. \A u \in Tasks : Plain!Step(u) \/ Plain!Same(u)
  BY <1>5 DEF Plain!Step, Plain!Stop, Plain!Renewed, Plain!Same, Plain!Kept
<1>9. \A t \in Tasks : status'[t] # "qa"
  BY <1>5
<1> HIDE DEF begun
<1> QED
  BY <1>1, <1>2, <1>3, <1>4, <1>6, <1>7, <1>8, <1>9, KeyFacts, RowsRequest

LEMMA StopAckGranted == ASSUME IndInv, NEW k \in Keys, StopAck(k) PROVE Granted
<1>1. WorldOK'
  BY WorldParts DEF StopAck, Untouched, WorldOK, world
<1> QED
  BY <1>1, QuietRequest DEF StopAck, Untouched

LEMMA ResumeGranted == ASSUME IndInv, Resume PROVE Granted
<1>1. WorldOK'
  BY WorldParts DEF Resume, Untouched, WorldOK, world
<1> QED
  BY <1>1, QuietRequest DEF Resume, Untouched

LEMMA LoseApprovalGranted == ASSUME IndInv, NEW t \in Tasks, LoseApproval(t) PROVE Granted
<1>1. WorldOK'
  BY WorldParts DEF LoseApproval, Untouched, WorldOK, world
<1> QED
  BY <1>1, QuietRequest DEF LoseApproval, Untouched

LEMMA RunChanges ==
    ASSUME IndInv, NEW k \in Keys, RunEnds(k) \/ CancelRun(k) PROVE Granted
<1>1. /\ \E end \in Ended : run' = [run EXCEPT ![k] = end]
      /\ UNCHANGED <<task, appr, verdicts, control, touched, issues, row, bound, asked, job, faults>>
  BY DEF RunEnds, CancelRun, books, Ended
<1>2. WorldOK'
  BY <1>1, WorldParts DEF WorldOK
<1> QED
  BY <1>1, <1>2, QuietRequest

\* A deadline that passes is seen by nobody until the thread reads the row.
LEMMA DeadlineGranted == ASSUME IndInv, NEW k \in Keys, DeadlinePasses(k) PROVE Granted
<1> DEFINE r == [row[k] EXCEPT !.late = TRUE]
<1>1. /\ row' = [row EXCEPT ![k].late = TRUE]
      /\ UNCHANGED <<task, appr, verdicts, control, touched, issues, bound, run, asked, job, faults>>
  BY DEF DeadlinePasses, books, world
<1>2. WorldOK'
  BY <1>1, WorldParts DEF WorldOK
<1>3. Sound(Stored)
  BY Ready
<1>4. /\ status \in [Tasks -> Statuses] /\ rev \in [Tasks -> Revs] /\ cycle \in [Tasks -> Cycles]
      /\ verdicts \in Verdicts /\ row \in [Keys -> Row] /\ row[k] \in Row /\ bound \in Bounds
      /\ issues \in Issues /\ recovered \in Recovered
  BY <1>3, StoredTypes
<1>5. r \in Row /\ r.st = row[k].st /\ r.tries = row[k].tries /\ r.says = row[k].says
  BY <1>4 DEF Row
<1>6. row' = [row EXCEPT ![k] = r]
  BY <1>1
<1> HIDE DEF r
<1>7. /\ row' \in [Keys -> Row]
      /\ \A j \in Keys : /\ row'[j].st = row[j].st /\ row'[j].tries = row[j].tries
                         /\ row'[j].says = row[j].says
  BY <1>4, <1>5, <1>6
<1>8. Stored' \in Snapshots
  BY <1>1, <1>4, <1>7, NextTypes DEF task
<1>9. \A j \in Keys : RowMoves(Stored, Stored', j)
  BY <1>3, <1>7, RowFacts, StoredIs, StoredIsNext DEF RowMoves
<1>10. \A u \in Tasks : TaskMoves(Stored, Stored', u) /\ Plain!Same(u) /\ Unmoved(u)
  BY <1>1, StoredIs, StoredIsNext DEF TaskMoves, SameBooks, task, Plain!Same, Plain!Kept, Unmoved
<1>11. Lawful(Stored, Stored')
  BY <1>1, <1>8, <1>9, <1>10, StoredIs, StoredIsNext DEF Lawful, task
<1> QED
  BY <1>1, <1>2, <1>7, <1>10, <1>11 DEF Granted, NoAnswers

(********************************* theorems ********************************)

\* Every step of the thread serves a delivery, abandons the tick, or only reads.
Read == /\ UNCHANGED <<task, verdicts, issues, row, bound>>
        /\ IndInv' /\ Seen' = Stored'

LEMMA RuntimeIs ==
    ASSUME IndInv, Runtime
    PROVE  \/ \E k \in Keys : Served(k) /\ Turned(k)
           \/ Undo /\ WorldOK' /\ job' = IdleJob
           \/ Read
<1>1. JobOK /\ WorldOK
  BY Ready
<1>2. CASE Tick
  <2>1. /\ UNCHANGED <<task, verdicts, issues, row, bound>>
        /\ UNCHANGED <<appr, control, touched, world, faults>>
        /\ job' = [IdleJob EXCEPT !.at = "due", !.todo = Due, !.late = Late(Due)]
    BY <1>2 DEF Tick, books
  <2>2. job' = [at |-> "due", key |-> NoKey, todo |-> Due, late |-> Late(Due), got |-> "none",
                lock |-> FALSE, base |-> <<>>]
    BY <2>1 DEF IdleJob
  <2>3. WorldOK' /\ Late(Due) \in SUBSET Keys /\ Due \in SUBSET (Due \cup Received)
    BY <2>1, WorldStays DEF Late, Due
  <2> QED
    BY <2>1, <2>2, <2>3, ReadKeeps DEF Read
<1>3. CASE TurnToPoll
  <2>1. /\ UNCHANGED <<task, verdicts, issues, row, bound>>
        /\ UNCHANGED <<appr, control, touched, world, faults>>
        /\ job' = [IdleJob EXCEPT !.at = "poll", !.todo = Received, !.late = Late(Received)]
    BY <1>3 DEF TurnToPoll, books
  <2>2. job' = [at |-> "poll", key |-> NoKey, todo |-> Received, late |-> Late(Received),
                got |-> "none", lock |-> FALSE, base |-> <<>>]
    BY <2>1 DEF IdleJob
  <2>3. WorldOK' /\ Late(Received) \in SUBSET Keys /\ Received \in SUBSET (Due \cup Received)
    BY <2>1, WorldStays DEF Late, Received
  <2> QED
    BY <2>1, <2>2, <2>3, ReadKeeps DEF Read
<1>4. CASE TickDone
  <2>1. /\ UNCHANGED <<task, verdicts, issues, row, bound>>
        /\ UNCHANGED <<appr, control, touched, world, faults>>
        /\ job' = IdleJob
    BY <1>4 DEF TickDone, books
  <2>2. job' = [at |-> "idle", key |-> NoKey, todo |-> {}, late |-> {},
                got |-> "none", lock |-> FALSE, base |-> <<>>]
    BY <2>1 DEF IdleJob
  <2>3. WorldOK' /\ {} \in SUBSET Keys /\ {} \in SUBSET (Due \cup Received) /\ {} \subseteq Due
    BY <2>1, WorldStays
  <2> QED
    BY <2>1, <2>2, <2>3, ReadKeeps DEF Read
<1>5. CASE TickAborts
  <2>1. WorldOK'
    BY <1>1, <1>5, BoundAssumption DEF TickAborts, WorldOK, world
  <2> QED
    BY <1>5, <2>1 DEF TickAborts
<1>6. ASSUME NEW k \in Keys, SettlePoll(k)
      PROVE  (Served(k) /\ Turned(k)) \/ (Undo /\ WorldOK' /\ job' = IdleJob)
  <2>1. job.at = "polled"
    BY <1>6 DEF SettlePoll
  <2>2. CASE row[k].st = "received" /\ job.got = "lost"
    <3>1. Undo /\ UNCHANGED run /\ job' = IdleJob /\ UNCHANGED <<appr, control, touched, asked, faults>>
      BY <1>6, <2>2 DEF SettlePoll
    <3> QED
      BY <3>1, WorldStays DEF world
  <2> QED
    BY <1>6, <2>1, <2>2, SettlePollServes
<1>7. ASSUME NEW k \in Keys,
             \/ Revoked(k) \/ Expire(k) \/ Skip(k) \/ Claim(k) \/ SendFast(k) \/ SendDirect(k)
             \/ Settle(k) \/ PollFails(k)
      PROVE  Served(k) /\ Turned(k)
  BY <1>7, RevokedServes, ExpireServes, SkipServes, ClaimServes, SendFastServes, SendDirectServes,
     SettleServes, PollFailsServes
<1>8. ASSUME NEW k \in Keys, Poll(k) PROVE Served(k) /\ Turned(k)
  <2>1. /\ UNCHANGED <<task, verdicts, issues, row, bound>>
        /\ UNCHANGED <<appr, control, touched, world, faults>>
    BY <1>8 DEF Poll, books
  <2> QED
    BY <1>1, <1>8, <2>1, WorldStays, PollTurns, IdleServes, Ready
<1> QED
  BY <1>2, <1>3, <1>4, <1>5, <1>6, <1>7, <1>8 DEF Runtime, Observing

\* Every other step is granted.
LEMMA OtherIs == ASSUME IndInv, Environment \/ Request PROVE Granted
<1>1. CASE Environment
  BY <1>1, RunChanges, DeadlineGranted DEF Environment
<1>2. CASE Request
  <2>1. ASSUME NEW t \in Tasks, \E some \in (SUBSET Team[t]) \ {{}} : Deliver(t, some)
        PROVE  Granted
    BY <2>1, DeliverGranted
  <2>2. ASSUME NEW t \in Tasks, \E v \in {"PASS", "FAIL"} : QaVerdict(t, v) PROVE Granted
    BY <2>2, QaVerdictGranted
  <2>3. ASSUME NEW t \in Tasks,
               \/ Approve(t) \/ Reject(t) \/ RunTask(t) \/ ApproveExecute(t)
               \/ EnterQA(t) \/ SendBack(t) \/ Renew(t) \/ Halt(t)
               \/ Complete(t) \/ RejectCompletion(t) \/ ResumeQa(t)
               \/ Revalidate(t) \/ RecoverQa(t) \/ StopTask(t) \/ LoseApproval(t)
        PROVE  Granted
    BY <2>3, ApproveGranted, RejectGranted, RunTaskGranted, ApproveExecuteGranted, EnterQAGranted,
       SendBackGranted, RenewGranted, HaltGranted, CompleteGranted, RejectCompletionGranted,
       ResumeQaGranted, ReopenGranted, StopTaskGranted, LoseApprovalGranted
  <2>4. ASSUME NEW k \in Keys, Retry(k) \/ StopAck(k) PROVE Granted
    BY <2>4, RetryGranted, StopAckGranted
  <2> QED
    BY <1>2, <2>1, <2>2, <2>3, <2>4, StopProjectGranted, ResumeGranted DEF Request
<1> QED
  BY <1>1, <1>2

LEMMA StepKeeps == ASSUME IndInv, [Next]_vars PROVE IndInv'
<1>1. CASE Runtime
  BY <1>1, RuntimeIs, ServedKeeps, UndoKeeps DEF Read
<1>2. CASE Environment \/ Request
  BY <1>2, OtherIs, GrantedKeeps
<1>3. CASE UNCHANGED vars
  <2>1. WorldOK'
    BY <1>3, WorldStays DEF vars, books
  <2>2. Granted
    BY <1>3, <2>1, QuietRequest DEF vars, books
  <2> QED
    BY <2>2, GrantedKeeps
<1> QED
  BY <1>1, <1>2, <1>3 DEF Next

LEMMA InitHolds == ASSUME Init PROVE IndInv
<1>1. /\ MaxRev \in Nat /\ MaxRev >= 1 /\ MaxCycle \in Nat /\ MaxFaults \in Nat
  BY BoundAssumption
<1>2. job = [at |-> "idle", key |-> NoKey, todo |-> {}, late |-> {}, got |-> "none",
             lock |-> FALSE, base |-> <<>>]
  BY DEF Init, IdleJob
<1>3. WorldOK /\ JobOK /\ Seen = Stored
  <2>1. JobOK /\ Seen = Stored
    BY <1>2 DEF JobOK, Receipts, Seen
  <2> QED
    BY <1>1, <2>1 DEF Init, WorldOK
<1>4. Stored \in Snapshots
  <2>1. NoRow \in Row
    BY FreshRows
  <2>2. /\ status \in [Tasks -> Statuses] /\ rev \in [Tasks -> 1..(MaxRev + 1)]
        /\ cycle \in [Tasks -> 0..(MaxCycle + MaxRev + 1)]
        /\ recovered = {} /\ verdicts = {} /\ issues = {} /\ row \in [Keys -> Row]
        /\ bound \in [Tasks -> [Agents \cup {Reviewer} -> 0..MaxRev]]
    BY <1>1, <2>1 DEF Init, Statuses
  <2> QED
    BY <2>2 DEF Stored, Snapshots, Row
<1>5. \A k \in Keys : row[k].st = "absent" /\ row[k].says = "none"
  BY FreshRows DEF Init
<1>6. \A t \in Tasks : status[t] = "awaiting_approval" /\ rev[t] = 1 /\ cycle[t] = 0
  BY DEF Init
<1>7. Sound(Stored)
  <2>1. \A k \in Keys : RowTrue(Stored, k)
    BY <1>5, StoredIs DEF RowTrue
  <2>2. \A t \in Tasks : TaskTrue(Stored, t)
    BY <1>1, <1>6, StoredIs DEF TaskTrue, Checked
  <2>3. Stored.verdicts = {}
    BY StoredIs DEF Init
  <2> QED
    BY <1>4, <1>5, <2>1, <2>2, <2>3, StoredIs DEF Sound, Active
<1>8. \A t \in Tasks : Once(Seen, Stored, t)
  BY <1>3 DEF Once
<1> QED
  BY <1>2, <1>3, <1>4, <1>6, <1>7, <1>8, TypeIs DEF IndInv

\* Every reachable state satisfies the inductive invariant, the one an abandoned tick
\* falls back to included.
THEOREM Invariance == Spec => []IndInv
<1>1. Init => IndInv
  BY InitHolds
<1>2. IndInv /\ [Next]_vars => IndInv'
  BY StepKeeps
<1> QED
  BY <1>1, <1>2, PTL DEF Spec

\* Type correctness: revisions stay within one more than is executed, cycles within what
\* the revisions allow, a delivery is never claimed beyond its attempts, and the thread
\* holds SQLite's lock exactly while there is something to fall back to.
THEOREM TypeCorrect == Spec => []TypeOK
<1>1. IndInv => TypeOK
  BY DEF IndInv
<1> QED
  BY <1>1, Invariance, PTL

\* process_due_deliveries never claims a delivery for an agent that has another under
\* way, on whatever task, and nothing else in the system makes a delivery active.
THEOREM OneActiveCorrect == Spec => []OneActivePerAgent
<1>1. IndInv => OneActivePerAgent
  BY Ready, StoredIs DEF Sound, OneActivePerAgent
<1> QED
  BY <1>1, Invariance, PTL

\* The deliveries of a task in QA, or completed: some, and all of them answered, unless
\* the revision was reopened.
LEMMA CheckedIsAnswered ==
    ASSUME IndInv, NEW t \in Tasks, status[t] \in Checked, ~Reopened(t)
    PROVE  Answered(t)
<1>1. Sound(Stored) /\ TaskTrue(Stored, t) /\ ~Reopens(Stored, t)
  BY Ready, StoredIs DEF Sound, Reopens, Reopened
<1>2. PICK k \in Keys : TaskOf(k) = t /\ OfTask(Stored, k) /\ AgentOf(k) # Reviewer
                        /\ row[k].st # "absent"
  BY <1>1, StoredIs DEF TaskTrue
<1>3. k \in TeamRows(t, rev[t])
  BY <1>2, KeyFacts, StoredIs DEF TeamRows, RowsOf, OfTask
<1>4. ASSUME NEW j \in TeamRows(t, rev[t]) PROVE row[j].st = "responded"
  <2>1. j \in Keys /\ TaskOf(j) = t /\ OfTask(Stored, j) /\ AgentOf(j) # Reviewer
        /\ row[j].st # "absent"
    BY TeamFacts, StoredIs DEF TeamRows, RowsOf, OfTask
  <2> QED
    BY <1>1, <2>1, StoredIs DEF Sound, RowTrue
<1> QED
  BY <1>3, <1>4 DEF Answered

\* A task enters QA, by _apply_collaboration_outcome or transition_task, on answers that
\* are all in, and no late delivery, retry or resumed review takes one away; only
\* revalidate_task_result and recover_qa_rework put it there on other ground, on record
\* for that revision.
THEOREM QaCorrect == Spec => []QaMeansAnswered
<1>1. IndInv => QaMeansAnswered
  BY CheckedIsAnswered DEF QaMeansAnswered, Checked
<1> QED
  BY <1>1, Invariance, PTL

\* A completed task keeps the PASS its completion was accepted on, for the revision and
\* the cycle it is at, and what that PASS was about: the team's answers, or the saved run
\* that a stage recovery opened QA of this revision for.
THEOREM CompletedCorrect == Spec => []CompletedIsSigned
<1>1. ASSUME IndInv PROVE CompletedIsSigned
  <2>1. \A t \in Tasks : TaskTrue(Stored, t)
    BY <1>1, Ready DEF Sound
  <2> QED
    BY <1>1, <2>1, CheckedIsAnswered, StoredIs DEF CompletedIsSigned, TaskTrue, Checked
<1> QED
  BY <1>1, Invariance, PTL

\* A revision is executed once: whichever request starts a task, no delivery of its
\* revision exists, so that none is answered for another execution.
THEOREM ExecutedOnceCorrect == Spec => ExecutedOnce
<1>1. ASSUME IndInv, [Next]_vars, NEW t \in Tasks, Seen.status[t] # "running",
             Seen'.status[t] = "running"
      PROVE  RowsOf(t, rev[t]) = {}
  <2>1. status[t] # "running"
    BY <1>1 DEF IndInv
  <2>2. ~Runtime
    <3>1. SUFFICES ASSUME Runtime PROVE FALSE
      OBVIOUS
    <3>2. CASE \E k \in Keys : Served(k) /\ Turned(k)
      <4>1. PICK k \in Keys : Served(k) /\ Turned(k)
        BY <3>2
      <4>2. status'[t] # "running" /\ Seen' \in {Seen, Stored'}
        BY <1>1, <2>1, <4>1, ServedKeeps DEF Turned
      <4> QED
        BY <1>1, <4>2, StoredIsNext
    <3>3. CASE Undo /\ WorldOK' /\ job' = IdleJob
      BY <1>1, <3>3, UndoKeeps
    <3>4. CASE Read
      <4>1. status' = status /\ Seen' = Stored'
        BY <3>4 DEF Read, task
      <4> QED
        BY <1>1, <2>1, <4>1, StoredIsNext
    <3> QED
      BY <1>1, <3>1, <3>2, <3>3, <3>4, RuntimeIs
  <2>3. ~UNCHANGED vars
    <3>1. UNCHANGED vars => Seen' = Seen
      BY DEF vars, task, books, Seen, Stored
    <3> QED
      BY <1>1, <3>1
  <2>4. Granted
    BY <1>1, <2>2, <2>3, OtherIs DEF Next
  <2>5. status'[t] = "running"
    BY <1>1, <2>4, GrantedKeeps, StoredIsNext
  <2>6. status[t] \in {"awaiting_approval", "approved"}
    BY <2>1, <2>4, <2>5
    DEF Granted, Plain!Step, Plain!Same, Plain!Decide, Plain!Execute, Plain!Answer, Plain!Accept,
        Plain!Refuse, Plain!Halt, Plain!Stop, Plain!Reopen, Plain!Reconsider, Plain!To
  <2>7. ASSUME NEW k \in RowsOf(t, rev[t]) PROVE FALSE
    <3>1. k \in Keys /\ TaskOf(k) = t /\ RevOf(k) = rev[t] /\ row[k].st # "absent"
      BY DEF RowsOf
    <3>2. RevOf(k) \in Nat /\ Reached(Stored, k)
      BY <1>1, <3>1, KeyFacts, PresentIsReached, Ready
    <3> QED
      BY <2>6, <3>1, <3>2, StoredIs DEF Reached, OfTask, Executed, Closed
  <2> QED
    BY <2>7
<1>2. IndInv /\ [Next]_vars => [\A t \in Tasks : Seen.status[t] # "running" /\ Seen'.status[t] = "running"
                                  => RowsOf(t, rev[t]) = {}]_vars
  BY <1>1
<1> QED
  BY <1>2, Invariance, PTL DEF Spec, ExecutedOnce

\* A step of the thread moves a task only when it settles a delivery of the revision the
\* task is at, or finds that delivery overdue or its agent's admission revoked.
THEOREM RuntimeMovesCurrentCorrect == Spec => RuntimeMovesCurrent
<1> DEFINE MovesCurrent ==
        Writes => \A t \in Tasks : <<status[t], rev[t]>>' # <<status[t], rev[t]>> =>
            \E k \in Keys : /\ TaskOf(k) = t /\ RevOf(k) = rev[t]
                            /\ \/ row'[k].st # row[k].st
                               \/ job.at = "due" /\ k \in job.todo
                                  /\ (k \in job.late \/ AgentOf(k) \in Revocable)
<1>1. ASSUME IndInv, Runtime, job'.at # "idle", NEW t \in Tasks, ~Unmoved(t)
      PROVE  \E k \in Keys : /\ TaskOf(k) = t /\ RevOf(k) = rev[t]
                             /\ \/ row'[k].st # row[k].st
                                \/ job.at = "due" /\ k \in job.todo
                                   /\ (k \in job.late \/ AgentOf(k) \in Revocable)
  <2>1. ~Read
    BY <1>1 DEF Read, Unmoved, task
  <2>2. job' # IdleJob
    BY <1>1 DEF IdleJob
  <2>3. PICK k \in Keys : Served(k) /\ Turned(k)
    BY <1>1, <2>1, <2>2, RuntimeIs
  <2>4. t = TaskOf(k) /\ OfTask(Stored, k)
    BY <1>1, <2>3 DEF Served, TaskStays, Unmoved
  <2> QED
    BY <1>1, <2>3, <2>4, StoredIs DEF Served, OfTask
<1>2. IndInv /\ [Next]_vars => [MovesCurrent]_vars
  BY <1>1 DEF Writes, Unmoved
<1> QED
  BY <1>2, Invariance, PTL DEF Spec, RuntimeMovesCurrent

\* A step that commits, as the contract sees it.
LEMMA OnceFollows ==
    ASSUME NEW t \in Tasks, Once(Seen, Stored', t), Seen' = Stored'
    PROVE  Contract!Step(t) \/ Contract!Same(t)
BY DEF Once, Contract!Step, Contract!Same, Contract!Kept, Contract!Answer, Contract!Refuse,
       Contract!To, Contract!Renewed

LEMMA PlainFollows ==
    ASSUME NEW t \in Tasks, Plain!Step(t) \/ Plain!Same(t), Seen = Stored, Seen' = Stored'
    PROVE  Contract!Step(t) \/ Contract!Same(t)
<1>1. Seen.status = status /\ Seen.rev = rev /\ Seen'.status = status' /\ Seen'.rev = rev'
  BY StoredIs, StoredIsNext
<1> QED
  BY <1>1
  DEF Plain!Step, Plain!Same, Plain!Kept, Plain!Decide, Plain!Execute, Plain!Answer, Plain!Accept,
      Plain!Refuse, Plain!Halt, Plain!Stop, Plain!Reopen, Plain!Reconsider, Plain!To, Plain!Renewed,
      Contract!Step, Contract!Same, Contract!Kept, Contract!Decide, Contract!Execute,
      Contract!Answer, Contract!Accept, Contract!Refuse, Contract!Halt, Contract!Stop,
      Contract!Reopen, Contract!Reconsider, Contract!To, Contract!Renewed

LEMMA ContractStep ==
    ASSUME IndInv, AutoQa, [Next]_vars
    PROVE  \A t \in Tasks : Contract!Step(t) \/ Contract!Same(t)
<1>1. ASSUME Seen'.status = Seen.status, Seen'.rev = Seen.rev
      PROVE  \A t \in Tasks : Contract!Same(t)
  BY <1>1 DEF Contract!Same, Contract!Kept
<1>2. CASE Runtime
  <2>1. CASE \E k \in Keys : Served(k) /\ Turned(k)
    <3>1. PICK k \in Keys : Served(k) /\ Turned(k)
      BY <2>1
    <3>2. /\ \A t \in Tasks : Once(Seen, Stored', t)
          /\ Seen' = Seen \/ Seen' = Stored'
      BY <3>1, ServedKeeps DEF Turned
    <3> QED
      BY <1>1, <3>2, OnceFollows
  <2>2. CASE Undo /\ WorldOK' /\ job' = IdleJob
    BY <1>1, <2>2, UndoKeeps
  <2>3. CASE Read
    <3>1. Seen' = Stored' /\ Stored' = Stored
      BY <2>3 DEF Read, Stored, task
    <3>2. \A t \in Tasks : Once(Seen, Stored', t)
      BY <3>1 DEF IndInv
    <3> QED
      BY <3>1, <3>2, OnceFollows
  <2> QED
    BY <1>2, <2>1, <2>2, <2>3, RuntimeIs
<1>3. CASE Environment \/ Request
  <2>1. Granted
    BY <1>3, OtherIs
  <2>2. (job.lock => Seen' = Seen) /\ (~job.lock => Seen = Stored /\ Seen' = Stored')
    BY <2>1, GrantedKeeps
  <2> QED
    BY <1>1, <2>1, <2>2, PlainFollows DEF Granted
<1>4. CASE UNCHANGED vars
  <2>1. Seen' = Seen
    BY <1>4 DEF vars, task, books, Seen, Stored
  <2> QED
    BY <1>1, <2>1
<1> QED
  BY <1>2, <1>3, <1>4 DEF Next

\* The delivery loop implements the task contract, for tasks of the Fast Gateway that only
\* the automatic review judges: what everybody else sees of a task follows the contract's
\* order of statuses and revisions, though the thread commits several writes at once and
\* abandons others.  (The answers of a direct session may conflict after its task was
\* stopped, and a verdict signed by hand may complete a task whose automatic review is
\* still out: the contract does not hold for them.)
THEOREM ContractCorrect == ASSUME AutoQa PROVE Spec => TasksKeepContract
<1>1. ASSUME Init PROVE Contract!Init
  <2>1. Seen = Stored
    BY <1>1 DEF Init, IdleJob, Seen
  <2> QED
    BY <1>1, <2>1, StoredIs DEF Init, Contract!Init
<1>2. IndInv /\ [Next]_vars => [Contract!Next]_<<Seen.status, Seen.rev>>
  BY ContractStep DEF Contract!Next
<1> QED
  BY <1>1, <1>2, Invariance, PTL DEF Spec, TasksKeepContract, Contract!Spec

(********************* what nothing outside disturbs *********************)

\* What requests and the world do to runs: none starts, and a cancelled one stays so.
RunsKept == \A k \in Keys : FastRun(k) =>
    /\ run[k] = "cancelled" => run'[k] = "cancelled"
    /\ run[k] # "running" => run'[k] # "running"

LEMMA StopKeepsRuns ==
    ASSUME IndInv, NEW confirmed, run' = Aborted(confirmed)
    PROVE  RunsKept
BY WorldParts DEF RunsKept, Aborted

LEMMA OthersKeepRuns == ASSUME IndInv, Environment \/ Request PROVE RunsKept
<1>1. ASSUME UNCHANGED run PROVE RunsKept
  BY <1>1 DEF RunsKept
<1>2. CASE Environment
  <2>1. ASSUME NEW k \in Keys, RunEnds(k) \/ CancelRun(k) PROVE RunsKept
    BY <2>1, WorldParts DEF RunEnds, CancelRun, RunsKept
  <2>2. ASSUME NEW k \in Keys, DeadlinePasses(k) PROVE RunsKept
    BY <1>1, <2>2 DEF DeadlinePasses, world
  <2> QED
    BY <1>2, <2>1, <2>2 DEF Environment
<1>3. ASSUME NEW t \in Tasks, ResumeQa(t) PROVE RunsKept
  <2>1. run' = [run EXCEPT ![QAKey(t)] = "none"] /\ AgentOf(QAKey(t)) = Reviewer
    BY <1>3 DEF ResumeQa, QAKey, AgentOf
  <2>2. \A k \in Keys : FastRun(k) => k # QAKey(t)
    BY <2>1 DEF FastRun
  <2> HIDE DEF QAKey
  <2> QED
    BY <2>1, <2>2, WorldParts DEF RunsKept
<1>4. ASSUME NEW t \in Tasks, StopTask(t) PROVE RunsKept
  <2>1. \E confirmed : run' = Aborted(confirmed)
    BY <1>4 DEF StopTask, StopDeliveries
  <2> QED
    BY <2>1, StopKeepsRuns
<1>5. ASSUME StopProject PROVE RunsKept
  <2>1. \E confirmed : run' = Aborted(confirmed)
    BY <1>5 DEF StopProject, StopDeliveries
  <2> QED
    BY <2>1, StopKeepsRuns
<1>6. CASE Request
  <2>1. ASSUME NEW t \in Tasks,
               \/ Approve(t) \/ Reject(t) \/ RunTask(t) \/ ApproveExecute(t)
               \/ \E some \in (SUBSET Team[t]) \ {{}} : Deliver(t, some)
               \/ EnterQA(t) \/ SendBack(t) \/ Renew(t) \/ Halt(t)
               \/ \E v \in {"PASS", "FAIL"} : QaVerdict(t, v)
               \/ Complete(t) \/ RejectCompletion(t) \/ LoseApproval(t)
        PROVE  UNCHANGED run
    BY <2>1 DEF Approve, Reject, RunTask, ApproveExecute, Deliver, EnterQA, SendBack, Renew, Halt,
                QaVerdict, Complete, RejectCompletion, LoseApproval, Untouched, world
  <2>4. ASSUME NEW t \in Tasks, Revalidate(t) \/ RecoverQa(t) PROVE UNCHANGED run
    BY <2>4 DEF Revalidate, RecoverQa, Untouched, world
  <2>2. ASSUME NEW k \in Keys, Retry(k) \/ StopAck(k) PROVE UNCHANGED run
    BY <2>2 DEF Retry, StopAck, Untouched, world
  <2>3. Resume => UNCHANGED run
    BY DEF Resume, Untouched, world
  <2> QED
    BY <1>1, <1>3, <1>4, <1>5, <1>6, <2>1, <2>2, <2>3, <2>4 DEF Request
<1> QED
  BY <1>2, <1>6

\* What the thread has heard stays true while it is out.
LEMMA HeardKept ==
    ASSUME RunsKept, UNCHANGED job, \A k \in Keys : HeardTrue(k)
    PROVE  \A k \in Keys : HeardTrue(k)'
BY DEF RunsKept, HeardTrue, FastRun

\* A task that runs has been running, or starts now, with no delivery yet.
LEMMA RunningWas ==
    ASSUME IndInv, Granted, NEW t \in Tasks, status'[t] = "running"
    PROVE  /\ rev'[t] = rev[t]
           /\ \/ status[t] = "running"
              \/ \A k \in Keys : TaskOf(k) = t /\ RevOf(k) = rev[t] => row[k].st = "absent"
<1>1. /\ rev'[t] = rev[t] /\ status[t] \in {"running", "awaiting_approval", "approved"}
  BY DEF Granted, Plain!Step, Plain!Same, Plain!Decide, Plain!Execute, Plain!Answer, Plain!Accept,
         Plain!Refuse, Plain!Halt, Plain!Stop, Plain!Reopen, Plain!Reconsider, Plain!To, Plain!Kept
<1>2. ASSUME status[t] # "running", NEW k \in Keys, TaskOf(k) = t, RevOf(k) = rev[t],
             row[k].st # "absent"
      PROVE  FALSE
  <2>1. RevOf(k) \in Nat /\ Reached(Stored, k)
    BY <1>2, KeyFacts, PresentIsReached, Ready
  <2> QED
    BY <1>1, <1>2, <2>1, StoredIs DEF Reached, OfTask, Executed, Closed
<1> QED
  BY <1>1, <1>2

\* What they do to the deliveries of a task that runs: more are queued, none is settled, no
\* issue is resolved and no run cancelled.
Gentle ==
    /\ \A i \in issues : status'[i[1]] = "running" => i \in issues'
    /\ \A k \in Keys :
          /\ OfTask(Stored', k) /\ status'[TaskOf(k)] = "running" => row'[k].st \in {row[k].st, "queued"}
          /\ row'[k].st \in Active => row'[k].st = row[k].st
          /\ FastRun(k) /\ run'[k] = "cancelled" /\ run[k] # "cancelled"
             => status'[TaskOf(k)] # "running" /\ ~job.lock

LEMMA GentleDrives ==
    ASSUME IndInv, Granted, Gentle, NEW t \in Tasks, Driven(Stored, t)
    PROVE  Driven(Stored', t)
<1>1. SUFFICES ASSUME status'[t] = "running" PROVE Driven(Stored', t)
  BY StoredIsNext DEF Driven
<1>2. /\ rev'[t] = rev[t]
      /\ \/ status[t] = "running"
         \/ \A k \in Keys : TaskOf(k) = t /\ RevOf(k) = rev[t] => row[k].st = "absent"
  BY <1>1, RunningWas
<1>3. \A k \in Keys : TaskOf(k) = t /\ RevOf(k) = rev[t] => row'[k].st \in {row[k].st, "queued"}
  BY <1>1, <1>2, StoredIsNext DEF Gentle, OfTask
<1>4. \A i \in issues : i[1] = t => i \in issues'
  BY <1>1 DEF Gentle
<1>5. \A k \in Keys : (OfTask(Stored', k) <=> OfTask(Stored, k)) \/ TaskOf(k) # t
  BY <1>2, StoredIs, StoredIsNext DEF OfTask
<1>6. CASE status[t] = "running"
  <2>1. ASSUME NEW k \in Keys, TaskOf(k) = t, RevOf(k) = rev[t], row'[k].st \notin {"absent", "responded"}
        PROVE  row'[k].st \in Live \/ <<t, rev[t], k>> \in issues'
    <3>1. CASE row'[k].st = "queued"
      BY <3>1 DEF Live
    <3>2. CASE row'[k].st = row[k].st
      <4>1. row[k].st \in Live \/ <<t, rev[t], k>> \in issues
        BY <1>6, <2>1, <3>2, StoredIs DEF Driven, OfTask
      <4> QED
        BY <1>4, <3>2, <4>1
    <3> QED
      BY <1>3, <2>1, <3>1, <3>2
  <2>2. ASSUME NEW k \in Keys, TaskOf(k) = t, RevOf(k) = rev[t], row'[k].st # "absent",
               \A j \in Keys : TaskOf(j) = t /\ RevOf(j) = rev[t] => row'[j].st \in {"absent", "responded"}
        PROVE  \E i \in issues' : i[1] = t /\ i[2] = rev[t]
    <3>1. \A j \in Keys : TaskOf(j) = t /\ RevOf(j) = rev[t] => row'[j].st = row[j].st
      BY <1>3, <2>2
    <3>2. \E i \in issues : i[1] = t /\ i[2] = rev[t]
      BY <1>6, <2>2, <3>1, StoredIs DEF Driven, OfTask
    <3> QED
      BY <1>4, <3>2
  <2> QED
    BY <1>2, <2>1, <2>2, StoredIsNext DEF Driven, OfTask
<1>7. CASE \A k \in Keys : TaskOf(k) = t /\ RevOf(k) = rev[t] => row[k].st = "absent"
  <2>1. \A k \in Keys : TaskOf(k) = t /\ RevOf(k) = rev[t] => row'[k].st \in {"absent", "queued"}
    BY <1>3, <1>7
  <2> QED
    BY <1>2, <2>1, StoredIsNext DEF Driven, OfTask, Live
<1> QED
  BY <1>2, <1>6, <1>7

LEMMA GentleAwaits ==
    ASSUME IndInv, Granted, Gentle, NEW k \in Keys, Awaited(Stored, k)
    PROVE  Awaited(Stored, k)'
<1>1. SUFFICES ASSUME FastRun(k), RevOf(k) = rev'[TaskOf(k)], status'[TaskOf(k)] = "running",
                      row'[k].st = "received" \/ (row'[k].st = "sent" /\ Heeded(k)),
                      run'[k] = "cancelled"
               PROVE  FALSE
  BY StoredIsNext DEF Awaited, OfTask, FastRun, Heeded, Granted
<1>2. TaskOf(k) \in Tasks /\ row'[k].st = row[k].st /\ run[k] = "cancelled"
  BY <1>1, KeyFacts DEF Gentle, Active
<1>3. rev[TaskOf(k)] = rev'[TaskOf(k)] /\ status[TaskOf(k)] = "running"
  BY <1>1, <1>2, RunningWas
<1> QED
  BY <1>1, <1>2, <1>3, StoredIs DEF Awaited, OfTask

LEMMA StopIsGentle ==
    ASSUME IndInv, NEW ts \in SUBSET Tasks, NEW confirmed \in SUBSET LiveOf(ts),
           StopDeliveries(ts, confirmed), ~job.lock, UNCHANGED issues,
           \A t \in ts : status'[t] # "running"
    PROVE  Gentle
<1>1. /\ \A k \in Keys : TaskOf(k) \notin ts => row'[k] = row[k]
      /\ \A k \in Keys : row'[k].st \in Active => row'[k].st = row[k].st
  <2>1. /\ row \in [Keys -> Row] /\ row' = StopRows(LiveOf(ts), confirmed)
    BY Ready DEF StopDeliveries
  <2>2. ASSUME NEW k \in Keys
        PROVE  row'[k] \in {row[k], [row[k] EXCEPT !.st = "stopped"], [row[k] EXCEPT !.st = "failed"]}
    BY <2>1 DEF StopRows
  <2>3. \A k \in Keys : row[k] \in Row
    BY <2>1
  <2> QED
    BY <2>2, <2>3, StopFacts DEF Row, Active
<1>2. ASSUME NEW k \in Keys, run'[k] = "cancelled", run[k] # "cancelled"
      PROVE  TaskOf(k) \in ts
  <2>1. PICK c \in confirmed : StopTarget(c) = k
    BY <1>2, WorldParts DEF StopDeliveries, Aborted
  <2>2. TaskOf(c) \in ts /\ TaskOf(k) = TaskOf(c)
    BY <2>1 DEF LiveOf, StopTarget, TaskOf
  <2> QED
    BY <2>2
<1>3. ASSUME NEW k \in Keys, OfTask(Stored', k), status'[TaskOf(k)] = "running"
      PROVE  row'[k].st \in {row[k].st, "queued"}
  BY <1>1, <1>3
<1> QED
  BY <1>1, <1>2, <1>3 DEF Gentle

LEMMA ExecuteIsGentle ==
    ASSUME IndInv, Undisturbed, NEW t \in Tasks, ApproveExecute(t)
    PROVE  Gentle
<1> DEFINE own   == {<<t, a, rev[t]>> : a \in Team[t]}
           stale == {k \in Keys : AgentOf(k) \in Team[t] /\ row[k].st \in Live /\ row[k].late}
<1>1. /\ ~job.lock /\ status[t] = "awaiting_approval"
      /\ row' = [k \in Keys |-> CASE k \in own   -> NewRow
                                  [] k \in stale -> [row[k] EXCEPT !.st = "timed_out"]
                                  [] OTHER       -> row[k]]
      /\ UNCHANGED <<rev, issues, run>>
  BY DEF ApproveExecute, Asks, Moves, Untouched, world
<1>2. row \in [Keys -> Row] /\ Sound(Stored)
  BY Ready
<1>3. ASSUME NEW k \in Keys
      PROVE  /\ row'[k].st \in {row[k].st, "queued", "timed_out"}
             /\ row'[k].st = "timed_out" => row[k].st = "timed_out" \/ k \in stale
  <2> HIDE DEF own, stale
  <2>1. row[k] \in Row /\ NewRow.st = "queued"
    BY <1>2, FreshRows
  <2> QED
    BY <1>1, <2>1 DEF Row
<1>4. ASSUME NEW k \in Keys, OfTask(Stored', k), status'[TaskOf(k)] = "running", k \in stale
      PROVE  FALSE
  <2>1. /\ TaskOf(k) \in Tasks /\ AgentOf(k) \in Team[TaskOf(k)] /\ AgentOf(k) \in Team[t]
        /\ row[k].st # "absent"
    BY <1>4, KeyFacts, TeamFacts DEF Live, Active
  <2>2. TaskOf(k) = t
    BY <2>1 DEF Undisturbed
  <2>3. OfTask(Stored, k) /\ RevOf(k) \in Nat /\ Reached(Stored, k)
    BY <1>1, <1>2, <1>4, <2>1, KeyFacts, PresentIsReached, StoredIs, StoredIsNext DEF OfTask
  <2> QED
    BY <1>1, <2>2, <2>3, StoredIs DEF Reached, OfTask, Executed, Closed
<1>5. \A k \in Keys : row'[k].st \in Active => row'[k].st = row[k].st
  BY <1>3 DEF Active
<1> QED
  BY <1>1, <1>3, <1>4, <1>5 DEF Gentle

\* Requests that leave deliveries, runs and issues alone.
LEMMA StillIsGentle == ASSUME UNCHANGED <<row, run, issues>> PROVE Gentle
BY DEF Gentle

LEMMA OthersAreGentle ==
    ASSUME IndInv, Undisturbed, Environment \/ Request
    PROVE  Gentle
<1>1. CASE Environment
  <2>1. ASSUME NEW k \in Keys, RunEnds(k) PROVE Gentle
    <3>1. UNCHANGED <<row, issues>> /\ \A j \in Keys : run'[j] = "cancelled" => run[j] = "cancelled"
      BY <2>1, WorldParts DEF RunEnds
    <3> QED
      BY <3>1 DEF Gentle
  <2>2. ASSUME NEW k \in Keys, CancelRun(k) PROVE Gentle
    BY <2>2 DEF CancelRun, Undisturbed
  <2>3. ASSUME NEW k \in Keys, DeadlinePasses(k) PROVE Gentle
    <3>1. /\ row' = [row EXCEPT ![k].late = TRUE] /\ UNCHANGED <<run, issues>>
          /\ row \in [Keys -> Row]
      BY <2>3, Ready DEF DeadlinePasses, world
    <3>2. \A j \in Keys : row'[j].st = row[j].st
      BY <3>1 DEF Row
    <3> QED
      BY <3>1, <3>2 DEF Gentle
  <2> QED
    BY <1>1, <2>1, <2>2, <2>3 DEF Environment
<1>2. CASE Request
  <2>1. ASSUME NEW t \in Tasks,
               \/ Approve(t) \/ Reject(t) \/ RunTask(t)
               \/ EnterQA(t) \/ SendBack(t) \/ Renew(t) \/ Halt(t)
               \/ \E v \in {"PASS", "FAIL"} : QaVerdict(t, v)
               \/ Complete(t) \/ RejectCompletion(t) \/ LoseApproval(t)
        PROVE  Gentle
    <3>1. UNCHANGED <<row, run, issues>>
      BY <2>1 DEF Approve, Reject, RunTask, EnterQA, SendBack, Renew, Halt,
                  QaVerdict, Complete, RejectCompletion, LoseApproval, Untouched, world
    <3> QED
      BY <3>1, StillIsGentle
  <2>2. ASSUME NEW k \in Keys, StopAck(k) PROVE Gentle
    BY <2>2, StillIsGentle DEF StopAck, Untouched, world
  <2>3. Resume => Gentle
    BY StillIsGentle DEF Resume, Untouched, world
  <2>4. ASSUME NEW t \in Tasks, NEW some \in SUBSET Team[t], Deliver(t, some) PROVE Gentle
    <3>1. /\ UNCHANGED <<run, issues>>
          /\ row' = Fresh({<<t, a, rev[t]>> : a \in some}) /\ row \in [Keys -> Row]
      BY <2>4, Ready DEF Deliver, Untouched, world
    <3>2. \A k \in Keys : row'[k] = row[k] \/ row'[k] = NewRow
      BY <3>1 DEF Fresh
    <3>3. \A k \in Keys : row'[k].st \in {row[k].st, "queued"}
      BY <3>2, FreshRows
    <3> QED
      BY <3>1, <3>3 DEF Gentle, Active
  <2>5. ASSUME NEW k \in Keys, Retry(k) PROVE Gentle
    <3>1. /\ UNCHANGED <<run, issues>> /\ row \in [Keys -> Row]
          /\ row' = [row EXCEPT ![k].st = "queued", ![k].tries = 0]
      BY <2>5, Ready DEF Retry, Untouched, world
    <3>2. \A j \in Keys : row'[j].st \in {row[j].st, "queued"}
      BY <3>1 DEF Row
    <3> QED
      BY <3>1, <3>2 DEF Gentle, Active
  <2>6. ASSUME NEW t \in Tasks, ResumeQa(t) PROVE Gentle
    <3> DEFINE q == QAKey(t)
    <3>1. /\ status[t] = "qa" /\ UNCHANGED <<status, rev>>
          /\ row' \in {[row EXCEPT ![q] = NewRow], [row EXCEPT ![q] = NoRow]}
          /\ \A i \in issues : i[1] # t => i \in issues'
          /\ run' = [run EXCEPT ![q] = "none"]
      BY <2>6 DEF ResumeQa, Mark
    <3>2. TaskOf(q) = t /\ row \in [Keys -> Row] /\ run \in [Keys -> {"none", "running"} \cup Ended]
      BY Ready, WorldParts DEF QAKey, TaskOf
    <3> HIDE DEF q
    <3>3. \A k \in Keys : row'[k] = row[k] \/ (TaskOf(k) = t /\ row'[k].st \in {"queued", "absent"})
      BY <3>1, <3>2, FreshRows
    <3>4. \A k \in Keys : run'[k] = "cancelled" => run[k] = "cancelled"
      BY <3>1, <3>2
    <3> QED
      BY <3>1, <3>3, <3>4 DEF Gentle, Active
  <2>9. ASSUME NEW t \in Tasks, Revalidate(t) \/ RecoverQa(t) PROVE Gentle
    <3>1. /\ status'[t] = "qa" /\ run' = run /\ \A i \in issues : i[1] # t => i \in issues'
          /\ \A k \in Keys : \/ row'[k] = row[k]
                             \/ TaskOf(k) = t /\ row'[k].st \in {"queued", "failed"}
      BY <2>9, QaIsReopened, FreshRows
    <3> QED
      BY <3>1 DEF Gentle, Active
  <2>7. ASSUME NEW t \in Tasks, StopTask(t) PROVE Gentle
    <3>1. PICK confirmed \in SUBSET LiveOf({t}) :
            /\ ~job.lock /\ StopDeliveries({t}, confirmed) /\ UNCHANGED issues
            /\ \E final \in {"stopped", "stop_unconfirmed"} : status' = [status EXCEPT ![t] = final]
      BY <2>7 DEF StopTask, Asks
    <3>2. status'[t] # "running"
      BY <3>1, StoredTypes, Ready
    <3> QED
      BY <3>1, <3>2, StopIsGentle
  <2>8. StopProject => Gentle
    <3>1. SUFFICES ASSUME StopProject PROVE Gentle
      OBVIOUS
    <3>2. PICK confirmed \in SUBSET LiveOf(Tasks) :
            /\ ~job.lock /\ StopDeliveries(Tasks, confirmed) /\ UNCHANGED issues
            /\ \A t \in Tasks : status'[t] # "running"
      BY <3>1 DEF StopProject, Asks
    <3> QED
      BY <3>2, StopIsGentle
  <2> QED
    BY <1>2, <2>1, <2>2, <2>3, <2>4, <2>5, <2>6, <2>7, <2>8, <2>9, ExecuteIsGentle DEF Request
<1> QED
  BY <1>1, <1>2

LEMMA OthersDrive ==
    ASSUME IndInv, Undisturbed, DrivenInv, Environment \/ Request
    PROVE  DrivenInv'
<1>1. Granted /\ Gentle /\ RunsKept /\ UNCHANGED job
  BY OtherIs, OthersAreGentle, OthersKeepRuns DEF Granted
<1>2. (job.lock => Seen' = Seen) /\ (~job.lock => Seen' = Stored')
  BY <1>1, GrantedKeeps
<1>3. \A k \in Keys : HeardTrue(k)'
  BY <1>1, HeardKept DEF DrivenInv
<1>4. /\ \A t \in Tasks : Driven(Stored, t) /\ Driven(Seen, t)
      /\ \A k \in Keys : Awaited(Stored, k) /\ Awaited(Seen, k)
  BY DEF DrivenInv
<1>5. /\ \A t \in Tasks : Driven(Stored', t)
      /\ \A k \in Keys : Awaited(Stored, k)'
  BY <1>1, <1>4, GentleDrives, GentleAwaits
<1>6. CASE ~job.lock
  <2>1. (\A t \in Tasks : Driven(Seen', t)) /\ \A k \in Keys : Awaited(Seen, k)'
    BY <1>2, <1>5, <1>6 DEF Awaited
  <2> QED
    BY <1>3, <1>5, <2>1 DEF DrivenInv, Driven
<1>7. CASE job.lock
  <2>1. \A t \in Tasks : Driven(Seen', t)
    BY <1>2, <1>4, <1>7
  <2>2. \A k \in Keys : FastRun(k) /\ run'[k] = "cancelled" => run[k] = "cancelled"
    BY <1>1, <1>7 DEF Gentle
  <2>3. \A k \in Keys : Awaited(Seen, k)'
    BY <1>1, <1>2, <1>4, <1>7, <2>2 DEF Awaited, FastRun, Heeded
  <2> QED
    BY <1>3, <1>5, <2>1, <2>3 DEF DrivenInv, Driven
<1> QED
  BY <1>6, <1>7

\* What serving k does to deliveries and issues: others change only when their task is
\* refused; k stays live, leaves an issue, or is answered, and if it was the last answer
\* there is an issue too.
Drives(k) ==
    /\ \A i \in issues : i \in issues' \/ i = <<TaskOf(k), RevOf(k), k>>
    /\ \A j \in Keys \ {k} : status'[TaskOf(j)] = "running" => row'[j].st = row[j].st
    /\ OfTask(Stored, k) /\ status'[TaskOf(k)] = "running" =>
          \/ row'[k].st \in Live
          \/ <<TaskOf(k), RevOf(k), k>> \in issues'
          \/ /\ row'[k].st = "responded"
             /\ \/ \E i \in issues' : i[1] = TaskOf(k) /\ i[2] = RevOf(k)
                \/ \E j \in Keys : /\ TaskOf(j) = TaskOf(k) /\ RevOf(j) = RevOf(k)
                                   /\ row'[j].st \notin {"absent", "responded"}

LEMMA ServedDrives ==
    ASSUME IndInv, NEW k \in Keys, Served(k), Drives(k), NEW t \in Tasks, Driven(Stored, t)
    PROVE  Driven(Stored', t)
<1>1. SUFFICES ASSUME status'[t] = "running" PROVE Driven(Stored', t)
  BY StoredIsNext DEF Driven
<1>2. status[t] = "running" /\ rev'[t] = rev[t]
  BY <1>1 DEF Served, TaskStays, ToQA, Refused
<1>3. \A j \in Keys \ {k} : TaskOf(j) = t => row'[j].st = row[j].st
  BY <1>1 DEF Drives
<1>4. TaskOf(k) = t /\ RevOf(k) = rev[t] => OfTask(Stored, k)
  BY StoredIs DEF OfTask
<1>5. ASSUME NEW j \in Keys, TaskOf(j) = t, RevOf(j) = rev[t], row'[j].st \notin {"absent", "responded"}
      PROVE  row'[j].st \in Live \/ <<t, rev[t], j>> \in issues'
  <2>1. CASE j = k
    BY <1>1, <1>4, <1>5, <2>1 DEF Drives
  <2>2. CASE j # k
    <3>1. row[j].st \in Live \/ <<t, rev[t], j>> \in issues
      BY <1>2, <1>3, <1>5, <2>2, StoredIs DEF Driven, OfTask
    <3>2. <<t, rev[t], j>> # <<TaskOf(k), RevOf(k), k>>
      BY <2>2
    <3> QED
      BY <1>3, <1>5, <2>2, <3>1, <3>2 DEF Drives
  <2> QED
    BY <2>1, <2>2
<1>6. ASSUME NEW n \in Keys, TaskOf(n) = t, RevOf(n) = rev[t], row'[n].st # "absent",
             \A j \in Keys : TaskOf(j) = t /\ RevOf(j) = rev[t] => row'[j].st \in {"absent", "responded"}
      PROVE  \E i \in issues' : i[1] = t /\ i[2] = rev[t]
  <2>1. CASE TaskOf(k) = t /\ RevOf(k) = rev[t] /\ row'[k].st # "absent"
    <3>1. row'[k].st = "responded"
      BY <1>6, <2>1
    <3>2. \/ <<TaskOf(k), RevOf(k), k>> \in issues'
          \/ \E i \in issues' : i[1] = TaskOf(k) /\ i[2] = RevOf(k)
      BY <1>1, <1>4, <1>6, <2>1, <3>1 DEF Drives, Live, Active
    <3> QED
      BY <2>1, <3>2
  <2>2. CASE ~(TaskOf(k) = t /\ RevOf(k) = rev[t])
    <3>1. \A j \in Keys : TaskOf(j) = t /\ RevOf(j) = rev[t] => row'[j].st = row[j].st
      BY <1>3, <2>2
    <3>2. PICK i \in issues : i[1] = t /\ i[2] = rev[t]
      BY <1>2, <1>6, <3>1, StoredIs DEF Driven, OfTask
    <3>3. i # <<TaskOf(k), RevOf(k), k>>
      BY <2>2, <3>2
    <3> QED
      BY <3>2, <3>3 DEF Drives
  <2>3. CASE TaskOf(k) = t /\ RevOf(k) = rev[t] /\ row'[k].st = "absent"
    <3>1. <<t, rev[t], k>> \in issues'
      BY <1>1, <1>4, <2>3 DEF Drives, Live, Active
    <3> QED
      BY <3>1
  <2> QED
    BY <2>1, <2>2, <2>3
<1> QED
  BY <1>2, <1>5, <1>6, StoredIsNext DEF Driven, OfTask

\* A step of the thread that serves k and is not out for an answer afterwards.
LEMMA ThreadDrives ==
    ASSUME IndInv, DrivenInv, NEW k \in Keys, Served(k), Turned(k), Drives(k) \/ Stored' = Stored,
           job'.at \notin {"sent", "polled"},
           row'[k].st = "received" => row[k].st = "received" \/ (row[k].st = "sent" /\ Heeded(k)),
           \A j \in Keys : run'[j] = "cancelled" =>
               run[j] = "cancelled" \/ (~job'.lock /\ row'[j].st \notin Active)
    PROVE  DrivenInv'
<1>1. /\ \A t \in Tasks : Driven(Stored, t) /\ Driven(Seen, t)
      /\ \A j \in Keys : Awaited(Stored, j) /\ Awaited(Seen, j)
  BY DEF DrivenInv
<1>2. \A j \in Keys : HeardTrue(j)' /\ ~Heeded(j)'
  BY DEF HeardTrue, Heeded
<1>3. \A t \in Tasks : Driven(Stored', t)
  BY <1>1, ServedDrives
<1>4. ASSUME NEW j \in Keys PROVE Awaited(Stored, j)'
  <2>1. SUFFICES ASSUME FastRun(j), RevOf(j) = rev'[TaskOf(j)], status'[TaskOf(j)] = "running",
                        row'[j].st = "received", run'[j] = "cancelled"
                 PROVE  FALSE
    BY <1>2, StoredIsNext DEF Awaited, OfTask, FastRun
  <2>2. TaskOf(j) \in Tasks /\ run[j] = "cancelled"
    BY <2>1, KeyFacts DEF Active
  <2>3. status[TaskOf(j)] = "running" /\ rev[TaskOf(j)] = rev'[TaskOf(j)]
    BY <2>1, <2>2 DEF Served, TaskStays, ToQA, Refused
  <2>4. row[j].st = "received" \/ (row[j].st = "sent" /\ Heeded(j))
    BY <2>1, StoredIs, StoredIsNext DEF Drives
  <2> QED
    BY <1>1, <2>1, <2>2, <2>3, <2>4, StoredIs DEF Awaited, OfTask
<1>5. CASE ~job'.lock
  <2>1. Seen' = Stored'
    BY <1>5 DEF Turned
  <2>2. (\A t \in Tasks : Driven(Seen', t)) /\ \A j \in Keys : Awaited(Seen, j)'
    BY <1>3, <1>4, <2>1 DEF Awaited
  <2> QED
    BY <1>2, <1>3, <1>4, <2>2 DEF DrivenInv, Driven
<1>6. CASE job'.lock
  <2>1. Seen' = Seen /\ \A j \in Keys : run'[j] = "cancelled" => run[j] = "cancelled"
    BY <1>6 DEF Turned
  <2>2. \A j \in Keys : Awaited(Seen, j)'
    BY <1>1, <1>2, <2>1 DEF Awaited, FastRun
  <2>3. \A t \in Tasks : Driven(Seen', t)
    BY <1>1, <2>1
  <2> QED
    BY <1>2, <1>3, <1>4, <2>2, <2>3 DEF DrivenInv, Driven
<1> QED
  BY <1>5, <1>6

\* A delivery that fails leaves an issue, or its task is refused, or does not run.
LEMMA FailureDrives ==
    ASSUME IndInv, NEW k \in Keys, NEW rows, NEW soft, Settled(rows),
           TerminalFailure(k, rows, soft), UNCHANGED verdicts, bound' \in Bounds,
           \A j \in Keys \ {k} : rows[j] = row[j], row[k].st # "absent"
    PROVE  /\ Drives(k)
           /\ row'[k] = rows[k]
           /\ \A j \in Keys \ {k} : row'[j].st = row[j].st \/ row'[j].st = "failed"
<1>1. /\ row'[k] = rows[k]
      /\ \A j \in Keys : row'[j].st # rows[j].st => status'[TaskOf(j)] = "rework_required"
  BY FailureIsLawful, Ready
<1>2. TaskOf(k) \in Tasks /\ status \in [Tasks -> Statuses]
  BY KeyFacts, StoredTypes, Ready
<1>3. issues \subseteq issues'
  BY DEF TerminalFailure, Mark
<1>4. OfTask(Stored, k) /\ status'[TaskOf(k)] = "running" => <<TaskOf(k), RevOf(k), k>> \in issues'
  <2>1. SUFFICES ASSUME RevOf(k) = rev[TaskOf(k)], status'[TaskOf(k)] = "running"
                 PROVE  <<TaskOf(k), RevOf(k), k>> \in issues'
    BY StoredIs DEF OfTask
  <2>2. CASE ~Current(k)
    BY <1>2, <2>1, <2>2 DEF TerminalFailure, task, Current, Closed
  <2>3. CASE Current(k)
    <3>1. status'[TaskOf(k)] # "rework_required"
      BY <2>1
    <3>2. issues' = Mark(TaskOf(k), k)
      BY <1>2, <2>3, <3>1 DEF TerminalFailure, Rework, task
    <3> QED
      BY <2>1, <3>2 DEF Mark
  <2> QED
    BY <2>2, <2>3
<1>5. \A j \in Keys \ {k} : row'[j].st = row[j].st \/ row'[j].st = "failed"
  <2>1. \A j \in Keys : rows[j] \in Row
    BY DEF Settled
  <2>2. \A j \in Keys : row'[j] = rows[j] \/ row'[j] = [rows[j] EXCEPT !.st = "failed"]
    BY DEF TerminalFailure
  <2> QED
    BY <2>1, <2>2 DEF Row
<1>6. \A j \in Keys \ {k} : status'[TaskOf(j)] = "running" => row'[j].st = row[j].st
  BY <1>1
<1> QED
  BY <1>1, <1>3, <1>4, <1>5, <1>6 DEF Drives

\* An answer leaves another delivery to wait for, takes the task on, or leaves an issue.
LEMMA AnswerDrives ==
    ASSUME IndInv, NEW k \in Keys, NEW v \in {"none", "PASS", "FAIL"},
           row[k].st = "received", FastRun(k) => v = "none",
           AfterResponded(k, [row EXCEPT ![k].st = "responded", ![k].says = v]), bound' \in Bounds
    PROVE  /\ Drives(k)
           /\ row'[k].st = "responded"
           /\ \A j \in Keys \ {k} : row'[j] = row[j] \/ row[j].st = "absent"
<1> DEFINE rows == [row EXCEPT ![k].st = "responded", ![k].says = v]
           t == TaskOf(k)
<1>1. /\ row'[k].st = "responded"
      /\ \A j \in Keys \ {k} : row'[j] = row[j] \/ row[j].st = "absent"
      /\ \A u \in Tasks : \/ TaskStays(u)
                          \/ u = t /\ OfTask(Stored, k) /\ (ToQA(u) \/ Refused(u))
  BY AnswerIsLawful, Ready
<1>2. t \in Tasks /\ status \in [Tasks -> Statuses] /\ row \in [Keys -> Row] /\ row[k] \in Row
      /\ rows[k].st = "responded" /\ \A j \in Keys \ {k} : rows[j] = row[j]
      /\ DOMAIN rows = Keys
  BY KeyFacts, StoredTypes, Ready DEF Row
<1> HIDE DEF rows
<1>3. AfterResponded(k, rows)
  BY DEF rows
<1>4. Resolved(k) \subseteq issues'
  <2>1. \A q, open : QueueReview(q, rows, open) => open \subseteq issues'
    BY DEF QueueReview
  <2>2. ReviewVerdict(k, rows) => Resolved(k) \subseteq issues'
    BY DEF ReviewVerdict
  <2>3. Collaboration(k, rows) => Resolved(k) \subseteq issues'
    BY <2>1 DEF Collaboration
  <2> QED
    BY <1>3, <2>2, <2>3 DEF AfterResponded
<1>5. ASSUME NEW j \in Keys \ {k}, status'[TaskOf(j)] = "running", row'[j].st # row[j].st
      PROVE  FALSE
  <2>1. row' # rows
    BY <1>2, <1>5
  <2>2. Collaboration(k, rows) /\ rev[t] = RevOf(k)
    BY <1>3, <2>1 DEF AfterResponded, ReviewVerdict
  <2>3. \E open : QueueReview(QAKey(t), rows, open) /\ status'[t] = "qa"
    BY <1>2, <2>1, <2>2 DEF Collaboration, task
  <2>4. j = QAKey(t)
    BY <1>2, <1>5, <2>3 DEF QueueReview
  <2> QED
    BY <1>5, <2>3, <2>4 DEF QAKey, TaskOf
<1>6. ASSUME RevOf(k) = rev[t], status'[t] = "running"
      PROVE  \/ \E i \in issues' : i[1] = t /\ i[2] = RevOf(k)
             \/ \E j \in Keys : /\ TaskOf(j) = t /\ RevOf(j) = RevOf(k)
                                /\ row'[j].st \notin {"absent", "responded"}
  <2>1. status[t] = "running" /\ ~IsReview(k)
    BY <1>1, <1>2, <1>6 DEF TaskStays, ToQA, Refused, IsReview
  <2>2. CASE Pending(k, rows)
    <3>1. PICK j \in TeamRows(t, RevOf(k)) : rows[j].st # "responded"
      BY <2>2 DEF Pending
    <3>2. j \in Keys \ {k} /\ TaskOf(j) = t /\ RevOf(j) = RevOf(k) /\ row[j].st \notin {"absent", "responded"}
      BY <1>2, <3>1 DEF TeamRows, RowsOf
    <3>3. row'[j] = row[j]
      BY <1>1, <3>2
    <3> QED
      BY <3>2, <3>3
  <2>3. CASE ~Pending(k, rows) /\ Collaboration(k, rows)
    <3>1. Conflicts(k, rows) \cap {TRUE, FALSE} # {}
      BY DEF Conflicts
    <3>2. status'[t] \in {"rework_required", "qa"}
      BY <1>2, <2>1, <2>3, <3>1 DEF Collaboration, Rework
    <3> QED
      BY <1>6, <3>2
  <2>4. CASE issues' = Resolved(k) \cup {<<t, rev[t], NoKey>>}
    <3>1. <<t, rev[t], NoKey>> \in issues'
      BY <2>4
    <3> QED
      BY <1>6, <3>1
  <2> QED
    BY <1>3, <1>6, <2>1, <2>2, <2>3, <2>4 DEF AfterResponded
<1>7. \A i \in issues : i \in issues' \/ i = <<TaskOf(k), RevOf(k), k>>
  BY <1>4 DEF Resolved
<1>8. \A j \in Keys \ {k} : status'[TaskOf(j)] = "running" => row'[j].st = row[j].st
  BY <1>5
<1> QED
  BY <1>1, <1>6, <1>7, <1>8, StoredIs DEF Drives, OfTask

\* What serving k does to runs and to what waits for them: nothing starts; a run is
\* cancelled with its delivery; a delivery is put off or stopped only without a run.
Resting == {"absent", "queued", "stopped"}
Calm(k) ==
    /\ job'.at \notin {"sent", "polled"}
    /\ row'[k].st = "received" => row[k].st = "received" \/ (row[k].st = "sent" /\ Heeded(k))
    /\ \A j \in Keys : run'[j] = "cancelled" =>
           run[j] = "cancelled" \/ (~job'.lock /\ row'[j].st \notin Active)
    /\ \A j \in Keys : FastRun(j) /\ run'[j] = "running" =>
           run[j] = "running" /\ (row'[j].st \in Resting => row[j].st \in Resting)

LEMMA DropLeaves ==
    ASSUME JobOK, NEW k, NEW lock \in BOOLEAN, Drop(k, lock)
    PROVE  job'.at \notin {"sent", "polled"} /\ job'.lock = lock
BY DEF Drop, JobOK

LEMMA StoredStays ==
    ASSUME UNCHANGED <<task, verdicts, issues, row, bound>> PROVE Stored' = Stored
BY DEF Stored, task

LEMMA FailureIsCalm ==
    ASSUME IndInv, NEW k \in Keys, NEW st \in {"failed", "timed_out"}, NEW rows, NEW soft,
           Settled(rows), rows[k].st \in {st, row[k].st}, \A j \in Keys \ {k} : rows[j] = row[j],
           TerminalFailure(k, rows, soft), UNCHANGED <<verdicts, run>>, bound' \in Bounds,
           row[k].st # "absent", job'.at \notin {"sent", "polled"}
    PROVE  Calm(k) /\ Drives(k)
<1>1. /\ Drives(k) /\ row'[k] = rows[k]
      /\ \A j \in Keys \ {k} : row'[j].st = row[j].st \/ row'[j].st = "failed"
  BY FailureDrives
<1> QED
  BY <1>1 DEF Calm, Resting

LEMMA RevokedIsCalm ==
    ASSUME IndInv, NEW k \in Keys, Revoked(k)
    PROVE  Calm(k) /\ Drives(k)
<1> DEFINE rows == IF row[k].st = "queued" THEN With(k, "failed") ELSE row
<1>1. /\ k \in job.todo /\ TerminalFailure(k, rows, IsReview(k)) /\ Drop(k, FALSE)
      /\ UNCHANGED <<verdicts, bound, run>>
  BY DEF Revoked, books, world
<1>2. Sound(Stored) /\ JobOK /\ row[k].st # "absent" /\ bound' \in Bounds
  BY <1>1, Ready DEF Carried
<1>3. /\ Settled(rows) /\ \A j \in Keys \ {k} : rows[j] = row[j]
      /\ rows[k].st \in {"failed", row[k].st}
  BY <1>2, WithSettles, RowsAreSettled
<1>4. job'.at \notin {"sent", "polled"}
  BY <1>1, <1>2, DropLeaves
<1> HIDE DEF rows
<1> QED
  BY <1>1, <1>2, <1>3, <1>4, FailureIsCalm

LEMMA ExpireIsCalm ==
    ASSUME IndInv, NEW k \in Keys, Expire(k)
    PROVE  Calm(k) /\ Drives(k)
<1>1. /\ job.at = "due" /\ k \in job.todo
      /\ TerminalFailure(k, With(k, "timed_out"), IsReview(k)) /\ Drop(k, TRUE)
      /\ UNCHANGED <<verdicts, bound, run>>
  BY DEF Expire, books, world
<1>2. Sound(Stored) /\ JobOK /\ row[k].st \notin {"absent", "responded"} /\ bound' \in Bounds
  BY <1>1, Ready DEF Carried
<1>3. /\ Settled(With(k, "timed_out")) /\ With(k, "timed_out")[k].st = "timed_out"
      /\ \A j \in Keys \ {k} : With(k, "timed_out")[j] = row[j]
  BY <1>2, WithSettles
<1>4. job'.at \notin {"sent", "polled"}
  BY <1>1, <1>2, DropLeaves
<1> QED
  BY <1>1, <1>2, <1>3, <1>4, FailureIsCalm

LEMMA SkipIsCalm ==
    ASSUME IndInv, NEW k \in Keys, Skip(k)
    PROVE  Calm(k) /\ Stored' = Stored
<1>1. /\ Drop(k, TRUE) \/ Drop(k, FALSE)
      /\ UNCHANGED <<task, verdicts, issues, row, bound, run>>
  BY DEF Skip, books, world
<1>2. job'.at \notin {"sent", "polled"}
  BY <1>1, Ready, DropLeaves
<1> QED
  BY <1>1, <1>2, StoredStays DEF Calm

LEMMA ClaimIsCalm ==
    ASSUME IndInv, NEW k \in Keys, Claim(k)
    PROVE  Calm(k) /\ Drives(k)
<1>1. /\ row' = With(k, "sent") /\ job'.at = "claimed" /\ UNCHANGED <<issues, run>>
      /\ row \in [Keys -> Row]
  BY Ready DEF Claim, JobOK, world
<1>2. /\ row'[k].st = "sent" /\ \A j \in Keys \ {k} : row'[j] = row[j]
  BY <1>1 DEF With, Row
<1> QED
  BY <1>1, <1>2 DEF Calm, Drives, Resting, Live, Active

LEMMA SettleIsCalm ==
    ASSUME IndInv, NEW k \in Keys, Settle(k), HeardTrue(k)
    PROVE  Calm(k) /\ (Drives(k) \/ Stored' = Stored)
<1> DEFINE Rows(st) == [row EXCEPT ![k].st = st, ![k].tries = row[k].tries + 1,
                                   ![k].id = @ \/ job.got = "received"]
<1>1. job.at = "sent" /\ job.key = k /\ Drop(k, TRUE) /\ UNCHANGED run
  BY DEF Settle, world
<1>2. /\ Sound(Stored) /\ JobOK /\ bound \in Bounds /\ row \in [Keys -> Row] /\ row[k] \in Row
      /\ MaxTries \in Nat
  BY Ready
<1>3. job'.at \notin {"sent", "polled"}
  BY <1>1, <1>2, DropLeaves
<1>4. CASE row[k].st # "sent"
  <2>1. UNCHANGED <<task, verdicts, issues, row, bound>>
    BY <1>4 DEF Settle, Unsettled
  <2> QED
    BY <1>1, <1>3, <2>1, StoredStays DEF Calm
<1>5. CASE row[k].st = "sent"
  <2>1. \A st : Rows(st)[k].st = st /\ \A j \in Keys \ {k} : Rows(st)[j] = row[j]
    BY <1>2 DEF Row
  <2>2. \/ job.got = "received" /\ row' = Rows("received") /\ UNCHANGED <<task, issues>>
        \/ job.got # "received" /\ row' = Rows("queued") /\ UNCHANGED <<task, issues>>
        \/ /\ job.got \in {"failed", "timed_out"}
           /\ \E soft \in BOOLEAN : TerminalFailure(k, Rows(job.got), soft)
    BY <1>5 DEF Settle
  <2>3. bound' \in Bounds /\ UNCHANGED verdicts
    BY <1>2, <1>5, PersistedTypes DEF Settle
  <2>4. ASSUME NEW st \in {"failed", "timed_out"} PROVE Settled(Rows(st))
    <3> DEFINE known == row[k].id \/ job.got = "received"
               r == [row[k] EXCEPT !.st = st, !.tries = @ + 1, !.id = known]
    <3>1. row[k].tries < MaxTries /\ (FastRun(k) => row[k].says = "none")
      BY <1>2, <1>5, RowFacts
    <3>2. known \in BOOLEAN /\ row[k].tries + 1 \in 0..MaxTries /\ st \in RowStatuses
      BY <1>2, <3>1 DEF Row, RowStatuses
    <3>3. Rows(st) = [row EXCEPT ![k] = r]
      BY <1>2 DEF Row
    <3> HIDE DEF known, Rows
    <3>4. r \in Row /\ r.st = st /\ r.says = row[k].says
      BY <1>2, <3>2 DEF Row
    <3> HIDE DEF r
    <3>5. Settled([row EXCEPT ![k] = r])
      BY <1>2, <1>5, <3>1, <3>4, OneRowSettles DEF Active
    <3> QED
      BY <3>3, <3>5
  <2> HIDE DEF Rows
  <2>5. CASE job.got = "received" /\ row' = Rows("received") /\ UNCHANGED <<task, issues>>
    <3>1. row'[k].st = "received" /\ \A j \in Keys \ {k} : row'[j] = row[j]
      BY <2>1, <2>5
    <3> QED
      BY <1>1, <1>3, <1>5, <2>5, <3>1 DEF Calm, Drives, Heeded, Resting, Live, Active
  <2>6. CASE job.got # "received" /\ row' = Rows("queued") /\ UNCHANGED <<task, issues>>
    <3>1. row'[k].st = "queued" /\ \A j \in Keys \ {k} : row'[j] = row[j]
      BY <2>1, <2>6
    <3>2. FastRun(k) => run[k] # "running"
      BY <1>1, <2>6 DEF HeardTrue
    <3> QED
      BY <1>1, <1>3, <2>6, <3>1, <3>2 DEF Calm, Drives, Live
  <2>7. CASE /\ job.got \in {"failed", "timed_out"}
             /\ \E soft \in BOOLEAN : TerminalFailure(k, Rows(job.got), soft)
    BY <1>1, <1>3, <1>5, <2>1, <2>3, <2>4, <2>7, FailureIsCalm
  <2> QED
    BY <2>2, <2>5, <2>6, <2>7
<1> QED
  BY <1>4, <1>5

LEMMA PollFailsIsCalm ==
    ASSUME IndInv, NEW k \in Keys, PollFails(k)
    PROVE  Calm(k) /\ Drives(k)
<1>1. /\ Drop(k, FALSE) /\ UNCHANGED <<row, run>>
      /\ issues' = IF rev[TaskOf(k)] = RevOf(k) THEN Mark(TaskOf(k), k) ELSE issues
  BY DEF PollFails, world
<1>2. job'.at \notin {"sent", "polled"}
  BY <1>1, Ready, DropLeaves
<1>3. OfTask(Stored, k) => <<TaskOf(k), RevOf(k), k>> \in issues'
  BY <1>1, StoredIs DEF OfTask, Mark
<1>4. issues \subseteq issues'
  BY <1>1 DEF Mark
<1> QED
  BY <1>1, <1>2, <1>3, <1>4 DEF Calm, Drives

\* A poll's answer: a run is reported stopped only when it was cancelled.
LEMMA SettlePollIsCalm ==
    ASSUME IndInv, NEW k \in Keys, SettlePoll(k), HeardTrue(k),
           row[k].st # "received" \/ job.got # "lost"
    PROVE  /\ Calm(k)
           /\ \/ Drives(k) \/ Stored' = Stored
              \/ /\ row[k].st = "received" /\ run[k] = "cancelled" /\ FastRun(k)
                 /\ row' = With(k, "stopped") /\ UNCHANGED <<task, issues>>
<1> DEFINE answer == IF FastRun(k) THEN {"none"} ELSE {"PASS", "FAIL"}
<1>1. /\ job.at = "polled" /\ job.key = k
      /\ Sound(Stored) /\ JobOK /\ bound \in Bounds /\ row \in [Keys -> Row] /\ row[k] \in Row
      /\ job.lock \in BOOLEAN /\ run \in [Keys -> {"none", "running"} \cup Ended]
  BY Ready, WorldParts DEF SettlePoll
<1>2. (IF FastRun(k) THEN Persisted({k}) ELSE bound) \in Bounds
  BY <1>1, PersistedTypes
<1>3. \E lock \in BOOLEAN : Drop(k, lock)
  BY <1>1 DEF SettlePoll
<1>4. job'.at \notin {"sent", "polled"}
  BY <1>1, <1>3, DropLeaves
<1>5. CASE row[k].st # "received"
  <2>1. UNCHANGED <<task, verdicts, issues, row, bound, run>>
    BY <1>5 DEF SettlePoll, Unsettled
  <2> QED
    BY <1>4, <2>1, StoredStays DEF Calm
<1>6. ASSUME row[k].st = "received", NEW st \in {"failed", "timed_out"}
      PROVE  /\ Settled(With(k, st)) /\ With(k, st)[k].st = st
             /\ \A j \in Keys \ {k} : With(k, st)[j] = row[j]
  BY <1>1, <1>6, WithSettles
<1>7. CASE row[k].st = "received" /\ job.got = "received" /\ UNCHANGED <<row, run>>
           /\ issues' \in {Resolved(k), Mark(TaskOf(k), k)}
  BY <1>4, <1>7 DEF Calm, Drives, Resolved, Mark, Live, Active
<1>8. CASE /\ row[k].st = "received" /\ run' = Aborted({k}) /\ Drop(k, FALSE)
           /\ TerminalFailure(k, With(k, "timed_out"), IsReview(k)) /\ UNCHANGED <<bound, verdicts>>
  <2>1. /\ Drives(k) /\ row'[k].st = "timed_out"
        /\ \A j \in Keys \ {k} : row'[j].st = row[j].st \/ row'[j].st = "failed"
    BY <1>1, <1>6, <1>8, FailureDrives
  <2>2. ~job'.lock
    BY <1>1, <1>8, DropLeaves
  <2>3. ASSUME NEW j \in Keys, run'[j] = "cancelled", run[j] # "cancelled"
        PROVE  row'[j].st \notin Active
    <3>1. j = StopTarget(k)
      BY <1>1, <1>8, <2>3 DEF Aborted
    <3>2. AgentOf(j) = AgentOf(k)
      BY <3>1 DEF StopTarget, AgentOf
    <3>3. j = k \/ row[j].st \notin Active
      BY <1>1, <1>8, <3>2, StoredIs DEF Sound, Active
    <3> QED
      BY <2>1, <3>3 DEF Active
  <2>4. \A j \in Keys : run'[j] = "running" => run[j] = "running"
    BY <1>1, <1>8 DEF Aborted
  <2> QED
    BY <1>4, <1>8, <2>1, <2>2, <2>3, <2>4 DEF Calm, Resting
<1>9. CASE /\ row[k].st = "received" /\ UNCHANGED <<verdicts, run>> /\ bound' \in Bounds
           /\ \E st \in {"failed", "timed_out"} : \E soft : TerminalFailure(k, With(k, st), soft)
  BY <1>1, <1>4, <1>6, <1>9, FailureIsCalm
<1>10. CASE /\ row[k].st = "received" /\ row' = With(k, "stopped") /\ job.got = "stopped"
            /\ UNCHANGED <<task, issues, run>>
  <2>1. run[k] = "cancelled" /\ FastRun(k)
    BY <1>1, <1>10 DEF HeardTrue
  <2>2. row'[k].st = "stopped" /\ \A j \in Keys \ {k} : row'[j] = row[j]
    BY <1>1, <1>10, WithSettles
  <2> QED
    BY <1>4, <1>10, <2>1, <2>2 DEF Calm
<1>11. CASE /\ row[k].st = "received" /\ UNCHANGED run /\ bound' \in Bounds
            /\ \E v \in answer : AfterResponded(k, [row EXCEPT ![k].st = "responded", ![k].says = v])
  <2>1. PICK v \in answer : AfterResponded(k, [row EXCEPT ![k].st = "responded", ![k].says = v])
    BY <1>11
  <2>2. /\ Drives(k) /\ row'[k].st = "responded"
        /\ \A j \in Keys \ {k} : row'[j] = row[j] \/ row[j].st = "absent"
    BY <1>11, <2>1, AnswerDrives
  <2> QED
    BY <1>4, <1>11, <2>2 DEF Calm, Resting
<1>12. CASE row[k].st = "received"
  <2> HIDE DEF answer
  <2>1. CASE job.got = "received" /\ k \notin job.late
    BY <1>7, <1>12, <2>1 DEF SettlePoll
  <2>2. CASE job.got = "received" /\ k \in job.late
    BY <1>7, <1>8, <1>12, <2>2 DEF SettlePoll
  <2>3. CASE job.got \in {"failed", "timed_out"}
    BY <1>2, <1>9, <1>12, <2>3 DEF SettlePoll
  <2>4. CASE job.got = "stopped"
    BY <1>10, <1>12, <2>4 DEF SettlePoll
  <2>5. CASE job.got = "responded"
    BY <1>2, <1>11, <1>12, <2>5 DEF SettlePoll, answer
  <2>6. job.got \in {"received", "failed", "timed_out", "stopped", "responded"}
    BY <1>12 DEF SettlePoll
  <2> QED
    BY <2>1, <2>2, <2>3, <2>4, <2>5, <2>6
<1> QED
  BY <1>5, <1>12

\* What is sent, and what is polled: only then the thread is out for an answer.
LEMMA SendFastHears ==
    ASSUME IndInv, NEW k \in Keys, SendFast(k)
    PROVE  /\ Stored' = Stored /\ Seen' = Stored' /\ job'.at = "sent" /\ job'.key = k
           /\ (job'.got = "received" <=> run'[k] = "running")
           /\ \A j \in Keys \ {k} : run'[j] = run[j]
           /\ run'[k] = "running" => run[k] = "running" \/ row[k].st = "sent"
           /\ run'[k] = "cancelled" => run[k] = "cancelled"
<1>1. /\ \E got \in {"received", "failed"} :
            Heard(FALSE, got) /\ (got = "received" <=> run'[k] = "running")
      /\ UNCHANGED <<task, verdicts, issues, row, bound>> /\ job.at = "claimed" /\ k = job.key
      /\ run' \in {run, [run EXCEPT ![k] = "running"], [run EXCEPT ![k] = "fail"]}
      /\ run'[k] = "running" => run[k] = "running" \/ row[k].st = "sent"
  BY WorldParts DEF SendFast, books, Authorized, Start, world, Ended
<1>2. Stored' = Stored
  BY <1>1, StoredStays
<1>3. /\ job'.at = "sent" /\ job'.key = k /\ (job'.got = "received" <=> run'[k] = "running")
      /\ job'.lock = FALSE
  BY <1>1, Ready DEF Heard, JobOK
<1> QED
  BY <1>1, <1>2, <1>3, WorldParts DEF Seen

LEMMA SendDirectHears ==
    ASSUME IndInv, NEW k \in Keys, SendDirect(k)
    PROVE  /\ Stored' = Stored /\ Seen' = Seen /\ job'.at = "sent" /\ job'.key = k /\ ~FastRun(k)
           /\ \A j \in Keys \ {k} : run'[j] = run[j]
<1>1. /\ \E got : Heard(TRUE, got)
      /\ UNCHANGED <<task, verdicts, issues, row, bound>> /\ job.at = "claimed" /\ k = job.key
      /\ run' \in {run, [run EXCEPT ![k] = "running"]} /\ ~FastLane(k)
  BY DEF SendDirect, books, Start, world
<1>2. Stored' = Stored
  BY <1>1, StoredStays
<1>3. job'.at = "sent" /\ job'.key = k /\ job'.lock = TRUE /\ job'.base = Base(TRUE)
  BY <1>1, Ready DEF Heard, JobOK
<1>4. ~FastRun(k)
  BY <1>1 DEF FastRun, FastLane, IsReview
<1> QED
  BY <1>1, <1>2, <1>3, <1>4, WorldParts DEF Seen, Base

LEMMA PollHears ==
    ASSUME IndInv, NEW k \in Keys, Poll(k)
    PROVE  /\ Stored' = Stored /\ Seen' = Seen /\ UNCHANGED run /\ job'.at = "polled" /\ job'.key = k
           /\ job'.got = "stopped" => FastRun(k) /\ run[k] = "cancelled"
<1>1. PICK got \in Replies(k) : job' = [job EXCEPT !.at = "polled", !.key = k, !.got = got]
  BY DEF Poll
<1>2. UNCHANGED <<task, verdicts, issues, row, bound, run>>
  BY DEF Poll, books, world
<1>3. got = "stopped" => FastRun(k) /\ run[k] = "cancelled"
  <2>1. run[k] \in {"none", "running", "pass", "fail", "cancelled"}
    BY WorldParts DEF Ended
  <2>2. CASE FastRun(k) /\ FastLane(k)
    BY <1>1, <2>1, <2>2 DEF Replies
  <2>3. CASE ~FastRun(k)
    BY <1>1, <2>3 DEF Replies
  <2>4. FastRun(k) => FastLane(k)
    BY DEF FastRun, FastLane, IsReview
  <2> QED
    BY <2>2, <2>3, <2>4
<1>4. /\ job'.at = "polled" /\ job'.key = k /\ job'.got = got
      /\ job'.lock = job.lock /\ job'.base = job.base
  BY <1>1, Ready DEF JobOK
<1> QED
  BY <1>2, <1>3, <1>4, StoredStays DEF Seen

\* An abandoned tick leaves what was committed, deadlines apart.
LEMMA UndoRestores ==
    ASSUME IndInv, Undo
    PROVE  /\ Stored'.status = Seen.status /\ Stored'.rev = Seen.rev /\ Stored'.issues = Seen.issues
           /\ \A k \in Keys : Stored'.row[k].st = Seen.row[k].st
<1>1. CASE ~job.lock
  BY <1>1 DEF Undo, Stored, Seen, task
<1>2. CASE job.lock
  <2>1. /\ status' = Seen.status /\ rev' = Seen.rev /\ issues' = Seen.issues
        /\ row' = [k \in Keys |-> [Seen.row[k] EXCEPT !.late = row[k].late]]
    BY <1>2 DEF Undo, Seen
  <2>2. Seen.row \in [Keys -> Row]
    BY Ready DEF Sound, Snapshots, Row
  <2>3. \A k \in Keys : row'[k].st = Seen.row[k].st
    <3>1. SUFFICES ASSUME NEW k \in Keys PROVE row'[k].st = Seen.row[k].st
      OBVIOUS
    <3>2. row'[k] = [Seen.row[k] EXCEPT !.late = row[k].late] /\ Seen.row[k] \in Row
      BY <2>1, <2>2
    <3> QED
      BY <3>2 DEF Row
  <2> QED
    BY <2>1, <2>3, StoredIsNext
<1> QED
  BY <1>1, <1>2

\* A step that only sends, polls or reads: it may start the run of a claimed delivery.
Listens ==
    /\ Stored' = Stored /\ Seen' \in {Seen, Stored'}
    /\ \A j \in Keys :
          /\ HeardTrue(j)'
          /\ FastRun(j) => /\ run'[j] = "cancelled" => run[j] = "cancelled"
                           /\ run'[j] = "running" => run[j] = "running"
                                                     \/ (row[j].st = "sent" /\ Seen' = Stored')
                           /\ Heeded(j)' => run'[j] # "cancelled"

\* The row of a run that was cancelled is stored as stopped.
StoresStop(k) ==
    /\ FastRun(k) /\ row[k].st = "received" /\ run[k] = "cancelled"
    /\ row' = With(k, "stopped") /\ UNCHANGED <<task, issues>>

LEMMA ReadListens ==
    ASSUME UNCHANGED <<task, verdicts, issues, row, bound, run>>, Seen' \in {Seen, Stored'},
           job'.at \notin {"sent", "polled"}
    PROVE  Listens
<1>1. Stored' = Stored
  BY StoredStays
<1>2. \A j \in Keys : HeardTrue(j)' /\ ~Heeded(j)'
  BY DEF HeardTrue, Heeded
<1> QED
  BY <1>1, <1>2 DEF Listens

LEMMA ThreadIs ==
    ASSUME IndInv, \A k \in Keys : HeardTrue(k), Runtime
    PROVE  \/ \E k \in Keys : /\ Served(k) /\ Turned(k) /\ Calm(k)
                              /\ Drives(k) \/ Stored' = Stored \/ StoresStop(k)
           \/ Undo /\ UNCHANGED run /\ job' = IdleJob
           \/ Listens
<1>1. CASE Tick \/ TurnToPoll \/ TickDone
  <2>1. /\ UNCHANGED <<task, verdicts, issues, row, bound, run>>
        /\ \/ \E at \in {"due", "poll"} : \E todo, late :
                 job' = [IdleJob EXCEPT !.at = at, !.todo = todo, !.late = late]
           \/ job' = IdleJob
    BY <1>1 DEF Tick, TurnToPoll, TickDone, books, world
  <2>2. job'.at \in {"due", "poll", "idle"} /\ job'.lock = FALSE
    <3>1. CASE \E at \in {"due", "poll"} : \E todo, late :
                   job' = [IdleJob EXCEPT !.at = at, !.todo = todo, !.late = late]
      <4>1. PICK at \in {"due", "poll"} : \E todo, late :
                job' = [at |-> at, key |-> NoKey, todo |-> todo, late |-> late, got |-> "none",
                        lock |-> FALSE, base |-> <<>>]
        BY <3>1 DEF IdleJob
      <4> QED
        BY <4>1
    <3>2. CASE job' = IdleJob
      BY <3>2 DEF IdleJob
    <3> QED
      BY <2>1, <3>1, <3>2
  <2>3. Seen' = Stored'
    BY <2>2 DEF Seen
  <2> QED
    BY <2>1, <2>2, <2>3, ReadListens
<1>2. CASE TickAborts
  BY <1>2 DEF TickAborts, world
<1>3. ASSUME NEW k \in Keys, Revoked(k) \/ Expire(k) \/ Skip(k) \/ Claim(k) \/ Settle(k) \/ PollFails(k)
      PROVE  Served(k) /\ Turned(k) /\ Calm(k) /\ (Drives(k) \/ Stored' = Stored)
  <2>1. Calm(k) /\ (Drives(k) \/ Stored' = Stored)
    BY <1>3, RevokedIsCalm, ExpireIsCalm, SkipIsCalm, ClaimIsCalm, SettleIsCalm, PollFailsIsCalm
  <2>2. Served(k) /\ Turned(k)
    BY <1>3, RevokedServes, ExpireServes, SkipServes, ClaimServes, SettleServes, PollFailsServes
  <2> QED
    BY <2>1, <2>2
<1>4. ASSUME NEW k \in Keys, SettlePoll(k)
      PROVE  \/ Served(k) /\ Turned(k) /\ Calm(k) /\ (Drives(k) \/ Stored' = Stored \/ StoresStop(k))
             \/ Undo /\ UNCHANGED run /\ job' = IdleJob
  <2>1. CASE row[k].st = "received" /\ job.got = "lost"
    BY <1>4, <2>1 DEF SettlePoll
  <2>2. CASE row[k].st # "received" \/ job.got # "lost"
    <3>1. job.at = "polled"
      BY <1>4 DEF SettlePoll
    <3> QED
      BY <1>4, <2>2, <3>1, SettlePollServes, SettlePollIsCalm DEF StoresStop
  <2> QED
    BY <2>1, <2>2
<1>5. ASSUME NEW k \in Keys, SendFast(k) PROVE Listens
  <2>1. /\ Stored' = Stored /\ Seen' = Stored' /\ job'.at = "sent" /\ job'.key = k
        /\ (job'.got = "received" <=> run'[k] = "running")
        /\ \A j \in Keys \ {k} : run'[j] = run[j]
        /\ run'[k] = "running" => run[k] = "running" \/ row[k].st = "sent"
        /\ run'[k] = "cancelled" => run[k] = "cancelled"
    BY <1>5, SendFastHears
  <2>2. \A j \in Keys : HeardTrue(j)' /\ (Heeded(j)' => run'[j] # "cancelled")
    BY <2>1 DEF HeardTrue, Heeded
  <2> QED
    BY <2>1, <2>2 DEF Listens
<1>6. ASSUME NEW k \in Keys, SendDirect(k) PROVE Listens
  <2>1. /\ Stored' = Stored /\ Seen' = Seen /\ job'.at = "sent" /\ job'.key = k /\ ~FastRun(k)
        /\ \A j \in Keys \ {k} : run'[j] = run[j]
    BY <1>6, SendDirectHears
  <2>2. \A j \in Keys : HeardTrue(j)' /\ (Heeded(j)' => ~FastRun(j))
    BY <2>1 DEF HeardTrue, Heeded, FastRun
  <2> QED
    BY <2>1, <2>2 DEF Listens
<1>7. ASSUME NEW k \in Keys, Poll(k) PROVE Listens
  <2>1. /\ Stored' = Stored /\ Seen' = Seen /\ UNCHANGED run /\ job'.at = "polled" /\ job'.key = k
        /\ job'.got = "stopped" => FastRun(k) /\ run[k] = "cancelled"
    BY <1>7, PollHears
  <2>2. \A j \in Keys : HeardTrue(j)' /\ ~Heeded(j)'
    BY <2>1 DEF HeardTrue, Heeded, FastRun
  <2> QED
    BY <2>1, <2>2 DEF Listens
<1> QED
  BY <1>1, <1>2, <1>3, <1>4, <1>5, <1>6, <1>7 DEF Runtime, Observing

(*********************** a running task is driven ************************)

LEMMA ListensDrives ==
    ASSUME DrivenInv, Listens
    PROVE  DrivenInv'
<1>1. /\ \A t \in Tasks : Driven(Stored, t) /\ Driven(Seen, t)
      /\ \A j \in Keys : Awaited(Stored, j) /\ Awaited(Seen, j)
  BY DEF DrivenInv
<1>2. /\ Stored' = Stored /\ Seen' \in {Seen, Stored} /\ \A j \in Keys : HeardTrue(j)'
  BY DEF Listens
<1>3. ASSUME NEW j \in Keys, NEW s \in {Stored, Seen},
             FastRun(j), OfTask(s, j), s.status[TaskOf(j)] = "running",
             s.row[j].st = "received" \/ (s.row[j].st = "sent" /\ Heeded(j)')
      PROVE  run'[j] # "cancelled"
  BY <1>1, <1>3 DEF Listens, Awaited
<1>4. \A j \in Keys : Awaited(Stored, j)' /\ Awaited(Seen, j)'
  BY <1>2, <1>3 DEF Awaited, FastRun, OfTask
<1>5. \A t \in Tasks : Driven(Stored', t) /\ Driven(Seen', t)
  BY <1>1, <1>2
<1> QED
  BY <1>2, <1>4, <1>5 DEF DrivenInv, Driven

LEMMA UndoDrives ==
    ASSUME IndInv, DrivenInv, Undo, UNCHANGED run, job' = IdleJob
    PROVE  DrivenInv'
<1>1. /\ \A t \in Tasks : Driven(Seen, t)
      /\ \A j \in Keys : Awaited(Seen, j)
  BY DEF DrivenInv
<1>2. /\ Stored'.status = Seen.status /\ Stored'.rev = Seen.rev /\ Stored'.issues = Seen.issues
      /\ \A k \in Keys : Stored'.row[k].st = Seen.row[k].st
  BY UndoRestores
<1>3. Seen' = Stored'
  BY DEF Seen, IdleJob
<1>4. \A j \in Keys : HeardTrue(j)' /\ ~Heeded(j)'
  BY DEF HeardTrue, Heeded, IdleJob
<1>5. \A t \in Tasks : Driven(Stored', t)
  BY <1>1, <1>2 DEF Driven, OfTask
<1>6. \A j \in Keys : Awaited(Stored, j)'
  BY <1>1, <1>2, <1>4 DEF Awaited, FastRun, OfTask
<1>7. \A j \in Keys : Awaited(Seen, j)'
  BY <1>3, <1>6 DEF Awaited
<1> QED
  BY <1>3, <1>4, <1>5, <1>6, <1>7 DEF DrivenInv, Driven

LEMMA DrivenStep ==
    ASSUME IndInv, Undisturbed, DrivenInv, [Next]_vars
    PROVE  DrivenInv'
<1>1. CASE Runtime
  <2>1. ASSUME NEW k \in Keys, Served(k), Turned(k), Calm(k),
               Drives(k) \/ Stored' = Stored \/ StoresStop(k)
        PROVE  DrivenInv'
    <3>1. Drives(k) \/ Stored' = Stored
      <4>1. SUFFICES ASSUME StoresStop(k) PROVE Drives(k)
        BY <2>1
      <4>2. ~(OfTask(Stored, k) /\ status[TaskOf(k)] = "running")
        BY <4>1, StoredIs DEF StoresStop, DrivenInv, Awaited
      <4>3. \A j \in Keys \ {k} : row'[j] = row[j]
        BY <4>1, Ready, WithSettles DEF StoresStop
      <4> QED
        BY <4>1, <4>2, <4>3 DEF StoresStop, Drives, task
    <3> QED
      BY <2>1, <3>1, ThreadDrives DEF Calm
  <2>2. \A k \in Keys : HeardTrue(k)
    BY DEF DrivenInv
  <2> QED
    BY <1>1, <2>1, <2>2, ThreadIs, ListensDrives, UndoDrives
<1>2. CASE Environment \/ Request
  BY <1>2, OthersDrive
<1>3. CASE UNCHANGED vars
  <2>1. Stored' = Stored /\ Seen' = Seen /\ UNCHANGED <<run, job>>
    BY <1>3 DEF vars, task, books, world, Stored, Seen
  <2> QED
    BY <2>1 DEF DrivenInv, Driven, Awaited, HeardTrue, Heeded, FastRun, OfTask
<1> QED
  BY <1>1, <1>2, <1>3 DEF Next

\* Where no agent works for two tasks and nobody cancels runs through the Fast Gateway's
\* own API, a running task is driven: _terminal_validation_failure and
\* _safe_after_responded_delivery leave a delivery under way or an open processing issue,
\* however requests, stops, abandoned ticks and late answers come in between.
THEOREM RunningIsDrivenCorrect == ASSUME Undisturbed PROVE Spec => []RunningIsDriven
<1>1. Init => DrivenInv
  <2>1. SUFFICES ASSUME Init PROVE DrivenInv
    OBVIOUS
  <2>2. Seen = Stored /\ job.at = "idle"
    BY <2>1 DEF Init, IdleJob, Seen
  <2>3. \A t \in Tasks : status[t] # "running"
    BY <2>1 DEF Init
  <2>4. /\ \A t \in Tasks : Driven(Stored, t)
        /\ \A k \in Keys : Awaited(Stored, k) /\ HeardTrue(k)
    BY <2>2, <2>3, KeyFacts, StoredIs DEF Driven, Awaited, HeardTrue
  <2> QED
    BY <2>2, <2>4 DEF DrivenInv
<1>2. IndInv /\ DrivenInv /\ [Next]_vars => DrivenInv'
  BY DrivenStep
<1>3. DrivenInv => RunningIsDriven
  <2>1. SUFFICES ASSUME DrivenInv, NEW t \in Tasks, status[t] = "running", RowsOf(t, rev[t]) # {},
                        \A i \in issues : ~(i[1] = t /\ i[2] = rev[t])
                 PROVE  \E k \in RowsOf(t, rev[t]) : row[k].st \in Live
    BY DEF RunningIsDriven
  <2>2. PICK n \in Keys : TaskOf(n) = t /\ RevOf(n) = rev[t] /\ row[n].st # "absent"
    BY <2>1 DEF RowsOf
  <2>3. Driven(Stored, t)
    BY <2>1 DEF DrivenInv
  <2>4. PICK k \in Keys : /\ TaskOf(k) = t /\ RevOf(k) = rev[t]
                          /\ row[k].st \notin {"absent", "responded"}
    BY <2>1, <2>2, <2>3, StoredIs DEF Driven, OfTask
  <2>5. <<t, rev[t], k>> \notin issues
    BY <2>1
  <2>6. row[k].st \in Live
    BY <2>1, <2>3, <2>4, <2>5, StoredIs DEF Driven, OfTask
  <2> QED
    BY <2>4, <2>6 DEF RowsOf
<1> QED
  BY <1>1, <1>2, <1>3, Invariance, PTL DEF Spec

(********************** a stopped delivery is quiet **********************)

\* Requests and the world put no delivery to rest whose run goes on.
LEMMA StopRests ==
    ASSUME IndInv, NEW ts \in SUBSET Tasks, NEW confirmed \in SUBSET LiveOf(ts),
           StopDeliveries(ts, confirmed), MaxRev = 1 \/ StopFinds,
           NEW k \in Keys, FastRun(k), run[k] = "running", run'[k] = "running",
           row'[k].st \in Resting
    PROVE  row[k].st \in Resting
<1>1. /\ row' = StopRows(LiveOf(ts), confirmed) /\ run' = Aborted(confirmed)
      /\ \A j \in confirmed : row[j].st \in Active /\ Confirmable(j)
  BY DEF StopDeliveries
<1>2. row \in [Keys -> Row] /\ row[k] \in Row /\ bound \in Bounds
  BY Ready
<1>3. CASE k \in confirmed
  <2>1. LastRun(k) # 0 /\ row[k].st \in Active
    BY <1>1, <1>3 DEF Confirmable
  <2>2. LastRun(k) = RevOf(k)
    <3>1. CASE StopFinds
      BY <2>1, <3>1 DEF StopFinds
    <3>2. CASE MaxRev = 1
      <4>1. LastRun(k) \in 0..1 /\ RevOf(k) \in 1..1
        BY <1>2, <3>2, KeyFacts DEF LastRun, Bounds
      <4> QED
        BY <2>1, <4>1
    <3> QED
      BY <3>1, <3>2
  <2>3. StopTarget(k) = k
    BY <2>2, KeyFacts DEF StopTarget
  <2>4. run'[k] = "cancelled"
    BY <1>1, <1>3, <2>3 DEF Aborted
  <2> QED
    BY <2>4
<1>4. CASE k \notin confirmed
  <2>1. \/ row[k].st = "queued" \/ row'[k] = row[k] \/ row'[k] = [row[k] EXCEPT !.st = "failed"]
    BY <1>1, <1>4 DEF StopRows
  <2> QED
    BY <1>2, <2>1 DEF Row, Resting
<1> QED
  BY <1>3, <1>4

LEMMA OthersRest ==
    ASSUME IndInv, Environment \/ Request, MaxRev = 1 \/ StopFinds, "retry" \in Ops => StopFinds',
           NEW k \in Keys, FastRun(k), run[k] = "running", run'[k] = "running",
           row'[k].st \in Resting
    PROVE  row[k].st \in Resting
<1>1. row \in [Keys -> Row] /\ row[k] \in Row
  BY Ready
<1>2. row' = row => row[k].st \in Resting
  OBVIOUS
<1>3. CASE Environment
  <2>1. row' = row \/ \E j \in Keys : row' = [row EXCEPT ![j].late = TRUE]
    BY <1>3 DEF Environment, RunEnds, CancelRun, DeadlinePasses
  <2>2. row'[k].st = row[k].st
    BY <1>1, <2>1 DEF Row
  <2> QED
    BY <2>2
<1>4. CASE Request
  <2>1. ASSUME NEW t \in Tasks,
               \/ Approve(t) \/ Reject(t) \/ RunTask(t)
               \/ EnterQA(t) \/ SendBack(t) \/ Renew(t) \/ Halt(t)
               \/ \E v \in {"PASS", "FAIL"} : QaVerdict(t, v)
               \/ Complete(t) \/ RejectCompletion(t) \/ LoseApproval(t)
        PROVE  row' = row
    BY <2>1 DEF Approve, Reject, RunTask, EnterQA, SendBack, Renew, Halt,
                QaVerdict, Complete, RejectCompletion, LoseApproval
  <2>2. ASSUME NEW j \in Keys, StopAck(j) PROVE row' = row
    BY <2>2 DEF StopAck
  <2>3. Resume => row' = row
    BY DEF Resume
  <2>4. ASSUME NEW t \in Tasks, NEW some \in SUBSET Team[t], Deliver(t, some)
        PROVE  row[k].st \in Resting
    <3> DEFINE new == {<<t, a, rev[t]>> : a \in some}
    <3>1. row' = Fresh(new) /\ Absent(new)
      BY <2>4 DEF Deliver
    <3> HIDE DEF new
    <3>2. row'[k] = row[k] \/ row[k].st = "absent"
      BY <3>1 DEF Fresh, Absent
    <3> QED
      BY <3>2 DEF Resting
  <2>5. ASSUME NEW t \in Tasks, ApproveExecute(t) PROVE row[k].st \in Resting
    <3> DEFINE own   == {<<t, a, rev[t]>> : a \in Team[t]}
               stale == {j \in Keys : AgentOf(j) \in Team[t] /\ row[j].st \in Live /\ row[j].late}
    <3>1. /\ row' = [j \in Keys |-> CASE j \in own   -> NewRow
                                      [] j \in stale -> [row[j] EXCEPT !.st = "timed_out"]
                                      [] OTHER       -> row[j]]
          /\ Absent(own)
      BY <2>5 DEF ApproveExecute
    <3> HIDE DEF own, stale
    <3>2. \/ row'[k] = row[k] \/ row[k].st = "absent"
          \/ row'[k] = [row[k] EXCEPT !.st = "timed_out"]
      BY <3>1 DEF Absent
    <3> QED
      BY <1>1, <3>2 DEF Resting, Row
  <2>6. ASSUME NEW j \in Keys, Retry(j) PROVE row[k].st \in Resting
    <3>1. row' = [row EXCEPT ![j].st = "queued", ![j].tries = 0] /\ "retry" \in Ops
      BY <2>6 DEF Retry, Asks
    <3>2. row'[k].st # "queued"
      BY <3>1 DEF StopFinds, FastRun
    <3>3. row'[k].st = row[k].st
      BY <1>1, <3>1, <3>2 DEF Row
    <3> QED
      BY <3>3
  <2>7. ASSUME NEW t \in Tasks, ResumeQa(t) PROVE row[k].st \in Resting
    <3> DEFINE q == QAKey(t)
    <3>1. row' \in {[row EXCEPT ![q] = NewRow], [row EXCEPT ![q] = NoRow]}
      BY <2>7 DEF ResumeQa
    <3>2. AgentOf(q) = Reviewer
      BY DEF QAKey, AgentOf
    <3>3. k # q
      BY <3>2 DEF FastRun
    <3> HIDE DEF q
    <3>4. row'[k] = row[k]
      BY <1>1, <3>1, <3>3
    <3> QED
      BY <3>4
  <2>10. ASSUME NEW t \in Tasks, Revalidate(t) \/ RecoverQa(t) PROVE row[k].st \in Resting
    <3>1. \/ row'[k] = row[k] \/ row'[k].st = "failed" \/ AgentOf(k) = Reviewer
      BY <2>10, QaIsReopened
    <3> QED
      BY <3>1 DEF Resting, FastRun
  <2>8. ASSUME NEW t \in Tasks, StopTask(t) PROVE row[k].st \in Resting
    <3>1. PICK confirmed \in SUBSET LiveOf({t}) : StopDeliveries({t}, confirmed)
      BY <2>8 DEF StopTask
    <3> QED
      BY <3>1, StopRests
  <2>9. StopProject => row[k].st \in Resting
    <3>1. SUFFICES ASSUME StopProject PROVE row[k].st \in Resting
      OBVIOUS
    <3>2. PICK confirmed \in SUBSET LiveOf(Tasks) : StopDeliveries(Tasks, confirmed)
      BY <3>1 DEF StopProject
    <3> QED
      BY <3>2, StopRests
  <2> QED
    BY <1>2, <1>4, <2>1, <2>2, <2>3, <2>4, <2>5, <2>6, <2>7, <2>8, <2>9, <2>10 DEF Request
<1> QED
  BY <1>3, <1>4

LEMMA QuietStep ==
    ASSUME IndInv, QuietInv, [Next]_vars, MaxRev = 1 \/ StopFinds, "retry" \in Ops => StopFinds'
    PROVE  QuietInv'
<1>1. /\ \A j \in Keys : Quiet(Stored, j) /\ Quiet(Seen, j)
      /\ \A k \in Keys : HeardTrue(k)
  BY DEF QuietInv
<1>2. ASSUME \A j \in Keys : HeardTrue(j)', Seen' \in {Seen, Stored'},
             \A j \in Keys : FastRun(j) /\ run'[j] = "running" =>
                 /\ row'[j].st \notin Resting
                 /\ Seen' = Seen /\ Seen' # Stored' => run[j] = "running"
      PROVE  QuietInv'
  <2>1. ASSUME NEW j \in Keys, FastRun(j), run'[j] = "running"
        PROVE  Stored'.row[j].st \notin Resting /\ Seen'.row[j].st \notin Resting
    <3>1. Stored'.row[j].st \notin Resting
      BY <1>2, <2>1, StoredIsNext
    <3>2. Seen' = Stored' \/ (Seen' = Seen /\ run[j] = "running")
      BY <1>2, <2>1
    <3>3. run[j] = "running" => Seen.row[j].st \notin Resting
      BY <1>1, <2>1 DEF Quiet, Resting
    <3> QED
      BY <3>1, <3>2, <3>3
  <2>2. \A j \in Keys : Quiet(Stored, j)' /\ Quiet(Seen, j)'
    BY <2>1 DEF Quiet, FastRun, Resting
  <2> QED
    BY <1>2, <2>2 DEF QuietInv
<1>3. \A j \in Keys : FastRun(j) /\ run[j] = "running" => row[j].st \notin Resting
  BY <1>1, StoredIs DEF Quiet, Resting
<1>4. CASE Runtime
  <2>1. ASSUME NEW k \in Keys, Served(k), Turned(k), Calm(k) PROVE QuietInv'
    <3>1. \A j \in Keys : HeardTrue(j)'
      BY <2>1 DEF Calm, HeardTrue
    <3>2. \A j \in Keys : FastRun(j) /\ run'[j] = "running" => run[j] = "running" /\ row'[j].st \notin Resting
      BY <1>3, <2>1 DEF Calm
    <3>3. Seen' \in {Seen, Stored'}
      BY <2>1 DEF Turned
    <3> QED
      BY <1>2, <3>1, <3>2, <3>3
  <2>2. ASSUME Undo, UNCHANGED run, job' = IdleJob PROVE QuietInv'
    <3>1. \A j \in Keys : Stored'.row[j].st = Seen.row[j].st
      BY <2>2, UndoRestores
    <3>2. \A j \in Keys : FastRun(j) /\ run'[j] = "running" => row'[j].st \notin Resting
      BY <1>1, <2>2, <3>1, StoredIsNext DEF Quiet, Resting
    <3>3. Seen' = Stored' /\ \A j \in Keys : HeardTrue(j)'
      BY <2>2 DEF Seen, IdleJob, HeardTrue
    <3> QED
      BY <1>2, <3>2, <3>3
  <2>3. ASSUME Listens PROVE QuietInv'
    <3>1. row' = row /\ Seen' \in {Seen, Stored'} /\ \A j \in Keys : HeardTrue(j)'
      BY <2>3, StoredIs, StoredIsNext DEF Listens
    <3>2. ASSUME NEW j \in Keys, FastRun(j), run'[j] = "running"
          PROVE  row'[j].st \notin Resting /\ (Seen' # Stored' => run[j] = "running")
      BY <1>3, <2>3, <3>1, <3>2 DEF Listens, Resting
    <3> QED
      BY <1>2, <3>1, <3>2
  <2> QED
    BY <1>1, <1>4, <2>1, <2>2, <2>3, ThreadIs
<1>5. CASE Environment \/ Request
  <2>1. Granted /\ RunsKept /\ UNCHANGED job
    BY <1>5, OtherIs, OthersKeepRuns DEF Granted
  <2>2. Seen' \in {Seen, Stored'}
    BY <2>1, GrantedKeeps, Ready
  <2>3. \A j \in Keys : HeardTrue(j)'
    BY <1>1, <2>1, HeardKept
  <2>4. ASSUME NEW j \in Keys, FastRun(j), run'[j] = "running"
        PROVE  run[j] = "running" /\ row'[j].st \notin Resting
    <3>1. run[j] = "running"
      BY <2>1, <2>4 DEF RunsKept
    <3> QED
      BY <1>3, <1>5, <2>4, <3>1, OthersRest
  <2> QED
    BY <1>2, <2>2, <2>3, <2>4
<1>6. CASE UNCHANGED vars
  <2>1. Stored' = Stored /\ Seen' = Seen /\ UNCHANGED <<run, job>>
    BY <1>6 DEF vars, task, books, world, Stored, Seen
  <2> QED
    BY <2>1 DEF QuietInv, Quiet, HeardTrue, FastRun
<1> QED
  BY <1>4, <1>5, <1>6 DEF Next

LEMMA QuietInit == ASSUME Init PROVE QuietInv
<1>1. Seen = Stored /\ job.at = "idle"
  BY DEF Init, IdleJob, Seen
<1>2. \A k \in Keys : Quiet(Stored, k) /\ HeardTrue(k)
  BY <1>1 DEF Init, Quiet, HeardTrue
<1> QED
  BY <1>1, <1>2 DEF QuietInv

LEMMA QuietIsStopped == ASSUME QuietInv PROVE StoppedIsQuiet
BY StoredIs DEF QuietInv, Quiet, StoppedIsQuiet

\* stop_bound_delivery ends the exact execution wherever it finds it: as long as the run
\* recorded for a task and an agent is that of the delivery under way, and no delivery is
\* put back in the queue while its run goes on, a delivery stored as stopped has no run.
THEOREM StoppedIsQuietCorrect == Spec /\ []StopFinds => []StoppedIsQuiet
<1>1. IndInv /\ QuietInv /\ StopFinds /\ StopFinds' /\ [Next]_vars => QuietInv'
  BY QuietStep
<1>2. (Init => QuietInv) /\ (QuietInv => StoppedIsQuiet)
  BY QuietInit, QuietIsStopped
<1> QED
  BY <1>1, <1>2, Invariance, PTL DEF Spec

\* With one executed revision and no manual retry a stop finds the run it is about, whatever
\* tasks, agents, stops, deadlines and abandoned ticks there are.
THEOREM FirstStopIsQuietCorrect ==
    ASSUME MaxRev = 1, "retry" \notin Ops PROVE Spec => []StoppedIsQuiet
<1>1. IndInv /\ QuietInv /\ [Next]_vars => QuietInv'
  BY QuietStep
<1>2. (Init => QuietInv) /\ (QuietInv => StoppedIsQuiet)
  BY QuietInit, QuietIsStopped
<1> QED
  BY <1>1, <1>2, Invariance, PTL DEF Spec
================================================================================
