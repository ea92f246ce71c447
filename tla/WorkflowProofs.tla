----------------------------- MODULE WorkflowProofs -----------------------------
(***************************************************************************)
(* Theorems about WorkflowOrchestration, for every graph of units, every   *)
(* set of dispatch inputs, every way runs end, engines refuse and          *)
(* observers are released, and any number of restarts.                     *)
(***************************************************************************)
EXTENDS WorkflowOrchestration, TLAPS

(******************************* the moves of job **************************)

Places == {"idle", "revalidate", "claim", "create", "submit", "start", "persist", "scan"}
Jobs   == [at : Places, unit : Units \cup {NoUnit}, input : Contracts \cup {NoInput},
           caller : Callers, todo : SUBSET Units]

\* A job at rest is a job.
LEMMA IdleIsJob == Idle \in Jobs
BY DEF Idle, Jobs, Places, Callers

\* A step from one place to the next changes nothing but the place.
LEMMA StepFacts ==
    ASSUME job \in Jobs, NEW p \in Places, Step(p)
    PROVE  /\ job' \in Jobs /\ job'.at = p
           /\ job'.unit = job.unit /\ job'.input = job.input /\ job'.caller = job.caller
BY DEF Jobs, Step

\* A call that is over leaves the lock free, or the continuation at its scan.
LEMMA DoneFacts ==
    ASSUME job \in Jobs, Done
    PROVE  job' \in Jobs /\ job'.at \in {"idle", "scan"}
BY IdleIsJob DEF Jobs, Done, Idle, Places

(******************************* type correctness **************************)

\* TypeOK with the job as a member of Jobs.
LEMMA TypeOfJob == TypeOK => job \in Jobs
BY DEF TypeOK, Jobs, Places

\* Every step of a true state stays within the types.
LEMMA TypeStep ==
    ASSUME IndInv, [Next]_vars
    PROVE  TypeOK'
<1> DEFINE Rest == /\ mapped' \subseteq Units /\ claimed' \subseteq Units
                   /\ stored' \in [Units -> Contracts \cup {NoInput}]
                   /\ parent' \in {"none"} \cup Contract!Verdicts
                   /\ run' \in [Units -> Contract!RunStatuses]
                   /\ sent' \in [Units -> Contracts \cup {NoInput}]
                   /\ workers' \in [Units -> 0..2]
                   /\ watching' \subseteq Units /\ subscribed' \in BOOLEAN
                   /\ known' \in [Units -> Contracts \cup {NoInput}]
                   /\ acked' \subseteq Units \X Contracts
                   /\ crashes' \in 0..MaxCrashes
<1>1. TypeOK /\ job \in Jobs /\ JobTrue
  BY TypeOfJob DEF IndInv
<1>2. job' \in Jobs /\ Rest => TypeOK'
  BY DEF TypeOK, Jobs, Places
<1> HIDE DEF Rest
<1>3. CASE Revalidate
  <2>1. job.unit \in Units /\ job.input \in Contracts
    BY <1>1, <1>3 DEF JobTrue, Revalidate, Resting, At
  <2>2. job' \in Jobs
    BY <1>1, <1>3, StepFacts, DoneFacts DEF Revalidate, AfterInput, Places
  <2>3. Rest
    BY <1>1, <1>3, <2>1 DEF Rest, TypeOK, Revalidate, runs
  <2> QED
    BY <1>2, <2>2, <2>3
<1>4. CASE Claim
  <2>1. job.unit \in Units
    BY <1>1, <1>4 DEF JobTrue, Claim, Resting, At
  <2>2. job' \in Jobs
    BY <1>1, <1>4, StepFacts, DoneFacts DEF Claim, Places
  <2>3. Rest
    BY <1>1, <1>4, <2>1 DEF Rest, TypeOK, Claim, runs
  <2> QED
    BY <1>2, <2>2, <2>3
<1>5. CASE EngineDispatch
  <2>1. job.unit \in Units /\ job.input \in Contracts
    BY <1>1, <1>5 DEF JobTrue, EngineDispatch, Resting, At
  <2>2. job' \in Jobs
    BY <1>1, <1>5, StepFacts, DoneFacts DEF EngineDispatch, Places
  <2>3. Rest
    BY <1>1, <1>5, <2>1
    DEF Rest, TypeOK, EngineDispatch, rows, Contract!RunStatuses, Contract!Active
  <2> QED
    BY <1>2, <2>2, <2>3
<1>6. CASE EngineRefuses
  <2>1. job' \in Jobs
    BY <1>1, <1>6, DoneFacts DEF EngineRefuses
  <2>2. Rest
    BY <1>1, <1>6 DEF Rest, TypeOK, EngineRefuses, rows, runs
  <2> QED
    BY <1>2, <2>1, <2>2
<1>7. CASE EngineSubmits
  <2>1. job.unit \in Units /\ workers[job.unit] = 0
    BY <1>1, <1>7 DEF JobTrue, EngineSubmits, Resting, At
  <2>2. job' \in Jobs
    BY <1>1, <1>7, StepFacts DEF EngineSubmits, Places
  <2>3. workers' \in [Units -> 0..2]
    BY <1>1, <1>7, <2>1 DEF TypeOK, EngineSubmits
  <2>4. Rest
    BY <1>1, <1>7, <2>1, <2>3
    DEF Rest, TypeOK, EngineSubmits, rows, Contract!RunStatuses, Contract!Failures,
        Contract!Unsuccessful
  <2> QED
    BY <1>2, <2>2, <2>4
<1>8. CASE EngineStarts
  <2>1. job.unit \in Units
    BY <1>1, <1>8 DEF JobTrue, EngineStarts, Resting, At
  <2>2. job' \in Jobs
    BY <1>1, <1>8, StepFacts DEF EngineStarts, Places
  <2>3. Rest
    BY <1>1, <1>8, <2>1
    DEF Rest, TypeOK, EngineStarts, rows, Contract!RunStatuses, Contract!Active
  <2> QED
    BY <1>2, <2>2, <2>3
<1>9. CASE Persist
  <2>1. job.unit \in Units /\ job.input \in Contracts
    BY <1>1, <1>9 DEF JobTrue, Persist, Resting, At
  <2>2. job' \in Jobs
    BY <1>1, <1>9, DoneFacts DEF Persist
  <2>3. Rest
    BY <1>1, <1>9, <2>1 DEF Rest, TypeOK, Persist, runs
  <2> QED
    BY <1>2, <2>2, <2>3
<1>10. CASE Continue
  <2>1. PICK u \in job.todo :
              \/ /\ claimed' = claimed \cup {u}
                 /\ job' = [job EXCEPT !.at = "revalidate", !.unit = u, !.input = stored[u],
                                       !.todo = @ \ {u}]
              \/ job' = [job EXCEPT !.todo = @ \ {u}] /\ claimed' = claimed
    BY <1>10 DEF Continue
  <2>2. u \in Units /\ stored[u] \in Contracts \cup {NoInput}
    BY <1>1 DEF Jobs, TypeOK
  <2>3. job' \in Jobs
    BY <1>1, <2>1, <2>2 DEF Jobs, Places
  <2>4. claimed' \subseteq Units
    BY <1>1, <2>1, <2>2 DEF TypeOK
  <2>5. Rest
    BY <1>1, <1>10, <2>4 DEF Rest, TypeOK, Continue, runs
  <2> QED
    BY <1>2, <2>3, <2>5
<1>11. CASE Finalize
  <2>1. job' \in Jobs
    BY <1>11, IdleIsJob DEF Finalize
  <2>2. Summary \in {"RUNNING"} \cup Contract!Verdicts
    BY DEF Summary, Contract!Verdicts
  <2>3. parent' \in {"none"} \cup Contract!Verdicts
    BY <1>1, <1>11, <2>2 DEF TypeOK, Finalize
  <2>4. UNCHANGED <<mapped, claimed, stored, runs, watching, subscribed, known, acked, crashes>>
    BY <1>11 DEF Finalize
  <2>5. Rest
    BY <1>1, <2>3, <2>4 DEF Rest, TypeOK, runs
  <2> QED
    BY <1>2, <2>1, <2>5
<1>12. CASE Restart
  <2>1. crashes' \in 0..MaxCrashes
    BY <1>1, <1>12, CrashAssumption DEF TypeOK, Restart
  <2>2. watching' \subseteq Units /\ known' \in [Units -> Contracts \cup {NoInput}]
    BY <1>12 DEF Restart
  <2>3. UNCHANGED <<rows, runs, acked>> /\ subscribed' = FALSE
    BY <1>12 DEF Restart
  <2>4. Rest
    BY <1>1, <2>1, <2>2, <2>3 DEF Rest, TypeOK, rows, runs
  <2> QED
    BY <1>2, <1>12, <2>4, IdleIsJob DEF Restart
<1>13. CASE BuildOrchestrator
  BY <1>1, <1>2, <1>13 DEF Rest, TypeOK, BuildOrchestrator, rows, runs
<1>14. ASSUME NEW u \in Units, NEW c \in Contracts, Replay(u, c) PROVE TypeOK'
  BY <1>1, <1>2, <1>14 DEF Rest, TypeOK, Replay, rows, runs
<1>15. ASSUME NEW u \in Units, NEW c \in Contracts, Request(u, c) PROVE TypeOK'
  <2>1. job' \in Jobs
    BY <1>15, IdleIsJob DEF Request, Jobs, Places
  <2>2. Rest
    BY <1>1, <1>15 DEF Rest, TypeOK, Request, rows, runs
  <2> QED
    BY <1>2, <2>1, <2>2
<1>16. ASSUME NEW u \in Units, Notify(u) PROVE TypeOK'
  <2>1. job' \in Jobs
    BY <1>16, IdleIsJob DEF Notify, Jobs, Places, Callers
  <2>2. Rest
    BY <1>1, <1>16 DEF Rest, TypeOK, Notify, rows, runs
  <2> QED
    BY <1>2, <2>1, <2>2
<1>17. ASSUME NEW u \in Units, NotifyNobody(u) \/ Release(u) PROVE TypeOK'
  BY <1>1, <1>2, <1>17 DEF Rest, TypeOK, NotifyNobody, Release, rows, runs
<1>18. ASSUME NEW u \in Units, RunSettles(u) PROVE TypeOK'
  BY <1>1, <1>2, <1>18, VerdictAssumption
  DEF Rest, TypeOK, RunSettles, rows, process, Contract!RunStatuses, Contract!Failures,
      Contract!Unsuccessful
<1>19. CASE UNCHANGED vars
  BY <1>1, <1>2, <1>19 DEF Rest, TypeOK, vars, rows, runs, process
<1> QED
  BY <1>3, <1>4, <1>5, <1>6, <1>7, <1>8, <1>9, <1>10, <1>11, <1>12, <1>13, <1>14, <1>15,
     <1>16, <1>17, <1>18, <1>19 DEF Next, Advance

(******************************* what steps keep ***************************)

\* Rows are never given back, a passed run stays passed, a run keeps the input it was
\* created with, and only the holder of the lock creates a run, submits a worker, maps
\* a unit or acknowledges a run that is not mapped yet.
Kept(u) ==
    /\ u \in mapped => u \in mapped'
    /\ u \in claimed => u \in claimed'
    /\ u \in mapped' => u \in mapped \/ (At("persist") /\ u = job.unit)
    /\ run[u] = "PASS" => run'[u] = "PASS"
    /\ run[u] # "none" => run'[u] # "none" /\ sent'[u] = sent[u]
    /\ run[u] = "none" => run'[u] = "none" \/ (At("create") /\ u = job.unit)
    /\ workers'[u] = workers[u] \/ (At("submit") /\ u = job.unit /\ workers'[u] = 1)

LEMMA StepKeeps ==
    ASSUME IndInv, [Next]_vars, NEW u \in Units
    PROVE  Kept(u)
<1>1. TypeOK /\ job \in Jobs /\ JobTrue
  BY TypeOfJob DEF IndInv
<1>2. CASE UNCHANGED <<mapped, claimed, runs>>
  BY <1>2 DEF Kept, runs
<1>3. CASE Claim
  BY <1>3 DEF Kept, Claim, runs
<1>4. CASE EngineDispatch
  <2>1. At("create") /\ UNCHANGED <<rows, workers>>
    BY <1>4 DEF EngineDispatch
  <2>2. CASE run[job.unit] # "none"
    BY <1>4, <2>1, <2>2 DEF EngineDispatch, Kept, rows
  <2>3. CASE run[job.unit] = "none"
    BY <1>1, <1>4, <2>1, <2>3 DEF EngineDispatch, Kept, rows, TypeOK
  <2> QED
    BY <2>2, <2>3
<1>5. CASE EngineSubmits
  <2>1. At("submit") /\ run[job.unit] = "QUEUED" /\ workers[job.unit] = 0
    BY <1>1, <1>5 DEF EngineSubmits, JobTrue
  <2>2. UNCHANGED <<rows, sent>>
    BY <1>5 DEF EngineSubmits
  <2> QED
    BY <1>1, <1>5, <2>1, <2>2 DEF EngineSubmits, Kept, rows, TypeOK
<1>6. CASE EngineStarts
  <2>1. At("start") /\ run[job.unit] = "QUEUED"
    BY <1>1, <1>6 DEF EngineStarts, JobTrue
  <2> QED
    BY <1>1, <1>6, <2>1 DEF EngineStarts, Kept, rows, TypeOK
<1>7. CASE Persist
  BY <1>7 DEF Kept, Persist, runs
<1>8. CASE Continue
  BY <1>8 DEF Kept, Continue, runs
<1>9. ASSUME NEW w \in Units, RunSettles(w) PROVE Kept(u)
  BY <1>1, <1>9, VerdictAssumption
  DEF Kept, RunSettles, rows, TypeOK, Contract!Failures, Contract!Unsuccessful
<1> QED
  BY <1>2, <1>3, <1>4, <1>5, <1>6, <1>7, <1>8, <1>9
  DEF Next, Advance, Revalidate, EngineRefuses, Finalize, Restart, BuildOrchestrator,
      Replay, Request, Notify, NotifyNobody, Release, rows, runs, process, vars

\* Dependencies that passed stay passed.
StaysClear(u) == \A d \in Deps[u] : d \in mapped' /\ run'[d] = "PASS"

LEMMA ClearStays ==
    ASSUME IndInv, [Next]_vars
    PROVE  \A u \in Units : Clear(u) => StaysClear(u)
<1>1. \A u \in Units : \A d \in Deps[u] : d \in Units
  BY GraphAssumption
<1> QED
  BY <1>1, StepKeeps DEF Clear, StaysClear, Passed, Kept

(******************************* the holder of the lock ********************)

\* A call that is over promises nothing.
LEMMA DoneIsTrue ==
    ASSUME job \in Jobs, Done
    PROVE  JobTrue'
<1>1. job'.at \in {"idle", "scan"}
  BY DoneFacts
<1> QED
  BY <1>1 DEF JobTrue, Resting, Holding, Started, At

\* Nobody else touches the unit of the call in flight.
LEMMA JobUntouched ==
    ASSUME IndInv, [Next]_vars, job' = job,
           UNCHANGED <<mapped, claimed, runs>> \/ \E w \in Units : RunSettles(w)
    PROVE  JobTrue'
<1>1. JobTrue /\ TypeOK
  BY DEF IndInv
<1>2. CASE Resting
  BY <1>2 DEF JobTrue, Resting, Holding, Started, At
<1>3. CASE ~Resting
  <2>1. job.unit \in Units
    BY <1>1, <1>3 DEF JobTrue
  <2>2. Clear(job.unit) => StaysClear(job.unit)
    BY <2>1, ClearStays
  <2>3. UNCHANGED <<mapped, claimed, sent, workers>>
    BY DEF RunSettles, rows, runs
  <2>4. run[job.unit] # "none" => run'[job.unit] # "none"
    BY <2>1, StepKeeps DEF Kept
  <2>5. /\ run[job.unit] = "none" => run'[job.unit] = "none"
        /\ run[job.unit] = "QUEUED" => run'[job.unit] = "QUEUED"
    BY <1>1, <2>1 DEF RunSettles, runs, TypeOK
  <2> QED
    BY <1>1, <2>1, <2>2, <2>3, <2>4, <2>5
    DEF JobTrue, Resting, Holding, Started, At, Clear, Passed, StaysClear
<1> QED
  BY <1>2, <1>3

\* Each step of the holder establishes what its next step relies on.
LEMMA JobStep ==
    ASSUME IndInv, [Next]_vars
    PROVE  JobTrue'
<1>1. TypeOK /\ job \in Jobs /\ JobTrue /\ \A u \in Units : UnitTrue(u)
  BY TypeOfJob DEF IndInv
<1> DEFINE Same == job'.unit = job.unit /\ job'.input = job.input /\ job'.caller = job.caller
<1>3. CASE Revalidate
  <2>1. /\ At("revalidate") /\ job.unit \in Units /\ job.input \in Contracts
        /\ UNCHANGED <<mapped, claimed, runs>>
    BY <1>1, <1>3 DEF JobTrue, Revalidate, Resting, At
  <2>2. CASE Done
    BY <1>1, <2>2, DoneIsTrue
  <2>3. CASE Ready(job.unit) /\ Step(AfterInput)
    <3>1. job.unit \notin mapped /\ Clear(job.unit)
      BY <2>3 DEF Ready, Clear
    <3>2. Same /\ job'.at \in {"claim", "create"}
               /\ (job'.at = "create" => job.caller = "observer")
      BY <1>1, <2>3, StepFacts DEF AfterInput, Places
    <3>3. StaysClear(job.unit)
      BY <2>1, <3>1, ClearStays
    <3>4. job'.at = "create" => job.unit \in claimed \ mapped /\ run[job.unit] = "none"
      BY <1>1, <2>1, <3>2 DEF JobTrue, Holding, At
    <3> QED
      BY <2>1, <3>1, <3>2, <3>3, <3>4
      DEF JobTrue, Resting, Holding, Started, At, runs, Clear, Passed, StaysClear
  <2> QED
    BY <1>3, <2>2, <2>3 DEF Revalidate
<1>4. CASE Claim
  <2>1. At("claim") /\ job.unit \in Units /\ job.input \in Contracts /\ Clear(job.unit)
    BY <1>1, <1>4 DEF JobTrue, Claim, Resting, At
  <2>2. CASE Done
    BY <1>1, <2>2, DoneIsTrue
  <2>3. CASE Claimable(job.unit) /\ claimed' = claimed \cup {job.unit} /\ Step("create")
    <3>1. Same /\ job'.at = "create"
      BY <1>1, <2>3, StepFacts DEF Places
    <3>2. job.unit \notin mapped /\ run[job.unit] = "none"
      BY <1>1, <2>1, <2>3 DEF Claimable, UnitTrue
    <3>3. UNCHANGED <<mapped, runs>> /\ StaysClear(job.unit)
      BY <1>4, <2>1, ClearStays DEF Claim
    <3> QED
      BY <2>1, <2>3, <3>1, <3>2, <3>3
      DEF JobTrue, Resting, Holding, Started, At, runs, Clear, Passed, StaysClear
  <2> QED
    BY <1>4, <2>2, <2>3 DEF Claim
<1>5. CASE EngineDispatch
  <2>1. /\ At("create") /\ job.unit \in Units /\ job.input \in Contracts
        /\ job.unit \in claimed \ mapped /\ run[job.unit] = "none"
    BY <1>1, <1>5 DEF JobTrue, Holding, EngineDispatch, Resting, At
  <2>2. /\ run' = [run EXCEPT ![job.unit] = "QUEUED"]
        /\ sent' = [sent EXCEPT ![job.unit] = job.input]
        /\ Step("submit") /\ UNCHANGED <<mapped, claimed, workers>>
    BY <1>5, <2>1 DEF EngineDispatch, rows
  <2>3. Same /\ job'.at = "submit"
    BY <1>1, <2>2, StepFacts DEF Places
  <2>4. workers[job.unit] = 0
    BY <1>1, <2>1 DEF UnitTrue
  <2>5. run'[job.unit] = "QUEUED" /\ sent'[job.unit] = job.input
    BY <1>1, <2>1, <2>2 DEF TypeOK
  <2> QED
    BY <2>1, <2>2, <2>3, <2>4, <2>5 DEF JobTrue, Resting, Holding, Started, At
<1>6. CASE EngineRefuses
  BY <1>1, <1>6, DoneIsTrue DEF EngineRefuses
<1>7. CASE EngineSubmits \/ EngineStarts
  <2>1. Started /\ ~Resting /\ (At("submit") \/ At("start"))
    BY <1>7 DEF EngineSubmits, EngineStarts, Started, Resting, At
  <2>2. /\ job.unit \in Units /\ job.input \in Contracts
        /\ job.unit \in claimed \ mapped /\ run[job.unit] # "none"
        /\ sent[job.unit] = job.input /\ run[job.unit] = "QUEUED"
    BY <1>1, <2>1 DEF JobTrue
  <2>3. /\ \/ Step("start") /\ UNCHANGED run
           \/ Step("persist")
        /\ UNCHANGED <<mapped, claimed, sent>>
    BY <1>7 DEF EngineSubmits, EngineStarts, rows
  <2>4. /\ Same
        /\ job'.at = "persist" \/ (job'.at = "start" /\ UNCHANGED run)
    BY <1>1, <2>3, StepFacts DEF Places
  <2>5. run'[job.unit] # "none"
    BY <2>2, StepKeeps DEF Kept
  <2> QED
    BY <2>2, <2>3, <2>4, <2>5 DEF JobTrue, Resting, Holding, Started, At
<1>9. CASE Persist
  BY <1>1, <1>9, DoneIsTrue DEF Persist
<1>10. CASE Continue
  <2>1. PICK u \in job.todo :
          IF Ready(u) /\ stored[u] # NoInput /\ Claimable(u)
          THEN /\ claimed' = claimed \cup {u}
               /\ job' = [job EXCEPT !.at = "revalidate", !.unit = u, !.input = stored[u],
                                     !.todo = @ \ {u}]
          ELSE job' = [job EXCEPT !.todo = @ \ {u}]
    BY <1>10 DEF Continue
  <2>2. u \in Units /\ At("scan") /\ UNCHANGED <<mapped, runs>>
    BY <1>1, <1>10 DEF Continue, Jobs
  <2>3. CASE Ready(u) /\ stored[u] # NoInput /\ Claimable(u)
    <3>1. /\ job'.at = "revalidate" /\ job'.unit = u /\ job'.input = stored[u]
          /\ u \in claimed'
      BY <1>1, <2>1, <2>3 DEF Jobs
    <3>2. stored[u] \in Contracts
      BY <1>1, <2>2, <2>3 DEF TypeOK
    <3>3. u \notin mapped /\ Clear(u) /\ run[u] = "none"
      BY <1>1, <2>2, <2>3 DEF Ready, Clear, Claimable, UnitTrue
    <3>4. StaysClear(u)
      BY <2>2, <3>3, ClearStays
    <3> QED
      BY <2>2, <3>1, <3>2, <3>3, <3>4
     
      DEF JobTrue, Resting, Holding, Started, At, runs, Clear, Passed, StaysClear
  <2>4. CASE job' = [job EXCEPT !.todo = @ \ {u}]
    <3>1. job'.at = "scan"
      BY <1>1, <2>2, <2>4 DEF Jobs, At
    <3> QED
      BY <3>1 DEF JobTrue, Resting, Holding, Started, At
  <2> QED
    BY <2>1, <2>3, <2>4
<1>11. CASE job' = Idle
  BY <1>11 DEF JobTrue, Idle, Resting, Holding, Started, At
<1>12. ASSUME NEW u \in Units, NEW c \in Contracts, Request(u, c) PROVE JobTrue'
  BY <1>12 DEF Request, Idle, JobTrue, Resting, Holding, Started, At
<1>13. ASSUME NEW u \in Units, Notify(u) PROVE JobTrue'
  BY <1>13 DEF Notify, Idle, JobTrue, Resting, Holding, Started, At
<1>14. ASSUME NEW u \in Units, NEW c \in Contracts,
              Replay(u, c) \/ NotifyNobody(u) \/ RunSettles(u) \/ Release(u)
       PROVE  JobTrue'
  BY <1>14, JobUntouched DEF Replay, NotifyNobody, RunSettles, Release, rows, process
<1>15. CASE BuildOrchestrator \/ UNCHANGED vars
  BY <1>15, JobUntouched DEF BuildOrchestrator, vars, rows, process
<1> QED
  BY <1>3, <1>4, <1>5, <1>6, <1>7, <1>9, <1>10, <1>11, <1>12, <1>13, <1>14, <1>15,
     InputAssumption
  DEF Next, Advance, Finalize, Restart

(******************************* units, workers, answers *******************)

\* A run exists only of a claimed unit whose dependencies passed; a unit is submitted at
\* most once.
LEMMA UnitStep ==
    ASSUME IndInv, [Next]_vars, NEW u \in Units
    PROVE  UnitTrue(u)' /\ workers'[u] <= 1
<1>1. TypeOK /\ JobTrue /\ UnitTrue(u) /\ workers[u] <= 1
  BY DEF IndInv, OneWorker
<1>2. Kept(u) /\ (Clear(u) => StaysClear(u))
  BY StepKeeps, ClearStays
<1>3. At("create") /\ u = job.unit => u \in claimed /\ Clear(u)
  BY <1>1 DEF JobTrue, Holding
<1>4. (At("persist") \/ At("submit")) /\ u = job.unit => u \in claimed /\ run[u] # "none"
  BY <1>1 DEF JobTrue, Started
<1>5. run'[u] # "none" => u \in claimed' /\ StaysClear(u)
  BY <1>1, <1>2, <1>3 DEF Kept, UnitTrue
<1>6. run'[u] = "none" => u \notin mapped' /\ workers'[u] = 0
  BY <1>1, <1>2, <1>4 DEF Kept, UnitTrue
<1>7. workers'[u] <= 1
  BY <1>1, <1>2 DEF Kept
<1> QED
  BY <1>5, <1>6, <1>7 DEF UnitTrue, Clear, Passed, StaysClear

\* Only a replay and a persisted dispatch answer a request, each with the run that was
\* created with its input.
LEMMA AckStep ==
    ASSUME IndInv, [Next]_vars
    PROVE  AckTrue'
<1>1. TypeOK /\ JobTrue /\ AckTrue /\ \A u \in Units : UnitTrue(u)
  BY DEF IndInv
<1>2. SUFFICES ASSUME NEW u \in Units, NEW c \in Contracts, <<u, c>> \in acked'
               PROVE  u \in mapped' /\ sent'[u] = c
  BY DEF AckTrue
<1>3. CASE <<u, c>> \in acked
  BY <1>1, <1>3, StepKeeps DEF AckTrue, Kept, UnitTrue
<1>4. CASE Persist /\ <<u, c>> = <<job.unit, job.input>>
  BY <1>1, <1>4 DEF Persist, JobTrue, Started, runs
<1>5. ASSUME NEW w \in Units, NEW d \in Contracts, Replay(w, d), <<u, c>> = <<w, d>>
      PROVE  u \in mapped' /\ sent'[u] = c
  BY <1>5 DEF Replay, SameInput, rows, runs
<1>6. \/ <<u, c>> \in acked
      \/ Persist /\ <<u, c>> = <<job.unit, job.input>>
      \/ \E w \in Units, d \in Contracts : Replay(w, d) /\ <<u, c>> = <<w, d>>
  <2>1. CASE UNCHANGED acked
    BY <1>2, <2>1
  <2>2. CASE Persist
    BY <1>2, <2>2 DEF Persist
  <2>3. ASSUME NEW w \in Units, NEW d \in Contracts, Replay(w, d)
        PROVE  <<u, c>> \in acked \/ <<u, c>> = <<w, d>>
    BY <1>2, <2>3 DEF Replay
  <2> QED
    BY <2>1, <2>2, <2>3
    DEF Next, Advance, Revalidate, Claim, EngineDispatch, EngineRefuses, EngineSubmits,
        EngineStarts, Continue, Finalize, Restart, BuildOrchestrator, Request, Notify,
        NotifyNobody, RunSettles, Release, vars
<1> QED
  BY <1>3, <1>4, <1>5, <1>6

(******************************* the parent ********************************)

\* What a run status means to the summary of a mapped unit.
LEMMA StatusFacts ==
    /\ Contract!Unsuccessful = {"FAIL", "TIMEOUT", "CANCELLED"}
    /\ Contract!Failures = {"FAIL", "TIMEOUT", "CANCELLED", "BLOCKED"}
    /\ Contract!Active = {"QUEUED", "RUNNING"}
    /\ Contract!Verdicts = {"COMPLETED", "FAILED", "BLOCKED"}
BY DEF Contract!Unsuccessful, Contract!Failures, Contract!Active, Contract!Verdicts

\* The summary is not RUNNING exactly when no unit can still run.
LEMMA SummaryTerminal ==
    /\ (\E u \in Units : Runnable(u)) => Summary = "RUNNING"
    /\ ~(\E u \in Units : Runnable(u)) => Summary \in Contract!Verdicts
BY StatusFacts DEF Summary

\* The summary looks at mapped units only, and does not tell one unsuccessful status
\* from another.
LEMMA SummaryStays ==
    ASSUME mapped' = mapped,
           \A u \in Units : u \in mapped =>
               \/ run'[u] = run[u]
               \/ run[u] \in Contract!Unsuccessful /\ run'[u] \in Contract!Unsuccessful
    PROVE  Summary' = Summary
<1>1. \A u \in Units : \A d \in Deps[u] : d \in Units
  BY GraphAssumption
<1>2. \A u \in Units : /\ Passed(u)' <=> Passed(u)
                       /\ Failed(u)' <=> Failed(u)
                       /\ Live(u)' <=> Live(u)
  BY StatusFacts DEF Passed, Failed, Live
<1>3. \A u \in Units : (Ready(u)' <=> Ready(u)) /\ (Waiting(u)' <=> Waiting(u))
  BY <1>1, <1>2 DEF Ready, Waiting
<1>4. (\E u \in Units : Runnable(u))' <=> (\E u \in Units : Runnable(u))
  BY <1>2, <1>3 DEF Runnable
<1>5. \A u \in Units : (u \in mapped' /\ run'[u] \in Contract!Unsuccessful)
                       <=> (u \in mapped /\ run[u] \in Contract!Unsuccessful)
  BY StatusFacts
<1>6. \A u \in Required : u \in Units
  BY GraphAssumption
<1>7. (\A u \in Required : Passed(u))' <=> (\A u \in Required : Passed(u))
  BY <1>2, <1>6
<1>8. (\E u \in Required : u \in mapped /\ run[u] \in Contract!Unsuccessful)'
      <=> (\E u \in Required : u \in mapped /\ run[u] \in Contract!Unsuccessful)
  BY <1>5, <1>6
<1> QED
  BY <1>4, <1>7, <1>8 DEF Summary

\* While a run is being created or recorded, or while a run is active, its unit keeps
\* the summary RUNNING: a finalized parent has neither.
LEMMA BusyIsRunning ==
    ASSUME IndInv
    PROVE  /\ At("persist") => Summary = "RUNNING"
           /\ \A u \in mapped : run[u] \in Contract!Active => Summary = "RUNNING"
<1>1. TypeOK /\ JobTrue /\ \A u \in Units : UnitTrue(u)
  BY DEF IndInv
<1>2. CASE At("persist")
  <2>1. job.unit \in Units /\ job.unit \notin mapped /\ Clear(job.unit)
    BY <1>1, <1>2 DEF JobTrue, Started, Resting, At, UnitTrue
  <2> QED
    BY <2>1, SummaryTerminal DEF Runnable, Ready, Clear
<1>3. ASSUME NEW u \in mapped, run[u] \in Contract!Active PROVE Summary = "RUNNING"
  BY <1>1, <1>3, SummaryTerminal DEF Runnable, Live, TypeOK
<1> QED
  BY <1>2, <1>3

\* A finalized parent keeps agreeing with its summary.
LEMMA ParentStep ==
    ASSUME IndInv, [Next]_vars
    PROVE  ParentAgrees'
<1>1. TypeOK /\ JobTrue /\ ParentAgrees
  BY DEF IndInv
<1>2. Summary # "RUNNING" => UNCHANGED mapped
  <2>1. CASE Persist
    BY <2>1, BusyIsRunning DEF Persist
  <2> QED
    BY <2>1
    DEF Next, Advance, Revalidate, Claim, EngineDispatch, EngineRefuses, EngineSubmits,
        EngineStarts, Continue, Finalize, Restart, BuildOrchestrator, Replay, Request,
        Notify, NotifyNobody, RunSettles, Release, rows, vars
<1>3. \A u \in Units : u \in mapped /\ Summary # "RUNNING" =>
          \/ run'[u] = run[u]
          \/ run[u] \in Contract!Unsuccessful /\ run'[u] \in Contract!Unsuccessful
  <2>1. SUFFICES ASSUME NEW u \in mapped, u \in Units, run[u] \notin Contract!Active
                 PROVE  \/ run'[u] = run[u]
                        \/ /\ run[u] \in Contract!Unsuccessful
                           /\ run'[u] \in Contract!Unsuccessful
    BY BusyIsRunning
  <2>2. CASE EngineDispatch
    BY <1>1, <2>1, <2>2 DEF EngineDispatch, JobTrue, Holding, TypeOK
  <2>3. CASE EngineSubmits \/ EngineStarts
    <3>1. job.unit \notin mapped
      BY <1>1, <2>3 DEF EngineSubmits, EngineStarts, JobTrue, Started
    <3> QED
      BY <1>1, <2>3, <3>1 DEF EngineSubmits, EngineStarts, TypeOK
  <2>4. ASSUME NEW w \in Units, RunSettles(w)
        PROVE  \/ run'[u] = run[u]
               \/ /\ run[u] \in Contract!Unsuccessful
                  /\ run'[u] \in Contract!Unsuccessful
    <3>1. CASE u # w
      BY <1>1, <2>4, <3>1 DEF RunSettles, TypeOK
    <3>2. CASE u = w
      BY <1>1, <2>1, <2>4, <3>2, StatusFacts DEF RunSettles, TypeOK
    <3> QED
      BY <3>1, <3>2
  <2>5. CASE UNCHANGED run
    BY <2>5
  <2> QED
    BY <2>2, <2>3, <2>4, <2>5
    DEF Next, Advance, Revalidate, Claim, EngineRefuses, Persist, Continue, Finalize,
        Restart, BuildOrchestrator, Replay, Request, Notify, NotifyNobody, Release, runs,
        vars
<1>4. Summary # "RUNNING" => Summary' = Summary
  BY <1>2, <1>3, SummaryStays
<1>5. "RUNNING" \notin {"none"} \cup Contract!Verdicts
  BY StatusFacts
<1>6. CASE parent' = parent
  BY <1>1, <1>4, <1>5, <1>6 DEF ParentAgrees, TypeOK
<1>7. CASE Finalize
  BY <1>1, <1>4, <1>5, <1>7 DEF ParentAgrees, Finalize, TypeOK
<1> QED
  BY <1>6, <1>7
  DEF Next, Advance, Revalidate, Claim, EngineDispatch, EngineRefuses, EngineSubmits,
      EngineStarts, Persist, Continue, Restart, BuildOrchestrator, Replay, Request,
      Notify, NotifyNobody, RunSettles, Release, rows, vars

(******************************* the invariant *****************************)

LEMMA InitTrue == Init => IndInv
<1> SUFFICES ASSUME Init PROVE IndInv
  OBVIOUS
<1>1. job = Idle /\ JobTrue
  BY DEF Init, Idle, JobTrue, Resting, Holding, Started, At
<1>2. job \in Jobs
  BY <1>1, IdleIsJob
<1>3. run \in [Units -> Contract!RunStatuses]
  BY DEF Init, Contract!RunStatuses
<1>4. TypeOK
  BY <1>2, <1>3, InputAssumption, CrashAssumption DEF Init, TypeOK, Jobs, Places
<1>5. (\A u \in Units : UnitTrue(u)) /\ OneWorker /\ AckTrue /\ ParentAgrees
  BY DEF Init, UnitTrue, OneWorker, AckTrue, ParentAgrees
<1> QED
  BY <1>1, <1>4, <1>5 DEF IndInv

\* In every reachable state runs exist only of claimed units whose dependencies passed,
\* the call in flight owns its unit, and the answers and the parent are true.
THEOREM Invariance == Spec => []IndInv
<1>1. IndInv /\ [Next]_vars => IndInv'
  <2> SUFFICES ASSUME IndInv, [Next]_vars PROVE IndInv'
    OBVIOUS
  <2>1. \A u \in Units : workers'[u] <= 1
    BY UnitStep
  <2>2. \A u \in Units : UnitTrue(u)'
    BY UnitStep
  <2> QED
    BY <2>1, <2>2, TypeStep, JobStep, AckStep, ParentStep DEF IndInv, OneWorker
<1> QED
  BY <1>1, InitTrue, PTL DEF Spec

\* The variables keep their types: the rows, the registry, the lock holder's place.
THEOREM TypeCorrect == Spec => []TypeOK
<1>1. IndInv => TypeOK
  BY DEF IndInv
<1> QED
  BY <1>1, Invariance, PTL

\* No unit of a workflow is ever submitted to OpenClaw twice: not by a duplicate request,
\* a second notification, or a dispatch that resumes after the process died.
THEOREM OneWorkerCorrect == Spec => []OneWorker
<1>1. IndInv => OneWorker
  BY DEF IndInv
<1> QED
  BY <1>1, Invariance, PTL

\* Every request answered with a run was answered with one that received its input.
THEOREM AckTrueCorrect == Spec => []AckTrue
<1>1. IndInv => AckTrue
  BY DEF IndInv
<1> QED
  BY <1>1, Invariance, PTL

\* Once _finalize_parent_if_terminal has written the parent's state, the live summary of
\* its runs never differs from it.
THEOREM ParentAgreesCorrect == Spec => []ParentAgrees
<1>1. IndInv => ParentAgrees
  BY DEF IndInv
<1> QED
  BY <1>1, Invariance, PTL

(******************************* the contract ******************************)

\* A verdict is born out when nothing can run any more.
LEMMA SummaryBornOut ==
    ASSUME IndInv, Summary # "RUNNING"
    PROVE  Summary \in Contract!Verdicts /\ Contract!BornOut(Summary)
<1>1. TypeOK /\ \A u \in Units : UnitTrue(u)
  BY DEF IndInv
<1>2. Summary \in Contract!Verdicts /\ \A u \in Units : ~Runnable(u)
  BY SummaryTerminal
<1>3. \A u \in Units : u \notin mapped =>
          /\ run[u] = "none"
          /\ \E d \in Deps[u] : run[d] \in Contract!Failures
  BY <1>1, <1>2 DEF Runnable, Ready, Waiting, Failed, UnitTrue, Clear
<1>4. \A u \in Units : u \in mapped => Contract!Ended(u)
  BY <1>1, <1>2, StatusFacts
  DEF Runnable, Live, UnitTrue, Contract!Ended, TypeOK, Contract!RunStatuses
<1>5. \A u \in Units : Contract!Ended(u)
                       \/ (run[u] = "none" /\ \E d \in Deps[u] : run[d] \in Contract!Failures)
  BY <1>3, <1>4
<1>6. \A u \in Required : u \in Units
  BY GraphAssumption
<1>7. \A u \in Required : Passed(u) <=> run[u] = "PASS"
  BY <1>3, <1>6 DEF Passed
<1>8. \A u \in Required : run[u] \in Contract!Unsuccessful => u \in mapped /\ ~Passed(u)
  BY <1>3, <1>6, StatusFacts DEF Passed
<1>9. (Summary = "COMPLETED") <=> (Required # {} /\ \A u \in Required : run[u] = "PASS")
  BY <1>2, <1>7 DEF Summary
<1>10. (Summary = "FAILED") <=> (\E u \in Required : run[u] \in Contract!Unsuccessful)
  BY <1>2, <1>8 DEF Summary
<1> QED
  BY <1>2, <1>5, <1>9, <1>10 DEF Contract!BornOut

\* Every step of the orchestrator is a step of the contract, or one it does not see.
LEMMA StepImplements ==
    ASSUME IndInv, [Next]_vars
    PROVE  [Contract!Next]_<<run, parent>>
<1>1. TypeOK /\ JobTrue /\ \A u \in Units : UnitTrue(u)
  BY DEF IndInv
<1>2. CASE EngineDispatch
  <2>1. job.unit \in Units /\ run[job.unit] = "none" /\ Clear(job.unit)
    BY <1>1, <1>2 DEF EngineDispatch, JobTrue, Holding, Resting, At
  <2>2. Contract!Start(job.unit)
    BY <1>2, <2>1 DEF EngineDispatch, Contract!Start, Clear, Passed, rows
  <2> QED
    BY <2>1, <2>2 DEF Contract!Next
<1>3. CASE EngineSubmits
  <2>1. job.unit \in Units /\ run[job.unit] = "QUEUED" /\ UNCHANGED parent
    BY <1>1, <1>3 DEF EngineSubmits, JobTrue, Resting, At, rows
  <2>2. CASE UNCHANGED run
    BY <2>1, <2>2
  <2>3. CASE \E v \in {"FAIL", "BLOCKED"} : run' = [run EXCEPT ![job.unit] = v]
    <3>1. Contract!RunMoves(job.unit)
      BY <2>1, <2>3, StatusFacts DEF Contract!RunMoves
    <3> QED
      BY <2>1, <3>1 DEF Contract!Next
  <2> QED
    BY <1>3, <2>2, <2>3 DEF EngineSubmits
<1>4. CASE EngineStarts
  <2>1. job.unit \in Units /\ run[job.unit] = "QUEUED"
    BY <1>1, <1>4 DEF EngineStarts, JobTrue, Resting, At
  <2>2. Contract!RunMoves(job.unit)
    BY <1>4, <2>1 DEF EngineStarts, Contract!RunMoves, rows
  <2> QED
    BY <2>1, <2>2 DEF Contract!Next
<1>5. CASE Finalize
  <2>1. CASE parent = "none" /\ Summary # "RUNNING"
    <3>1. Contract!Finalize
      BY <1>5, <2>1, SummaryBornOut DEF Finalize, Contract!Finalize, runs
    <3> QED
      BY <3>1 DEF Contract!Next
  <2>2. CASE ~(parent = "none" /\ Summary # "RUNNING")
    BY <1>5, <2>2 DEF Finalize, runs
  <2> QED
    BY <2>1, <2>2
<1>6. ASSUME NEW u \in Units, RunSettles(u) PROVE Contract!Next
  <2>1. Contract!RunMoves(u)
    BY <1>6, VerdictAssumption, StatusFacts DEF RunSettles, Contract!RunMoves, rows
  <2> QED
    BY <2>1 DEF Contract!Next
<1>7. CASE UNCHANGED <<run, parent>>
  BY <1>7
<1> QED
  BY <1>2, <1>3, <1>4, <1>5, <1>6, <1>7
  DEF Next, Advance, Revalidate, Claim, EngineRefuses, Persist, Continue, Restart,
      BuildOrchestrator, Replay, Request, Notify, NotifyNobody, Release, rows, runs, vars

\* The orchestrator, its restarts included, keeps the workflow contract: a run starts
\* after all it depends on has passed, and the parent is finalized at most once, with the
\* verdict the runs bear out.
THEOREM ImplementsContract == Spec => ContractSpec
<1>1. Init => Contract!Init
  BY DEF Init, Contract!Init
<1>2. IndInv /\ [Next]_vars => [Contract!Next]_<<run, parent>>
  BY StepImplements
<1> QED
  BY <1>1, <1>2, Invariance, PTL DEF Spec, ContractSpec, Contract!Spec, Contract!vars
===============================================================================
