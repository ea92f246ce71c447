---------------------------- MODULE WorkflowContract ----------------------------
(***************************************************************************)
(* What the War Room promises about one compiled workflow, whatever thread *)
(* or restart moves it: a unit's run starts only after every run it        *)
(* depends on has passed, and the parent task is finalized at most once,   *)
(* with the verdict its runs bear out.                                     *)
(*                                                                         *)
(* WorkflowOrchestration.tla implements this specification.                *)
(***************************************************************************)
CONSTANTS
    Units,      \* execution units of the workflow
    Deps,       \* Deps[u]: the units u depends on
    Required    \* units whose role is not "observer"

VARIABLES
    run,        \* run[u]: status of the Core run of u, "none" before create
    parent      \* the durable parent projection, "none" before finalization

vars == <<run, parent>>

Unsuccessful == {"FAIL", "TIMEOUT", "CANCELLED"}
Failures     == Unsuccessful \cup {"BLOCKED"}
Active       == {"QUEUED", "RUNNING"}
RunStatuses  == {"none", "PASS"} \cup Active \cup Failures
Verdicts     == {"COMPLETED", "FAILED", "BLOCKED"}

Ended(u) == run[u] = "PASS" \/ run[u] \in Failures

\* The verdicts the runs support once nothing more can happen: no run is active,
\* and a unit that never ran waits behind one that did not pass.
BornOut(verdict) ==
    /\ \A u \in Units : Ended(u) \/ (run[u] = "none" /\ \E d \in Deps[u] : run[d] \in Failures)
    /\ (verdict = "COMPLETED") <=> (Required # {} /\ \A u \in Required : run[u] = "PASS")
    /\ (verdict = "FAILED") <=> (\E u \in Required : run[u] \in Unsuccessful)

Init ==
    /\ run = [u \in Units |-> "none"]
    /\ parent = "none"

Start(u) ==
    /\ run[u] = "none"
    /\ \A d \in Deps[u] : run[d] = "PASS"
    /\ run' = [run EXCEPT ![u] = "QUEUED"]
    /\ UNCHANGED parent

RunMoves(u) ==
    /\ \/ run[u] = "QUEUED"  /\ run' = [run EXCEPT ![u] = "RUNNING"]
       \/ run[u] \in Active  /\ \E v \in Failures : run' = [run EXCEPT ![u] = v]
       \/ run[u] = "RUNNING" /\ run' = [run EXCEPT ![u] = "PASS"]
       \/ run[u] = "FAIL"    /\ run' = [run EXCEPT ![u] = "CANCELLED"]
    /\ UNCHANGED parent

Finalize ==
    /\ parent = "none"
    /\ \E verdict \in Verdicts : BornOut(verdict) /\ parent' = verdict
    /\ UNCHANGED run

Next == Finalize \/ \E u \in Units : Start(u) \/ RunMoves(u)
Spec == Init /\ [][Next]_vars
================================================================================
