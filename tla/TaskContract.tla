------------------------------ MODULE TaskContract ------------------------------
(***************************************************************************)
(* What the War Room promises about tasks, whatever their deliveries, the  *)
(* reviewers and the runtime thread do: the order of its statuses, and the *)
(* revision that tells the work of one execution from the work of another. *)
(* A revision is abandoned for good (it goes up) whenever its result is    *)
(* refused or its execution is stopped, and a completed task is final.     *)
(***************************************************************************)
EXTENDS Naturals

CONSTANT Tasks
VARIABLES status, revision

To(t, from, to) == status[t] \in from /\ status'[t] = to
Kept(t)         == revision'[t] = revision[t]
Renewed(t)      == revision'[t] = revision[t] + 1

Init == /\ status = [t \in Tasks |-> "awaiting_approval"]
        /\ revision = [t \in Tasks |-> 1]

\* A representative decides whether this revision is executed.
Decide(t) == /\ \/ To(t, {"awaiting_approval"}, "approved")
                \/ To(t, {"awaiting_approval"}, "draft")
                \/ To(t, {"draft", "rework_required"}, "awaiting_approval")
             /\ Kept(t)

Execute(t) == To(t, {"awaiting_approval", "approved"}, "running") /\ Kept(t)
Answer(t)  == To(t, {"running"}, "qa") /\ Kept(t)
\* QA is opened again for a result that was refused, under the revision that followed it.
Reconsider(t) == To(t, {"rework_required"}, "qa") /\ Kept(t)
Accept(t)  == To(t, {"qa"}, "completed") /\ Kept(t)

\* Every refusal, by a validator, a reviewer or the representative.
Refuse(t) == To(t, {"running", "qa"}, "rework_required") /\ Renewed(t)

\* A stop, confirmed or not; one that repeats the status it finds changes nothing.  A halt
\* is a stop that leaves it to Reopen to abandon the revision.
Halt(t) == /\ \/ To(t, {"approved", "running"}, "stopped")
              \/ To(t, {"running"}, "stop_unconfirmed")
           /\ Kept(t)
Stop(t) == /\ status[t] # "completed" /\ status'[t] \in {"stopped", "stop_unconfirmed"} \ {status[t]}
           /\ Renewed(t)
Reopen(t) == To(t, {"stopped", "stop_unconfirmed"}, "awaiting_approval") /\ Renewed(t)

Same(t) == status'[t] = status[t] /\ Kept(t)
Step(t) == Decide(t) \/ Execute(t) \/ Answer(t) \/ Reconsider(t) \/ Accept(t) \/ Refuse(t) \/ Halt(t)
           \/ Stop(t) \/ Reopen(t)

\* Several tasks may move at once: a project is stopped as a whole.
Next == \A t \in Tasks : Step(t) \/ Same(t)

Spec == Init /\ [][Next]_<<status, revision>>
=================================================================================
