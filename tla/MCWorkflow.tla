------------------------------- MODULE MCWorkflow -------------------------------
(* Instances of WorkflowOrchestration: the graphs and the ways runs end. *)
EXTENDS WorkflowOrchestration

CONSTANTS a, b, c

\* b and c follow a; a chain; two roots joined by c.
Fork  == [u \in {a, b, c} |-> IF u = a THEN {} ELSE {a}]
Chain == [u \in {a, b, c} |-> CASE u = a -> {} [] u = b -> {a} [] u = c -> {b}]
Join  == [u \in {a, b, c} |-> IF u = c THEN {a, b} ELSE {}]

PassOnly     == {"PASS"}
PassOrFail   == {"PASS", "FAIL"}
PassOrBlocked == {"PASS", "BLOCKED"}
MostVerdicts == {"PASS", "FAIL", "BLOCKED", "CANCELLED"}
================================================================================
