------------------------------- MODULE MCDelivery -------------------------------
(* Instances of DeliveryWorker: one or two tasks, one or two agents. *)
EXTENDS DeliveryWorker

CONSTANTS t1, t2, a1, a2

OneTask  == {t1}
TwoTasks == {t1, t2}
OneAgent  == {a1}
TwoAgents == {a1, a2}
EverybodyOnEverything == [t \in Tasks |-> Agents]
Nobody == {}

=================================================================================
