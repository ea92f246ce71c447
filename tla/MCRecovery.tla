------------------------------- MODULE MCRecovery -------------------------------
(***************************************************************************)
(* Instances of RunRecovery for TLC: one direct run and two possible       *)
(* children.  A chain and a second recovery of one run need two children,  *)
(* and the locks are the harness lock, the engine lock and one per run, so *)
(* every circle of waits two threads can close is there.                   *)
(***************************************************************************)
EXTENDS RunRecovery
================================================================================
