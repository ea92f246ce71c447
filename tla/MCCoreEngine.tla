------------------------------ MODULE MCCoreEngine ------------------------------
(***************************************************************************)
(* Instances of CoreEngine for TLC: one run, with the ways its worker may  *)
(* end, the user cancel paths and the restarts chosen per configuration.   *)
(* Runs share nothing but the engine lock, so one run meets every race of  *)
(* its own threads; CoreEngineProofs covers every set of runs.             *)
(***************************************************************************)
EXTENDS CoreEngine

AllEnds      == Contract!Endings
PassOrError  == {"pass", "error"}
DriftOrError == {"progress", "drift", "error"}
OnlyDrift    == {"drift"}
================================================================================
