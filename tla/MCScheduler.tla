---------------------------- MODULE MCScheduler ----------------------------
(* Instances of Scheduler for TLC, and the mutants of its definitions.     *)
EXTENDS Scheduler
=============================================================================
