---------------------------- MODULE MCEventBus ----------------------------
(* EventBus for TLC.  One subscriber shows every race of its own queues;   *)
(* subscribers share nothing but the counters.                             *)
EXTENDS EventBus
===========================================================================
