-------------------------- MODULE MCEventCallbacks --------------------------
(* EventCallbacks for TLC: two handlers, one of which may hang, one        *)
(* iterator, and one task whose checks succeed or fail.                    *)
EXTENDS EventCallbacks, TLC

CONSTANT p1

EveryType == p1 :> {Completed, Failed}
============================================================================
