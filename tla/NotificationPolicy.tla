------------------------ MODULE NotificationPolicy ------------------------
(***************************************************************************)
(* core/notification/policies.py: which thresholds a check result crosses. *)
(* Instants and durations are integers on one time line.  A LastCheck is a *)
(* record [at, expires_at]; None stands for "no previous check" and, as an *)
(* expires_at, for a result whose outcome is not OK (CheckResult and       *)
(* LastCheck both enforce outcome = OK <=> expires_at is set).  The cycle  *)
(* id is a hash of expires_at, so expires_at itself names the cycle.       *)
(***************************************************************************)
EXTENDS Integers

CONSTANT None

(* time_left <= threshold, with time_left measured at the instant `at'.    *)
Crossed(threshold, expires_at, at) == expires_at - at <= threshold

(* Mutant: any earlier check suppresses, whichever cycle it belongs to.    *)
CrossedBefore_AnyCycle(previous, expires_at, threshold) ==
    /\ previous # None
    /\ previous.expires_at # None
    /\ Crossed(threshold, previous.expires_at, previous.at)

(* A previous OK check of the SAME cycle had already crossed threshold.    *)
CrossedBefore(previous, expires_at, threshold) ==
    /\ previous # None
    /\ previous.expires_at = expires_at
    /\ Crossed(threshold, previous.expires_at, previous.at)

(* Mutant: the crossed_now test is forgotten.                              *)
AlertsFor_AnyTime(thresholds, previous, expires_at, now) ==
    {th \in thresholds : /\ expires_at # None
                         /\ ~CrossedBefore(previous, expires_at, th)}

(* The thresholds alerts_for returns an Alert for.  `thresholds' is the    *)
(* strictly descending tuple of the code, as a set.                        *)
AlertsFor(thresholds, previous, expires_at, now) ==
    {th \in thresholds : /\ expires_at # None
                         /\ Crossed(th, expires_at, now)
                         /\ ~CrossedBefore(previous, expires_at, th)}
===========================================================================
