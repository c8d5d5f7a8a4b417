----------------------------- MODULE MCWatcher -----------------------------
(***************************************************************************)
(* Instances of Watcher for TLC.  Time is counted in days; a domain that   *)
(* expires on day 2 with a one-day threshold is crossed from day 1 on.     *)
(***************************************************************************)
EXTENDS Watcher, TLC

CONSTANTS d1, c1, c2, c3

(* One threshold, one channel.                                             *)
Plain == [checker |-> "rdap", cron |-> "daily", channels |-> <<c1>>,
          thresholds |-> {1}]

(* Never scheduled by itself, but met by a job that has run before: the    *)
(* cron has five fields and no meaning (CheckSchedule lets it pass), the   *)
(* checker id is no longer registered, the channel's notifier neither.     *)
Orphan == [checker |-> "gone", cron |-> "bad", channels |-> <<c2>>,
           thresholds |-> {1}]

(* A channel the resolver does not know beside one it knows.               *)
Typo == [checker |-> "rdap", cron |-> "bad", channels |-> <<c1, c3>>,
         thresholds |-> {1}]

PlainOnly == {Plain}
Faulty    == {Plain, Orphan, Typo}
============================================================================
