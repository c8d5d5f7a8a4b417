---------------------------- MODULE MCHotReload ----------------------------
(* Instances of HotReload for TLC.                                         *)
EXTENDS HotReload, TLC

CONSTANTS d1, d2

Pair(x, y) == (d1 :> x) @@ (d2 :> y)

(* One domain; both; both with other crons, one of which does not parse.   *)
SmallConfigs ==
    {Pair("daily", None), Pair("hourly", "daily"), Pair("bad", "hourly")}
============================================================================
