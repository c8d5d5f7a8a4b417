----------------------------- MODULE MCAdapters -----------------------------
(* Adapters for TLC: a call of any kind beside a check, which shares the   *)
(* registry cache with an RDAP call; the other calls share only the pool,  *)
(* whose one thread an abandoned WHOIS call of an earlier attempt may hold.*)
EXTENDS Adapters, TLC

CONSTANTS t1, t2

AnyBesideCheck == (t1 :> Checkers \cup Notifiers) @@ (t2 :> {"rdap"})
============================================================================
