---------------------------- MODULE AlertLedger ----------------------------
(***************************************************************************)
(* What the idempotency store is for (core/notification/ports.py,          *)
(* IdempotencyStore): of a key (domain, threshold, cycle, channel) one     *)
(* page at most is acknowledged, whoever checks, retries, renews or        *)
(* re-configures.  Pages whose answer is lost may come before it and never *)
(* after it.  A key is remembered only after its page was acknowledged and *)
(* is never forgotten.                                                     *)
(***************************************************************************)
EXTENDS Naturals

CONSTANT Key

VARIABLES
    pages,    \* how many pages of each key were acknowledged
    strays,   \* how many were taken without an acknowledgement
    recorded  \* the keys remembered as paged

ledger == <<pages, strays, recorded>>

LedgerInit ==
    /\ pages = [k \in Key |-> 0]
    /\ strays = [k \in Key |-> 0]
    /\ recorded = {}

Open(k) == pages[k] = 0 /\ k \notin recorded

Page(k) ==
    /\ Open(k)
    /\ pages' = [pages EXCEPT ![k] = 1]
    /\ UNCHANGED <<strays, recorded>>

LoseAnswer(k) ==
    /\ Open(k)
    /\ strays' = [strays EXCEPT ![k] = @ + 1]
    /\ UNCHANGED <<pages, recorded>>

Remember(k) ==
    /\ pages[k] = 1
    /\ recorded' = recorded \cup {k}
    /\ UNCHANGED <<pages, strays>>

LedgerNext == \E k \in Key : Page(k) \/ LoseAnswer(k) \/ Remember(k)

LedgerSpec == LedgerInit /\ [][LedgerNext]_ledger
============================================================================
