----------------------------- MODULE EventBus -----------------------------
(***************************************************************************)
(* application/event_bus.py: the iterator side of InProcessEventBus.  Each *)
(* subscriber has an unbounded critical queue and a bounded standard one;  *)
(* publish fills them, _SubscriberIterator.__anext__ drains them through   *)
(* two racing get() tasks.  Events are numbered in publication order, the  *)
(* critical ones and the standard ones apart; the synthetic BusOverflow is *)
(* number 0 of the standard queue.                                         *)
(***************************************************************************)
EXTENDS Naturals, Sequences, FiniteSets

CONSTANTS
    Subscriber,
    MaxSize,      \* standard_maxsize
    MaxCritical,  \* bound: critical events published
    MaxStandard,  \* bound: standard events published
    None          \* "this get() task is not done"

ASSUME BusAssumption ==
    /\ MaxSize \in Nat \ {0}
    /\ MaxCritical \in Nat
    /\ MaxStandard \in Nat
    /\ None \notin Nat

BusOverflow == 0

VARIABLES
    criticals,  \* critical events published so far
    standards,  \* standard events published so far
    sub,        \* every subscriber: its queues and its iterator
    dropped     \* per subscriber, the standard events _enqueue discarded

vars == <<criticals, standards, sub, dropped>>

Event == Nat

(* status: "new" before events() is called, then "open", then "closed".    *)
(* pc: the iterator is outside __anext__ ("out"), has created its two      *)
(* get() tasks ("start"), or waits for one of them ("wait").  crit and std *)
(* are the results of the tasks.  base and base_std count the events       *)
(* published before the subscription, got and got_std are what __anext__   *)
(* returned, failed says whether it ever raised QueueFull.                 *)
SubscriberState ==
    [status : {"new", "open", "closed"}, pc : {"out", "start", "wait"},
     critical_q : Seq(Event), standard_q : Seq(Event),
     crit : Event \cup {None}, std : Event \cup {None},
     base : Nat, base_std : Nat, got : Seq(Event), got_std : Seq(Event),
     failed : BOOLEAN]

NewSubscriber ==
    [status |-> "new", pc |-> "out", critical_q |-> <<>>, standard_q |-> <<>>,
     crit |-> None, std |-> None, base |-> 0, base_std |-> 0, got |-> <<>>,
     got_std |-> <<>>, failed |-> FALSE]

Init ==
    /\ criticals = 0
    /\ standards = 0
    /\ sub = [s \in Subscriber |-> NewSubscriber]
    /\ dropped = [s \in Subscriber |-> {}]

IsOpen(s) == sub[s].status = "open"

---------------------------------------------------------------------------
(* events(): a fresh pair of queues.                                       *)
Subscribe(s) ==
    /\ sub[s].status = "new"
    /\ sub' = [sub EXCEPT ![s].status = "open", ![s].base = criticals,
                          ![s].base_std = standards]
    /\ UNCHANGED <<criticals, standards, dropped>>

(* _enqueue of a critical event.  The queue is unbounded, so the put never *)
(* waits and the timeout never strikes; every open subscriber gets it.     *)
PublishCritical ==
    /\ criticals < MaxCritical
    /\ criticals' = criticals + 1
    /\ sub' = [s \in Subscriber |->
                  IF IsOpen(s)
                  THEN [sub[s] EXCEPT !.critical_q = Append(@, criticals + 1)]
                  ELSE sub[s]]
    /\ UNCHANGED <<standards, dropped>>

(* Mutant: the oldest event is not dropped.                                *)
PutDroppingOldest_KeepsOldest(q, e) == Append(q, e)

(* put_nowait after dropping the oldest of a full queue.                   *)
PutDroppingOldest(q, e) ==
    Append(IF Len(q) >= MaxSize THEN Tail(q) ELSE q, e)

Elements(q) == {q[i] : i \in 1..Len(q)}

(* Mutant: no second marker while one is queued.                           *)
EnqueueStandard_OneMarker(q, e) ==
    IF Len(q) < MaxSize \/ BusOverflow \in Elements(q)
    THEN PutDroppingOldest(q, e)
    ELSE PutDroppingOldest(PutDroppingOldest(q, e), BusOverflow)

(* _enqueue of a standard event: on QueueFull the oldest goes, the event   *)
(* is put, and BusOverflow follows, dropping the oldest once more when     *)
(* there is still no room.                                                 *)
EnqueueStandard(q, e) ==
    IF Len(q) < MaxSize
    THEN Append(q, e)
    ELSE PutDroppingOldest(PutDroppingOldest(q, e), BusOverflow)

PublishStandard ==
    /\ standards < MaxStandard
    /\ standards' = standards + 1
    /\ LET e == standards + 1
           after(s) == EnqueueStandard(sub[s].standard_q, e)
       IN /\ sub' = [s \in Subscriber |->
                        IF IsOpen(s)
                        THEN [sub[s] EXCEPT !.standard_q = after(s)]
                        ELSE sub[s]]
          /\ dropped' = [s \in Subscriber |->
                dropped[s] \cup
                    IF IsOpen(s)
                    THEN (Elements(sub[s].standard_q) \cup {e})
                             \ (Elements(after(s)) \cup {BusOverflow})
                    ELSE {}]
    /\ UNCHANGED criticals

---------------------------------------------------------------------------
(* __anext__ on an open subscriber creates the two get() tasks.            *)
CallNext(s) ==
    /\ IsOpen(s)
    /\ sub[s].pc = "out"
    /\ sub' = [sub EXCEPT ![s].pc = "start"]
    /\ UNCHANGED <<criticals, standards, dropped>>

Front(q) == IF q = <<>> THEN None ELSE Head(q)
Rest(q)  == IF q = <<>> THEN q ELSE Tail(q)

(* The two tasks run one right after the other: each takes the head of its *)
(* queue or starts to wait for one.                                        *)
FirstRun(s) ==
    /\ sub[s].pc = "start"
    /\ sub' = [sub EXCEPT ![s].pc = "wait",
                          ![s].crit = Front(sub[s].critical_q),
                          ![s].critical_q = Rest(sub[s].critical_q),
                          ![s].std = Front(sub[s].standard_q),
                          ![s].standard_q = Rest(sub[s].standard_q)]
    /\ UNCHANGED <<criticals, standards, dropped>>

(* A waiting task is woken by a put and takes the head of its queue.       *)
CriticalGet(s) ==
    /\ sub[s].pc = "wait"
    /\ sub[s].crit = None
    /\ sub[s].critical_q # <<>>
    /\ sub' = [sub EXCEPT ![s].crit = Head(sub[s].critical_q),
                          ![s].critical_q = Tail(sub[s].critical_q)]
    /\ UNCHANGED <<criticals, standards, dropped>>

StandardGet(s) ==
    /\ sub[s].pc = "wait"
    /\ sub[s].std = None
    /\ sub[s].standard_q # <<>>
    /\ sub' = [sub EXCEPT ![s].std = Head(sub[s].standard_q),
                          ![s].standard_q = Tail(sub[s].standard_q)]
    /\ UNCHANGED <<criticals, standards, dropped>>

(* Mutant: the pulled standard event is not put back.                      *)
ReturnCritical_NoRequeue(s) ==
    /\ sub[s].pc = "wait"
    /\ sub[s].crit # None
    /\ sub' = [sub EXCEPT ![s].pc = "out", ![s].crit = None, ![s].std = None,
                          ![s].got = Append(@, sub[s].crit)]
    /\ UNCHANGED <<criticals, standards, dropped>>

(* _wait_for_either resumes with the critical task done: a standard event  *)
(* that was pulled as well goes back to the tail of its queue.             *)
ReturnCritical(s) ==
    /\ sub[s].pc = "wait"
    /\ sub[s].crit # None
    /\ sub[s].std = None \/ Len(sub[s].standard_q) < MaxSize
    /\ sub' = [sub EXCEPT ![s].pc = "out", ![s].crit = None, ![s].std = None,
                          ![s].got = Append(@, sub[s].crit),
                          ![s].standard_q = IF sub[s].std = None THEN @
                                            ELSE Append(@, sub[s].std)]
    /\ UNCHANGED <<criticals, standards, dropped>>

(* ... or, when a publish has filled that queue meanwhile, put_nowait      *)
(* raises QueueFull out of __anext__ and both events are gone.             *)
ReturnQueueFull(s) ==
    /\ sub[s].pc = "wait"
    /\ sub[s].crit # None
    /\ sub[s].std # None
    /\ Len(sub[s].standard_q) >= MaxSize
    /\ sub' = [sub EXCEPT ![s].pc = "out", ![s].crit = None, ![s].std = None,
                          ![s].failed = TRUE]
    /\ UNCHANGED <<criticals, standards, dropped>>

(* Mutant: a finished standard task wins over a finished critical one.     *)
ReturnStandard_First(s) ==
    /\ sub[s].pc = "wait"
    /\ sub[s].std # None
    /\ sub' = [sub EXCEPT ![s].pc = "out", ![s].crit = None, ![s].std = None,
                          ![s].got_std = Append(@, sub[s].std)]
    /\ UNCHANGED <<criticals, standards, dropped>>

(* Only the standard task is done: the critical get() is cancelled.        *)
ReturnStandard(s) ==
    /\ sub[s].pc = "wait"
    /\ sub[s].crit = None
    /\ sub[s].std # None
    /\ sub' = [sub EXCEPT ![s].pc = "out", ![s].std = None,
                          ![s].got_std = Append(@, sub[s].std)]
    /\ UNCHANGED <<criticals, standards, dropped>>

(* The consumer is cancelled inside __anext__, or the iterator is garbage  *)
(* collected outside of it: the subscriber is closed and taken off the bus.*)
DropSubscriber(s) ==
    /\ IsOpen(s)
    /\ sub' = [sub EXCEPT ![s].status = "closed", ![s].pc = "out",
                          ![s].crit = None, ![s].std = None]
    /\ UNCHANGED <<criticals, standards, dropped>>

---------------------------------------------------------------------------
Iterate(s) ==
    \/ FirstRun(s) \/ CriticalGet(s) \/ StandardGet(s)
    \/ ReturnCritical(s) \/ ReturnQueueFull(s) \/ ReturnStandard(s)

Next ==
    \/ PublishCritical \/ PublishStandard
    \/ \E s \in Subscriber : Subscribe(s) \/ CallNext(s) \/ Iterate(s)
                                \/ DropSubscriber(s)

Spec == Init /\ [][Next]_vars

(* A consumer that keeps iterating; the loop runs its get() tasks and      *)
(* resumes it.                                                             *)
FairSpec ==
    Spec /\ \A s \in Subscriber : WF_vars(CallNext(s)) /\ WF_vars(Iterate(s))

---------------------------------------------------------------------------
(* Properties.                                                             *)

(* Type invariant; the standard queue never exceeds standard_maxsize.      *)
TypeOK ==
    /\ criticals \in Nat
    /\ standards \in Nat
    /\ sub \in [Subscriber -> SubscriberState]
    /\ dropped \in [Subscriber -> SUBSET Nat]
    /\ \A s \in Subscriber :
          /\ Len(sub[s].standard_q) <= MaxSize
          /\ sub[s].pc # "wait" => sub[s].crit = None /\ sub[s].std = None
          /\ sub[s].status # "open" => sub[s].pc = "out"

Held(s) == IF sub[s].crit = None THEN 0 ELSE 1

(* The critical events an open subscriber has received, is receiving and   *)
(* has queued are the ones published since it subscribed, in order, none   *)
(* missing and none twice.                                                 *)
CriticalInOrder(s) ==
    LET n == sub[s].base + Len(sub[s].got)
    IN /\ \A i \in 1..Len(sub[s].got) : sub[s].got[i] = sub[s].base + i
       /\ sub[s].crit # None => sub[s].crit = n + 1
       /\ \A i \in 1..Len(sub[s].critical_q) :
             sub[s].critical_q[i] = n + Held(s) + i
       /\ n + Held(s) + Len(sub[s].critical_q) = criticals

(* No critical event is lost, duplicated or reordered for an open          *)
(* subscriber, through all the races of the two get() tasks, unless its    *)
(* __anext__ raised QueueFull.                                             *)
CriticalSafe ==
    \A s \in Subscriber : IsOpen(s) /\ ~sub[s].failed => CriticalInOrder(s)

(* event_bus.py: critical events are NEVER silently dropped.               *)
CriticalNeverDropped == \A s \in Subscriber : IsOpen(s) => CriticalInOrder(s)

(* Whatever standard event _enqueue threw away, the subscriber is told: a  *)
(* BusOverflow is queued, pulled or returned (overflows may drop earlier   *)
(* markers, never the last one), unless __anext__ raised QueueFull.        *)
DropsAnnounced ==
    \A s \in Subscriber :
        IsOpen(s) /\ ~sub[s].failed /\ dropped[s] # {} =>
            BusOverflow \in Elements(sub[s].standard_q)
                               \cup Elements(sub[s].got_std) \cup {sub[s].std}

(* A standard event reaches the subscriber, waits for it or was dropped by *)
(* an overflow, unless __anext__ raised QueueFull (which loses the event   *)
(* that was to go back): a put-back that succeeds neither loses nor        *)
(* duplicates one.                                                         *)
StandardAccounted ==
    \A s \in Subscriber :
        IsOpen(s) /\ ~sub[s].failed =>
            LET all == sub[s].got_std \o sub[s].standard_q
                         \o (IF sub[s].std = None THEN <<>> ELSE <<sub[s].std>>)
                real == {i \in 1..Len(all) : all[i] # BusOverflow}
            IN /\ \A i, j \in real : all[i] = all[j] => i = j
               /\ \A i \in real : all[i] \notin dropped[s]
               /\ \A n \in (sub[s].base_std + 1)..standards :
                     n \in dropped[s] \cup Elements(all)

(* A consumer that keeps calling __anext__ receives every critical event,  *)
(* however many standard events compete for it.                            *)
CriticalReceived ==
    \A s \in Subscriber : \A n \in 1..MaxCritical :
        (IsOpen(s) /\ sub[s].base < n /\ n <= criticals)
            ~> (~IsOpen(s) \/ sub[s].failed \/ Len(sub[s].got) >= n - sub[s].base)
===========================================================================
