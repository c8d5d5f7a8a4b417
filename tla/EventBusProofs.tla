--------------------------- MODULE EventBusProofs ---------------------------
(***************************************************************************)
(* Proofs about EventBus, for any set of subscribers and any               *)
(* standard_maxsize > 0.                                                   *)
(***************************************************************************)
EXTENDS EventBus, TLAPS

(* The queue operations stay within asyncio.Queue's types and maxsize.     *)
LEMMA QueueTypes ==
    ASSUME NEW q \in Seq(Event), NEW e \in Event, Len(q) <= MaxSize
    PROVE  /\ PutDroppingOldest(q, e) \in Seq(Event)
           /\ Len(PutDroppingOldest(q, e)) <= MaxSize
           /\ EnqueueStandard(q, e) \in Seq(Event)
           /\ Len(EnqueueStandard(q, e)) <= MaxSize
<1>1. ASSUME NEW r \in Seq(Event), NEW f \in Event, Len(r) <= MaxSize
      PROVE  /\ PutDroppingOldest(r, f) \in Seq(Event)
             /\ Len(PutDroppingOldest(r, f)) <= MaxSize
  <2>1. CASE Len(r) >= MaxSize
    <3>1. r # <<>>
      BY <2>1, BusAssumption
    <3>2. Tail(r) \in Seq(Event) /\ Len(Tail(r)) = Len(r) - 1
      BY <3>1
    <3>3. PutDroppingOldest(r, f) = Append(Tail(r), f)
      BY <2>1 DEF PutDroppingOldest
    <3> QED
      BY <1>1, <3>2, <3>3, BusAssumption
  <2>2. CASE ~(Len(r) >= MaxSize)
    <3>1. PutDroppingOldest(r, f) = Append(r, f)
      BY <2>2 DEF PutDroppingOldest
    <3> QED
      BY <2>2, <3>1, BusAssumption
  <2> QED
    BY <2>1, <2>2
<1>2. BusOverflow \in Event
  BY DEF BusOverflow, Event
<1>3. CASE Len(q) < MaxSize
  <2>1. EnqueueStandard(q, e) = Append(q, e)
    BY <1>3 DEF EnqueueStandard
  <2> QED
    BY <1>1, <1>3, <2>1, BusAssumption
<1>4. CASE ~(Len(q) < MaxSize)
  <2>1. EnqueueStandard(q, e)
            = PutDroppingOldest(PutDroppingOldest(q, e), BusOverflow)
    BY <1>4 DEF EnqueueStandard
  <2> QED
    BY <1>1, <1>2, <2>1
<1> QED
  BY <1>3, <1>4

(* Type invariant of one subscriber.                                       *)
SubscriberOK(r) ==
    /\ r \in SubscriberState
    /\ Len(r.standard_q) <= MaxSize
    /\ r.pc # "wait" => r.crit = None /\ r.std = None
    /\ r.status # "open" => r.pc = "out"

(* The bus starts well typed.                                              *)
LEMMA TypeInit == Init => TypeOK
<1>1. SubscriberOK(NewSubscriber)
  BY BusAssumption DEF SubscriberOK, SubscriberState, NewSubscriber, Event
<1> QED
  BY <1>1 DEF Init, TypeOK, SubscriberOK, NewSubscriber

(* A step of one subscriber's iterator leaves that subscriber well typed.  *)
LEMMA IterateType ==
    ASSUME TypeOK, NEW s \in Subscriber,
           Subscribe(s) \/ CallNext(s) \/ Iterate(s) \/ DropSubscriber(s)
    PROVE  /\ \E r : SubscriberOK(r) /\ sub' = [sub EXCEPT ![s] = r]
           /\ UNCHANGED <<criticals, standards, dropped>>
<1> DEFINE r == sub[s]
<1>0. SubscriberOK(r) /\ criticals \in Nat /\ standards \in Nat
  BY DEF TypeOK, SubscriberOK
<1>1. CASE Subscribe(s)
  <2> DEFINE n == [r EXCEPT !.status = "open", !.base = criticals,
                            !.base_std = standards]
  <2>1. SubscriberOK(n)
    BY <1>0, <1>1 DEF SubscriberOK, SubscriberState, Subscribe
  <2>2. sub' = [sub EXCEPT ![s] = n]
    BY <1>1 DEF Subscribe, TypeOK
  <2> QED
    BY <1>1, <2>1, <2>2 DEF Subscribe
<1>2. CASE CallNext(s)
  <2> DEFINE n == [r EXCEPT !.pc = "start"]
  <2>1. SubscriberOK(n)
    BY <1>0, <1>2 DEF SubscriberOK, SubscriberState, CallNext, IsOpen
  <2>2. sub' = [sub EXCEPT ![s] = n]
    BY <1>2 DEF CallNext, TypeOK
  <2> QED
    BY <1>2, <2>1, <2>2 DEF CallNext
<1>3. CASE FirstRun(s)
  <2> DEFINE n == [r EXCEPT !.pc = "wait",
                            !.crit = Front(r.critical_q),
                            !.critical_q = Rest(r.critical_q),
                            !.std = Front(r.standard_q),
                            !.standard_q = Rest(r.standard_q)]
  <2>1. ASSUME NEW q \in Seq(Event)
        PROVE  /\ Front(q) \in Event \cup {None}
               /\ Rest(q) \in Seq(Event)
               /\ Len(Rest(q)) <= Len(q)
    BY DEF Front, Rest
  <2>2. r.critical_q \in Seq(Event) /\ r.standard_q \in Seq(Event)
    BY <1>0 DEF SubscriberOK, SubscriberState
  <2>3. n \in SubscriberState
    BY <1>0, <2>1, <2>2 DEF SubscriberOK, SubscriberState
  <2>4. Len(n.standard_q) <= MaxSize
    BY <1>0, <2>1, <2>2, BusAssumption DEF SubscriberOK, SubscriberState
  <2>5. SubscriberOK(n)
    BY <1>0, <1>3, <2>3, <2>4 DEF SubscriberOK, SubscriberState, FirstRun
  <2>6. sub' = [sub EXCEPT ![s] = n]
    BY <1>3 DEF FirstRun, TypeOK
  <2> QED
    BY <1>3, <2>5, <2>6 DEF FirstRun
<1>4. CASE CriticalGet(s)
  <2> DEFINE n == [r EXCEPT !.crit = Head(r.critical_q),
                            !.critical_q = Tail(r.critical_q)]
  <2>1. Head(r.critical_q) \in Event /\ Tail(r.critical_q) \in Seq(Event)
    BY <1>0, <1>4 DEF SubscriberOK, SubscriberState, CriticalGet
  <2>2. SubscriberOK(n)
    BY <1>0, <1>4, <2>1 DEF SubscriberOK, SubscriberState, CriticalGet
  <2>3. sub' = [sub EXCEPT ![s] = n]
    BY <1>4 DEF CriticalGet, TypeOK
  <2> QED
    BY <1>4, <2>2, <2>3 DEF CriticalGet
<1>5. CASE StandardGet(s)
  <2> DEFINE n == [r EXCEPT !.std = Head(r.standard_q),
                            !.standard_q = Tail(r.standard_q)]
  <2>1. /\ Head(r.standard_q) \in Event
        /\ Tail(r.standard_q) \in Seq(Event)
        /\ Len(Tail(r.standard_q)) <= MaxSize
    BY <1>0, <1>5, BusAssumption
    DEF SubscriberOK, SubscriberState, StandardGet
  <2>2. SubscriberOK(n)
    BY <1>0, <1>5, <2>1 DEF SubscriberOK, SubscriberState, StandardGet
  <2>3. sub' = [sub EXCEPT ![s] = n]
    BY <1>5 DEF StandardGet, TypeOK
  <2> QED
    BY <1>5, <2>2, <2>3 DEF StandardGet
<1>6. CASE ReturnCritical(s)
  <2> DEFINE q == IF r.std = None THEN r.standard_q
                  ELSE Append(r.standard_q, r.std)
             n == [r EXCEPT !.pc = "out", !.crit = None, !.std = None,
                            !.got = Append(@, r.crit), !.standard_q = q]
  <2>1. q \in Seq(Event) /\ Len(q) <= MaxSize
    BY <1>0, <1>6, BusAssumption
    DEF SubscriberOK, SubscriberState, ReturnCritical
  <2>2. Append(r.got, r.crit) \in Seq(Event)
    BY <1>0, <1>6 DEF SubscriberOK, SubscriberState, ReturnCritical
  <2>3. SubscriberOK(n)
    BY <1>0, <2>1, <2>2 DEF SubscriberOK, SubscriberState
  <2>4. sub' = [sub EXCEPT ![s] = n]
    BY <1>6 DEF ReturnCritical, TypeOK
  <2> QED
    BY <1>6, <2>3, <2>4 DEF ReturnCritical
<1>7. CASE ReturnQueueFull(s)
  <2> DEFINE n == [r EXCEPT !.pc = "out", !.crit = None, !.std = None,
                            !.failed = TRUE]
  <2>1. SubscriberOK(n)
    BY <1>0 DEF SubscriberOK, SubscriberState
  <2>2. sub' = [sub EXCEPT ![s] = n]
    BY <1>7 DEF ReturnQueueFull, TypeOK
  <2> QED
    BY <1>7, <2>1, <2>2 DEF ReturnQueueFull
<1>8. CASE ReturnStandard(s)
  <2> DEFINE n == [r EXCEPT !.pc = "out", !.std = None,
                            !.got_std = Append(@, r.std)]
  <2>1. Append(r.got_std, r.std) \in Seq(Event)
    BY <1>0, <1>8 DEF SubscriberOK, SubscriberState, ReturnStandard
  <2>2. SubscriberOK(n)
    BY <1>0, <1>8, <2>1 DEF SubscriberOK, SubscriberState, ReturnStandard
  <2>3. sub' = [sub EXCEPT ![s] = n]
    BY <1>8 DEF ReturnStandard, TypeOK
  <2> QED
    BY <1>8, <2>2, <2>3 DEF ReturnStandard
<1>9. CASE DropSubscriber(s)
  <2> DEFINE n == [r EXCEPT !.status = "closed", !.pc = "out",
                            !.crit = None, !.std = None]
  <2>1. SubscriberOK(n)
    BY <1>0 DEF SubscriberOK, SubscriberState
  <2>2. sub' = [sub EXCEPT ![s] = n]
    BY <1>9 DEF DropSubscriber, TypeOK
  <2> QED
    BY <1>9, <2>1, <2>2 DEF DropSubscriber
<1> QED
  BY <1>1, <1>2, <1>3, <1>4, <1>5, <1>6, <1>7, <1>8, <1>9 DEF Iterate

(* The type invariant is inductive.                                        *)
LEMMA TypeStep == TypeOK /\ [Next]_vars => TypeOK'
<1> SUFFICES ASSUME TypeOK, [Next]_vars PROVE TypeOK'
  OBVIOUS
<1>1. CASE PublishCritical
  <2>1. \A s \in Subscriber : SubscriberOK(sub'[s])
    <3> TAKE s \in Subscriber
    <3>1. SubscriberOK(sub[s]) /\ criticals + 1 \in Event
      BY DEF TypeOK, SubscriberOK, Event
    <3>2. SubscriberOK([sub[s] EXCEPT !.critical_q = Append(@, criticals + 1)])
      <4>1. sub[s].critical_q \in Seq(Event)
        BY <3>1 DEF SubscriberOK, SubscriberState
      <4>2. Append(sub[s].critical_q, criticals + 1) \in Seq(Event)
        BY <3>1, <4>1
      <4> QED
        BY <3>1, <4>2 DEF SubscriberOK, SubscriberState
    <3> QED
      BY <1>1, <3>1, <3>2 DEF PublishCritical
  <2> QED
    BY <1>1, <2>1 DEF TypeOK, PublishCritical, SubscriberOK
<1>2. CASE PublishStandard
  <2>1. \A s \in Subscriber : SubscriberOK(sub'[s])
    <3> TAKE s \in Subscriber
    <3> DEFINE q == EnqueueStandard(sub[s].standard_q, standards + 1)
    <3>1. /\ SubscriberOK(sub[s])
          /\ standards + 1 \in Event
          /\ sub[s].standard_q \in Seq(Event)
      BY DEF TypeOK, SubscriberOK, SubscriberState, Event
    <3>2. q \in Seq(Event) /\ Len(q) <= MaxSize
      BY <3>1, QueueTypes DEF SubscriberOK
    <3>3. SubscriberOK([sub[s] EXCEPT !.standard_q = q])
      BY <3>1, <3>2 DEF SubscriberOK, SubscriberState
    <3> QED
      BY <1>2, <3>1, <3>3 DEF PublishStandard
  <2>2. sub' \in [Subscriber -> SubscriberState]
    BY <1>2, <2>1 DEF PublishStandard, SubscriberOK
  <2>3. dropped' \in [Subscriber -> SUBSET Nat]
    <3>1. \A s \in Subscriber : Elements(sub[s].standard_q) \subseteq Nat
      BY DEF TypeOK, SubscriberState, Elements, Event
    <3> QED
      BY <1>2, <3>1 DEF TypeOK, PublishStandard
  <2> QED
    BY <1>2, <2>1, <2>2, <2>3 DEF TypeOK, PublishStandard, SubscriberOK
<1>3. ASSUME NEW s \in Subscriber,
             Subscribe(s) \/ CallNext(s) \/ Iterate(s) \/ DropSubscriber(s)
      PROVE  TypeOK'
  <2>1. PICK r : SubscriberOK(r) /\ sub' = [sub EXCEPT ![s] = r]
    BY <1>3, IterateType
  <2>2. UNCHANGED <<criticals, standards, dropped>>
    BY <1>3, IterateType
  <2> QED
    BY <2>1, <2>2 DEF TypeOK, SubscriberOK
<1>4. CASE UNCHANGED vars
  BY <1>4 DEF TypeOK, vars
<1> QED
  BY <1>1, <1>2, <1>3, <1>4 DEF Next

(* Type correctness, which includes that no publish and no put-back of     *)
(* _wait_for_either ever exceeds standard_maxsize.                         *)
THEOREM BusTypeCorrect == Spec => []TypeOK
BY TypeInit, TypeStep, PTL DEF Spec

---------------------------------------------------------------------------
(* No critical event is lost, duplicated or reordered.                     *)

(* CriticalInOrder of a subscriber that subscribed after base events, has  *)
(* received got, holds crit and has q queued, with c events published.     *)
InOrder(base, got, crit, q, c) ==
    LET held == IF crit = None THEN 0 ELSE 1
        n == base + Len(got)
    IN /\ \A i \in 1..Len(got) : got[i] = base + i
       /\ crit # None => crit = n + 1
       /\ \A i \in 1..Len(q) : q[i] = n + held + i
       /\ n + held + Len(q) = c

Safe(r, c) ==
    r.status = "open" /\ ~r.failed =>
        InOrder(r.base, r.got, r.crit, r.critical_q, c)

(* A get() task that takes the head of the critical queue keeps the order. *)
LEMMA TakeInOrder ==
    ASSUME NEW base \in Nat, NEW got \in Seq(Event), NEW q \in Seq(Event),
           NEW c \in Nat, q # <<>>, InOrder(base, got, None, q, c)
    PROVE  InOrder(base, got, Head(q), Tail(q), c)
<1>1. /\ Head(q) = q[1] /\ Head(q) # None /\ Len(q) \in Nat /\ Len(q) > 0
      /\ Len(Tail(q)) = Len(q) - 1
      /\ \A i \in 1..Len(Tail(q)) : Tail(q)[i] = q[i + 1]
  BY BusAssumption DEF Event
<1>2. q[1] = base + Len(got) + 1
  BY <1>1 DEF InOrder
<1>3. \A i \in 1..Len(Tail(q)) : Tail(q)[i] = base + Len(got) + 1 + i
  <2> TAKE i \in 1..Len(Tail(q))
  <2>1. i + 1 \in 1..Len(q) /\ i \in Nat
    BY <1>1
  <2>2. q[i + 1] = base + Len(got) + 0 + (i + 1)
    BY <2>1 DEF InOrder
  <2> QED
    BY <1>1, <2>1, <2>2
<1> QED
  BY <1>1, <1>2, <1>3 DEF InOrder

(* Returning the critical event from __anext__ keeps the order.            *)
LEMMA ReturnInOrder ==
    ASSUME NEW base \in Nat, NEW got \in Seq(Event), NEW q \in Seq(Event),
           NEW c \in Nat, NEW e \in Event, InOrder(base, got, e, q, c)
    PROVE  InOrder(base, Append(got, e), None, q, c)
<1>1. e # None
  BY BusAssumption DEF Event
<1>2. /\ Len(Append(got, e)) = Len(got) + 1 /\ Len(got) \in Nat
      /\ \A i \in 1..Len(got) : Append(got, e)[i] = got[i]
      /\ Append(got, e)[Len(got) + 1] = e
  OBVIOUS
<1>3. \A i \in 1..Len(Append(got, e)) : Append(got, e)[i] = base + i
  <2> TAKE i \in 1..Len(Append(got, e))
  <2>1. CASE i \in 1..Len(got)
    BY <1>2, <2>1 DEF InOrder
  <2>2. CASE i = Len(got) + 1
    BY <1>1, <1>2, <2>2 DEF InOrder
  <2> QED
    BY <1>2, <2>1, <2>2
<1>4. \A i \in 1..Len(q) : q[i] = base + (Len(got) + 1) + 0 + i
  BY <1>1, <1>2 DEF InOrder
<1> QED
  BY <1>1, <1>2, <1>3, <1>4 DEF InOrder

(* Putting the next critical event on the queue keeps the order.           *)
LEMMA PutInOrder ==
    ASSUME NEW base \in Nat, NEW got \in Seq(Event), NEW q \in Seq(Event),
           NEW c \in Nat, NEW crit, InOrder(base, got, crit, q, c)
    PROVE  InOrder(base, got, crit, Append(q, c + 1), c + 1)
<1> DEFINE held == IF crit = None THEN 0 ELSE 1
<1>1. /\ Len(Append(q, c + 1)) = Len(q) + 1 /\ Len(q) \in Nat
      /\ \A i \in 1..Len(q) : Append(q, c + 1)[i] = q[i]
      /\ Append(q, c + 1)[Len(q) + 1] = c + 1
  BY DEF Event
<1>2. held \in Nat /\ base + Len(got) + held + Len(q) = c
  BY DEF InOrder
<1>3. \A i \in 1..Len(Append(q, c + 1)) :
         Append(q, c + 1)[i] = base + Len(got) + held + i
  <2> TAKE i \in 1..Len(Append(q, c + 1))
  <2>1. CASE i \in 1..Len(q)
    BY <1>1, <2>1 DEF InOrder
  <2>2. CASE i = Len(q) + 1
    BY <1>1, <1>2, <2>2
  <2> QED
    BY <1>1, <2>1, <2>2
<1>4. base + Len(got) + held + Len(Append(q, c + 1)) = c + 1
  BY <1>1, <1>2
<1>5. /\ \A i \in 1..Len(got) : got[i] = base + i
      /\ crit # None => crit = base + Len(got) + 1
  BY DEF InOrder
<1> QED
  BY <1>3, <1>4, <1>5 DEF InOrder

(* The inductive invariant: a subscriber that is not there yet has         *)
(* received and queued nothing.                                            *)
BusInv ==
    /\ TypeOK
    /\ \A s \in Subscriber :
          /\ Safe(sub[s], criticals)
          /\ sub[s].status = "new" => sub[s] = NewSubscriber /\ dropped[s] = {}

(* A step of one subscriber's iterator keeps its critical events in order. *)
LEMMA IterateSafe ==
    ASSUME BusInv, NEW s \in Subscriber,
           Subscribe(s) \/ CallNext(s) \/ Iterate(s) \/ DropSubscriber(s)
    PROVE  \E r : /\ Safe(r, criticals)
                  /\ r.status # "new"
                  /\ sub' = [sub EXCEPT ![s] = r]
<1> DEFINE r == sub[s]
<1>0. /\ Safe(r, criticals) /\ SubscriberOK(r)
      /\ r.status = "new" => r = NewSubscriber
      /\ criticals \in Nat
  BY DEF BusInv, TypeOK, SubscriberOK
<1>1. CASE Subscribe(s)
  <2> DEFINE n == [r EXCEPT !.status = "open", !.base = criticals,
                            !.base_std = standards]
  <2>1. r = NewSubscriber
    BY <1>0, <1>1 DEF Subscribe
  <2>2. /\ n.got = <<>> /\ n.critical_q = <<>> /\ n.crit = None
        /\ n.base = criticals /\ n.status = "open"
    BY <2>1 DEF NewSubscriber
  <2>3. Safe(n, criticals)
    BY <1>0, <2>2 DEF Safe, InOrder
  <2>4. sub' = [sub EXCEPT ![s] = n]
    BY <1>1 DEF Subscribe, BusInv, TypeOK
  <2> QED
    BY <2>2, <2>3, <2>4
<1>2. CASE CallNext(s)
  <2> DEFINE n == [r EXCEPT !.pc = "start"]
  <2>1. Safe(n, criticals) /\ n.status # "new"
    BY <1>0, <1>2
    DEF Safe, InOrder, SubscriberOK, SubscriberState, CallNext, IsOpen
  <2>2. sub' = [sub EXCEPT ![s] = n]
    BY <1>2 DEF CallNext, BusInv, TypeOK
  <2> QED
    BY <2>1, <2>2
<1>3. CASE FirstRun(s)
  <2> DEFINE n == [r EXCEPT !.pc = "wait",
                            !.crit = Front(r.critical_q),
                            !.critical_q = Rest(r.critical_q),
                            !.std = Front(r.standard_q),
                            !.standard_q = Rest(r.standard_q)]
  <2>1. r.crit = None /\ r.status = "open"
    BY <1>0, <1>3 DEF SubscriberOK, SubscriberState, FirstRun
  <2>2. /\ n.got = r.got /\ n.base = r.base /\ n.status = r.status
        /\ n.failed = r.failed /\ n.crit = Front(r.critical_q)
        /\ n.critical_q = Rest(r.critical_q)
    BY <1>0 DEF SubscriberOK, SubscriberState
  <2>3. /\ r.critical_q \in Seq(Event) /\ r.got \in Seq(Event)
        /\ r.base \in Nat
    BY <1>0 DEF SubscriberOK, SubscriberState
  <2>4. ASSUME r.critical_q = <<>> PROVE Safe(n, criticals)
    <3>1. n.crit = None /\ n.critical_q = r.critical_q
      BY <2>2, <2>4 DEF Front, Rest
    <3> HIDE DEF n
    <3> QED
      BY <1>0, <2>1, <2>2, <3>1 DEF Safe
  <2>5. ASSUME r.critical_q # <<>> PROVE Safe(n, criticals)
    <3>1. n.crit = Head(r.critical_q) /\ n.critical_q = Tail(r.critical_q)
      BY <2>2, <2>5 DEF Front, Rest
    <3> HIDE DEF n
    <3> QED
      BY <1>0, <2>1, <2>2, <2>3, <2>5, <3>1, TakeInOrder DEF Safe
  <2>6. Safe(n, criticals) /\ n.status # "new"
    <3>1. Safe(n, criticals)
      BY <2>4, <2>5
    <3> QED
      BY <2>1, <2>2, <3>1
  <2>7. sub' = [sub EXCEPT ![s] = n]
    BY <1>3 DEF FirstRun, BusInv, TypeOK
  <2> QED
    BY <2>6, <2>7
<1>4. CASE CriticalGet(s)
  <2> DEFINE n == [r EXCEPT !.crit = Head(r.critical_q),
                            !.critical_q = Tail(r.critical_q)]
  <2>1. r.crit = None /\ r.critical_q # <<>> /\ r.status = "open"
    BY <1>0, <1>4 DEF SubscriberOK, SubscriberState, CriticalGet
  <2>2. /\ r.critical_q \in Seq(Event) /\ r.got \in Seq(Event)
        /\ r.base \in Nat
    BY <1>0 DEF SubscriberOK, SubscriberState
  <2>3. /\ n.got = r.got /\ n.base = r.base /\ n.status = r.status
        /\ n.failed = r.failed /\ n.crit = Head(r.critical_q)
        /\ n.critical_q = Tail(r.critical_q)
    BY <1>0 DEF SubscriberOK, SubscriberState
  <2>5. sub' = [sub EXCEPT ![s] = n]
    BY <1>4 DEF CriticalGet, BusInv, TypeOK
  <2> HIDE DEF n
  <2>6. Safe(n, criticals)
    BY <1>0, <2>1, <2>2, <2>3, TakeInOrder DEF Safe
  <2> QED
    BY <2>1, <2>3, <2>5, <2>6
<1>5. CASE StandardGet(s)
  <2> DEFINE n == [r EXCEPT !.std = Head(r.standard_q),
                            !.standard_q = Tail(r.standard_q)]
  <2>1. Safe(n, criticals) /\ n.status # "new"
    BY <1>0, <1>5
    DEF Safe, InOrder, SubscriberOK, SubscriberState, StandardGet
  <2>2. sub' = [sub EXCEPT ![s] = n]
    BY <1>5 DEF StandardGet, BusInv, TypeOK
  <2> QED
    BY <2>1, <2>2
<1>6. CASE ReturnCritical(s)
  <2> DEFINE q == IF r.std = None THEN r.standard_q
                  ELSE Append(r.standard_q, r.std)
             n == [r EXCEPT !.pc = "out", !.crit = None, !.std = None,
                            !.got = Append(@, r.crit), !.standard_q = q]
  <2>1. r.crit \in Event /\ r.crit # None /\ r.status = "open"
    BY <1>0, <1>6 DEF SubscriberOK, SubscriberState, ReturnCritical
  <2>2. /\ r.critical_q \in Seq(Event) /\ r.got \in Seq(Event)
        /\ r.base \in Nat
    BY <1>0 DEF SubscriberOK, SubscriberState
  <2>3. /\ n.got = Append(r.got, r.crit) /\ n.base = r.base
        /\ n.status = r.status /\ n.failed = r.failed /\ n.crit = None
        /\ n.critical_q = r.critical_q
    BY <1>0 DEF SubscriberOK, SubscriberState
  <2>4. sub' = [sub EXCEPT ![s] = n]
    BY <1>6 DEF ReturnCritical, BusInv, TypeOK
  <2> HIDE DEF n
  <2>6. Safe(n, criticals)
    BY <1>0, <2>1, <2>2, <2>3, ReturnInOrder DEF Safe
  <2> QED
    BY <2>1, <2>3, <2>4, <2>6
<1>7. CASE ReturnQueueFull(s)
  <2> DEFINE n == [r EXCEPT !.pc = "out", !.crit = None, !.std = None,
                            !.failed = TRUE]
  <2>1. Safe(n, criticals) /\ n.status # "new"
    BY <1>0, <1>7 DEF Safe, SubscriberOK, SubscriberState, ReturnQueueFull
  <2>2. sub' = [sub EXCEPT ![s] = n]
    BY <1>7 DEF ReturnQueueFull, BusInv, TypeOK
  <2> QED
    BY <2>1, <2>2
<1>8. CASE ReturnStandard(s)
  <2> DEFINE n == [r EXCEPT !.pc = "out", !.std = None,
                            !.got_std = Append(@, r.std)]
  <2>1. Safe(n, criticals) /\ n.status # "new"
    BY <1>0, <1>8
    DEF Safe, InOrder, SubscriberOK, SubscriberState, ReturnStandard
  <2>2. sub' = [sub EXCEPT ![s] = n]
    BY <1>8 DEF ReturnStandard, BusInv, TypeOK
  <2> QED
    BY <2>1, <2>2
<1>9. CASE DropSubscriber(s)
  <2> DEFINE n == [r EXCEPT !.status = "closed", !.pc = "out",
                            !.crit = None, !.std = None]
  <2>1. Safe(n, criticals) /\ n.status # "new"
    BY <1>0 DEF Safe, SubscriberOK, SubscriberState
  <2>2. sub' = [sub EXCEPT ![s] = n]
    BY <1>9 DEF DropSubscriber, BusInv, TypeOK
  <2> QED
    BY <2>1, <2>2
<1> QED
  BY <1>1, <1>2, <1>3, <1>4, <1>5, <1>6, <1>7, <1>8, <1>9 DEF Iterate

(* BusInv is inductive.                                                    *)
LEMMA BusStep == BusInv /\ [Next]_vars => BusInv'
<1> SUFFICES ASSUME BusInv, [Next]_vars PROVE BusInv'
  OBVIOUS
<1>0. TypeOK /\ TypeOK'
  BY TypeStep DEF BusInv
<1>1. CASE PublishCritical
  <2>1. ASSUME NEW s \in Subscriber
        PROVE  /\ Safe(sub'[s], criticals')
               /\ sub'[s].status = "new" =>
                     sub'[s] = NewSubscriber /\ dropped'[s] = {}
    <3>1. /\ Safe(sub[s], criticals) /\ SubscriberOK(sub[s])
          /\ criticals \in Nat /\ criticals' = criticals + 1
          /\ dropped' = dropped
          /\ sub[s].status = "new" =>
                sub[s] = NewSubscriber /\ dropped[s] = {}
      BY <1>0, <1>1, <2>1 DEF BusInv, TypeOK, SubscriberOK, PublishCritical
    <3>2. CASE ~IsOpen(s)
      <4>1. sub'[s] = sub[s] /\ sub[s].status # "open"
        BY <1>1, <2>1, <3>2 DEF PublishCritical, IsOpen
      <4> QED
        BY <3>1, <4>1 DEF Safe
    <3>3. CASE IsOpen(s)
      <4> DEFINE n == [sub[s] EXCEPT
                          !.critical_q = Append(@, criticals + 1)]
      <4>1. /\ sub[s].critical_q \in Seq(Event) /\ sub[s].got \in Seq(Event)
            /\ sub[s].base \in Nat /\ criticals + 1 \in Event
        BY <3>1 DEF SubscriberOK, SubscriberState, Event
      <4>2. /\ n.got = sub[s].got /\ n.base = sub[s].base
            /\ n.status = "open" /\ n.failed = sub[s].failed
            /\ n.crit = sub[s].crit
            /\ n.critical_q = Append(sub[s].critical_q, criticals + 1)
        BY <3>1, <3>3 DEF SubscriberOK, SubscriberState, IsOpen
      <4>3. sub'[s] = n
        BY <1>1, <2>1, <3>3 DEF PublishCritical
      <4> HIDE DEF n
      <4>5. Safe(n, criticals + 1)
        BY <3>1, <3>3, <4>1, <4>2, PutInOrder DEF Safe, IsOpen
      <4> QED
        BY <3>1, <4>2, <4>3, <4>5
    <3> QED
      BY <3>2, <3>3
  <2> QED
    BY <1>0, <2>1 DEF BusInv
<1>2. CASE PublishStandard
  <2>1. ASSUME NEW s \in Subscriber
        PROVE  /\ Safe(sub'[s], criticals')
               /\ sub'[s].status = "new" =>
                     sub'[s] = NewSubscriber /\ dropped'[s] = {}
    <3>1. /\ Safe(sub[s], criticals) /\ SubscriberOK(sub[s])
          /\ criticals' = criticals
          /\ sub[s].status = "new" =>
                sub[s] = NewSubscriber /\ dropped[s] = {}
      BY <1>0, <1>2, <2>1 DEF BusInv, TypeOK, SubscriberOK, PublishStandard
    <3>2. CASE ~IsOpen(s)
      <4>1. sub'[s] = sub[s] /\ dropped'[s] = dropped[s]
        BY <1>2, <2>1, <3>2 DEF PublishStandard
      <4> QED
        BY <3>1, <4>1
    <3>3. CASE IsOpen(s)
      <4>1. PICK q : sub'[s] = [sub[s] EXCEPT !.standard_q = q]
        BY <1>2, <2>1, <3>3 DEF PublishStandard
      <4> QED
        BY <3>1, <3>3, <4>1
        DEF Safe, InOrder, SubscriberOK, SubscriberState, IsOpen
    <3> QED
      BY <3>2, <3>3
  <2> QED
    BY <1>0, <2>1 DEF BusInv
<1>3. ASSUME NEW s \in Subscriber,
             Subscribe(s) \/ CallNext(s) \/ Iterate(s) \/ DropSubscriber(s)
      PROVE  BusInv'
  <2>1. PICK r : /\ Safe(r, criticals) /\ r.status # "new"
                 /\ sub' = [sub EXCEPT ![s] = r]
    BY <1>3, IterateSafe
  <2>2. UNCHANGED <<criticals, dropped>>
    BY <1>0, <1>3, IterateType
  <2> QED
    BY <1>0, <2>1, <2>2 DEF BusInv, TypeOK
<1>4. CASE UNCHANGED vars
  BY <1>0, <1>4 DEF BusInv, vars
<1> QED
  BY <1>1, <1>2, <1>3, <1>4 DEF Next

(* Nothing has been published at the start.                                *)
LEMMA BusInit == Init => BusInv
<1> SUFFICES ASSUME Init PROVE BusInv
  OBVIOUS
<1>1. \A s \in Subscriber : sub[s] = NewSubscriber /\ dropped[s] = {}
  BY DEF Init
<1>2. Safe(NewSubscriber, criticals)
  BY DEF Safe, NewSubscriber
<1> QED
  BY <1>1, <1>2, TypeInit DEF BusInv

(* Whatever the order of publishes, get() wake-ups, put-backs and          *)
(* cancellations, an open subscriber whose __anext__ never raised          *)
(* QueueFull receives the critical events published since it subscribed in *)
(* order, none missing and none twice.                                     *)
THEOREM CriticalDelivery == Spec => []CriticalSafe
<1>1. BusInv => CriticalSafe
  BY DEF BusInv, CriticalSafe, CriticalInOrder, Safe, InOrder, Held, IsOpen
<1> QED
  BY <1>1, BusInit, BusStep, PTL DEF Spec

---------------------------------------------------------------------------
(* Overflows are announced.                                                *)

(* The elements of a queue after a put and after a get.                    *)
LEMMA QueueElements ==
    ASSUME NEW q \in Seq(Event)
    PROVE  /\ \A e \in Event : Elements(Append(q, e)) = Elements(q) \cup {e}
           /\ q # <<>> => Elements(q) = {Head(q)} \cup Elements(Tail(q))
<1>1. ASSUME NEW e \in Event
      PROVE  Elements(Append(q, e)) = Elements(q) \cup {e}
  <2>1. /\ Len(Append(q, e)) = Len(q) + 1 /\ Len(q) \in Nat
        /\ \A i \in 1..Len(q) : Append(q, e)[i] = q[i]
        /\ Append(q, e)[Len(q) + 1] = e
    OBVIOUS
  <2>2. 1..Len(Append(q, e)) = (1..Len(q)) \cup {Len(q) + 1}
    BY <2>1
  <2> QED
    BY <2>1, <2>2 DEF Elements
<1>2. ASSUME q # <<>>
      PROVE  Elements(q) = {Head(q)} \cup Elements(Tail(q))
  <2>1. /\ Head(q) = q[1] /\ Len(q) \in Nat /\ Len(q) > 0
        /\ Len(Tail(q)) = Len(q) - 1
        /\ \A i \in 1..Len(Tail(q)) : Tail(q)[i] = q[i + 1]
    BY <1>2
  <2>2. \A i \in 1..Len(q) : i = 1 \/ i - 1 \in 1..Len(Tail(q))
    BY <2>1
  <2>3. \A i \in 2..Len(q) : Tail(q)[i - 1] = q[i]
    BY <2>1
  <2>4. ASSUME NEW x \in Elements(q)
        PROVE  x \in {Head(q)} \cup Elements(Tail(q))
    <3>1. PICK i \in 1..Len(q) : x = q[i]
      BY DEF Elements
    <3>2. CASE i = 1
      BY <2>1, <3>1, <3>2
    <3>3. CASE i # 1
      <4>1. i \in 2..Len(q) /\ i - 1 \in 1..Len(Tail(q))
        BY <2>1, <3>1, <3>3
      <4> QED
        BY <2>3, <3>1, <4>1 DEF Elements
    <3> QED
      BY <3>2, <3>3
  <2>5. ASSUME NEW x \in {Head(q)} \cup Elements(Tail(q))
        PROVE  x \in Elements(q)
    <3>1. CASE x = Head(q)
      <4>1. 1 \in 1..Len(q)
        BY <2>1
      <4> QED
        BY <2>1, <3>1, <4>1 DEF Elements
    <3>2. CASE x \in Elements(Tail(q))
      <4>1. PICK i \in 1..Len(Tail(q)) : x = Tail(q)[i]
        BY <3>2 DEF Elements
      <4>2. i + 1 \in 1..Len(q)
        BY <2>1, <4>1
      <4> QED
        BY <2>1, <4>1, <4>2 DEF Elements
    <3> QED
      BY <3>1, <3>2
  <2> QED
    BY <2>4, <2>5
<1> QED
  BY <1>1, <1>2

(* A put that drops something leaves a BusOverflow in the queue; one that  *)
(* finds room drops nothing.                                               *)
LEMMA EnqueueElements ==
    ASSUME NEW q \in Seq(Event), NEW e \in Event, Len(q) <= MaxSize
    PROVE  \/ BusOverflow \in Elements(EnqueueStandard(q, e))
           \/ Elements(EnqueueStandard(q, e)) = Elements(q) \cup {e}
<1>1. CASE Len(q) < MaxSize
  BY <1>1, QueueElements DEF EnqueueStandard
<1>2. CASE ~(Len(q) < MaxSize)
  <2> DEFINE p == PutDroppingOldest(q, e)
             t == IF Len(p) >= MaxSize THEN Tail(p) ELSE p
  <2>1. p \in Seq(Event) /\ Len(p) <= MaxSize
    BY QueueTypes
  <2>2. t \in Seq(Event)
    <3> HIDE DEF p
    <3>1. Len(p) >= MaxSize => p # <<>>
      BY BusAssumption
    <3> QED
      BY <2>1, <3>1
  <2>3. EnqueueStandard(q, e) = Append(t, BusOverflow)
    BY <1>2 DEF EnqueueStandard, PutDroppingOldest
  <2>4. BusOverflow \in Event
    BY DEF BusOverflow, Event
  <2> HIDE DEF t
  <2> QED
    BY <2>2, <2>3, <2>4, QueueElements
<1> QED
  BY <1>1, <1>2

(* The standard events in the hands of a subscriber in state r.            *)
Present(r) == Elements(r.standard_q) \cup Elements(r.got_std) \cup {r.std}

Told(r, d) ==
    r.status = "open" /\ ~r.failed /\ d # {} => BusOverflow \in Present(r)

(* An iterator step moves standard events about and loses none, unless     *)
(* __anext__ raises or the subscriber goes.                                *)
LEMMA IteratePresent ==
    ASSUME BusInv, NEW s \in Subscriber,
           CallNext(s) \/ Iterate(s) \/ DropSubscriber(s)
    PROVE  \/ sub'[s].status # "open" \/ sub'[s].failed
           \/ /\ sub[s].status = "open" /\ ~sub[s].failed
              /\ Present(sub[s]) \ {None} \subseteq Present(sub'[s])
<1> DEFINE r == sub[s]
<1>0. SubscriberOK(r) /\ DOMAIN sub = Subscriber
  BY DEF BusInv, TypeOK, SubscriberOK
<1>a. /\ r.standard_q \in Seq(Event) /\ r.got_std \in Seq(Event)
      /\ r.std \in Event \cup {None} /\ r.failed \in BOOLEAN
  BY <1>0 DEF SubscriberOK, SubscriberState
<1>b. r.status # "open" => r.pc = "out"
  BY <1>0 DEF SubscriberOK
<1>1. CASE CallNext(s)
  BY <1>0, <1>a, <1>1 DEF CallNext, IsOpen, Present, SubscriberOK,
                          SubscriberState
<1>2. CASE FirstRun(s)
  <2>1. /\ sub'[s].status = r.status /\ sub'[s].failed = r.failed
        /\ sub'[s].got_std = r.got_std
        /\ sub'[s].std = Front(r.standard_q)
        /\ sub'[s].standard_q = Rest(r.standard_q)
    BY <1>0, <1>2 DEF FirstRun, SubscriberOK, SubscriberState
  <2>2. r.std = None /\ r.status = "open"
    BY <1>0, <1>2 DEF FirstRun, SubscriberOK
  <2>3. Elements(r.standard_q) \subseteq
            Elements(sub'[s].standard_q) \cup {sub'[s].std}
    BY <1>a, <2>1, QueueElements DEF Front, Rest
  <2> QED
    BY <1>a, <2>1, <2>2, <2>3 DEF Present
<1>3. CASE CriticalGet(s)
  <2>1. /\ sub'[s].status = r.status /\ sub'[s].failed = r.failed
        /\ sub'[s].got_std = r.got_std
        /\ sub'[s].std = r.std /\ sub'[s].standard_q = r.standard_q
    BY <1>0, <1>3 DEF CriticalGet, SubscriberOK, SubscriberState
  <2>2. r.status = "open"
    BY <1>b, <1>3 DEF CriticalGet
  <2> QED
    BY <1>a, <2>1, <2>2 DEF Present
<1>4. CASE StandardGet(s)
  <2>1. /\ sub'[s].status = r.status /\ sub'[s].failed = r.failed
        /\ sub'[s].got_std = r.got_std
        /\ sub'[s].std = Head(r.standard_q)
        /\ sub'[s].standard_q = Tail(r.standard_q)
        /\ r.standard_q # <<>> /\ r.std = None
    BY <1>0, <1>4 DEF StandardGet, SubscriberOK, SubscriberState
  <2>2. r.status = "open"
    BY <1>b, <1>4 DEF StandardGet
  <2>3. Elements(r.standard_q) \subseteq
            Elements(sub'[s].standard_q) \cup {sub'[s].std}
    BY <1>a, <2>1, QueueElements
  <2> QED
    BY <1>a, <2>1, <2>2, <2>3 DEF Present
<1>5. CASE ReturnCritical(s)
  <2>1. /\ sub'[s].status = r.status /\ sub'[s].failed = r.failed
        /\ sub'[s].got_std = r.got_std
        /\ sub'[s].standard_q = IF r.std = None THEN r.standard_q
                                ELSE Append(r.standard_q, r.std)
    BY <1>0, <1>5 DEF ReturnCritical, SubscriberOK, SubscriberState
  <2>2. r.status = "open"
    BY <1>b, <1>5 DEF ReturnCritical
  <2>3. (Elements(r.standard_q) \cup {r.std}) \ {None}
            \subseteq Elements(sub'[s].standard_q)
    BY <1>a, <2>1, QueueElements
  <2> QED
    BY <1>a, <2>1, <2>2, <2>3 DEF Present
<1>6. CASE ReturnQueueFull(s)
  BY <1>0, <1>6 DEF ReturnQueueFull, SubscriberOK, SubscriberState
<1>7. CASE ReturnStandard(s)
  <2>1. /\ sub'[s].status = r.status /\ sub'[s].failed = r.failed
        /\ sub'[s].got_std = Append(r.got_std, r.std) /\ r.std # None
        /\ sub'[s].standard_q = r.standard_q
    BY <1>0, <1>7 DEF ReturnStandard, SubscriberOK, SubscriberState
  <2>2. r.status = "open"
    BY <1>b, <1>7 DEF ReturnStandard
  <2>3. Elements(r.got_std) \cup {r.std} \subseteq Elements(sub'[s].got_std)
    BY <1>a, <2>1, QueueElements
  <2> QED
    BY <1>a, <2>1, <2>2, <2>3 DEF Present
<1>8. CASE DropSubscriber(s)
  BY <1>0, <1>8 DEF DropSubscriber, SubscriberOK, SubscriberState
<1> QED
  BY <1>1, <1>2, <1>3, <1>4, <1>5, <1>6, <1>7, <1>8 DEF Iterate

(* BusInv and Told together are inductive.                                 *)
LEMMA ToldStep ==
    ASSUME BusInv, [Next]_vars,
           \A s \in Subscriber : Told(sub[s], dropped[s])
    PROVE  \A s \in Subscriber : Told(sub'[s], dropped'[s])
<1> TAKE u \in Subscriber
<1>0. /\ SubscriberOK(sub[u]) /\ standards \in Nat
      /\ DOMAIN sub = Subscriber /\ DOMAIN dropped = Subscriber
  BY DEF BusInv, TypeOK, SubscriberOK
<1>1. CASE PublishCritical
  <2>1. CASE IsOpen(u)
    <3>1. sub'[u] = [sub[u] EXCEPT !.critical_q = Append(@, criticals + 1)]
      BY <1>1, <2>1 DEF PublishCritical
    <3>2. /\ sub'[u].status = sub[u].status
          /\ sub'[u].failed = sub[u].failed
          /\ sub'[u].standard_q = sub[u].standard_q
          /\ sub'[u].got_std = sub[u].got_std /\ sub'[u].std = sub[u].std
      BY <1>0, <3>1 DEF SubscriberOK, SubscriberState
    <3> QED
      BY <1>1, <3>2 DEF PublishCritical, Told, Present
  <2>2. CASE ~IsOpen(u)
    BY <1>1, <2>2 DEF PublishCritical, Told, Present
  <2> QED
    BY <2>1, <2>2
<1>2. CASE PublishStandard
  <2>1. CASE IsOpen(u)
    <3> DEFINE q == sub[u].standard_q
               e == standards + 1
               a == EnqueueStandard(q, e)
    <3>1. /\ sub'[u] = [sub[u] EXCEPT !.standard_q = a]
          /\ dropped'[u] = dropped[u] \cup
                ((Elements(q) \cup {e}) \ (Elements(a) \cup {BusOverflow}))
      BY <1>2, <2>1 DEF PublishStandard
    <3>2. /\ sub'[u].status = sub[u].status
          /\ sub'[u].failed = sub[u].failed
          /\ sub'[u].standard_q = a
          /\ sub'[u].got_std = sub[u].got_std /\ sub'[u].std = sub[u].std
      BY <1>0, <3>1 DEF SubscriberOK, SubscriberState
    <3>3. q \in Seq(Event) /\ e \in Event /\ Len(q) <= MaxSize
      BY <1>0 DEF SubscriberOK, SubscriberState, Event
    <3>4. BusOverflow \in Elements(a) \/ Elements(a) = Elements(q) \cup {e}
      BY <3>3, EnqueueElements
    <3> HIDE DEF a, q, e
    <3>5. CASE BusOverflow \in Elements(a)
      BY <3>2, <3>5 DEF Told, Present
    <3>6. CASE Elements(a) = Elements(q) \cup {e}
      <4>1. dropped'[u] = dropped[u]
        BY <3>1, <3>6
      <4> QED
        BY <3>2, <3>6, <4>1 DEF Told, Present, q
    <3> QED
      BY <3>4, <3>5, <3>6
  <2>2. CASE ~IsOpen(u)
    <3>1. sub'[u] = sub[u] /\ dropped'[u] = dropped[u]
      BY <1>2, <2>2 DEF PublishStandard
    <3> QED
      BY <3>1
  <2> QED
    BY <2>1, <2>2
<1>3. ASSUME NEW s \in Subscriber, Subscribe(s)
      PROVE  Told(sub'[u], dropped'[u])
  <2>1. dropped' = dropped /\ dropped[s] = {}
    BY <1>3 DEF Subscribe, BusInv
  <2>2. u # s => sub'[u] = sub[u]
    BY <1>0, <1>3 DEF Subscribe
  <2> QED
    BY <2>1, <2>2 DEF Told
<1>4. ASSUME NEW s \in Subscriber,
             CallNext(s) \/ Iterate(s) \/ DropSubscriber(s)
      PROVE  Told(sub'[u], dropped'[u])
  <2>1. dropped' = dropped
    BY <1>4, IterateType DEF BusInv
  <2>2. u # s => sub'[u] = sub[u]
    BY <1>0, <1>4, IterateSafe
  <2>3. CASE u = s
    <3>1. BusOverflow # None
      BY BusAssumption DEF BusOverflow
    <3> QED
      BY <1>4, <2>1, <2>3, <3>1, IteratePresent DEF Told
  <2> QED
    BY <2>1, <2>2, <2>3
<1>5. CASE UNCHANGED vars
  BY <1>5 DEF vars, Told, Present
<1> QED
  BY <1>1, <1>2, <1>3, <1>4, <1>5 DEF Next

(* However often and whenever a subscriber's standard queue overflows, it  *)
(* always has a BusOverflow to read, or has read one, for what was         *)
(* dropped, unless its __anext__ raised QueueFull.                         *)
THEOREM OverflowAnnounced == Spec => []DropsAnnounced
<1> DEFINE AllTold == \A s \in Subscriber : Told(sub[s], dropped[s])
<1>1. Init => AllTold
  BY DEF Init, Told
<1>2. BusInv /\ AllTold /\ [Next]_vars => AllTold'
  BY ToldStep
<1>3. AllTold => DropsAnnounced
  BY DEF Told, Present, DropsAnnounced, IsOpen
<1> HIDE DEF AllTold
<1> QED
  BY <1>1, <1>2, <1>3, BusInit, BusStep, PTL DEF Spec

---------------------------------------------------------------------------
(* Standard events are neither lost nor doubled.                           *)

(* No event is in the queue twice; the synthetic one may be.               *)
Unique(q) ==
    \A i, j \in 1..Len(q) : q[i] = q[j] /\ q[i] # BusOverflow => i = j

LEMMA UniqueQueue ==
    ASSUME NEW q \in Seq(Event), Unique(q)
    PROVE  /\ \A e \in Event : e = BusOverflow \/ e \notin Elements(q) => Unique(Append(q, e))
           /\ q # <<>> => /\ Unique(Tail(q))
                          /\ Head(q) = BusOverflow \/ Head(q) \notin Elements(Tail(q))
<1>1. ASSUME NEW e \in Event, e = BusOverflow \/ e \notin Elements(q)
      PROVE  Unique(Append(q, e))
  <2> DEFINE r == Append(q, e)
  <2>1. /\ Len(r) = Len(q) + 1 /\ Len(q) \in Nat
        /\ \A i \in 1..Len(q) : r[i] = q[i] /\ q[i] \in Elements(q)
        /\ r[Len(q) + 1] = e
    BY DEF Elements
  <2>2. \A i \in 1..Len(r) : i \in 1..Len(q) \/ i = Len(q) + 1
    BY <2>1
  <2> HIDE DEF r
  <2>3. ASSUME NEW i \in 1..Len(r), NEW j \in 1..Len(r), r[i] = r[j], r[i] # BusOverflow
        PROVE  i = j
    <3>1. CASE i \in 1..Len(q) /\ j \in 1..Len(q)
      BY <2>1, <2>3, <3>1 DEF Unique
    <3>2. CASE i = Len(q) + 1 /\ j \in 1..Len(q)
      BY <1>1, <2>1, <2>3, <3>2
    <3>3. CASE i \in 1..Len(q) /\ j = Len(q) + 1
      BY <1>1, <2>1, <2>3, <3>3
    <3> QED
      BY <2>2, <3>1, <3>2, <3>3
  <2> QED
    BY <2>3 DEF Unique, r
<1>2. ASSUME q # <<>>
      PROVE  /\ Unique(Tail(q))
             /\ Head(q) = BusOverflow \/ Head(q) \notin Elements(Tail(q))
  <2> DEFINE r == Tail(q)
  <2>1. /\ Head(q) = q[1] /\ Len(q) \in Nat /\ 1 \in 1..Len(q)
        /\ Len(r) = Len(q) - 1
        /\ \A i \in 1..Len(r) : r[i] = q[i + 1] /\ i + 1 \in 1..Len(q) /\ i + 1 # 1
    BY <1>2
  <2> HIDE DEF r
  <2>2. ASSUME NEW i \in 1..Len(r), NEW j \in 1..Len(r), r[i] = r[j], r[i] # BusOverflow
        PROVE  i = j
    <3>1. i + 1 = j + 1
      BY <2>1, <2>2 DEF Unique
    <3> QED
      BY <3>1
  <2>3. Head(q) = BusOverflow \/ Head(q) \notin Elements(r)
    BY <2>1 DEF Unique, Elements
  <2> QED
    BY <2>2, <2>3 DEF Unique, r
<1> QED
  BY <1>1, <1>2

(* What is left of a queue after dropping the oldest and putting an event  *)
(* is that event and a part of the queue.                                  *)
LEMMA EnqueueUnique ==
    ASSUME NEW q \in Seq(Event), NEW e \in Event, Len(q) <= MaxSize,
           Unique(q), e \notin Elements(q)
    PROVE  /\ Unique(EnqueueStandard(q, e))
           /\ Elements(EnqueueStandard(q, e)) \subseteq Elements(q) \cup {e, BusOverflow}
<1>1. ASSUME NEW r \in Seq(Event), NEW f \in Event, Len(r) <= MaxSize,
             Unique(r), f = BusOverflow \/ f \notin Elements(r)
      PROVE  /\ Unique(PutDroppingOldest(r, f))
             /\ Elements(PutDroppingOldest(r, f)) \subseteq Elements(r) \cup {f}
  <2> DEFINE t == IF Len(r) >= MaxSize THEN Tail(r) ELSE r
  <2>1. /\ t \in Seq(Event) /\ Unique(t) /\ Elements(t) \subseteq Elements(r)
    <3>1. Len(r) >= MaxSize => r # <<>>
      BY BusAssumption
    <3> QED
      BY <1>1, <3>1, UniqueQueue, QueueElements
  <2>2. PutDroppingOldest(r, f) = Append(t, f)
    BY DEF PutDroppingOldest
  <2> HIDE DEF t
  <2>3. f = BusOverflow \/ f \notin Elements(t)
    BY <1>1, <2>1
  <2> QED
    BY <2>1, <2>2, <2>3, UniqueQueue, QueueElements
<1>2. CASE Len(q) < MaxSize
  BY <1>2, UniqueQueue, QueueElements DEF EnqueueStandard
<1>3. CASE ~(Len(q) < MaxSize)
  <2> DEFINE p == PutDroppingOldest(q, e)
  <2>1. p \in Seq(Event) /\ Len(p) <= MaxSize
    BY QueueTypes
  <2>2. Unique(p) /\ Elements(p) \subseteq Elements(q) \cup {e}
    BY <1>1
  <2>3. EnqueueStandard(q, e) = PutDroppingOldest(p, BusOverflow)
    BY <1>3 DEF EnqueueStandard
  <2>4. BusOverflow \in Event
    BY DEF BusOverflow, Event
  <2> HIDE DEF p
  <2>5. /\ Unique(PutDroppingOldest(p, BusOverflow))
        /\ Elements(PutDroppingOldest(p, BusOverflow)) \subseteq Elements(p) \cup {BusOverflow}
    BY <1>1, <2>1, <2>2, <2>4
  <2> QED
    BY <2>2, <2>3, <2>5
<1> QED
  BY <1>2, <1>3

(* Where the standard events published after number base, up to top, are:  *)
(* read (g), queued (q), pulled by a get() task (h) or dropped (d), each   *)
(* in one place only.                                                      *)
Kept(g, q, h, base, top, d) ==
    /\ Unique(g) /\ Unique(q)
    /\ Elements(g) \cap Elements(q) \subseteq {BusOverflow}
    /\ h \notin (Elements(g) \cup Elements(q)) \ {BusOverflow}
    /\ d \cap (Elements(g) \cup Elements(q) \cup {h}) \subseteq {BusOverflow}
    /\ d \cup Elements(g) \cup Elements(q) \subseteq 0..top
    /\ h \in 0..top \cup {None}
    /\ (base + 1)..top \subseteq d \cup Elements(g) \cup Elements(q) \cup {h}

(* The three ways an iterator moves a standard event keep the account.     *)
LEMMA KeptMoves ==
    ASSUME NEW g \in Seq(Event), NEW q \in Seq(Event), NEW h \in Event \cup {None},
           NEW base \in Nat, NEW top \in Nat, NEW d \in SUBSET Nat,
           Kept(g, q, h, base, top, d)
    PROVE  /\ h = None /\ q # <<>> => Kept(g, Tail(q), Head(q), base, top, d)
           /\ h # None => Kept(g, Append(q, h), None, base, top, d)
           /\ h # None => Kept(Append(g, h), q, None, base, top, d)
<1>0. None \notin 0..top /\ None \notin Elements(g) \cup Elements(q) /\ None \notin d
  BY BusAssumption DEF Kept
<1>1. ASSUME h = None, q # <<>>
      PROVE  Kept(g, Tail(q), Head(q), base, top, d)
  <2>1. Elements(q) = {Head(q)} \cup Elements(Tail(q))
    BY <1>1, QueueElements
  <2>2. Unique(Tail(q)) /\ (Head(q) = BusOverflow \/ Head(q) \notin Elements(Tail(q)))
    BY <1>1, UniqueQueue DEF Kept
  <2> QED
    BY <1>0, <1>1, <2>1, <2>2 DEF Kept
<1>2. ASSUME h # None
      PROVE  Kept(g, Append(q, h), None, base, top, d)
  <2>1. Elements(Append(q, h)) = Elements(q) \cup {h}
    BY <1>2, QueueElements
  <2>2. Unique(Append(q, h))
    BY <1>2, UniqueQueue DEF Kept
  <2> QED
    BY <1>0, <1>2, <2>1, <2>2 DEF Kept
<1>3. ASSUME h # None
      PROVE  Kept(Append(g, h), q, None, base, top, d)
  <2>1. Elements(Append(g, h)) = Elements(g) \cup {h}
    BY <1>3, QueueElements
  <2>2. Unique(Append(g, h))
    BY <1>3, UniqueQueue DEF Kept
  <2> QED
    BY <1>0, <1>3, <2>1, <2>2 DEF Kept
<1> QED
  BY <1>1, <1>2, <1>3

(* A publish adds a new event to the account, and what its overflow takes  *)
(* from the queue goes to the dropped ones.                                *)
LEMMA KeptPublish ==
    ASSUME NEW g \in Seq(Event), NEW q \in Seq(Event), NEW h \in Event \cup {None},
           NEW base \in Nat, NEW top \in Nat, NEW d \in SUBSET Nat,
           Kept(g, q, h, base, top, d), Len(q) <= MaxSize
    PROVE  LET a == EnqueueStandard(q, top + 1)
           IN Kept(g, a, h, base, top + 1,
                   d \cup ((Elements(q) \cup {top + 1}) \ (Elements(a) \cup {BusOverflow})))
<1> DEFINE a == EnqueueStandard(q, top + 1)
           lost == (Elements(q) \cup {top + 1}) \ (Elements(a) \cup {BusOverflow})
<1>1. /\ top + 1 \in Event /\ top + 1 # BusOverflow /\ top + 1 # None
      /\ top + 1 \notin 0..top /\ 0..(top + 1) = (0..top) \cup {top + 1}
      /\ (base + 1)..(top + 1) \subseteq ((base + 1)..top) \cup {top + 1}
      /\ BusOverflow \in 0..top
  BY BusAssumption DEF Event, BusOverflow
<1>2. top + 1 \notin Elements(q) \cup Elements(g) \cup d \cup {h}
  BY <1>1 DEF Kept
<1>3. Unique(a) /\ Elements(a) \subseteq Elements(q) \cup {top + 1, BusOverflow}
  BY <1>1, <1>2, EnqueueUnique DEF Kept
<1> HIDE DEF a
<1>4. Elements(g) \cap Elements(a) \subseteq {BusOverflow}
  BY <1>2, <1>3 DEF Kept
<1>5. h \notin (Elements(g) \cup Elements(a)) \ {BusOverflow}
  BY <1>2, <1>3 DEF Kept
<1>6. (d \cup lost) \cap (Elements(g) \cup Elements(a) \cup {h}) \subseteq {BusOverflow}
  BY <1>2, <1>3 DEF Kept
<1>7. (d \cup lost) \cup Elements(g) \cup Elements(a) \subseteq 0..(top + 1)
  BY <1>1, <1>3 DEF Kept
<1>8. (base + 1)..(top + 1) \subseteq (d \cup lost) \cup Elements(g) \cup Elements(a) \cup {h}
  <2>1. ASSUME NEW n \in (base + 1)..(top + 1)
        PROVE  n \in (d \cup lost) \cup Elements(g) \cup Elements(a) \cup {h}
    <3>1. n # BusOverflow
      BY DEF BusOverflow
    <3> QED
      BY <1>1, <3>1 DEF Kept
  <2> QED
    BY <2>1
<1>9. h \in 0..(top + 1) \cup {None}
  BY <1>1 DEF Kept
<1> QED
  BY <1>3, <1>4, <1>5, <1>6, <1>7, <1>8, <1>9 DEF Kept, a

(* An iterator step does nothing to a subscriber's standard events or      *)
(* moves one of them; a subscriber that stays open was open before.        *)
Moved(r, n) ==
    LET g == r.got_std
        q == r.standard_q
        h == r.std
    IN /\ n.base_std = r.base_std /\ r.status = "open" /\ ~r.failed
       /\ \/ n.got_std = g /\ n.standard_q = q /\ n.std = h
          \/ /\ h = None /\ q # <<>>
             /\ n.got_std = g /\ n.standard_q = Tail(q) /\ n.std = Head(q)
          \/ /\ h # None
             /\ n.got_std = g /\ n.standard_q = Append(q, h) /\ n.std = None
          \/ /\ h # None
             /\ n.got_std = Append(g, h) /\ n.standard_q = q /\ n.std = None

LEMMA IterateMoves ==
    ASSUME BusInv, NEW s \in Subscriber,
           CallNext(s) \/ Iterate(s) \/ DropSubscriber(s)
    PROVE  sub'[s].status # "open" \/ sub'[s].failed \/ Moved(sub[s], sub'[s])
<1> DEFINE r == sub[s]
<1>0. SubscriberOK(r) /\ DOMAIN sub = Subscriber
  BY DEF BusInv, TypeOK, SubscriberOK
<1>1. CASE CallNext(s)
  BY <1>0, <1>1 DEF CallNext, IsOpen, Moved, SubscriberOK, SubscriberState
<1>2. CASE FirstRun(s)
  <2>1. /\ sub'[s].status = r.status /\ sub'[s].failed = r.failed
        /\ sub'[s].got_std = r.got_std /\ sub'[s].base_std = r.base_std
        /\ sub'[s].std = Front(r.standard_q)
        /\ sub'[s].standard_q = Rest(r.standard_q)
    BY <1>0, <1>2 DEF FirstRun, SubscriberOK, SubscriberState
  <2>2. r.std = None /\ r.status = "open"
    BY <1>0, <1>2 DEF FirstRun, SubscriberOK
  <2> QED
    BY <1>0, <2>1, <2>2 DEF Moved, Front, Rest, SubscriberOK, SubscriberState
<1>3. CASE CriticalGet(s)
  <2>1. /\ sub'[s].status = r.status /\ sub'[s].failed = r.failed
        /\ sub'[s].got_std = r.got_std /\ sub'[s].base_std = r.base_std
        /\ sub'[s].std = r.std /\ sub'[s].standard_q = r.standard_q
    BY <1>0, <1>3 DEF CriticalGet, SubscriberOK, SubscriberState
  <2> QED
    BY <1>0, <1>3, <2>1 DEF Moved, CriticalGet, SubscriberOK
<1>4. CASE StandardGet(s)
  <2>1. /\ sub'[s].status = r.status /\ sub'[s].failed = r.failed
        /\ sub'[s].got_std = r.got_std /\ sub'[s].base_std = r.base_std
        /\ sub'[s].std = Head(r.standard_q)
        /\ sub'[s].standard_q = Tail(r.standard_q)
        /\ r.standard_q # <<>> /\ r.std = None
    BY <1>0, <1>4 DEF StandardGet, SubscriberOK, SubscriberState
  <2> QED
    BY <1>0, <1>4, <2>1 DEF Moved, StandardGet, SubscriberOK
<1>5. CASE ReturnCritical(s)
  <2>1. /\ sub'[s].status = r.status /\ sub'[s].failed = r.failed
        /\ sub'[s].got_std = r.got_std /\ sub'[s].base_std = r.base_std
        /\ sub'[s].std = None
        /\ sub'[s].standard_q = IF r.std = None THEN r.standard_q
                                ELSE Append(r.standard_q, r.std)
    BY <1>0, <1>5 DEF ReturnCritical, SubscriberOK, SubscriberState
  <2> QED
    BY <1>0, <1>5, <2>1 DEF Moved, ReturnCritical, SubscriberOK
<1>6. CASE ReturnQueueFull(s)
  BY <1>0, <1>6 DEF ReturnQueueFull, SubscriberOK, SubscriberState
<1>7. CASE ReturnStandard(s)
  <2>1. /\ sub'[s].status = r.status /\ sub'[s].failed = r.failed
        /\ sub'[s].got_std = Append(r.got_std, r.std) /\ r.std # None
        /\ sub'[s].standard_q = r.standard_q /\ sub'[s].base_std = r.base_std
        /\ sub'[s].std = None
    BY <1>0, <1>7 DEF ReturnStandard, SubscriberOK, SubscriberState
  <2> QED
    BY <1>0, <1>7, <2>1 DEF Moved, ReturnStandard, SubscriberOK
<1>8. CASE DropSubscriber(s)
  BY <1>0, <1>8 DEF DropSubscriber, SubscriberOK, SubscriberState
<1> QED
  BY <1>1, <1>2, <1>3, <1>4, <1>5, <1>6, <1>7, <1>8 DEF Iterate

(* The account of an open subscriber whose __anext__ never raised.         *)
Account(r, top, d) ==
    r.status = "open" /\ ~r.failed =>
        Kept(r.got_std, r.standard_q, r.std, r.base_std, top, d)

Accounts == \A s \in Subscriber : Account(sub[s], standards, dropped[s])

(* BusInv and Accounts together are inductive.                             *)
LEMMA AccountStep == BusInv /\ Accounts /\ [Next]_vars => Accounts'
<1> SUFFICES ASSUME BusInv, Accounts, [Next]_vars, NEW u \in Subscriber
             PROVE  Account(sub'[u], standards', dropped'[u])
  BY DEF Accounts
<1>0. /\ SubscriberOK(sub[u]) /\ standards \in Nat /\ dropped[u] \in SUBSET Nat
      /\ DOMAIN sub = Subscriber /\ DOMAIN dropped = Subscriber
      /\ Account(sub[u], standards, dropped[u])
  BY DEF BusInv, TypeOK, SubscriberOK, Accounts
<1>a. /\ sub[u].got_std \in Seq(Event) /\ sub[u].standard_q \in Seq(Event)
      /\ sub[u].std \in Event \cup {None} /\ sub[u].base_std \in Nat
      /\ Len(sub[u].standard_q) <= MaxSize
  BY <1>0 DEF SubscriberOK, SubscriberState
<1>1. CASE PublishCritical
  <2>1. CASE IsOpen(u)
    <3>1. sub'[u] = [sub[u] EXCEPT !.critical_q = Append(@, criticals + 1)]
      BY <1>1, <2>1 DEF PublishCritical
    <3>2. /\ sub'[u].status = sub[u].status
          /\ sub'[u].failed = sub[u].failed /\ sub'[u].base_std = sub[u].base_std
          /\ sub'[u].standard_q = sub[u].standard_q
          /\ sub'[u].got_std = sub[u].got_std /\ sub'[u].std = sub[u].std
      BY <1>0, <3>1 DEF SubscriberOK, SubscriberState
    <3> QED
      BY <1>0, <1>1, <3>2 DEF PublishCritical, Account
  <2>2. CASE ~IsOpen(u)
    BY <1>0, <1>1, <2>2 DEF PublishCritical
  <2> QED
    BY <2>1, <2>2
<1>2. CASE PublishStandard
  <2>1. CASE IsOpen(u)
    <3> DEFINE q == sub[u].standard_q
               e == standards + 1
               a == EnqueueStandard(q, e)
    <3>1. /\ sub'[u] = [sub[u] EXCEPT !.standard_q = a]
          /\ dropped'[u] = dropped[u] \cup
                ((Elements(q) \cup {e}) \ (Elements(a) \cup {BusOverflow}))
          /\ standards' = e
      BY <1>2, <2>1 DEF PublishStandard
    <3>2. /\ sub'[u].status = sub[u].status
          /\ sub'[u].failed = sub[u].failed /\ sub'[u].base_std = sub[u].base_std
          /\ sub'[u].standard_q = a
          /\ sub'[u].got_std = sub[u].got_std /\ sub'[u].std = sub[u].std
      BY <1>0, <3>1 DEF SubscriberOK, SubscriberState
    <3>3. ~sub[u].failed =>
              Kept(sub[u].got_std, a, sub[u].std, sub[u].base_std, e, dropped'[u])
      <4>1. CASE ~sub[u].failed
        <5>1. Kept(sub[u].got_std, q, sub[u].std, sub[u].base_std, standards, dropped[u])
          BY <1>0, <2>1, <4>1 DEF Account, IsOpen
        <5>2. Kept(sub[u].got_std, a, sub[u].std, sub[u].base_std, e,
                   dropped[u] \cup ((Elements(q) \cup {e}) \ (Elements(a) \cup {BusOverflow})))
          BY <1>0, <1>a, <5>1, KeptPublish
        <5> QED
          BY <3>1, <5>2
      <4> QED
        BY <4>1
    <3> QED
      BY <3>1, <3>2, <3>3 DEF Account
  <2>2. CASE ~IsOpen(u)
    BY <1>2, <2>2 DEF PublishStandard, IsOpen, Account
  <2> QED
    BY <2>1, <2>2
<1>3. ASSUME NEW s \in Subscriber, Subscribe(s)
      PROVE  Account(sub'[u], standards', dropped'[u])
  <2>1. dropped' = dropped /\ standards' = standards
    BY <1>3 DEF Subscribe
  <2>2. CASE u = s
    <3>1. sub[s] = NewSubscriber /\ dropped[s] = {}
      BY <1>3 DEF Subscribe, BusInv
    <3>2. /\ sub'[s].got_std = <<>> /\ sub'[s].standard_q = <<>>
          /\ sub'[s].std = None /\ sub'[s].base_std = standards
      BY <1>0, <1>3, <3>1 DEF Subscribe, NewSubscriber
    <3>3. Elements(<<>>) = {} /\ Unique(<<>>)
      BY DEF Elements, Unique
    <3>4. (standards + 1)..standards = {}
      BY <1>0
    <3>5. Kept(<<>>, <<>>, None, standards, standards, {})
      BY <3>3, <3>4 DEF Kept
    <3> QED
      BY <2>1, <2>2, <3>1, <3>2, <3>5 DEF Account
  <2>3. CASE u # s
    <3>1. sub'[u] = sub[u]
      BY <1>0, <1>3, <2>3 DEF Subscribe
    <3> QED
      BY <1>0, <2>1, <3>1
  <2> QED
    BY <2>2, <2>3
<1>4. ASSUME NEW s \in Subscriber,
             CallNext(s) \/ Iterate(s) \/ DropSubscriber(s)
      PROVE  Account(sub'[u], standards', dropped'[u])
  <2>1. dropped' = dropped /\ standards' = standards
    BY <1>4, IterateType DEF BusInv
  <2>2. CASE u # s
    <3>1. sub'[u] = sub[u]
      BY <1>0, <1>4, <2>2, IterateSafe
    <3> QED
      BY <1>0, <2>1, <3>1
  <2>3. CASE u = s /\ Moved(sub[u], sub'[u])
    <3> DEFINE g == sub[u].got_std
               q == sub[u].standard_q
               h == sub[u].std
               b == sub[u].base_std
    <3>1. Kept(g, q, h, b, standards, dropped[u])
      BY <1>0, <2>3 DEF Moved, Account
    <3>2. /\ h = None /\ q # <<>> => Kept(g, Tail(q), Head(q), b, standards, dropped[u])
          /\ h # None => Kept(g, Append(q, h), None, b, standards, dropped[u])
          /\ h # None => Kept(Append(g, h), q, None, b, standards, dropped[u])
      BY <1>0, <1>a, <3>1, KeptMoves
    <3> QED
      BY <2>1, <2>3, <3>1, <3>2 DEF Moved, Account
  <2> QED
    BY <1>4, <2>2, <2>3, IterateMoves DEF Account
<1>5. CASE UNCHANGED vars
  BY <1>0, <1>5 DEF vars
<1> QED
  BY <1>1, <1>2, <1>3, <1>4, <1>5 DEF Next

(* The account, read off one list of what was read, is queued and is       *)
(* pulled.                                                                 *)
ListAccount(g, q, h, base, top, d) ==
    LET all == g \o q \o (IF h = None THEN <<>> ELSE <<h>>)
        real == {i \in 1..Len(all) : all[i] # BusOverflow}
    IN /\ \A i, j \in real : all[i] = all[j] => i = j
       /\ \A i \in real : all[i] \notin d
       /\ \A n \in (base + 1)..top : n \in d \cup Elements(all)

LEMMA AccountList ==
    ASSUME NEW g \in Seq(Event), NEW q \in Seq(Event), NEW h \in Event \cup {None},
           NEW base \in Nat, NEW top \in Nat, NEW d \in SUBSET Nat,
           Kept(g, q, h, base, top, d)
    PROVE  ListAccount(g, q, h, base, top, d)
<1> DEFINE last == IF h = None THEN <<>> ELSE <<h>>
           all == g \o q \o last
           G == Len(g)
           Q == Len(q)
<1>1. last \in Seq(Event) /\ Len(last) = IF h = None THEN 0 ELSE 1
  BY DEF Event
<1>2. /\ g \o q \in Seq(Event) /\ Len(g \o q) = G + Q /\ G \in Nat /\ Q \in Nat
      /\ \A i \in 1..G : (g \o q)[i] = g[i]
      /\ \A i \in 1..Q : (g \o q)[G + i] = q[i]
  OBVIOUS
<1>3. /\ Len(all) = G + Q + Len(last)
      /\ \A i \in 1..(G + Q) : all[i] = (g \o q)[i]
      /\ h # None => all[G + Q + 1] = h
  <2> DEFINE p == g \o q
  <2>1. p \in Seq(Event) /\ Len(p) = G + Q
    BY <1>2
  <2> HIDE DEF p
  <2>2. /\ Len(p \o last) = Len(p) + Len(last)
        /\ \A i \in 1..Len(p) : (p \o last)[i] = p[i]
        /\ h # None => (p \o last)[Len(p) + 1] = last[1]
    BY <1>1, <2>1
  <2> QED
    BY <2>1, <2>2 DEF p
<1> HIDE DEF last, all, G, Q
<1>4. ASSUME NEW i \in 1..Len(all)
      PROVE  \/ i \in 1..G /\ all[i] = g[i] /\ g[i] \in Elements(g)
             \/ \E k \in 1..Q : i = G + k /\ all[i] = q[k] /\ q[k] \in Elements(q)
             \/ i = G + Q + 1 /\ h # None /\ all[i] = h
  <2>1. CASE i \in 1..G
    <3>1. i \in 1..(G + Q)
      BY <1>2, <2>1
    <3> QED
      BY <1>2, <1>3, <2>1, <3>1 DEF Elements, G
  <2>2. CASE i \in (G + 1)..(G + Q)
    <3> DEFINE k == i - G
    <3>1. k \in 1..Q /\ i = G + k /\ i \in 1..(G + Q)
      BY <1>2, <2>2
    <3>2. all[i] = q[k] /\ q[k] \in Elements(q)
      BY <1>2, <1>3, <3>1 DEF Elements, Q
    <3> QED
      BY <3>1, <3>2
  <2>3. CASE i = G + Q + 1
    BY <1>1, <1>2, <1>3, <2>3
  <2> QED
    BY <1>1, <1>2, <1>3, <2>1, <2>2, <2>3
<1>5. Elements(all) = Elements(g) \cup Elements(q) \cup (IF h = None THEN {} ELSE {h})
  <2>1. ASSUME NEW x \in Elements(g) PROVE x \in Elements(all)
    <3>1. PICK i \in 1..G : x = g[i]
      BY DEF Elements, G
    <3>2. i \in 1..(G + Q) /\ i \in 1..Len(all)
      BY <1>1, <1>2, <1>3
    <3> QED
      BY <1>2, <1>3, <3>1, <3>2 DEF Elements
  <2>2. ASSUME NEW x \in Elements(q) PROVE x \in Elements(all)
    <3>1. PICK k \in 1..Q : x = q[k]
      BY DEF Elements, Q
    <3>2. G + k \in 1..(G + Q) /\ G + k \in 1..Len(all)
      BY <1>1, <1>2, <1>3
    <3> QED
      BY <1>2, <1>3, <3>1, <3>2 DEF Elements
  <2>3. h # None => h \in Elements(all)
    <3>1. h # None => G + Q + 1 \in 1..Len(all)
      BY <1>1, <1>2, <1>3
    <3> QED
      BY <1>3, <3>1 DEF Elements
  <2>4. ASSUME NEW x \in Elements(all)
        PROVE  x \in Elements(g) \cup Elements(q) \cup (IF h = None THEN {} ELSE {h})
    <3>1. PICK i \in 1..Len(all) : x = all[i]
      BY DEF Elements
    <3> QED
      BY <1>4, <3>1
  <2> QED
    BY <2>1, <2>2, <2>3, <2>4
<1>6. ASSUME NEW i \in 1..Len(all), NEW j \in 1..Len(all), all[i] = all[j], all[i] # BusOverflow
      PROVE  i = j
  <2>1. CASE i \in 1..G /\ j \in 1..G /\ all[i] = g[i] /\ all[j] = g[j]
    BY <1>6, <2>1 DEF Kept, Unique, G
  <2>2. CASE \E k, l \in 1..Q : i = G + k /\ j = G + l /\ all[i] = q[k] /\ all[j] = q[l]
    BY <1>6, <2>2 DEF Kept, Unique, Q
  <2>3. CASE i = G + Q + 1 /\ j = G + Q + 1
    BY <2>3
  <2>4. ~(all[i] \in Elements(g) /\ all[i] \in Elements(q))
    BY <1>6 DEF Kept
  <2>5. ~(all[i] = h /\ all[i] \in Elements(g) \cup Elements(q))
    BY <1>6 DEF Kept
  <2> QED
    BY <1>4, <1>6, <2>1, <2>2, <2>3, <2>4, <2>5
<1>7. ASSUME NEW i \in 1..Len(all), all[i] # BusOverflow
      PROVE  all[i] \notin d
  <2>1. all[i] \in Elements(all)
    BY DEF Elements
  <2> QED
    BY <1>5, <1>7, <2>1 DEF Kept
<1>8. \A n \in (base + 1)..top : n \in d \cup Elements(all)
  <2>1. None \notin Nat
    BY BusAssumption
  <2> QED
    BY <1>5, <2>1 DEF Kept
<1> QED
  BY <1>6, <1>7, <1>8 DEF ListAccount, all, last

(* No race of the two get() tasks and no overflow loses a standard event   *)
(* in silence or hands it out twice, unless __anext__ raised QueueFull: a  *)
(* put-back of _wait_for_either that succeeds included, every one is read, *)
(* waiting or counted as dropped, once.                                    *)
THEOREM StandardKept == Spec => []StandardAccounted
<1>1. Init => Accounts
  BY DEF Init, Accounts, Account, NewSubscriber
<1>2. BusInv /\ Accounts => StandardAccounted
  <2> SUFFICES ASSUME BusInv, Accounts, NEW s \in Subscriber, IsOpen(s), ~sub[s].failed
               PROVE  ListAccount(sub[s].got_std, sub[s].standard_q, sub[s].std,
                                  sub[s].base_std, standards, dropped[s])
    BY DEF StandardAccounted, ListAccount
  <2>1. /\ sub[s].got_std \in Seq(Event) /\ sub[s].standard_q \in Seq(Event)
        /\ sub[s].std \in Event \cup {None} /\ sub[s].base_std \in Nat
        /\ standards \in Nat /\ dropped[s] \in SUBSET Nat
    BY DEF BusInv, TypeOK, SubscriberState
  <2>2. Kept(sub[s].got_std, sub[s].standard_q, sub[s].std, sub[s].base_std,
             standards, dropped[s])
    BY DEF Accounts, Account, IsOpen
  <2> QED
    BY <2>1, <2>2, AccountList
<1> QED
  BY <1>1, <1>2, AccountStep, BusInit, BusStep, PTL DEF Spec
============================================================================
