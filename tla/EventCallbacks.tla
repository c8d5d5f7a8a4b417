--------------------------- MODULE EventCallbacks ---------------------------
(***************************************************************************)
(* application/event_bus.py, the callback side, composed with the queues   *)
(* of EventBus: publish fills the queues and then awaits the handlers that *)
(* on() and on_any() registered, the metrics handlers of                   *)
(* metrics_subscriber.register first among them.  Critical events are      *)
(* DomainCheckFailed, standard ones DomainCheckCompleted.                  *)
(***************************************************************************)
EXTENDS EventBus

CONSTANTS
    Publisher,  \* tasks that publish: checks and deliveries
    Emits,      \* the types of the events each publishes
    Handler,    \* the application's handlers, each registered at most once
    Slow,       \* handlers that may never return
    OnTypes     \* the types the application calls on() for

Failed    == "DomainCheckFailed"
Completed == "DomainCheckCompleted"
AnyEvent  == "DomainEvent"  \* the base class, which every event matches
Metrics   == "metrics"      \* a counting handler of metrics_subscriber

(* A publisher emits checks that succeed or fail; the application's        *)
(* handlers are its own.                                                   *)
ASSUME CallbacksAssumption ==
    /\ \A p \in Publisher : Emits[p] \subseteq {Failed, Completed}
    /\ IsFiniteSet(Handler) /\ Metrics \notin Handler
    /\ IsFiniteSet(OnTypes)

VARIABLES
    typed,    \* _typed_callbacks: the buckets in order of their first on()
    wild,     \* _wildcard_callbacks
    pub,      \* every publisher: where its publish is
    counted   \* what the metrics counters show, by event type

callbackVars == <<typed, wild, pub, counted>>
busVars      == <<vars, callbackVars>>

(* at is the handler being awaited: <<bucket, index>>, the wildcard list   *)
(* being the bucket behind all there can be.  size is                      *)
(* len(_typed_callbacks) when the iteration began, due the handlers        *)
(* registered by then, called the ones awaited since.                      *)
WildBucket == Cardinality(OnTypes) + 3

NoPublish ==
    [pc |-> "out", type |-> Completed, at |-> <<1, 0>>, size |-> 0,
     due |-> {}, called |-> <<>>]

(* Mutant: the counters are one wildcard handler.                          *)
MetricsRegister_Wildcard == <<<<>>, <<Metrics>>>>

(* metrics_subscriber.register on a new bus: one handler per event type,   *)
(* before anybody else can register.                                       *)
MetricsRegister ==
    <<<<[type |-> Completed, handlers |-> <<Metrics>>],
        [type |-> Failed, handlers |-> <<Metrics>>]>>, <<>>>>

CallbacksInit ==
    /\ Init
    /\ typed = MetricsRegister[1]
    /\ wild = MetricsRegister[2]
    /\ pub = [p \in Publisher |-> NoPublish]
    /\ counted = [e \in {Failed, Completed} |-> 0]

---------------------------------------------------------------------------
HandlerAt(at) ==
    IF at[1] = WildBucket THEN wild[at[2]] ELSE typed[at[1]].handlers[at[2]]

(* isinstance(event, registered_type).                                     *)
Matches(type, registered) == registered \in {type, AnyEvent}

(* The buckets of an event.                                                *)
Matching(type) == {k \in 1..Len(typed) : Matches(type, typed[k].type)}

(* The calls _run_callbacks makes for an event, if nothing is registered   *)
(* meanwhile.                                                              *)
Calls(type) ==
    ({WildBucket} \X (1..Len(wild)))
      \cup UNION {{k} \X (1..Len(typed[k].handlers)) : k \in Matching(type)}

Before(a, b) == a[1] < b[1] \/ (a[1] = b[1] /\ a[2] < b[2])

Registered == {HandlerAt(at) : at \in Calls(Failed) \cup Calls(Completed)}

(* on(): into the bucket of the type, or into a new one behind the others. *)
On(type, h) ==
    /\ h \notin Registered
    /\ typed' = IF \E k \in 1..Len(typed) : typed[k].type = type
                THEN [k \in 1..Len(typed) |->
                         IF typed[k].type = type
                         THEN [typed[k] EXCEPT !.handlers = Append(@, h)]
                         ELSE typed[k]]
                ELSE Append(typed, [type |-> type, handlers |-> <<h>>])
    /\ UNCHANGED <<vars, wild, pub, counted>>

OnAny(h) ==
    /\ h \notin Registered
    /\ wild' = Append(wild, h)
    /\ UNCHANGED <<vars, typed, pub, counted>>

---------------------------------------------------------------------------
(* The calls still to make, those of them that go to the application, the  *)
(* first of these, and the counters on the way to it.                      *)
Ahead(x, from)  == {at \in Calls(x.type) : Before(from, at)}
Users(x, from)  == {at \in Ahead(x, from) : HandlerAt(at) # Metrics}
Passed(x, from) ==
    {at \in Ahead(x, from) \ Users(x, from) :
        \A b \in Users(x, from) : Before(at, b)}
IsNext(x, from, at) ==
    at \in Users(x, from) /\ \A b \in Users(x, from) : b = at \/ Before(at, b)

(* The loop runs from one call to the next of an application handler; the  *)
(* metrics handlers in between return without suspending.  A step into     *)
(* another bucket, or past the last, finds out whether the dictionary has  *)
(* grown and raises RuntimeError out of publish.                           *)
Continue(p, x, from) ==
    LET grown == Len(typed) # x.size /\ from[1] # WildBucket
        stay  == \E at \in Users(x, from) : IsNext(x, from, at) /\ at[1] = from[1]
        count == counted' = [counted EXCEPT ![x.type] =
                                @ + Cardinality(Passed(x, from))]
    IN \/ /\ ~grown \/ stay
          /\ \E at \in Users(x, from) :
                /\ IsNext(x, from, at)
                /\ pub' = [pub EXCEPT ![p] =
                      [x EXCEPT !.at = at, !.called = Append(@, HandlerAt(at))]]
          /\ count
       \/ /\ ~grown
          /\ Users(x, from) = {}
          /\ pub' = [pub EXCEPT ![p] = NoPublish]
          /\ count
       \/ /\ grown
          /\ ~stay
          /\ pub' = [pub EXCEPT ![p] = NoPublish]
          /\ UNCHANGED counted

(* publish: _enqueue to every subscriber and into the callbacks, without   *)
(* suspending before the first application handler.                        *)
BeginPublish(p, type) ==
    /\ pub[p].pc = "out"
    /\ IF type = Failed THEN PublishCritical ELSE PublishStandard
    /\ Continue(p, [NoPublish EXCEPT
                       !.pc = "in", !.type = type, !.size = Len(typed),
                       !.due = {HandlerAt(at) : at \in Calls(type)} \ {Metrics}],
                <<1, 0>>)
    /\ UNCHANGED <<typed, wild>>

(* Mutant: the handlers are awaited together, the slow ones too.           *)
HandlerReturns_Together(p) ==
    /\ pub[p].pc = "in"
    /\ pub[p].due \cap Slow = {}
    /\ Continue(p, pub[p], pub[p].at)
    /\ UNCHANGED <<vars, typed, wild>>

(* An application handler returns.                                         *)
HandlerReturns(p) ==
    /\ pub[p].pc = "in"
    /\ Continue(p, pub[p], pub[p].at)
    /\ UNCHANGED <<vars, typed, wild>>

(* Mutant: an exception of the handler goes through.                       *)
HandlerRaises_Escapes(p) ==
    /\ pub[p].pc = "in"
    /\ pub' = [pub EXCEPT ![p] = NoPublish]
    /\ UNCHANGED <<vars, typed, wild, counted>>

(* _safe_call logs the exception of a handler and goes on.                 *)
HandlerRaises(p) == HandlerReturns(p)

CallbackStep(p) == HandlerReturns(p) \/ HandlerRaises(p)

CallbacksNext ==
    \/ \E p \in Publisher :
          \/ \E type \in Emits[p] : BeginPublish(p, type)
          \/ HandlerReturns(p)
          \/ HandlerRaises(p)
    \/ \E h \in Handler :
          OnAny(h) \/ \E type \in OnTypes : On(type, h)
    \/ /\ UNCHANGED callbackVars
       /\ \E s \in Subscriber : Subscribe(s) \/ CallNext(s) \/ Iterate(s)
                                    \/ DropSubscriber(s)

CallbacksSpec == CallbacksInit /\ [][CallbacksNext]_busVars

InSlow(p) == pub[p].pc = "in" /\ HandlerAt(pub[p].at) \in Slow

(* As in EventBus; a handler that is not slow returns or raises.           *)
CallbacksFairSpec ==
    /\ CallbacksSpec
    /\ \A s \in Subscriber : WF_vars(CallNext(s)) /\ WF_vars(Iterate(s))
    /\ \A p \in Publisher : WF_busVars(~InSlow(p) /\ CallbackStep(p))

---------------------------------------------------------------------------
(* Properties.                                                             *)

(* Every published event is counted once, at once: no handler that hangs,  *)
(* raises or registers others keeps an event from the counters or makes    *)
(* them count it twice (metrics_subscriber.register before any other).     *)
CountedOnce == counted[Failed] = criticals /\ counted[Completed] = standards

CalledOnce(x) ==
    \A h \in x.due : Cardinality({i \in 1..Len(x.called) : x.called[i] = h}) = 1

(* "one bad handler does not block siblings": a publish that ends has      *)
(* called every handler registered before it exactly once.  The exception  *)
(* is a registration for a new type meanwhile, and never the exception of  *)
(* a handler.                                                              *)
SiblingsCalled ==
    [][\A p \in Publisher :
          pub[p].pc = "in" /\ pub'[p].pc = "out" =>
              CalledOnce(pub[p]) \/ Len(typed) > pub[p].size]_busVars

(* A publish ends, and with it the check that awaits it, unless a handler  *)
(* hangs.                                                                  *)
PublishEnds ==
    \A p \in Publisher : pub[p].pc = "in" ~> (pub[p].pc = "out" \/ InSlow(p))
============================================================================
