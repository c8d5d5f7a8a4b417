------------------------ MODULE EventCallbacksProofs ------------------------
(***************************************************************************)
(* Proofs about EventCallbacks, for any publishers, any handlers and any   *)
(* types they are registered for.                                          *)
(***************************************************************************)
EXTENDS EventCallbacks, EventBusProofs, FiniteSetTheorems

(* The callbacks only add to the bus: a publish is a publish of EventBus,  *)
(* a handler that returns or is registered leaves the queues alone.        *)
THEOREM BusUnderneath == CallbacksSpec => Spec
<1>1. CallbacksInit => Init
  BY DEF CallbacksInit
<1>2. [CallbacksNext]_busVars => [Next]_vars
  BY DEF CallbacksNext, BeginPublish, HandlerReturns, HandlerRaises, On, OnAny, Next, busVars
<1> QED
  BY <1>1, <1>2, PTL DEF CallbacksSpec, Spec

(* So what is proved of the queues holds with handlers that hang, raise    *)
(* and register others in the middle of a dispatch.                        *)
THEOREM QueuesUnderCallbacks ==
    CallbacksSpec => [](TypeOK /\ CriticalSafe /\ DropsAnnounced /\ StandardAccounted)
BY BusUnderneath, BusTypeCorrect, CriticalDelivery, OverflowAnnounced, StandardKept, PTL

---------------------------------------------------------------------------
(* The tables of callbacks.                                                *)

(* Where metrics_subscriber.register has put the counter of a type.        *)
Counter(type) == <<IF type = Completed THEN 1 ELSE 2, 1>>

Types   == {Failed, Completed} \cup OnTypes
Bucket  == [type : Types, handlers : Seq(Handler \cup {Metrics})]
Buckets == {typed[k].type : k \in 1..Len(typed)}

(* A counter is the first handler of its bucket, the bucket one of the     *)
(* first two, and nobody else registers one; there is one bucket per type, *)
(* so not more of them than types.                                         *)
CountersOk ==
    /\ Len(typed) >= 2 /\ typed[1].type = Completed /\ typed[2].type = Failed
    /\ \A k \in {1, 2} : Len(typed[k].handlers) > 0 /\ typed[k].handlers[1] = Metrics
    /\ \A k \in 1..Len(typed) : \A i \in 1..Len(typed[k].handlers) :
          typed[k].handlers[i] = Metrics => k \in {1, 2} /\ i = 1

BucketsOk ==
    /\ \A j, k \in 1..Len(typed) : typed[j].type = typed[k].type => j = k
    /\ Cardinality(Buckets) = Len(typed)

TablesOk ==
    /\ typed \in Seq(Bucket) /\ wild \in Seq(Handler)
    /\ CountersOk /\ BucketsOk

LEMMA TableTypes ==
    ASSUME TablesOk
    PROVE  /\ Len(typed) \in Nat
           /\ \A k \in 1..Len(typed) :
                 /\ typed[k] \in Bucket /\ typed[k].type \in Types
                 /\ typed[k].handlers \in Seq(Handler \cup {Metrics})
           /\ Buckets \subseteq Types
<1>1. typed \in Seq(Bucket)
  BY DEF TablesOk, CountersOk
<1>2. Len(typed) \in Nat /\ \A k \in 1..Len(typed) : typed[k] \in Bucket
  BY <1>1
<1>3. \A b \in Bucket : b.type \in Types /\ b.handlers \in Seq(Handler \cup {Metrics})
  BY DEF Bucket
<1>4. Buckets \subseteq Types
  BY <1>2, <1>3 DEF Buckets
<1> QED
  BY <1>2, <1>3, <1>4

LEMMA TypesFinite == IsFiniteSet(Types) /\ Cardinality(Types) <= Cardinality(OnTypes) + 2
<1>1. IsFiniteSet({Failed}) /\ Cardinality({Failed}) = 1
  BY FS_Singleton
<1>2. IsFiniteSet({Failed} \cup {Completed}) /\ Cardinality({Failed} \cup {Completed}) <= 2
  BY <1>1, FS_AddElement
<1>3. {Failed, Completed} = {Failed} \cup {Completed}
  OBVIOUS
<1> DEFINE two == {Failed} \cup {Completed}
           both == two \cap OnTypes
<1>4. IsFiniteSet(both)
  BY <1>2, FS_Subset
<1>5. /\ IsFiniteSet(two \cup OnTypes)
      /\ Cardinality(two \cup OnTypes) = Cardinality(two) + Cardinality(OnTypes) - Cardinality(both)
  BY <1>2, CallbacksAssumption, FS_Union
<1>6. Cardinality(both) \in Nat /\ Cardinality(two) \in Nat /\ Cardinality(OnTypes) \in Nat
  BY <1>2, <1>4, CallbacksAssumption, FS_CardinalityType
<1>7. Types = two \cup OnTypes
  BY <1>3 DEF Types
<1> HIDE DEF two, both
<1> QED
  BY <1>2, <1>5, <1>6, <1>7 DEF two

(* The bucket of the wildcard handlers is behind all the others.           *)
LEMMA WildLast ==
    ASSUME TablesOk
    PROVE  Len(typed) < WildBucket /\ WildBucket \in Nat
<1>1. Buckets \subseteq Types
  BY TableTypes
<1>2. Cardinality(Buckets) <= Cardinality(Types)
  BY <1>1, TypesFinite, FS_Subset
<1>3. Cardinality(OnTypes) \in Nat /\ Cardinality(Types) \in Nat
  BY TypesFinite, CallbacksAssumption, FS_CardinalityType
<1>4. Len(typed) = Cardinality(Buckets) /\ Len(typed) \in Nat
  BY TableTypes DEF TablesOk, BucketsOk
<1>5. Cardinality(Types) <= Cardinality(OnTypes) + 2
  BY TypesFinite
<1> QED
  BY <1>2, <1>3, <1>4, <1>5 DEF WildBucket

LEMMA TablesInit == CallbacksInit => TablesOk
<1> SUFFICES ASSUME CallbacksInit PROVE TablesOk
  OBVIOUS
<1> DEFINE b1 == [type |-> Completed, handlers |-> <<Metrics>>]
           b2 == [type |-> Failed, handlers |-> <<Metrics>>]
<1>1. typed = <<b1, b2>> /\ wild = <<>>
  BY DEF CallbacksInit, MetricsRegister
<1>2. b1 \in Bucket /\ b2 \in Bucket
  BY DEF Bucket, Types
<1>3. /\ typed \in Seq(Bucket) /\ Len(typed) = 2 /\ typed[1] = b1 /\ typed[2] = b2
  BY <1>1, <1>2
<1>4. Buckets = {Failed} \cup {Completed}
  <2>1. 1..2 = {1, 2}
    OBVIOUS
  <2> QED
    BY <1>3, <2>1 DEF Buckets
<1>5. Failed # Completed
  BY DEF Failed, Completed
<1>6. Cardinality({Failed} \cup {Completed}) = 2
  <2>1. IsFiniteSet({Failed}) /\ Cardinality({Failed}) = 1
    BY FS_Singleton
  <2>2. Completed \notin {Failed}
    BY <1>5
  <2> QED
    BY <2>1, <2>2, FS_AddElement
<1>7. \A k \in 1..2 : k \in {1, 2} /\ typed[k].handlers = <<Metrics>>
  BY <1>3
<1>8. /\ Len(<<Metrics>>) = 1 /\ <<Metrics>>[1] = Metrics
      /\ typed[1].type = Completed /\ typed[2].type = Failed
  BY <1>3
<1>9. \A k \in 1..Len(typed) : \A i \in 1..Len(typed[k].handlers) : k \in {1, 2} /\ i = 1
  BY <1>3, <1>7, <1>8
<1>10. \A k \in {1, 2} : Len(typed[k].handlers) > 0 /\ typed[k].handlers[1] = Metrics
  BY <1>7, <1>8
<1>11. wild \in Seq(Handler)
  BY <1>1
<1>12. Cardinality(Buckets) = Len(typed)
  BY <1>3, <1>4, <1>6
<1>13. \A j, k \in 1..Len(typed) : typed[j].type = typed[k].type => j = k
  BY <1>3, <1>5
<1> HIDE DEF b1, b2
<1> QED
  BY <1>3, <1>8, <1>9, <1>10, <1>11, <1>12, <1>13 DEF TablesOk, CountersOk, BucketsOk

(* What on() does to the buckets.                                          *)
LEMMA OnTables ==
    ASSUME TablesOk, NEW type \in OnTypes, NEW h \in Handler, On(type, h)
    PROVE  TablesOk'
<1>0. h # Metrics
  BY CallbacksAssumption
<1>1. CASE \E k \in 1..Len(typed) : typed[k].type = type
  <2>1. typed' = [k \in 1..Len(typed) |->
                     IF typed[k].type = type
                     THEN [typed[k] EXCEPT !.handlers = Append(@, h)]
                     ELSE typed[k]]
    BY <1>1 DEF On
  <2>2. ASSUME NEW k \in 1..Len(typed)
        PROVE  /\ typed'[k] \in Bucket /\ typed'[k].type = typed[k].type
               /\ typed'[k].handlers \in {typed[k].handlers, Append(typed[k].handlers, h)}
    <3>1. typed[k] \in Bucket
      BY TableTypes
    <3>2. Append(typed[k].handlers, h) \in Seq(Handler \cup {Metrics})
      BY <3>1 DEF Bucket
    <3>3. typed'[k] = IF typed[k].type = type
                      THEN [typed[k] EXCEPT !.handlers = Append(@, h)]
                      ELSE typed[k]
      BY <2>1
    <3> QED
      BY <3>1, <3>2, <3>3 DEF Bucket
  <2>3. typed' \in Seq(Bucket) /\ Len(typed') = Len(typed)
    <3>1. Len(typed) \in Nat
      BY DEF TablesOk, CountersOk
    <3> DEFINE n == Len(typed)
               t == typed'
    <3>2. n \in Nat /\ DOMAIN t = 1..n /\ \A k \in 1..n : t[k] \in Bucket
      BY <2>1, <2>2, <3>1
    <3>3. t = [k \in 1..n |-> t[k]]
      BY <2>1
    <3> HIDE DEF n, t
    <3>4. t \in Seq(Bucket) /\ Len(t) = n
      BY <3>2, <3>3
    <3> QED
      BY <3>4 DEF n, t
  <2>4. Buckets' = Buckets
    BY <2>2, <2>3 DEF Buckets
  <2>5. ASSUME NEW k \in 1..Len(typed)
        PROVE  /\ typed[k].handlers \in Seq(Handler \cup {Metrics})
               /\ Len(typed'[k].handlers) >= Len(typed[k].handlers)
               /\ \A i \in 1..Len(typed[k].handlers) :
                     typed'[k].handlers[i] = typed[k].handlers[i]
               /\ \A i \in 1..Len(typed'[k].handlers) :
                     typed'[k].handlers[i] = Metrics => i \in 1..Len(typed[k].handlers)
    <3> DEFINE s == typed[k].handlers
    <3>1. s \in Seq(Handler \cup {Metrics})
      BY TableTypes
    <3>2. CASE typed'[k].handlers = s
      BY <3>1, <3>2
    <3>3. CASE typed'[k].handlers = Append(s, h)
      <4> DEFINE r == Append(s, h)
      <4>1. /\ Len(r) = Len(s) + 1 /\ Len(s) \in Nat /\ r[Len(s) + 1] = h
            /\ \A i \in 1..Len(s) : r[i] = s[i]
        BY <3>1
      <4> HIDE DEF r
      <4>2. typed'[k].handlers = r
        BY <3>3 DEF r
      <4> QED
        BY <1>0, <3>1, <4>1, <4>2
    <3> QED
      BY <2>2, <3>2, <3>3
  <2>6. wild' = wild
    BY DEF On
  <2>7. Len(typed) \in Nat /\ 1 \in 1..Len(typed) /\ 2 \in 1..Len(typed)
    BY DEF TablesOk, CountersOk
  <2>8. \A k \in 1..Len(typed') : \A i \in 1..Len(typed'[k].handlers) :
          typed'[k].handlers[i] = Metrics => k \in {1, 2} /\ i = 1
    BY <2>3, <2>5 DEF TablesOk, CountersOk
  <2>9. \A k \in {1, 2} : Len(typed'[k].handlers) > 0 /\ typed'[k].handlers[1] = Metrics
    <3> SUFFICES ASSUME NEW k \in {1, 2}
                 PROVE  Len(typed'[k].handlers) > 0 /\ typed'[k].handlers[1] = Metrics
      OBVIOUS
    <3>1. k \in 1..Len(typed) /\ Len(typed[k].handlers) > 0 /\ typed[k].handlers[1] = Metrics
      BY <2>7 DEF TablesOk, CountersOk
    <3>2. /\ typed[k].handlers \in Seq(Handler \cup {Metrics})
          /\ typed'[k].handlers \in Seq(Handler \cup {Metrics})
      BY <2>2, <2>5, <3>1 DEF Bucket
    <3>3. Len(typed'[k].handlers) \in Nat /\ Len(typed[k].handlers) \in Nat
      BY <3>2
    <3>4. /\ Len(typed'[k].handlers) >= Len(typed[k].handlers)
          /\ \A i \in 1..Len(typed[k].handlers) :
                typed'[k].handlers[i] = typed[k].handlers[i]
      BY <2>5, <3>1
    <3>5. 1 \in 1..Len(typed[k].handlers)
      BY <3>1, <3>3
    <3> QED
      BY <3>1, <3>3, <3>4, <3>5
  <2>10. \A j, k \in 1..Len(typed') : typed'[j].type = typed'[k].type => j = k
    BY <2>2, <2>3 DEF TablesOk, BucketsOk
  <2> QED
    BY <2>2, <2>3, <2>4, <2>6, <2>7, <2>8, <2>9, <2>10 DEF TablesOk, CountersOk, BucketsOk
<1>2. CASE \A k \in 1..Len(typed) : typed[k].type # type
  <2> DEFINE b == [type |-> type, handlers |-> <<h>>]
  <2>1. typed' = Append(typed, b) /\ wild' = wild
    BY <1>2 DEF On
  <2>2. b \in Bucket
    BY DEF Bucket, Types
  <2>3. /\ typed' \in Seq(Bucket) /\ Len(typed') = Len(typed) + 1 /\ Len(typed) \in Nat
        /\ typed'[Len(typed) + 1] = b
        /\ \A k \in 1..Len(typed) : typed'[k] = typed[k]
    BY <2>1, <2>2 DEF TablesOk, CountersOk
  <2>4. \A k \in 1..Len(typed') : k \in 1..Len(typed) \/ k = Len(typed) + 1
    BY <2>3
  <2>5. Cardinality(Buckets') = Len(typed')
    <3>1. Buckets' = Buckets \cup {type}
      <4>1. 1..Len(typed') = 1..Len(typed) \cup {Len(typed) + 1}
        BY <2>3
      <4>2. b.type = type
        OBVIOUS
      <4> QED
        BY <2>3, <4>1, <4>2 DEF Buckets
    <3>2. IsFiniteSet(Buckets)
      <4>1. Buckets \subseteq Types
        BY TableTypes
      <4> QED
        BY <4>1, TypesFinite, FS_Subset
    <3>3. type \notin Buckets
      BY <1>2 DEF Buckets
    <3> QED
      <4>1. Cardinality(Buckets \cup {type}) = Cardinality(Buckets) + 1
        BY <3>2, <3>3, FS_AddElement
      <4>2. Cardinality(Buckets) = Len(typed)
        BY DEF TablesOk, BucketsOk
      <4> QED
        BY <2>3, <3>1, <4>1, <4>2
  <2>6. Len(typed) >= 2 /\ 1 \in 1..Len(typed) /\ 2 \in 1..Len(typed)
    BY <2>3 DEF TablesOk, CountersOk
  <2>7. b.handlers = <<h>>
    OBVIOUS
  <2>8. \A k \in 1..Len(typed') : \A i \in 1..Len(typed'[k].handlers) :
          typed'[k].handlers[i] = Metrics => k \in {1, 2} /\ i = 1
    BY <1>0, <2>3, <2>4, <2>7 DEF TablesOk, CountersOk
  <2>9. /\ typed'[1] = typed[1] /\ typed'[2] = typed[2]
    BY <2>3, <2>6
  <2>10. \A j, k \in 1..Len(typed') : typed'[j].type = typed'[k].type => j = k
    <3>1. b.type = type
      OBVIOUS
    <3> QED
      BY <1>2, <2>3, <2>4, <3>1 DEF TablesOk, BucketsOk
  <2> HIDE DEF b
  <2> QED
    BY <2>1, <2>3, <2>5, <2>6, <2>8, <2>9, <2>10 DEF TablesOk, CountersOk, BucketsOk
<1> QED
  BY <1>1, <1>2

LEMMA OnAnyTables ==
    ASSUME TablesOk, NEW h \in Handler, OnAny(h)
    PROVE  TablesOk'
<1>1. typed' = typed /\ wild' \in Seq(Handler)
  BY DEF OnAny, TablesOk
<1>2. Buckets' = Buckets
  BY <1>1 DEF Buckets
<1>3. typed' \in Seq(Bucket) /\ CountersOk'
  BY <1>1 DEF TablesOk, CountersOk
<1>4. BucketsOk'
  BY <1>1, <1>2 DEF TablesOk, BucketsOk
<1> QED
  BY <1>1, <1>3, <1>4 DEF TablesOk

---------------------------------------------------------------------------
(* The positions of the handlers an event is handed to.                    *)

Position == Nat \X Nat

(* Positions are passed in the order of the buckets, then of each bucket.  *)
LEMMA Order ==
    /\ \A a, b \in Position : a = b \/ Before(a, b) \/ Before(b, a)
    /\ \A a, b \in Position : Before(a, b) => ~Before(b, a) /\ a # b
    /\ \A a, b, c \in Position : Before(a, b) /\ Before(b, c) => Before(a, c)
BY DEF Position, Before

(* A place in the tables is in a matching bucket or in the wildcard list,  *)
(* and holds a handler of the application or the counter of its type.      *)
PlacesOk ==
    /\ \A i \in Nat : HandlerAt(<<WildBucket, i>>) = wild[i]
    /\ \A k \in 1..Len(typed), i \in Nat : HandlerAt(<<k, i>>) = typed[k].handlers[i]
    /\ \A type :
          /\ \A k, i : <<k, i>> \in Calls(type) <=>
                \/ /\ k \in 1..Len(typed) /\ Matches(type, typed[k].type)
                   /\ i \in 1..Len(typed[k].handlers)
                \/ k = WildBucket /\ i \in 1..Len(wild)
          /\ Calls(type) \subseteq Position
          /\ \A c \in Calls(type) : c = <<c[1], c[2]>>

LEMMA Places == TablesOk => PlacesOk
<1> SUFFICES ASSUME TablesOk, NEW type
             PROVE  /\ \A k, i : <<k, i>> \in Calls(type) <=>
                          \/ /\ k \in 1..Len(typed) /\ Matches(type, typed[k].type)
                             /\ i \in 1..Len(typed[k].handlers)
                          \/ k = WildBucket /\ i \in 1..Len(wild)
                    /\ Calls(type) \subseteq Position
                    /\ \A c \in Calls(type) : c = <<c[1], c[2]>>
                    /\ \A k \in 1..Len(typed), i \in Nat :
                          HandlerAt(<<k, i>>) = typed[k].handlers[i]
                    /\ \A i \in Nat : HandlerAt(<<WildBucket, i>>) = wild[i]
  BY DEF PlacesOk
<1>1. ASSUME NEW k, NEW i
      PROVE  <<k, i>> \in Calls(type) <=>
                 \/ /\ k \in 1..Len(typed) /\ Matches(type, typed[k].type)
                    /\ i \in 1..Len(typed[k].handlers)
                 \/ k = WildBucket /\ i \in 1..Len(wild)
  <2>1. <<k, i>> \in Calls(type) <=>
            \/ \E b \in Matching(type) : <<k, i>> \in {b} \X (1..Len(typed[b].handlers))
            \/ <<k, i>> \in {WildBucket} \X (1..Len(wild))
    BY DEF Calls
  <2> QED
    BY <2>1 DEF Matching
<1>2. ASSUME NEW c \in Calls(type)
      PROVE  c = <<c[1], c[2]>>
  <2>1. \/ \E b \in Matching(type) : c \in {b} \X (1..Len(typed[b].handlers))
        \/ c \in {WildBucket} \X (1..Len(wild))
    BY DEF Calls
  <2> QED
    BY <2>1
<1>3. ASSUME NEW c \in Calls(type)
      PROVE  c \in Position
  <2>1. c = <<c[1], c[2]>>
    BY <1>2
  <2>2. \/ c[1] \in 1..Len(typed) /\ c[2] \in 1..Len(typed[c[1]].handlers)
        \/ c[1] = WildBucket /\ c[2] \in 1..Len(wild)
    BY <1>1, <2>1
  <2>3. c[1] \in Nat /\ c[2] \in Nat
    BY <2>2, WildLast
  <2> QED
    BY <2>1, <2>3 DEF Position
<1>4. /\ \A k \in 1..Len(typed), i \in Nat : HandlerAt(<<k, i>>) = typed[k].handlers[i]
      /\ \A i \in Nat : HandlerAt(<<WildBucket, i>>) = wild[i]
  BY WildLast, TableTypes DEF HandlerAt
<1> QED
  BY <1>1, <1>2, <1>3, <1>4

(* The counter of an event's type comes before every other handler that    *)
(* the event is handed to, and is the only counter among them.             *)
LEMMA CounterFirst ==
    ASSUME TablesOk, NEW type \in {Failed, Completed}
    PROVE  /\ Counter(type) \in Calls(type) /\ HandlerAt(Counter(type)) = Metrics
           /\ \A c \in Calls(type) :
                 c # Counter(type) => /\ Before(Counter(type), c)
                                      /\ HandlerAt(c) \in Handler /\ HandlerAt(c) # Metrics
<1> DEFINE k == IF type = Completed THEN 1 ELSE 2
<1>1. /\ k \in {1, 2} /\ k \in 1..Len(typed) /\ typed[k].type = type
      /\ Counter(type) = <<k, 1>>
  BY TableTypes DEF TablesOk, CountersOk, Counter
<1>2. /\ typed[k].handlers \in Seq(Handler \cup {Metrics})
      /\ Len(typed[k].handlers) > 0 /\ typed[k].handlers[1] = Metrics
  BY <1>1, TableTypes DEF TablesOk, CountersOk
<1>3. 1 \in 1..Len(typed[k].handlers)
  BY <1>2
<1>4. Counter(type) \in Calls(type) /\ HandlerAt(Counter(type)) = Metrics
  BY <1>1, <1>2, <1>3, Places DEF Matches, PlacesOk
<1>5. ASSUME NEW c \in Calls(type), c # Counter(type)
      PROVE  /\ Before(Counter(type), c)
             /\ HandlerAt(c) \in Handler /\ HandlerAt(c) # Metrics
  <2> DEFINE b == c[1]
             i == c[2]
  <2>1. c = <<b, i>> /\ b \in Nat /\ i \in Nat
    BY Places DEF Position, PlacesOk
  <2>2. CASE b \in 1..Len(typed) /\ Matches(type, typed[b].type) /\ i \in 1..Len(typed[b].handlers)
    <3>1. HandlerAt(c) = typed[b].handlers[i]
      BY <2>1, <2>2, Places DEF PlacesOk
    <3>2. typed[b].handlers \in Seq(Handler \cup {Metrics})
      BY <2>2, TableTypes
    <3>3. typed[b].handlers[i] \in Handler \cup {Metrics}
      BY <2>2, <3>2
    <3>4. b >= k
      <4>1. CASE type = Completed
        BY <2>2, <4>1
      <4>2. CASE type = Failed
        <5>1. b # 1
          BY <2>2, <4>2 DEF TablesOk, CountersOk, Matches, Failed, Completed, AnyEvent
        <5> QED
          BY <1>1, <2>2, <5>1
      <4> QED
        BY <4>1, <4>2
    <3>5. Before(Counter(type), c)
      <4>1. b = k => i > 1
        BY <1>1, <1>5, <2>1, <2>2
      <4>2. Counter(type)[1] = k /\ Counter(type)[2] = 1
        BY <1>1
      <4> QED
        BY <1>1, <2>1, <3>4, <4>1, <4>2 DEF Before
    <3>6. HandlerAt(c) # Metrics
      <4>1. ASSUME HandlerAt(c) = Metrics PROVE FALSE
        <5>1. b \in {1, 2} /\ i = 1
          BY <2>2, <3>1, <4>1 DEF TablesOk, CountersOk
        <5>2. b = k
          BY <1>1, <2>2, <5>1 DEF TablesOk, CountersOk, Matches, Failed, Completed, AnyEvent
        <5> QED
          BY <1>1, <1>5, <2>1, <5>1, <5>2
      <4> QED
        BY <4>1
    <3> QED
      BY <3>1, <3>3, <3>5, <3>6
  <2>3. CASE b = WildBucket /\ i \in 1..Len(wild)
    <3>1. HandlerAt(c) = wild[i] /\ wild \in Seq(Handler)
      BY <2>1, <2>3, Places DEF TablesOk, CountersOk, PlacesOk
    <3>2. HandlerAt(c) \in Handler
      BY <2>3, <3>1
    <3>3. k < WildBucket
      BY <1>1, WildLast, TableTypes
    <3>4. Before(Counter(type), c)
      BY <1>1, <2>1, <2>3, <3>3 DEF Before
    <3> QED
      BY <3>2, <3>4, CallbacksAssumption
  <2> QED
    BY <2>1, <2>2, <2>3, Places DEF PlacesOk
<1> QED
  BY <1>4, <1>5

---------------------------------------------------------------------------
(* A publish in the middle of its callbacks.                               *)

PublishState ==
    [pc : {"in", "out"}, type : {Failed, Completed}, at : Position, size : Nat,
     due : SUBSET Handler, called : Seq(Handler)]

LEMMA NoPublishType == NoPublish \in PublishState
BY DEF NoPublish, PublishState, Position

(* A handler of the application is found in one place only.                *)
Single ==
    \A a, b \in Calls(Failed) \cup Calls(Completed) :
        HandlerAt(a) = HandlerAt(b) => a = b \/ HandlerAt(a) = Metrics

Occurs(h, s) == {i \in 1..Len(s) : s[i] = h}

(* The handlers due that are behind position at have been called once, the *)
(* others not yet.                                                         *)
Progress(x, at) ==
    \A h \in x.due : \E c \in Calls(x.type) :
        /\ HandlerAt(c) = h
        /\ Before(at, c) => Occurs(h, x.called) = {}
        /\ ~Before(at, c) => \E i : Occurs(h, x.called) = {i}

(* What a call adds to the list of the called.                             *)
LEMMA OccursAppend ==
    ASSUME NEW s \in Seq(Handler), NEW g \in Handler, NEW h \in Handler
    PROVE  Occurs(h, Append(s, g)) =
               Occurs(h, s) \cup (IF g = h THEN {Len(s) + 1} ELSE {})
<1>1. /\ Len(Append(s, g)) = Len(s) + 1 /\ Len(s) \in Nat
      /\ Append(s, g)[Len(s) + 1] = g
      /\ \A i \in 1..Len(s) : Append(s, g)[i] = s[i]
  OBVIOUS
<1>2. \A i : i \in 1..(Len(s) + 1) <=> i \in 1..Len(s) \/ i = Len(s) + 1
  BY <1>1
<1>3. Len(s) + 1 \notin 1..Len(s)
  BY <1>1
<1> QED
  BY <1>1, <1>2, <1>3 DEF Occurs

(* The counter of the event's type is passed by the first run of the loop  *)
(* and by no later one.                                                    *)
LEMMA PassedOnce ==
    ASSUME TablesOk, NEW x \in PublishState, NEW from \in Position
    PROVE  /\ from = <<1, 0>> => Passed(x, from) = {Counter(x.type)}
           /\ Before(Counter(x.type), from) => Passed(x, from) = {}
<1> DEFINE m == Counter(x.type)
<1>1. x.type \in {Failed, Completed}
  BY DEF PublishState
<1>2. /\ m \in Calls(x.type) /\ HandlerAt(m) = Metrics
      /\ \A c \in Calls(x.type) : c # m => Before(m, c) /\ HandlerAt(c) # Metrics
  BY <1>1, CounterFirst
<1>3. Calls(x.type) \subseteq Position
  BY Places DEF PlacesOk
<1>4. ASSUME from = <<1, 0>>
      PROVE  Passed(x, from) = {m}
  <2>1. Before(from, m)
    BY <1>4 DEF Before, Counter
  <2> HIDE DEF m
  <2> QED
    BY <1>2, <2>1 DEF Passed, Ahead, Users
<1>5. ASSUME Before(m, from)
      PROVE  Passed(x, from) = {}
  <2>1. ~Before(from, m)
    BY <1>2, <1>3, <1>5, Order
  <2> HIDE DEF m
  <2> QED
    BY <1>2, <2>1 DEF Passed, Ahead, Users
<1> QED
  BY <1>4, <1>5

(* The handler that is called next is new, and every handler before it has *)
(* been called.                                                            *)
LEMMA ProgressNext ==
    ASSUME TablesOk, Single, NEW x \in PublishState, NEW from \in Position,
           Progress(x, from), NEW at, IsNext(x, from, at)
    PROVE  Progress([x EXCEPT !.at = at, !.called = Append(@, HandlerAt(at))], at)
<1> DEFINE g == HandlerAt(at)
           r == [x EXCEPT !.at = at, !.called = Append(@, g)]
<1>1. /\ at \in Calls(x.type) /\ Before(from, at) /\ g # Metrics
      /\ \A b \in Calls(x.type) :
            Before(from, b) /\ HandlerAt(b) # Metrics => b = at \/ Before(at, b)
  BY DEF IsNext, Users, Ahead
<1>2. x.type \in {Failed, Completed} /\ x.due \subseteq Handler /\ x.called \in Seq(Handler)
  BY DEF PublishState
<1>3. g \in Handler
  BY <1>1, <1>2, CounterFirst
<1>4. r.type = x.type /\ r.due = x.due /\ r.called = Append(x.called, g)
  BY DEF PublishState
<1>5. Calls(x.type) \subseteq Position
  BY Places DEF PlacesOk
<1> SUFFICES ASSUME NEW h \in x.due
             PROVE  \E c \in Calls(x.type) :
                       /\ HandlerAt(c) = h
                       /\ Before(at, c) => Occurs(h, r.called) = {}
                       /\ ~Before(at, c) => \E i : Occurs(h, r.called) = {i}
  BY <1>4 DEF Progress
<1> HIDE DEF r, g
<1>6. PICK c \in Calls(x.type) :
          /\ HandlerAt(c) = h
          /\ Before(from, c) => Occurs(h, x.called) = {}
          /\ ~Before(from, c) => \E i : Occurs(h, x.called) = {i}
  BY DEF Progress
<1>7. Occurs(h, r.called) = Occurs(h, x.called)
                               \cup (IF g = h THEN {Len(x.called) + 1} ELSE {})
  BY <1>2, <1>3, <1>4, OccursAppend
<1>8. h # Metrics
  BY <1>2, CallbacksAssumption
<1>9. g = h <=> c = at
  BY <1>1, <1>2, <1>6 DEF Single, g
<1>10. CASE c = at
  <2>1. ~Before(at, c)
    BY <1>1, <1>5, <1>10, Order
  <2> QED
    BY <1>1, <1>6, <1>7, <1>9, <1>10, <2>1
<1>11. CASE c # at /\ Before(from, c)
  <2>1. Before(at, c)
    BY <1>1, <1>6, <1>8, <1>11
  <2> QED
    BY <1>6, <1>7, <1>9, <1>11, <2>1
<1>12. CASE c # at /\ ~Before(from, c)
  <2>1. ~Before(at, c)
    BY <1>1, <1>5, <1>12, Order
  <2> QED
    BY <1>6, <1>7, <1>9, <1>12, <2>1
<1> QED
  BY <1>10, <1>11, <1>12

(* A publish with no more handlers to call has called every one that was   *)
(* due.                                                                    *)
LEMMA ProgressEnd ==
    ASSUME NEW x \in PublishState, NEW from, Progress(x, from), Users(x, from) = {}
    PROVE  CalledOnce(x)
<1> SUFFICES ASSUME NEW h \in x.due
             PROVE  Cardinality(Occurs(h, x.called)) = 1
  BY DEF CalledOnce, Occurs
<1>1. h # Metrics
  BY CallbacksAssumption DEF PublishState
<1>2. PICK i : Occurs(h, x.called) = {i}
  BY <1>1 DEF Progress, Users, Ahead
<1> QED
  BY <1>2, FS_Singleton

Ongoing(x) ==
    x.pc = "in" => /\ Before(Counter(x.type), x.at)
                   /\ x.size <= Len(typed)
                   /\ x.size = Len(typed) => Progress(x, x.at)

(* One run of the loop, from a call or from the start, to the next call or *)
(* to the end.                                                             *)
LEMMA ContinueOk ==
    ASSUME TablesOk, Single, NEW p \in Publisher, NEW x \in PublishState, x.pc = "in",
           NEW from \in Position, Continue(p, x, from),
           \/ from = <<1, 0>> /\ x.size = Len(typed)
           \/ Before(Counter(x.type), from),
           x.size <= Len(typed), x.size = Len(typed) => Progress(x, from),
           counted \in [{Failed, Completed} -> Nat]
    PROVE  /\ \E r \in PublishState :
                 /\ pub' = [pub EXCEPT ![p] = r] /\ Ongoing(r)
                 /\ r.pc = "out" => CalledOnce(x) \/ Len(typed) > x.size
           /\ counted' = [counted EXCEPT ![x.type] =
                             @ + (IF from = <<1, 0>> THEN 1 ELSE 0)]
<1>1. x.type \in {Failed, Completed} /\ x.size \in Nat /\ Len(typed) \in Nat
  BY TableTypes DEF PublishState
<1>2. /\ from = <<1, 0>> => Cardinality(Passed(x, from)) = 1
      /\ Before(Counter(x.type), from) => Cardinality(Passed(x, from)) = 0
  BY PassedOnce, FS_Singleton, FS_EmptySet
<1>3. ~Before(Counter(x.type), <<1, 0>>)
  BY DEF Before, Counter
<1>4. counted' = [counted EXCEPT ![x.type] = @ + Cardinality(Passed(x, from))]
          => counted' = [counted EXCEPT ![x.type] =
                            @ + (IF from = <<1, 0>> THEN 1 ELSE 0)]
  BY <1>2, <1>3
<1>5. Calls(x.type) \subseteq Position
  BY Places DEF PlacesOk
<1>6. ASSUME NEW at \in Users(x, from), IsNext(x, from, at),
             pub' = [pub EXCEPT ![p] =
                        [x EXCEPT !.at = at, !.called = Append(@, HandlerAt(at))]]
      PROVE  \E r \in PublishState : pub' = [pub EXCEPT ![p] = r] /\ Ongoing(r) /\ r.pc = "in"
  <2> DEFINE r == [x EXCEPT !.at = at, !.called = Append(@, HandlerAt(at))]
  <2>1. at \in Calls(x.type) /\ HandlerAt(at) # Metrics /\ at \in Position
    BY <1>5 DEF Users, Ahead
  <2>2. at # Counter(x.type) /\ HandlerAt(at) \in Handler /\ Before(Counter(x.type), at)
    BY <1>1, <2>1, CounterFirst
  <2>3. /\ r \in PublishState /\ r.pc = "in" /\ r.type = x.type /\ r.at = at
        /\ r.size = x.size
    <3> DEFINE s == Append(x.called, HandlerAt(at))
    <3>1. s \in Seq(Handler)
      BY <2>2 DEF PublishState
    <3>2. r = [x EXCEPT !.at = at, !.called = s]
      BY DEF PublishState
    <3> HIDE DEF s, r
    <3> QED
      BY <2>1, <3>1, <3>2 DEF PublishState
  <2>4. x.size = Len(typed) => Progress(r, at)
    BY <1>6, ProgressNext
  <2> HIDE DEF r
  <2>5. Ongoing(r)
    BY <2>2, <2>3, <2>4 DEF Ongoing
  <2> QED
    BY <1>6, <2>3, <2>5 DEF r
<1>7. NoPublish \in PublishState /\ NoPublish.pc = "out" /\ Ongoing(NoPublish)
  BY NoPublishType DEF NoPublish, Ongoing
<1>8. x.size = Len(typed) /\ Users(x, from) = {} => CalledOnce(x)
  BY ProgressEnd
<1>9. x.size # Len(typed) => Len(typed) > x.size
  BY <1>1
<1>10. Len(typed) # x.size /\ from[1] # WildBucket => from # <<1, 0>>
  BY <1>3
<1>11. from # <<1, 0>> => counted = [counted EXCEPT ![x.type] =
                                        @ + (IF from = <<1, 0>> THEN 1 ELSE 0)]
  BY <1>1
<1> QED
  BY <1>3, <1>4, <1>6, <1>7, <1>8, <1>9, <1>10, <1>11 DEF Continue

---------------------------------------------------------------------------
(* The inductive invariant.                                                *)

DispatchInv ==
    /\ TablesOk /\ Single
    /\ pub \in [Publisher -> PublishState]
    /\ \A p \in Publisher : Ongoing(pub[p])
    /\ counted \in [{Failed, Completed} -> Nat]
    /\ CountedOnce

LEMMA DispatchInit == CallbacksInit => DispatchInv
<1> SUFFICES ASSUME CallbacksInit PROVE DispatchInv
  OBVIOUS
<1>1. TablesOk
  BY TablesInit
<1>2. \A p \in Publisher : pub[p] = NoPublish /\ Ongoing(pub[p])
  BY DEF CallbacksInit, NoPublish, Ongoing
<1>3. pub \in [Publisher -> PublishState]
  BY NoPublishType DEF CallbacksInit
<1>4. counted \in [{Failed, Completed} -> Nat] /\ CountedOnce
  BY DEF CallbacksInit, Init, CountedOnce
<1>5. Single
  <2>1. wild = <<>> /\ Len(typed) = 2
        /\ typed[1].handlers = <<Metrics>> /\ typed[2].handlers = <<Metrics>>
    BY DEF CallbacksInit, MetricsRegister
  <2>2. ASSUME NEW type \in {Failed, Completed}, NEW c \in Calls(type)
        PROVE  HandlerAt(c) = Metrics
    <3>1. c = <<c[1], c[2]>>
      BY <1>1, Places DEF PlacesOk
    <3>2. c[1] \in 1..2 /\ c[2] \in 1..Len(typed[c[1]].handlers)
      <4>1. 1..Len(wild) = {}
        BY <2>1
      <4> QED
        BY <1>1, <2>1, <3>1, <4>1, Places DEF PlacesOk
    <3>3. typed[c[1]].handlers = <<Metrics>> /\ c[2] = 1
      BY <2>1, <3>2
    <3>4. HandlerAt(c) = typed[c[1]].handlers[c[2]]
      BY <1>1, <2>1, <3>1, <3>2, <3>3, Places DEF PlacesOk
    <3> QED
      BY <3>3, <3>4
  <2> QED
    BY <2>2 DEF Single
<1> QED
  BY <1>1, <1>2, <1>3, <1>4, <1>5 DEF DispatchInv

(* A registration gives an event at most one call more, of a handler that  *)
(* it was not handed to before, and moves none.                            *)
LEMMA CallsGrow ==
    ASSUME TablesOk, NEW h \in Handler,
           OnAny(h) \/ \E type \in OnTypes : On(type, h)
    PROVE  /\ Len(typed) <= Len(typed')
           /\ \A type : Calls(type) \subseteq Calls(type)'
           /\ \A type : \A c \in Calls(type) : HandlerAt(c)' = HandlerAt(c)
           /\ \E n : \A type : \A c \in Calls(type)' :
                 c \in Calls(type) \/ (c = n /\ HandlerAt(c)' = h)
<1>1. TablesOk'
  BY OnTables, OnAnyTables
<1>a. PlacesOk'
  <2>1. TablesOk' => PlacesOk'
    BY Places, PTL
  <2> QED
    BY <1>1, <2>1
<1>b. PlacesOk
  BY Places
<1>2. Len(typed) \in Nat
  BY TableTypes
<1>3. CASE OnAny(h)
  <2>1. /\ typed' = typed /\ wild' = Append(wild, h)
        /\ Len(wild') = Len(wild) + 1 /\ Len(wild) \in Nat
        /\ wild'[Len(wild) + 1] = h
        /\ \A i \in 1..Len(wild) : wild'[i] = wild[i]
    BY <1>3 DEF OnAny, TablesOk
  <2>2. \A i : i \in 1..Len(wild') <=> i \in 1..Len(wild) \/ i = Len(wild) + 1
    BY <2>1
  <2>3. ASSUME NEW type, NEW c \in Calls(type)
        PROVE  c \in Calls(type)' /\ HandlerAt(c)' = HandlerAt(c)
    <3>1. c = <<c[1], c[2]>> /\ c[1] \in Nat /\ c[2] \in Nat
      BY <1>b DEF Position, PlacesOk
    <3>2. CASE /\ c[1] \in 1..Len(typed) /\ Matches(type, typed[c[1]].type)
               /\ c[2] \in 1..Len(typed[c[1]].handlers)
      BY <1>1, <2>1, <3>1, <3>2, <1>a, <1>b DEF PlacesOk
    <3>3. CASE c[1] = WildBucket /\ c[2] \in 1..Len(wild)
      BY <1>1, <2>1, <2>2, <3>1, <3>3, <1>a, <1>b DEF PlacesOk
    <3> QED
      BY <3>1, <3>2, <3>3, <1>a, <1>b DEF PlacesOk
  <2>4. ASSUME NEW type, NEW c \in Calls(type)'
        PROVE  c \in Calls(type) \/ (c = <<WildBucket, Len(wild) + 1>> /\ HandlerAt(c)' = h)
    <3>1. c = <<c[1], c[2]>> /\ c[1] \in Nat /\ c[2] \in Nat
      BY <1>1, <1>a, <1>b DEF Position, PlacesOk
    <3>2. CASE /\ c[1] \in 1..Len(typed) /\ Matches(type, typed[c[1]].type)
               /\ c[2] \in 1..Len(typed[c[1]].handlers)
      BY <3>1, <3>2, <1>a, <1>b DEF PlacesOk
    <3>3. CASE c[1] = WildBucket /\ c[2] \in 1..Len(wild')
      BY <1>1, <2>1, <2>2, <3>1, <3>3, <1>a, <1>b DEF PlacesOk
    <3> QED
      BY <1>1, <2>1, <3>1, <3>2, <3>3, <1>a, <1>b DEF PlacesOk
  <2> QED
    BY <1>2, <2>1, <2>3, <2>4
<1>4. ASSUME NEW t \in OnTypes, On(t, h), \E k \in 1..Len(typed) : typed[k].type = t
      PROVE  /\ Len(typed) <= Len(typed')
             /\ \A type : \A c \in Calls(type) : c \in Calls(type)' /\ HandlerAt(c)' = HandlerAt(c)
             /\ \E n : \A type : \A c \in Calls(type)' :
                   c \in Calls(type) \/ (c = n /\ HandlerAt(c)' = h)
  <2>1. PICK b \in 1..Len(typed) : typed[b].type = t
    BY <1>4
  <2>2. /\ typed' = [k \in 1..Len(typed) |->
                        IF typed[k].type = t
                        THEN [typed[k] EXCEPT !.handlers = Append(@, h)]
                        ELSE typed[k]]
    BY <1>4 DEF On
  <2>w. wild' = wild
    BY <1>4 DEF On
  <2>3. Len(typed') = Len(typed)
    BY <1>1, <1>2, <2>2, TableTypes DEF TablesOk
  <2> DEFINE s == typed[b].handlers
  <2>4. typed[b] \in Bucket /\ s \in Seq(Handler \cup {Metrics})
    BY TableTypes
  <2>5. /\ typed'[b].type = typed[b].type /\ typed'[b].handlers = Append(s, h)
        /\ \A k \in 1..Len(typed) : k # b => typed'[k] = typed[k]
    <3>1. typed'[b] = [typed[b] EXCEPT !.handlers = Append(@, h)]
      BY <2>1, <2>2
    <3>2. \A k \in 1..Len(typed) : k # b => typed[k].type # t
      BY <2>1 DEF TablesOk, BucketsOk
    <3> QED
      BY <2>2, <2>4, <3>1, <3>2 DEF Bucket
  <2>6. /\ Len(Append(s, h)) = Len(s) + 1 /\ Len(s) \in Nat
        /\ Append(s, h)[Len(s) + 1] = h
        /\ \A i \in 1..Len(s) : Append(s, h)[i] = s[i]
    BY <2>4
  <2>7. \A i : i \in 1..Len(Append(s, h)) <=> i \in 1..Len(s) \/ i = Len(s) + 1
    BY <2>6
  <2>8. ASSUME NEW type, NEW c \in Calls(type)
        PROVE  c \in Calls(type)' /\ HandlerAt(c)' = HandlerAt(c)
    <3>1. c = <<c[1], c[2]>> /\ c[1] \in Nat /\ c[2] \in Nat
      BY <1>b DEF Position, PlacesOk
    <3>2. CASE /\ c[1] \in 1..Len(typed) /\ Matches(type, typed[c[1]].type)
               /\ c[2] \in 1..Len(typed[c[1]].handlers)
      <4>1. CASE c[1] = b
        BY <1>1, <2>3, <2>5, <2>6, <2>7, <3>1, <3>2, <4>1, <1>a, <1>b DEF PlacesOk
      <4>2. CASE c[1] # b
        BY <1>1, <2>3, <2>5, <3>1, <3>2, <4>2, <1>a, <1>b DEF PlacesOk
      <4> QED
        BY <4>1, <4>2
    <3>3. CASE c[1] = WildBucket /\ c[2] \in 1..Len(wild)
      BY <1>1, <2>w, <3>1, <3>3, <1>a, <1>b DEF PlacesOk
    <3> QED
      BY <3>1, <3>2, <3>3, <1>a, <1>b DEF PlacesOk
  <2>9. ASSUME NEW type, NEW c \in Calls(type)'
        PROVE  c \in Calls(type) \/ (c = <<b, Len(s) + 1>> /\ HandlerAt(c)' = h)
    <3>1. c = <<c[1], c[2]>> /\ c[1] \in Nat /\ c[2] \in Nat
      BY <1>1, <1>a, <1>b DEF Position, PlacesOk
    <3>2. CASE /\ c[1] \in 1..Len(typed') /\ Matches(type, typed'[c[1]].type)
               /\ c[2] \in 1..Len(typed'[c[1]].handlers)
      <4>1. CASE c[1] = b
        BY <1>1, <2>3, <2>5, <2>6, <2>7, <3>1, <3>2, <4>1, <1>a, <1>b DEF PlacesOk
      <4>2. CASE c[1] # b
        BY <2>3, <2>5, <3>1, <3>2, <4>2, <1>a, <1>b DEF PlacesOk
      <4> QED
        BY <4>1, <4>2
    <3>3. CASE c[1] = WildBucket /\ c[2] \in 1..Len(wild)
      BY <3>1, <3>3, <1>a, <1>b DEF PlacesOk
    <3> QED
      BY <1>1, <2>w, <3>1, <3>2, <3>3, <1>a, <1>b DEF PlacesOk
  <2>10. Len(typed) <= Len(typed')
    BY <1>2, <2>3
  <2> HIDE DEF s
  <2>11. \E n : \A type : \A c \in Calls(type)' :
            c \in Calls(type) \/ (c = n /\ HandlerAt(c)' = h)
    BY <2>9
  <2> QED
    BY <2>8, <2>10, <2>11
<1>5. ASSUME NEW t \in OnTypes, On(t, h), \A k \in 1..Len(typed) : typed[k].type # t
      PROVE  /\ Len(typed) <= Len(typed')
             /\ \A type : \A c \in Calls(type) : c \in Calls(type)' /\ HandlerAt(c)' = HandlerAt(c)
             /\ \E n : \A type : \A c \in Calls(type)' :
                   c \in Calls(type) \/ (c = n /\ HandlerAt(c)' = h)
  <2> DEFINE new == [type |-> t, handlers |-> <<h>>]
             b   == Len(typed) + 1
  <2>1. typed' = Append(typed, new) /\ wild' = wild
    BY <1>5 DEF On
  <2>2. new \in Bucket /\ new.handlers = <<h>>
    BY DEF Bucket, Types
  <2> HIDE DEF new
  <2>3. /\ Len(typed') = b /\ typed'[b] = new
        /\ \A k \in 1..Len(typed) : typed'[k] = typed[k]
    BY <2>1, <2>2 DEF TablesOk
  <2>4. \A k : k \in 1..Len(typed') <=> k \in 1..Len(typed) \/ k = b
    BY <1>2, <2>3
  <2>5. Len(<<h>>) = 1 /\ <<h>>[1] = h /\ \A i : i \in 1..1 <=> i = 1
    OBVIOUS
  <2>6. ASSUME NEW type, NEW c \in Calls(type)
        PROVE  c \in Calls(type)' /\ HandlerAt(c)' = HandlerAt(c)
    <3>1. c = <<c[1], c[2]>> /\ c[1] \in Nat /\ c[2] \in Nat
      BY <1>b DEF Position, PlacesOk
    <3>2. CASE /\ c[1] \in 1..Len(typed) /\ Matches(type, typed[c[1]].type)
               /\ c[2] \in 1..Len(typed[c[1]].handlers)
      BY <1>1, <2>3, <2>4, <3>1, <3>2, <1>a, <1>b DEF PlacesOk
    <3>3. CASE c[1] = WildBucket /\ c[2] \in 1..Len(wild)
      BY <1>1, <2>1, <3>1, <3>3, <1>a, <1>b DEF PlacesOk
    <3> QED
      BY <3>1, <3>2, <3>3, <1>a, <1>b DEF PlacesOk
  <2>7. ASSUME NEW type, NEW c \in Calls(type)'
        PROVE  c \in Calls(type) \/ (c = <<b, 1>> /\ HandlerAt(c)' = h)
    <3>1. c = <<c[1], c[2]>> /\ c[1] \in Nat /\ c[2] \in Nat
      BY <1>1, <1>a, <1>b DEF Position, PlacesOk
    <3>2. CASE /\ c[1] \in 1..Len(typed') /\ Matches(type, typed'[c[1]].type)
               /\ c[2] \in 1..Len(typed'[c[1]].handlers)
      <4>1. CASE c[1] = b
        <5>1. c[2] = 1
          BY <2>2, <2>3, <2>5, <3>2, <4>1
        <5>2. HandlerAt(c)' = typed'[b].handlers[1]
          BY <1>1, <3>1, <3>2, <4>1, <5>1, <1>a, <1>b DEF PlacesOk
        <5> QED
          BY <2>2, <2>3, <2>5, <3>1, <4>1, <5>1, <5>2
      <4>2. CASE c[1] # b
        BY <2>3, <2>4, <3>1, <3>2, <4>2, <1>a, <1>b DEF PlacesOk
      <4> QED
        BY <4>1, <4>2
    <3>3. CASE c[1] = WildBucket /\ c[2] \in 1..Len(wild)
      BY <3>1, <3>3, <1>a, <1>b DEF PlacesOk
    <3> QED
      BY <1>1, <2>1, <3>1, <3>2, <3>3, <1>a, <1>b DEF PlacesOk
  <2> QED
    BY <1>2, <2>3, <2>6, <2>7
<1> QED
  BY <1>3, <1>4, <1>5

(* A step that registers nothing keeps what is known of the places.        *)
LEMMA SameTables ==
    ASSUME TablesOk, Single, typed' = typed, wild' = wild,
           \A q \in Publisher : Ongoing(pub'[q])
    PROVE  TablesOk' /\ Single' /\ \A q \in Publisher : Ongoing(pub[q])'
<1>1. \A type : Calls(type)' = Calls(type)
  BY DEF Calls, Matching
<1>2. \A c : HandlerAt(c)' = HandlerAt(c)
  BY DEF HandlerAt
<1>3. TablesOk'
  <2>1. Buckets' = Buckets
    BY DEF Buckets
  <2> QED
    BY <2>1 DEF TablesOk, CountersOk, BucketsOk
<1>4. Single'
  BY <1>1, <1>2 DEF Single
<1>5. \A q \in Publisher : Ongoing(pub[q])'
  BY <1>1, <1>2 DEF Ongoing, Progress
<1> QED
  BY <1>3, <1>4, <1>5

(* A new publish has counted its event and called the first handler.       *)
LEMMA BeginOk ==
    ASSUME DispatchInv, TypeOK, NEW p \in Publisher, NEW type \in Emits[p],
           BeginPublish(p, type)
    PROVE  DispatchInv'
<1> DEFINE from == <<1, 0>>
           due == {HandlerAt(at) : at \in Calls(type)} \ {Metrics}
           x == [NoPublish EXCEPT !.pc = "in", !.type = type, !.size = Len(typed), !.due = due]
<1>0. /\ TablesOk /\ Single /\ pub \in [Publisher -> PublishState]
      /\ counted \in [{Failed, Completed} -> Nat] /\ CountedOnce
      /\ \A q \in Publisher : Ongoing(pub[q])
  BY DEF DispatchInv
<1>1. type \in {Failed, Completed}
  BY CallbacksAssumption
<1>2. /\ Counter(type) \in Calls(type) /\ HandlerAt(Counter(type)) = Metrics
      /\ \A c \in Calls(type) :
            c # Counter(type) => /\ Before(Counter(type), c)
                                 /\ HandlerAt(c) \in Handler /\ HandlerAt(c) # Metrics
  BY <1>0, <1>1, CounterFirst
<1>3. /\ x \in PublishState /\ x.pc = "in" /\ x.type = type /\ x.size = Len(typed)
      /\ x.due = due /\ x.called = <<>>
  <2>1. due \subseteq Handler
    BY <1>2
  <2>2. Len(typed) \in Nat
    BY <1>0, TableTypes
  <2> HIDE DEF due
  <2>3. NoPublish \in PublishState /\ NoPublish.called = <<>>
    <3>1. Completed \in {Failed, Completed} /\ <<1, 0>> \in Position /\ 0 \in Nat
          /\ {} \in SUBSET Handler /\ <<>> \in Seq(Handler)
      BY DEF Position
    <3> QED
      BY <3>1 DEF NoPublish, PublishState
  <2>4. x \in PublishState /\ x.pc = "in" /\ x.type = type /\ x.size = Len(typed)
        /\ x.due = due /\ x.called = NoPublish.called
    BY <1>1, <2>1, <2>2, <2>3 DEF PublishState
  <2> QED
    BY <2>3, <2>4
<1> HIDE DEF x
<1>4. Progress(x, from)
  <2> SUFFICES ASSUME NEW h \in due
               PROVE  \E c \in Calls(type) :
                         HandlerAt(c) = h /\ Before(from, c) /\ Occurs(h, <<>>) = {}
    BY <1>3 DEF Progress
  <2>1. PICK c \in Calls(type) : HandlerAt(c) = h /\ h # Metrics
    OBVIOUS
  <2>2. Before(Counter(type), c) /\ Before(from, Counter(type))
    BY <1>2, <2>1 DEF Before, Counter
  <2>3. Calls(type) \subseteq Position /\ from \in Position
    BY <1>0, Places DEF PlacesOk, Position
  <2>4. Before(from, c)
    BY <1>2, <2>2, <2>3, Order
  <2>5. Occurs(h, <<>>) = {}
    BY DEF Occurs
  <2> QED
    BY <2>1, <2>4, <2>5
<1>5. from \in Position
  BY DEF Position
<1>6. /\ Continue(p, x, from) /\ typed' = typed /\ wild' = wild
      /\ IF type = Failed THEN PublishCritical ELSE PublishStandard
  BY DEF BeginPublish, x
<1>7. x.size <= Len(typed)
  BY <1>0, <1>3, TableTypes
<1>8. /\ \E r \in PublishState : pub' = [pub EXCEPT ![p] = r] /\ Ongoing(r)
      /\ counted' = [counted EXCEPT ![type] = @ + 1]
  BY <1>0, <1>3, <1>4, <1>5, <1>6, <1>7, ContinueOk
<1>9. /\ pub' \in [Publisher -> PublishState]
      /\ \A q \in Publisher : Ongoing(pub'[q])
  BY <1>0, <1>8
<1>10. CountedOnce' /\ counted' \in [{Failed, Completed} -> Nat]
  <2>1. Failed # Completed
    BY DEF Failed, Completed
  <2>2. IF type = Failed THEN criticals' = criticals + 1 /\ standards' = standards
                         ELSE standards' = standards + 1 /\ criticals' = criticals
    BY <1>6 DEF PublishCritical, PublishStandard
  <2> QED
    BY <1>0, <1>1, <1>8, <2>1, <2>2 DEF CountedOnce
<1> QED
  BY <1>0, <1>6, <1>9, <1>10, SameTables DEF DispatchInv

(* Going on after a handler counts nothing, and a publish that ends there  *)
(* has called every handler that was due, or has met a new bucket.         *)
LEMMA ReturnsOk ==
    ASSUME DispatchInv, NEW p \in Publisher, HandlerReturns(p)
    PROVE  /\ DispatchInv'
           /\ \A q \in Publisher : q # p => pub'[q] = pub[q]
           /\ pub'[p].pc = "out" => CalledOnce(pub[p]) \/ Len(typed) > pub[p].size
<1> DEFINE x == pub[p]
<1>0. /\ TablesOk /\ Single /\ pub \in [Publisher -> PublishState]
      /\ counted \in [{Failed, Completed} -> Nat] /\ CountedOnce
      /\ \A q \in Publisher : Ongoing(pub[q])
  BY DEF DispatchInv
<1>1. /\ x \in PublishState /\ x.pc = "in" /\ x.at \in Position
      /\ x.type \in {Failed, Completed}
      /\ Before(Counter(x.type), x.at) /\ x.size <= Len(typed)
      /\ x.size = Len(typed) => Progress(x, x.at)
  BY <1>0 DEF HandlerReturns, PublishState, Ongoing
<1>2. /\ Continue(p, x, x.at) /\ typed' = typed /\ wild' = wild
      /\ criticals' = criticals /\ standards' = standards
  BY DEF HandlerReturns, vars
<1>3. x.at # <<1, 0>>
  BY <1>1 DEF Before, Counter
<1> HIDE DEF x
<1>4. /\ \E r \in PublishState :
            /\ pub' = [pub EXCEPT ![p] = r] /\ Ongoing(r)
            /\ r.pc = "out" => CalledOnce(x) \/ Len(typed) > x.size
      /\ counted' = [counted EXCEPT ![x.type] =
                        @ + (IF x.at = <<1, 0>> THEN 1 ELSE 0)]
  BY <1>0, <1>1, <1>2, ContinueOk
<1>5. counted' = counted
  BY <1>0, <1>1, <1>3, <1>4
<1>6. /\ pub' \in [Publisher -> PublishState]
      /\ \A q \in Publisher : Ongoing(pub'[q])
      /\ \A q \in Publisher : q # p => pub'[q] = pub[q]
      /\ pub'[p].pc = "out" => CalledOnce(x) \/ Len(typed) > x.size
  BY <1>0, <1>4
<1>7. CountedOnce'
  BY <1>0, <1>2, <1>5 DEF CountedOnce
<1> QED
  BY <1>0, <1>2, <1>5, <1>6, <1>7, SameTables DEF DispatchInv, x

(* Registering a handler in the middle of publishes costs none of them a   *)
(* call, unless it opens a bucket.                                         *)
LEMMA RegisterOk ==
    ASSUME DispatchInv, NEW h \in Handler,
           OnAny(h) \/ \E type \in OnTypes : On(type, h)
    PROVE  DispatchInv'
<1>0. /\ TablesOk /\ Single /\ pub \in [Publisher -> PublishState]
      /\ counted \in [{Failed, Completed} -> Nat] /\ CountedOnce
      /\ \A q \in Publisher : Ongoing(pub[q])
  BY DEF DispatchInv
<1>1. TablesOk'
  BY <1>0, OnTables, OnAnyTables
<1>2. /\ pub' = pub /\ counted' = counted
      /\ criticals' = criticals /\ standards' = standards
      /\ h \notin Registered
  BY DEF On, OnAny, vars
<1>3. /\ Len(typed) <= Len(typed')
      /\ \A type : Calls(type) \subseteq Calls(type)'
      /\ \A type : \A c \in Calls(type) : HandlerAt(c)' = HandlerAt(c)
  BY <1>0, CallsGrow
<1>4. PICK n : \A type : \A c \in Calls(type)' :
                  c \in Calls(type) \/ (c = n /\ HandlerAt(c)' = h)
  BY <1>0, CallsGrow
<1>5. Len(typed) \in Nat /\ Len(typed') \in Nat
  <2>1. typed' \in Seq(Bucket)
    BY <1>1 DEF TablesOk
  <2> QED
    BY <1>0, <2>1, TableTypes
<1>6. Single'
  <2> DEFINE Old == Calls(Failed) \cup Calls(Completed)
  <2>1. \A a \in Old : HandlerAt(a)' = HandlerAt(a) /\ HandlerAt(a) # h
    BY <1>2, <1>3 DEF Registered
  <2>2. \A a \in Calls(Failed)' \cup Calls(Completed)' :
            a \in Old \/ (a = n /\ HandlerAt(a)' = h)
    BY <1>4
  <2>3. \A a, b \in Old : HandlerAt(a) = HandlerAt(b) => a = b \/ HandlerAt(a) = Metrics
    BY <1>0 DEF Single
  <2> HIDE DEF Old
  <2> QED
    BY <2>1, <2>2, <2>3 DEF Single
<1>7. ASSUME NEW q \in Publisher PROVE Ongoing(pub[q])'
  <2> DEFINE x == pub[q]
  <2>1. x \in PublishState /\ x.size \in Nat /\ Ongoing(x)
    BY <1>0 DEF PublishState
  <2> SUFFICES ASSUME x.pc = "in"
               PROVE  /\ Before(Counter(x.type), x.at)
                      /\ x.size <= Len(typed')
                      /\ x.size = Len(typed') => Progress(x, x.at)'
    BY <1>2 DEF Ongoing
  <2>2. Before(Counter(x.type), x.at) /\ x.size <= Len(typed)
    BY <2>1 DEF Ongoing
  <2>3. ASSUME x.size = Len(typed') PROVE Progress(x, x.at)'
    <3>1. Progress(x, x.at)
      BY <1>3, <1>5, <2>1, <2>2, <2>3 DEF Ongoing
    <3> QED
      BY <1>2, <1>3, <3>1 DEF Progress
  <2> QED
    BY <1>3, <1>5, <2>1, <2>2, <2>3
<1>8. CountedOnce'
  BY <1>0, <1>2 DEF CountedOnce
<1> QED
  BY <1>0, <1>1, <1>2, <1>6, <1>7, <1>8 DEF DispatchInv

(* A subscriber's steps do not touch the callbacks.                        *)
LEMMA BesideOk ==
    ASSUME DispatchInv, TypeOK,
           \/ UNCHANGED busVars
           \/ /\ UNCHANGED callbackVars
              /\ \E s \in Subscriber : Subscribe(s) \/ CallNext(s) \/ Iterate(s)
                                           \/ DropSubscriber(s)
    PROVE  DispatchInv' /\ pub' = pub
<1>0. /\ TablesOk /\ Single /\ pub \in [Publisher -> PublishState]
      /\ counted \in [{Failed, Completed} -> Nat] /\ CountedOnce
      /\ \A q \in Publisher : Ongoing(pub[q])
  BY DEF DispatchInv
<1>1. typed' = typed /\ wild' = wild /\ pub' = pub /\ counted' = counted
  BY DEF busVars, callbackVars
<1>2. criticals' = criticals /\ standards' = standards
  BY IterateType DEF busVars, vars
<1>3. CountedOnce'
  BY <1>0, <1>1, <1>2 DEF CountedOnce
<1> QED
  BY <1>0, <1>1, <1>3, SameTables DEF DispatchInv

LEMMA DispatchStep == TypeOK /\ DispatchInv /\ [CallbacksNext]_busVars => DispatchInv'
BY BeginOk, ReturnsOk, RegisterOk, BesideOk DEF CallbacksNext, HandlerRaises

LEMMA DispatchAlways == CallbacksSpec => [](TypeOK /\ DispatchInv)
<1>1. CallbacksSpec => []TypeOK
  BY BusUnderneath, BusTypeCorrect, PTL
<1> QED
  BY <1>1, DispatchInit, DispatchStep, PTL DEF CallbacksSpec

(* Whatever handlers hang, raise or are registered, and whoever publishes, *)
(* the counters of metrics_subscriber show every event once, as soon as it *)
(* is published.                                                           *)
THEOREM EventsCountedOnce == CallbacksSpec => []CountedOnce
<1>1. DispatchInv => CountedOnce
  BY DEF DispatchInv
<1> QED
  BY <1>1, DispatchAlways, PTL

(* One bad handler does not block its siblings: a publish that ends has    *)
(* called every handler registered before it exactly once, or a handler    *)
(* was registered for a new type meanwhile.                                *)
THEOREM SiblingsNotBlocked == CallbacksSpec => SiblingsCalled
<1> DEFINE Fair(p) == pub[p].pc = "in" /\ pub'[p].pc = "out" =>
                          CalledOnce(pub[p]) \/ Len(typed) > pub[p].size
<1>1. ASSUME TypeOK, DispatchInv, [CallbacksNext]_busVars, NEW p \in Publisher
      PROVE  Fair(p)
  <2>1. ASSUME NEW q \in Publisher, HandlerReturns(q)
        PROVE  Fair(p)
    <3>1. CASE p = q
      BY <1>1, <2>1, <3>1, ReturnsOk
    <3>2. CASE p # q
      BY <1>1, <2>1, <3>2 DEF HandlerReturns, Continue, DispatchInv
    <3> QED
      BY <3>1, <3>2
  <2>2. ASSUME NEW q \in Publisher, NEW type \in Emits[q], BeginPublish(q, type)
        PROVE  Fair(p)
    <3>1. pub[q].pc = "out"
      BY <2>2 DEF BeginPublish
    <3>2. \A u \in Publisher \ {q} : pub'[u] = pub[u]
      BY <1>1, <2>2 DEF BeginPublish, Continue, DispatchInv
    <3> QED
      BY <3>1, <3>2
  <2>3. ASSUME NEW h \in Handler, OnAny(h) \/ \E type \in OnTypes : On(type, h)
        PROVE  Fair(p)
    BY <2>3 DEF OnAny, On
  <2>4. CASE \/ UNCHANGED busVars
             \/ /\ UNCHANGED callbackVars
                /\ \E s \in Subscriber : Subscribe(s) \/ CallNext(s) \/ Iterate(s)
                                             \/ DropSubscriber(s)
    BY <1>1, <2>4, BesideOk
  <2> QED
    BY <1>1, <2>1, <2>2, <2>3, <2>4 DEF CallbacksNext, HandlerRaises
<1>2. TypeOK /\ DispatchInv /\ [CallbacksNext]_busVars
          => [\A p \in Publisher : Fair(p)]_busVars
  BY <1>1
<1>3. SiblingsCalled <=> [][\A p \in Publisher : Fair(p)]_busVars
  BY DEF SiblingsCalled
<1> HIDE DEF Fair
<1> QED
  BY <1>2, <1>3, DispatchAlways, PTL DEF CallbacksSpec
============================================================================
