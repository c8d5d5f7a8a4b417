--------------------------- MODULE WatcherProofs ---------------------------
(***************************************************************************)
(* Theorems about Watcher for every set of domains, channels, thresholds,  *)
(* expiries, callers and settings.                                         *)
(***************************************************************************)
EXTENDS Watcher, TLAPS

(* Every delivery a dispatch creates is well typed.                        *)
LEMMA NewDeliveriesType ==
    ASSUME TypeOK, NEW t \in Task, rows[t[1]] # None,
           NEW alerts,
           alerts = AlertsFor(rows[t[1]].settings.thresholds,
                              check[t].previous, check[t].expires_at, clock)
    PROVE  NewDeliveries(t, alerts, rows[t[1]].settings.channels)
               \subseteq Delivery
<1> DEFINE s == rows[t[1]].settings
<1>1. s \in Settings
  BY DEF TypeOK, Row, Task
<1>2. s.thresholds \subseteq Threshold /\ s.channels \in Seq(Channel)
  BY <1>1, SettingsAssumption
<1>3. check[t].expires_at \in Expiry \cup {None}
  BY DEF TypeOK, CheckState
<1>4. ASSUME NEW th \in alerts, NEW i \in 1..Len(s.channels)
      PROVE  [task |-> t, threshold |-> th, cycle |-> check[t].expires_at,
              channel |-> s.channels[i], index |-> i, pc |-> "ask",
              attempt |-> 0] \in Delivery
  <2>1. th \in Threshold /\ check[t].expires_at \in Expiry
    BY <1>2, <1>3 DEF AlertsFor
  <2>2. s.channels[i] \in Channel /\ i \in Nat \ {0}
    BY <1>2
  <2> QED
    BY <2>1, <2>2, ConstantsAssumption DEF Delivery
<1> QED
  BY <1>4 DEF NewDeliveries

(* The first attempt of a retry loop is within RetryPolicy.max_attempts.   *)
LEMMA AttemptRange ==
    /\ 1 \in 0..MaxAttempts
    /\ \A n \in 0..MaxAttempts : n < MaxAttempts => n + 1 \in 0..MaxAttempts
BY ConstantsAssumption

(* Every _deliver task has an idempotency key.                             *)
LEMMA KeyOfType ==
    ASSUME NEW x \in Delivery PROVE KeyOf(x) \in Key
BY DEF Delivery, KeyOf, Key, Task

(* A send that raised counts at most one page more, within the bound.      *)
LEMMA UnansweredType ==
    ASSUME NEW k \in Key, strays \in [Key -> 0..MaxStray], Unanswered(k)
    PROVE  strays' \in [Key -> 0..MaxStray]
<1>1. strays[k] < MaxStray => strays[k] + 1 \in 0..MaxStray
  BY ConstantsAssumption
<1> QED
  BY <1>1 DEF Unanswered

(* The bootstrapped state is well typed.                                   *)
LEMMA TypeInit == Init => TypeOK
<1> SUFFICES ASSUME Init PROVE TypeOK
  OBVIOUS
<1>1. rows \in [Domain -> Row \cup {None}]
  BY DEF Init, Row
<1>2. check \in [Task -> CheckState]
  BY ConstantsAssumption DEF Init, CheckState, IdleCheck
<1>3. admin \in [Admin -> AdminState]
  BY DEF Init, AdminState, IdleAdmin
<1>4. strays \in [Key -> 0..MaxStray]
  BY ConstantsAssumption DEF Init
<1> QED
  BY <1>1, <1>2, <1>3, <1>4 DEF Init, TypeOK, IdleCheck, IdleAdmin

(* A check task's new local state is all a step of CheckStep has to be     *)
(* shown to type, apart from the store.                                    *)
LEMMA TypeGoto ==
    ASSUME TypeOK, NEW t \in Task, NEW c \in CheckState,
           c.pc \in {"check", "save"} => c.snapshot # None,
           c.pc = "save" => c.expires_at # None,
           Goto(t, c)
    PROVE  /\ check' \in [Task -> CheckState]
           /\ \A u \in Task :
                /\ check'[u].pc \in {"check", "save"} => check'[u].snapshot # None
                /\ check'[u].pc = "save" => check'[u].expires_at # None
BY DEF TypeOK, Goto

(* The locals of a call that is not running are well typed.                *)
LEMMA IdleType == IdleCheck \in CheckState /\ IdleAdmin \in AdminState
BY ConstantsAssumption DEF IdleCheck, IdleAdmin, CheckState, AdminState

(* Clock and registry steps keep every type.                               *)
LEMMA TypeEnvironment ==
    ASSUME TypeOK, Environment PROVE TypeOK'
<1>1. clock' \in Nat /\ registry' \in [Domain -> Expiry]
  BY DEF TypeOK, Environment, Tick, StepBack, Renew
<1> QED
  BY <1>1 DEF TypeOK, Environment, Tick, StepBack, Renew, store, ghost

(* Every step of check_now, from its first read to its gather, keeps every *)
(* type.                                                                   *)
LEMMA TypeCheckStep ==
    ASSUME TypeOK, NEW t \in Task, StartCheck(t) \/ CheckStep(t)
    PROVE  TypeOK'
<1> DEFINE d == t[1]
<1> USE IdleType, ConstantsAssumption
<1>0. d \in Domain /\ check[t] \in CheckState
  BY DEF Task, TypeOK
<1>1. CASE StartCheck(t)
  <2>1. [IdleCheck EXCEPT !.pc = "get"] \in CheckState
    BY DEF CheckState, IdleCheck
  <2> QED
    BY <1>1, <2>1, TypeGoto DEF TypeOK, StartCheck, IdleCheck, store, ghost
<1>2. CASE GetPrevious(t)
  <2>1. rows[d] # None => [check[t] EXCEPT !.pc = "load", !.previous = rows[d].last] \in CheckState
    BY <1>0 DEF TypeOK, CheckState, Row
  <2> QED
    BY <1>0, <1>2, <2>1, TypeGoto DEF TypeOK, GetPrevious, Leave, IdleCheck, CheckState, store, ghost
<1>3. CASE LoadDomain(t)
  <2>1. rows[d] # None => [check[t] EXCEPT !.pc = "check", !.attempt = 1, !.snapshot = rows[d]] \in CheckState
    BY <1>0, AttemptRange DEF TypeOK, CheckState
  <2> QED
    BY <1>0, <1>3, <2>1, TypeGoto DEF TypeOK, LoadDomain, Leave, IdleCheck, CheckState, store, ghost
<1>4. CASE RetryCheck(t)
  <2>1. [check[t] EXCEPT !.attempt = @ + 1] \in CheckState
    BY <1>0, <1>4 DEF RetryCheck, CheckState
  <2> QED
    BY <1>0, <1>4, <2>1, TypeGoto DEF TypeOK, RetryCheck, CheckState, store, ghost
<1>5. CASE \E transient, raised \in BOOLEAN : FailCheck(t, transient, raised)
  <2> DEFINE c == [check[t] EXCEPT !.pc = "refresh", !.snapshot = None]
  <2>1. c \in CheckState /\ c.pc = "refresh"
    BY <1>0 DEF CheckState
  <2>2. Goto(t, IdleCheck) \/ Goto(t, c)
    BY <1>5 DEF FailCheck, Leave
  <2> QED
    BY <1>5, <2>1, <2>2, TypeGoto DEF TypeOK, FailCheck, IdleCheck, store, ghost
<1>6. CASE CheckOk(t)
  <2> DEFINE c == [check[t] EXCEPT !.pc = "save", !.at = clock, !.expires_at = registry[t[1]]]
  <2>1. c \in CheckState /\ c.snapshot # None /\ c.expires_at # None
    BY <1>0, <1>6 DEF CheckState, TypeOK, CheckOk
  <2>2. Goto(t, IdleCheck) \/ Goto(t, c)
    BY <1>6 DEF CheckOk, Leave
  <2> QED
    BY <1>6, <2>1, <2>2, TypeGoto DEF TypeOK, CheckOk, IdleCheck, store, ghost
<1>7. CASE SaveResult(t)
  <2> DEFINE c == [check[t] EXCEPT !.pc = "refresh", !.snapshot = None]
  <2>1. c \in CheckState /\ c.pc = "refresh"
    BY <1>0 DEF CheckState
  <2>2. rows' \in [Domain -> Row \cup {None}]
    BY <1>0, <1>7 DEF SaveResult, TypeOK, CheckState, Row, LastCheck
  <2> QED
    BY <1>7, <2>1, <2>2, TypeGoto DEF TypeOK, SaveResult, ghost
<1>8. CASE Dispatch(t)
  <2> DEFINE c == [IdleCheck EXCEPT !.pc = "deliver"]
  <2>1. c \in CheckState /\ c.pc = "deliver"
    BY DEF CheckState, IdleCheck
  <2>2. Goto(t, IdleCheck) \/ Goto(t, c)
    BY <1>8 DEF Dispatch, Leave
  <2>3. deliveries' \in SUBSET Delivery
    BY <1>8, NewDeliveriesType DEF Dispatch, TypeOK
  <2> QED
    BY <1>8, <2>1, <2>2, <2>3, TypeGoto DEF TypeOK, Dispatch, IdleCheck, store, ghost
<1>9. CASE Gathered(t)
  BY <1>9, TypeGoto DEF TypeOK, Gathered, Leave, IdleCheck, store, ghost
<1>10. CASE CheckRaise(t)
  BY <1>10, TypeGoto DEF TypeOK, CheckRaise, Leave, IdleCheck, store, ghost
<1> QED
  BY <1>1, <1>2, <1>3, <1>4, <1>5, <1>6, <1>7, <1>8, <1>9, <1>10
  DEF CheckStep

(* Every step of a _deliver task keeps every type.                         *)
LEMMA TypeDeliver ==
    ASSUME TypeOK, NEW x \in deliveries, Deliver(x)
    PROVE  TypeOK'
<1>0. x \in Delivery /\ KeyOf(x) \in Key
  BY KeyOfType DEF TypeOK
<1>1. /\ [x EXCEPT !.pc = "send", !.attempt = 1] \in Delivery
      /\ [x EXCEPT !.pc = "record"] \in Delivery
      /\ x.attempt < MaxAttempts => [x EXCEPT !.attempt = @ + 1] \in Delivery
  BY <1>0, AttemptRange DEF Delivery
<1>2. deliveries' \in SUBSET Delivery
  BY <1>1 DEF TypeOK, Deliver, AskFired, SendOk, SendRetry, SendFail, SendRaise, RecordFired, Advance, Finish
<1>3. /\ fired' \in SUBSET Key
      /\ sent' \in [Key -> Nat]
      /\ notices' \in SUBSET ({"NotificationDispatched", "NotificationFailed"} \X Key)
  BY <1>0 DEF TypeOK, Deliver, AskFired, SendOk, SendRetry, SendFail, SendRaise, RecordFired, Notice, store, ghost
<1>4. UNCHANGED <<clock, registry, rows, jobs, check, admin>>
  BY DEF Deliver, AskFired, SendOk, SendRetry, SendFail, SendRaise, RecordFired, store, ghost
<1>5. strays' \in [Key -> 0..MaxStray]
  <2>1. UNCHANGED strays \/ Unanswered(KeyOf(x))
    BY DEF Deliver, AskFired, SendOk, SendRetry, SendFail, SendRaise, RecordFired
  <2> QED
    BY <1>0, <2>1, UnansweredType DEF TypeOK
<1> QED
  BY <1>2, <1>3, <1>4, <1>5 DEF TypeOK

(* Every step of ensure_watching and remove_watching keeps every type.     *)
LEMMA TypeAdmin ==
    ASSUME TypeOK, NEW a \in Admin,
           AdminStep(a) \/ \E d \in Domain : AdminCall(a, d)
    PROVE  TypeOK'
<1> USE IdleType, ConstantsAssumption
<1>0. admin[a] \in AdminState
  BY DEF TypeOK
<1>1. CASE EnsureWrite(a)
  <2>1. rows' \in [Domain -> Row \cup {None}]
    BY <1>0, <1>1 DEF TypeOK, AdminState, EnsureWrite, Row
  <2>2. [admin[a] EXCEPT !.pc = "job", !.seen = None] \in AdminState
    BY <1>0 DEF AdminState
  <2>3. \/ admin' = [admin EXCEPT ![a] = IdleAdmin]
        \/ admin' = [admin EXCEPT ![a] = [admin[a] EXCEPT !.pc = "job", !.seen = None]]
    BY <1>0, <1>1 DEF EnsureWrite, TypeOK
  <2>4. /\ admin' \in [Admin -> AdminState]
        /\ \A b \in Admin :
             /\ admin'[b].pc # "idle" => admin'[b].domain # None
             /\ admin'[b].pc \in {"write", "job"} => admin'[b].settings # None
    BY <1>0, <1>1, <2>2, <2>3 DEF TypeOK, EnsureWrite, IdleAdmin, AdminState
  <2> QED
    BY <1>1, <2>1, <2>4 DEF TypeOK, EnsureWrite, ghost
<1>2. CASE EnsureJob(a)
  <2>1. DOMAIN jobs' = Domain
    BY <1>2 DEF TypeOK, EnsureJob
  <2> QED
    BY <1>2, <2>1 DEF TypeOK, EnsureJob, IdleAdmin, ghost
<1>3. CASE RemoveRow(a)
  <2>1. rows' \in [Domain -> Row \cup {None}]
    BY <1>0, <1>3 DEF TypeOK, RemoveRow
  <2> QED
    BY <1>3, <2>1 DEF TypeOK, RemoveRow, IdleAdmin, ghost
<1>4. ASSUME NEW d \in Domain, RemoveJob(a, d) PROVE TypeOK'
  <2>1. [IdleAdmin EXCEPT !.pc = "remove", !.domain = d] \in AdminState
    BY DEF AdminState, IdleAdmin
  <2>2. DOMAIN jobs' = Domain
    BY <1>4 DEF TypeOK, RemoveJob
  <2> QED
    BY <1>4, <2>1, <2>2 DEF TypeOK, RemoveJob, IdleAdmin, ghost
<1>5. ASSUME NEW d \in Domain, NEW s \in Settings, EnsureGet(a, d, s)
      PROVE  TypeOK'
  <2>1. [pc |-> "write", domain |-> d, settings |-> s, seen |-> rows[d]] \in AdminState
    BY DEF AdminState, TypeOK
  <2> QED
    BY <1>5, <2>1 DEF TypeOK, EnsureGet, store, ghost
<1> QED
  BY <1>1, <1>2, <1>3, <1>4, <1>5 DEF AdminStep, AdminCall

(* The type invariant is inductive.                                        *)
LEMMA TypeStep == TypeOK /\ [Next]_vars => TypeOK'
<1> SUFFICES ASSUME TypeOK, [Next]_vars PROVE TypeOK'
  OBVIOUS
<1>1. CASE UNCHANGED vars
  BY <1>1 DEF TypeOK, vars
<1>2. CASE Next
  BY <1>2, TypeEnvironment, TypeCheckStep, TypeDeliver, TypeAdmin DEF Next
<1> QED
  BY <1>1, <1>2

(* Type correctness: every task, delivery and watch-set call keeps the     *)
(* state well typed, and the locals a step reads are always set.           *)
THEOREM TypeCorrect == Spec => []TypeOK
<1> QED
  BY TypeInit, TypeStep, PTL DEF Spec

---------------------------------------------------------------------------
(* At most one acknowledged page per key and none after it, when the       *)
(* scheduler alone runs checks (one job instance per domain) and no row    *)
(* lists a channel twice.                                                  *)

Serial == Caller = {}

DistinctChannels ==
    \A s \in Settings :
        \A i, j \in 1..Len(s.channels) : s.channels[i] = s.channels[j] => i = j

(* The inductive invariant: a key has one _deliver task at a time; the     *)
(* task that is sending has not paged yet, the one that is recording has,  *)
(* and a page is either recorded or about to be.                           *)
OnceInv ==
    /\ \A x \in deliveries : check[x.task].pc = "deliver"
    /\ \A x, y \in deliveries : KeyOf(x) = KeyOf(y) => x = y
    /\ \A x \in deliveries :
          /\ x.pc = "send" => sent[KeyOf(x)] = 0
          /\ x.pc = "record" => sent[KeyOf(x)] = 1
          /\ x.pc # "ask" => KeyOf(x) \notin fired
    /\ \A k \in Key : sent[k] \in {0, 1}
    /\ \A k \in Key :
          sent[k] = 1 =>
              k \in fired \/ \E x \in deliveries : x.pc = "record" /\ KeyOf(x) = k
    /\ \A k \in fired : sent[k] = 1

(* With no concurrent caller, a domain has one check task: its job.        *)
LEMMA OneTaskPerDomain ==
    ASSUME Serial, NEW t \in Task, NEW u \in Task, t[1] = u[1]
    PROVE  t = u
BY DEF Serial, Task, Worker

(* Nothing has been paged or recorded at the start.                        *)
LEMMA OnceInit == Init => OnceInv
<1> SUFFICES ASSUME Init PROVE OnceInv
  OBVIOUS
<1>1. \A k \in Key : sent[k] = 0
  BY DEF Init
<1> QED
  BY <1>1 DEF Init, OnceInv

(* A dispatch adds tasks for a domain that has none, one per key.          *)
LEMMA OnceDispatch ==
    ASSUME Serial, DistinctChannels, TypeOK, OnceInv, NEW t \in Task, Dispatch(t)
    PROVE  OnceInv'
<1>0. UNCHANGED <<sent, fired>> /\ check[t].pc = "refresh"
  BY DEF Dispatch, store, ghost
<1>1. \A x \in deliveries : x.task # t /\ x.task \in Task
  BY <1>0 DEF OnceInv, TypeOK, Delivery
<1>2. CASE deliveries' = deliveries
  <2>1. \A x \in deliveries : check'[x.task] = check[x.task]
    BY <1>1 DEF Dispatch, Leave, Goto, TypeOK
  <2> QED
    BY <1>0, <1>2, <2>1 DEF OnceInv
<1>3. CASE deliveries' # deliveries
  <2> DEFINE row    == rows[t[1]]
             chans  == row.settings.channels
             alerts == AlertsFor(row.settings.thresholds, check[t].previous,
                                 check[t].expires_at, clock)
             new    == NewDeliveries(t, alerts, chans)
  <2>1. /\ row # None
        /\ deliveries' = deliveries \cup new
        /\ Goto(t, [IdleCheck EXCEPT !.pc = "deliver"])
    BY <1>3 DEF Dispatch
  <2>2. /\ check'[t].pc = "deliver"
        /\ \A u \in Task : u # t => check'[u] = check[u]
    BY <2>1 DEF Goto, TypeOK, IdleCheck
  <2>3. row.settings \in Settings
    BY <2>1 DEF TypeOK, Row, Task
  <2>4. \A x \in new : x.task = t /\ x.pc = "ask"
    BY DEF NewDeliveries
  <2>5. ASSUME NEW x \in new, NEW y \in new, KeyOf(x) = KeyOf(y)
        PROVE  x = y
    <3>1. PICK th \in alerts, i \in 1..Len(chans) :
            x = [task |-> t, threshold |-> th, cycle |-> check[t].expires_at,
                 channel |-> chans[i], index |-> i, pc |-> "ask", attempt |-> 0]
      BY DEF NewDeliveries
    <3>2. PICK uh \in alerts, j \in 1..Len(chans) :
            y = [task |-> t, threshold |-> uh, cycle |-> check[t].expires_at,
                 channel |-> chans[j], index |-> j, pc |-> "ask", attempt |-> 0]
      BY DEF NewDeliveries
    <3>3. th = uh /\ chans[i] = chans[j]
      BY <2>5, <3>1, <3>2 DEF KeyOf
    <3>4. i = j
      BY <2>3, <3>3 DEF DistinctChannels
    <3> QED
      BY <3>1, <3>2, <3>3, <3>4
  <2>6. ASSUME NEW x \in deliveries, NEW y \in new
        PROVE  KeyOf(x) # KeyOf(y)
    <3>1. x.task[1] # y.task[1]
      BY <1>1, <2>4, OneTaskPerDomain
    <3> QED
      BY <3>1 DEF KeyOf
  <2>7. \A x \in deliveries' : check'[x.task].pc = "deliver"
    BY <1>1, <2>1, <2>2, <2>4 DEF OnceInv
  <2>8. \A x, y \in deliveries' : KeyOf(x) = KeyOf(y) => x = y
    BY <2>1, <2>5, <2>6 DEF OnceInv
  <2> QED
    BY <1>0, <2>1, <2>4, <2>7, <2>8 DEF OnceInv
<1> QED
  BY <1>2, <1>3

(* The other steps of a check move no delivery and page nobody.            *)
LEMMA OnceQuiet ==
    ASSUME TypeOK, OnceInv, UNCHANGED <<deliveries, sent, fired>>,
           \A t \in Task : check[t].pc = "deliver" =>
               \/ check'[t].pc = "deliver"
               \/ \A x \in deliveries : x.task # t
    PROVE  OnceInv'
<1>1. \A x \in deliveries : x.task \in Task
  BY DEF TypeOK, Delivery
<1> QED
  BY <1>1 DEF OnceInv

(* A delivery step pages a key only once: it alone holds that key.         *)
LEMMA OnceDeliver ==
    ASSUME TypeOK, OnceInv, NEW x \in deliveries, Deliver(x)
    PROVE  OnceInv'
<1> DEFINE k == KeyOf(x)
<1>0. /\ x \in Delivery /\ k \in Key
      /\ UNCHANGED check
  BY KeyOfType DEF TypeOK, Deliver, AskFired, SendOk, SendRetry, SendFail,
     SendRaise, RecordFired, ghost, store
<1>1. CASE AskFired(x) \/ SendFail(x) \/ SendRaise(x)
  <2>1. UNCHANGED <<sent, fired>>
    BY <1>1 DEF AskFired, SendFail, SendRaise, store, ghost
  <2>2. CASE deliveries' = deliveries \ {x}
    <3>1. x.pc # "record"
      BY <1>1 DEF AskFired, SendFail, SendRaise
    <3> QED
      BY <1>0, <2>1, <2>2, <3>1 DEF OnceInv
  <2>3. CASE deliveries' # deliveries \ {x}
    <3> DEFINE y == [x EXCEPT !.pc = "send", !.attempt = 1]
    <3>1. /\ x.pc = "ask" /\ k \notin fired
          /\ deliveries' = (deliveries \ {x}) \cup {y}
      BY <1>1, <2>3 DEF AskFired, SendFail, SendRaise, Finish, Advance
    <3>2. y.pc = "send" /\ y.task = x.task /\ KeyOf(y) = k
      BY <1>0 DEF KeyOf, Delivery
    <3>3. sent[k] = 0
      BY <1>0, <3>1 DEF OnceInv
    <3> HIDE DEF y
    <3> QED
      BY <1>0, <2>1, <3>1, <3>2, <3>3 DEF OnceInv
  <2> QED
    BY <2>2, <2>3
<1>2. CASE SendOk(x)
  <2> DEFINE y == [x EXCEPT !.pc = "record"]
  <2>1. /\ x.pc = "send"
        /\ deliveries' = (deliveries \ {x}) \cup {y}
        /\ UNCHANGED fired
        /\ sent' = [sent EXCEPT ![k] = sent[k] + 1]
    BY <1>2 DEF SendOk, Advance, store
  <2>2. y.pc = "record" /\ y.task = x.task /\ KeyOf(y) = k
    BY <1>0 DEF KeyOf, Delivery
  <2>3. sent[k] = 0 /\ k \notin fired
    BY <2>1 DEF OnceInv
  <2>4. /\ sent'[k] = 1
        /\ \A j \in Key : j # k => sent'[j] = sent[j]
    BY <1>0, <2>1, <2>3 DEF TypeOK
  <2>5. \A z \in deliveries \ {x} : KeyOf(z) # k /\ KeyOf(z) \in Key
    BY KeyOfType DEF OnceInv, TypeOK
  <2>6. k \notin fired /\ fired \subseteq Key
    BY <2>3 DEF TypeOK
  <2> HIDE DEF y
  <2> QED
    BY <1>0, <2>1, <2>2, <2>4, <2>5, <2>6 DEF OnceInv
<1>3. CASE SendRetry(x)
  <2> DEFINE y == [x EXCEPT !.attempt = @ + 1]
  <2>1. /\ deliveries' = (deliveries \ {x}) \cup {y}
        /\ UNCHANGED <<fired, sent>>
    BY <1>3 DEF SendRetry, Advance, store, ghost
  <2>2. y.pc = x.pc /\ y.task = x.task /\ KeyOf(y) = k
    BY <1>0 DEF KeyOf, Delivery
  <2> HIDE DEF y
  <2> QED
    BY <1>0, <2>1, <2>2 DEF OnceInv
<1>4. CASE RecordFired(x)
  <2>1. /\ x.pc = "record"
        /\ deliveries' = deliveries \ {x}
        /\ fired' = fired \cup {k}
        /\ UNCHANGED sent
    BY <1>4 DEF RecordFired, Finish
  <2>2. sent[k] = 1 /\ \A z \in deliveries \ {x} : KeyOf(z) # k
    BY <2>1 DEF OnceInv
  <2> QED
    BY <1>0, <2>1, <2>2 DEF OnceInv
<1> QED
  BY <1>1, <1>2, <1>3, <1>4 DEF Deliver

(* OnceInv is inductive when only jobs run checks.                         *)
LEMMA OnceStep ==
    ASSUME Serial, DistinctChannels
    PROVE  TypeOK /\ OnceInv /\ [Next]_vars => OnceInv'
<1> SUFFICES ASSUME TypeOK, OnceInv, [Next]_vars PROVE OnceInv'
  OBVIOUS
<1>1. CASE UNCHANGED vars
  BY <1>1 DEF OnceInv, vars
<1>2. CASE Environment
  BY <1>2, OnceQuiet DEF Environment, Tick, StepBack, Renew, store, ghost
<1>3. ASSUME NEW t \in Task, StartCheck(t) \/ CheckStep(t) PROVE OnceInv'
  <2>1. CASE Dispatch(t)
    BY <2>1, OnceDispatch
  <2>2. CASE Gathered(t)
    BY <2>2, OnceQuiet DEF Gathered, Leave, Goto, TypeOK, store, ghost
  <2>3. CASE ~Dispatch(t) /\ ~Gathered(t)
    <3>1. /\ check[t].pc # "deliver"
          /\ UNCHANGED <<deliveries, sent, fired>>
          /\ \E c : Goto(t, c)
      BY <1>3, <2>3 DEF StartCheck, CheckStep, GetPrevious, LoadDomain,
         RetryCheck, FailCheck, CheckRaise, CheckOk, SaveResult, Leave, store, ghost
    <3>2. \A u \in Task : u # t => check'[u] = check[u]
      BY <3>1 DEF Goto, TypeOK
    <3> QED
      BY <3>1, <3>2, OnceQuiet
  <2> QED
    BY <2>1, <2>2, <2>3
<1>4. ASSUME NEW x \in deliveries, Deliver(x) PROVE OnceInv'
  BY <1>4, OnceDeliver
<1>5. ASSUME NEW a \in Admin, AdminStep(a) \/ \E d \in Domain : AdminCall(a, d)
      PROVE  OnceInv'
  <2>1. UNCHANGED <<deliveries, sent, fired, check>>
    BY <1>5 DEF AdminStep, AdminCall, EnsureGet, EnsureWrite, EnsureJob,
       RemoveJob, RemoveRow, store, ghost
  <2> QED
    BY <2>1, OnceQuiet
<1> QED
  BY <1>1, <1>2, <1>3, <1>4, <1>5 DEF Next

(* With one check of a domain at a time and no channel listed twice, a key *)
(* has at most one acknowledged page and no send of it is under way after  *)
(* that, whatever renewals, retries, lost answers, failures, removals and  *)
(* re-configurations happen in between.  (Pages whose answer was lost come *)
(* before it and are not bounded by this.)                                 *)
THEOREM PagedAtMostOnce ==
    ASSUME Serial, DistinctChannels
    PROVE  Spec => []AtMostOncePerKey
<1>1. OnceInv => AtMostOncePerKey
  BY DEF OnceInv, AtMostOncePerKey
<1>2. TypeOK /\ OnceInv /\ [Next]_vars => OnceInv'
  BY OnceStep
<1> QED
  BY <1>1, <1>2, OnceInit, TypeCorrect, PTL DEF Spec

(* Under the same conditions the pipeline implements AlertLedger: its only *)
(* visible steps page a key that has no acknowledged page, be the answer   *)
(* received or lost, or record a key whose page was acknowledged.          *)
THEOREM LedgerRefined ==
    ASSUME Serial, DistinctChannels
    PROVE  Spec => ImplementsLedger
<1>1. Init => Ledger!LedgerInit
  BY DEF Init, Ledger!LedgerInit
<1>2. ASSUME TypeOK, OnceInv, [Next]_vars
      PROVE  [Ledger!LedgerNext]_(Ledger!ledger)
  <2>1. CASE UNCHANGED <<sent, strays, fired>>
    BY <2>1 DEF Ledger!ledger
  <2>2. ASSUME NEW x \in deliveries, SendOk(x) PROVE Ledger!LedgerNext
    <3>1. KeyOf(x) \in Key
      BY <1>2, KeyOfType DEF TypeOK
    <3>2. sent[KeyOf(x)] = 0 /\ KeyOf(x) \notin fired /\ UNCHANGED fired
      BY <1>2, <2>2 DEF OnceInv, SendOk, store
    <3>3. sent' = [sent EXCEPT ![KeyOf(x)] = 1] /\ UNCHANGED strays
      BY <2>2, <3>2 DEF SendOk
    <3> QED
      BY <3>1, <3>2, <3>3 DEF Ledger!LedgerNext, Ledger!Page, Ledger!Open
  <2>3. ASSUME NEW x \in deliveries, RecordFired(x) PROVE Ledger!LedgerNext
    <3>1. KeyOf(x) \in Key
      BY <1>2, KeyOfType DEF TypeOK
    <3>2. sent[KeyOf(x)] = 1
      BY <1>2, <2>3 DEF OnceInv, RecordFired
    <3> QED
      BY <2>3, <3>1, <3>2 DEF RecordFired, Ledger!LedgerNext, Ledger!Remember
  <2>4. ASSUME NEW t \in Task, StartCheck(t) \/ CheckStep(t)
        PROVE  UNCHANGED <<sent, strays, fired>>
    BY <2>4 DEF StartCheck, CheckStep, GetPrevious, LoadDomain, RetryCheck,
       FailCheck, CheckRaise, CheckOk, SaveResult, Dispatch, Gathered, store, ghost
  <2>5. ASSUME NEW a \in Admin, AdminStep(a) \/ \E d \in Domain : AdminCall(a, d)
        PROVE  UNCHANGED <<sent, strays, fired>>
    BY <2>5 DEF AdminStep, AdminCall, EnsureGet, EnsureWrite, EnsureJob,
       RemoveJob, RemoveRow, store, ghost
  <2>6. Environment => UNCHANGED <<sent, strays, fired>>
    BY DEF Environment, Tick, StepBack, Renew, store, ghost
  <2>7. ASSUME NEW x \in deliveries, SendRetry(x) \/ SendFail(x) \/ SendRaise(x)
        PROVE  UNCHANGED <<sent, strays, fired>> \/ Ledger!LedgerNext
    <3>1. KeyOf(x) \in Key
      BY <1>2, KeyOfType DEF TypeOK
    <3>2. /\ x.pc = "send" /\ Unanswered(KeyOf(x))
          /\ UNCHANGED <<sent, fired>>
      BY <2>7 DEF SendRetry, SendFail, SendRaise, store
    <3>3. sent[KeyOf(x)] = 0 /\ KeyOf(x) \notin fired
      BY <1>2, <3>2 DEF OnceInv
    <3>4. CASE strays' = [strays EXCEPT ![KeyOf(x)] = @ + 1]
      BY <3>1, <3>2, <3>3, <3>4 DEF Ledger!LedgerNext, Ledger!LoseAnswer, Ledger!Open
    <3> QED
      BY <3>2, <3>4 DEF Unanswered
  <2>9. ASSUME NEW x \in deliveries, AskFired(x)
        PROVE  UNCHANGED <<sent, strays, fired>>
    BY <2>9 DEF AskFired, store
  <2>8. UNCHANGED vars => UNCHANGED <<sent, strays, fired>>
    BY DEF vars
  <2> QED
    BY <1>2, <2>1, <2>2, <2>3, <2>4, <2>5, <2>6, <2>7, <2>8, <2>9 DEF Next, Deliver
<1>3. TypeOK /\ OnceInv /\ [Next]_vars => OnceInv'
  BY OnceStep
<1> QED
  BY <1>1, <1>2, <1>3, OnceInit, TypeCorrect, PTL DEF Spec, ImplementsLedger, Ledger!LedgerSpec

---------------------------------------------------------------------------
(* No page before its threshold, when the clock is never set back.         *)

EarlyInv ==
    /\ \A x \in deliveries : Crossed(x.threshold, x.cycle, clock)
    /\ NoEarlyPage

(* A threshold that is crossed stays crossed as time passes.               *)
LEMMA CrossedStays ==
    ASSUME NEW th \in Nat, NEW e \in Nat, NEW a \in Nat, NEW b \in Nat,
           b >= a, Crossed(th, e, a)
    PROVE  Crossed(th, e, b)
BY DEF Crossed

(* EarlyInv is inductive when the clock is never set back.                 *)
LEMMA EarlyStep ==
    ASSUME ~ClockMayStepBack
    PROVE  TypeOK /\ EarlyInv /\ [Next]_vars => EarlyInv'
<1> SUFFICES ASSUME TypeOK, EarlyInv, [Next]_vars PROVE EarlyInv'
  OBVIOUS
<1> USE DEF EarlyInv, NoEarlyPage
<1>0. /\ \A k \in Key : k.threshold \in Nat /\ k.cycle \in Nat
      /\ \A x \in Delivery : x.threshold \in Nat /\ x.cycle \in Nat
  BY ConstantsAssumption DEF Key, Delivery
<1>1. CASE UNCHANGED <<deliveries, sent, strays, clock>>
  BY <1>1
<1>2. CASE Environment
  <2>1. clock' \in Nat /\ clock' >= clock /\ UNCHANGED <<deliveries, sent, strays>>
    BY <1>2 DEF Environment, Tick, StepBack, Renew, TypeOK, ghost
  <2>2. ASSUME NEW th \in Nat, NEW e \in Nat, Crossed(th, e, clock)
        PROVE  Crossed(th, e, clock')
    <3>1. clock \in Nat
      BY DEF TypeOK
    <3> QED
      BY <2>1, <2>2, <3>1, CrossedStays
  <2>3. \A x \in deliveries : x \in Delivery
    BY DEF TypeOK
  <2> QED
    BY <1>0, <2>1, <2>2, <2>3
<1>3. ASSUME NEW t \in Task, Dispatch(t) PROVE EarlyInv'
  <2>1. UNCHANGED <<sent, strays, clock>>
    BY <1>3 DEF Dispatch, ghost
  <2> DEFINE alerts == AlertsFor(rows[t[1]].settings.thresholds, check[t].previous,
                                 check[t].expires_at, clock)
  <2>2. \A x \in NewDeliveries(t, alerts, rows[t[1]].settings.channels) :
          Crossed(x.threshold, x.cycle, clock)
    BY DEF NewDeliveries, AlertsFor
  <2>3. deliveries' \subseteq deliveries \cup NewDeliveries(t, alerts, rows[t[1]].settings.channels)
    BY <1>3 DEF Dispatch
  <2> QED
    BY <2>1, <2>2, <2>3 DEF Crossed
<1>4. ASSUME NEW x \in deliveries, Deliver(x) PROVE EarlyInv'
  <2>0. x \in Delivery /\ KeyOf(x) \in Key /\ UNCHANGED clock
    BY <1>4, KeyOfType DEF TypeOK, Deliver, AskFired, SendOk, SendRetry, SendFail,
       SendRaise, RecordFired
  <2>1. \A y \in deliveries' : y \in deliveries \/ (y.threshold = x.threshold /\ y.cycle = x.cycle)
    BY <1>4, <2>0 DEF Deliver, AskFired, SendOk, SendRetry, SendFail,
       SendRaise, RecordFired, Advance, Finish, Delivery
  <2>2. \A k \in Key : (sent'[k] = sent[k] /\ strays'[k] = strays[k]) \/ k = KeyOf(x)
    BY <1>4 DEF Deliver, AskFired, SendOk, SendRetry, SendFail,
       SendRaise, RecordFired, Unanswered, ghost, TypeOK
  <2>3. Crossed(KeyOf(x).threshold, KeyOf(x).cycle, clock)
    BY DEF KeyOf
  <2> QED
    BY <2>0, <2>1, <2>2, <2>3
<1>5. ASSUME NEW t \in Task, StartCheck(t) \/ (CheckStep(t) /\ ~Dispatch(t))
      PROVE  UNCHANGED <<deliveries, sent, strays, clock>>
  BY <1>5 DEF StartCheck, CheckStep, GetPrevious, LoadDomain, RetryCheck,
     FailCheck, CheckRaise, CheckOk, SaveResult, Gathered, ghost
<1>6. ASSUME NEW a \in Admin, AdminStep(a) \/ \E d \in Domain : AdminCall(a, d)
      PROVE  UNCHANGED <<deliveries, sent, strays, clock>>
  BY <1>6 DEF AdminStep, AdminCall, EnsureGet, EnsureWrite, EnsureJob,
     RemoveJob, RemoveRow, ghost
<1>7. UNCHANGED vars => UNCHANGED <<deliveries, sent, strays, clock>>
  BY DEF vars
<1> QED
  BY <1>1, <1>2, <1>3, <1>4, <1>5, <1>6, <1>7 DEF Next

(* A page never leaves before its threshold is crossed, however many       *)
(* checks run at once and whatever else happens between the check, the     *)
(* dispatch and the send; only a clock set back could make a page early.   *)
THEOREM NeverEarly ==
    ASSUME ~ClockMayStepBack
    PROVE  Spec => []NoEarlyPage
<1>1. Init => EarlyInv
  BY DEF Init, EarlyInv, NoEarlyPage
<1>2. EarlyInv => NoEarlyPage
  BY DEF EarlyInv
<1>3. TypeOK /\ EarlyInv /\ [Next]_vars => EarlyInv'
  BY EarlyStep
<1> QED
  BY <1>1, <1>2, <1>3, TypeCorrect, PTL DEF Spec

---------------------------------------------------------------------------
(* No alert is lost in silence, when every row keeps the same thresholds   *)
(* and known channels, no domain is removed, notifiers keep their contract *)
(* and the clock is not set back.  Any number of checks and of             *)
(* ensure_watching calls may run at once.                                  *)

SameTargets ==
    \A r, s \in Settings :
        r.thresholds = s.thresholds /\ r.channels = s.channels

AllChannelsKnown ==
    \A s \in Settings : \A i \in 1..Len(s.channels) : s.channels[i] \in KnownChannels

Steady ==
    /\ SameTargets
    /\ AllChannelsKnown
    /\ ~RemoveAllowed
    /\ ~ClockMayStepBack
    /\ "unexpected" \notin SendOutcomes

(* A last_check that can still suppress an alert of d: the stored one, the *)
(* one a check took as previous_last_check, the one ensure_watching is     *)
(* about to write back.                                                    *)
Remembered(d, c) ==
    \/ rows[d] # None /\ rows[d].last = c
    \/ \E t \in Task : t[1] = d /\ check[t].previous = c
    \/ \E a \in Admin : /\ admin[a].domain = d
                        /\ admin[a].seen # None
                        /\ admin[a].seen.last = c

Suppresses(d, c, th) ==
    c \in LastCheck /\ Remembered(d, c) /\ Crossed(th, c.expires_at, c.at)

SteadyInv ==
    /\ \A d \in Domain, c \in LastCheck, s \in Settings :
          \A th \in s.thresholds :
              Suppresses(d, c, th) => Accounted(d, s, th, c.expires_at)
    /\ \A t \in Task :
          /\ check[t].at <= clock
          /\ check[t].pc \in {"load", "check", "save", "refresh"} => rows[t[1]] # None
    /\ \A a \in Admin : admin[a].pc # "remove"

(* No row has a last_check at the start, so nothing is owed.               *)
LEMMA SteadyInit == Init => SteadyInv
<1> SUFFICES ASSUME Init PROVE SteadyInv
  OBVIOUS
<1>1. None \notin LastCheck
  BY ConstantsAssumption
<1>2. ASSUME NEW d \in Domain, NEW c, Remembered(d, c) PROVE c = None
  BY <1>2 DEF Init, Remembered, IdleCheck, IdleAdmin
<1> QED
  BY <1>1, <1>2 DEF Init, SteadyInv, Suppresses, IdleCheck, IdleAdmin

(* A page that is due stays accounted for through every delivery step.     *)
LEMMA AccountedDeliver ==
    ASSUME Steady, TypeOK, NEW x \in deliveries, Deliver(x),
           NEW d \in Domain, NEW s \in Settings, NEW th, NEW e,
           Accounted(d, s, th, e)
    PROVE  Accounted(d, s, th, e)'
<1>0. x \in Delivery /\ UNCHANGED check
  BY DEF TypeOK, Deliver, AskFired, SendOk, SendRetry, SendFail, SendRaise,
     RecordFired, store, ghost
<1>1. WillDispatch(d, th, e) => WillDispatch(d, th, e)'
  BY <1>0 DEF WillDispatch
<1>2. ASSUME NEW k, Handled(k) PROVE Handled(k)'
  BY <1>2 DEF Handled, Deliver, AskFired, SendOk, SendRetry, SendFail, SendRaise,
     RecordFired, store, ghost
<1>3. ASSUME NEW k, InFlight(k) PROVE Handled(k)' \/ InFlight(k)'
  <2>1. PICK y \in deliveries : KeyOf(y) = k
    BY <1>3 DEF InFlight
  <2>2. CASE y # x
    <3>1. y \in deliveries'
      BY <2>2 DEF Deliver, AskFired, SendOk, SendRetry, SendFail, SendRaise,
         RecordFired, Advance, Finish
    <3> QED
      BY <2>1, <3>1 DEF InFlight
  <2>3. CASE y = x
    <3>1. CASE deliveries' = deliveries \ {x}
      <4>1. \/ k \in fired'
            \/ Notice("NotificationFailed", k) \in notices'
            \/ \E z : Advance(x, z) /\ KeyOf(z) = k
        <5>1. CASE AskFired(x)
          <6>1. KeyOf([x EXCEPT !.pc = "send", !.attempt = 1]) = KeyOf(x)
            BY <1>0 DEF KeyOf, Delivery
          <6> QED
            BY <2>1, <2>3, <5>1, <6>1 DEF AskFired, store
        <5>2. CASE SendOk(x)
          <6>1. KeyOf([x EXCEPT !.pc = "record"]) = KeyOf(x)
            BY <1>0 DEF KeyOf, Delivery
          <6> QED
            BY <2>1, <2>3, <5>2, <6>1 DEF SendOk
        <5>3. CASE SendRetry(x)
          <6>1. KeyOf([x EXCEPT !.attempt = @ + 1]) = KeyOf(x)
            BY <1>0 DEF KeyOf, Delivery
          <6> QED
            BY <2>1, <2>3, <5>3, <6>1 DEF SendRetry
        <5>4. CASE SendFail(x)
          BY <2>1, <2>3, <5>4 DEF SendFail
        <5>5. CASE RecordFired(x)
          BY <2>1, <2>3, <5>5 DEF RecordFired
        <5> QED
          BY <5>1, <5>2, <5>3, <5>4, <5>5 DEF Deliver, SendRaise, Steady
      <4> QED
        BY <4>1 DEF Handled, InFlight, Advance
    <3>2. CASE deliveries' # deliveries \ {x}
      <4>1. \E z \in deliveries' : KeyOf(z) = KeyOf(x)
        <5>1. /\ KeyOf([x EXCEPT !.pc = "send", !.attempt = 1]) = KeyOf(x)
              /\ KeyOf([x EXCEPT !.pc = "record"]) = KeyOf(x)
              /\ KeyOf([x EXCEPT !.attempt = @ + 1]) = KeyOf(x)
          BY <1>0 DEF KeyOf, Delivery
        <5> QED
          BY <3>2, <5>1 DEF Deliver, AskFired, SendOk, SendRetry, SendFail,
             SendRaise, RecordFired, Advance, Finish
      <4> QED
        BY <2>1, <2>3, <4>1 DEF InFlight
    <3> QED
      BY <3>1, <3>2
  <2> QED
    BY <2>2, <2>3
<1> QED
  BY <1>1, <1>2, <1>3 DEF Accounted

(* ... and through every step that moves no delivery and lets no check     *)
(* that was about to dispatch it go.                                       *)
LEMMA AccountedQuiet ==
    ASSUME UNCHANGED <<deliveries, fired, notices>>,
           \A t \in Task :
               check[t].pc \in {"save", "refresh"} =>
                   /\ check'[t].pc \in {"save", "refresh"}
                   /\ check'[t].expires_at = check[t].expires_at
                   /\ check'[t].at = check[t].at
                   /\ check'[t].previous = check[t].previous,
           NEW d, NEW s, NEW th, NEW e, Accounted(d, s, th, e)
    PROVE  Accounted(d, s, th, e)'
<1>1. WillDispatch(d, th, e) => WillDispatch(d, th, e)'
  BY DEF WillDispatch, CrossedBefore
<1>2. \A k : (Handled(k) => Handled(k)') /\ (InFlight(k) => InFlight(k)')
  BY DEF Handled, InFlight
<1> QED
  BY <1>1, <1>2 DEF Accounted

(* A dispatch turns what its check was about to dispatch into deliveries.  *)
LEMMA AccountedDispatch ==
    ASSUME Steady, TypeOK, SteadyInv, NEW t \in Task, Dispatch(t),
           NEW d \in Domain, NEW s \in Settings, NEW th \in s.thresholds,
           NEW e \in Expiry, Accounted(d, s, th, e)
    PROVE  Accounted(d, s, th, e)'
<1> DEFINE row    == rows[t[1]]
           chans  == row.settings.channels
           alerts == AlertsFor(row.settings.thresholds, check[t].previous,
                               check[t].expires_at, clock)
           new    == NewDeliveries(t, alerts, chans)
<1>0. /\ UNCHANGED <<fired, notices>>
      /\ check[t].pc = "refresh"
      /\ deliveries \subseteq deliveries'
  BY DEF Dispatch, store, ghost
<1>1. \A k : (Handled(k) => Handled(k)') /\ (InFlight(k) => InFlight(k)')
  BY <1>0 DEF Handled, InFlight
<1>2. \A u \in Task : u # t => check'[u] = check[u]
  BY DEF Dispatch, Leave, Goto, TypeOK
<1>3. CASE ~WillDispatch(d, th, e)
  BY <1>1, <1>3 DEF Accounted
<1>4. CASE WillDispatch(d, th, e)
  <2>1. PICK u \in Task :
          /\ u[1] = d
          /\ check[u].pc \in {"save", "refresh"}
          /\ check[u].expires_at = e
          /\ Crossed(th, e, check[u].at)
          /\ ~CrossedBefore(check[u].previous, e, th)
    BY <1>4 DEF WillDispatch
  <2>2. CASE u # t
    <3>1. WillDispatch(d, th, e)'
      BY <1>2, <2>1, <2>2 DEF WillDispatch, CrossedBefore
    <3> QED
      BY <3>1 DEF Accounted
  <2>3. CASE u = t
    <3>1. row # None /\ row.settings \in Settings
      BY <1>0 DEF SteadyInv, TypeOK, Row, Task
    <3>2. row.settings.thresholds = s.thresholds /\ chans = s.channels
      BY <3>1 DEF Steady, SameTargets
    <3>3. Crossed(th, e, clock)
      <4>1. check[t].at <= clock /\ check[t].at \in Nat /\ clock \in Nat
        BY <1>0 DEF SteadyInv, TypeOK, CheckState
      <4>2. th \in Nat /\ e \in Nat
        BY SettingsAssumption, ConstantsAssumption
      <4> QED
        BY <2>1, <2>3, <4>1, <4>2 DEF Crossed
    <3>4. th \in alerts
      BY <2>1, <2>3, <3>2, <3>3, ConstantsAssumption DEF AlertsFor
    <3>5. \A i \in 1..Len(chans) : chans[i] \in KnownChannels
      BY <3>1 DEF Steady, AllChannelsKnown
    <3>6. deliveries' = deliveries \cup new
      BY <3>1, <3>4, <3>5 DEF Dispatch
    <3>7. ASSUME NEW i \in 1..Len(s.channels)
          PROVE  InFlight([domain |-> d, threshold |-> th, cycle |-> e,
                           channel |-> s.channels[i]])'
      <4> DEFINE x == [task |-> t, threshold |-> th, cycle |-> check[t].expires_at,
                       channel |-> chans[i], index |-> i, pc |-> "ask", attempt |-> 0]
      <4>1. x \in new
        BY <3>2, <3>4 DEF NewDeliveries
      <4>2. KeyOf(x) = [domain |-> d, threshold |-> th, cycle |-> e,
                        channel |-> s.channels[i]]
        BY <2>1, <2>3, <3>2 DEF KeyOf
      <4> QED
        BY <3>6, <4>1, <4>2 DEF InFlight
    <3> QED
      BY <3>7 DEF Accounted
  <2> QED
    BY <2>2, <2>3
<1> QED
  BY <1>3, <1>4

(* How a step of a check changes its own locals: it forgets them, or it    *)
(* keeps its previous_last_check and its instant but for the step that     *)
(* reads the row and the step that reads the clock.                        *)
LEMMA CheckMoves ==
    ASSUME TypeOK, NEW t \in Task, StartCheck(t) \/ CheckStep(t)
    PROVE  /\ \A u \in Task : u # t => check'[u] = check[u]
           /\ \/ /\ check'[t].pc \in {"idle", "get", "deliver"}
                 /\ check'[t].previous = None
                 /\ check'[t].at = 0
              \/ /\ rows[t[1]] # None \/ check[t].pc \in {"check", "save"}
                 /\ \/ check'[t].previous = check[t].previous
                    \/ rows[t[1]] # None /\ check'[t].previous = rows[t[1]].last
                 /\ check'[t].at \in {check[t].at, clock}
<1> DEFINE P(c) ==
      \/ /\ c.pc \in {"idle", "get", "deliver"}
         /\ c.previous = None
         /\ c.at = 0
      \/ /\ rows[t[1]] # None \/ check[t].pc \in {"check", "save"}
         /\ \/ c.previous = check[t].previous
            \/ rows[t[1]] # None /\ c.previous = rows[t[1]].last
         /\ c.at \in {check[t].at, clock}
<1>0. check[t] \in CheckState
  BY DEF TypeOK
<1>1. SUFFICES \E c : Goto(t, c) /\ P(c)
  <2>1. PICK c : Goto(t, c) /\ P(c)
    BY <1>1
  <2>2. check'[t] = c /\ \A u \in Task : u # t => check'[u] = check[u]
    BY <2>1 DEF Goto, TypeOK
  <2> QED
    BY <2>1, <2>2
<1>2. P(IdleCheck) /\ P([IdleCheck EXCEPT !.pc = "get"]) /\ P([IdleCheck EXCEPT !.pc = "deliver"])
  BY DEF IdleCheck
<1>3. rows[t[1]] # None => P([check[t] EXCEPT !.pc = "load", !.previous = rows[t[1]].last])
  BY <1>0 DEF CheckState
<1>4. rows[t[1]] # None => P([check[t] EXCEPT !.pc = "check", !.attempt = 1, !.snapshot = rows[t[1]]])
  BY <1>0 DEF CheckState
<1>5. check[t].pc = "check" => P([check[t] EXCEPT !.attempt = @ + 1])
  BY <1>0 DEF CheckState
<1>6. check[t].pc \in {"check", "save"} => P([check[t] EXCEPT !.pc = "refresh", !.snapshot = None])
  BY <1>0 DEF CheckState
<1>7. check[t].pc = "check" =>
        P([check[t] EXCEPT !.pc = "save", !.at = clock, !.expires_at = registry[t[1]]])
  BY <1>0 DEF CheckState
<1> HIDE DEF P
<1>8. CASE StartCheck(t)
  BY <1>2, <1>8 DEF StartCheck
<1>9. CASE GetPrevious(t)
  BY <1>2, <1>3, <1>9 DEF GetPrevious, Leave
<1>10. CASE LoadDomain(t)
  BY <1>2, <1>4, <1>10 DEF LoadDomain, Leave
<1>11. CASE RetryCheck(t)
  BY <1>5, <1>11 DEF RetryCheck
<1>12. CASE SaveResult(t) \/ \E p, r \in BOOLEAN : FailCheck(t, p, r)
  BY <1>2, <1>6, <1>12 DEF SaveResult, FailCheck, Leave
<1>13. CASE CheckOk(t)
  BY <1>2, <1>7, <1>13 DEF CheckOk, Leave
<1>14. CASE Dispatch(t) \/ Gathered(t) \/ CheckRaise(t)
  BY <1>2, <1>14 DEF Dispatch, Gathered, CheckRaise, Leave
<1> QED
  BY <1>8, <1>9, <1>10, <1>11, <1>12, <1>13, <1>14 DEF CheckStep

(* What a step may remember: nothing new but the last_check SaveResult     *)
(* stores.                                                                 *)
LEMMA RememberedStep ==
    ASSUME Steady, TypeOK, SteadyInv, [Next]_vars,
           NEW d \in Domain, NEW c \in LastCheck, Remembered(d, c)',
           ~Remembered(d, c)
    PROVE  \E t \in Task : /\ SaveResult(t)
                           /\ t[1] = d
                           /\ c = [at |-> check[t].at, expires_at |-> check[t].expires_at]
<1>0. None # c
  BY ConstantsAssumption
<1>1. CASE UNCHANGED vars
  BY <1>1 DEF Remembered, vars
<1>2. CASE Environment
  BY <1>2 DEF Environment, Tick, StepBack, Renew, Remembered, store
<1>3. ASSUME NEW t \in Task, StartCheck(t) \/ CheckStep(t)
      PROVE  SaveResult(t) /\ t[1] = d
             /\ c = [at |-> check[t].at, expires_at |-> check[t].expires_at]
  <2>1. UNCHANGED admin
    BY <1>3 DEF StartCheck, CheckStep, GetPrevious, LoadDomain, RetryCheck,
       FailCheck, CheckRaise, CheckOk, SaveResult, Dispatch, Gathered
  <2>2. \A u \in Task : u # t => check'[u] = check[u]
    BY <1>3, CheckMoves
  <2>3. \/ check'[t].previous = None
        \/ check'[t].previous = check[t].previous
        \/ rows[t[1]] # None /\ check'[t].previous = rows[t[1]].last
    BY <1>3, CheckMoves
  <2>4. rows' # rows => SaveResult(t)
    BY <1>3 DEF StartCheck, CheckStep, GetPrevious, LoadDomain, RetryCheck,
       FailCheck, CheckRaise, CheckOk, SaveResult, Dispatch, Gathered, store
  <2>5. rows'[d] # None /\ rows'[d].last = c /\ rows'[d] # rows[d]
    BY <1>0, <2>1, <2>2, <2>3 DEF Remembered
  <2>6. SaveResult(t)
    BY <2>4, <2>5
  <2> QED
    BY <2>5, <2>6 DEF SaveResult, TypeOK
<1>4. ASSUME NEW x \in deliveries, Deliver(x) PROVE FALSE
  <2>1. UNCHANGED <<rows, check, admin>>
    BY <1>4 DEF Deliver, AskFired, SendOk, SendRetry, SendFail, SendRaise,
       RecordFired, store
  <2> QED
    BY <2>1 DEF Remembered
<1>5. ASSUME NEW a \in Admin, AdminStep(a) PROVE FALSE
  <2>1. ~RemoveRow(a)
    BY DEF RemoveRow, SteadyInv
  <2>2. UNCHANGED check /\ \A b \in Admin : b # a => admin'[b] = admin[b]
    BY <1>5 DEF AdminStep, EnsureWrite, EnsureJob, RemoveRow, TypeOK
  <2>3. admin'[a].seen = None
    BY <1>5 DEF AdminStep, EnsureWrite, EnsureJob, RemoveRow, TypeOK, IdleAdmin, AdminState
  <2>4. rows'[d] # None /\ rows'[d].last = c /\ rows'[d] # rows[d]
    BY <2>2, <2>3 DEF Remembered
  <2>5. EnsureWrite(a)
    BY <1>5, <2>1, <2>4 DEF AdminStep, EnsureJob
  <2>6. admin[a].domain = d /\ admin[a].seen # None /\ admin[a].seen.last = c
    BY <1>0, <2>4, <2>5 DEF EnsureWrite, TypeOK
  <2> QED
    BY <2>6 DEF Remembered
<1>6. ASSUME NEW a \in Admin, NEW f \in Domain, AdminCall(a, f) PROVE FALSE
  <2>1. PICK s \in Settings : EnsureGet(a, f, s)
    BY <1>6 DEF AdminCall, RemoveJob, Steady
  <2>2. UNCHANGED <<rows, check>> /\ \A b \in Admin : b # a => admin'[b] = admin[b]
    BY <2>1 DEF EnsureGet, TypeOK, store
  <2>3. admin'[a].domain = f /\ admin'[a].seen = rows[f]
    BY <2>1 DEF EnsureGet, TypeOK
  <2> QED
    BY <2>2, <2>3 DEF Remembered
<1> QED
  BY <1>1, <1>2, <1>3, <1>4, <1>5, <1>6 DEF Next

(* A step keeps every page accounted for that was before it.               *)
LEMMA AccountedStep ==
    ASSUME Steady, TypeOK, SteadyInv, [Next]_vars,
           NEW d \in Domain, NEW s \in Settings, NEW th \in s.thresholds,
           NEW e \in Expiry, Accounted(d, s, th, e)
    PROVE  Accounted(d, s, th, e)'
<1>1. CASE UNCHANGED vars
  BY <1>1, AccountedQuiet DEF vars
<1>2. CASE Environment
  BY <1>2, AccountedQuiet DEF Environment, Tick, StepBack, Renew, store, ghost
<1>3. ASSUME NEW t \in Task, StartCheck(t) \/ CheckStep(t)
      PROVE  Accounted(d, s, th, e)'
  <2>0. check[t] \in CheckState
    BY DEF TypeOK
  <2>1. CASE Dispatch(t)
    BY <2>1, AccountedDispatch
  <2>2. CASE SaveResult(t)
    <3>1. check' = [check EXCEPT ![t] = [check[t] EXCEPT !.pc = "refresh", !.snapshot = None]]
      BY <2>2 DEF SaveResult, Goto
    <3>2. /\ check'[t].pc = "refresh"
          /\ check'[t].expires_at = check[t].expires_at
          /\ check'[t].at = check[t].at
          /\ check'[t].previous = check[t].previous
          /\ \A u \in Task : u # t => check'[u] = check[u]
      BY <2>0, <3>1 DEF TypeOK, CheckState
    <3>3. UNCHANGED <<deliveries, fired, notices>>
      BY <2>2 DEF SaveResult, ghost
    <3> QED
      BY <3>2, <3>3, AccountedQuiet
  <2>3. CASE ~Dispatch(t) /\ ~SaveResult(t)
    <3>1. /\ check[t].pc \notin {"save", "refresh"}
          /\ UNCHANGED <<deliveries, fired, notices>>
          /\ \E c : Goto(t, c)
      BY <1>3, <2>3 DEF StartCheck, CheckStep, GetPrevious, LoadDomain,
         RetryCheck, FailCheck, CheckRaise, CheckOk, Gathered, Leave, store, ghost
    <3>2. \A u \in Task : u # t => check'[u] = check[u]
      BY <3>1 DEF Goto, TypeOK
    <3> QED
      BY <3>1, <3>2, AccountedQuiet
  <2> QED
    BY <2>1, <2>2, <2>3
<1>4. ASSUME NEW x \in deliveries, Deliver(x) PROVE Accounted(d, s, th, e)'
  BY <1>4, AccountedDeliver
<1>5. ASSUME NEW a \in Admin, AdminStep(a) \/ \E f \in Domain : AdminCall(a, f)
      PROVE  Accounted(d, s, th, e)'
  <2>1. UNCHANGED <<deliveries, fired, notices, check>>
    BY <1>5 DEF AdminStep, AdminCall, EnsureGet, EnsureWrite, EnsureJob,
       RemoveJob, RemoveRow, store, ghost
  <2> QED
    BY <2>1, AccountedQuiet
<1> QED
  BY <1>1, <1>2, <1>3, <1>4, <1>5 DEF Next

(* Rows are never taken away, and a check's instant is in the past.        *)
LEMMA SteadyLocals ==
    ASSUME Steady, TypeOK, SteadyInv, [Next]_vars
    PROVE  /\ \A t \in Task :
                /\ check'[t].at <= clock'
                /\ check'[t].pc \in {"load", "check", "save", "refresh"} =>
                      rows'[t[1]] # None
           /\ \A a \in Admin : admin'[a].pc # "remove"
<1>1. /\ clock \in Nat /\ clock' \in Nat /\ clock' >= clock
  <2>1. clock' = clock \/ Environment
    BY DEF Next, vars, StartCheck, CheckStep, GetPrevious, LoadDomain, RetryCheck,
     FailCheck, CheckRaise, CheckOk, SaveResult, Dispatch, Gathered, Deliver, AskFired, SendOk,
     SendRetry, SendFail, SendRaise, RecordFired, AdminStep, AdminCall,
     EnsureGet, EnsureWrite, EnsureJob, RemoveJob, RemoveRow
  <2> QED
    BY <2>1 DEF TypeOK, Environment, Tick, StepBack, Renew, Steady
<1>2. \A d \in Domain : rows[d] # None => rows'[d] # None
  <2>1. \A a \in Admin : ~RemoveRow(a)
    BY DEF RemoveRow, SteadyInv
  <2>2. ASSUME NEW t \in Task, SaveResult(t), NEW d \in Domain, rows[d] # None
        PROVE  rows'[d] # None
    <3>1. check[t] \in CheckState /\ check[t].snapshot # None /\ check[t].expires_at # None
      BY <2>2 DEF TypeOK, SaveResult
    <3>2. [settings |-> check[t].snapshot.settings,
           last |-> [at |-> check[t].at, expires_at |-> check[t].expires_at]] \in Row
      BY <3>1 DEF CheckState, Row, LastCheck
    <3> QED
      BY <2>2, <3>2, ConstantsAssumption DEF SaveResult, TypeOK
  <2>3. ASSUME NEW a \in Admin, EnsureWrite(a), NEW d \in Domain, rows[d] # None
        PROVE  rows'[d] # None
    <3>1. admin[a] \in AdminState /\ admin[a].settings # None
      BY <2>3 DEF TypeOK, EnsureWrite
    <3>2. [settings |-> admin[a].settings,
           last |-> IF admin[a].seen = None THEN None ELSE admin[a].seen.last] \in Row
      BY <3>1 DEF AdminState, Row
    <3> QED
      BY <2>3, <3>2, ConstantsAssumption DEF EnsureWrite, TypeOK
  <2>4. \/ rows' = rows
        \/ \E t \in Task : SaveResult(t)
        \/ \E a \in Admin : EnsureWrite(a)
    BY <2>1 DEF Next, Environment, Tick, StepBack, Renew, vars,
     StartCheck, CheckStep, GetPrevious, LoadDomain, RetryCheck, FailCheck,
     CheckRaise, CheckOk, Dispatch, Gathered, Deliver, AskFired, SendOk,
     SendRetry, SendFail, SendRaise, RecordFired, AdminStep, AdminCall,
     EnsureGet, EnsureJob, RemoveJob, store
  <2> QED
    BY <2>2, <2>3, <2>4
<1>3. ASSUME NEW t \in Task
      PROVE  /\ check'[t].at <= clock
             /\ check'[t].pc \in {"load", "check", "save", "refresh"} => rows[t[1]] # None
  <2>0. check[t].at \in Nat /\ check[t].at <= clock
    BY DEF TypeOK, CheckState, SteadyInv
  <2>1. CASE StartCheck(t) \/ CheckStep(t)
    <3>1. check[t].pc \in {"check", "save"} => rows[t[1]] # None
      BY DEF SteadyInv
    <3> QED
      BY <1>1, <2>0, <2>1, <3>1, CheckMoves
  <2>2. CASE ~(StartCheck(t) \/ CheckStep(t))
    <3>1. ASSUME NEW u \in Task, StartCheck(u) \/ CheckStep(u) PROVE check'[t] = check[t]
      BY <2>2, <3>1, CheckMoves
    <3>2. (\E u \in Task : StartCheck(u) \/ CheckStep(u)) \/ UNCHANGED check
      BY DEF Next, Environment, Tick, StepBack, Renew, vars,
         Deliver, AskFired, SendOk, SendRetry, SendFail, SendRaise, RecordFired,
         AdminStep, AdminCall, EnsureGet, EnsureWrite, EnsureJob, RemoveJob, RemoveRow
    <3> QED
      BY <3>1, <3>2 DEF SteadyInv
  <2> QED
    BY <2>1, <2>2
<1>4. ASSUME NEW t \in Task
      PROVE  /\ check'[t].at <= clock'
             /\ check'[t].pc \in {"load", "check", "save", "refresh"} => rows'[t[1]] # None
  <2>2. check'[t].at \in Nat /\ t[1] \in Domain
    BY TypeStep DEF TypeOK, CheckState, Task
  <2> QED
    BY <1>1, <1>2, <1>3, <2>2
<1>5. ASSUME NEW a \in Admin PROVE admin'[a].pc # "remove"
  <2>1. ASSUME NEW b \in Admin, AdminStep(b) \/ \E d \in Domain : AdminCall(b, d)
        PROVE  admin'[a].pc # "remove"
    <3>0. admin[b] \in AdminState /\ ~RemoveAllowed /\ admin[b].pc # "remove"
      BY DEF TypeOK, Steady, SteadyInv
    <3>1. PICK c : admin' = [admin EXCEPT ![b] = c] /\ c.pc # "remove"
      <4>1. IdleAdmin.pc = "idle" /\ [admin[b] EXCEPT !.pc = "job", !.seen = None].pc = "job"
        BY <3>0 DEF IdleAdmin, AdminState
      <4>2. CASE EnsureWrite(b)
        <5>1. \/ admin' = [admin EXCEPT ![b] = IdleAdmin]
              \/ admin' = [admin EXCEPT ![b] = [admin[b] EXCEPT !.pc = "job", !.seen = None]]
          BY <4>2 DEF EnsureWrite, TypeOK
        <5> QED
          BY <4>1, <5>1
      <4>3. CASE EnsureJob(b)
        BY <4>1, <4>3 DEF EnsureJob
      <4>4. CASE \E d \in Domain : AdminCall(b, d)
        BY <3>0, <4>4 DEF AdminCall, EnsureGet, RemoveJob
      <4> QED
        BY <2>1, <3>0, <4>2, <4>3, <4>4 DEF AdminStep, RemoveRow
    <3> QED
      BY <3>1 DEF TypeOK, SteadyInv
  <2>2. (\E b \in Admin : AdminStep(b) \/ \E d \in Domain : AdminCall(b, d)) \/ UNCHANGED admin
    BY DEF Next, Environment, Tick, StepBack, Renew, vars, StartCheck, CheckStep,
       GetPrevious, LoadDomain, RetryCheck, FailCheck, CheckRaise, CheckOk, SaveResult, Dispatch,
       Gathered, Deliver, AskFired, SendOk, SendRetry, SendFail, SendRaise, RecordFired
  <2> QED
    BY <2>1, <2>2 DEF SteadyInv
<1> QED
  BY <1>4, <1>5

(* SteadyInv is inductive for a steady watch set.                          *)
LEMMA SteadyStep ==
    ASSUME Steady PROVE TypeOK /\ SteadyInv /\ [Next]_vars => SteadyInv'
<1> SUFFICES ASSUME TypeOK, SteadyInv, [Next]_vars PROVE SteadyInv'
  OBVIOUS
<1>1. ASSUME NEW d \in Domain, NEW c \in LastCheck, NEW s \in Settings,
             NEW th \in s.thresholds, Suppresses(d, c, th)'
      PROVE  Accounted(d, s, th, c.expires_at)'
  <2>0. c.expires_at \in Expiry /\ Crossed(th, c.expires_at, c.at) /\ Remembered(d, c)'
    BY <1>1 DEF LastCheck, Suppresses, Crossed
  <2>1. CASE Remembered(d, c)
    <3>1. Accounted(d, s, th, c.expires_at)
      BY <2>0, <2>1 DEF SteadyInv, Suppresses
    <3> QED
      BY <2>0, <3>1, AccountedStep
  <2>2. CASE ~Remembered(d, c)
    <3>1. PICK t \in Task : /\ SaveResult(t)
                           /\ t[1] = d
                           /\ c = [at |-> check[t].at, expires_at |-> check[t].expires_at]
      BY <2>0, <2>2, RememberedStep
    <3>2. CASE CrossedBefore(check[t].previous, c.expires_at, th)
      <4>1. check[t].previous \in LastCheck
        BY <3>2 DEF CrossedBefore, TypeOK, CheckState
      <4>2. Suppresses(d, check[t].previous, th) /\ check[t].previous.expires_at = c.expires_at
        BY <3>1, <3>2, <4>1 DEF Suppresses, Remembered, CrossedBefore
      <4>3. Accounted(d, s, th, c.expires_at)
        BY <4>1, <4>2 DEF SteadyInv
      <4> QED
        BY <2>0, <4>3, AccountedStep
    <3>3. CASE ~CrossedBefore(check[t].previous, c.expires_at, th)
      <4>1. WillDispatch(d, th, c.expires_at)
        BY <2>0, <3>1, <3>3 DEF WillDispatch, SaveResult
      <4>2. Accounted(d, s, th, c.expires_at)
        BY <4>1 DEF Accounted
      <4> QED
        BY <2>0, <4>2, AccountedStep
    <3> QED
      BY <3>2, <3>3
  <2> QED
    BY <2>1, <2>2
<1> QED
  BY <1>1, SteadyLocals DEF SteadyInv

(* While the watch set is steady, no alert is lost in silence: whatever a  *)
(* stored last_check will suppress from now on has been paged, reported as *)
(* failed, or is in the hands of a task.                                   *)
THEOREM NothingLostInSilence ==
    ASSUME Steady
    PROVE  Spec => []NoSilentLoss
<1>1. TypeOK /\ SteadyInv => NoSilentLoss
  <2> SUFFICES ASSUME TypeOK, SteadyInv, NEW d \in Domain,
                      rows[d] # None, rows[d].last # None,
                      NEW th \in rows[d].settings.thresholds,
                      Crossed(th, rows[d].last.expires_at, rows[d].last.at)
               PROVE  Accounted(d, rows[d].settings, th, rows[d].last.expires_at)
    BY DEF NoSilentLoss
  <2>1. rows[d].settings \in Settings /\ rows[d].last \in LastCheck
    BY DEF TypeOK, Row
  <2>2. Suppresses(d, rows[d].last, th)
    BY <2>1 DEF Suppresses, Remembered
  <2> QED
    BY <2>1, <2>2 DEF SteadyInv
<1>2. TypeOK /\ SteadyInv /\ [Next]_vars => SteadyInv'
  BY SteadyStep
<1> QED
  BY <1>1, <1>2, SteadyInit, TypeCorrect, PTL DEF Spec

---------------------------------------------------------------------------
(* Jobs and rows.                                                          *)

(* The watch-set calls are made one after the other: the reload lock, or a *)
(* caller that awaits each call.                                           *)
OneCallAtATime == \A a, b \in Admin : a = b

(* Between the two writes of a watch-set call: ensure_watching has written *)
(* the row and not the job, remove_watching has taken the job and not the  *)
(* row.                                                                    *)
BetweenWrites ==
    \A a \in Admin :
        /\ admin[a].pc = "job" => rows[admin[a].domain] # None
        /\ admin[a].pc = "remove" => jobs[admin[a].domain] = None

JobInv == JobHasRow /\ BetweenWrites

LEMMA JobInit == Init => JobInv
<1> SUFFICES ASSUME Init PROVE JobInv
  OBVIOUS
<1>1. JobHasRow
  <2>1. jobs = [d \in Domain |-> IF rows[d] = None THEN None ELSE rows[d].settings.cron]
    BY DEF Init
  <2> QED
    BY <2>1 DEF JobHasRow
<1>2. BetweenWrites
  <2>1. \A a \in Admin : admin[a].pc = "idle"
    BY DEF Init, IdleAdmin
  <2> QED
    BY <2>1 DEF BetweenWrites
<1> QED
  BY <1>1, <1>2 DEF JobInv

(* A stored row is a record, so a write of one never unlists the domain.   *)
LEMMA JobCheckStep ==
    ASSUME TypeOK, JobInv, NEW t \in Task, StartCheck(t) \/ CheckStep(t)
    PROVE  JobInv'
<1>1. jobs' = jobs /\ admin' = admin
  BY DEF StartCheck, CheckStep, GetPrevious, LoadDomain, RetryCheck, FailCheck, CheckRaise, CheckOk,
         SaveResult, Dispatch, Gathered, store
<1>2. rows' = rows \/ SaveResult(t)
  BY DEF StartCheck, CheckStep, GetPrevious, LoadDomain, RetryCheck, FailCheck, CheckRaise, CheckOk,
         Dispatch, Gathered, store
<1>3. \A d \in Domain : rows[d] # None => rows'[d] # None
  <2>1. CASE SaveResult(t)
    <3> DEFINE row == [settings |-> check[t].snapshot.settings,
                       last |-> [at |-> check[t].at, expires_at |-> check[t].expires_at]]
    <3>1. row \in Row
      BY <2>1 DEF SaveResult, TypeOK, CheckState, Row, LastCheck
    <3>2. row # None
      BY <3>1, ConstantsAssumption
    <3> QED
      BY <2>1, <3>2 DEF SaveResult, TypeOK
  <2> QED
    BY <1>2, <2>1
<1>4. \A a \in Admin : admin[a].pc = "job" => admin[a].domain \in Domain
  BY DEF TypeOK, AdminState
<1> QED
  BY <1>1, <1>3, <1>4 DEF JobInv, JobHasRow, BetweenWrites

(* The two watch-set calls write in opposite orders, and one at a time.    *)
LEMMA JobAdmin ==
    ASSUME TypeOK, JobInv, OneCallAtATime, NEW a \in Admin,
           AdminStep(a) \/ \E d \in Domain : AdminCall(a, d)
    PROVE  JobInv'
<1> DEFINE d == admin[a].domain
<1>0. \A b \in Admin : b = a
  BY DEF OneCallAtATime
<1>1. admin[a] \in AdminState /\ (admin[a].pc # "idle" => d \in Domain)
  BY DEF TypeOK, AdminState
<1>2. CASE EnsureWrite(a)
  <2> DEFINE row == [settings |-> admin[a].settings,
                     last |-> IF admin[a].seen = None THEN None ELSE admin[a].seen.last]
  <2>1. row # None
    <3>1. row \in Row
      BY <1>1, <1>2 DEF EnsureWrite, TypeOK, AdminState, Row
    <3> QED
      BY <3>1, ConstantsAssumption
  <2>2. CASE admin[a].seen = None /\ rows[d] # None
    BY <1>0, <1>2, <2>2 DEF EnsureWrite, JobInv, JobHasRow, BetweenWrites, TypeOK, IdleAdmin
  <2>3. CASE ~(admin[a].seen = None /\ rows[d] # None)
    <3>1. /\ rows' = [rows EXCEPT ![d] = row]
          /\ admin' = [admin EXCEPT ![a].pc = "job", ![a].seen = None]
          /\ jobs' = jobs
      BY <1>2, <2>3 DEF EnsureWrite
    <3>2. d \in Domain
      BY <1>1, <1>2 DEF EnsureWrite
    <3>3. admin'[a].pc = "job" /\ admin'[a].domain = d
      BY <1>1, <3>1 DEF TypeOK, AdminState
    <3> QED
      BY <1>0, <2>1, <3>1, <3>2, <3>3 DEF JobInv, JobHasRow, BetweenWrites, TypeOK
  <2> QED
    BY <2>2, <2>3
<1>3. CASE EnsureJob(a)
  <2>1. d \in Domain /\ rows[d] # None /\ rows' = rows
    BY <1>1, <1>3 DEF EnsureJob, JobInv, BetweenWrites
  <2>2. \A e \in Domain : e # d => jobs'[e] = jobs[e]
    BY <1>3 DEF EnsureJob, TypeOK
  <2> QED
    BY <1>0, <1>3, <2>1, <2>2 DEF EnsureJob, JobInv, JobHasRow, BetweenWrites, TypeOK, IdleAdmin
<1>4. CASE RemoveRow(a)
  BY <1>0, <1>1, <1>4 DEF RemoveRow, JobInv, JobHasRow, BetweenWrites, TypeOK, IdleAdmin
<1>5. ASSUME NEW e \in Domain, RemoveJob(a, e)
      PROVE  JobInv'
  <2>1. admin'[a] = [IdleAdmin EXCEPT !.pc = "remove", !.domain = e]
    BY <1>5 DEF RemoveJob, TypeOK
  <2>2. admin'[a].pc = "remove" /\ admin'[a].domain = e
    BY <2>1 DEF IdleAdmin
  <2> QED
    BY <1>0, <1>5, <2>2 DEF RemoveJob, JobInv, JobHasRow, BetweenWrites, TypeOK
<1>6. ASSUME NEW e \in Domain, NEW s \in Settings, EnsureGet(a, e, s)
      PROVE  JobInv'
  BY <1>0, <1>6 DEF EnsureGet, JobInv, JobHasRow, BetweenWrites, TypeOK, store
<1> QED
  BY <1>2, <1>3, <1>4, <1>5, <1>6 DEF AdminStep, AdminCall

(* With watch-set calls made one after the other, no job is ever without   *)
(* its row, whatever the checks that run beside a call write back.         *)
THEOREM NoOrphanJob ==
    ASSUME OneCallAtATime
    PROVE  Spec => []JobHasRow
<1>1. TypeOK /\ JobInv /\ [Next]_vars => JobInv'
  <2> SUFFICES ASSUME TypeOK, JobInv, [Next]_vars PROVE JobInv'
    OBVIOUS
  <2>1. CASE Environment \/ \E x \in deliveries : Deliver(x)
    <3>1. UNCHANGED <<rows, jobs, admin>>
      BY <2>1 DEF Environment, Tick, StepBack, Renew, Deliver, AskFired, SendOk, SendRetry, SendFail,
                  SendRaise, RecordFired, store
    <3> QED
      BY <3>1 DEF JobInv, JobHasRow, BetweenWrites
  <2>2. CASE UNCHANGED vars
    BY <2>2 DEF vars, JobInv, JobHasRow, BetweenWrites
  <2> QED
    BY <2>1, <2>2, JobCheckStep, JobAdmin DEF Next
<1>2. JobInv => JobHasRow
  BY DEF JobInv
<1> QED
  BY <1>1, <1>2, JobInit, TypeCorrect, PTL DEF Spec
============================================================================
