------------------------------ MODULE Watcher ------------------------------
(***************************************************************************)
(* The alert pipeline of domain_watcher: DomainWatcher.check_now (run by a *)
(* scheduler job or by a caller), CheckDomainUseCase.execute,              *)
(* DispatchNotificationsUseCase.execute and _deliver, and the two watch-   *)
(* set operations ensure_watching and remove_watching, all tasks of one    *)
(* asyncio loop sharing the repository, the scheduler's job table and the  *)
(* idempotency store.  A task can be suspended at every await, so a step   *)
(* below is the code between two awaits (the awaited call takes effect in  *)
(* the step that follows the await).  The in-memory stores never suspend   *)
(* and have fewer interleavings; the SQL ones suspend at each call.        *)
(***************************************************************************)
EXTENDS NotificationPolicy, Sequences, FiniteSets

CONSTANTS
    Domain, Channel,
    Threshold,           \* durations
    Expiry,              \* the instants the registry may name as expires_at
    Caller,              \* concurrent callers of check_now
    Admin,               \* concurrent callers of ensure/remove_watching
    Settings,            \* [checker, cron, channels, thresholds] in use
    RegisteredCheckers,  \* ids in checker_registry
    ValidCrons,          \* the crons CronTrigger.from_crontab accepts
    KnownChannels,       \* ids StaticChannelResolver can map to a notifier
    ServedChannels,      \* ids whose notifier is in notifier_registry
    SendOutcomes,        \* what Notifier.send may do
    MaxAttempts,         \* RetryPolicy.max_attempts
    MaxTime,             \* bound on the clock
    MaxStray,            \* bound on the unacknowledged pages counted per key
    RemoveAllowed,       \* may remove_watching be called?
    ClockMayStepBack     \* may the wall clock be set back?

LastCheck == [at : Nat, expires_at : Expiry]
Row       == [settings : Settings, last : LastCheck \cup {None}]

ASSUME ConstantsAssumption ==
    /\ Threshold \subseteq Nat
    /\ Expiry \subseteq Nat
    /\ None \notin Nat \cup Domain \cup Settings
    /\ None \notin LastCheck /\ None \notin Row
    /\ MaxAttempts \in Nat \ {0}
    /\ MaxTime \in Nat
    /\ MaxStray \in Nat
    /\ RemoveAllowed \in BOOLEAN
    /\ ClockMayStepBack \in BOOLEAN
    /\ SendOutcomes \subseteq {"ok", "delivery_failed", "error", "unexpected"}

(* MonitoredDomain.__post_init__: non-empty thresholds, channels, checker. *)
ASSUME SettingsAssumption ==
    \A s \in Settings :
        /\ s.thresholds \in (SUBSET Threshold) \ {{}}
        /\ s.channels \in Seq(Channel) \ {<<>>}

(* APScheduler runs at most one instance of a job (max_instances = 1), so  *)
(* a domain has one job task and one task per caller of check_now.         *)
Job    == "job"
Worker == Caller \cup {Job}
Task   == Domain \X Worker

Key       == [domain : Domain, threshold : Threshold,
              cycle : Expiry, channel : Channel]

VARIABLES
    clock,       \* TimeProvider.now()
    registry,    \* expires_at the checkers would report, per domain
    rows,        \* MonitoredDomainRepository
    jobs,        \* the scheduler's job table: the cron of each domain
    check,       \* the state of every check_now task
    deliveries,  \* the _deliver tasks in flight
    admin,       \* the state of every ensure/remove_watching call
    fired,       \* IdempotencyStore
    sent,        \* acknowledged pages per key: send returned
    strays,      \* pages per key that were taken although send raised
    notices      \* NotificationDispatched / NotificationFailed published

store == <<rows, jobs, fired>>
ghost == <<sent, strays, notices>>
vars  == <<clock, registry, rows, jobs, check, deliveries, admin, fired,
           sent, strays, notices>>

IdleCheck == [pc |-> "idle", previous |-> None, snapshot |-> None,
              attempt |-> 0, at |-> 0, expires_at |-> None]
IdleAdmin == [pc |-> "idle", domain |-> None, settings |-> None,
              seen |-> None]

(* A _deliver task: its check task, its alert and the channel it is for    *)
(* (index is the place of the channel in the resolver's answer).           *)
Delivery == [task : Task, threshold : Threshold, cycle : Expiry,
             channel : Channel, index : Nat \ {0},
             pc : {"ask", "send", "record"}, attempt : 0..MaxAttempts]

KeyOf(x) == [domain |-> x.task[1], threshold |-> x.threshold,
             cycle |-> x.cycle, channel |-> x.channel]

Notice(type, k) == <<type, k>>

---------------------------------------------------------------------------
(* Start: the repository holds any set of domains never checked yet, the   *)
(* scheduler has bootstrapped one job per row.                             *)
Init ==
    /\ clock = 0
    /\ registry \in [Domain -> Expiry]
    /\ rows \in [Domain -> {None} \cup
                  [settings : {s \in Settings : s.cron \in ValidCrons},
                   last : {None}]]
    /\ jobs = [d \in Domain |->
                  IF rows[d] = None THEN None ELSE rows[d].settings.cron]
    /\ check = [t \in Task |-> IdleCheck]
    /\ deliveries = {}
    /\ admin = [a \in Admin |-> IdleAdmin]
    /\ fired = {}
    /\ sent = [k \in Key |-> 0]
    /\ strays = [k \in Key |-> 0]
    /\ notices = {}

---------------------------------------------------------------------------
(* The environment: time passes, the wall clock is set back, a registrar   *)
(* changes the date a registry answers with.                               *)
Tick ==
    /\ clock < MaxTime
    /\ clock' = clock + 1
    /\ UNCHANGED <<registry, store, check, deliveries, admin, ghost>>

StepBack ==
    /\ ClockMayStepBack
    /\ clock > 0
    /\ clock' = clock - 1
    /\ UNCHANGED <<registry, store, check, deliveries, admin, ghost>>

Renew(d, e) ==
    /\ registry[d] # e
    /\ registry' = [registry EXCEPT ![d] = e]
    /\ UNCHANGED <<clock, store, check, deliveries, admin, ghost>>

---------------------------------------------------------------------------
(* check_now and CheckDomainUseCase.execute.                               *)

Goto(t, c) == check' = [check EXCEPT ![t] = c]

(* check_now raised or returned: its locals are gone.                      *)
Leave(t) == Goto(t, IdleCheck)

(* A scheduler tick starts the job's _run; a caller calls check_now.       *)
StartCheck(t) ==
    /\ check[t].pc = "idle"
    /\ t[2] = Job => jobs[t[1]] # None
    /\ Goto(t, [IdleCheck EXCEPT !.pc = "get"])
    /\ UNCHANGED <<clock, registry, store, deliveries, admin, ghost>>

(* check_now: existing = repo.get; previous_last_check = its last_check.   *)
GetPrevious(t) ==
    /\ check[t].pc = "get"
    /\ IF rows[t[1]] = None
       THEN Leave(t)                              \* DomainNotMonitoredError
       ELSE Goto(t, [check[t] EXCEPT !.pc = "load",
                                     !.previous = rows[t[1]].last])
    /\ UNCHANGED <<clock, registry, store, deliveries, admin, ghost>>

(* execute: domain = repo.get, look the checker up, enter the retry loop.  *)
LoadDomain(t) ==
    /\ check[t].pc = "load"
    /\ IF \/ rows[t[1]] = None                    \* DomainNotMonitoredError
          \/ rows[t[1]].settings.checker \notin RegisteredCheckers
                                                \* CheckerNotRegisteredError
       THEN Leave(t)
       ELSE Goto(t, [check[t] EXCEPT !.pc = "check", !.attempt = 1,
                                     !.snapshot = rows[t[1]]])
    /\ UNCHANGED <<clock, registry, store, deliveries, admin, ghost>>

(* Mutant: the loop does not stop at max_attempts.                         *)
RetryCheck_Unbounded(t) ==
    /\ check[t].pc = "check"
    /\ Goto(t, [check[t] EXCEPT !.attempt = @ + 1])
    /\ UNCHANGED <<clock, registry, store, deliveries, admin, ghost>>

(* A transient failure with attempts left: sleep, then try again.          *)
RetryCheck(t) ==
    /\ check[t].pc = "check"
    /\ check[t].attempt < MaxAttempts
    /\ Goto(t, [check[t] EXCEPT !.attempt = @ + 1])
    /\ UNCHANGED <<clock, registry, store, deliveries, admin, ghost>>

(* The last transient failure, or a permanent one at any attempt: publish  *)
(* DomainCheckFailed, then re-raise the checker's exception or return its  *)
(* error result (which goes on to the re-read of check_now).  The events   *)
(* about checks go to the bus and are kept by nobody here.                 *)
FailCheck(t, transient, raised) ==
    /\ check[t].pc = "check"
    /\ transient => check[t].attempt = MaxAttempts
    /\ IF raised
       THEN Leave(t)
       ELSE Goto(t, [check[t] EXCEPT !.pc = "refresh", !.snapshot = None])
    /\ UNCHANGED <<clock, registry, store, deliveries, admin, ghost>>

(* Any other exception of the checker leaves execute unreported.           *)
CheckRaise(t) ==
    /\ check[t].pc = "check"
    /\ Leave(t)
    /\ UNCHANGED <<clock, registry, store, deliveries, admin, ghost>>

(* The checker answers OK: with_check_result at clock.now() refuses to go  *)
(* back in time (ValueError), otherwise repo.update is awaited.            *)
CheckOk(t) ==
    /\ check[t].pc = "check"
    /\ IF /\ check[t].snapshot.last # None
          /\ clock < check[t].snapshot.last.at
       THEN Leave(t)
       ELSE Goto(t, [check[t] EXCEPT !.pc = "save", !.at = clock,
                                     !.expires_at = registry[t[1]]])
    /\ UNCHANGED <<clock, registry, store, deliveries, admin, ghost>>

(* repo.update is an upsert of the aggregate read by LoadDomain, with its  *)
(* last_check replaced; then DomainCheckCompleted is published.            *)
SaveResult(t) ==
    /\ check[t].pc = "save"
    /\ rows' = [rows EXCEPT ![t[1]] =
                   [settings |-> check[t].snapshot.settings,
                    last |-> [at |-> check[t].at,
                              expires_at |-> check[t].expires_at]]]
    /\ Goto(t, [check[t] EXCEPT !.pc = "refresh", !.snapshot = None])
    /\ UNCHANGED <<clock, registry, jobs, fired, deliveries, admin, ghost>>

---------------------------------------------------------------------------
(* DispatchNotificationsUseCase.                                           *)

(* One _deliver task per alert and per channel of the row.                 *)
NewDeliveries(t, alerts, channels) ==
    {[task |-> t, threshold |-> th, cycle |-> check[t].expires_at,
      channel |-> channels[i], index |-> i, pc |-> "ask", attempt |-> 0] :
        th \in alerts, i \in 1..Len(channels)}

(* Re-read the row and dispatch.  No row, no alert, or a channel the       *)
(* resolver does not know (KeyError): nothing is delivered to anybody.     *)
Dispatch(t) ==
    /\ check[t].pc = "refresh"
    /\ LET row    == rows[t[1]]
           alerts == AlertsFor(row.settings.thresholds, check[t].previous,
                               check[t].expires_at, clock)
           chans  == row.settings.channels
       IN IF \/ row = None
             \/ alerts = {}
             \/ \E i \in 1..Len(chans) : chans[i] \notin KnownChannels
          THEN /\ Leave(t)
               /\ UNCHANGED deliveries
          ELSE /\ deliveries' = deliveries \cup
                                    NewDeliveries(t, alerts, chans)
               /\ Goto(t, [IdleCheck EXCEPT !.pc = "deliver"])
    /\ UNCHANGED <<clock, registry, store, admin, ghost>>

Advance(x, y) == deliveries' = (deliveries \ {x}) \cup {y}
Finish(x)     == deliveries' = deliveries \ {x}

(* Mutant: already_fired is not asked.                                     *)
AskFired_Always(x) ==
    /\ x.pc = "ask"
    /\ IF x.channel \notin ServedChannels
       THEN /\ Finish(x)
            /\ notices' = notices \cup {Notice("NotificationFailed", KeyOf(x))}
       ELSE /\ Advance(x, [x EXCEPT !.pc = "send", !.attempt = 1])
            /\ UNCHANGED notices
    /\ UNCHANGED <<clock, registry, store, check, admin, sent, strays>>

(* Mutant: the key is recorded before the page is sent.                    *)
AskFired_RecordsFirst(x) ==
    /\ x.pc = "ask"
    /\ IF KeyOf(x) \in fired \/ x.channel \notin ServedChannels
       THEN Finish(x)
       ELSE Advance(x, [x EXCEPT !.pc = "send", !.attempt = 1])
    /\ fired' = fired \cup {KeyOf(x)}
    /\ UNCHANGED <<clock, registry, rows, jobs, check, admin, ghost>>

(* already_fired: skip; unknown notifier id: NotificationFailed.           *)
AskFired(x) ==
    /\ x.pc = "ask"
    /\ IF KeyOf(x) \in fired
       THEN /\ Finish(x)
            /\ UNCHANGED notices
       ELSE IF x.channel \notin ServedChannels
       THEN /\ Finish(x)
            /\ notices' = notices \cup {Notice("NotificationFailed", KeyOf(x))}
       ELSE /\ Advance(x, [x EXCEPT !.pc = "send", !.attempt = 1])
            /\ UNCHANGED notices
    /\ UNCHANGED <<clock, registry, store, check, admin, sent, strays>>

(* notifier.send returned: the page is out and acknowledged.               *)
SendOk(x) ==
    /\ x.pc = "send"
    /\ "ok" \in SendOutcomes
    /\ sent' = [sent EXCEPT ![KeyOf(x)] = @ + 1]
    /\ Advance(x, [x EXCEPT !.pc = "record"])
    /\ UNCHANGED <<clock, registry, store, check, admin, strays, notices>>

(* notifier.send raised.  That says nothing of the page: the other side    *)
(* may have taken it and its answer been lost, late or misread (a timeout  *)
(* after the request was served is a DeliveryFailedError).                 *)
Unanswered(k) ==
    \/ UNCHANGED strays
    \/ /\ strays[k] < MaxStray
       /\ strays' = [strays EXCEPT ![k] = @ + 1]

(* Mutant: the attempt counter is not advanced.                            *)
SendRetry_Forever(x) ==
    /\ x.pc = "send"
    /\ "delivery_failed" \in SendOutcomes
    /\ x.attempt <= MaxAttempts
    /\ Unanswered(KeyOf(x))
    /\ Advance(x, [x EXCEPT !.attempt = IF @ < MaxAttempts THEN @ + 1 ELSE 1])
    /\ UNCHANGED <<clock, registry, store, check, admin, sent, notices>>

(* DeliveryFailedError with attempts left: sleep, then send again.         *)
SendRetry(x) ==
    /\ x.pc = "send"
    /\ "delivery_failed" \in SendOutcomes
    /\ x.attempt < MaxAttempts
    /\ Unanswered(KeyOf(x))
    /\ Advance(x, [x EXCEPT !.attempt = @ + 1])
    /\ UNCHANGED <<clock, registry, store, check, admin, sent, notices>>

(* The last DeliveryFailedError, or a NotificationError at any attempt.    *)
SendFail(x) ==
    /\ x.pc = "send"
    /\ \/ "delivery_failed" \in SendOutcomes /\ x.attempt = MaxAttempts
       \/ "error" \in SendOutcomes
    /\ Unanswered(KeyOf(x))
    /\ notices' = notices \cup {Notice("NotificationFailed", KeyOf(x))}
    /\ Finish(x)
    /\ UNCHANGED <<clock, registry, store, check, admin, sent>>

(* Any other exception ends the task; gather swallows it.                  *)
SendRaise(x) ==
    /\ x.pc = "send"
    /\ "unexpected" \in SendOutcomes
    /\ Unanswered(KeyOf(x))
    /\ Finish(x)
    /\ UNCHANGED <<clock, registry, store, check, admin, sent, notices>>

(* Mutant: the key is not recorded.                                        *)
RecordFired_Forgets(x) ==
    /\ x.pc = "record"
    /\ notices' = notices \cup {Notice("NotificationDispatched", KeyOf(x))}
    /\ Finish(x)
    /\ UNCHANGED <<clock, registry, store, check, admin, sent, strays>>

(* idempotency.record, then publish NotificationDispatched.                *)
RecordFired(x) ==
    /\ x.pc = "record"
    /\ fired' = fired \cup {KeyOf(x)}
    /\ notices' = notices \cup {Notice("NotificationDispatched", KeyOf(x))}
    /\ Finish(x)
    /\ UNCHANGED <<clock, registry, rows, jobs, check, admin, sent, strays>>

Deliver(x) ==
    AskFired(x) \/ SendOk(x) \/ SendRetry(x) \/ SendFail(x) \/ SendRaise(x)
        \/ RecordFired(x)

(* gather returns once every _deliver task of this check is done.          *)
Gathered(t) ==
    /\ check[t].pc = "deliver"
    /\ \A x \in deliveries : x.task # t
    /\ Leave(t)
    /\ UNCHANGED <<clock, registry, store, deliveries, admin, ghost>>

---------------------------------------------------------------------------
(* ensure_watching and remove_watching.                                    *)

(* ensure_watching refuses an unknown checker, then reads the row.         *)
EnsureGet(a, d, s) ==
    /\ admin[a].pc = "idle"
    /\ s.checker \in RegisteredCheckers
    /\ admin' = [admin EXCEPT ![a] = [pc |-> "write", domain |-> d,
                                      settings |-> s, seen |-> rows[d]]]
    /\ UNCHANGED <<clock, registry, store, check, deliveries, ghost>>

(* repo.add when no row was seen (ValueError if there is one by now),      *)
(* otherwise repo.update with the last_check that was seen.                *)
EnsureWrite(a) ==
    LET d == admin[a].domain
        seen == admin[a].seen
    IN /\ admin[a].pc = "write"
       /\ IF seen = None /\ rows[d] # None
          THEN /\ admin' = [admin EXCEPT ![a] = IdleAdmin]
               /\ UNCHANGED rows
          ELSE /\ rows' = [rows EXCEPT ![d] =
                             [settings |-> admin[a].settings,
                              last |-> IF seen = None THEN None
                                       ELSE seen.last]]
               /\ admin' = [admin EXCEPT ![a].pc = "job", ![a].seen = None]
       /\ UNCHANGED <<clock, registry, jobs, fired, check, deliveries, ghost>>

(* scheduler.add_or_update_job: an invalid cron raises and leaves the job  *)
(* table as it was.                                                        *)
EnsureJob(a) ==
    LET s == admin[a].settings
    IN /\ admin[a].pc = "job"
       /\ jobs' = IF s.cron \in ValidCrons
                  THEN [jobs EXCEPT ![admin[a].domain] = s.cron]
                  ELSE jobs
       /\ admin' = [admin EXCEPT ![a] = IdleAdmin]
       /\ UNCHANGED <<clock, registry, rows, fired, check, deliveries, ghost>>

(* Mutant: remove_watching leaves the job to the scheduler.                *)
RemoveJob_KeepsJob(a, d) ==
    /\ RemoveAllowed
    /\ admin[a].pc = "idle"
    /\ admin' = [admin EXCEPT ![a] = [IdleAdmin EXCEPT !.pc = "remove",
                                                       !.domain = d]]
    /\ UNCHANGED <<clock, registry, store, check, deliveries, ghost>>

(* remove_watching: the job first ...                                      *)
RemoveJob(a, d) ==
    /\ RemoveAllowed
    /\ admin[a].pc = "idle"
    /\ jobs' = [jobs EXCEPT ![d] = None]
    /\ admin' = [admin EXCEPT ![a] = [IdleAdmin EXCEPT !.pc = "remove",
                                                       !.domain = d]]
    /\ UNCHANGED <<clock, registry, rows, fired, check, deliveries, ghost>>

(* ... then the row.  The idempotency keys stay.                           *)
RemoveRow(a) ==
    /\ admin[a].pc = "remove"
    /\ rows' = [rows EXCEPT ![admin[a].domain] = None]
    /\ admin' = [admin EXCEPT ![a] = IdleAdmin]
    /\ UNCHANGED <<clock, registry, jobs, fired, check, deliveries, ghost>>

---------------------------------------------------------------------------
Environment == Tick \/ StepBack \/ \E d \in Domain, e \in Expiry : Renew(d, e)

CheckStep(t) ==
    \/ GetPrevious(t) \/ LoadDomain(t) \/ RetryCheck(t)
    \/ \E transient, raised \in BOOLEAN : FailCheck(t, transient, raised)
    \/ CheckRaise(t) \/ CheckOk(t) \/ SaveResult(t) \/ Dispatch(t)
    \/ Gathered(t)

AdminStep(a) == EnsureWrite(a) \/ EnsureJob(a) \/ RemoveRow(a)

AdminCall(a, d) == RemoveJob(a, d) \/ \E s \in Settings : EnsureGet(a, d, s)

Next ==
    \/ Environment
    \/ \E t \in Task : StartCheck(t) \/ CheckStep(t)
    \/ \E x \in deliveries : Deliver(x)
    \/ \E a \in Admin : AdminStep(a) \/ \E d \in Domain : AdminCall(a, d)

Spec == Init /\ [][Next]_vars

(* The event loop runs every ready task, and every await of a check or of  *)
(* a delivery ends: repository calls return, checkers and notifiers have   *)
(* timeouts, the retry sleeps are finite.  Nothing is assumed about the    *)
(* clock, the registries, the callers or what a checker answers.           *)
Fairness ==
    /\ \A t \in Task : WF_vars(CheckStep(t))
    /\ \A t \in Task, th \in Threshold, c \in Channel :
           WF_vars(\E x \in deliveries : /\ x.task = t
                                        /\ x.threshold = th
                                        /\ x.channel = c
                                        /\ Deliver(x))

FairSpec == Spec /\ Fairness

---------------------------------------------------------------------------
(* Properties.                                                             *)

CheckState ==
    [pc : {"idle", "get", "load", "check", "save", "refresh", "deliver"},
     previous : LastCheck \cup {None}, snapshot : Row \cup {None},
     attempt : 0..MaxAttempts, at : Nat, expires_at : Expiry \cup {None}]

AdminState ==
    [pc : {"idle", "write", "job", "remove"}, domain : Domain \cup {None},
     settings : Settings \cup {None}, seen : Row \cup {None}]

(* Type invariant: what every piece of state ranges over, and that the     *)
(* locals a step reads are set when it reads them.                         *)
TypeOK ==
    /\ clock \in Nat
    /\ registry \in [Domain -> Expiry]
    /\ rows \in [Domain -> Row \cup {None}]
    /\ DOMAIN jobs = Domain
    /\ check \in [Task -> CheckState]
    /\ deliveries \in SUBSET Delivery
    /\ admin \in [Admin -> AdminState]
    /\ fired \in SUBSET Key
    /\ sent \in [Key -> Nat]
    /\ strays \in [Key -> 0..MaxStray]
    /\ notices \in SUBSET ({"NotificationDispatched", "NotificationFailed"}
                              \X Key)
    /\ \A t \in Task :
          /\ check[t].pc \in {"check", "save"} => check[t].snapshot # None
          /\ check[t].pc = "save" => check[t].expires_at # None
    /\ \A a \in Admin :
          /\ admin[a].pc # "idle" => admin[a].domain # None
          /\ admin[a].pc \in {"write", "job"} => admin[a].settings # None

(* A key has at most one acknowledged page, and once it has one no send of *)
(* it is under way any more, so no page follows it: the operator is paged  *)
(* again for a key only while every page of it so far went unacknowledged. *)
(* already_fired / send / record of _deliver is a check-then-act across    *)
(* three awaits, kept safe only by never running two checks of one domain  *)
(* at a time.                                                              *)
AtMostOncePerKey ==
    /\ \A k \in Key : sent[k] <= 1
    /\ \A x \in deliveries : x.pc = "send" => sent[KeyOf(x)] = 0

(* The pipeline implements the ledger: a key has one acknowledged page, no *)
(* page of any kind follows it, and only an acknowledged key is recorded   *)
(* (record comes after send).                                              *)
Ledger == INSTANCE AlertLedger WITH pages <- sent, recorded <- fired
ImplementsLedger == Ledger!LedgerSpec

(* A page is never early: by the time a page for a threshold is out, be it *)
(* acknowledged or not, that threshold is crossed for the expiry the page  *)
(* names (alerts_for tests it with a clock read several awaits after the   *)
(* check).                                                                 *)
NoEarlyPage ==
    \A k \in Key :
        sent[k] + strays[k] > 0 => Crossed(k.threshold, k.cycle, clock)

Handled(k) ==
    \/ k \in fired
    \/ Notice("NotificationFailed", k) \in notices

InFlight(k) == \E x \in deliveries : KeyOf(x) = k

(* A check of d still on its way to dispatching threshold th of cycle e.   *)
WillDispatch(d, th, e) ==
    \E t \in Task :
        /\ t[1] = d
        /\ check[t].pc \in {"save", "refresh"}
        /\ check[t].expires_at = e
        /\ Crossed(th, e, check[t].at)
        /\ ~CrossedBefore(check[t].previous, e, th)

Accounted(d, s, th, e) ==
    \/ WillDispatch(d, th, e)
    \/ \A i \in 1..Len(s.channels) :
          LET k == [domain |-> d, threshold |-> th, cycle |-> e,
                    channel |-> s.channels[i]]
          IN Handled(k) \/ InFlight(k)

(* No alert is lost in silence: alerts_for suppresses every threshold the  *)
(* stored last_check has already crossed, so as soon as a last_check that  *)
(* crosses a threshold is stored, each channel has its page recorded, or a *)
(* NotificationFailed was published, or a task is still going to do it.    *)
NoSilentLoss ==
    \A d \in Domain :
        rows[d] # None /\ rows[d].last # None =>
            \A th \in rows[d].settings.thresholds :
                Crossed(th, rows[d].last.expires_at, rows[d].last.at) =>
                    Accounted(d, rows[d].settings, th, rows[d].last.expires_at)

(* A job is never left behind without its row: with watch-set calls made   *)
(* one after the other, whatever job the scheduler has belongs to a row,   *)
(* in the middle of a call too (remove_watching takes the job first,       *)
(* ensure_watching writes the row first), and whatever a check running     *)
(* beside the call writes back.                                            *)
JobHasRow == \A d \in Domain : jobs[d] # None => rows[d] # None

(* The repository follows the watch-set calls: a row remove_watching took  *)
(* away comes back only through ensure_watching, settings change only      *)
(* through ensure_watching, and last_check.at never moves back (it is      *)
(* monotonic, and preserved across ensure_watching calls).  Every write of *)
(* a row stores a copy that was read some awaits earlier.                  *)
RowsFollowCalls ==
    [][\A d \in Domain :
          LET ensured == \E a \in Admin : /\ admin[a].pc = "write"
                                          /\ admin[a].domain = d
          IN /\ rows[d] = None /\ rows'[d] # None => ensured
             /\ rows[d] # None /\ rows'[d] # None =>
                   /\ rows[d].settings # rows'[d].settings => ensured
                   /\ rows[d].last # None =>
                         /\ rows'[d].last # None
                         /\ rows'[d].last.at >= rows[d].last.at]_vars

(* Every check ends: the retry loops of execute and of _deliver are        *)
(* bounded and gather waits only for tasks that end.                       *)
EveryCheckEnds ==
    \A t \in Task : check[t].pc # "idle" ~> check[t].pc = "idle"

(* Every delivery that is begun ends in a recorded page or a published     *)
(* NotificationFailed.                                                     *)
EveryDeliveryHandled == \A k \in Key : InFlight(k) ~> Handled(k)

(* The operator hears about a crossing: if d is checked with success again *)
(* and again, then a domain that stays watched past a threshold of its     *)
(* cycle gets that page out, or its failure published, on every channel.   *)
Due(k) ==
    /\ rows[k.domain] # None
    /\ k.threshold \in rows[k.domain].settings.thresholds
    /\ \E i \in 1..Len(rows[k.domain].settings.channels) :
          rows[k.domain].settings.channels[i] = k.channel
    /\ registry[k.domain] = k.cycle
    /\ Crossed(k.threshold, k.cycle, clock)

CrossingReachesOperator ==
    \A k \in Key :
        []<><<SaveResult(<<k.domain, Job>>)>>_vars =>
            (Due(k) ~> (Handled(k) \/ ~Due(k)))
============================================================================
