# A TLA+ model of domain_watcher

domain_watcher is an asyncio daemon and library that checks when domain names
expire (RDAP, WHOIS, scripts), pages operators through notifiers as thresholds
are crossed, reloads its YAML on the fly, and learns WHOIS parsing rules from a
language model. Each process has one event loop; whatever is hard about it
comes from tasks that suspend at `await` while others change what they have read,
from remote ends that do not answer, and from processes that share a database and
may stop between any two of those steps.

## 1. Inventory

| Part | State it keeps | Operations | Talks to | Hard behaviours | What makes it correct |
|---|---|---|---|---|---|
| Check and alert pipeline (`interfaces/library/api.py`, `application/use_cases/check_domain.py`, `dispatch_notifications.py`) | repository rows with `last_check`, idempotency keys, tasks in flight | `check_now`, `_deliver`, `ensure_watching`, `remove_watching` | scheduler, repositories, checkers, notifiers, bus | overlapping checks, check-then-act across awaits, whole-row write-back, retries, exceptions inside `gather` | a key has one acknowledged page and none after it, never early, never lost in silence; every check ends; the watch set follows the calls |
| Notification policy (`core/notification/policies.py`) | none | `alerts_for` | pipeline | suppression before delivery, change of cycle | a threshold fires once per cycle and only when crossed |
| Event bus, iterators (`application/event_bus.py`) | two queues per subscriber, two racing `get()` tasks | `publish`, `events`, `__anext__`, drop | every publisher | put-back of a pulled event, overflow, cancellation | critical events complete and in order; losses announced |
| Event bus, callbacks (`application/event_bus.py`, `metrics_subscriber.py`) | typed buckets, wildcard list, the handler each publish awaits, counters | `on`, `on_any`, `_run_callbacks`, `_safe_call` | every publisher | a handler that hangs or raises, a registration during a dispatch, two publishes at once | one handler never stops another; every event is counted once |
| Processes (`interfaces/cli/_run.py`, `_check.py`, `_rules.py`, `api.py` start/stop) | rows seeded so far, jobs, hooks still to run | launch, start, serve, stop, kill; one-shot `check`; `rules disable/delete/revalidate/learned --purge-auto` | loader, composition, database, each other | a start that fails half way, a stop or kill between any two steps, several processes on one database | a failed start spoils nothing; a stop saves everything |
| Config hot reload (`infrastructure/config/watcher.py`, `application/use_cases/reload_config.py`) | debounce timer, reload tasks and their lock, the config in force | `_on_change`, `_schedule_reload`, `_do_reload`, `ConfigHolder.update` | watchdog thread, loader thread, scheduler | events during a reload, overlapping reloads, broken files | no change missed, none applied backwards |
| Scheduler (`infrastructure/scheduling/apscheduler.py`) | job table | `reconcile`, `add_or_update_job`, `remove_job`, start, stop | APScheduler, repository | partial reconcile, bootstrap from stale rows | the table follows the config |
| SQL session (`composition.py`, `sql/`) | one session and transaction per process, SQLite's one write lock | lazy open, flush, rollback, commit in `aclose` | repositories | crash before the commit, rollback of others' work, a database that is locked | what was stored stays stored |
| Rule learning (`application/services/*`, `infrastructure/parsers/validation_pipeline.py`, `learned_rules` repositories) | learned rules, gate-5 cache | `parse`, `validate`, `add`, `run_once`, `disable` | suggester, WHOIS, bus | racing learners, stale copies in a revalidation pass | a rule is learned once; a disabled one stays so, but for a rolled-back SQL session |
| Suggester safety (`infrastructure/parsers/safety.py`) | token buckets, breaker | `acquire`, `is_open`, `record_*` | `ParsingService` | refill arithmetic, calls in flight when the breaker opens | rate bound, bounded calls to a failing backend |
| Checkers (`infrastructure/checkers/*`) | IANA registry cache, threads of the default executor, script processes | `check` | RDAP and IANA servers, WHOIS servers, scripts | answers lost, late or out of order, threads and scripts that hang, cancellation | the right outcome per reply, a fresh registry, no script left running, every check ends |
| Notifiers (`infrastructure/notifiers/*`) | none | `send` | Telegram, Discord, webhooks, SMTP | a message taken whose acknowledgement is lost | what is announced of a page is true |
| Config loader, schema, composition (`infrastructure/config/*`, `composition.py`, `registry.py`) | registries, hooks | `resolve_config_path`, `interpolate_env`, validators, `compose_from_config` | files, environment | what one stage lets through and a later one refuses | every configured domain is served by the adapters it names |
| Plugin discovery, builder, other CLI commands, observability, contract tests, migrations | – | – | – | – | – |

`PROJECT.json` lists every part with its status, and every hazard with the line
where it bites and the properties that would catch it.

## 2. Modules

| Module | Models | State and actions |
|---|---|---|
| `NotificationPolicy` | `NotificationPolicy.alerts_for` | operators `Crossed`, `CrossedBefore`, `AlertsFor` |
| `AlertLedger` | the abstract promise of the alert path: once a page of a key is acknowledged no other goes out, and only an acknowledged page is recorded; pages whose answer is lost may come before | `Page` (acknowledged or not), `Remember` |
| `Watcher` | the pipeline. A step is the code between two awaits; `check[t]` is the program counter and the locals of a `check_now` task, `deliveries` the `_deliver` tasks, `admin` the watch-set calls; `rows`, `jobs`, `fired` are the stores | `StartCheck` … `SaveResult`, `Dispatch`, `AskFired`, `SendOk/Retry/Fail/Raise`, `RecordFired`, `Gathered`, `EnsureGet/Write/Job`, `RemoveJob/Row`; the environment ticks, steps the clock back and renews domains |
| `Replies` | what each checker and notifier makes of a reply: one operator per adapter from a class of replies to `ok`, `transient`, `permanent` or `raise`; and `Meaning`, what the other side meant by the reply (refused, busy, no such name, bad address, …) whatever the adapter makes of it, the reference they are compared with | operators only |
| `Adapters` | the adapters under the retry loops of `check_domain` and `dispatch_notifications`: concurrent calls over the IANA cache, the thread pool of `to_thread` and the running scripts | `Start`, `Wake`, `Finish`, a `Begin` and the ways to end per adapter (`RdapReply`, `IanaReply`, `WhoisTimeout`, `ScriptTimeout`, `HttpSendReply`, `SmtpReply`), `Cancel`; the remote ends act on their own |
| `EventBus` | `InProcessEventBus.events` and `publish` on queues; `crit` and `std` hold what the two `get()` tasks of a waiting `__anext__` have pulled | `PublishCritical/Standard`, `CallNext`, `FirstRun`, `CriticalGet`, `StandardGet`, `ReturnCritical/Standard/QueueFull`, `Subscribe`, `DropSubscriber` |
| `EventCallbacks` | the callback side of `publish` over `EventBus`; `pub[p]` is the handler a publish awaits, `typed` the dictionary it iterates over | `BeginPublish`, `HandlerReturns`, `HandlerRaises`, `On`, `OnAny` |
| `HotReload` | `run_command`: boot, start, serve, stop, kill; the file watcher with its thread, timers (also those `_pending` forgot), tasks and lock; the holder; the scheduler's `reconcile` and the rows it bootstraps from | `Boot`, `Serve`, `FailToStart`, the four steps of a stop, `Crash`, `Write`, `ScheduleReload`, `TimerFires`, the five steps of `_do_reload` |
| `Config` | from a YAML file to a wired watcher: `resolve_config_path`, `interpolate_env`, the validators of the schema, the factories and checks of `compose_from_config` | operators only: `ResolveConfigPath`, `LoadConfig`, `ComposeFromConfig` |
| `Lifecycle` | OS processes over one SQLite file, each composed by `Config` from the file and environment of its launch; `disk` is what is committed, `work` what the holder of the write lock sees | `Launch`, `Look`, `Seed`, `Bootstrap`, `Job`, `Deliver`, `Learn`, `Signal`, `CloseHook`, `Stopped`; `Ensure`, `CheckNow`, `Gathered` of a one-shot check; `Pick`, `Mutate` of a rules command; `Kill` |
| `SuggesterSafety` | token bucket and circuit breaker as operators on values; tokens are counted in units of 1/window so that the linear refill is exact where the code uses floats | `Acquired`, `Grants`, `Asked`, `Failed` |
| `RuleLearning` | concurrent `ParsingService.parse` calls, the validation gates with the await inside gate 5, both repositories (on SQL with the session that nothing commits: a refused duplicate rolls it back to `Saved`), the revalidation pass over the rules as it listed them, and an operator at the same repository | one action per step between awaits |
| `MC*` | instances for TLC; they define constants and symmetry only | |
| `*Proofs` | theorems, in a module of their own that extends the component's; `BreakerProofs` extends `RuleLearningProofs`, `EventCallbacksProofs` extends `EventBusProofs` | |

`EventCallbacks` extends `EventBus`, `Adapters` extends `Replies`, `Lifecycle`
extends `Config`, `RuleLearning` extends `SuggesterSafety`; `Watcher` extends `NotificationPolicy` and instantiates `AlertLedger` for the refinement.
Definitions whose names end in `_` and a word (`AskFired_Always`) are mutated forms
of the definition they stand before; they are used only to show that the property
beside them can fail.

Conventions. In `Watcher` and `RuleLearning` the awaited call takes effect in the
step that follows the await. The in-memory stores do not suspend, the SQL ones do:
the model has the interleavings of the SQL ones. Instants are day numbers. Names,
payloads and texts are model values; a WHOIS text is its format, and a constant
says what each regex makes of each format.

The modules cut the system at its interfaces. `Watcher` takes any outcome of
checkers and notifiers, `Adapters` says which outcomes they have and when; in
`Lifecycle` a check is the one flush it makes and a parse the rule it adds, while
`Watcher` and `RuleLearning` have their inner steps and stores that do not fail;
`HotReload` has the reloads that `Lifecycle` leaves out. What crosses a cut is
stated on both sides: `NoSilentLoss` assumes notifiers that raise nothing but
`NotificationError`s and channels that are known, `OutcomesFit` and `StartServes`
say how far the adapters and the composition keep that.

## 3. Runs

Passing runs:

| Run | Question | Bounds |
|---|---|---|
| `watcher_serial` | With one job task per domain and serial watch-set calls, is a key that has an acknowledged page ever paged again, and does the pipeline implement `AlertLedger`? Does a job outlive its row while checks write their copies back? | one domain (domains share nothing but the stores, which are keyed by domain); three kinds of settings (valid; a bad cron with an unregistered checker and an unserved channel; a bad cron with an unknown channel); two cycles, two instants, two attempts, every outcome of `send`, at most one page of a key whose answer is lost, removals, clock set back |
| `watcher_live` | Is a page early, is a stored crossing lost in silence, and, on a fair loop, do checks and deliveries end and does a crossing reach the operator? | one domain, one channel, two cycles, two attempts, re-ensured settings; notifiers raise only `NotificationError`s, no removal |
| `bus_queues` | Do critical events arrive complete and in order through every race of publishes with the two `get()` tasks; are losses of standard events announced and everything else accounted for; does a consumer that keeps iterating get every critical event? Is every event counted once; does a callback that raises or hangs cost the others nothing; does a publish end? | one subscriber (they do not interact), queue of 2, two critical and four standard events, so that one critical event waits while the other is held and the fourth standard event drops the marker of the overflow before it; one publishing task; two callbacks registered at any moment for the base class or any event, one of which may hang |
| `reload` | Is a change of the file missed, or an old version put in force; is the job table that of the config in force once its crons parse (with the rows of earlier lives beside it until the first reload); does a failing reconcile take jobs away; is every loadable change applied? | two domains, three crons (one of them bad), two rewrites with one or two events each, two reload tasks, two lives of the daemon |
| `rules` | Can two racing parses leave a rule active twice; can a revalidation pass, or an operator's `revalidate`, bring back a rule that was disabled after it was listed? | two parses at a time, three in all, two of them with a suggestion; two regexes, two formats and one change of format; memory, and SQL with one rule of an earlier life |
| `suggester` | Are the grants of each bucket within what it can have held; is a failing suggester called a bounded number of times per open period? | two TLDs, two parses at a time, four in all, four instants; threshold 2, capacities 2 |
| `adapters` | Is what may pass retried and what will not given up on, four named replies (`Misjudged`) apart; is what is announced of a page true; can a check use a registry older than its TTL; is a script left running; does every call end although threads hang for ever? | a call of any of the seven adapters beside an RDAP check, two attempts, one thread, a registry that lives two instants, three instants, a representative of every range of status codes the adapters tell apart |
| `lifecycle` | Does a file that cannot be served spoil the database for later starts; what can a start fail for; is every configured domain served by the adapters it names; does a stop save everything? | two processes, each a daemon, a one-shot check or a rules command, beside or after each other; three files (two notifiers and a plain domain; one domain written twice, a channel listed twice, a webhook, the LLM fallback and metrics; a cron that only the scheduler refuses) or one that is refused; four environments; two domains, one rule; one scheduled check; kills at any point |

`CHECK_DEADLOCK FALSE` stands where the modelled system may stop: a bus whose
bounded publishers are done, a daemon that is down for good, parses that are over, launches used up.
In the other runs deadlock is checked.

Runs that TLC refutes, each for one statement of the repository; `findings` in
`PROJECT.json` quotes the line:

| Run | The repository says | The model shows |
|---|---|---|
| `watcher_watchset` | `remove_watching` removes the row, `last_check` is preserved and monotonic | a check in flight writes back the row it loaded |
| `watcher_overlap` | the idempotency key keeps overlapping checks from paging twice | a caller's `check_now` beside the scheduled check: both ask `already_fired` before either records |
| `bus_lost` | critical events are never silently dropped | the put-back into a full queue raises and takes the critical event along |
| `stored_stays` | operations are autocommitted at the engine level; the rules commands mutate the rule | the only commit is at `aclose`: a conflicting insert rolls back everything since the start, disabled rules included, a kill forgets it, and the rules commands end without it |

### Bounds

Each bound is a constant named in the module that uses it (`MaxTime`,
`MaxAttempts`, `MaxStray` (pages of a key whose answer is lost), `MaxWrites`, `MaxEvents`, `MaxBoots`, `Slot`, `MaxParses`,
`MaxDrifts`, `MaxCritical`, `MaxStandard`, `MaxLaunches`, `MaxChecks`, `Workers`,
`Ttl`). They are large enough for the
interleavings at stake: two actors in each race, a cycle and its successor, one
retry beyond the first attempt, a reload that begins while another waits for the
lock, a second life on top of what the first committed, a process that starts while
another holds the database, a thread lost to a call that was given up, a failure period, the open
period after it and a half-open probe. Every property is violated by a mutant of
the code under the same bounds, and every action is taken by some passing run.
Symmetry is used for the parse calls of `RuleLearning` only, in runs without
liveness properties.

### Fairness

`Watcher!Fairness` and the `FairSpec`s assume weak fairness of the steps of tasks
that are ready: asyncio resumes a ready task, an awaited network call ends (every
client has a timeout), a timer fires. `HotReload` adds that the loader thread
ends. Nobody is obliged to publish, to write the file, to stop the daemon or to
start a check: `CrossingReachesOperator` states as its own premise that the domain
is checked with success again and again. In `EventBus` the consumer is assumed to
keep calling `__anext__`, which is the situation `CriticalReceived` is about, and in
`EventCallbacks` a handler outside `Slow` returns or raises. `Adapters` assumes
nothing of servers, threads and scripts: every wait of a call has a timeout of its
own (httpx, `wait_for`, `aiosmtplib`), so weak fairness of `TaskStep`, which contains
the timeouts, is all it needs. One wait has none: after `proc.kill()` the script
checker awaits `proc.wait()`, and the model has the two as one step, since the
kernel ends a killed process. httpx counts its timeout per read: a server that
trickles its answer for ever is outside that assumption. `Lifecycle` has safety
properties only.

## 4. Proofs

Checked by TLAPS for every value of the constants that satisfies the named
assumptions, and without the bounds that keep TLC's instances small. The assumptions:
`ConstantsAssumption`, `SettingsAssumption`, `BusAssumption`, `HotReloadAssumption`,
`AdaptersAssumption`, `ProcAssumption`, `CommandsAssumption` give the parameters their
types, keep `None` outside every domain, and say what `MonitoredDomain.__post_init__`
and `DomainName` guarantee; `RuleAssumption` and `HostAssumption` do so for
`RuleLearning` (capacities, windows and thresholds are positive, the process-wide
limiter is not a TLD); `CallbacksAssumption`: finitely many handlers and types;
`FilesAssumption`: the lists of a parsed YAML are sequences, ids and channels are
texts; `RowAssumption`: `None` is not a row; `CronAssumption`: the default schedule
fires. Every passing run has TLC evaluate those of its module.

Each inductive invariant named below implies the properties it is named for; TLC
finds it true in the instance of the run that checks them (with the quantifiers over
all integers cut down to a range).

`WatcherProofs`
- `TypeCorrect`: `Spec => []TypeOK`.
- `PagedAtMostOnce` and `LedgerRefined`, for `Serial` (no concurrent caller of
  `check_now`) and `DistinctChannels`: a key has at most one acknowledged page, and no
  send of it is under way after that. Pages whose answer was lost come before it; they
  are not bounded by this (section 5). `AtMostOncePerKey` is not inductive: a
  delivery that is sending may page next. `OnceInv` adds that a key has one
  delivery at a time, that the key of a sending one has no acknowledged page yet, that
  of a recording one has, and that an acknowledged page is recorded or about to be. The
  two conditions are needed: when a caller's `check_now` overlaps the scheduled check of
  the same domain (`watcher_overlap`), or a channel is listed twice, both tasks ask
  `already_fired` before either records, and a key whose page was acknowledged is paged
  again.
- `NeverEarly`, when the clock is not set back, for any number of overlapping
  checks: `EarlyInv` says that every delivery in flight is for a crossed threshold,
  and a crossed threshold stays crossed (`CrossedStays`).
- `NothingLostInSilence`, under `Steady`: all settings have the same thresholds
  and known channels, nothing is removed, notifiers keep their contract, the clock
  is not set back. `SteadyInv` strengthens the property from the stored
  `last_check` to every `last_check` that can still suppress an alert: one a check
  holds as `previous`, one `ensure_watching` is about to write back.
- `NoOrphanJob` (`JobHasRow`), for watch-set calls made one after the other
  (`OneCallAtATime`) and any checks beside them. `JobInv` adds what holds between the
  two writes of such a call (`BetweenWrites`). The condition is needed: of two
  overlapping calls, `remove_watching` takes the row that `ensure_watching` is about
  to give a job.

`EventBusProofs`
- `BusTypeCorrect`, `CriticalDelivery`, `OverflowAnnounced`, for any subscribers and
  any `standard_maxsize` from 1 on; like `StandardKept` they speak of subscribers whose
  `__anext__` has not raised `QueueFull` (`bus_lost`). `BusInv` carries, per subscriber, that what it
  received, holds and has queued are consecutive numbers ending at the last
  publish (`InOrder`); lemmas say how taking, returning and publishing keep that.
- `StandardKept` (`StandardAccounted`). `Account` strengthens it: no number occurs twice
  over what was read, is held and is queued, none is beyond the last publish, and what
  is missing was counted by `_enqueue` (`Kept`); lemmas say what a put-back, an overflow
  and a marker do to each part.

`EventCallbacksProofs`
- `BusUnderneath`: `EventCallbacks` implements `EventBus`, so that the theorems on the
  queues hold with handlers that hang, raise and register others
  (`QueuesUnderCallbacks`).
- `EventsCountedOnce` (`CountedOnce`) and `SiblingsNotBlocked` (`SiblingsCalled`), for any
  publishers, handlers and types. The tables are well formed (`TablesOk`): one bucket per
  type, each counter the first handler of one of the first two buckets and of no
  other. On that rests where a publish may be (`DispatchInv`): every handler it has
  passed was called once, and a counter shows an event from the moment its publish
  has begun, as the handlers before it do not await.

`HotReloadProofs`
- `ReloadTypeCorrect`, `ChangesNotMissed`, `ConfigMovesForward`, for any number of
  reload tasks, writes and lives. `ReloadInv` joins the type invariant (with mutual
  exclusion by the lock), that the file watcher is asleep while the daemon does not
  serve, that versions only grow from the holder over a loaded task to the file,
  that a booted daemon holds the file's version, and `NoMissedChange` itself.
- `JobsFollowConfig` (`SchedulerFollows`): while no subscriber is running and every cron
  of the config in force parses, a serving daemon has exactly that config's jobs, and
  before its first reload also those of the rows an earlier life left; and `ListedKeepTheirJobs`
  (`JobLossMeansUnlisted`). `FollowInv` adds that the subscriber is handed what is in
  force, because it runs under the lock; a lemma says what `reconcile` leaves when a
  cron does not parse (`ReconcileKeeps`).

`AdaptersProofs`
- `TypesKept`, `ScriptsReaped`, `OutcomesAreFit`, `PagesAccounted`, `LookupsFresh`, for any
  number of calls, attempts and threads. What is shown of an announced outcome was
  decided attempts before, so `CallOk` says what a call remembers: what its last reply
  meant, that a page is taken once per attempt at most, and not at all before the
  attempt that met silence unless it is announced. `StampsOk` orders the clock, the
  moment IANA served a registry and the stamp it is cached under; `PoolOk` says that
  exactly the whois calls that wait have a job, and that threads of callers that gave
  up count against the pool. That the replies of every adapter fit their meaning, but for the four `Misjudged` (RDAP
  gives up on 429, email on a busy authentication server; email retries a refused
  address, WHOIS a "no such domain" that python-whois raises), is
  proved per adapter (`LookupFits`, `SendFits`, `OtherFits`).

`RuleLearningProofs`
- `TypesKept`, `NoRuleTwice` (`LearnedOnce`), `DisabledForGood` (`DisabledStaysDisabled`),
  for any number of racing parses on either repository. The pass works on the rules as it
  listed them, so `LearningInv` relates no listed rule to the repository: between the
  two a rollback may take the rule away. `DisabledStaysDisabled` names that rollback, an
  add refused as a duplicate on SQL, as the only step that brings a rule back.
- `GrantsBounded` (`RateBounded`), for any capacities and windows. The bound speaks of two
  grants; `Account` is what a bucket preserves: the grants from any one on and the
  tokens left are no more than a full bucket and what was refilled since. The
  arithmetic of refill and acquire is in lemmas about `SuggesterSafety`
  (`RefillBounded`, `RefillAccounts`, `AcquireAccounts`).

`BreakerProofs`
- `SuggesterShielded` (`BreakerShields`), for any threshold and any number of parses, if the
  failure window is no shorter than the open period and there are finitely many
  parses (`Covering`; `default_circuit_breaker` has five minutes for both). Calls in
  flight when the breaker opens, and the failures that half-open forgets, are what
  makes it hard: while the breaker is closed, every recent failed call is backed by a
  failure the breaker still remembers (`Backed`), fewer than the threshold; once it has
  opened, no call begins until all that had begun are past counting (`OpenOk`). With a
  shorter window the breaker forgets failures of calls that still count.

`LifecycleProofs`
- `DatabaseUnspoilt` (`NoPoisonRow`), `StartsBlamed` (`StartBlame`) and `StopsSave`
  (`StopSaves`), for any number of processes, any files, environments and kills.
  `NoPoisonRow` speaks of the disk and is not inductive: a bad cron is flushed before
  the scheduler sees it. `LifeInv` follows it: a cron that does not fire is only in the
  transaction of a process that is still starting, and only if the file of that
  process has it (`Untried`); a process that closes and holds the transaction has the
  hook that commits still ahead of it. Lemmas carry this through the loader and the
  composition (`InitialRows`, `HooksCommit`, `AppShape`) and the four things a step
  does to the store (`FlushStore`, `RollbackStore`, `CommitStore`, `SameStore`).
- `DatabaseTyped` (`TypeOK`) and `StartedServes` (`StartServes`). `ServeInv` follows what a
  process counts on in the database (`Sees`): the rows it has seeded, the rules it has
  listed. That nobody takes them away rests on two facts: the open transaction only
  adds to what is committed (`Grows`), and what a process sees changes under it only
  when another commits. `AppWired` proves of the loader, the schema and
  `compose_from_config` together that ids and channels lead to adapters.

Only model-checked: the liveness properties (fairness is outside this prover's
reach, as are `ENABLED` and induction over data), and that the recursive or choosing
definitions of `Config` and `Replies` are what the code computes, beyond what the
lemmas above state of them.

## 5. What modelling brought to light

The findings have a run each. These disagreements with the docs have none; the
models contain the behaviour, and where a property would otherwise be false it names
the exception:

- `docs/reference/plugins.md:85-88` has notifiers treat duplicates as no-ops. A timeout
  after the request was served (`telegram.py:122`) is a `DeliveryFailedError` like any
  other, `_deliver` sends again, and no notifier de-duplicates
  (`testing/contract/notifier.py:78` forbids it): the operator has two pages of one key.
  `AtMostOncePerKey` and `ImplementsLedger` therefore count acknowledged pages and leave
  the others unbounded but before them; `PageAccounted` says what remains true of them.
- `email_smtp.py:15` calls a bad address permanent: `SMTPRecipientsRefused` reaches the
  catch-all at line 142 and is retried. `email_smtp.py:16-18` calls 4xx and 5xx codes
  that are not about authentication transient: a 5xx fails the delivery at once, as the
  comment at line 137 and a test have it; `Meaning` takes 5xx at the protocol's word.
  The four replies for which an adapter goes against their meaning are `Misjudged`.
- `docs/reference/plugins.md:72-73` has a checker return a result for every input: a
  server that hangs up in mid-answer, an `eventDate` that `fromisoformat` refuses and an
  IANA answer that is no object leave `check` as exceptions, without a retry and
  without an event (the `raise` of `Replies`, excepted in `OutcomesFit`).
- `docs/guides/operator/configuration.md:3-4` calls the YAML the single source of truth
  at startup and on hot reload. A domain taken out of it while the daemon is down is
  scheduled from its row (`apscheduler.py:103`) until the first reload, which
  `SchedulerFollows` excepts; one added by a hot reload gets a job but no row, so that
  its checks find nothing to check.
- `docs/guides/operator/learned-rules.md:108-109` has `rules revalidate <id>` re-enable a
  disabled rule. The command lists active rules only (`_rules.py:222`) and
  `mark_revalidated` never clears the flag (`OperatorRevalidate`): nothing but a rollback
  of the session brings a rule back.
- That rollback (`sql/repos/learned_rules.py:110`) takes back every flushed disable, against
  `learned-rules.md:74-75`; `DisabledStaysDisabled` excepts it by name, and `stored_stays`
  shows the same session lose other things.
- `learned-rules.md:113-115` calls `max_learn_per_hour` a limit per hour: a bucket is
  created full, so a window can see its capacity and almost as many grants again.
  `RateBounded` is the bound that holds.
- `_parse_epoch` (`regex.py:97`) does not catch what `datetime.fromtimestamp` raises for a
  number out of range. It is no `ParseError`, so it ends the revalidation pass before the
  rules listed behind (the outcome `raises` of `JudgeRule`).

And these observations:

- A daemon that has stored anything holds SQLite's write lock until it stops: its
  transaction is never committed before. A `check` or `rules disable` beside it gets
  "database is locked", and a session that met the error answers every later call
  with `PendingRollbackError`, since only a conflict is answered with `rollback`
  (`Flushes`, `FlushRaises` in `Lifecycle`).
- What `compose_from_config` raises is not caught by any command, nor is the
  `ValueError` of a malformed domain name given to `check`: both end in a traceback
  where `docs/reference/cli.md` has an exit code for them.
- The schema accepts crons that APScheduler refuses (`99 * * * *`); the start then
  fails after the rows were flushed. That nothing of it reaches the disk is due to
  the missing commit (`NoPoisonRow`): with autocommit every later start would fail.
- Two domains whose names differ in case only pass the schema's uniqueness check,
  and the later entry wins the row.
- `${VAR:-default}` yields the empty string when `VAR` is set but empty.
- A page that went out without an acknowledgement is not remembered: the comment in
  `remove_watching` (`api.py:240`, "must not re-fire alerts the operator already saw")
  holds for acknowledged pages only.
- The two races of learning parses end in a `ValueError` out of `parse`; on SQL with the
  rollback that `DisabledStaysDisabled` excepts, which also takes away the rule the faster one has just learned.
- A rule whose id was rolled back may be given out again: a pass that listed the old rule
  then disables or marks the new one by its id.
- `DomainWatcher.start` reads a row and writes its `last_check` back an await later:
  a check that another process commits in between is forgotten.
- A registration for a new event type while a publish awaits a handler raises
  `RuntimeError` out of that publish (`SiblingsCalled` names it as the exception).
- A stop cancels the sends in flight instead of draining them, as
  `docs/reference/cli.md` has it: `shutdown(wait=True)` of an `AsyncIOScheduler`
  cancels its futures (`Closing` in `Lifecycle`, `Cancel` in `Adapters`).

## 6. Not modelled, and plan

Left out on purpose: wording, formatting and the `/metrics` server; delays of
retries and the moments at which a cron fires (any time will do); the revalidation
job, `RegistrySubscriber`, the unit of work and plugin discovery, which nothing in
the program calls; the builder, which checks and calls the same constructor; the
commands that only read; SQLAlchemy's own refusal of concurrent use of a session; a
PostgreSQL or in-memory `state_db` in `Lifecycle`; migrations; the contract-test
harness. Smaller cuts, each where it could be missed: an exception of `publish` between the
update and the dispatch in `check_domain` (its alerts would wait for a check that does
not suppress them); SMTP servers that take some recipients and refuse others; the
children of a script, of which only the script itself is killed; a wall clock set back
under the IANA cache; a channel that became unknown to the resolver in a row that is
still scheduled (`StartServes` covers the rows of the file, not stale ones). Some
statements of the docs speak of the schema or of a single component and are
read here as statements about the program. The rules commands run in a
process of their own (`Lifecycle`), where none of them commits; the operator of
`RuleLearning` is a caller of `learned_rules_repo` in the daemon's process.

Next, in this order:
1. Proofs: `PagedAtMostOnce` without `Serial` for calls that do not overlap in one
   domain; the alert policy of `NotificationPolicy` as lemmas of its own.
2. `RegistrySubscriber` over the registries, which diffs against the previous config
   and not against what is registered; discovery.
3. The date formats of `regex.py` and the suggester's reply.
