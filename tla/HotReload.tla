----------------------------- MODULE HotReload -----------------------------
(***************************************************************************)
(* The daemon of `domain-watcher run': DomainWatcher.start and stop, the   *)
(* ApsScheduler they start and stop, the ConfigFileWatcher (a watchdog     *)
(* thread, a debounce timer on the loop, _do_reload tasks that share a     *)
(* lock and load the file in a worker thread) and the ConfigHolder whose   *)
(* one subscriber reconciles the scheduler.  A configuration maps every    *)
(* domain to its cron, or to None when it does not list the domain; what   *)
(* else a domain entry says is left out.                                   *)
(***************************************************************************)
EXTENDS Naturals, FiniteSets

CONSTANTS
    Domain,
    Cron,        \* crons that pass _validate_cron
    ValidCrons,  \* the ones CronTrigger.from_crontab accepts
    Configs,     \* configurations the file may hold
    Broken,      \* a file load_config refuses
    None,
    Slot,        \* bound: _do_reload tasks alive at once
    MaxWrites,   \* bound: versions of the file
    MaxEvents,   \* bound: watchdog events one write may cause
    MaxBoots     \* bound: times the daemon is started

Table == [Domain -> Cron \cup {None}]

ASSUME HotReloadAssumption ==
    /\ Configs \subseteq Table
    /\ Broken \notin Configs
    /\ None \notin Cron \cup Slot
    /\ ValidCrons \subseteq Cron
    /\ MaxWrites \in Nat
    /\ MaxBoots \in Nat
    /\ MaxEvents \in Nat \ {0}

VARIABLES
    file,     \* the config file: its version and content
    phase,    \* where run_command is
    holder,   \* ConfigHolder._current: version and content
    jobs,     \* ApsScheduler._jobs: the cron of each domain
    rows,     \* the domains in the repository, as the session sees it
    disk,     \* the committed rows
    signals,  \* _schedule_reload callbacks queued by the watchdog thread
    pending,  \* is the timer _pending refers to armed?
    orphans,  \* armed timers that _pending no longer refers to
    task,     \* the _do_reload tasks
    lock,     \* _reload_lock: the task that holds it
    boots,    \* times the daemon was started
    missed,   \* was the file written between load_config and observer.start?
    reloaded  \* has a reload changed the config since the daemon started?

process == <<phase, holder, jobs, rows, disk, boots, missed, reloaded>>
watcher == <<signals, pending, orphans, task, lock>>
vars    == <<file, process, watcher>>

(* pc: not running; created; waiting for the lock; the loader thread runs; *)
(* it has read the file; the subscriber is about to run.                   *)
IdleTask == [pc |-> "idle", ver |-> 0, cfg |-> Broken]
Empty    == [d \in Domain |-> None]

Listed(cfg) == {d \in Domain : cfg[d] # None}

Init ==
    /\ file \in [ver : {0}, cfg : Configs]
    /\ phase = "down"
    /\ holder = [ver |-> 0, cfg |-> Empty]
    /\ jobs = Empty
    /\ rows = Empty
    /\ disk = Empty
    /\ signals = 0
    /\ pending = FALSE
    /\ orphans = 0
    /\ task = [s \in Slot |-> IdleTask]
    /\ lock = None
    /\ boots = 0
    /\ missed = FALSE
    /\ reloaded = FALSE

---------------------------------------------------------------------------
(* ApsScheduler.reconcile.                                                 *)

(* Mutant: the jobs that disappeared are not removed.                      *)
Reconcile_KeepsOld(table, target) ==
    {[d \in Domain |-> IF target[d] # None THEN target[d] ELSE table[d]]}

(* Mutant: the old jobs are removed before the new ones are parsed.        *)
Reconcile_ClearsFirst(table, target) ==
    LET good == {d \in Listed(target) : target[d] \in ValidCrons}
    IN {[d \in Domain |-> IF d \in done THEN target[d] ELSE None] :
           done \in IF good = Listed(target) THEN {good} ELSE SUBSET good}

(* The tables reconcile may leave: target when every cron parses;          *)
(* otherwise the domains met before the first bad cron (any of the good    *)
(* ones, according to the order of the list) are installed, ValueError     *)
(* ends the call, and nothing is removed.                                  *)
Reconcile(table, target) ==
    LET good == {d \in Listed(target) : target[d] \in ValidCrons}
    IN IF good = Listed(target)
       THEN {target}
       ELSE {[d \in Domain |-> IF d \in done THEN target[d] ELSE table[d]] :
                done \in SUBSET good}

---------------------------------------------------------------------------
(* run_command.                                                            *)

(* load_config and compose_from_config (a broken file: exit code 2).       *)
Boot ==
    /\ phase = "down"
    /\ boots < MaxBoots
    /\ file.cfg # Broken
    /\ phase' = "booted"
    /\ holder' = file
    /\ boots' = boots + 1
    /\ rows' = disk
    /\ missed' = FALSE
    /\ reloaded' = FALSE
    /\ UNCHANGED <<file, jobs, disk, watcher>>

(* watcher.start upserts the configured domains and ApsScheduler.start     *)
(* reconciles from every row of the repository; then the observer starts.  *)
Serve ==
    /\ phase = "booted"
    /\ LET seeded == [d \in Domain |-> IF holder.cfg[d] # None
                                       THEN holder.cfg[d] ELSE rows[d]]
       IN \E table \in Reconcile(jobs, seeded) :
             /\ table = seeded
             /\ rows' = seeded
             /\ jobs' = table
    /\ phase' = "serving"
    /\ UNCHANGED <<file, holder, disk, boots, missed, reloaded, watcher>>

(* Everything the process held in memory is gone.                          *)
Exit(committed) ==
    /\ phase' = "down"
    /\ disk' = committed
    /\ rows' = committed
    /\ jobs' = Empty
    /\ signals' = 0
    /\ pending' = FALSE
    /\ orphans' = 0
    /\ task' = [s \in Slot |-> IdleTask]
    /\ lock' = None
    /\ UNCHANGED <<file, holder, boots, missed, reloaded>>

(* A bad cron raises out of watcher.start, outside the try of _serve.      *)
FailToStart ==
    /\ phase = "booted"
    /\ \E d \in Domain :
          LET cron == IF holder.cfg[d] # None THEN holder.cfg[d] ELSE rows[d]
          IN cron # None /\ cron \notin ValidCrons
    /\ Exit(disk)

(* A signal: file_watcher.stop stops the observer and awaits its thread.   *)
StopObserver ==
    /\ phase = "serving"
    /\ phase' = "joining"
    /\ UNCHANGED <<file, holder, jobs, rows, disk, boots, missed, reloaded,
                   watcher>>

(* The thread is gone, and with it every callback it had queued; cancel    *)
(* the pending timer.                                                      *)
CancelPending ==
    /\ phase = "joining"
    /\ signals = 0
    /\ pending' = FALSE
    /\ phase' = "stopping"
    /\ UNCHANGED <<file, holder, jobs, rows, disk, boots, missed, reloaded,
                   signals, orphans, task, lock>>

(* watcher.stop: the scheduler shuts down and forgets its jobs ...         *)
StopScheduler ==
    /\ phase = "stopping"
    /\ jobs' = Empty
    /\ phase' = "closing"
    /\ UNCHANGED <<file, holder, rows, disk, boots, missed, reloaded, watcher>>

(* ... and the aclose hooks commit the session; asyncio.run cancels what   *)
(* is left on the loop.                                                    *)
Close ==
    /\ phase = "closing"
    /\ Exit(rows)

(* The process is killed: nothing was committed since it started.          *)
Crash ==
    /\ phase # "down"
    /\ Exit(disk)

---------------------------------------------------------------------------
(* ConfigFileWatcher.                                                      *)

(* Somebody rewrites the file, possibly in several visible steps.  While   *)
(* the observer runs, the watchdog thread queues a callback per event;     *)
(* once it was told to stop it may or may not.                             *)
Write(cfg, events) ==
    /\ file.ver < MaxWrites
    /\ file' = [ver |-> file.ver + 1, cfg |-> cfg]
    /\ signals' \in CASE phase = "serving" -> {signals + events}
                      [] phase = "joining" -> {signals, signals + events}
                      [] OTHER             -> {signals}
    /\ missed' = (missed \/ phase = "booted")
    /\ UNCHANGED <<phase, holder, jobs, rows, disk, boots, reloaded, pending,
                   orphans, task, lock>>

(* Mutant: an event that arrives while a reload runs is not scheduled.     *)
ScheduleReload_SkipsBusy ==
    /\ signals > 0
    /\ signals' = signals - 1
    /\ pending' = (pending \/ lock = None)
    /\ UNCHANGED <<file, process, orphans, task, lock>>

(* _schedule_reload: cancel the timer _pending refers to, arm a new one.   *)
ScheduleReload ==
    /\ signals > 0
    /\ signals' = signals - 1
    /\ pending' = TRUE
    /\ UNCHANGED <<file, process, orphans, task, lock>>

(* The timer strikes and creates a _do_reload task.                        *)
TimerFires(s, orphan) ==
    /\ IF orphan
       THEN orphans > 0 /\ orphans' = orphans - 1 /\ UNCHANGED pending
       ELSE pending /\ pending' = FALSE /\ UNCHANGED orphans
    /\ task[s].pc = "idle"
    /\ task' = [task EXCEPT ![s].pc = "new"]
    /\ UNCHANGED <<file, process, signals, lock>>

(* The first step of _do_reload forgets _pending, although a later event   *)
(* may have armed it anew since the timer struck.                          *)
BeginReload(s) ==
    /\ task[s].pc = "new"
    /\ pending' = FALSE
    /\ orphans' = IF pending THEN orphans + 1 ELSE orphans
    /\ task' = [task EXCEPT ![s].pc = "wait"]
    /\ UNCHANGED <<file, process, signals, lock>>

(* Mutant: there is no _reload_lock.                                       *)
AcquireLock_NoLock(s) ==
    /\ task[s].pc = "wait"
    /\ lock' = s
    /\ task' = [task EXCEPT ![s].pc = "load"]
    /\ UNCHANGED <<file, process, signals, pending, orphans>>

AcquireLock(s) ==
    /\ task[s].pc = "wait"
    /\ lock = None
    /\ lock' = s
    /\ task' = [task EXCEPT ![s].pc = "load"]
    /\ UNCHANGED <<file, process, signals, pending, orphans>>

(* The worker thread reads the file at some moment.                        *)
LoadFile(s) ==
    /\ task[s].pc = "load"
    /\ task' = [task EXCEPT ![s] = [pc |-> "loaded", ver |-> file.ver,
                                    cfg |-> file.cfg]]
    /\ UNCHANGED <<file, process, signals, pending, orphans, lock>>

(* Mutant: the early return of a failed load keeps the lock.               *)
UpdateHolder_KeepsLock(s) ==
    /\ task[s].pc = "loaded"
    /\ IF task[s].cfg = Broken
       THEN /\ task' = [task EXCEPT ![s] = IdleTask]
            /\ UNCHANGED <<lock, holder, reloaded>>
       ELSE /\ holder' = [ver |-> task[s].ver, cfg |-> task[s].cfg]
            /\ reloaded' = TRUE
            /\ task' = [task EXCEPT ![s].pc = "notify"]
            /\ UNCHANGED lock
    /\ UNCHANGED <<file, phase, jobs, rows, disk, boots, missed, signals,
                   pending, orphans>>

(* A file that did not load leaves the previous config in force;           *)
(* otherwise ConfigHolder.update swaps it in.                              *)
UpdateHolder(s) ==
    /\ task[s].pc = "loaded"
    /\ IF task[s].cfg = Broken
       THEN /\ task' = [task EXCEPT ![s] = IdleTask]
            /\ lock' = None
            /\ UNCHANGED <<holder, reloaded>>
       ELSE /\ holder' = [ver |-> task[s].ver, cfg |-> task[s].cfg]
            /\ reloaded' = TRUE
            /\ task' = [task EXCEPT ![s].pc = "notify"]
            /\ UNCHANGED lock
    /\ UNCHANGED <<file, phase, jobs, rows, disk, boots, missed, signals,
                   pending, orphans>>

(* SchedulerSubscriber.on_config_changed; _safe swallows a ValueError of   *)
(* reconcile.  The repository is not touched.                              *)
NotifyScheduler(s) ==
    /\ task[s].pc = "notify"
    /\ jobs' \in Reconcile(jobs, task[s].cfg)
    /\ task' = [task EXCEPT ![s] = IdleTask]
    /\ lock' = None
    /\ UNCHANGED <<file, phase, holder, rows, disk, boots, missed, reloaded,
                   signals, pending, orphans>>

ReloadStep(s) ==
    \/ BeginReload(s) \/ AcquireLock(s) \/ LoadFile(s)
    \/ UpdateHolder(s) \/ NotifyScheduler(s)

---------------------------------------------------------------------------
Shutdown == StopObserver \/ CancelPending \/ StopScheduler \/ Close

Next ==
    \/ Boot \/ Serve \/ FailToStart \/ Shutdown \/ Crash
    \/ \E cfg \in Configs \cup {Broken}, n \in 1..MaxEvents : Write(cfg, n)
    \/ ScheduleReload
    \/ \E s \in Slot : ReloadStep(s) \/ \E o \in BOOLEAN : TimerFires(s, o)

Spec == Init /\ [][Next]_vars

(* The loop runs its callbacks, its timers and its tasks, and the loader   *)
(* thread ends.  Nobody is obliged to stop the daemon or to write.         *)
FairSpec ==
    /\ Spec
    /\ WF_vars(ScheduleReload)
    /\ WF_vars(\E s \in Slot, o \in BOOLEAN : TimerFires(s, o))
    /\ \A s \in Slot : WF_vars(ReloadStep(s))

---------------------------------------------------------------------------
(* Properties.                                                             *)

TaskState == [pc : {"idle", "new", "wait", "load", "loaded", "notify"},
              ver : Nat, cfg : Configs \cup {Broken}]

(* Type invariant; the lock is held by the one task past AcquireLock.      *)
TypeOK ==
    /\ file \in [ver : Nat, cfg : Configs \cup {Broken}]
    /\ phase \in {"down", "booted", "serving", "joining", "stopping", "closing"}
    /\ holder \in [ver : Nat, cfg : Table]
    /\ jobs \in Table /\ rows \in Table /\ disk \in Table
    /\ signals \in Nat /\ orphans \in Nat /\ boots \in Nat
    /\ pending \in BOOLEAN /\ missed \in BOOLEAN /\ reloaded \in BOOLEAN
    /\ task \in [Slot -> TaskState]
    /\ lock \in Slot \cup {None}
    /\ \A s \in Slot :
          /\ task[s].pc \in {"load", "loaded", "notify"} => lock = s
          /\ task[s].pc = "notify" => task[s].cfg # Broken

(* The config in force never goes back to an older version of the file,    *)
(* although loads run in worker threads and several reloads can be alive.  *)
HolderNeverBack == [][holder'.ver >= holder.ver]_vars

(* A reload that will read the file, or has read what is in it now.        *)
Underway ==
    \/ signals > 0 \/ pending \/ orphans > 0
    \/ \E s \in Slot : \/ task[s].pc \in {"new", "wait", "load"}
                       \/ task[s].pc = "loaded" /\ task[s].ver = file.ver

(* No change is missed: whatever the debounce cancels and however events   *)
(* and reloads overlap, a daemon with no reload under way has the latest   *)
(* version of the file in force, unless that version does not load or was  *)
(* written before the observer was started.                                *)
NoMissedChange ==
    phase = "serving" /\ ~missed /\ file.cfg # Broken =>
        holder.ver = file.ver \/ Underway

(* The scheduler follows the config: a serving daemon with no subscriber   *)
(* running, and a config in force whose crons all parse, has for every     *)
(* listed domain the job of that config, whatever partial reconciles came  *)
(* before.  The others have none, or until the first reload since the      *)
(* start the job of the row an earlier process left them.                  *)
AllParse(cfg) == \A d \in Listed(cfg) : cfg[d] \in ValidCrons

JobsFor(cfg) ==
    [d \in Domain |-> IF cfg[d] # None THEN cfg[d]
                      ELSE IF reloaded THEN None ELSE disk[d]]

SchedulerFollows ==
    /\ phase = "serving"
    /\ \A s \in Slot : task[s].pc # "notify"
    /\ AllParse(holder.cfg)
    => jobs = JobsFor(holder.cfg)

(* A reload takes a domain's job away only when the config in force no     *)
(* longer lists it: not even a reconcile that fails half way leaves a      *)
(* listed domain without the job it had.                                   *)
JobLossMeansUnlisted ==
    [][phase = "serving" /\ phase' = "serving" =>
          \A d \in Domain : jobs[d] # None /\ jobs'[d] = None =>
                                holder.cfg[d] = None]_vars

(* Every change is applied: under a fair loop, a version of the file that  *)
(* loads is put in force unless it is overwritten or the daemon leaves     *)
(* service.                                                                *)
ChangeApplied ==
    \A v \in 1..MaxWrites :
        phase = "serving" /\ ~missed /\ file.ver = v /\ file.cfg # Broken
            ~> holder.ver = v \/ file.ver # v \/ phase # "serving"

============================================================================
