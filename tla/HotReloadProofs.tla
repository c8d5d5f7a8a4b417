-------------------------- MODULE HotReloadProofs --------------------------
(***************************************************************************)
(* Proofs about HotReload, for any domains, configurations, number of      *)
(* reload tasks and writes.  Three facts are proved together, because each *)
(* needs the others: the versions of the file only grow on their way to    *)
(* the holder, nothing of the file watcher is alive while the daemon is    *)
(* not serving, and no change of the file is missed.                       *)
(***************************************************************************)
EXTENDS HotReload, TLAPS

(* Before the observer runs there is nothing to debounce or to reload.     *)
WatcherAsleep ==
    phase \in {"down", "booted"} =>
        /\ signals = 0 /\ ~pending /\ orphans = 0
        /\ \A s \in Slot : task[s].pc = "idle"

(* Versions only grow from the holder over a loaded task to the file, and  *)
(* a task that read the file's version read its content.                   *)
VersionsOrdered ==
    /\ holder.ver <= file.ver
    /\ \A s \in Slot : task[s].pc = "loaded" =>
          /\ holder.ver <= task[s].ver
          /\ task[s].ver <= file.ver
          /\ task[s].ver = file.ver => task[s].cfg = file.cfg

(* What the daemon was composed from is what the file says.                *)
BootedCurrent == phase = "booted" /\ ~missed => holder.ver = file.ver

ReloadInv ==
    TypeOK /\ WatcherAsleep /\ VersionsOrdered /\ BootedCurrent /\ NoMissedChange

(* Every table reconcile can leave is a table.                             *)
LEMMA ReconcileTable ==
    ASSUME NEW table \in Table, NEW target \in Table,
           NEW r \in Reconcile(table, target)
    PROVE  r \in Table
BY DEF Reconcile, Table, Listed

(* The empty job table is a table.                                         *)
LEMMA EmptyTable == Empty \in Table
BY DEF Empty, Table

(* The initial states satisfy the invariant.                               *)
LEMMA ReloadInit == Init => ReloadInv
<1> SUFFICES ASSUME Init PROVE ReloadInv
  OBVIOUS
<1>1. TypeOK
  <2>1. file \in [ver : Nat, cfg : Configs \cup {Broken}]
    BY DEF Init
  <2>2. holder \in [ver : Nat, cfg : Table]
    BY EmptyTable DEF Init
  <2>3. task \in [Slot -> TaskState] /\ \A s \in Slot : task[s].pc = "idle"
    BY DEF Init, TaskState, IdleTask
  <2> QED
    BY <2>1, <2>2, <2>3, EmptyTable DEF Init, TypeOK
<1>2. WatcherAsleep /\ VersionsOrdered /\ BootedCurrent /\ NoMissedChange
  BY DEF Init, WatcherAsleep, VersionsOrdered, BootedCurrent, NoMissedChange, IdleTask
<1> QED
  BY <1>1, <1>2 DEF ReloadInv

(* Leaving the process resets everything the invariant speaks of.          *)
LEMMA ExitStep ==
    ASSUME ReloadInv, NEW committed \in Table, Exit(committed)
    PROVE  ReloadInv'
<1> USE DEF ReloadInv, Exit
<1>1. TypeOK'
  BY HotReloadAssumption, EmptyTable DEF TypeOK, TaskState, IdleTask
<1>2. WatcherAsleep' /\ BootedCurrent' /\ NoMissedChange'
  BY DEF WatcherAsleep, BootedCurrent, NoMissedChange, IdleTask
<1>3. VersionsOrdered'
  BY DEF VersionsOrdered, IdleTask
<1> QED
  BY <1>1, <1>2, <1>3

(* Starting: Boot and Serve.                                               *)
LEMMA StartStep ==
    ASSUME ReloadInv, Boot \/ Serve
    PROVE  ReloadInv'
<1> USE DEF ReloadInv
<1>1. CASE Boot
  <2>1. file.cfg \in Table /\ file.ver \in Nat
    BY <1>1, HotReloadAssumption DEF Boot, TypeOK
  <2>2. TypeOK'
    <3>1. file = [ver |-> file.ver, cfg |-> file.cfg]
      BY DEF TypeOK
    <3>2. holder' \in [ver : Nat, cfg : Table]
      BY <1>1, <2>1, <3>1 DEF Boot
    <3>3. rows' \in Table /\ boots' \in Nat /\ missed' \in BOOLEAN /\ reloaded' \in BOOLEAN
      <4>1. boots' \in Nat
        BY <1>1 DEF Boot, TypeOK
      <4>2. rows' \in Table /\ missed' \in BOOLEAN /\ reloaded' \in BOOLEAN
        BY <1>1, Zenon DEF Boot, TypeOK
      <4> QED
        BY <4>1, <4>2
    <3>4. phase' = "booted" /\ UNCHANGED <<file, jobs, disk, signals, pending, orphans, task, lock>>
      BY <1>1 DEF Boot, watcher
    <3> QED
      BY <3>2, <3>3, <3>4 DEF TypeOK
  <2>3. WatcherAsleep'
    BY <1>1 DEF Boot, WatcherAsleep, watcher
  <2>4. VersionsOrdered'
    BY <1>1, <2>1 DEF Boot, WatcherAsleep, VersionsOrdered, watcher
  <2>5. BootedCurrent' /\ NoMissedChange'
    BY <1>1 DEF Boot, BootedCurrent, NoMissedChange
  <2> QED
    BY <2>2, <2>3, <2>4, <2>5
<1>2. CASE Serve
  <2> DEFINE seeded == [d \in Domain |-> IF holder.cfg[d] # None
                                         THEN holder.cfg[d] ELSE rows[d]]
  <2>1. seeded \in Table
    BY DEF TypeOK, Table
  <2>2. rows' = seeded /\ jobs' = seeded /\ phase' = "serving"
        /\ UNCHANGED <<file, holder, disk, boots, missed, reloaded, watcher>>
    BY <1>2 DEF Serve
  <2>3. TypeOK'
    BY <2>1, <2>2 DEF TypeOK, watcher
  <2>4. WatcherAsleep' /\ BootedCurrent'
    BY <2>2 DEF WatcherAsleep, BootedCurrent
  <2>5. VersionsOrdered'
    BY <2>2 DEF VersionsOrdered, watcher
  <2>6. NoMissedChange'
    BY <1>2, <2>2 DEF Serve, BootedCurrent, NoMissedChange, Underway, watcher
  <2> QED
    BY <2>3, <2>4, <2>5, <2>6
<1> QED
  BY <1>1, <1>2

(* Stopping: the steps before the process exits.                           *)
LEMMA StopStep ==
    ASSUME ReloadInv, StopObserver \/ CancelPending \/ StopScheduler
    PROVE  ReloadInv'
<1> USE DEF ReloadInv
<1>1. TypeOK'
  BY EmptyTable DEF StopObserver, CancelPending, StopScheduler, TypeOK, watcher
<1>2. WatcherAsleep' /\ BootedCurrent' /\ NoMissedChange'
  BY DEF StopObserver, CancelPending, StopScheduler, WatcherAsleep,
         BootedCurrent, NoMissedChange
<1>3. VersionsOrdered'
  BY DEF StopObserver, CancelPending, StopScheduler, VersionsOrdered, watcher
<1> QED
  BY <1>1, <1>2, <1>3

(* Events: a write, its callback, a timer.                                 *)
LEMMA EventStep ==
    ASSUME ReloadInv,
           \/ \E cfg \in Configs \cup {Broken}, n \in 1..MaxEvents : Write(cfg, n)
           \/ ScheduleReload
           \/ \E s \in Slot, o \in BOOLEAN : TimerFires(s, o)
    PROVE  ReloadInv'
<1> USE DEF ReloadInv
<1>1. ASSUME NEW cfg \in Configs \cup {Broken}, NEW n \in 1..MaxEvents, Write(cfg, n)
      PROVE  ReloadInv'
  <2>0. n \in Nat \ {0} /\ file.ver \in Nat /\ file' = [ver |-> file.ver + 1, cfg |-> cfg]
    BY <1>1, HotReloadAssumption DEF Write, TypeOK
  <2>1. TypeOK'
    BY <1>1, <2>0 DEF Write, TypeOK
  <2>2. WatcherAsleep'
    BY <1>1 DEF Write, WatcherAsleep
  <2>3. VersionsOrdered'
    <3>1. holder.ver \in Nat /\ \A s \in Slot : task[s].ver \in Nat
      BY DEF TypeOK, TaskState
    <3> QED
      BY <1>1, <2>0, <3>1 DEF Write, VersionsOrdered
  <2>4. BootedCurrent'
    BY <1>1 DEF Write, BootedCurrent
  <2>5. NoMissedChange'
    BY <1>1, <2>0 DEF Write, NoMissedChange, Underway, TypeOK
  <2> QED
    BY <2>1, <2>2, <2>3, <2>4, <2>5
<1>2. CASE ScheduleReload
  <2>1. TypeOK'
    BY <1>2 DEF ScheduleReload, TypeOK, process
  <2>2. WatcherAsleep' /\ BootedCurrent' /\ VersionsOrdered'
    BY <1>2 DEF ScheduleReload, WatcherAsleep, BootedCurrent, VersionsOrdered, process
  <2>3. NoMissedChange'
    BY <1>2 DEF ScheduleReload, NoMissedChange, Underway, process
  <2> QED
    BY <2>1, <2>2, <2>3
<1>3. ASSUME NEW s \in Slot, NEW o \in BOOLEAN, TimerFires(s, o)
      PROVE  ReloadInv'
  <2>0. task' = [task EXCEPT ![s].pc = "new"] /\ UNCHANGED <<file, process, signals, lock>>
        /\ task[s].pc = "idle"
    BY <1>3 DEF TimerFires
  <2>1. TypeOK'
    <3>1. task' \in [Slot -> TaskState]
      BY <2>0 DEF TypeOK, TaskState
    <3>2. orphans' \in Nat /\ pending' \in BOOLEAN
      <4>1. \/ orphans > 0 /\ orphans' = orphans - 1 /\ pending' = pending
            \/ orphans' = orphans /\ pending' = FALSE
        BY <1>3, Zenon DEF TimerFires
      <4>2. orphans \in Nat
        BY DEF TypeOK
      <4>3. pending \in BOOLEAN
        BY Zenon DEF TypeOK
      <4>4. orphans' \in Nat
        BY <4>1, <4>2
      <4>5. pending' \in BOOLEAN
        BY <4>1, <4>3, Zenon
      <4> QED
        BY <4>4, <4>5
    <3>3. \A r \in Slot : r = s \/ task'[r] = task[r]
      BY <2>0 DEF TypeOK
    <3>4. task'[s].pc = "new"
      BY <2>0 DEF TypeOK, TaskState
    <3> QED
      BY <2>0, <3>1, <3>2, <3>3, <3>4 DEF TypeOK, process
  <2>2. WatcherAsleep' /\ BootedCurrent'
    BY <1>3 DEF TimerFires, WatcherAsleep, BootedCurrent, process
  <2>3. VersionsOrdered'
    BY <2>0 DEF VersionsOrdered, process, TypeOK
  <2>4. NoMissedChange'
    <3>1. task'[s].pc = "new"
      BY <2>0 DEF TypeOK, TaskState
    <3> QED
      BY <2>0, <3>1 DEF NoMissedChange, Underway, process
  <2> QED
    BY <2>1, <2>2, <2>3, <2>4
<1> QED
  BY <1>1, <1>2, <1>3

(* A step of a _do_reload task.                                            *)
LEMMA ReloadTaskStep ==
    ASSUME ReloadInv, NEW s \in Slot, ReloadStep(s)
    PROVE  ReloadInv'
<1> USE DEF ReloadInv
<1>0. task[s].pc # "idle" /\ phase \notin {"down", "booted"}
  BY DEF ReloadStep, BeginReload, AcquireLock, LoadFile, UpdateHolder,
         NotifyScheduler, WatcherAsleep
<1>1. CASE BeginReload(s)
  <2>1. TypeOK'
    <3>1. task' \in [Slot -> TaskState]
      BY <1>1 DEF BeginReload, TypeOK, TaskState
    <3>2. orphans' \in Nat /\ pending' \in BOOLEAN
      <4>1. pending' = FALSE /\ (orphans' = orphans + 1 \/ orphans' = orphans)
        BY <1>1, Zenon DEF BeginReload
      <4>2. orphans \in Nat
        BY DEF TypeOK
      <4>3. pending \in BOOLEAN
        BY Zenon DEF TypeOK
      <4>4. orphans' \in Nat
        BY <4>1, <4>2
      <4>5. pending' \in BOOLEAN
        BY <4>1, <4>3, Zenon
      <4> QED
        BY <4>4, <4>5
    <3>3. \A r \in Slot : r = s \/ task'[r] = task[r]
      BY <1>1 DEF BeginReload, TypeOK
    <3>4. task'[s].pc = "wait"
      BY <1>1 DEF BeginReload, TypeOK, TaskState
    <3> QED
      BY <1>1, <3>1, <3>2, <3>3, <3>4 DEF BeginReload, TypeOK, process
  <2>2. WatcherAsleep' /\ BootedCurrent'
    BY <1>0, <1>1 DEF BeginReload, WatcherAsleep, BootedCurrent, process
  <2>3. VersionsOrdered'
    BY <1>1 DEF BeginReload, VersionsOrdered, process, TypeOK
  <2>4. NoMissedChange'
    <3>1. task'[s].pc = "wait"
      BY <1>1 DEF BeginReload, TypeOK, TaskState
    <3> QED
      BY <1>1, <3>1 DEF BeginReload, NoMissedChange, Underway, process
  <2> QED
    BY <2>1, <2>2, <2>3, <2>4
<1>2. CASE AcquireLock(s)
  <2>1. TypeOK'
    BY <1>2, HotReloadAssumption DEF AcquireLock, TypeOK, TaskState, process
  <2>2. WatcherAsleep' /\ BootedCurrent'
    BY <1>0, <1>2 DEF AcquireLock, WatcherAsleep, BootedCurrent, process
  <2>3. VersionsOrdered'
    BY <1>2 DEF AcquireLock, VersionsOrdered, process, TypeOK
  <2>4. NoMissedChange'
    <3>1. task'[s].pc = "load"
      BY <1>2 DEF AcquireLock, TypeOK, TaskState
    <3> QED
      BY <1>2, <3>1 DEF AcquireLock, NoMissedChange, Underway, process
  <2> QED
    BY <2>1, <2>2, <2>3, <2>4
<1>3. CASE LoadFile(s)
  <2>0. file.ver \in Nat /\ task'[s] = [pc |-> "loaded", ver |-> file.ver, cfg |-> file.cfg]
        /\ \A r \in Slot \ {s} : task'[r] = task[r]
    BY <1>3 DEF LoadFile, TypeOK
  <2>1. TypeOK'
    BY <1>3 DEF LoadFile, TypeOK, TaskState, process
  <2>2. WatcherAsleep' /\ BootedCurrent'
    BY <1>0, <1>3 DEF LoadFile, WatcherAsleep, BootedCurrent, process
  <2>3. VersionsOrdered'
    BY <1>3, <2>0 DEF LoadFile, VersionsOrdered, process
  <2>4. NoMissedChange'
    BY <1>3, <2>0 DEF LoadFile, NoMissedChange, Underway, process
  <2> QED
    BY <2>1, <2>2, <2>3, <2>4
<1>4. CASE UpdateHolder(s)
  <2>0. /\ task[s].pc = "loaded" /\ lock = s
        /\ \A r \in Slot \ {s} : task'[r] = task[r] /\ task[r].pc # "loaded"
        /\ task'[s].pc # "loaded"
    <3>1. task[s].pc = "loaded" /\ lock = s
      BY <1>4 DEF UpdateHolder, TypeOK
    <3>2. \A r \in Slot \ {s} : task[r].pc # "loaded"
      BY <3>1 DEF TypeOK
    <3>3. task' = [task EXCEPT ![s] = IdleTask] \/ task' = [task EXCEPT ![s].pc = "notify"]
      BY <1>4 DEF UpdateHolder
    <3>4. task \in [Slot -> TaskState]
      BY DEF TypeOK
    <3> QED
      BY <3>1, <3>2, <3>3, <3>4 DEF TaskState, IdleTask
  <2>1. TypeOK'
    <3>1. CASE task[s].cfg = Broken
      BY <1>4, <2>0, <3>1, HotReloadAssumption DEF UpdateHolder, TypeOK, TaskState, IdleTask
    <3>2. CASE task[s].cfg # Broken
      <4>1. task[s].cfg \in Table /\ task[s].ver \in Nat
        BY <3>2, HotReloadAssumption DEF TypeOK, TaskState
      <4> QED
        BY <1>4, <2>0, <3>2, <4>1 DEF UpdateHolder, TypeOK, TaskState
    <3> QED
      BY <3>1, <3>2
  <2>2. WatcherAsleep' /\ BootedCurrent'
    BY <1>0, <1>4 DEF UpdateHolder, WatcherAsleep, BootedCurrent
  <2>3. VersionsOrdered'
    BY <1>4, <2>0 DEF UpdateHolder, VersionsOrdered
  <2>4. NoMissedChange'
    <3> SUFFICES ASSUME phase = "serving", ~missed, file.cfg # Broken,
                        holder'.ver # file.ver
                 PROVE  Underway'
      BY <1>4 DEF UpdateHolder, NoMissedChange
    <3>1. task[s].ver # file.ver
      BY <1>4, <2>0 DEF UpdateHolder, VersionsOrdered, NoMissedChange
    <3>2. holder.ver # file.ver
      BY <2>0, <3>1 DEF VersionsOrdered, TypeOK, TaskState
    <3>3. Underway
      BY <3>2 DEF NoMissedChange
    <3> QED
      BY <1>4, <2>0, <3>1, <3>3 DEF UpdateHolder, Underway
  <2> QED
    BY <2>1, <2>2, <2>3, <2>4
<1>5. CASE NotifyScheduler(s)
  <2>0. /\ task[s].pc = "notify" /\ lock = s
        /\ task'[s] = IdleTask /\ \A r \in Slot \ {s} : task'[r] = task[r]
    BY <1>5 DEF NotifyScheduler, TypeOK
  <2>1. TypeOK'
    <3>1. task[s].cfg \in Table
      BY <2>0, HotReloadAssumption DEF TypeOK, TaskState
    <3>2. jobs' \in Table
      BY <1>5, <3>1, ReconcileTable DEF NotifyScheduler, TypeOK
    <3> QED
      BY <1>5, <2>0, <3>2, HotReloadAssumption DEF NotifyScheduler, TypeOK, TaskState, IdleTask
  <2>2. WatcherAsleep' /\ BootedCurrent'
    BY <1>0, <1>5 DEF NotifyScheduler, WatcherAsleep, BootedCurrent
  <2>3. VersionsOrdered'
    BY <1>5, <2>0 DEF NotifyScheduler, VersionsOrdered, IdleTask
  <2>4. NoMissedChange'
    BY <1>5, <2>0 DEF NotifyScheduler, NoMissedChange, Underway
  <2> QED
    BY <2>1, <2>2, <2>3, <2>4
<1> QED
  BY <1>1, <1>2, <1>3, <1>4, <1>5 DEF ReloadStep

(* Every step of the daemon keeps the invariant.                           *)
LEMMA ReloadInductive == ReloadInv /\ [Next]_vars => ReloadInv'
<1> SUFFICES ASSUME ReloadInv, [Next]_vars PROVE ReloadInv'
  OBVIOUS
<1>1. CASE UNCHANGED vars
  BY <1>1 DEF vars, process, watcher, ReloadInv, TypeOK, WatcherAsleep,
     VersionsOrdered, BootedCurrent, NoMissedChange, Underway
<1>2. CASE Boot \/ Serve
  BY <1>2, StartStep
<1>3. CASE FailToStart \/ Close \/ Crash
  <2>1. rows \in Table /\ disk \in Table
    BY DEF ReloadInv, TypeOK
  <2> QED
    BY <1>3, <2>1, ExitStep DEF FailToStart, Close, Crash
<1>4. CASE StopObserver \/ CancelPending \/ StopScheduler
  BY <1>4, StopStep
<1>5. CASE \/ \E cfg \in Configs \cup {Broken}, n \in 1..MaxEvents : Write(cfg, n)
           \/ ScheduleReload
           \/ \E s \in Slot, o \in BOOLEAN : TimerFires(s, o)
  BY <1>5, EventStep
<1>6. CASE \E s \in Slot : ReloadStep(s)
  BY <1>6, ReloadTaskStep
<1> QED
  BY <1>1, <1>2, <1>3, <1>4, <1>5, <1>6 DEF Next, Shutdown

(* The state of the daemon is always well typed and at most one reload is  *)
(* between the lock's acquisition and its release.                         *)
THEOREM ReloadTypeCorrect == Spec => []TypeOK
<1>1. ReloadInv => TypeOK
  BY DEF ReloadInv
<1> QED
  BY <1>1, ReloadInit, ReloadInductive, PTL DEF Spec

(* No rewrite of the file is missed by a serving daemon, whatever the      *)
(* debounce cancels: with no reload under way the latest version is in     *)
(* force, unless it does not load or was written before the observer       *)
(* started.                                                                *)
THEOREM ChangesNotMissed == Spec => []NoMissedChange
<1>1. ReloadInv => NoMissedChange
  BY DEF ReloadInv
<1> QED
  BY <1>1, ReloadInit, ReloadInductive, PTL DEF Spec

(* The config in force never goes back to an older version of the file.    *)
THEOREM ConfigMovesForward == Spec => HolderNeverBack
<1>1. ReloadInv /\ [Next]_vars => [holder'.ver >= holder.ver]_vars
  <2> SUFFICES ASSUME ReloadInv, Next PROVE holder'.ver >= holder.ver
    OBVIOUS
  <2>1. holder.ver \in Nat /\ file.ver \in Nat /\ \A s \in Slot : task[s].ver \in Nat
    BY DEF ReloadInv, TypeOK, TaskState
  <2>2. CASE Boot
    BY <2>1, <2>2 DEF Boot, ReloadInv, VersionsOrdered
  <2>3. ASSUME NEW s \in Slot, UpdateHolder(s) PROVE holder'.ver >= holder.ver
    BY <2>1, <2>3 DEF UpdateHolder, ReloadInv, VersionsOrdered
  <2>4. CASE UNCHANGED holder
    BY <2>1, <2>4
  <2> QED
    BY <2>2, <2>3, <2>4 DEF Next, Serve, FailToStart, Shutdown, StopObserver,
       CancelPending, StopScheduler, Close, Crash, Exit, Write, ScheduleReload,
       ReloadStep, BeginReload, AcquireLock, LoadFile, NotifyScheduler,
       TimerFires, process
<1> QED
  BY <1>1, ReloadInit, ReloadInductive, PTL DEF Spec, HolderNeverBack

---------------------------------------------------------------------------
(* The scheduler.                                                          *)

(* What the subscriber was handed is what is in force; a daemon that has   *)
(* not started to serve has not reloaded, nor seeded the repository; a     *)
(* subscriber runs only in a reload; and SchedulerFollows itself.          *)
FollowInv ==
    /\ \A s \in Slot : task[s].pc = "notify" => task[s].cfg = holder.cfg
    /\ phase = "booted" => ~reloaded /\ rows = disk
    /\ \A s \in Slot : task[s].pc = "notify" => reloaded
    /\ SchedulerFollows

(* reconcile loses no job of a listed domain, and when every cron parses   *)
(* it leaves exactly the target.                                           *)
LEMMA ReconcileKeeps ==
    ASSUME NEW table, NEW target, NEW r \in Reconcile(table, target)
    PROVE  /\ AllParse(target) => r = target
           /\ \A d \in Domain :
                 r[d] = None /\ table[d] # None => target[d] = None
<1> DEFINE good == {d \in Listed(target) : target[d] \in ValidCrons}
<1>1. CASE good = Listed(target)
  BY <1>1 DEF Reconcile
<1>2. CASE good # Listed(target)
  <2>1. ~AllParse(target)
    BY <1>2 DEF AllParse, Listed
  <2>2. PICK done \in SUBSET good :
            r = [d \in Domain |-> IF d \in done THEN target[d] ELSE table[d]]
    BY <1>2 DEF Reconcile
  <2>3. \A d \in done : target[d] # None
    BY DEF Listed
  <2> QED
    BY <2>1, <2>2, <2>3
<1> QED
  BY <1>1, <1>2

LEMMA FollowInit == Init => FollowInv
BY DEF Init, FollowInv, SchedulerFollows, IdleTask

(* Nothing is loaded or notified outside the lock.                         *)
LEMMA OneReload ==
    ASSUME ReloadInv, NEW s \in Slot, task[s].pc \in {"load", "loaded", "notify"}
    PROVE  /\ phase \notin {"down", "booted"}
           /\ \A r \in Slot \ {s} : task[r].pc \notin {"load", "loaded", "notify"}
BY DEF ReloadInv, TypeOK, WatcherAsleep

(* What touches neither the config in force nor the jobs, and ends no       *)
(* subscriber, keeps the scheduler in step.                                *)
LEMMA FollowKept ==
    ASSUME SchedulerFollows, UNCHANGED <<phase, holder, jobs, disk, reloaded>>,
           \A r \in Slot : task'[r].pc # "notify" => task[r].pc # "notify"
    PROVE  SchedulerFollows'
<1>1. AllParse(holder.cfg)' = AllParse(holder.cfg)
  BY DEF AllParse, Listed
<1>2. JobsFor(holder.cfg)' = JobsFor(holder.cfg)
  BY DEF JobsFor
<1> QED
  BY <1>1, <1>2 DEF SchedulerFollows

(* A step of a _do_reload task keeps the scheduler in step.                *)
LEMMA FollowTask ==
    ASSUME ReloadInv, FollowInv, NEW s \in Slot, ReloadStep(s)
    PROVE  FollowInv'
<1>0. task \in [Slot -> TaskState]
  BY DEF ReloadInv, TypeOK
<1>1. CASE BeginReload(s) \/ AcquireLock(s) \/ LoadFile(s)
  <2>1. /\ UNCHANGED <<phase, holder, jobs, rows, disk, reloaded>>
        /\ task'[s].pc # "notify" /\ task[s].pc # "notify"
        /\ \A r \in Slot \ {s} : task'[r] = task[r]
    BY <1>0, <1>1 DEF BeginReload, AcquireLock, LoadFile, process, TaskState
  <2>2. \A r \in Slot : task'[r].pc # "notify" => task[r].pc # "notify"
    BY <2>1
  <2>3. SchedulerFollows'
    BY <2>1, <2>2, FollowKept DEF FollowInv
  <2> QED
    BY <2>1, <2>3 DEF FollowInv
<1>2. CASE UpdateHolder(s)
  <2>1. /\ phase \notin {"down", "booted"} /\ UNCHANGED <<phase, jobs, disk>>
        /\ \A r \in Slot \ {s} : task'[r] = task[r] /\ task[r].pc # "notify"
        /\ task[s].pc = "loaded"
    BY <1>0, <1>2, OneReload DEF UpdateHolder
  <2>2. CASE task[s].cfg = Broken
    <3>1. task'[s] = IdleTask /\ UNCHANGED <<holder, reloaded>>
      BY <1>0, <1>2, <2>2 DEF UpdateHolder
    <3>2. \A r \in Slot : task'[r].pc # "notify" => task[r].pc # "notify"
      BY <2>1
    <3>3. SchedulerFollows'
      BY <2>1, <3>1, <3>2, FollowKept DEF FollowInv
    <3> QED
      BY <2>1, <3>1, <3>3 DEF FollowInv, IdleTask
  <2>3. CASE task[s].cfg # Broken
    <3>1. /\ task'[s].pc = "notify" /\ task'[s].cfg = task[s].cfg
          /\ holder'.cfg = task[s].cfg /\ reloaded'
      BY <1>0, <1>2, <2>3 DEF UpdateHolder, TaskState
    <3> QED
      BY <2>1, <3>1 DEF FollowInv, SchedulerFollows
  <2> QED
    BY <2>2, <2>3
<1>3. CASE NotifyScheduler(s)
  <2>1. /\ phase \notin {"down", "booted"}
        /\ UNCHANGED <<phase, holder, disk, reloaded>> /\ reloaded
        /\ \A r \in Slot \ {s} : task'[r] = task[r] /\ task[r].pc # "notify"
        /\ task'[s] = IdleTask
    BY <1>0, <1>3, OneReload DEF NotifyScheduler, FollowInv
  <2>2. jobs' \in Reconcile(jobs, holder.cfg)
    BY <1>3 DEF NotifyScheduler, FollowInv
  <2>3. AllParse(holder.cfg) => jobs' = holder.cfg
    BY <2>2, ReconcileKeeps
  <2>4. holder.cfg \in Table
    BY DEF ReloadInv, TypeOK
  <2>5. JobsFor(holder.cfg)' = holder.cfg
    BY <2>1, <2>4 DEF JobsFor, Table
  <2>6. AllParse(holder.cfg)' = AllParse(holder.cfg)
    BY <2>1 DEF AllParse, Listed
  <2>7. SchedulerFollows'
    BY <2>3, <2>5, <2>6 DEF SchedulerFollows
  <2> QED
    BY <2>1, <2>7 DEF FollowInv, IdleTask
<1> QED
  BY <1>1, <1>2, <1>3 DEF ReloadStep

(* The start reconciles to the config and to the rows of earlier           *)
(* processes.                                                              *)
LEMMA FollowServe ==
    ASSUME ReloadInv, FollowInv, Serve PROVE FollowInv'
<1> DEFINE seeded == [d \in Domain |-> IF holder.cfg[d] # None
                                       THEN holder.cfg[d] ELSE rows[d]]
<1>1. /\ UNCHANGED <<holder, disk, task, reloaded>>
      /\ ~reloaded /\ rows = disk /\ phase' = "serving"
  BY DEF Serve, watcher, FollowInv
<1>2. jobs' = seeded
  BY DEF Serve
<1>3. JobsFor(holder.cfg)' = seeded
  BY <1>1 DEF JobsFor
<1> QED
  BY <1>1, <1>2, <1>3 DEF FollowInv, SchedulerFollows

LEMMA FollowInductive == ReloadInv /\ FollowInv /\ [Next]_vars => FollowInv'
<1> SUFFICES ASSUME ReloadInv, FollowInv, [Next]_vars PROVE FollowInv'
  OBVIOUS
<1>0. task \in [Slot -> TaskState]
  BY DEF ReloadInv, TypeOK
<1>1. CASE UNCHANGED vars
  <2>1. UNCHANGED <<phase, holder, jobs, rows, disk, reloaded, task>>
    BY <1>1 DEF vars, process, watcher
  <2>2. SchedulerFollows'
    BY <2>1, FollowKept DEF FollowInv
  <2> QED
    BY <2>1, <2>2 DEF FollowInv
<1>2. CASE Boot
  <2>1. \A s \in Slot : task'[s].pc = "idle"
    BY <1>2 DEF Boot, ReloadInv, WatcherAsleep, watcher
  <2> QED
    BY <1>2, <2>1 DEF Boot, FollowInv, SchedulerFollows
<1>3. CASE Serve
  BY <1>3, FollowServe
<1>4. CASE FailToStart \/ Close \/ Crash
  <2>1. phase' = "down" /\ task' = [s \in Slot |-> IdleTask]
    BY <1>4 DEF FailToStart, Close, Crash, Exit
  <2> QED
    BY <2>1 DEF FollowInv, SchedulerFollows, IdleTask
<1>5. CASE StopObserver \/ CancelPending \/ StopScheduler
  <2>1. /\ phase' \in {"joining", "stopping", "closing"}
        /\ UNCHANGED <<holder, task, reloaded>>
    BY <1>5 DEF StopObserver, CancelPending, StopScheduler, watcher
  <2> QED
    BY <2>1 DEF FollowInv, SchedulerFollows
<1>6. CASE ScheduleReload \/ \E cfg \in Configs \cup {Broken}, n \in 1..MaxEvents : Write(cfg, n)
  <2>1. UNCHANGED <<phase, holder, jobs, rows, disk, reloaded, task>>
    BY <1>6 DEF ScheduleReload, Write, process
  <2>2. SchedulerFollows'
    BY <2>1, FollowKept DEF FollowInv
  <2> QED
    BY <2>1, <2>2 DEF FollowInv
<1>7. ASSUME NEW s \in Slot, NEW o \in BOOLEAN, TimerFires(s, o)
      PROVE  FollowInv'
  <2>1. /\ UNCHANGED <<phase, holder, jobs, rows, disk, reloaded>>
        /\ task'[s].pc = "new" /\ task[s].pc = "idle"
        /\ \A r \in Slot \ {s} : task'[r] = task[r]
    BY <1>0, <1>7 DEF TimerFires, process, TaskState
  <2>2. \A r \in Slot : task'[r].pc # "notify" => task[r].pc # "notify"
    BY <2>1
  <2>3. SchedulerFollows'
    BY <2>1, <2>2, FollowKept DEF FollowInv
  <2> QED
    BY <2>1, <2>3 DEF FollowInv
<1>8. CASE \E s \in Slot : ReloadStep(s)
  BY <1>8, FollowTask
<1> QED
  BY <1>1, <1>2, <1>3, <1>4, <1>5, <1>6, <1>7, <1>8 DEF Next, Shutdown

(* Between the subscriber's calls a serving daemon whose config in force    *)
(* has no bad cron runs exactly the jobs of that config, whatever partial  *)
(* reconciles came before, and until its first reload also those of the    *)
(* rows earlier processes left: the subscriber runs under the lock with    *)
(* the config that is in force.                                            *)
THEOREM JobsFollowConfig == Spec => []SchedulerFollows
<1>1. FollowInv => SchedulerFollows
  BY DEF FollowInv
<1> QED
  BY <1>1, ReloadInit, ReloadInductive, FollowInit, FollowInductive, PTL DEF Spec

(* While the daemon serves, a domain loses its job only when the config in *)
(* force does not list it: not even a reconcile that fails half way leaves *)
(* a listed domain without the job it had.                                 *)
THEOREM ListedKeepTheirJobs == Spec => JobLossMeansUnlisted
<1>1. ReloadInv /\ FollowInv /\ [Next]_vars =>
        [phase = "serving" /\ phase' = "serving" =>
          \A d \in Domain : jobs[d] # None /\ jobs'[d] = None =>
                                holder.cfg[d] = None]_vars
  <2> SUFFICES ASSUME ReloadInv, FollowInv, Next, phase = "serving", phase' = "serving",
                      NEW d \in Domain, jobs[d] # None, jobs'[d] = None
               PROVE  holder.cfg[d] = None
    OBVIOUS
  <2>1. ASSUME NEW s \in Slot, NotifyScheduler(s) PROVE holder.cfg[d] = None
    <3>1. jobs' \in Reconcile(jobs, holder.cfg)
      BY <2>1 DEF NotifyScheduler, FollowInv
    <3> QED
      BY <3>1, ReconcileKeeps
  <2>2. CASE UNCHANGED jobs
    BY <2>2
  <2> QED
    BY <2>1, <2>2 DEF Next, Boot, Serve, FailToStart, Shutdown, StopObserver,
       CancelPending, StopScheduler, Close, Crash, Exit, Write, ScheduleReload,
       ReloadStep, BeginReload, AcquireLock, LoadFile, UpdateHolder, TimerFires,
       process
<1> QED
  BY <1>1, ReloadInit, ReloadInductive, FollowInit, FollowInductive, PTL
     DEF Spec, JobLossMeansUnlisted
============================================================================
