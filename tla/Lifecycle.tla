---------------------------- MODULE Lifecycle ----------------------------
(***************************************************************************)
(* OS processes over one SQLite state_db: daemons (run), one-shot checks   *)
(* (check) and rules commands, each composed from the YAML of its launch.  *)
(*                                                                         *)
(* A process has one AsyncSession.  Its first change opens a transaction,  *)
(* for which SQLite has one write lock; the only commit is the session's   *)
(* aclose, called by DomainWatcher.stop.  `work` is the database as the    *)
(* holder of the lock sees it, `disk` as everybody else does.  A flush     *)
(* that finds the lock taken raises, and leaves a session that refuses     *)
(* every call that follows (nothing but a conflict is answered with        *)
(* session.rollback).                                                      *)
(*                                                                         *)
(* What happens between the awaits of a check is in Watcher, between those *)
(* of a parse in RuleLearning, hot reloads in HotReload; here a check and  *)
(* a parse are what they store.                                            *)
(***************************************************************************)
EXTENDS Config

CONSTANTS
    Proc,
    Kind,          \* the commands that are run: "run", "check", "rules"
    Flag,          \* where a command is told to look: "cli", "env", "default"
    Layouts,       \* place -> file or None: what the operator has written
    Environments,  \* the environment variables a process may be given
    Asked,         \* arguments of check: [name, checker], checker may be None
    Rule,          \* the rules a suggester comes up with
    KillAllowed,
    MaxLaunches,   \* bound: processes launched
    MaxChecks      \* bound: checks by jobs

VARIABLES
    files,     \* one of Layouts; an edit between launches is another place
    disk,      \* the committed database
    work,      \* the database in the open transaction; disk if there is none
    lock,      \* the process whose transaction is open, or None
    proc,      \* proc[p]: what process p is at
    launches, checks

vars == <<files, disk, work, lock, proc, launches, checks>>

Place == {"cli", "env", "cwd", "etc", "xdg"}

ASSUME ProcAssumption == None \notin Proc

(* There are three ways to name a place, and DomainName either raises or   *)
(* returns a normalised name.                                              *)
ASSUME CommandsAssumption ==
    /\ Kind \subseteq {"run", "check", "rules"}
    /\ Flag \subseteq {"cli", "env", "default"}
    /\ \A ask \in Asked : Normalised[ask.name] \in Domain \cup {None}

(* What a YAML parser makes of the three lists are sequences; ids and the  *)
(* names of channels are texts.                                            *)
ASSUME FilesAssumption ==
    \A layout \in Layouts : \A place \in Place :
        LET file == layout[place]
        IN  file # None =>
              /\ {"checkers", "notifiers", "domains"} \subseteq DOMAIN file
              /\ file.checkers  \in Seq(ToSet(file.checkers))
              /\ file.notifiers \in Seq(ToSet(file.notifiers))
              /\ file.domains   \in Seq(ToSet(file.domains))
              /\ \A c \in ToSet(file.checkers) : c.id \in STRING
              /\ \A n \in ToSet(file.notifiers) : "id" \in DOMAIN n /\ n.id \in STRING
              /\ \A d \in ToSet(file.domains) :
                    d.channels \in Seq(STRING) /\ Normalised[d.name] \in Domain \cup {None}

EmptyDb == [rows     |-> [d \in Domain |-> None],
            keys     |-> {},        \* alert_idempotency
            rules    |-> {},        \* learned_rules
            disabled |-> {},        \* those of them that are disabled
            marked   |-> {}]        \* those with a last_revalidated_at

Ended ==
    [pc |-> "ended", kind |-> None, app |-> None, todo |-> <<>>, found |-> None,
     jobs |-> <<>>, sends |-> {}, broken |-> FALSE, ask |-> None]

Init ==
    /\ files \in Layouts
    /\ disk = EmptyDb /\ work = EmptyDb /\ lock = None
    /\ proc = [p \in Proc |-> Ended]
    /\ launches = 0 /\ checks = 0

Seen(p) == IF lock = p THEN work ELSE disk

---------------------------------------------------------------------------
(* SQLite and SQLAlchemy                                                   *)

(* A flush that changes nothing sends nothing.                             *)
Flushes(p, db) ==
    /\ ~proc[p].broken
    /\ db # Seen(p) => lock \in {None, p}
    /\ lock' = IF db # Seen(p) THEN p ELSE lock
    /\ work' = IF db # Seen(p) THEN db ELSE work
    /\ UNCHANGED disk

(* "database is locked", or the error of the session that met it before.   *)
FlushRaises(p, db) ==
    /\ proc[p].broken \/ (db # Seen(p) /\ lock \notin {None, p})
    /\ UNCHANGED <<disk, work, lock>>

(* session.rollback, and what becomes of a transaction whose process ends. *)
Rollback(p) ==
    /\ lock' = IF lock = p THEN None ELSE lock
    /\ work' = IF lock = p THEN disk ELSE work
    /\ UNCHANGED disk

(* _SessionHandle.aclose; the commit of a broken session raises.           *)
Commit(p) ==
    /\ disk' = IF lock = p THEN work ELSE disk
    /\ lock' = IF lock = p THEN None ELSE lock
    /\ UNCHANGED work

Goto(p, r) == proc' = [proc EXCEPT ![p] = r]
Environs   == <<files, launches, checks>>

(* The process ends without having gone through DomainWatcher.stop.        *)
Exit(p) == Rollback(p) /\ Goto(p, Ended) /\ UNCHANGED Environs

---------------------------------------------------------------------------
(* Launch                                                                  *)

(* check_command: the checker asked for, or the first of the registry.     *)
Chosen(app, cfg, ask) ==
    IF ask.checker = None /\ cfg.checkers # <<>> THEN IdAlias(cfg.checkers[1]).id
    ELSE ask.checker

Begin(kind, app, ask) ==
    [Ended EXCEPT !.pc = IF kind = "rules" THEN "rules" ELSE "start",
                          !.kind = kind, !.app = app, !.ask = ask,
                          !.todo = IF kind = "rules" THEN <<>> ELSE app.initial]

(* run_command, check_command and _load_repo up to the event loop.  A file *)
(* or an argument that is refused ends the process where it is.            *)
Launch(p, kind, flag, env) ==
    /\ proc[p].pc = "ended"
    /\ launches < MaxLaunches
    /\ launches' = launches + 1
    /\ LET place == ResolveConfigPath(flag, files)
           cfg   == IF place = None THEN None ELSE LoadConfig(files[place], env)
           app   == IF cfg = None THEN None ELSE ComposeFromConfig(cfg)
       IN  \/ app = None /\ UNCHANGED proc
           \/ app # None /\ kind # "check" /\ Goto(p, Begin(kind, app, None))
           \/ /\ app # None /\ kind = "check"
              /\ \E ask \in Asked :
                    LET name == Normalised[ask.name]
                        c    == Chosen(app, cfg, ask)
                    IN  IF c \in DOMAIN app.checkers /\ name # None
                        THEN Goto(p, Begin(kind, app, [name |-> name, checker |-> c]))
                        ELSE UNCHANGED proc
    /\ UNCHANGED <<files, disk, work, lock, checks>>

---------------------------------------------------------------------------
(* DomainWatcher.start                                                     *)

StartFails_Commits(p) == Commit(p) /\ Goto(p, Ended) /\ UNCHANGED Environs

(* An exception of start: outside the try whose finally stops the watcher. *)
StartFails(p) == Exit(p)

Look(p) ==
    /\ proc[p].pc = "start" /\ proc[p].todo # <<>>
    /\ Goto(p, [proc[p] EXCEPT !.pc = "seed",
                               !.found = Seen(p).rows[Head(proc[p].todo).name]])
    /\ UNCHANGED <<disk, work, lock, Environs>>

(* The row of an initial domain: the file's settings, the last_check found.*)
Seeded(p) ==
    [Head(proc[p].todo) EXCEPT
        !.last = IF proc[p].found = None THEN 0 ELSE proc[p].found.last]

WithRow(db, row) == [db EXCEPT !.rows[row.name] = row]

(* repo.add raises if the row has come into being since repo.get.          *)
Seed(p) ==
    /\ proc[p].pc = "seed"
    /\ LET row == Seeded(p)
           db  == WithRow(Seen(p), row)
       IN  \/ /\ proc[p].found # None \/ Seen(p).rows[row.name] = None
              /\ Flushes(p, db)
              /\ Goto(p, [proc[p] EXCEPT !.pc = "start", !.todo = Tail(@),
                                         !.found = None])
              /\ UNCHANGED Environs
           \/ /\ \/ proc[p].found = None /\ Seen(p).rows[row.name] # None
                 \/ lock \notin {None, p} /\ db # Seen(p)
              /\ StartFails(p)

(* ApsScheduler.start: a job per row, whatever file the row came from; one *)
(* cron that does not parse fails the start.  Start hooks may fail.        *)
Bootstrap(p) ==
    /\ proc[p].pc = "start" /\ proc[p].todo = <<>>
    /\ LET listed == {d \in Domain : Seen(p).rows[d] # None}
       IN  IF \A d \in listed : Seen(p).rows[d].cron \in FiringCrons
           THEN /\ Goto(p, [proc[p] EXCEPT
                              !.pc = IF proc[p].kind = "run" THEN "up" ELSE "ensure",
                              !.jobs = [d \in listed |-> Seen(p).rows[d].cron]])
                /\ UNCHANGED <<disk, work, lock, Environs>>
           ELSE StartFails(p)

---------------------------------------------------------------------------
(* A started watcher: jobs and the one-shot check                          *)

Serving == {"up", "ensure", "check", "deliver"}

(* DomainWatcher.stop, whose hooks are still to run.                       *)
Closing(r) ==
    [r EXCEPT !.pc = "closing", !.todo = r.app.hooks,
              !.jobs = <<>>, !.sends = {}]

Broken(r) == [r EXCEPT !.broken = TRUE]

(* repo.update of a check's result: last_check moves on.                   *)
Checked(row) == [row EXCEPT !.last = @ + 1]

CanCheck(p, d) ==
    LET row == Seen(p).rows[d]
    IN  ~proc[p].broken /\ row # None /\ row.checker \in DOMAIN proc[p].app.checkers

(* dispatch: a _deliver task per channel, a channel listed twice included. *)
Sends(row, by) ==
    {[name |-> row.name, index |-> i, channel |-> row.channels[i], by |-> by] :
        i \in DOMAIN row.channels}

Resolved(p, row) == ToSet(row.channels) \subseteq proc[p].app.channels

(* The job of a domain; its exceptions are logged and no more.             *)
Job(p, d) ==
    /\ proc[p].pc \in Serving /\ d \in DOMAIN proc[p].jobs /\ CanCheck(p, d)
    /\ checks < MaxChecks
    /\ checks' = checks + 1
    /\ LET row == Seen(p).rows[d]
           db  == WithRow(Seen(p), Checked(row))
       IN  \/ /\ Flushes(p, db)
              /\ \E alerts \in SUBSET (IF Resolved(p, row) THEN {"alert"} ELSE {}) :
                    Goto(p, IF alerts = {} THEN proc[p]
                            ELSE [proc[p] EXCEPT !.sends = @ \cup Sends(row, "job")])
           \/ FlushRaises(p, db) /\ Goto(p, Broken(proc[p]))
    /\ UNCHANGED <<files, launches>>

(* A _deliver task: already fired or undeliverable; recorded; or in        *)
(* conflict with a record made since it asked, which rolls back.           *)
Deliver(p, x) ==
    /\ x \in proc[p].sends
    /\ LET db   == [Seen(p) EXCEPT !.keys = @ \cup {<<x.name, x.channel>>}]
           done == [proc[p] EXCEPT !.sends = @ \ {x}]
       IN  \/ Goto(p, done) /\ UNCHANGED <<disk, work, lock>>
           \/ db # Seen(p) /\ Flushes(p, db) /\ Goto(p, done)
           \/ /\ ~proc[p].broken /\ lock \in {None, p} /\ db = Seen(p)
              /\ Rollback(p) /\ Goto(p, done)
           \/ /\ proc[p].broken \/ lock \notin {None, p}
              /\ Goto(p, Broken(done)) /\ UNCHANGED <<disk, work, lock>>
    /\ UNCHANGED Environs

(* learned_rules.add in a parse; a rule that is there, disabled or learned *)
(* by a racing parse, is a conflict.                                       *)
Learn(p, r) ==
    /\ proc[p].pc \in Serving /\ proc[p].app.learns
    /\ LET db == [Seen(p) EXCEPT !.rules = @ \cup {r}]
       IN  \/ r \notin Seen(p).rules /\ Flushes(p, db) /\ Goto(p, proc[p])
           \/ /\ ~proc[p].broken /\ lock \in {None, p} /\ r \in Seen(p).rules
              /\ Rollback(p) /\ Goto(p, proc[p])
           \/ /\ proc[p].broken \/ lock \notin {None, p}
              /\ Goto(p, Broken(proc[p])) /\ UNCHANGED <<disk, work, lock>>
    /\ UNCHANGED Environs

(* SIGTERM or SIGINT to a daemon.                                          *)
Signal(p) ==
    /\ proc[p].pc = "up"
    /\ Goto(p, Closing(proc[p]))
    /\ UNCHANGED <<disk, work, lock, Environs>>

(* check: ensure_watching, with the defaults of the code and the first     *)
(* notifier, unless the row has the chosen checker.                        *)
EnsuredRow(p) ==
    LET ask == proc[p].ask
        old == Seen(p).rows[ask.name]
    IN  [name |-> ask.name, cron |-> DefaultCron, checker |-> ask.checker,
         channels |-> <<CHOOSE id \in DOMAIN proc[p].app.notifiers : TRUE>>,
         last |-> IF old = None THEN 0 ELSE old.last]

Ensure(p) ==
    /\ proc[p].pc = "ensure"
    /\ LET ask     == proc[p].ask
           row     == Seen(p).rows[ask.name]
           watched == row # None /\ row.checker = ask.checker
           none    == DOMAIN proc[p].app.notifiers = {}
           db      == WithRow(Seen(p), EnsuredRow(p))
       IN  \/ /\ proc[p].broken \/ (~watched /\ none)
              /\ Goto(p, Closing(proc[p])) /\ UNCHANGED <<disk, work, lock>>
           \/ /\ ~proc[p].broken /\ watched
              /\ Goto(p, [proc[p] EXCEPT !.pc = "check"])
              /\ UNCHANGED <<disk, work, lock>>
           \/ /\ ~proc[p].broken /\ ~watched /\ ~none
              /\ \/ /\ Flushes(p, db)
                    /\ Goto(p, [proc[p] EXCEPT !.pc = "check",
                                  !.jobs = (ask.name :> DefaultCron) @@ @])
                 \/ FlushRaises(p, db) /\ Goto(p, Closing(Broken(proc[p])))
    /\ UNCHANGED Environs

(* check: check_now, with or without alerts; an exception stops the watcher.*)
CheckNow(p) ==
    /\ proc[p].pc = "check"
    /\ LET d   == proc[p].ask.name
           row == Seen(p).rows[d]
           db  == WithRow(Seen(p), Checked(row))
       IN  IF ~CanCheck(p, d)
           THEN Goto(p, Closing(proc[p])) /\ UNCHANGED <<disk, work, lock>>
           ELSE \/ /\ Flushes(p, db)
                   /\ \/ Goto(p, [proc[p] EXCEPT !.pc = "deliver"])
                      \/ IF Resolved(p, row)
                         THEN Goto(p, [proc[p] EXCEPT
                                !.pc = "deliver",
                                !.sends = @ \cup Sends(row, "call")])
                         ELSE Goto(p, Closing(proc[p]))
                \/ FlushRaises(p, db) /\ Goto(p, Closing(Broken(proc[p])))
    /\ UNCHANGED Environs

Gathered(p) ==
    /\ proc[p].pc = "deliver"
    /\ \A x \in proc[p].sends : x.by # "call"
    /\ Goto(p, Closing(proc[p]))
    /\ UNCHANGED <<disk, work, lock, Environs>>

CloseHook_Raises(p) ==
    /\ proc[p].pc = "closing" /\ proc[p].todo # <<>>
    /\ IF Head(proc[p].todo) = "session" THEN Commit(p)
       ELSE UNCHANGED <<disk, work, lock>>
    /\ \E rest \in {Tail(proc[p].todo), <<>>} :
          Goto(p, [proc[p] EXCEPT !.todo = rest])
    /\ UNCHANGED Environs

(* The aclose hooks in turn; what one of them raises is logged.            *)
CloseHook(p) ==
    /\ proc[p].pc = "closing" /\ proc[p].todo # <<>>
    /\ IF Head(proc[p].todo) = "session" THEN Commit(p)
       ELSE UNCHANGED <<disk, work, lock>>
    /\ Goto(p, [proc[p] EXCEPT !.todo = Tail(@)])
    /\ UNCHANGED Environs

Stopped(p) ==
    /\ proc[p].pc = "closing" /\ proc[p].todo = <<>>
    /\ Exit(p)

---------------------------------------------------------------------------
(* rules disable, delete, learned --purge-auto and revalidate; none of them*)
(* starts or stops the watcher it has composed.                            *)

Picked(p, how, rules) ==
    /\ Goto(p, [proc[p] EXCEPT !.pc = how, !.todo = rules])
    /\ UNCHANGED <<disk, work, lock, Environs>>

Pick_Unchecked(p) ==
    /\ proc[p].pc = "rules"
    /\ \E r \in Rule : Picked(p, "disable", <<r>>)

(* The rule with the id given, if there is one, or all of them; revalidate *)
(* takes active ones only, and maybe none but those of an old pipeline.    *)
Pick(p) ==
    /\ proc[p].pc = "rules"
    /\ \E how \in {"disable", "mark"} :
          LET there == IF how = "mark" THEN Seen(p).rules \ Seen(p).disabled
                       ELSE Seen(p).rules
          IN  \/ \E r \in Rule : IF r \in there THEN Picked(p, how, <<r>>) ELSE Exit(p)
              \/ \E some \in IF how = "mark" THEN SUBSET there ELSE {there} :
                    Picked(p, how, SetToSeq(some))

(* disable() or mark_revalidated() of each in turn, and the process ends.  *)
Mutate(p) ==
    /\ proc[p].pc \in {"disable", "mark"}
    /\ IF proc[p].todo = <<>> THEN Exit(p)
       ELSE LET r  == Head(proc[p].todo)
                db == IF proc[p].pc = "mark" THEN [Seen(p) EXCEPT !.marked = @ \cup {r}]
                      ELSE [Seen(p) EXCEPT !.disabled = @ \cup {r}]
            IN  \/ /\ Flushes(p, db)
                   /\ Goto(p, [proc[p] EXCEPT !.todo = Tail(@)])
                   /\ UNCHANGED Environs
                \/ lock \notin {None, p} /\ db # Seen(p) /\ Exit(p)

---------------------------------------------------------------------------
(* The process is killed; SQLite undoes its transaction.                   *)
Kill(p) ==
    /\ KillAllowed
    /\ proc[p].pc # "ended"
    /\ Exit(p)

Start(p)   == Look(p) \/ Seed(p) \/ Bootstrap(p)
Checking(p) ==
    \/ Ensure(p) \/ CheckNow(p) \/ Gathered(p)
    \/ \E d \in Domain : Job(p, d)
    \/ \E r \in Rule : Learn(p, r)
    \/ \E x \in proc[p].sends : Deliver(p, x)
Stop(p)    == Signal(p) \/ CloseHook(p) \/ Stopped(p)

Next ==
    \E p \in Proc :
        \/ \E kind \in Kind, flag \in Flag, env \in Environments :
              Launch(p, kind, flag, env)
        \/ Start(p) \/ Checking(p) \/ Stop(p)
        \/ Pick(p) \/ Mutate(p)
        \/ Kill(p)

Spec == Init /\ [][Next]_vars

---------------------------------------------------------------------------
(* Properties                                                              *)

Pcs == {"ended", "start", "seed", "ensure", "check", "deliver", "up", "closing",
        "rules", "disable", "mark"}

RowType == [name : Domain, cron : LegibleCrons \cup {DefaultCron},
            checker : STRING, channels : Seq(STRING), last : Nat]

ASSUME RowAssumption == None \notin RowType

DbType(db) ==
    /\ DOMAIN db.rows = Domain
    /\ \A d \in Domain : db.rows[d] # None => db.rows[d] \in RowType /\ db.rows[d].name = d
    /\ db.keys \subseteq Domain \X STRING
    /\ db.disabled \subseteq db.rules /\ db.marked \subseteq db.rules
    /\ db.rules \subseteq Rule

(* Type invariant: rows are filed under their normalised name with a cron  *)
(* the schema let through, rules are disabled only where they exist, and   *)
(* the transaction that is open belongs to a process that is running.      *)
TypeOK ==
    /\ DbType(disk) /\ DbType(work)
    /\ lock \in Proc \cup {None}
    /\ \A p \in Proc : proc[p].pc \in Pcs /\ proc[p].broken \in BOOLEAN
    /\ lock # None => proc[lock].pc # "ended"

(* No committed row has a cron that ApsScheduler.start chokes on: whatever *)
(* file was tried and failed, the next daemon can start.  (A start that    *)
(* fails is not followed by the stop that commits.)                        *)
NoPoisonRow ==
    \A d \in Domain : disk.rows[d] # None => disk.rows[d].cron \in FiringCrons

(* A start fails only for a cron in the file of that very start, or        *)
(* because of another process that is writing, or wrote the same new row   *)
(* meanwhile.                                                              *)
StartBlame ==
    [][\A p \in Proc :
          proc[p].pc \in {"start", "seed"} /\ proc'[p].pc = "ended"
          /\ ~Kill(p) =>
              \/ \E i \in DOMAIN proc[p].app.initial :
                    proc[p].app.initial[i].cron \notin FiringCrons
              \/ lock \notin {None, p}
              \/ /\ proc[p].pc = "seed" /\ proc[p].found = None
                 /\ Seen(p).rows[Head(proc[p].todo).name] # None]_vars

(* When start returns, every domain of the file has a row and a job, the   *)
(* id of its checker leads to an adapter, and each of its channels leads   *)
(* through the resolver to a registered notifier.                          *)
StartServes ==
    [][\A p \in Proc :
          proc[p].pc = "start" /\ proc'[p].pc \in Serving =>
              \A i \in DOMAIN proc[p].app.initial :
                  LET d == proc[p].app.initial[i]
                  IN  /\ Seen(p).rows[d.name] # None
                      /\ d.name \in DOMAIN proc'[p].jobs
                      /\ d.checker \in DOMAIN proc[p].app.checkers
                      /\ \A ch \in ToSet(d.channels) :
                            /\ ch \in proc[p].app.channels
                            /\ ch \in DOMAIN proc[p].app.notifiers]_vars

(* A stop leaves nothing behind: whichever hooks raise, when the last has  *)
(* had its turn the process has no transaction any more, and what was in   *)
(* it has been committed, not rolled back.                                 *)
StopSaves ==
    [][\A p \in Proc :
          proc[p].pc = "closing" /\ proc'[p].pc = "closing" =>
              /\ lock = p /\ lock' # p => disk' = work
              /\ proc'[p].todo = <<>> => lock' # p]_vars

(* composition.py: "operations are autocommitted at the engine level".  So *)
(* what a process has stored is not taken back: a transaction ends by      *)
(* going to disk.                                                          *)
StoredStays == [][lock # None /\ lock' = None => disk' = work]_vars
============================================================================
