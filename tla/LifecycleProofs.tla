-------------------------- MODULE LifecycleProofs --------------------------
(***************************************************************************)
(* Proofs about Lifecycle, for any number of processes, any files and      *)
(* environments and any mix of commands.  The invariant follows a cron the *)
(* scheduler refuses: it may be in the open transaction of a process that  *)
(* is still starting, whose own file it then comes from, and nowhere else. *)
(* A second one, further down, follows what a process counts on.           *)
(***************************************************************************)
EXTENDS Lifecycle, SequenceTheorems, FiniteSetTheorems, TLAPS

Fields == {"pc", "kind", "app", "todo", "found", "jobs", "sends", "broken", "ask"}

Hook == {"client", "session", "metrics"}

Starting == {"start", "seed"}

(* The domains compose_from_config hands to the watcher.                   *)
Initial(s) == s \in Seq(ToSet(s)) /\ \A i \in DOMAIN s : "cron" \in DOMAIN s[i]

(* The hooks it hands to the watcher, the one that commits among them.     *)
Hooked(s) == s \in Seq(Hook) /\ "session" \in ToSet(s)

ProcOk(r) ==
    /\ DOMAIN r = Fields
    /\ r.pc \in Starting =>
          Initial(r.app.initial) /\ r.todo \in Seq(ToSet(r.app.initial))
    /\ r.pc = "seed" => r.todo # <<>>
    /\ r.pc \in Starting \cup Serving => Hooked(r.app.hooks)
    /\ r.pc = "closing" => r.todo \in Seq(Hook) /\ r.sends = {}
    /\ r.pc \in {"ensure", "check"} \/ (r.pc \in Starting /\ r.kind # "run") =>
          r.ask.name \in Domain

ProcInv == DOMAIN proc = Proc /\ \A p \in Proc : ProcOk(proc[p])

(* The crons a process may have brought along that nobody has tried yet.   *)
Untried(r) ==
    IF r.pc \in Starting
    THEN {r.app.initial[i].cron : i \in DOMAIN r.app.initial} ELSE {}

Shaped(db) == "rows" \in DOMAIN db /\ DOMAIN db.rows = Domain

(* Every cron fires, or is one of those.                                   *)
Held(db, crons) ==
    \A d \in Domain :
        db.rows[d] # None =>
            "cron" \in DOMAIN db.rows[d] /\ db.rows[d].cron \in FiringCrons \cup crons

(* What is true of a process whose transaction is open.                    *)
Holds(r, db) ==
    Held(db, Untried(r)) /\ (r.pc = "closing" => "session" \in ToSet(r.todo))

StoreInv ==
    /\ Shaped(disk) /\ Shaped(work)
    /\ Held(disk, {})
    /\ lock = None => work = disk
    /\ \A p \in Proc : lock = p => Holds(proc[p], work)

LifeInv == files \in Layouts /\ ProcInv /\ StoreInv

---------------------------------------------------------------------------
(* What comes out of Config.                                               *)

(* A place that resolve_config_path finds is one of the five.              *)
LEMMA PlaceFound ==
    ASSUME NEW flag \in Flag, NEW layout, ResolveConfigPath(flag, layout) # None
    PROVE  ResolveConfigPath(flag, layout) \in Place
<1> DEFINE sought == Sought(flag)
           found == {i \in DOMAIN sought : layout[sought[i]] # None}
<1>1. flag \in {"cli", "env", "default"}
  BY CommandsAssumption
<1>2. DOMAIN sought \subseteq 1..3 /\ \A i \in DOMAIN sought : sought[i] \in Place
  BY <1>1 DEF Sought, Place
<1>3. found # {}
  BY DEF ResolveConfigPath
<1>4. PICK i \in found : \A j \in found : i <= j
  <2>1. found \subseteq 1..3
    BY <1>2
  <2> QED
    BY <1>3, <2>1
<1>5. (CHOOSE k \in found : \A j \in found : k <= j) \in found
  BY <1>4
<1>6. ResolveConfigPath(flag, layout) = sought[CHOOSE k \in found : \A j \in found : k <= j]
  BY <1>3 DEF ResolveConfigPath
<1> QED
  BY <1>2, <1>5, <1>6

(* The initial domains are a sequence of rows with a cron.                 *)
LEMMA InitialRows ==
    ASSUME NEW S, NEW ds \in Seq(S)
    PROVE  Initial([i \in DOMAIN ds |-> BuildDomain(ds[i])])
<1> DEFINE rows == [i \in DOMAIN ds |-> BuildDomain(ds[i])]
<1>1. DOMAIN rows = 1..Len(ds) /\ Len(ds) \in Nat
  BY LenProperties
<1>2. \A i \in DOMAIN rows : rows[i] \in ToSet(rows)
  BY DEF ToSet
<1>3. rows \in Seq(ToSet(rows))
  BY <1>1, <1>2, IsASeq
<1>4. \A i \in DOMAIN rows : "cron" \in DOMAIN rows[i]
  BY DEF BuildDomain
<1> QED
  BY <1>3, <1>4 DEF Initial

(* The session is among the hooks, wherever the others are.                *)
LEMMA HooksCommit ==
    ASSUME NEW cfg, NEW C, NEW N, cfg.checkers \in Seq(C), cfg.notifiers \in Seq(N)
    PROVE  Hooked(AcloseHooks(cfg))
<1> DEFINE clients(entries, types) ==
      [i \in 1..Cardinality({j \in DOMAIN entries : entries[j].type \in types}) |-> "client"]
<1>1. ASSUME NEW S, NEW es \in Seq(S), NEW types PROVE clients(es, types) \in Seq(Hook)
  <2> DEFINE J == {j \in DOMAIN es : es[j].type \in types}
  <2>1. DOMAIN es = 1..Len(es) /\ Len(es) \in Nat
    BY LenProperties
  <2>2. IsFiniteSet(J)
    <3>1. IsFiniteSet(1..Len(es))
      BY <2>1, FS_Interval
    <3>2. J \subseteq 1..Len(es)
      BY <2>1
    <3> QED
      BY <3>1, <3>2, FS_Subset
  <2>3. Cardinality(J) \in Nat
    BY <2>2, FS_CardinalityType
  <2>4. clients(es, types) \in [1..Cardinality(J) -> Hook]
    BY DEF Hook
  <2> QED
    BY <2>3, <2>4, IsASeq
<1>2. <<"session">> \in Seq(Hook) /\ <<"metrics">> \in Seq(Hook) /\ <<>> \in Seq(Hook)
  BY DEF Hook
<1> DEFINE a == clients(cfg.checkers, {"rdap"})
           b == clients(cfg.notifiers, {"telegram", "discord", "webhook"})
           m == IF cfg.metrics THEN <<"metrics">> ELSE <<>>
<1>3. a \in Seq(Hook) /\ b \in Seq(Hook) /\ m \in Seq(Hook)
  BY <1>1, <1>2
<1> HIDE DEF a, b, m
<1>4. a \o b \in Seq(Hook) /\ Len(a \o b) \in Nat
  BY <1>3, ConcatProperties, LenProperties
<1> DEFINE ab == a \o b
           s == ab \o <<"session">>
<1>5. s \in Seq(Hook) /\ Len(s) = Len(ab) + 1 /\ s[Len(s)] = "session"
  <2> HIDE DEF ab
  <2>1. ab \in Seq(Hook) /\ Len(ab) \in Nat
    BY <1>4 DEF ab
  <2> QED
    BY <2>1, <1>2, ConcatProperties
<1>6. /\ s \o m \in Seq(Hook)
      /\ Len(s) \in 1..Len(s \o m) /\ (s \o m)[Len(s)] = "session"
  <2> HIDE DEF s
  <2>1. Len(s) \in Nat /\ Len(s) >= 1 /\ Len(m) \in Nat
    <3>1. Len(s) = Len(ab) + 1 /\ Len(ab) \in Nat /\ Len(m) \in Nat
      BY <1>3, <1>4, <1>5, LenProperties
    <3> QED
      BY <3>1
  <2> QED
    BY <1>3, <1>5, <2>1, ConcatProperties
<1>7. "session" \in ToSet(s \o m)
  BY <1>6, LenProperties DEF ToSet
<1>8. AcloseHooks(cfg) = s \o m
  BY DEF AcloseHooks, a, b, m
<1> QED
  BY <1>6, <1>7, <1>8 DEF Hooked

(* What compose_from_config returns for a file that loads.                 *)
LEMMA AppShape ==
    ASSUME files \in Layouts, NEW flag \in Flag, NEW env,
           LET place == ResolveConfigPath(flag, files)
           IN  place # None /\ LoadConfig(files[place], env) # None
               /\ ComposeFromConfig(LoadConfig(files[place], env)) # None
    PROVE  LET app == ComposeFromConfig(LoadConfig(files[ResolveConfigPath(flag, files)], env))
           IN  Initial(app.initial) /\ Hooked(app.hooks)
<1> DEFINE place == ResolveConfigPath(flag, files)
           file == files[place]
           cfg == LoadConfig(file, env)
           app == ComposeFromConfig(cfg)
<1>1. place \in Place
  BY PlaceFound
<1>2. file # None /\ cfg = InterpolateEnv(file, env)
  BY DEF LoadConfig
<1>3. /\ {"checkers", "notifiers", "domains"} \subseteq DOMAIN file
      /\ file.checkers  \in Seq(ToSet(file.checkers))
      /\ file.notifiers \in Seq(ToSet(file.notifiers))
      /\ file.domains   \in Seq(ToSet(file.domains))
  BY <1>1, <1>2, FilesAssumption
<1>4. cfg.checkers = file.checkers /\ cfg.domains = file.domains
  BY <1>2, <1>3 DEF InterpolateEnv
<1>5. \E N : cfg.notifiers \in Seq(N)
  <2> DEFINE ns == file.notifiers
             change(i) == [ns[i] EXCEPT !.settings =
                             [k \in DOMAIN ns[i].settings |->
                                 Interpolated(ns[i].settings[k], env)]]
             new == [i \in DOMAIN ns |-> change(i)]
  <2>1. cfg.notifiers = new
    BY <1>2, <1>3 DEF InterpolateEnv
  <2> HIDE DEF change
  <2>2. DOMAIN ns = 1..Len(ns) /\ Len(ns) \in Nat
    BY <1>3, LenProperties
  <2>3. new \in [1..Len(ns) -> {change(i) : i \in DOMAIN ns}]
    BY <2>2
  <2>4. new \in Seq({change(i) : i \in DOMAIN ns})
    BY <2>2, <2>3, IsASeq
  <2> QED
    BY <2>1, <2>4
<1>6. app.initial = [i \in DOMAIN cfg.domains |-> BuildDomain(cfg.domains[i])]
      /\ app.hooks = AcloseHooks(cfg)
  BY DEF ComposeFromConfig
<1>7. Initial(app.initial)
  BY <1>3, <1>4, <1>6, InitialRows
<1>8. Hooked(app.hooks)
  BY <1>3, <1>4, <1>5, <1>6, HooksCommit
<1> QED
  BY <1>7, <1>8

---------------------------------------------------------------------------
(* What a step does to the store.                                          *)

LEMMA HeldMore ==
    ASSUME NEW db, NEW X, NEW Y, X \subseteq Y, Held(db, X)
    PROVE  Held(db, Y)
BY DEF Held

(* The database as a process sees it.                                      *)
LEMMA SeenHeld ==
    ASSUME StoreInv, NEW p \in Proc
    PROVE  Shaped(Seen(p)) /\ Held(Seen(p), Untried(proc[p]))
<1>1. CASE lock = p
  BY <1>1 DEF StoreInv, Seen, Holds
<1>2. CASE lock # p
  BY <1>2, HeldMore DEF StoreInv, Seen
<1> QED
  BY <1>1, <1>2

(* Filing a row under its name.                                            *)
LEMMA WithRowHeld ==
    ASSUME NEW db, NEW crons, NEW row, Shaped(db), Held(db, crons),
           "cron" \in DOMAIN row, row.cron \in FiringCrons \cup crons
    PROVE  Shaped(WithRow(db, row)) /\ Held(WithRow(db, row), crons)
BY DEF Shaped, Held, WithRow

(* A step moves one process.                                               *)
LEMMA Moves ==
    ASSUME ProcInv, NEW p \in Proc, NEW r, Goto(p, r)
    PROVE  /\ proc'[p] = r
           /\ \A q \in Proc : q # p => proc'[q] = proc[q]
           /\ ProcOk(r) => ProcInv'
BY DEF ProcInv, ProcOk, Goto

LEMMA FlushStore ==
    ASSUME ProcInv, StoreInv, NEW p \in Proc, NEW r, NEW db, Goto(p, r), Flushes(p, db),
           Shaped(db), Holds(r, db)
    PROVE  StoreInv'
<1>1. proc'[p] = r /\ \A q \in Proc : q # p => proc'[q] = proc[q]
  BY Moves
<1>2. CASE db # Seen(p)
  <2>1. lock' = p /\ work' = db /\ disk' = disk
    BY <1>2 DEF Flushes
  <2>2. p # None
    BY ProcAssumption
  <2> QED
    BY <1>1, <2>1, <2>2 DEF StoreInv
<1>3. CASE db = Seen(p)
  <2>1. lock' = lock /\ work' = work /\ disk' = disk
    BY <1>3 DEF Flushes
  <2>2. lock = p => db = work
    BY <1>3 DEF Seen
  <2> QED
    BY <1>1, <2>1, <2>2 DEF StoreInv
<1> QED
  BY <1>2, <1>3

LEMMA RollbackStore ==
    ASSUME ProcInv, StoreInv, NEW p \in Proc, NEW r, Goto(p, r), Rollback(p)
    PROVE  StoreInv'
<1>1. proc'[p] = r /\ \A q \in Proc : q # p => proc'[q] = proc[q]
  BY Moves
<1>2. p # None
  BY ProcAssumption
<1>3. CASE lock = p
  <2>1. lock' = None /\ work' = disk /\ disk' = disk
    BY <1>3 DEF Rollback
  <2> QED
    BY <2>1, ProcAssumption DEF StoreInv
<1>4. CASE lock # p
  <2>1. lock' = lock /\ work' = work /\ disk' = disk
    BY <1>4 DEF Rollback
  <2> QED
    BY <1>1, <1>4, <2>1 DEF StoreInv
<1> QED
  BY <1>3, <1>4

LEMMA CommitStore ==
    ASSUME ProcInv, StoreInv, NEW p \in Proc, NEW r, Goto(p, r), Commit(p),
           proc[p].pc = "closing"
    PROVE  StoreInv'
<1>1. proc'[p] = r /\ \A q \in Proc : q # p => proc'[q] = proc[q]
  BY Moves
<1>2. CASE lock = p
  <2>1. lock' = None /\ work' = work /\ disk' = work
    BY <1>2 DEF Commit
  <2>2. Held(work, {})
    BY <1>2 DEF StoreInv, Holds, Untried, Starting
  <2> QED
    BY <2>1, <2>2, ProcAssumption DEF StoreInv
<1>3. CASE lock # p
  <2>1. lock' = lock /\ work' = work /\ disk' = disk
    BY <1>3 DEF Commit
  <2> QED
    BY <1>1, <1>3, <2>1 DEF StoreInv
<1> QED
  BY <1>2, <1>3

LEMMA SameStore ==
    ASSUME ProcInv, StoreInv, NEW p \in Proc, NEW r, Goto(p, r),
           UNCHANGED <<disk, work, lock>>, lock = p => Holds(r, work)
    PROVE  StoreInv'
<1>1. proc'[p] = r /\ \A q \in Proc : q # p => proc'[q] = proc[q]
  BY Moves
<1> QED
  BY <1>1 DEF StoreInv

(* The end of a process that did not commit.                               *)
LEMMA ExitOk ==
    ASSUME LifeInv, NEW p \in Proc, Exit(p)
    PROVE  LifeInv'
<1>1. ProcOk(Ended)
  BY DEF ProcOk, Ended, Fields, Starting, Serving
<1>2. Goto(p, Ended) /\ Rollback(p) /\ files' = files
  BY DEF Exit, Environs
<1>3. ProcInv'
  BY <1>1, <1>2, Moves DEF LifeInv
<1>4. StoreInv'
  BY <1>2, RollbackStore DEF LifeInv
<1> QED
  BY <1>2, <1>3, <1>4 DEF LifeInv

---------------------------------------------------------------------------
(* The actions.                                                            *)

LEMMA LifeInit == Init => LifeInv
<1> SUFFICES ASSUME Init PROVE LifeInv
  OBVIOUS
<1>1. ProcOk(Ended) /\ "session" \notin {Ended.pc} /\ Untried(Ended) = {}
  BY DEF ProcOk, Ended, Fields, Starting, Serving, Untried
<1>2. ProcInv
  BY <1>1 DEF Init, ProcInv
<1>3. Shaped(EmptyDb) /\ Held(EmptyDb, {})
  BY DEF Shaped, Held, EmptyDb
<1>4. StoreInv
  BY <1>3, ProcAssumption DEF Init, StoreInv
<1> QED
  BY <1>2, <1>4 DEF Init, LifeInv

LEMMA LaunchOk ==
    ASSUME LifeInv, NEW p \in Proc, NEW kind \in Kind, NEW flag \in Flag, NEW env,
           Launch(p, kind, flag, env)
    PROVE  LifeInv'
<1> DEFINE place == ResolveConfigPath(flag, files)
           cfg == IF place = None THEN None ELSE LoadConfig(files[place], env)
           app == IF cfg = None THEN None ELSE ComposeFromConfig(cfg)
<1>1. files' = files /\ UNCHANGED <<disk, work, lock>> /\ proc[p].pc = "ended"
  BY DEF Launch
<1>2. CASE UNCHANGED proc
  BY <1>1, <1>2 DEF LifeInv, ProcInv, StoreInv
<1>3. ASSUME NEW ask, app # None, Goto(p, Begin(kind, app, ask)),
             kind = "check" => ask.name \in Domain
      PROVE  LifeInv'
  <2> DEFINE r == Begin(kind, app, ask)
  <2>1. Initial(app.initial) /\ Hooked(app.hooks)
    BY <1>3, AppShape DEF LifeInv
  <2> HIDE DEF app
  <2>2. /\ DOMAIN r = Fields /\ r.kind = kind /\ r.app = app /\ r.ask = ask
        /\ r.pc = IF kind = "rules" THEN "rules" ELSE "start"
        /\ r.todo = IF kind = "rules" THEN <<>> ELSE app.initial
    BY DEF Begin, Ended, Fields
  <2>3. ProcOk(r)
    BY <2>1, <2>2, <1>3, CommandsAssumption DEF ProcOk, Starting, Serving, Initial
  <2>4. lock = p => Holds(r, work)
    <3>1. lock = p => Held(work, {})
      BY <1>1 DEF LifeInv, StoreInv, Holds, Untried, Starting
    <3> QED
      BY <3>1, <2>2, HeldMore DEF Holds
  <2>5. ProcInv' /\ StoreInv'
    BY <1>1, <1>3, <2>3, <2>4, Moves, SameStore DEF LifeInv
  <2> QED
    BY <1>1, <2>5 DEF LifeInv
<1>4. \/ UNCHANGED proc
      \/ app # None /\ kind # "check" /\ Goto(p, Begin(kind, app, None))
      \/ /\ app # None
         /\ \E ask \in Asked : \E c : Normalised[ask.name] # None
               /\ Goto(p, Begin(kind, app, [name |-> Normalised[ask.name], checker |-> c]))
  BY DEF Launch
<1>5. \A ask \in Asked : \A c : Normalised[ask.name] # None =>
          [name |-> Normalised[ask.name], checker |-> c].name \in Domain
  BY CommandsAssumption
<1> HIDE DEF app
<1> QED
  BY <1>2, <1>3, <1>4, <1>5

(* Sub-steps of start.                                                     *)
LEMMA LookOk ==
    ASSUME LifeInv, NEW p \in Proc, Look(p)
    PROVE  LifeInv'
<1> DEFINE r == [proc[p] EXCEPT !.pc = "seed",
                                !.found = Seen(p).rows[Head(proc[p].todo).name]]
<1>1. Goto(p, r) /\ UNCHANGED <<disk, work, lock>> /\ files' = files
      /\ proc[p].pc = "start" /\ proc[p].todo # <<>>
  BY DEF Look, Environs
<1>2. ProcOk(proc[p])
  BY DEF LifeInv, ProcInv
<1>3. /\ DOMAIN r = Fields /\ r.pc = "seed" /\ r.todo = proc[p].todo
      /\ r.app = proc[p].app /\ r.kind = proc[p].kind /\ r.ask = proc[p].ask
  BY <1>2 DEF ProcOk, Fields
<1>4. ProcOk(r)
  BY <1>1, <1>2, <1>3 DEF ProcOk, Starting, Serving
<1>5. lock = p => Holds(r, work)
  BY <1>1, <1>3 DEF LifeInv, StoreInv, Holds, Untried, Starting
<1>6. ProcInv' /\ StoreInv'
  BY <1>1, <1>4, <1>5, Moves, SameStore DEF LifeInv
<1> QED
  BY <1>1, <1>6 DEF LifeInv

(* The row of the next initial domain has one of the process's crons.      *)
LEMMA SeededRow ==
    ASSUME NEW p \in Proc, ProcOk(proc[p]), proc[p].pc = "seed"
    PROVE  /\ "cron" \in DOMAIN Seeded(p) /\ Seeded(p).cron \in Untried(proc[p])
           /\ Tail(proc[p].todo) \in Seq(ToSet(proc[p].app.initial))
<1>1. /\ Initial(proc[p].app.initial)
      /\ proc[p].todo \in Seq(ToSet(proc[p].app.initial)) /\ proc[p].todo # <<>>
  BY DEF ProcOk, Starting
<1>2. Head(proc[p].todo) \in ToSet(proc[p].app.initial)
      /\ Tail(proc[p].todo) \in Seq(ToSet(proc[p].app.initial))
  BY <1>1, HeadTailProperties
<1>3. PICK i \in DOMAIN proc[p].app.initial : Head(proc[p].todo) = proc[p].app.initial[i]
  BY <1>2 DEF ToSet
<1>4. "cron" \in DOMAIN Head(proc[p].todo)
  BY <1>1, <1>3 DEF Initial
<1>5. DOMAIN Seeded(p) = DOMAIN Head(proc[p].todo)
      /\ Seeded(p).cron = Head(proc[p].todo).cron
  BY <1>4 DEF Seeded
<1>6. Head(proc[p].todo).cron \in Untried(proc[p])
  BY <1>3 DEF Untried, Starting
<1> QED
  BY <1>2, <1>4, <1>5, <1>6

LEMMA SeedOk ==
    ASSUME LifeInv, NEW p \in Proc, Seed(p)
    PROVE  LifeInv'
<1> DEFINE r == [proc[p] EXCEPT !.pc = "start", !.todo = Tail(@), !.found = None]
           db == WithRow(Seen(p), Seeded(p))
<1>1. ProcOk(proc[p]) /\ proc[p].pc = "seed" /\ StoreInv /\ ProcInv
  BY DEF LifeInv, ProcInv, Seed
<1>2. CASE Flushes(p, db) /\ Goto(p, r) /\ UNCHANGED Environs
  <2>1. /\ DOMAIN r = Fields /\ r.pc = "start" /\ r.todo = Tail(proc[p].todo)
        /\ r.app = proc[p].app /\ r.kind = proc[p].kind /\ r.ask = proc[p].ask
    BY <1>1 DEF ProcOk, Fields
  <2>2. ProcOk(r)
    BY <1>1, <2>1, SeededRow DEF ProcOk, Starting, Serving
  <2>3. Shaped(db) /\ Held(db, Untried(proc[p]))
    BY <1>1, SeenHeld, SeededRow, WithRowHeld
  <2>4. Holds(r, db)
    BY <1>1, <2>1, <2>3 DEF Holds, Untried, Starting
  <2>5. ProcInv' /\ StoreInv'
    BY <1>1, <1>2, <2>2, <2>3, <2>4, Moves, FlushStore
  <2> QED
    BY <1>2, <2>5 DEF LifeInv, Environs
<1>3. CASE StartFails(p)
  BY <1>3, ExitOk DEF StartFails
<1> QED
  BY <1>2, <1>3 DEF Seed

LEMMA BootstrapOk ==
    ASSUME LifeInv, NEW p \in Proc, Bootstrap(p)
    PROVE  LifeInv'
<1> DEFINE listed == {d \in Domain : Seen(p).rows[d] # None}
           jobs == [d \in listed |-> Seen(p).rows[d].cron]
           r == [proc[p] EXCEPT !.pc = IF proc[p].kind = "run" THEN "up" ELSE "ensure",
                                !.jobs = jobs]
<1>1. ProcOk(proc[p]) /\ proc[p].pc = "start" /\ StoreInv /\ ProcInv
  BY DEF LifeInv, ProcInv, Bootstrap
<1>2. CASE /\ \A d \in listed : Seen(p).rows[d].cron \in FiringCrons
           /\ Goto(p, r) /\ UNCHANGED <<disk, work, lock, Environs>>
  <2> HIDE DEF jobs
  <2>1. /\ DOMAIN r = Fields /\ r.pc = (IF proc[p].kind = "run" THEN "up" ELSE "ensure")
        /\ r.app = proc[p].app /\ r.ask = proc[p].ask
    BY <1>1 DEF ProcOk, Fields
  <2>2. ProcOk(r)
    BY <1>1, <2>1 DEF ProcOk, Starting, Serving
  <2>3. Held(Seen(p), {})
    BY <1>1, <1>2, SeenHeld DEF Held
  <2>4. lock = p => Holds(r, work)
    BY <2>1, <2>3 DEF Holds, Untried, Starting, Seen
  <2>5. ProcInv' /\ StoreInv'
    BY <1>1, <1>2, <2>2, <2>4, Moves, SameStore
  <2> QED
    BY <1>2, <2>5 DEF LifeInv, Environs
<1>3. CASE StartFails(p)
  BY <1>3, ExitOk DEF StartFails
<1> QED
  BY <1>2, <1>3 DEF Bootstrap

(* The store after a step that leaves the process in a state r.            *)
LEMMA Flushed ==
    ASSUME LifeInv, NEW p \in Proc, NEW r, NEW db, Goto(p, r), Flushes(p, db),
           files' = files, ProcOk(r), Shaped(db), Holds(r, db)
    PROVE  LifeInv'
BY Moves, FlushStore DEF LifeInv

LEMMA RolledBack ==
    ASSUME LifeInv, NEW p \in Proc, NEW r, Goto(p, r), Rollback(p),
           files' = files, ProcOk(r)
    PROVE  LifeInv'
BY Moves, RollbackStore DEF LifeInv

LEMMA Untouched ==
    ASSUME LifeInv, NEW p \in Proc, NEW r, Goto(p, r), UNCHANGED <<disk, work, lock>>,
           files' = files, ProcOk(r), lock = p => Holds(r, work)
    PROVE  LifeInv'
BY Moves, SameStore DEF LifeInv

(* A process that stays where it is, with other sends or a broken session. *)
LEMMA StillOk ==
    ASSUME NEW r, NEW s, ProcOk(r), DOMAIN s = Fields, s.pc = r.pc, s.kind = r.kind,
           s.app = r.app, s.ask = r.ask, s.todo = r.todo,
           r.pc = "closing" => s.sends = {}
    PROVE  ProcOk(s) /\ \A db : Holds(r, db) => Holds(s, db)
<1>1. ProcOk(s)
  BY DEF ProcOk
<1>2. Untried(s) = Untried(r)
  BY DEF Untried
<1> QED
  BY <1>1, <1>2 DEF Holds

(* What such a process stores or has stored.                               *)
LEMMA SeenHolds ==
    ASSUME LifeInv, NEW p \in Proc, proc[p].pc # "closing"
    PROVE  /\ Shaped(Seen(p)) /\ Holds(proc[p], Seen(p))
           /\ lock = p => Holds(proc[p], work)
BY SeenHeld DEF LifeInv, Holds, StoreInv

LEMMA CheckedHolds ==
    ASSUME NEW r, NEW db, NEW d \in Domain, Shaped(db), Holds(r, db), db.rows[d] # None,
           r.pc # "closing"
    PROVE  /\ Shaped(WithRow(db, Checked(db.rows[d])))
           /\ Holds(r, WithRow(db, Checked(db.rows[d])))
<1> DEFINE row == Checked(db.rows[d])
<1>1. "cron" \in DOMAIN db.rows[d] /\ db.rows[d].cron \in FiringCrons \cup Untried(r)
  BY DEF Holds, Held
<1>2. "cron" \in DOMAIN row /\ row.cron = db.rows[d].cron
  BY <1>1 DEF Checked
<1> QED
  BY <1>1, <1>2, WithRowHeld DEF Holds

(* Other tables leave the rows as they are.                                *)
LEMMA TablesHold ==
    ASSUME NEW r, NEW db, NEW x, Shaped(db), Holds(r, db), r.pc # "closing",
           NEW new \in {[db EXCEPT !.keys = x], [db EXCEPT !.rules = x],
                        [db EXCEPT !.disabled = x], [db EXCEPT !.marked = x]}
    PROVE  Shaped(new) /\ Holds(r, new)
<1>1. DOMAIN new = DOMAIN db /\ new.rows = db.rows
  BY DEF Shaped
<1> QED
  BY <1>1 DEF Shaped, Holds, Held

(* A process with a broken session.                                        *)
LEMMA BrokenOk ==
    ASSUME NEW r, ProcOk(r)
    PROVE  /\ ProcOk(Broken(r)) /\ \A db : Holds(r, db) => Holds(Broken(r), db)
           /\ Broken(r).pc = r.pc /\ Broken(r).app = r.app
<1> DEFINE s == Broken(r)
<1>1. /\ DOMAIN s = Fields /\ s.pc = r.pc /\ s.kind = r.kind /\ s.app = r.app
      /\ s.ask = r.ask /\ s.todo = r.todo /\ s.sends = r.sends
  BY DEF Broken, ProcOk, Fields
<1>2. r.pc = "closing" => s.sends = {}
  BY <1>1 DEF ProcOk
<1> HIDE DEF s
<1>3. ProcOk(s) /\ \A db : Holds(r, db) => Holds(s, db)
  BY <1>1, <1>2, StillOk
<1> QED
  BY <1>1, <1>3 DEF s

(* DomainWatcher.stop begins: the hook that commits is still to run.       *)
LEMMA ClosingOk ==
    ASSUME NEW r, ProcOk(r), r.pc \in Serving
    PROVE  ProcOk(Closing(r)) /\ \A db : Holds(r, db) => Holds(Closing(r), db)
<1> DEFINE s == Closing(r)
<1>1. Hooked(r.app.hooks) /\ DOMAIN r = Fields /\ r.pc \notin Starting
  BY DEF ProcOk, Serving, Starting
<1>2. /\ DOMAIN s = Fields /\ s.pc = "closing" /\ s.todo = r.app.hooks /\ s.sends = {}
  BY <1>1 DEF Closing, Fields
<1>3. ProcOk(s)
  BY <1>1, <1>2 DEF ProcOk, Hooked, Starting, Serving
<1>4. \A db : Holds(r, db) => Holds(s, db)
  BY <1>1, <1>2 DEF Holds, Hooked, Untried, Starting
<1> QED
  BY <1>3, <1>4

(* A started process, and the rules commands.                              *)
LEMMA JobOk ==
    ASSUME LifeInv, NEW p \in Proc, NEW d \in Domain, Job(p, d)
    PROVE  LifeInv'
<1> DEFINE row == Seen(p).rows[d]
           db == WithRow(Seen(p), Checked(row))
           more(x) == [proc[p] EXCEPT !.sends = @ \cup x]
<1>1. ProcOk(proc[p]) /\ proc[p].pc \in Serving /\ proc[p].pc # "closing"
      /\ row # None /\ files' = files
  BY DEF LifeInv, ProcInv, Job, CanCheck, Serving
<1>2. Shaped(db) /\ Holds(proc[p], db) /\ (lock = p => Holds(proc[p], work))
  BY <1>1, SeenHolds, CheckedHolds
<1> HIDE DEF db
<1>3. ASSUME Flushes(p, db), Goto(p, proc[p]) PROVE LifeInv'
  BY <1>1, <1>2, <1>3, Flushed
<1>4. ASSUME NEW x, Flushes(p, db), Goto(p, more(x)) PROVE LifeInv'
  <2> DEFINE r == more(x)
  <2>1. /\ DOMAIN r = Fields /\ r.pc = proc[p].pc /\ r.kind = proc[p].kind
        /\ r.app = proc[p].app /\ r.ask = proc[p].ask /\ r.todo = proc[p].todo
    BY <1>1 DEF ProcOk, Fields
  <2> HIDE DEF r
  <2>2. ProcOk(r) /\ Holds(r, db)
    BY <1>1, <1>2, <2>1, StillOk
  <2> QED
    BY <1>1, <1>2, <1>4, <2>2, Flushed DEF r
<1>5. ASSUME FlushRaises(p, db), Goto(p, Broken(proc[p])) PROVE LifeInv'
  BY <1>1, <1>2, <1>5, BrokenOk, Untouched DEF FlushRaises
<1>6. \/ Flushes(p, db) /\ Goto(p, proc[p])
      \/ \E x : Flushes(p, db) /\ Goto(p, more(x))
      \/ FlushRaises(p, db) /\ Goto(p, Broken(proc[p]))
  BY DEF Job, db
<1> QED
  BY <1>3, <1>4, <1>5, <1>6

LEMMA DeliverOk ==
    ASSUME LifeInv, NEW p \in Proc, NEW x \in proc[p].sends, Deliver(p, x)
    PROVE  LifeInv'
<1> DEFINE db == [Seen(p) EXCEPT !.keys = @ \cup {<<x.name, x.channel>>}]
           done == [proc[p] EXCEPT !.sends = @ \ {x}]
<1>1. ProcOk(proc[p]) /\ files' = files
  BY DEF LifeInv, ProcInv, Deliver, Environs
<1>2. proc[p].pc # "closing"
  BY <1>1 DEF ProcOk
<1>3. Shaped(db) /\ Holds(proc[p], db) /\ (lock = p => Holds(proc[p], work))
  BY <1>2, SeenHolds, TablesHold
<1>4. /\ DOMAIN done = Fields /\ done.pc = proc[p].pc /\ done.kind = proc[p].kind
      /\ done.app = proc[p].app /\ done.ask = proc[p].ask /\ done.todo = proc[p].todo
  BY <1>1 DEF ProcOk, Fields
<1>5. \/ Goto(p, done) /\ UNCHANGED <<disk, work, lock>>
      \/ Flushes(p, db) /\ Goto(p, done)
      \/ Rollback(p) /\ Goto(p, done)
      \/ Goto(p, Broken(done)) /\ UNCHANGED <<disk, work, lock>>
  BY DEF Deliver
<1> HIDE DEF db, done
<1>6. ProcOk(done) /\ \A base : Holds(proc[p], base) => Holds(done, base)
  BY <1>1, <1>2, <1>4, StillOk
<1>7. ProcOk(Broken(done)) /\ \A base : Holds(proc[p], base) => Holds(Broken(done), base)
  BY <1>6, BrokenOk
<1>8. CASE Goto(p, done) /\ UNCHANGED <<disk, work, lock>>
  BY <1>1, <1>3, <1>6, <1>8, Untouched
<1>9. CASE Flushes(p, db) /\ Goto(p, done)
  BY <1>1, <1>3, <1>6, <1>9, Flushed
<1>10. CASE Rollback(p) /\ Goto(p, done)
  BY <1>1, <1>6, <1>10, RolledBack
<1>11. CASE Goto(p, Broken(done)) /\ UNCHANGED <<disk, work, lock>>
  BY <1>1, <1>3, <1>7, <1>11, Untouched
<1> QED
  BY <1>5, <1>8, <1>9, <1>10, <1>11

LEMMA LearnOk ==
    ASSUME LifeInv, NEW p \in Proc, NEW x \in Rule, Learn(p, x)
    PROVE  LifeInv'
<1> DEFINE db == [Seen(p) EXCEPT !.rules = @ \cup {x}]
<1>1. ProcOk(proc[p]) /\ files' = files /\ proc[p].pc # "closing"
  BY DEF LifeInv, ProcInv, Learn, Environs, Serving
<1>2. Shaped(db) /\ Holds(proc[p], db) /\ (lock = p => Holds(proc[p], work))
  BY <1>1, SeenHolds, TablesHold
<1>3. \/ Flushes(p, db) /\ Goto(p, proc[p])
      \/ Rollback(p) /\ Goto(p, proc[p])
      \/ Goto(p, Broken(proc[p])) /\ UNCHANGED <<disk, work, lock>>
  BY DEF Learn
<1> HIDE DEF db
<1>4. CASE Flushes(p, db) /\ Goto(p, proc[p])
  BY <1>1, <1>2, <1>4, Flushed
<1>5. CASE Rollback(p) /\ Goto(p, proc[p])
  BY <1>1, <1>5, RolledBack
<1>6. CASE Goto(p, Broken(proc[p])) /\ UNCHANGED <<disk, work, lock>>
  BY <1>1, <1>2, <1>6, BrokenOk, Untouched
<1> QED
  BY <1>3, <1>4, <1>5, <1>6

LEMMA SignalOk ==
    ASSUME LifeInv, NEW p \in Proc, Signal(p)
    PROVE  LifeInv'
<1>1. /\ ProcOk(proc[p]) /\ proc[p].pc \in Serving /\ proc[p].pc # "closing"
      /\ Goto(p, Closing(proc[p])) /\ UNCHANGED <<disk, work, lock>> /\ files' = files
  BY DEF LifeInv, ProcInv, Signal, Environs, Serving
<1> QED
  BY <1>1, SeenHolds, ClosingOk, Untouched

LEMMA GatheredOk ==
    ASSUME LifeInv, NEW p \in Proc, Gathered(p)
    PROVE  LifeInv'
<1>1. /\ ProcOk(proc[p]) /\ proc[p].pc \in Serving /\ proc[p].pc # "closing"
      /\ Goto(p, Closing(proc[p])) /\ UNCHANGED <<disk, work, lock>> /\ files' = files
  BY DEF LifeInv, ProcInv, Gathered, Environs, Serving
<1> QED
  BY <1>1, SeenHolds, ClosingOk, Untouched

(* A process that goes on to a later step of check.                        *)
LEMMA ServingOk ==
    ASSUME NEW r, NEW s, ProcOk(r), r.pc \in Serving, DOMAIN s = Fields,
           s.pc \in {"check", "deliver"}, s.app = r.app, s.ask = r.ask,
           s.ask.name \in Domain
    PROVE  ProcOk(s) /\ \A db : Holds(r, db) => Holds(s, db)
<1>1. ProcOk(s)
  BY DEF ProcOk, Serving, Starting
<1>2. Untried(s) = {} /\ Untried(r) = {}
  BY DEF Untried, Serving, Starting
<1> QED
  BY <1>1, <1>2 DEF Holds

LEMMA EnsureOk ==
    ASSUME LifeInv, NEW p \in Proc, Ensure(p)
    PROVE  LifeInv'
<1> DEFINE ask == proc[p].ask
           row == EnsuredRow(p)
           db == WithRow(Seen(p), row)
           next == [proc[p] EXCEPT !.pc = "check"]
           added == [proc[p] EXCEPT !.pc = "check", !.jobs = (ask.name :> DefaultCron) @@ @]
<1>1. /\ ProcOk(proc[p]) /\ proc[p].pc = "ensure" /\ proc[p].pc \in Serving
      /\ proc[p].pc # "closing" /\ files' = files
  BY DEF LifeInv, ProcInv, Ensure, Environs, Serving
<1>2. ask.name \in Domain /\ DOMAIN proc[p] = Fields
  BY <1>1 DEF ProcOk
<1>3. /\ Shaped(Seen(p)) /\ Holds(proc[p], Seen(p)) /\ (lock = p => Holds(proc[p], work))
  BY <1>1, SeenHolds
<1>4. Shaped(db) /\ Holds(proc[p], db)
  <2>1. "cron" \in DOMAIN row /\ row.cron = DefaultCron
    BY DEF EnsuredRow
  <2>2. Shaped(db) /\ Held(db, Untried(proc[p]))
    BY <1>3, <2>1, CronAssumption, WithRowHeld DEF Holds
  <2> QED
    BY <1>1, <2>2 DEF Holds
<1>5. ProcOk(next) /\ \A base : Holds(proc[p], base) => Holds(next, base)
  <2>1. /\ DOMAIN next = Fields /\ next.pc = "check" /\ next.app = proc[p].app
        /\ next.ask = proc[p].ask
    BY <1>2 DEF Fields
  <2> QED
    BY <1>1, <1>2, <2>1, ServingOk
<1>6. ProcOk(added) /\ \A base : Holds(proc[p], base) => Holds(added, base)
  <2> DEFINE jobs == (ask.name :> DefaultCron) @@ proc[p].jobs
  <2>1. added = [proc[p] EXCEPT !.pc = "check", !.jobs = jobs]
    OBVIOUS
  <2> HIDE DEF jobs
  <2>2. /\ DOMAIN added = Fields /\ added.pc = "check" /\ added.app = proc[p].app
        /\ added.ask = proc[p].ask
    BY <1>2, <2>1 DEF Fields
  <2> QED
    BY <1>1, <1>2, <2>2, ServingOk
<1>7. \/ Goto(p, Closing(proc[p])) /\ UNCHANGED <<disk, work, lock>>
      \/ Goto(p, next) /\ UNCHANGED <<disk, work, lock>>
      \/ Flushes(p, db) /\ Goto(p, added)
      \/ FlushRaises(p, db) /\ Goto(p, Closing(Broken(proc[p])))
  BY DEF Ensure
<1> HIDE DEF db, next, added
<1>8. CASE Goto(p, Closing(proc[p])) /\ UNCHANGED <<disk, work, lock>>
  BY <1>1, <1>3, <1>8, ClosingOk, Untouched
<1>9. CASE Goto(p, next) /\ UNCHANGED <<disk, work, lock>>
  BY <1>1, <1>3, <1>5, <1>9, Untouched
<1>10. CASE Flushes(p, db) /\ Goto(p, added)
  BY <1>1, <1>4, <1>6, <1>10, Flushed
<1>11. CASE FlushRaises(p, db) /\ Goto(p, Closing(Broken(proc[p])))
  <2>1. /\ ProcOk(Closing(Broken(proc[p])))
        /\ \A base : Holds(proc[p], base) => Holds(Closing(Broken(proc[p])), base)
    BY <1>1, BrokenOk, ClosingOk
  <2> QED
    BY <1>1, <1>3, <1>11, <2>1, Untouched DEF FlushRaises
<1> QED
  BY <1>7, <1>8, <1>9, <1>10, <1>11

LEMMA CheckNowOk ==
    ASSUME LifeInv, NEW p \in Proc, CheckNow(p)
    PROVE  LifeInv'
<1> DEFINE d == proc[p].ask.name
           row == Seen(p).rows[d]
           db == WithRow(Seen(p), Checked(row))
           next == [proc[p] EXCEPT !.pc = "deliver"]
           sent == [proc[p] EXCEPT !.pc = "deliver", !.sends = @ \cup Sends(row, "call")]
<1>1. /\ ProcOk(proc[p]) /\ proc[p].pc = "check" /\ proc[p].pc \in Serving
      /\ proc[p].pc # "closing" /\ files' = files
  BY DEF LifeInv, ProcInv, CheckNow, Environs, Serving
<1>2. d \in Domain /\ DOMAIN proc[p] = Fields
  BY <1>1 DEF ProcOk
<1>3. Shaped(Seen(p)) /\ Holds(proc[p], Seen(p)) /\ (lock = p => Holds(proc[p], work))
  BY <1>1, SeenHolds
<1>4. CanCheck(p, d) => Shaped(db) /\ Holds(proc[p], db)
  BY <1>1, <1>2, <1>3, CheckedHolds DEF CanCheck
<1>5. ProcOk(next) /\ \A base : Holds(proc[p], base) => Holds(next, base)
  <2>1. /\ DOMAIN next = Fields /\ next.pc = "deliver" /\ next.app = proc[p].app
        /\ next.ask = proc[p].ask
    BY <1>2 DEF Fields
  <2> QED
    BY <1>1, <1>2, <2>1, ServingOk
<1>6. ProcOk(sent) /\ \A base : Holds(proc[p], base) => Holds(sent, base)
  <2>1. /\ DOMAIN sent = Fields /\ sent.pc = "deliver" /\ sent.app = proc[p].app
        /\ sent.ask = proc[p].ask
    BY <1>2 DEF Fields
  <2> QED
    BY <1>1, <1>2, <2>1, ServingOk
<1>7. ProcOk(Closing(proc[p])) /\ \A base : Holds(proc[p], base) => Holds(Closing(proc[p]), base)
  BY <1>1, ClosingOk
<1>8. /\ ProcOk(Closing(Broken(proc[p])))
      /\ \A base : Holds(proc[p], base) => Holds(Closing(Broken(proc[p])), base)
  BY <1>1, BrokenOk, ClosingOk
<1>9. \/ Goto(p, Closing(proc[p])) /\ UNCHANGED <<disk, work, lock>>
      \/ /\ CanCheck(p, d) /\ Flushes(p, db)
         /\ Goto(p, next) \/ Goto(p, sent) \/ Goto(p, Closing(proc[p]))
      \/ FlushRaises(p, db) /\ Goto(p, Closing(Broken(proc[p])))
  BY DEF CheckNow
<1> HIDE DEF d, db, next, sent
<1>10. CASE Goto(p, Closing(proc[p])) /\ UNCHANGED <<disk, work, lock>>
  BY <1>1, <1>3, <1>7, <1>10, Untouched
<1>11. CASE /\ CanCheck(p, d) /\ Flushes(p, db)
            /\ Goto(p, next) \/ Goto(p, sent) \/ Goto(p, Closing(proc[p]))
  BY <1>1, <1>4, <1>5, <1>6, <1>7, <1>11, Flushed
<1>12. CASE FlushRaises(p, db) /\ Goto(p, Closing(Broken(proc[p])))
  BY <1>1, <1>3, <1>8, <1>12, Untouched DEF FlushRaises
<1> QED
  BY <1>9, <1>10, <1>11, <1>12

LEMMA CloseHookOk ==
    ASSUME LifeInv, NEW p \in Proc, CloseHook(p)
    PROVE  LifeInv'
<1> DEFINE todo == proc[p].todo
           r == [proc[p] EXCEPT !.todo = Tail(@)]
<1>1. /\ ProcOk(proc[p]) /\ proc[p].pc = "closing" /\ todo # <<>> /\ Goto(p, r)
      /\ files' = files /\ ProcInv /\ StoreInv
  BY DEF LifeInv, ProcInv, CloseHook, Environs
<1>2. todo \in Seq(Hook) /\ proc[p].sends = {} /\ DOMAIN proc[p] = Fields
  BY <1>1 DEF ProcOk
<1>3. Tail(todo) \in Seq(Hook) /\ todo = <<Head(todo)>> \o Tail(todo)
  BY <1>1, <1>2, HeadTailProperties
<1>4. DOMAIN r = Fields /\ r.pc = "closing" /\ r.todo = Tail(todo) /\ r.sends = {}
  BY <1>1, <1>2 DEF Fields
<1>5. ProcOk(r)
  BY <1>3, <1>4 DEF ProcOk, Starting, Serving
<1>6. ProcInv'
  BY <1>1, <1>5, Moves
<1>7. CASE Head(todo) = "session"
  <2>1. Commit(p)
    BY <1>7 DEF CloseHook
  <2> QED
    BY <1>1, <1>6, <2>1, CommitStore DEF LifeInv
<1>8. CASE Head(todo) # "session"
  <2>1. UNCHANGED <<disk, work, lock>>
    BY <1>8 DEF CloseHook
  <2>2. "session" \in ToSet(todo) => "session" \in ToSet(Tail(todo))
    <3>1. SUFFICES ASSUME NEW i \in DOMAIN todo, todo[i] = "session"
                   PROVE  "session" \in ToSet(Tail(todo))
      BY DEF ToSet
    <3>2. i \in 1..Len(todo) /\ Len(todo) \in Nat /\ todo[1] # "session"
      BY <1>1, <1>2, <1>8, <3>1, LenProperties, HeadTailProperties
    <3>3. i - 1 \in 1..Len(todo) - 1 /\ Len(Tail(todo)) = Len(todo) - 1
          /\ (i - 1) + 1 = i
      BY <1>1, <1>2, <3>1, <3>2, HeadTailProperties
    <3>4. i - 1 \in 1..Len(Tail(todo)) /\ Tail(todo)[i - 1] = todo[i]
      BY <1>1, <1>2, <3>3, HeadTailProperties
    <3> QED
      BY <1>3, <3>1, <3>4, LenProperties DEF ToSet
  <2>3. lock = p => Holds(r, work)
    BY <1>1, <1>4, <2>2 DEF StoreInv, Holds, Untried, Starting
  <2> QED
    BY <1>1, <1>6, <2>1, <2>3, SameStore DEF LifeInv
<1> QED
  BY <1>7, <1>8

(* A rules command that has its list.                                      *)
LEMMA PickedOk ==
    ASSUME LifeInv, NEW p \in Proc, NEW how \in {"disable", "mark"}, NEW rules,
           proc[p].pc = "rules", Picked(p, how, rules)
    PROVE  LifeInv'
<1> DEFINE r == [proc[p] EXCEPT !.pc = how, !.todo = rules]
<1>1. /\ ProcOk(proc[p]) /\ Goto(p, r) /\ UNCHANGED <<disk, work, lock>>
      /\ files' = files
  BY DEF LifeInv, ProcInv, Picked, Environs
<1>2. DOMAIN r = Fields /\ r.pc = how
  BY <1>1 DEF ProcOk, Fields
<1>3. ProcOk(r)
  BY <1>2 DEF ProcOk, Starting, Serving
<1>4. lock = p => Holds(r, work)
  <2>1. lock = p => Holds(proc[p], work)
    BY SeenHolds
  <2> QED
    BY <1>2, <2>1 DEF Holds, Untried, Starting
<1> QED
  BY <1>1, <1>3, <1>4, Untouched

LEMMA PickOk ==
    ASSUME LifeInv, NEW p \in Proc, Pick(p)
    PROVE  LifeInv'
<1>1. /\ proc[p].pc = "rules"
      /\ Exit(p) \/ \E how \in {"disable", "mark"} : \E rules : Picked(p, how, rules)
  BY DEF Pick
<1> QED
  BY <1>1, ExitOk, PickedOk

LEMMA MutateOk ==
    ASSUME LifeInv, NEW p \in Proc, Mutate(p)
    PROVE  LifeInv'
<1> DEFINE x == Head(proc[p].todo)
           db == IF proc[p].pc = "mark" THEN [Seen(p) EXCEPT !.marked = @ \cup {x}]
                 ELSE [Seen(p) EXCEPT !.disabled = @ \cup {x}]
           r == [proc[p] EXCEPT !.todo = Tail(@)]
<1>1. /\ ProcOk(proc[p]) /\ proc[p].pc \in {"disable", "mark"}
      /\ proc[p].pc # "closing"
  BY DEF LifeInv, ProcInv, Mutate
<1>2. CASE Flushes(p, db) /\ Goto(p, r) /\ UNCHANGED Environs
  <2>1. Shaped(db) /\ Holds(proc[p], db)
    BY <1>1, SeenHolds, TablesHold
  <2>2. DOMAIN r = Fields /\ r.pc = proc[p].pc
    BY <1>1 DEF ProcOk, Fields
  <2>3. ProcOk(r)
    BY <1>1, <2>2 DEF ProcOk, Starting, Serving
  <2> HIDE DEF db
  <2>4. Holds(r, db)
    BY <1>1, <2>1, <2>2 DEF Holds, Untried, Starting
  <2> QED
    BY <1>2, <2>1, <2>3, <2>4, Flushed DEF Environs
<1>3. CASE Exit(p)
  BY <1>3, ExitOk
<1> QED
  BY <1>2, <1>3 DEF Mutate

LEMMA LifeInductive == LifeInv /\ [Next]_vars => LifeInv'
<1> SUFFICES ASSUME LifeInv, [Next]_vars PROVE LifeInv'
  OBVIOUS
<1>1. CASE UNCHANGED vars
  BY <1>1 DEF vars, LifeInv, ProcInv, StoreInv
<1>2. CASE Next
  <2>1. PICK p \in Proc :
          \/ \E kind \in Kind, flag \in Flag, env \in Environments :
                Launch(p, kind, flag, env)
          \/ Start(p) \/ Checking(p) \/ Stop(p)
          \/ Pick(p) \/ Mutate(p)
          \/ Kill(p)
    BY <1>2 DEF Next
  <2>2. CASE \E kind \in Kind, flag \in Flag, env \in Environments :
                Launch(p, kind, flag, env)
    BY <2>2, LaunchOk
  <2>3. CASE Start(p)
    BY <2>3, LookOk, SeedOk, BootstrapOk DEF Start
  <2>4. CASE Checking(p)
    BY <2>4, EnsureOk, CheckNowOk, GatheredOk, JobOk, LearnOk, DeliverOk DEF Checking
  <2>5. CASE Stop(p)
    BY <2>5, SignalOk, CloseHookOk, ExitOk DEF Stop, Stopped
  <2>6. CASE Pick(p) \/ Mutate(p)
    BY <2>6, PickOk, MutateOk
  <2>7. CASE Kill(p)
    BY <2>7, ExitOk DEF Kill
  <2> QED
    BY <2>1, <2>2, <2>3, <2>4, <2>5, <2>6, <2>7
<1> QED
  BY <1>1, <1>2

LEMMA LifeAlways == Spec => []LifeInv
<1> QED
  BY LifeInit, LifeInductive, PTL DEF Spec

---------------------------------------------------------------------------
(* The theorems.                                                           *)

(* No committed row has a cron that ApsScheduler.start refuses, whatever   *)
(* files are tried, and whichever processes die or are killed: what Seed   *)
(* files in repo.add before the scheduler has seen it is not committed     *)
(* until DomainWatcher.stop, and a start that fails does not come to that. *)
THEOREM DatabaseUnspoilt == Spec => []NoPoisonRow
<1>1. LifeInv => NoPoisonRow
  BY DEF LifeInv, StoreInv, Held, NoPoisonRow
<1> QED
  BY <1>1, LifeAlways, PTL

(* The steps of a process, and what they do to it and to the store.        *)
Does(p) ==
    /\ UNCHANGED proc \/ \E r : Goto(p, r)
    /\ \/ UNCHANGED <<disk, work, lock>> \/ Rollback(p) \/ Commit(p)
       \/ \E db : Flushes(p, db)

Step(p) ==
    \/ \E kind \in Kind, flag \in Flag, env \in Environments :
          Launch(p, kind, flag, env)
    \/ Start(p) \/ Checking(p) \/ Stop(p)
    \/ Pick(p) \/ Mutate(p)
    \/ Kill(p)

LEMMA StepDoes ==
    ASSUME NEW p \in Proc, Step(p)
    PROVE  Does(p)
<1>1. Exit(p) => Does(p)
  BY DEF Exit, Does
<1>2. CASE \E kind \in Kind, flag \in Flag, env \in Environments :
              Launch(p, kind, flag, env)
  <2>1. PICK kind \in Kind, flag \in Flag, env \in Environments :
            Launch(p, kind, flag, env)
    BY <1>2
  <2> QED
    BY <2>1 DEF Launch, Does
<1>3. CASE Start(p)
  <2>1. CASE Look(p)
    BY <2>1 DEF Look, Does
  <2>2. CASE Seed(p)
    BY <2>2, <1>1 DEF Seed, StartFails, Does
  <2>3. CASE Bootstrap(p)
    BY <2>3, <1>1 DEF Bootstrap, StartFails, Does
  <2> QED
    BY <1>3, <2>1, <2>2, <2>3 DEF Start
<1>4. CASE Checking(p)
  <2>1. CASE Ensure(p)
    BY <2>1 DEF Ensure, FlushRaises, Does
  <2>2. CASE CheckNow(p)
    BY <2>2 DEF CheckNow, FlushRaises, Does
  <2>3. CASE Gathered(p)
    BY <2>3 DEF Gathered, Does
  <2>4. ASSUME NEW d \in Domain, Job(p, d) PROVE Does(p)
    BY <2>4 DEF Job, FlushRaises, Does
  <2>5. ASSUME NEW r \in Rule, Learn(p, r) PROVE Does(p)
    BY <2>5 DEF Learn, Does
  <2>6. ASSUME NEW x \in proc[p].sends, Deliver(p, x) PROVE Does(p)
    BY <2>6 DEF Deliver, Does
  <2> QED
    BY <1>4, <2>1, <2>2, <2>3, <2>4, <2>5, <2>6 DEF Checking
<1>5. CASE Stop(p)
  <2>1. CASE Signal(p)
    BY <2>1 DEF Signal, Does
  <2>2. CASE CloseHook(p)
    BY <2>2 DEF CloseHook, Does
  <2>3. CASE Stopped(p)
    BY <2>3, <1>1 DEF Stopped
  <2> QED
    BY <1>5, <2>1, <2>2, <2>3 DEF Stop
<1>6. CASE Pick(p) \/ Mutate(p)
  <2>1. CASE Pick(p)
    BY <2>1, <1>1 DEF Pick, Picked, Does
  <2>2. CASE Mutate(p)
    BY <2>2, <1>1 DEF Mutate, Does
  <2> QED
    BY <1>6, <2>1, <2>2
<1>7. CASE Kill(p)
  BY <1>7, <1>1 DEF Kill
<1> QED
  BY <1>2, <1>3, <1>4, <1>5, <1>6, <1>7 DEF Step

(* A step of one process leaves the transaction of another alone.          *)
LEMMA OthersAlone ==
    ASSUME LifeInv, NEW p \in Proc, NEW q \in Proc, p # q, Does(q)
    PROVE  proc'[p] = proc[p] /\ (lock = p => lock' = p)
<1>1. proc'[p] = proc[p]
  BY Moves DEF Does, LifeInv
<1>2. ASSUME lock = p PROVE lock' = p
  BY <1>2, ProcAssumption DEF Does, Rollback, Commit, Flushes
<1> QED
  BY <1>1, <1>2

(* What a process that is closing can do is run the next hook, or end.     *)
LEMMA ClosingSteps ==
    ASSUME LifeInv, NEW p \in Proc, Step(p), proc[p].pc = "closing"
    PROVE  CloseHook(p) \/ Exit(p)
<1>1. proc[p].sends = {}
  BY DEF LifeInv, ProcInv, ProcOk
<1>2. ~Start(p)
  BY DEF Start, Look, Seed, Bootstrap
<1>3. ~Checking(p)
  BY <1>1 DEF Checking, Ensure, CheckNow, Gathered, Job, Learn, Serving
<1>4. Stop(p) => CloseHook(p) \/ Exit(p)
  BY DEF Stop, Signal, Stopped
<1>5. ~Pick(p) /\ ~Mutate(p)
  BY DEF Pick, Mutate
<1>6. Kill(p) => Exit(p)
  BY DEF Kill
<1>7. \A kind, flag, env : ~Launch(p, kind, flag, env)
  BY DEF Launch
<1> QED
  BY <1>2, <1>3, <1>4, <1>5, <1>6, <1>7 DEF Step

(* DomainWatcher.stop leaves nothing behind: the hook that commits is in   *)
(* the list until it has had its turn, whichever hooks raise before it,    *)
(* and it is the only step of a closing process that ends its transaction. *)
THEOREM StopsSave == Spec => StopSaves
<1> DEFINE Saved(p) ==
      proc[p].pc = "closing" /\ proc'[p].pc = "closing" =>
          /\ lock = p /\ lock' # p => disk' = work
          /\ proc'[p].todo = <<>> => lock' # p
<1>1. ASSUME LifeInv, LifeInv', [Next]_vars, NEW p \in Proc PROVE Saved(p)
  <2> SUFFICES ASSUME proc[p].pc = "closing", proc'[p].pc = "closing"
               PROVE  /\ lock = p /\ lock' # p => disk' = work
                      /\ proc'[p].todo = <<>> => lock' # p
    OBVIOUS
  <2>1. proc'[p].todo = <<>> => lock' # p
    <3>1. "session" \notin ToSet(<<>>)
      BY DEF ToSet
    <3>2. lock' = p => "session" \in ToSet(proc'[p].todo)
      BY <1>1 DEF LifeInv, StoreInv, Holds
    <3> QED
      BY <3>1, <3>2
  <2>2. lock = p /\ lock' # p => disk' = work
    <3>1. CASE UNCHANGED vars
      BY <3>1 DEF vars
    <3>2. CASE Next
      <4>1. PICK q \in Proc : Step(q)
        BY <3>2 DEF Next, Step
      <4>2. CASE q # p
        BY <1>1, <4>1, <4>2, StepDoes, OthersAlone
      <4>3. CASE q = p
        <5>1. CASE CloseHook(p)
          BY <5>1 DEF CloseHook, Commit
        <5>2. CASE Exit(p)
          <6>1. proc'[p] = Ended
            BY <1>1, <5>2, Moves DEF Exit, LifeInv
          <6> QED
            BY <6>1 DEF Ended
        <5> QED
          BY <1>1, <4>1, <4>3, <5>1, <5>2, ClosingSteps
      <4> QED
        BY <4>2, <4>3
    <3> QED
      BY <1>1, <3>1, <3>2
  <2> QED
    BY <2>1, <2>2
<1>2. LifeInv /\ LifeInv' /\ [Next]_vars => \A p \in Proc : Saved(p)
  BY <1>1
<1>3. LifeInv /\ LifeInv' /\ [Next]_vars =>
          [\A p \in Proc :
              proc[p].pc = "closing" /\ proc'[p].pc = "closing" =>
                  /\ lock = p /\ lock' # p => disk' = work
                  /\ proc'[p].todo = <<>> => lock' # p]_vars
  BY <1>2
<1> QED
  BY <1>3, LifeAlways, PTL DEF Spec, StopSaves

(* How a process that is starting ends: killed, or blamed.                 *)
Blamed(p) ==
    \/ \E i \in DOMAIN proc[p].app.initial :
          proc[p].app.initial[i].cron \notin FiringCrons
    \/ lock \notin {None, p}
    \/ /\ proc[p].pc = "seed" /\ proc[p].found = None
       /\ Seen(p).rows[Head(proc[p].todo).name] # None

LEMMA StartEnds ==
    ASSUME LifeInv, NEW p \in Proc, Step(p), proc[p].pc \in {"start", "seed"},
           proc'[p].pc = "ended", ~Kill(p)
    PROVE  Blamed(p)
<1>1. ProcOk(proc[p]) /\ ProcInv /\ StoreInv
  BY DEF LifeInv, ProcInv
<1>2. DOMAIN proc[p] = Fields
  BY <1>1 DEF ProcOk
<1>3. \A r : Goto(p, r) => proc'[p] = r
  BY <1>1, Moves
<1>4. ~Look(p)
  <2> SUFFICES ASSUME Look(p) PROVE FALSE
    OBVIOUS
  <2>1. proc'[p] = [proc[p] EXCEPT !.pc = "seed",
                            !.found = Seen(p).rows[Head(proc[p].todo).name]]
    BY <1>3 DEF Look
  <2> QED
    BY <1>2, <2>1 DEF Fields
<1>5. CASE Seed(p)
  <2> DEFINE r == [proc[p] EXCEPT !.pc = "start", !.todo = Tail(@), !.found = None]
  <2>1. r.pc = "start"
    BY <1>2 DEF Fields
  <2>2. ~Goto(p, r)
    BY <1>3, <2>1
  <2>3. \/ proc[p].found = None /\ Seen(p).rows[Seeded(p).name] # None
        \/ lock \notin {None, p}
    BY <1>5, <2>2 DEF Seed
  <2>4. Seeded(p).name = Head(proc[p].todo).name
    BY DEF Seeded
  <2>5. proc[p].pc = "seed"
    BY <1>5 DEF Seed
  <2> QED
    BY <2>3, <2>4, <2>5 DEF Blamed
<1>6. CASE Bootstrap(p)
  <2>1. CASE \A d \in Domain :
               Seen(p).rows[d] # None => Seen(p).rows[d].cron \in FiringCrons
    <3>1. PICK jobs : Goto(p, [proc[p] EXCEPT
                        !.pc = IF proc[p].kind = "run" THEN "up" ELSE "ensure",
                        !.jobs = jobs])
      BY <1>6, <2>1 DEF Bootstrap
    <3>2. proc'[p].pc \in {"up", "ensure"}
      BY <1>2, <1>3, <3>1 DEF Fields
    <3> QED
      BY <3>2
  <2>2. ASSUME NEW d \in Domain, Seen(p).rows[d] # None,
               Seen(p).rows[d].cron \notin FiringCrons
        PROVE  Blamed(p)
    <3>1. Seen(p).rows[d].cron \in Untried(proc[p])
      BY <1>1, <2>2, SeenHeld DEF Held
    <3> QED
      BY <2>2, <3>1 DEF Untried, Blamed, Starting
  <2> QED
    BY <2>1, <2>2
<1>7. ~Checking(p)
  <2>1. ASSUME NEW x \in proc[p].sends, Deliver(p, x) PROVE FALSE
    <3> DEFINE done == [proc[p] EXCEPT !.sends = @ \ {x}]
    <3>1. Goto(p, done) \/ Goto(p, Broken(done))
      BY <2>1 DEF Deliver
    <3>2. done.pc = proc[p].pc /\ Broken(done).pc = proc[p].pc
      BY <1>2 DEF Fields, Broken
    <3> QED
      BY <1>3, <3>1, <3>2
  <2> QED
    BY <2>1 DEF Checking, Ensure, CheckNow, Gathered, Job, Learn, Serving
<1>8. ~Stop(p) /\ ~Pick(p) /\ ~Mutate(p)
  BY DEF Stop, Signal, CloseHook, Stopped, Pick, Mutate
<1>9. \A kind, flag, env : ~Launch(p, kind, flag, env)
  BY DEF Launch
<1> QED
  BY <1>4, <1>5, <1>6, <1>7, <1>8, <1>9 DEF Step, Start

(* A start that fails has its reason in its own file, in another process   *)
(* that is writing, or in a row made meanwhile: a row the scheduler would  *)
(* refuse can only be this process's own, or it would have been committed. *)
THEOREM StartsBlamed == Spec => StartBlame
<1>1. ASSUME LifeInv, [Next]_vars, NEW p \in Proc,
             proc[p].pc \in {"start", "seed"}, proc'[p].pc = "ended", ~Kill(p)
      PROVE  Blamed(p)
  <2>1. CASE UNCHANGED vars
    BY <1>1, <2>1 DEF vars
  <2>2. CASE Next
    <3>1. PICK q \in Proc : Step(q)
      BY <2>2 DEF Next, Step
    <3>2. q = p
      BY <1>1, <3>1, StepDoes, OthersAlone
    <3> QED
      BY <1>1, <3>1, <3>2, StartEnds
  <2> QED
    BY <1>1, <2>1, <2>2
<1>2. LifeInv /\ [Next]_vars =>
        [\A p \in Proc :
          proc[p].pc \in {"start", "seed"} /\ proc'[p].pc = "ended"
          /\ ~Kill(p) =>
              \/ \E i \in DOMAIN proc[p].app.initial :
                    proc[p].app.initial[i].cron \notin FiringCrons
              \/ lock \notin {None, p}
              \/ /\ proc[p].pc = "seed" /\ proc[p].found = None
                 /\ Seen(p).rows[Head(proc[p].todo).name] # None]_vars
  BY <1>1 DEF Blamed
<1> QED
  BY <1>2, LifeAlways, PTL DEF Spec, StartBlame

---------------------------------------------------------------------------
(* What a started process serves.  The second invariant follows the rows   *)
(* and rules a process counts on: nobody takes them away, since all a step *)
(* of another process can do to what it sees is to commit more.            *)

Tables == {"rows", "keys", "rules", "disabled", "marked"}

DbOk(db) == DOMAIN db = Tables /\ DbType(db) /\ IsFiniteSet(db.rules)

(* Rows and rules are added and changed, never removed.                    *)
Grows(old, new) ==
    /\ \A d \in Domain : old.rows[d] # None => new.rows[d] # None
    /\ old.rules \subseteq new.rules

(* What compose_from_config hands to the watcher fits together.            *)
Wired(app) ==
    /\ app.initial \in Seq(RowType)
    /\ DOMAIN app.notifiers \subseteq STRING
    /\ \A i \in DOMAIN app.initial :
          /\ app.initial[i].checker \in DOMAIN app.checkers
          /\ ToSet(app.initial[i].channels) \subseteq app.channels \cap DOMAIN app.notifiers

Asks(r) == r.pc \in {"ensure", "check"} \/ (r.pc \in Starting /\ r.kind # "run")

Message(x) == x.name \in Domain /\ x.channel \in STRING

Typed(r) ==
    /\ r.pc \in Pcs /\ r.broken \in BOOLEAN
    /\ r.pc \in Starting \cup Serving => Wired(r.app)
    /\ r.pc = "seed" => r.found = None \/ r.found \in RowType
    /\ Asks(r) => r.ask.checker \in STRING
    /\ r.pc \notin Serving => r.sends = {}
    /\ \A x \in r.sends : Message(x)

(* What the process counts on in the database as it sees it.               *)
Sees(r, db) ==
    /\ r.pc \in Starting => \A i \in DOMAIN r.app.initial :
          \/ r.app.initial[i] \in ToSet(r.todo)
          \/ db.rows[r.app.initial[i].name] # None
    /\ r.pc \in {"disable", "mark"} => r.todo \in Seq(db.rules)

ServeInv ==
    /\ DbOk(disk) /\ DbOk(work) /\ Grows(disk, work)
    /\ lock \in Proc \cup {None}
    /\ lock # None => proc[lock].pc # "ended"
    /\ \A p \in Proc : Typed(proc[p]) /\ Sees(proc[p], Seen(p))

---------------------------------------------------------------------------
(* What a step does to the store, again.                                   *)

LEMMA GrowsOn ==
    ASSUME NEW a, NEW b, NEW c
    PROVE  Grows(a, a) /\ (Grows(a, b) /\ Grows(b, c) => Grows(a, c))
BY DEF Grows

LEMMA SeesMore ==
    ASSUME NEW r, NEW a, NEW b, Sees(r, a), Grows(a, b),
           r.pc \in Starting => Typed(r)
    PROVE  Sees(r, b)
<1>1. ASSUME r.pc \in Starting, NEW i \in DOMAIN r.app.initial
      PROVE  r.app.initial[i].name \in Domain
  <2>1. r.app.initial \in Seq(RowType)
    BY <1>1 DEF Typed, Wired
  <2>2. r.app.initial[i] \in RowType
    BY <1>1, <2>1
  <2> QED
    BY <2>2 DEF RowType
<1>2. r.todo \in Seq(a.rules) => r.todo \in Seq(b.rules)
  <2> SUFFICES ASSUME r.todo \in Seq(a.rules) PROVE r.todo \in Seq(b.rules)
    OBVIOUS
  <2>1. a.rules \subseteq b.rules
    BY DEF Grows
  <2>2. Len(r.todo) \in Nat /\ r.todo \in [1..Len(r.todo) -> b.rules]
    BY <2>1, LenProperties
  <2> QED
    BY <2>2, IsASeq
<1> QED
  BY <1>1, <1>2 DEF Sees, Grows

(* The database as a process sees it.                                      *)
LEMMA SeenOk ==
    ASSUME ServeInv, NEW p \in Proc
    PROVE  DbOk(Seen(p)) /\ Grows(disk, Seen(p)) /\ Typed(proc[p]) /\ Sees(proc[p], Seen(p))
BY GrowsOn DEF ServeInv, Seen

LEMMA FlushServes ==
    ASSUME LifeInv, ServeInv, NEW p \in Proc, NEW r, NEW db, Goto(p, r), Flushes(p, db),
           DbOk(db), Grows(Seen(p), db), Typed(r), Sees(r, db), r.pc # "ended"
    PROVE  ServeInv'
<1>1. proc'[p] = r /\ \A q \in Proc : q # p => proc'[q] = proc[q]
  BY Moves DEF LifeInv
<1>2. p # None
  BY ProcAssumption
<1>3. CASE db # Seen(p)
  <2>1. lock' = p /\ work' = db /\ disk' = disk /\ lock \in {None, p}
    BY <1>3 DEF Flushes
  <2>2. Grows(disk, db)
    BY SeenOk, GrowsOn
  <2>3. Seen(p)' = db /\ \A q \in Proc : q # p => Seen(q)' = Seen(q)
    BY <1>2, <2>1, ProcAssumption DEF Seen
  <2>4. \A q \in Proc : Typed(proc'[q]) /\ Sees(proc'[q], Seen(q)')
    BY <1>1, <2>3 DEF ServeInv
  <2> QED
    BY <1>1, <2>1, <2>2, <2>4 DEF ServeInv
<1>4. CASE db = Seen(p)
  <2>1. lock' = lock /\ work' = work /\ disk' = disk
    BY <1>4 DEF Flushes
  <2>2. \A q \in Proc : Seen(q)' = Seen(q)
    BY <2>1 DEF Seen
  <2>3. \A q \in Proc : Typed(proc'[q]) /\ Sees(proc'[q], Seen(q)')
    BY <1>1, <1>4, <2>2 DEF ServeInv
  <2> QED
    BY <1>1, <2>1, <2>3 DEF ServeInv
<1> QED
  BY <1>3, <1>4

LEMMA RollbackServes ==
    ASSUME LifeInv, ServeInv, NEW p \in Proc, NEW r, Goto(p, r), Rollback(p),
           Typed(r), Sees(r, disk)
    PROVE  ServeInv'
<1>1. proc'[p] = r /\ \A q \in Proc : q # p => proc'[q] = proc[q]
  BY Moves DEF LifeInv
<1>2. disk' = disk /\ work' \in {work, disk} /\ lock' \in {lock, None} /\ lock' # p
  BY ProcAssumption DEF Rollback
<1>3. Seen(p)' = disk /\ \A q \in Proc : q # p => Seen(q)' = Seen(q)
  BY ProcAssumption DEF Rollback, Seen
<1>4. \A q \in Proc : Typed(proc'[q]) /\ Sees(proc'[q], Seen(q)')
  BY <1>1, <1>3 DEF ServeInv
<1>5. Grows(disk, work')
  BY <1>2, GrowsOn DEF ServeInv
<1> QED
  BY <1>1, <1>2, <1>4, <1>5 DEF ServeInv

LEMMA CommitServes ==
    ASSUME LifeInv, ServeInv, NEW p \in Proc, NEW r, Goto(p, r), Commit(p),
           Typed(r), \A db : Sees(r, db), r.pc # "ended"
    PROVE  ServeInv'
<1>1. proc'[p] = r /\ \A q \in Proc : q # p => proc'[q] = proc[q]
  BY Moves DEF LifeInv
<1>2. work' = work /\ disk' \in {work, disk} /\ lock' \in {lock, None}
  BY DEF Commit
<1>3. ASSUME NEW q \in Proc PROVE Typed(proc'[q]) /\ Sees(proc'[q], Seen(q)')
  <2>1. CASE q = p
    BY <1>1, <2>1
  <2>2. CASE q # p
    <3>1. Seen(q)' \in {Seen(q), work} /\ (Seen(q)' # Seen(q) => Seen(q) = disk)
      BY <2>2, ProcAssumption DEF Commit, Seen
    <3>2. Sees(proc[q], Seen(q)')
      BY <3>1, SeesMore DEF ServeInv
    <3> QED
      BY <1>1, <2>2, <3>2 DEF ServeInv
  <2> QED
    BY <2>1, <2>2
<1>4. Grows(disk', work)
  BY <1>2, GrowsOn DEF ServeInv
<1> QED
  BY <1>1, <1>2, <1>3, <1>4 DEF ServeInv

LEMMA SameServes ==
    ASSUME LifeInv, ServeInv, NEW p \in Proc, NEW r, Goto(p, r),
           UNCHANGED <<disk, work, lock>>, Typed(r), Sees(r, Seen(p)),
           lock = p => r.pc # "ended"
    PROVE  ServeInv'
<1>1. proc'[p] = r /\ \A q \in Proc : q # p => proc'[q] = proc[q]
  BY Moves DEF LifeInv
<1>2. \A q \in Proc : Seen(q)' = Seen(q)
  BY DEF Seen
<1>3. \A q \in Proc : Typed(proc'[q]) /\ Sees(proc'[q], Seen(q)')
  BY <1>1, <1>2 DEF ServeInv
<1> QED
  BY <1>1, <1>3 DEF ServeInv

LEMMA ExitServes ==
    ASSUME LifeInv, ServeInv, NEW p \in Proc, Exit(p)
    PROVE  ServeInv'
<1>1. Typed(Ended) /\ Sees(Ended, disk)
  BY DEF Typed, Sees, Ended, Pcs, Starting, Serving, Asks
<1> QED
  BY <1>1, RollbackServes DEF Exit

---------------------------------------------------------------------------
(* What compose_from_config returns is wired.                              *)

LEMMA RegistryIds ==
    ASSUME NEW entries
    PROVE  DOMAIN Registry(entries) = {e.id : e \in ToSet(entries)}
BY DEF Registry, IdAlias

(* Interpolation leaves the ids as they are.                               *)
LEMMA InterpolatedIds ==
    ASSUME NEW file, NEW env, {"checkers", "notifiers", "domains"} \subseteq DOMAIN file,
           \A n \in ToSet(file.notifiers) : "id" \in DOMAIN n /\ n.id \in STRING
    PROVE  \A n \in ToSet(InterpolateEnv(file, env).notifiers) : n.id \in STRING
<1> DEFINE ns == file.notifiers
           change(i) == [ns[i] EXCEPT !.settings =
                           [k \in DOMAIN ns[i].settings |->
                               Interpolated(ns[i].settings[k], env)]]
           new == [i \in DOMAIN ns |-> change(i)]
<1>1. InterpolateEnv(file, env).notifiers = new
  BY DEF InterpolateEnv
<1>2. \A i \in DOMAIN ns : change(i).id = ns[i].id
  <2>1. ASSUME NEW i \in DOMAIN ns, NEW s
        PROVE  [ns[i] EXCEPT !.settings = s].id = ns[i].id
    BY <2>1 DEF ToSet
  <2> QED
    BY <2>1
<1> HIDE DEF change
<1>3. \A n \in ToSet(new) : \E i \in DOMAIN ns : n = change(i)
  BY DEF ToSet
<1>4. \A i \in DOMAIN ns : ns[i].id \in STRING
  BY DEF ToSet
<1> QED
  BY <1>1, <1>2, <1>3, <1>4

LEMMA RowsTyped ==
    ASSUME NEW S, NEW ds \in Seq(S),
           \A d \in ToSet(ds) : /\ Normalised[d.name] \in Domain
                                /\ d.cron \in LegibleCrons
                                /\ d.checker \in STRING
                                /\ d.channels \in Seq(STRING)
    PROVE  [i \in DOMAIN ds |-> BuildDomain(ds[i])] \in Seq(RowType)
<1> DEFINE rows == [i \in DOMAIN ds |-> BuildDomain(ds[i])]
<1>1. DOMAIN ds = 1..Len(ds) /\ Len(ds) \in Nat
  BY LenProperties
<1>2. \A i \in DOMAIN ds : ds[i] \in ToSet(ds)
  BY DEF ToSet
<1>3. \A i \in DOMAIN ds : BuildDomain(ds[i]) \in RowType
  <2>1. ASSUME NEW i \in DOMAIN ds PROVE BuildDomain(ds[i]) \in RowType
    <3>1. /\ Normalised[ds[i].name] \in Domain /\ ds[i].cron \in LegibleCrons
          /\ ds[i].checker \in STRING /\ ds[i].channels \in Seq(STRING)
      BY <1>2
    <3> QED
      BY <3>1 DEF BuildDomain, RowType
  <2> QED
    BY <2>1
<1>4. rows \in [1..Len(ds) -> RowType]
  BY <1>1, <1>3
<1> QED
  BY <1>1, <1>4, IsASeq

LEMMA AppWired ==
    ASSUME files \in Layouts, NEW flag \in Flag, NEW env,
           LET place == ResolveConfigPath(flag, files)
           IN  place # None /\ LoadConfig(files[place], env) # None
               /\ ComposeFromConfig(LoadConfig(files[place], env)) # None
    PROVE  LET app == ComposeFromConfig(LoadConfig(files[ResolveConfigPath(flag, files)], env))
           IN  Wired(app) /\ DOMAIN app.checkers \subseteq STRING
<1> DEFINE place == ResolveConfigPath(flag, files)
           file == files[place]
           cfg == LoadConfig(file, env)
           app == ComposeFromConfig(cfg)
<1>1. place \in Place
  BY PlaceFound
<1>2. file # None /\ cfg = InterpolateEnv(file, env) /\ ValidConfig(cfg)
  BY DEF LoadConfig
<1>3. /\ {"checkers", "notifiers", "domains"} \subseteq DOMAIN file
      /\ file.domains \in Seq(ToSet(file.domains))
      /\ \A c \in ToSet(file.checkers) : c.id \in STRING
      /\ \A n \in ToSet(file.notifiers) : "id" \in DOMAIN n /\ n.id \in STRING
      /\ \A d \in ToSet(file.domains) :
            d.channels \in Seq(STRING) /\ Normalised[d.name] \in Domain \cup {None}
  BY <1>1, <1>2, FilesAssumption
<1>4. cfg.checkers = file.checkers /\ cfg.domains = file.domains
  BY <1>2, <1>3 DEF InterpolateEnv
<1>5. \A n \in ToSet(cfg.notifiers) : n.id \in STRING
  BY <1>2, <1>3, InterpolatedIds
<1>6. Composes(cfg)
  BY DEF ComposeFromConfig
<1> HIDE DEF cfg
<1>7. /\ app.checkers = Registry(cfg.checkers) /\ app.notifiers = Registry(cfg.notifiers)
      /\ app.channels = {n.id : n \in ToSet(cfg.notifiers)}
      /\ app.initial = [i \in DOMAIN cfg.domains |-> BuildDomain(cfg.domains[i])]
  BY <1>6 DEF ComposeFromConfig
<1>8. /\ DOMAIN app.checkers = {c.id : c \in ToSet(cfg.checkers)}
      /\ DOMAIN app.notifiers = {n.id : n \in ToSet(cfg.notifiers)}
  BY <1>7, RegistryIds
<1>9. ASSUME NEW d \in ToSet(cfg.domains)
      PROVE  /\ Normalised[d.name] \in Domain /\ d.cron \in LegibleCrons
             /\ d.checker \in DOMAIN app.checkers
             /\ ToSet(d.channels) \subseteq app.channels \cap DOMAIN app.notifiers
             /\ d.channels \in Seq(STRING)
  <2>1. d.cron \in LegibleCrons
    BY <1>2, <1>9 DEF ValidConfig, DomainEntry, ValidCron
  <2>2. /\ Normalised[d.name] # None /\ d.checker \in DOMAIN Registry(cfg.checkers)
        /\ \A ch \in ToSet(d.channels) : \E n \in ToSet(cfg.notifiers) : n.id = ch
    BY <1>6, <1>9 DEF Composes
  <2>3. d.channels \in Seq(STRING) /\ Normalised[d.name] \in Domain \cup {None}
    BY <1>3, <1>4, <1>9
  <2> QED
    BY <1>7, <1>8, <2>1, <2>2, <2>3
<1> HIDE DEF app
<1>10. DOMAIN app.checkers \subseteq STRING /\ DOMAIN app.notifiers \subseteq STRING
  BY <1>3, <1>4, <1>5, <1>8
<1>11. app.initial \in Seq(RowType)
  <2>1. cfg.domains \in Seq(ToSet(cfg.domains))
    BY <1>3, <1>4
  <2>2. \A d \in ToSet(cfg.domains) :
          /\ Normalised[d.name] \in Domain /\ d.cron \in LegibleCrons
          /\ d.checker \in STRING /\ d.channels \in Seq(STRING)
    BY <1>9, <1>10
  <2> QED
    BY <1>7, <2>1, <2>2, RowsTyped
<1>12. ASSUME NEW i \in DOMAIN app.initial
       PROVE  /\ app.initial[i].checker \in DOMAIN app.checkers
              /\ ToSet(app.initial[i].channels) \subseteq app.channels \cap DOMAIN app.notifiers
  <2>1. i \in DOMAIN cfg.domains /\ app.initial[i] = BuildDomain(cfg.domains[i])
    BY <1>7, <1>12
  <2>2. cfg.domains[i] \in ToSet(cfg.domains)
    BY <2>1 DEF ToSet
  <2>3. /\ app.initial[i].checker = cfg.domains[i].checker
        /\ app.initial[i].channels = cfg.domains[i].channels
    BY <2>1 DEF BuildDomain
  <2> QED
    BY <1>9, <2>2, <2>3
<1> QED
  BY <1>10, <1>11, <1>12 DEF Wired, app, cfg

---------------------------------------------------------------------------
(* What is stored.                                                         *)

LEMMA WithRowOk ==
    ASSUME NEW db, NEW row \in RowType, DbOk(db)
    PROVE  /\ DbOk(WithRow(db, row)) /\ Grows(db, WithRow(db, row))
           /\ WithRow(db, row).rows[row.name] # None
<1> DEFINE new == WithRow(db, row)
<1>1. DOMAIN db = Tables /\ DOMAIN db.rows = Domain /\ row.name \in Domain
  BY DEF DbOk, DbType, RowType
<1>2. /\ DOMAIN new = Tables /\ new.keys = db.keys /\ new.rules = db.rules
      /\ new.disabled = db.disabled /\ new.marked = db.marked
      /\ new.rows = [db.rows EXCEPT ![row.name] = row]
  BY <1>1 DEF WithRow, Tables
<1> HIDE DEF new
<1>3. DOMAIN new.rows = Domain /\ new.rows[row.name] = row
  BY <1>1, <1>2
<1>4. \A d \in Domain : d # row.name => new.rows[d] = db.rows[d]
  BY <1>1, <1>2
<1>5. row # None
  BY RowAssumption
<1>6. DbOk(new)
  BY <1>2, <1>3, <1>4 DEF DbOk, DbType
<1>7. Grows(db, new)
  BY <1>2, <1>3, <1>4, <1>5 DEF Grows
<1> QED
  BY <1>3, <1>5, <1>6, <1>7 DEF new

LEMMA CheckedOk ==
    ASSUME NEW db, NEW d \in Domain, DbOk(db), db.rows[d] # None
    PROVE  /\ DbOk(WithRow(db, Checked(db.rows[d])))
           /\ Grows(db, WithRow(db, Checked(db.rows[d])))
<1>1. db.rows[d] \in RowType
  BY DEF DbOk, DbType
<1>2. Checked(db.rows[d]) \in RowType
  BY <1>1 DEF Checked, RowType
<1> QED
  BY <1>2, WithRowOk

LEMMA KeyOk ==
    ASSUME NEW db, NEW key \in Domain \X STRING, DbOk(db)
    PROVE  LET new == [db EXCEPT !.keys = @ \cup {key}]
           IN  DbOk(new) /\ Grows(db, new)
<1> DEFINE new == [db EXCEPT !.keys = @ \cup {key}]
<1>1. /\ DOMAIN new = Tables /\ new.keys = db.keys \cup {key} /\ new.rows = db.rows
      /\ new.rules = db.rules /\ new.disabled = db.disabled /\ new.marked = db.marked
  BY DEF DbOk, Tables
<1> QED
  BY <1>1 DEF DbOk, DbType, Grows

LEMMA RuleOk ==
    ASSUME NEW db, NEW x \in Rule, DbOk(db)
    PROVE  LET new == [db EXCEPT !.rules = @ \cup {x}]
           IN  DbOk(new) /\ Grows(db, new)
<1> DEFINE new == [db EXCEPT !.rules = @ \cup {x}]
<1>1. /\ DOMAIN new = Tables /\ new.rules = db.rules \cup {x} /\ new.rows = db.rows
      /\ new.keys = db.keys /\ new.disabled = db.disabled /\ new.marked = db.marked
  BY DEF DbOk, Tables
<1>2. IsFiniteSet(new.rules)
  BY <1>1, FS_AddElement DEF DbOk
<1> QED
  BY <1>1, <1>2 DEF DbOk, DbType, Grows

LEMMA MarkOk ==
    ASSUME NEW db, DbOk(db), NEW x \in db.rules,
           NEW new \in {[db EXCEPT !.disabled = @ \cup {x}], [db EXCEPT !.marked = @ \cup {x}]}
    PROVE  DbOk(new) /\ Grows(db, new) /\ new.rules = db.rules
<1>1. /\ DOMAIN new = Tables /\ new.rules = db.rules /\ new.rows = db.rows
      /\ new.keys = db.keys /\ new.disabled \subseteq db.disabled \cup {x}
      /\ new.marked \subseteq db.marked \cup {x}
  BY DEF DbOk, Tables
<1> QED
  BY <1>1 DEF DbOk, DbType, Grows

(* A process that stays where it is, with other sends or a broken session. *)
LEMMA StillTyped ==
    ASSUME NEW r, NEW s, Typed(r), s.pc = r.pc, s.kind = r.kind, s.app = r.app,
           s.ask = r.ask, s.todo = r.todo, s.found = r.found, s.broken \in BOOLEAN,
           r.pc \notin Serving => s.sends = {}, \A x \in s.sends : Message(x)
    PROVE  Typed(s) /\ \A db : Sees(r, db) => Sees(s, db)
<1>1. Asks(s) = Asks(r)
  BY DEF Asks
<1>2. Typed(s)
  BY <1>1 DEF Typed
<1>3. \A db : Sees(r, db) => Sees(s, db)
  BY DEF Sees
<1> QED
  BY <1>2, <1>3

LEMMA BrokenTyped ==
    ASSUME NEW r, ProcOk(r), Typed(r)
    PROVE  Typed(Broken(r)) /\ \A db : Sees(r, db) => Sees(Broken(r), db)
<1> DEFINE s == Broken(r)
<1>1. /\ s.pc = r.pc /\ s.kind = r.kind /\ s.app = r.app /\ s.ask = r.ask
      /\ s.todo = r.todo /\ s.found = r.found /\ s.broken = TRUE /\ s.sends = r.sends
  BY DEF Broken, ProcOk, Fields
<1>2. (r.pc \notin Serving => s.sends = {}) /\ \A x \in s.sends : Message(x)
  BY <1>1 DEF Typed
<1> HIDE DEF s
<1>3. Typed(s) /\ \A db : Sees(r, db) => Sees(s, db)
  BY <1>1, <1>2, StillTyped
<1> QED
  BY <1>3 DEF s

LEMMA ClosingTyped ==
    ASSUME NEW r, ProcOk(r), Typed(r)
    PROVE  /\ Typed(Closing(r)) /\ Closing(r).pc # "ended"
           /\ \A db : Sees(Closing(r), db)
<1> DEFINE s == Closing(r)
<1>1. s.pc = "closing" /\ s.sends = {} /\ s.broken = r.broken
  BY DEF Closing, ProcOk, Fields
<1> HIDE DEF s
<1>2. Typed(s) /\ \A db : Sees(s, db)
  BY <1>1 DEF Typed, Sees, Pcs, Starting, Serving, Asks
<1> QED
  BY <1>1, <1>2 DEF s

(* A daemon that is up, or a process that goes on to a later step of check.*)
LEMMA ServingTyped ==
    ASSUME NEW r, NEW s, Typed(r), r.pc \in Starting \cup Serving,
           s.pc \in Serving, s.app = r.app, s.ask = r.ask,
           s.broken = r.broken, s.pc \in {"ensure", "check"} => Asks(r),
           \A x \in s.sends : Message(x)
    PROVE  Typed(s) /\ s.pc # "ended" /\ \A db : Sees(s, db)
<1>1. Asks(s) => Asks(r)
  BY DEF Asks, Serving, Starting
<1>2. Typed(s)
  BY <1>1 DEF Typed, Pcs, Serving, Starting
<1>3. s.pc # "ended" /\ \A db : Sees(s, db)
  BY DEF Sees, Serving, Starting
<1> QED
  BY <1>2, <1>3

(* The messages of a check.                                                *)
LEMMA SendsTyped ==
    ASSUME NEW row \in RowType, NEW by
    PROVE  \A x \in Sends(row, by) : Message(x)
<1>1. row.name \in Domain /\ \A i \in DOMAIN row.channels : row.channels[i] \in STRING
  BY DEF RowType
<1> QED
  BY <1>1 DEF Sends, Message

---------------------------------------------------------------------------
(* The actions, again.                                                     *)

LEMMA ServeInit == Init => ServeInv
<1> SUFFICES ASSUME Init PROVE ServeInv
  OBVIOUS
<1>1. Typed(Ended) /\ \A db : Sees(Ended, db)
  BY DEF Typed, Sees, Ended, Pcs, Starting, Serving, Asks
<1>2. DbOk(EmptyDb)
  <2>1. IsFiniteSet(EmptyDb.rules)
    BY FS_EmptySet DEF EmptyDb
  <2> QED
    BY <2>1 DEF DbOk, DbType, EmptyDb, Tables
<1> QED
  BY <1>1, <1>2, GrowsOn, ProcAssumption DEF Init, ServeInv

LEMMA LaunchServes ==
    ASSUME LifeInv, ServeInv, NEW p \in Proc, NEW kind \in Kind, NEW flag \in Flag, NEW env,
           Launch(p, kind, flag, env)
    PROVE  ServeInv'
<1> DEFINE place == ResolveConfigPath(flag, files)
           cfg == IF place = None THEN None ELSE LoadConfig(files[place], env)
           app == IF cfg = None THEN None ELSE ComposeFromConfig(cfg)
<1>1. UNCHANGED <<disk, work, lock>> /\ proc[p].pc = "ended" /\ lock # p
  BY ProcAssumption DEF Launch, ServeInv
<1>2. CASE UNCHANGED proc
  BY <1>1, <1>2 DEF ServeInv, Seen
<1>3. ASSUME NEW ask, app # None, Goto(p, Begin(kind, app, ask)),
             kind = "check" => ask.checker \in DOMAIN app.checkers
      PROVE  ServeInv'
  <2> DEFINE r == Begin(kind, app, ask)
  <2>1. Wired(app) /\ DOMAIN app.checkers \subseteq STRING
    BY <1>3, AppWired DEF LifeInv
  <2> HIDE DEF app
  <2>2. /\ r.kind = kind /\ r.app = app /\ r.ask = ask /\ r.sends = {} /\ r.broken = FALSE
        /\ r.pc = IF kind = "rules" THEN "rules" ELSE "start"
        /\ r.todo = IF kind = "rules" THEN <<>> ELSE app.initial
    BY DEF Begin, Ended
  <2> HIDE DEF r
  <2>3. Asks(r) => kind = "check"
    BY <2>2, CommandsAssumption DEF Asks, Starting
  <2>4. Typed(r)
    BY <1>3, <2>1, <2>2, <2>3 DEF Typed, Pcs, Starting, Serving
  <2>5. Sees(r, Seen(p))
    BY <2>2 DEF Sees, Starting, ToSet
  <2> QED
    BY <1>1, <1>3, <2>4, <2>5, SameServes DEF r
<1>4. \/ UNCHANGED proc
      \/ app # None /\ kind # "check" /\ Goto(p, Begin(kind, app, None))
      \/ /\ app # None
         /\ \E name : \E c \in DOMAIN app.checkers :
               Goto(p, Begin(kind, app, [name |-> name, checker |-> c]))
  BY DEF Launch
<1> HIDE DEF app
<1> QED
  BY <1>2, <1>3, <1>4

(* The rows still to be seeded are rows of the file.                       *)
LEMMA TodoRows ==
    ASSUME NEW r, ProcOk(r), Typed(r), r.pc \in Starting
    PROVE  /\ r.todo \in Seq(RowType)
           /\ \A i \in DOMAIN r.app.initial : r.app.initial[i] \in RowType
<1>1. r.todo \in Seq(ToSet(r.app.initial)) /\ r.app.initial \in Seq(RowType)
  BY DEF ProcOk, Typed, Wired
<1>2. \A i \in DOMAIN r.app.initial : r.app.initial[i] \in RowType
  BY <1>1
<1>3. ToSet(r.app.initial) \subseteq RowType
  BY <1>2 DEF ToSet
<1>4. Len(r.todo) \in Nat /\ r.todo \in [1..Len(r.todo) -> RowType]
  BY <1>1, <1>3, LenProperties
<1> QED
  BY <1>2, <1>4, IsASeq

LEMMA LookServes ==
    ASSUME LifeInv, ServeInv, NEW p \in Proc, Look(p)
    PROVE  ServeInv'
<1> DEFINE head == Head(proc[p].todo)
           r == [proc[p] EXCEPT !.pc = "seed", !.found = Seen(p).rows[head.name]]
<1>1. /\ Goto(p, r) /\ UNCHANGED <<disk, work, lock>>
      /\ proc[p].pc = "start" /\ proc[p].todo # <<>>
  BY DEF Look
<1>2. /\ ProcOk(proc[p]) /\ Typed(proc[p]) /\ Sees(proc[p], Seen(p)) /\ DbOk(Seen(p))
      /\ DOMAIN proc[p] = Fields
  BY SeenOk DEF LifeInv, ProcInv, ProcOk
<1>3. head \in RowType /\ head.name \in Domain
  <2>1. proc[p].todo \in Seq(RowType)
    BY <1>1, <1>2, TodoRows DEF Starting
  <2>2. head \in RowType
    BY <1>1, <2>1, HeadTailProperties
  <2> QED
    BY <2>2 DEF RowType
<1>4. Seen(p).rows[head.name] = None \/ Seen(p).rows[head.name] \in RowType
  BY <1>2, <1>3 DEF DbOk, DbType
<1> HIDE DEF head
<1>5. /\ r.pc = "seed" /\ r.todo = proc[p].todo /\ r.found = Seen(p).rows[head.name]
      /\ r.app = proc[p].app /\ r.kind = proc[p].kind /\ r.ask = proc[p].ask
      /\ r.sends = proc[p].sends /\ r.broken = proc[p].broken
  BY <1>2 DEF Fields
<1> HIDE DEF r
<1>6. Asks(r) => Asks(proc[p])
  BY <1>1, <1>5 DEF Asks, Starting
<1>7. Typed(r)
  BY <1>1, <1>2, <1>4, <1>5, <1>6 DEF Typed, Pcs, Starting, Serving
<1>8. Sees(r, Seen(p))
  BY <1>1, <1>2, <1>5 DEF Sees, Starting
<1> QED
  BY <1>1, <1>5, <1>7, <1>8, SameServes

LEMMA SeedServes ==
    ASSUME LifeInv, ServeInv, NEW p \in Proc, Seed(p)
    PROVE  ServeInv'
<1> DEFINE todo == proc[p].todo
           r == [proc[p] EXCEPT !.pc = "start", !.todo = Tail(@), !.found = None]
           row == Seeded(p)
           db == WithRow(Seen(p), row)
<1>1. proc[p].pc = "seed" /\ todo # <<>> /\ DOMAIN proc[p] = Fields
      /\ ProcOk(proc[p]) /\ Typed(proc[p]) /\ Sees(proc[p], Seen(p)) /\ DbOk(Seen(p))
  BY SeenOk DEF LifeInv, ProcInv, ProcOk, Seed
<1>2. CASE Flushes(p, db) /\ Goto(p, r)
  <2>1. /\ todo \in Seq(RowType)
        /\ \A i \in DOMAIN proc[p].app.initial : proc[p].app.initial[i] \in RowType
    BY <1>1, TodoRows DEF Starting
  <2>2. Head(todo) \in RowType
    BY <1>1, <2>1, HeadTailProperties
  <2>3. proc[p].found = None \/ proc[p].found \in RowType
    BY <1>1 DEF Typed
  <2>4. row \in RowType /\ row.name = Head(todo).name
    <3>1. (IF proc[p].found = None THEN 0 ELSE proc[p].found.last) \in Nat
      BY <2>3 DEF RowType
    <3> QED
      BY <2>2, <3>1 DEF Seeded, RowType
  <2> HIDE DEF row
  <2>5. DbOk(db) /\ Grows(Seen(p), db) /\ db.rows[Head(todo).name] # None
    BY <1>1, <2>4, WithRowOk
  <2>6. /\ r.pc = "start" /\ r.todo = Tail(todo)
        /\ r.app = proc[p].app /\ r.kind = proc[p].kind /\ r.ask = proc[p].ask
        /\ r.sends = proc[p].sends /\ r.broken = proc[p].broken
    BY <1>1 DEF Fields
  <2> HIDE DEF r, db
  <2>7. Asks(r) => Asks(proc[p])
    BY <1>1, <2>6 DEF Asks, Starting
  <2>8. Typed(r)
    BY <1>1, <2>6, <2>7 DEF Typed, Pcs, Starting, Serving
  <2>9. \A x \in ToSet(todo) : x = Head(todo) \/ x \in ToSet(Tail(todo))
    <3>1. SUFFICES ASSUME NEW j \in 1..Len(todo)
                   PROVE  todo[j] = Head(todo) \/ todo[j] \in ToSet(Tail(todo))
      BY <2>1, LenProperties DEF ToSet
    <3>2. /\ Len(todo) \in Nat /\ Tail(todo) \in Seq(RowType)
          /\ Len(Tail(todo)) = Len(todo) - 1
          /\ \A i \in 1..Len(Tail(todo)) : Tail(todo)[i] = todo[i + 1]
      BY <1>1, <2>1, HeadTailProperties, LenProperties
    <3>3. CASE j = 1
      BY <3>3, <2>1, <1>1
    <3>4. CASE j # 1
      <4>1. j - 1 \in 1..Len(Tail(todo)) /\ Tail(todo)[j - 1] = todo[j]
        BY <3>2, <3>4
      <4>2. DOMAIN Tail(todo) = 1..Len(Tail(todo))
        BY <3>2, LenProperties
      <4> QED
        BY <4>1, <4>2 DEF ToSet
    <3> QED
      BY <3>3, <3>4
  <2>10. Sees(r, db)
    <3>1. ASSUME NEW i \in DOMAIN r.app.initial
          PROVE  \/ r.app.initial[i] \in ToSet(r.todo)
                 \/ db.rows[r.app.initial[i].name] # None
      <4> DEFINE d == proc[p].app.initial[i]
      <4>1. d \in ToSet(todo) \/ Seen(p).rows[d.name] # None
        BY <1>1, <2>6, <3>1 DEF Sees, Starting
      <4>2. d \in RowType /\ d.name \in Domain
        BY <2>1, <2>6, <3>1 DEF RowType
      <4>3. Seen(p).rows[d.name] # None => db.rows[d.name] # None
        BY <2>5, <4>2 DEF Grows
      <4> QED
        BY <2>5, <2>6, <2>9, <4>1, <4>3
    <3> QED
      BY <2>6, <3>1 DEF Sees
  <2> QED
    BY <1>2, <2>5, <2>6, <2>8, <2>10, FlushServes
<1>3. CASE StartFails(p)
  BY <1>3, ExitServes DEF StartFails
<1> QED
  BY <1>2, <1>3 DEF Seed

LEMMA BootstrapServes ==
    ASSUME LifeInv, ServeInv, NEW p \in Proc, Bootstrap(p)
    PROVE  ServeInv'
<1>1. /\ proc[p].pc = "start" /\ DOMAIN proc[p] = Fields /\ Typed(proc[p])
  BY SeenOk DEF LifeInv, ProcInv, ProcOk, Bootstrap
<1>2. ASSUME NEW jobs,
             Goto(p, [proc[p] EXCEPT
                        !.pc = IF proc[p].kind = "run" THEN "up" ELSE "ensure",
                        !.jobs = jobs]),
             UNCHANGED <<disk, work, lock>>
      PROVE  ServeInv'
  <2> DEFINE r == [proc[p] EXCEPT !.pc = IF proc[p].kind = "run" THEN "up" ELSE "ensure",
                                  !.jobs = jobs]
  <2>1. /\ r.pc = (IF proc[p].kind = "run" THEN "up" ELSE "ensure")
        /\ r.app = proc[p].app /\ r.ask = proc[p].ask /\ r.sends = proc[p].sends
        /\ r.broken = proc[p].broken
    BY <1>1 DEF Fields
  <2>2. (r.pc \in {"ensure", "check"} => Asks(proc[p])) /\ \A x \in r.sends : Message(x)
    BY <1>1, <2>1 DEF Asks, Starting, Typed
  <2>3. Goto(p, r)
    BY <1>2
  <2> HIDE DEF r
  <2>4. Typed(r) /\ r.pc # "ended" /\ Sees(r, Seen(p))
    BY <1>1, <2>1, <2>2, ServingTyped DEF Starting, Serving
  <2> QED
    BY <1>2, <2>3, <2>4, SameServes
<1>3. CASE StartFails(p)
  BY <1>3, ExitServes DEF StartFails
<1>4. \/ StartFails(p)
      \/ \E jobs :
            /\ Goto(p, [proc[p] EXCEPT
                        !.pc = IF proc[p].kind = "run" THEN "up" ELSE "ensure",
                        !.jobs = jobs])
            /\ UNCHANGED <<disk, work, lock>>
  BY DEF Bootstrap
<1> QED
  BY <1>2, <1>3, <1>4

(* A process that serves counts on nothing in the database.                *)
LEMMA ServingSees ==
    ASSUME NEW r, r.pc \in Serving
    PROVE  r.pc # "ended" /\ \A db : Sees(r, db)
BY DEF Serving, Starting, Sees

LEMMA JobServes ==
    ASSUME LifeInv, ServeInv, NEW p \in Proc, NEW d \in Domain, Job(p, d)
    PROVE  ServeInv'
<1> DEFINE row == Seen(p).rows[d]
           db == WithRow(Seen(p), Checked(row))
           more(x) == [proc[p] EXCEPT !.sends = @ \cup x]
<1>1. /\ ProcOk(proc[p]) /\ DOMAIN proc[p] = Fields /\ Typed(proc[p])
      /\ proc[p].pc \in Serving /\ row # None /\ DbOk(Seen(p))
  BY SeenOk DEF LifeInv, ProcInv, ProcOk, Job, CanCheck
<1>2. DbOk(db) /\ Grows(Seen(p), db)
  BY <1>1, CheckedOk
<1>3. row \in RowType
  BY <1>1 DEF DbOk, DbType
<1>4. \A x \in Sends(row, "job") : Message(x)
  BY <1>3, SendsTyped
<1> HIDE DEF db, row
<1>5. ASSUME Flushes(p, db), Goto(p, proc[p]) PROVE ServeInv'
  BY <1>1, <1>2, <1>5, ServingSees, FlushServes
<1>6. ASSUME Flushes(p, db), Goto(p, more(Sends(row, "job"))) PROVE ServeInv'
  <2> DEFINE x == Sends(row, "job")
             r == more(x)
  <2> HIDE DEF x
  <2>1. /\ r.pc = proc[p].pc /\ r.kind = proc[p].kind /\ r.app = proc[p].app
        /\ r.ask = proc[p].ask /\ r.todo = proc[p].todo /\ r.found = proc[p].found
        /\ r.broken = proc[p].broken /\ r.sends = proc[p].sends \cup x
    BY <1>1 DEF Fields
  <2>2. Goto(p, r)
    BY <1>6 DEF x
  <2> HIDE DEF r
  <2>3. \A y \in r.sends : Message(y)
    BY <1>1, <1>4, <2>1 DEF Typed, x
  <2>4. Typed(r)
    BY <1>1, <2>1, <2>3, StillTyped DEF Typed
  <2> QED
    BY <1>1, <1>2, <1>6, <2>1, <2>2, <2>4, ServingSees, FlushServes
<1>7. ASSUME FlushRaises(p, db), Goto(p, Broken(proc[p])) PROVE ServeInv'
  <2>1. Typed(Broken(proc[p])) /\ Broken(proc[p]).pc = proc[p].pc
    BY <1>1, BrokenTyped, BrokenOk
  <2> QED
    BY <1>1, <1>7, <2>1, ServingSees, SameServes DEF FlushRaises
<1>8. \/ Flushes(p, db) /\ Goto(p, proc[p])
      \/ Flushes(p, db) /\ Goto(p, more(Sends(row, "job")))
      \/ FlushRaises(p, db) /\ Goto(p, Broken(proc[p]))
  BY DEF Job, db, row
<1> QED
  BY <1>5, <1>6, <1>7, <1>8

LEMMA DeliverServes ==
    ASSUME LifeInv, ServeInv, NEW p \in Proc, NEW x \in proc[p].sends, Deliver(p, x)
    PROVE  ServeInv'
<1> DEFINE db == [Seen(p) EXCEPT !.keys = @ \cup {<<x.name, x.channel>>}]
           done == [proc[p] EXCEPT !.sends = @ \ {x}]
<1>1. /\ ProcOk(proc[p]) /\ DOMAIN proc[p] = Fields /\ Typed(proc[p]) /\ DbOk(Seen(p))
  BY SeenOk DEF LifeInv, ProcInv, ProcOk
<1>2. proc[p].pc \in Serving /\ Message(x)
  BY <1>1 DEF Typed
<1>3. DbOk(db) /\ Grows(Seen(p), db)
  BY <1>1, <1>2, KeyOk DEF Message
<1>4. /\ done.pc = proc[p].pc /\ done.kind = proc[p].kind /\ done.app = proc[p].app
      /\ done.ask = proc[p].ask /\ done.todo = proc[p].todo /\ done.found = proc[p].found
      /\ done.broken = proc[p].broken /\ done.sends \subseteq proc[p].sends
      /\ DOMAIN done = Fields
  BY <1>1 DEF Fields
<1>5. \/ Goto(p, done) /\ UNCHANGED <<disk, work, lock>>
      \/ Flushes(p, db) /\ Goto(p, done)
      \/ Rollback(p) /\ Goto(p, done)
      \/ Goto(p, Broken(done)) /\ UNCHANGED <<disk, work, lock>>
  BY DEF Deliver
<1> HIDE DEF db, done
<1>6. \A y \in done.sends : Message(y)
  BY <1>1, <1>4 DEF Typed
<1>7. Typed(done) /\ done.pc \in Serving
  BY <1>1, <1>2, <1>4, <1>6, StillTyped DEF Typed
<1>8. Typed(Broken(done)) /\ Broken(done).pc \in Serving
  <2>1. ProcOk(done)
    BY <1>1, <1>2, <1>4, StillOk DEF ProcOk, Serving
  <2> QED
    BY <1>7, <2>1, BrokenTyped, BrokenOk
<1>9. CASE Goto(p, done) /\ UNCHANGED <<disk, work, lock>>
  BY <1>7, <1>9, ServingSees, SameServes
<1>10. CASE Flushes(p, db) /\ Goto(p, done)
  BY <1>3, <1>7, <1>10, ServingSees, FlushServes
<1>11. CASE Rollback(p) /\ Goto(p, done)
  BY <1>7, <1>11, ServingSees, RollbackServes
<1>12. CASE Goto(p, Broken(done)) /\ UNCHANGED <<disk, work, lock>>
  BY <1>8, <1>12, ServingSees, SameServes
<1> QED
  BY <1>5, <1>9, <1>10, <1>11, <1>12

LEMMA LearnServes ==
    ASSUME LifeInv, ServeInv, NEW p \in Proc, NEW x \in Rule, Learn(p, x)
    PROVE  ServeInv'
<1> DEFINE db == [Seen(p) EXCEPT !.rules = @ \cup {x}]
<1>1. /\ ProcOk(proc[p]) /\ Typed(proc[p]) /\ DbOk(Seen(p)) /\ proc[p].pc \in Serving
  BY SeenOk DEF LifeInv, ProcInv, Learn
<1>2. DbOk(db) /\ Grows(Seen(p), db)
  BY <1>1, RuleOk
<1>3. Typed(Broken(proc[p])) /\ Broken(proc[p]).pc \in Serving
  BY <1>1, BrokenTyped, BrokenOk
<1>4. \/ Flushes(p, db) /\ Goto(p, proc[p])
      \/ Rollback(p) /\ Goto(p, proc[p])
      \/ Goto(p, Broken(proc[p])) /\ UNCHANGED <<disk, work, lock>>
  BY DEF Learn
<1> HIDE DEF db
<1>5. CASE Flushes(p, db) /\ Goto(p, proc[p])
  BY <1>1, <1>2, <1>5, ServingSees, FlushServes
<1>6. CASE Rollback(p) /\ Goto(p, proc[p])
  BY <1>1, <1>6, ServingSees, RollbackServes
<1>7. CASE Goto(p, Broken(proc[p])) /\ UNCHANGED <<disk, work, lock>>
  BY <1>3, <1>7, ServingSees, SameServes
<1> QED
  BY <1>4, <1>5, <1>6, <1>7

LEMMA StopBegins ==
    ASSUME LifeInv, ServeInv, NEW p \in Proc, Goto(p, Closing(proc[p])),
           UNCHANGED <<disk, work, lock>>
    PROVE  ServeInv'
<1>1. ProcOk(proc[p]) /\ Typed(proc[p])
  BY SeenOk DEF LifeInv, ProcInv
<1> QED
  BY <1>1, ClosingTyped, SameServes

(* The same after a flush that met a locked database.                      *)
LEMMA StopBeginsBroken ==
    ASSUME LifeInv, ServeInv, NEW p \in Proc, Goto(p, Closing(Broken(proc[p]))),
           UNCHANGED <<disk, work, lock>>
    PROVE  ServeInv'
<1>1. ProcOk(Broken(proc[p])) /\ Typed(Broken(proc[p]))
  BY SeenOk, BrokenTyped, BrokenOk DEF LifeInv, ProcInv
<1> QED
  BY <1>1, ClosingTyped, SameServes

LEMMA EnsureServes ==
    ASSUME LifeInv, ServeInv, NEW p \in Proc, Ensure(p)
    PROVE  ServeInv'
<1> DEFINE ask == proc[p].ask
           old == Seen(p).rows[ask.name]
           none == DOMAIN proc[p].app.notifiers = {}
           db == WithRow(Seen(p), EnsuredRow(p))
           next == [proc[p] EXCEPT !.pc = "check"]
           added == [proc[p] EXCEPT !.pc = "check", !.jobs = (ask.name :> DefaultCron) @@ @]
<1>1. /\ ProcOk(proc[p]) /\ DOMAIN proc[p] = Fields /\ Typed(proc[p]) /\ DbOk(Seen(p))
      /\ proc[p].pc = "ensure" /\ proc[p].pc \in Serving
  BY SeenOk DEF LifeInv, ProcInv, ProcOk, Ensure, Serving
<1>2. ask.name \in Domain /\ ask.checker \in STRING /\ Wired(proc[p].app) /\ Asks(proc[p])
  BY <1>1 DEF ProcOk, Typed, Asks
<1>3. ASSUME ~none PROVE DbOk(db) /\ Grows(Seen(p), db)
  <2>1. (CHOOSE id \in DOMAIN proc[p].app.notifiers : TRUE) \in STRING
    <3>1. (CHOOSE id \in DOMAIN proc[p].app.notifiers : TRUE) \in DOMAIN proc[p].app.notifiers
      BY <1>3
    <3> QED
      BY <1>2, <3>1 DEF Wired
  <2>2. (IF old = None THEN 0 ELSE old.last) \in Nat
    <3>1. old = None \/ old \in RowType
      BY <1>1, <1>2 DEF DbOk, DbType
    <3> QED
      BY <3>1 DEF RowType
  <2>3. EnsuredRow(p) \in RowType
    <3> DEFINE first == CHOOSE id \in DOMAIN proc[p].app.notifiers : TRUE
               last == IF old = None THEN 0 ELSE old.last
    <3>1. EnsuredRow(p) = [name |-> ask.name, cron |-> DefaultCron, checker |-> ask.checker,
                           channels |-> <<first>>, last |-> last]
      BY DEF EnsuredRow
    <3> HIDE DEF first, last
    <3>2. <<first>> \in Seq(STRING) /\ last \in Nat
      BY <2>1, <2>2 DEF first, last
    <3> QED
      BY <1>2, <3>1, <3>2 DEF RowType
  <2> QED
    BY <1>1, <2>3, WithRowOk
<1>4. Typed(next) /\ next.pc \in Serving
  <2>1. /\ next.pc = "check" /\ next.app = proc[p].app /\ next.ask = proc[p].ask
        /\ next.broken = proc[p].broken /\ next.sends = proc[p].sends
    BY <1>1 DEF Fields
  <2> HIDE DEF next
  <2>2. \A x \in next.sends : Message(x)
    BY <1>1, <2>1 DEF Typed
  <2> QED
    BY <1>1, <1>2, <2>1, <2>2, ServingTyped DEF Serving
<1>5. Typed(added) /\ added.pc \in Serving
  <2> DEFINE jobs == (ask.name :> DefaultCron) @@ proc[p].jobs
  <2>1. added = [proc[p] EXCEPT !.pc = "check", !.jobs = jobs]
    OBVIOUS
  <2> HIDE DEF jobs
  <2>2. /\ added.pc = "check" /\ added.app = proc[p].app /\ added.ask = proc[p].ask
        /\ added.broken = proc[p].broken /\ added.sends = proc[p].sends
    BY <1>1, <2>1 DEF Fields
  <2> HIDE DEF added
  <2>3. \A x \in added.sends : Message(x)
    BY <1>1, <2>2 DEF Typed
  <2> QED
    BY <1>1, <1>2, <2>2, <2>3, ServingTyped DEF Serving
<1>6. \/ Goto(p, Closing(proc[p])) /\ UNCHANGED <<disk, work, lock>>
      \/ Goto(p, next) /\ UNCHANGED <<disk, work, lock>>
      \/ ~none /\ Flushes(p, db) /\ Goto(p, added)
      \/ FlushRaises(p, db) /\ Goto(p, Closing(Broken(proc[p])))
  BY DEF Ensure
<1> HIDE DEF db, next, added, none
<1>7. CASE Goto(p, Closing(proc[p])) /\ UNCHANGED <<disk, work, lock>>
  BY <1>7, StopBegins
<1>8. CASE Goto(p, next) /\ UNCHANGED <<disk, work, lock>>
  BY <1>4, <1>8, ServingSees, SameServes
<1>9. CASE ~none /\ Flushes(p, db) /\ Goto(p, added)
  BY <1>3, <1>5, <1>9, ServingSees, FlushServes
<1>10. CASE FlushRaises(p, db) /\ Goto(p, Closing(Broken(proc[p])))
  BY <1>10, StopBeginsBroken DEF FlushRaises
<1> QED
  BY <1>6, <1>7, <1>8, <1>9, <1>10

LEMMA CheckNowServes ==
    ASSUME LifeInv, ServeInv, NEW p \in Proc, CheckNow(p)
    PROVE  ServeInv'
<1> DEFINE d == proc[p].ask.name
           row == Seen(p).rows[d]
           db == WithRow(Seen(p), Checked(row))
           next == [proc[p] EXCEPT !.pc = "deliver"]
           sent == [proc[p] EXCEPT !.pc = "deliver", !.sends = @ \cup Sends(row, "call")]
<1>1. /\ ProcOk(proc[p]) /\ DOMAIN proc[p] = Fields /\ Typed(proc[p]) /\ DbOk(Seen(p))
      /\ proc[p].pc = "check" /\ proc[p].pc \in Serving
  BY SeenOk DEF LifeInv, ProcInv, ProcOk, CheckNow, Serving
<1>2. d \in Domain
  BY <1>1 DEF ProcOk
<1>3. ASSUME CanCheck(p, d)
      PROVE  DbOk(db) /\ Grows(Seen(p), db) /\ \A x \in Sends(row, "call") : Message(x)
  <2>1. row # None
    BY <1>3 DEF CanCheck
  <2>2. row \in RowType
    BY <1>1, <1>2, <2>1 DEF DbOk, DbType
  <2>3. DbOk(db) /\ Grows(Seen(p), db)
    <3> HIDE DEF d
    <3> QED
      BY <1>1, <1>2, <2>1, CheckedOk
  <2> QED
    BY <2>2, <2>3, SendsTyped
<1>4. Typed(next) /\ next.pc \in Serving
  <2>1. /\ next.pc = "deliver" /\ next.app = proc[p].app /\ next.ask = proc[p].ask
        /\ next.broken = proc[p].broken /\ next.sends = proc[p].sends
    BY <1>1 DEF Fields
  <2> HIDE DEF next
  <2>2. \A x \in next.sends : Message(x)
    BY <1>1, <2>1 DEF Typed
  <2> QED
    BY <1>1, <2>1, <2>2, ServingTyped DEF Serving
<1>5. ASSUME CanCheck(p, d) PROVE Typed(sent) /\ sent.pc \in Serving
  <2> DEFINE new == Sends(row, "call")
  <2> HIDE DEF new
  <2>1. sent = [proc[p] EXCEPT !.pc = "deliver", !.sends = @ \cup new]
    BY DEF new
  <2>2. /\ sent.pc = "deliver" /\ sent.app = proc[p].app /\ sent.ask = proc[p].ask
        /\ sent.broken = proc[p].broken /\ sent.sends = proc[p].sends \cup new
    BY <1>1, <2>1 DEF Fields
  <2> HIDE DEF sent
  <2>3. \A x \in sent.sends : Message(x)
    BY <1>1, <1>3, <1>5, <2>2 DEF Typed, new
  <2> QED
    BY <1>1, <2>2, <2>3, ServingTyped DEF Serving
<1>6. \/ Goto(p, Closing(proc[p])) /\ UNCHANGED <<disk, work, lock>>
      \/ /\ CanCheck(p, d) /\ Flushes(p, db)
         /\ Goto(p, next) \/ Goto(p, sent) \/ Goto(p, Closing(proc[p]))
      \/ FlushRaises(p, db) /\ Goto(p, Closing(Broken(proc[p])))
  BY DEF CheckNow
<1> HIDE DEF d, db, next, sent
<1>7. CASE Goto(p, Closing(proc[p])) /\ UNCHANGED <<disk, work, lock>>
  BY <1>7, StopBegins
<1>8. CASE /\ CanCheck(p, d) /\ Flushes(p, db)
           /\ Goto(p, next) \/ Goto(p, sent) \/ Goto(p, Closing(proc[p]))
  <2>1. CASE Goto(p, next) \/ Goto(p, sent)
    BY <1>3, <1>4, <1>5, <1>8, <2>1, ServingSees, FlushServes
  <2>2. CASE Goto(p, Closing(proc[p]))
    BY <1>1, <1>3, <1>8, <2>2, ClosingTyped, FlushServes
  <2> QED
    BY <1>8, <2>1, <2>2
<1>9. CASE FlushRaises(p, db) /\ Goto(p, Closing(Broken(proc[p])))
  BY <1>9, StopBeginsBroken DEF FlushRaises
<1> QED
  BY <1>6, <1>7, <1>8, <1>9

LEMMA CloseHookServes ==
    ASSUME LifeInv, ServeInv, NEW p \in Proc, CloseHook(p)
    PROVE  ServeInv'
<1> DEFINE r == [proc[p] EXCEPT !.todo = Tail(@)]
<1>1. /\ ProcOk(proc[p]) /\ DOMAIN proc[p] = Fields /\ Typed(proc[p])
      /\ proc[p].pc = "closing"
  BY SeenOk DEF LifeInv, ProcInv, ProcOk, CloseHook
<1>2. Goto(p, r) /\ (Commit(p) \/ UNCHANGED <<disk, work, lock>>)
  BY DEF CloseHook
<1>3. r.pc = "closing" /\ r.sends = proc[p].sends /\ r.broken = proc[p].broken
  BY <1>1 DEF Fields
<1> HIDE DEF r
<1>4. Typed(r) /\ \A db : Sees(r, db)
  BY <1>1, <1>3 DEF Typed, Sees, Pcs, Asks, Starting, Serving
<1>5. r.pc # "ended"
  BY <1>3
<1> QED
  BY <1>2, <1>4, <1>5, CommitServes, SameServes

(* A listing of a finite set lists its elements.                           *)
LEMMA ListedElements ==
    ASSUME NEW S, IsFiniteSet(S)
    PROVE  SetToSeq(S) \in Seq(S)
<1>1. Cardinality(S) \in Nat /\ ExistsBijection(1..Cardinality(S), S)
  BY FS_CardinalityType
<1>2. \E f \in [1..Cardinality(S) -> S] : IsInjective(f)
  BY <1>1 DEF ExistsBijection, Bijection, Injection, IsInjective
<1>3. SetToSeq(S) \in [1..Cardinality(S) -> S]
  BY <1>2 DEF SetToSeq
<1> QED
  BY <1>1, <1>3, IsASeq

LEMMA PickedServes ==
    ASSUME LifeInv, ServeInv, NEW p \in Proc, NEW how \in {"disable", "mark"},
           NEW list \in Seq(Seen(p).rules), proc[p].pc = "rules", Picked(p, how, list)
    PROVE  ServeInv'
<1> DEFINE r == [proc[p] EXCEPT !.pc = how, !.todo = list]
<1>1. DOMAIN proc[p] = Fields /\ Typed(proc[p])
  BY SeenOk DEF LifeInv, ProcInv, ProcOk
<1>2. Goto(p, r) /\ UNCHANGED <<disk, work, lock>>
  BY DEF Picked
<1>3. /\ r.pc = how /\ r.todo = list /\ r.sends = proc[p].sends
      /\ r.broken = proc[p].broken
  BY <1>1 DEF Fields
<1> HIDE DEF r
<1>4. Typed(r)
  BY <1>1, <1>3 DEF Typed, Pcs, Asks, Starting, Serving
<1>5. Sees(r, Seen(p)) /\ r.pc # "ended"
  BY <1>3 DEF Sees, Starting
<1> QED
  BY <1>2, <1>4, <1>5, SameServes

LEMMA PickServes ==
    ASSUME LifeInv, ServeInv, NEW p \in Proc, Pick(p)
    PROVE  ServeInv'
<1>1. proc[p].pc = "rules" /\ IsFiniteSet(Seen(p).rules)
  BY SeenOk DEF Pick, DbOk
<1>2. \/ Exit(p)
      \/ \E how \in {"disable", "mark"} :
            \/ \E x \in Seen(p).rules : Picked(p, how, <<x>>)
            \/ \E some \in SUBSET Seen(p).rules : Picked(p, how, SetToSeq(some))
  BY DEF Pick
<1>3. \A x \in Seen(p).rules : <<x>> \in Seq(Seen(p).rules)
  <2>1. ASSUME NEW S, NEW x \in S PROVE <<x>> \in Seq(S)
    BY <2>1
  <2> QED
    BY <2>1
<1>4. ASSUME NEW some \in SUBSET Seen(p).rules
      PROVE  SetToSeq(some) \in Seq(Seen(p).rules)
  <2>1. SetToSeq(some) \in Seq(some)
    BY <1>1, ListedElements, FS_Subset
  <2>2. /\ Len(SetToSeq(some)) \in Nat
        /\ SetToSeq(some) \in [1..Len(SetToSeq(some)) -> Seen(p).rules]
    BY <2>1, LenProperties
  <2> QED
    BY <2>2, IsASeq
<1> QED
  BY <1>1, <1>2, <1>3, <1>4, ExitServes, PickedServes

LEMMA MutateServes ==
    ASSUME LifeInv, ServeInv, NEW p \in Proc, Mutate(p)
    PROVE  ServeInv'
<1> DEFINE todo == proc[p].todo
           x == Head(todo)
           db == IF proc[p].pc = "mark" THEN [Seen(p) EXCEPT !.marked = @ \cup {x}]
                 ELSE [Seen(p) EXCEPT !.disabled = @ \cup {x}]
           r == [proc[p] EXCEPT !.todo = Tail(@)]
<1>1. /\ DOMAIN proc[p] = Fields /\ Typed(proc[p]) /\ DbOk(Seen(p))
      /\ proc[p].pc \in {"disable", "mark"} /\ todo \in Seq(Seen(p).rules)
  BY SeenOk DEF LifeInv, ProcInv, ProcOk, Mutate, Sees
<1>2. CASE todo # <<>> /\ Flushes(p, db) /\ Goto(p, r)
  <2>1. x \in Seen(p).rules /\ Tail(todo) \in Seq(Seen(p).rules)
    BY <1>1, <1>2, HeadTailProperties
  <2>2. DbOk(db) /\ Grows(Seen(p), db) /\ db.rules = Seen(p).rules
    BY <1>1, <2>1, MarkOk
  <2>3. /\ r.pc = proc[p].pc /\ r.todo = Tail(todo) /\ r.sends = proc[p].sends
        /\ r.broken = proc[p].broken
    BY <1>1 DEF Fields
  <2> HIDE DEF db, r
  <2>4. Typed(r)
    BY <1>1, <2>3 DEF Typed, Pcs, Asks, Starting, Serving
  <2>5. Sees(r, db) /\ r.pc # "ended"
    BY <1>1, <2>1, <2>2, <2>3 DEF Sees, Starting
  <2> QED
    BY <1>2, <2>2, <2>4, <2>5, FlushServes
<1>3. CASE Exit(p)
  BY <1>3, ExitServes
<1> QED
  BY <1>2, <1>3 DEF Mutate

LEMMA ServeInductive == LifeInv /\ ServeInv /\ [Next]_vars => ServeInv'
<1> SUFFICES ASSUME LifeInv, ServeInv, [Next]_vars PROVE ServeInv'
  OBVIOUS
<1>1. CASE UNCHANGED vars
  BY <1>1 DEF vars, ServeInv, Seen
<1>2. CASE Next
  <2>1. PICK p \in Proc : Step(p)
    BY <1>2 DEF Next, Step
  <2>2. CASE \E kind \in Kind, flag \in Flag, env \in Environments :
                Launch(p, kind, flag, env)
    BY <2>2, LaunchServes
  <2>3. CASE Start(p)
    BY <2>3, LookServes, SeedServes, BootstrapServes DEF Start
  <2>4. CASE Checking(p)
    BY <2>4, EnsureServes, CheckNowServes, StopBegins, JobServes, LearnServes, DeliverServes
       DEF Checking, Gathered
  <2>5. CASE Stop(p)
    BY <2>5, StopBegins, CloseHookServes, ExitServes DEF Stop, Stopped, Signal
  <2>6. CASE Pick(p) \/ Mutate(p)
    BY <2>6, PickServes, MutateServes
  <2>7. CASE Kill(p)
    BY <2>7, ExitServes DEF Kill
  <2> QED
    BY <2>1, <2>2, <2>3, <2>4, <2>5, <2>6, <2>7 DEF Step
<1> QED
  BY <1>1, <1>2

LEMMA ServeAlways == Spec => []ServeInv
<1> QED
  BY ServeInit, ServeInductive, LifeAlways, PTL DEF Spec

(* Whatever commands run beside each other and whichever die: rows are     *)
(* filed under their own name with a cron the schema let through, a rule   *)
(* that is marked or disabled exists, since nobody takes it away between   *)
(* the listing and the update of a rules command, and the open transaction *)
(* has a process that can still end it.                                    *)
THEOREM DatabaseTyped == Spec => []TypeOK
<1>1. ServeInv => TypeOK
  BY DEF ServeInv, DbOk, Typed, TypeOK
<1> QED
  BY <1>1, ServeAlways, PTL

(* Of the steps of a starting process only Bootstrap makes it serve.       *)
LEMMA ServesByBootstrap ==
    ASSUME LifeInv, NEW p \in Proc, Step(p), proc[p].pc = "start",
           proc'[p].pc \in Serving, proc[p].sends = {}
    PROVE  Bootstrap(p)
<1>1. ProcOk(proc[p]) /\ ProcInv /\ DOMAIN proc[p] = Fields
  BY DEF LifeInv, ProcInv, ProcOk
<1>2. \A r : Goto(p, r) => proc'[p] = r
  BY <1>1, Moves
<1>3. ~Exit(p)
  BY <1>2 DEF Exit, Ended, Serving
<1>4. ~Look(p)
  <2> DEFINE r == [proc[p] EXCEPT !.pc = "seed",
                            !.found = Seen(p).rows[Head(proc[p].todo).name]]
  <2>1. r.pc = "seed"
    BY <1>1 DEF Fields
  <2> QED
    BY <1>2, <2>1 DEF Look, Serving
<1>5. ~Seed(p) /\ ~Signal(p) /\ ~CloseHook(p) /\ ~Stopped(p) /\ ~Pick(p) /\ ~Mutate(p)
  BY DEF Seed, Signal, CloseHook, Stopped, Pick, Mutate
<1>6. ~Checking(p)
  BY DEF Checking, Ensure, CheckNow, Gathered, Job, Learn, Serving
<1>7. \A kind, flag, env : ~Launch(p, kind, flag, env)
  BY DEF Launch
<1> QED
  BY <1>3, <1>4, <1>5, <1>6, <1>7 DEF Step, Start, Stop, Kill

(* When DomainWatcher.start returns every domain of the file is served:    *)
(* what the validators and compose_from_config check is enough for it, and *)
(* what other processes do to the database between the seeding and the     *)
(* start of the scheduler does not undo it.                                *)
THEOREM StartedServes == Spec => StartServes
<1> DEFINE Served(p) ==
      proc[p].pc = "start" /\ proc'[p].pc \in Serving =>
          \A i \in DOMAIN proc[p].app.initial :
              LET d == proc[p].app.initial[i]
              IN  /\ Seen(p).rows[d.name] # None
                  /\ d.name \in DOMAIN proc'[p].jobs
                  /\ d.checker \in DOMAIN proc[p].app.checkers
                  /\ \A ch \in ToSet(d.channels) :
                        /\ ch \in proc[p].app.channels
                        /\ ch \in DOMAIN proc[p].app.notifiers
<1>1. ASSUME LifeInv, ServeInv, [Next]_vars, NEW p \in Proc,
             proc[p].pc = "start", proc'[p].pc \in Serving,
             NEW i \in DOMAIN proc[p].app.initial
      PROVE  LET d == proc[p].app.initial[i]
             IN  /\ Seen(p).rows[d.name] # None
                 /\ d.name \in DOMAIN proc'[p].jobs
                 /\ d.checker \in DOMAIN proc[p].app.checkers
                 /\ \A ch \in ToSet(d.channels) :
                       /\ ch \in proc[p].app.channels
                       /\ ch \in DOMAIN proc[p].app.notifiers
  <2> DEFINE d == proc[p].app.initial[i]
             listed == {x \in Domain : Seen(p).rows[x] # None}
  <2>1. /\ ProcOk(proc[p]) /\ ProcInv /\ DOMAIN proc[p] = Fields
        /\ Typed(proc[p]) /\ Sees(proc[p], Seen(p))
    BY <1>1, SeenOk DEF LifeInv, ProcInv, ProcOk
  <2>2. proc'[p] # proc[p]
    BY <1>1 DEF Serving
  <2>3. PICK q \in Proc : Step(q)
    BY <1>1, <2>2 DEF Next, Step, vars
  <2>4. q = p
    BY <1>1, <2>2, <2>3, StepDoes, OthersAlone
  <2>5. Bootstrap(p)
    BY <1>1, <2>1, <2>3, <2>4, ServesByBootstrap DEF Typed, Serving
  <2>6. PICK crons : /\ crons = [x \in listed |-> Seen(p).rows[x].cron]
                     /\ Goto(p, [proc[p] EXCEPT
                          !.pc = IF proc[p].kind = "run" THEN "up" ELSE "ensure",
                          !.jobs = crons])
    <3>1. ~StartFails(p)
      <4>1. Goto(p, Ended) => proc'[p] = Ended
        BY <2>1, Moves
      <4> QED
        BY <1>1, <4>1 DEF StartFails, Exit, Ended, Serving
    <3> QED
      BY <2>5, <3>1 DEF Bootstrap
  <2>7. DOMAIN proc'[p].jobs = listed
    <3>1. DOMAIN crons = listed
      BY <2>6
    <3>2. proc'[p] = [proc[p] EXCEPT
                        !.pc = IF proc[p].kind = "run" THEN "up" ELSE "ensure",
                        !.jobs = crons]
      BY <2>1, <2>6, Moves
    <3>3. proc'[p].jobs = crons
      BY <2>1, <3>2 DEF Fields
    <3> QED
      BY <3>1, <3>3
  <2>8. d \in RowType /\ d.name \in Domain
    BY <1>1, <2>1, TodoRows DEF Starting, RowType
  <2>9. proc[p].todo = <<>>
    BY <2>5 DEF Bootstrap
  <2>10. Seen(p).rows[d.name] # None
    <3>1. d \notin ToSet(proc[p].todo)
      BY <2>9 DEF ToSet
    <3> QED
      BY <1>1, <2>1, <3>1 DEF Sees, Starting
  <2>11. Wired(proc[p].app)
    BY <1>1, <2>1 DEF Typed, Starting
  <2> QED
    BY <1>1, <2>7, <2>8, <2>10, <2>11 DEF Wired
<1>2. LifeInv /\ ServeInv /\ [Next]_vars => \A p \in Proc : Served(p)
  BY <1>1
<1>3. LifeInv /\ ServeInv /\ [Next]_vars =>
        [\A p \in Proc :
          proc[p].pc = "start" /\ proc'[p].pc \in Serving =>
              \A i \in DOMAIN proc[p].app.initial :
                  LET d == proc[p].app.initial[i]
                  IN  /\ Seen(p).rows[d.name] # None
                      /\ d.name \in DOMAIN proc'[p].jobs
                      /\ d.checker \in DOMAIN proc[p].app.checkers
                      /\ \A ch \in ToSet(d.channels) :
                            /\ ch \in proc[p].app.channels
                            /\ ch \in DOMAIN proc[p].app.notifiers]_vars
  BY <1>2
<1> QED
  BY <1>3, LifeAlways, ServeAlways, PTL DEF Spec, StartServes
============================================================================
