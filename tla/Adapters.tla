------------------------------ MODULE Adapters ------------------------------
(***************************************************************************)
(* The checkers and notifiers under the retry loops of check_domain and    *)
(* dispatch_notifications: concurrent calls that share the IANA bootstrap  *)
(* cache, the thread pool of to_thread and the machine the scripts run on, *)
(* over remote ends that are slow, silent or out of order.                 *)
(***************************************************************************)
EXTENDS Replies, FiniteSets

CONSTANTS
    Task,         \* checks and deliveries in progress
    Uses,         \* the adapters each of them may call
    MaxAttempts,  \* RetryPolicy.max_attempts
    Ttl,          \* lifetime of the IANA registry in the cache
    Workers,      \* threads of the loop's default executor
    MaxTime,      \* bound: time
    None          \* no registry cached

Checkers  == {"rdap", "whois", "script"}
Notifiers == {"telegram", "discord", "webhook", "email"}

(* RetryPolicy wants at least one attempt.                                 *)
ASSUME AdaptersAssumption ==
    /\ MaxAttempts \in Nat \ {0}
    /\ {Ttl, Workers, MaxTime} \subseteq Nat
    /\ \A t \in Task : Uses[t] \subseteq Checkers \cup Notifiers

VARIABLES
    now,
    cache,    \* IanaBootstrap._cache
    task,     \* the calls
    queued,   \* tasks whose whois job waits for a thread
    running,  \* tasks whose whois job has a thread
    orphans,  \* threads whose caller has given up
    procs     \* live script processes: <<task, "call" or "stray">>

vars == <<now, cache, task, queued, running, orphans, procs>>

(* stamp: the time read before the request to IANA; taken: when IANA       *)
(* served it.  accepted counts the messages the other end took, doubt says *)
(* whether an attempt left open if it was served; meaning is the last      *)
(* reply's.                                                                *)
Idle ==
    [kind |-> "none", pc |-> "idle", attempt |-> 0, stamp |-> 0, taken |-> 0,
     accepted |-> 0, doubt |-> FALSE, meaning |-> "answer",
     outcome |-> "ok"]

Init ==
    /\ now = 0
    /\ cache = None
    /\ task = [t \in Task |-> Idle]
    /\ queued = {}
    /\ running = {}
    /\ orphans = 0
    /\ procs = {}

Becomes(t, x) == task' = [task EXCEPT ![t] = x]

Tick ==
    /\ now < MaxTime
    /\ now' = now + 1
    /\ UNCHANGED <<cache, task, queued, running, orphans, procs>>

---------------------------------------------------------------------------
(* The retry loop.                                                         *)

Start(t, kind) ==
    /\ task[t].pc = "idle"
    /\ Becomes(t, [Idle EXCEPT !.kind = kind, !.pc = "begin", !.attempt = 1])
    /\ UNCHANGED <<now, cache, queued, running, orphans, procs>>

(* Mutant: the last attempt is retried as well.                            *)
Ended_OneMore(x, outcome, meaning) ==
    [x EXCEPT !.outcome = outcome, !.meaning = meaning,
              !.doubt = x.kind \in Notifiers
                          /\ (@ \/ meaning \in Uncertain),
              !.stamp = 0, !.taken = 0,
              !.pc = IF outcome = "transient" /\ x.attempt <= MaxAttempts
                     THEN "sleep"
                     ELSE IF outcome = "raise" THEN "raised" ELSE "publish"]

(* An attempt is over: another one after a delay, the event that says how  *)
(* it went, or an exception neither use case catches and no event.         *)
Ended(x, outcome, meaning) ==
    [x EXCEPT !.outcome = outcome, !.meaning = meaning,
              !.doubt = x.kind \in Notifiers
                          /\ (@ \/ meaning \in Uncertain),
              !.stamp = 0, !.taken = 0,
              !.pc = IF outcome = "transient" /\ x.attempt < MaxAttempts
                     THEN "sleep"
                     ELSE IF outcome = "raise" THEN "raised" ELSE "publish"]

Wake(t) ==
    /\ task[t].pc = "sleep"
    /\ Becomes(t, [task[t] EXCEPT !.pc = "begin", !.attempt = @ + 1,
                               !.outcome = "ok", !.meaning = "answer"])
    /\ UNCHANGED <<now, cache, queued, running, orphans, procs>>

(* The event is published, or the exception logged by the job's wrapper    *)
(* or swallowed by gather.                                                 *)
Finish(t) ==
    /\ task[t].pc \in {"publish", "raised"}
    /\ Becomes(t, Idle)
    /\ UNCHANGED <<now, cache, queued, running, orphans, procs>>

(* An attempt ends with one of the results: outcome and meaning.           *)
EndsWith(t, results) ==
    \E r \in results : Becomes(t, Ended(task[t], r[1], r[2]))

---------------------------------------------------------------------------
(* RdapChecker over IanaBootstrap.                                         *)

Fresh(c) == c # None /\ now - c.at < Ttl

(* base_url_for: the registry lists the TLD with a URL, or it does not.    *)
Resolved(t) ==
    \/ Becomes(t, [task[t] EXCEPT !.pc = "get", !.stamp = 0, !.taken = 0])
    \/ Becomes(t, Ended(task[t], "permanent", "answer"))

RdapBegin(t) ==
    /\ task[t].pc = "begin"
    /\ task[t].kind = "rdap"
    /\ IF Fresh(cache) THEN Resolved(t)
       ELSE Becomes(t, [task[t] EXCEPT !.pc = "iana", !.stamp = now])
    /\ UNCHANGED <<now, cache, queued, running, orphans, procs>>

(* The request reaches IANA, which answers with the registry of this       *)
(* moment; the answer may be long on its way.                              *)
IanaServes(t) ==
    /\ task[t].pc = "iana"
    /\ Becomes(t, [task[t] EXCEPT !.pc = "iana_reply", !.taken = now])
    /\ UNCHANGED <<now, cache, queued, running, orphans, procs>>

(* Mutant: the registry is stamped when it arrives.                        *)
ParseRegistry_StampedLate(x) == [at |-> now, taken |-> x.taken]

(* _parse_registry(data, fetched_at=now), now being read before the await. *)
ParseRegistry(x) == [at |-> x.stamp, taken |-> x.taken]

IanaFaults   == {<<IanaOutcome(r), HttpMeaning(r)>> : r \in HttpFaults}
IanaFailures ==
    {<<IanaOutcome(r), HttpMeaning(r)>> :
        r \in {Answer(s, b) : s \in Statuses, b \in IanaBodies}}
      \ {<<"ok", "answer">>}

(* _get_registry resumes; a failed fetch leaves the cache as it is.        *)
IanaReply(t) ==
    /\ \/ /\ task[t].pc \in {"iana", "iana_reply"}
          /\ EndsWith(t, IanaFaults)
          /\ UNCHANGED cache
       \/ /\ task[t].pc = "iana_reply"
          /\ EndsWith(t, IanaFailures)
          /\ UNCHANGED cache
       \/ /\ task[t].pc = "iana_reply"
          /\ cache' = ParseRegistry(task[t])
          /\ Resolved(t)
    /\ UNCHANGED <<now, queued, running, orphans, procs>>

RdapResults ==
    {<<RdapOutcome(r), HttpMeaning(r)>> :
        r \in HttpFaults \cup {Answer(s, b) : s \in Statuses, b \in RdapBodies}}

RdapReply(t) ==
    /\ task[t].pc = "get"
    /\ EndsWith(t, RdapResults)
    /\ UNCHANGED <<now, cache, queued, running, orphans, procs>>

---------------------------------------------------------------------------
(* WhoisCheckerWithParser over _WhoisFetcher: whois.whois blocks a thread. *)

WhoisBegin(t) ==
    /\ task[t].pc = "begin"
    /\ task[t].kind = "whois"
    /\ Becomes(t, [task[t] EXCEPT !.pc = "thread"])
    /\ queued' = queued \cup {t}
    /\ UNCHANGED <<now, cache, running, orphans, procs>>

ThreadStarts(t) ==
    /\ t \in queued
    /\ Cardinality(running) + orphans < Workers
    /\ queued' = queued \ {t}
    /\ running' = running \cup {t}
    /\ UNCHANGED <<now, cache, task, orphans, procs>>

ThreadReturns(t) ==
    /\ t \in running
    /\ running' = running \ {t}
    /\ \E r \in WhoisReplies :
          Becomes(t, IF WhoisOutcome(r) = "parse"
                     THEN [task[t] EXCEPT !.pc = "parse"]
                     ELSE Ended(task[t], WhoisOutcome(r), Meaning(r)))
    /\ UNCHANGED <<now, cache, queued, orphans, procs>>

OrphanReturns ==
    /\ orphans > 0
    /\ orphans' = orphans - 1
    /\ UNCHANGED <<now, cache, task, queued, running, procs>>

(* The caller stops waiting: a queued job is cancelled, a running one      *)
(* keeps its thread.                                                       *)
Abandon(t) ==
    /\ queued' = queued \ {t}
    /\ running' = running \ {t}
    /\ orphans' = IF t \in running THEN orphans + 1 ELSE orphans

(* Mutant: the fetch has no timeout.                                       *)
WhoisTimeout_None(t) == FALSE /\ UNCHANGED vars

(* wait_for: TimeoutError.                                                 *)
WhoisTimeout(t) ==
    /\ task[t].pc = "thread"
    /\ Abandon(t)
    /\ Becomes(t, Ended(task[t], WhoisOutcome("timeout"), "silence"))
    /\ UNCHANGED <<now, cache, procs>>

(* ParsingService.parse, which RuleLearning models.                        *)
WhoisParsed(t) ==
    /\ task[t].pc = "parse"
    /\ EndsWith(t, {<<ParseOutcome(r), Meaning(r)>> : r \in ParseReplies})
    /\ UNCHANGED <<now, cache, queued, running, orphans, procs>>

---------------------------------------------------------------------------
(* ScriptChecker.                                                          *)

ScriptBegin(t) ==
    /\ task[t].pc = "begin"
    /\ task[t].kind = "script"
    /\ \/ /\ procs' = procs \cup {<<t, "call">>}
          /\ Becomes(t, [task[t] EXCEPT !.pc = "script"])
       \/ /\ Becomes(t, Ended(task[t], ScriptOutcome("spawn_failed"), "refused"))
          /\ UNCHANGED procs
    /\ UNCHANGED <<now, cache, queued, running, orphans>>

ScriptExits(t) ==
    /\ task[t].pc = "script"
    /\ procs' = procs \ {<<t, "call">>}
    /\ EndsWith(t, {<<ScriptOutcome(r), Meaning(r)>> :
                       r \in ScriptReplies \ {"spawn_failed", "timeout"}})
    /\ UNCHANGED <<now, cache, queued, running, orphans>>

(* Mutant: the process is waited for no longer and not killed.             *)
ScriptTimeout_NoKill(t) ==
    /\ task[t].pc = "script"
    /\ Becomes(t, Ended(task[t], ScriptOutcome("timeout"), "silence"))
    /\ UNCHANGED <<now, cache, queued, running, orphans, procs>>

(* TimeoutError: kill(), wait().                                           *)
ScriptTimeout(t) ==
    /\ task[t].pc = "script"
    /\ procs' = procs \ {<<t, "call">>}
    /\ Becomes(t, Ended(task[t], ScriptOutcome("timeout"), "silence"))
    /\ UNCHANGED <<now, cache, queued, running, orphans>>

StrayExits(t) ==
    /\ procs' = procs \ {<<t, "stray">>}
    /\ <<t, "stray">> \in procs
    /\ UNCHANGED <<now, cache, task, queued, running, orphans>>

---------------------------------------------------------------------------
(* The notifiers.  The other end takes the message or not, and then its    *)
(* answer arrives or does not.                                             *)

SendOutcome(kind, r) ==
    CASE kind = "telegram" -> TelegramOutcome(r)
      [] kind = "discord"  -> DiscordOutcome(r)
      [] kind = "webhook"  -> WebhookOutcome(r)

SendBegin(t) ==
    /\ task[t].pc = "begin"
    /\ task[t].kind \in Notifiers
    /\ Becomes(t, [task[t] EXCEPT !.pc = "send"])
    /\ UNCHANGED <<now, cache, queued, running, orphans, procs>>

Accepted(t) ==
    /\ task[t].pc = "send"
    /\ Becomes(t, [task[t] EXCEPT !.pc = "sent", !.accepted = @ + 1])
    /\ UNCHANGED <<now, cache, queued, running, orphans, procs>>

(* Once the message is taken, the answer says so, does not arrive, or is   *)
(* the error of a server or gateway that failed behind it.                 *)
HttpSendReply(t) ==
    /\ task[t].kind \in Notifiers \ {"email"}
    /\ task[t].pc \in {"send", "sent"}
    /\ EndsWith(t, {<<SendOutcome(task[t].kind, r), HttpMeaning(r)>> :
                       r \in HttpFaults \cup
                           {Answer(s, "none") : s \in {s \in Statuses :
                               IF task[t].pc = "sent" THEN s \in HTTP_2XX \cup HTTP_5XX
                               ELSE s \notin HTTP_2XX}}})
    /\ UNCHANGED <<now, cache, queued, running, orphans, procs>>

SmtpReply(t) ==
    /\ task[t].kind = "email"
    /\ task[t].pc \in {"send", "sent"}
    /\ EndsWith(t, {<<EmailOutcome(r), Meaning(r)>> :
                       r \in IF task[t].pc = "send" THEN SmtpReplies \ {"ok"}
                             ELSE {"timeout", "disconnected", "ok"}})
    /\ UNCHANGED <<now, cache, queued, running, orphans, procs>>

---------------------------------------------------------------------------
(* The scheduler's shutdown cancels the call wherever it waits: nobody     *)
(* kills its script or stops its thread.                                   *)
Cancel(t) ==
    /\ task[t].pc \notin {"idle", "begin", "raised"}
    /\ Becomes(t, Idle)
    /\ Abandon(t)
    /\ procs' = IF <<t, "call">> \in procs
                THEN (procs \ {<<t, "call">>}) \cup {<<t, "stray">>}
                ELSE procs
    /\ UNCHANGED <<now, cache>>

(* What the event loop and its timers do for a call.                       *)
TaskStep(t) ==
    \/ Wake(t) \/ Finish(t)
    \/ RdapBegin(t) \/ IanaReply(t) \/ RdapReply(t)
    \/ WhoisBegin(t) \/ WhoisTimeout(t) \/ WhoisParsed(t)
    \/ ScriptBegin(t) \/ ScriptTimeout(t)
    \/ SendBegin(t) \/ HttpSendReply(t) \/ SmtpReply(t)

(* What the rest of the world does, or does not.                           *)
Remote(t) ==
    \/ IanaServes(t) \/ ThreadStarts(t) \/ ThreadReturns(t)
    \/ ScriptExits(t) \/ StrayExits(t) \/ Accepted(t)

Next ==
    \/ Tick \/ OrphanReturns
    \/ \E t \in Task : TaskStep(t) \/ Remote(t) \/ Cancel(t)
    \/ \E t \in Task : \E kind \in Uses[t] : Start(t, kind)

(* Every wait of a call has a timeout of its own, so the loop alone keeps  *)
(* it going; nothing is assumed of the remote ends, threads and scripts,   *)
(* but that no server trickles its answer for ever: httpx's timeout is per *)
(* read.                                                                   *)
FairSpec == Init /\ [][Next]_vars /\ \A t \in Task : WF_vars(TaskStep(t))

---------------------------------------------------------------------------
(* Properties.                                                             *)

(* Type invariant; the pool never runs more threads than it has.           *)
TypeOK ==
    /\ now \in 0..MaxTime
    /\ cache \in {None} \cup [at : 0..MaxTime, taken : 0..MaxTime]
    /\ \A t \in Task :
          /\ task[t].kind \in Checkers \cup Notifiers \cup {"none"}
          /\ task[t].attempt \in 0..MaxAttempts
          /\ task[t].accepted \in 0..task[t].attempt
          /\ task[t].pc = "thread" <=> t \in queued \cup running
    /\ Cardinality(running) + orphans \in 0..Workers

(* A check that takes the registry from the cache takes one that IANA      *)
(* served less than the TTL ago, however slow and out of order the fetches *)
(* of concurrent checks were: _get_registry stamps with the time it read   *)
(* before the request.                                                     *)
FreshLookup ==
    [][\A t \in Task :
          task[t].kind = "rdap" /\ task[t].pc = "begin"
            /\ task'[t] # task[t] /\ task'[t].pc # "iana" =>
                  cache # None /\ now - cache.taken < Ttl]_vars

(* A script runs on only while its check waits for it, or when the check   *)
(* was cancelled: never after a timeout, through any retries.              *)
NoScriptLeft ==
    \A t \in Task : <<t, "call">> \in procs => task[t].pc = "script"

(* The replies an adapter takes for the opposite of what they mean: RDAP   *)
(* gives up on "too many requests", email on a busy authentication server, *)
(* and retries a refused address, as WHOIS does an exception that says "no *)
(* such domain".                                                           *)
Misjudged ==
    {<<"rdap", "too_many">>, <<"email", "auth_busy">>,
     <<"email", "bad_address">>, <<"whois", "not_found">>}

(* Outcomes fit what the other end meant, but for the Misjudged: what may  *)
(* pass is never given up on before the last attempt, what will not is not *)
(* retried, and a call ends without an event only after an answer nobody   *)
(* can read or an HTTP server that hung up.                                *)
OutcomesFit ==
    \A t \in Task :
        /\ <<task[t].kind, task[t].meaning>> \notin Misjudged =>
              /\ task[t].pc = "sleep" => task[t].meaning \notin Permanent
              /\ task[t].pc = "publish" /\ task[t].attempt < MaxAttempts =>
                     task[t].meaning \notin Temporary
        /\ task[t].pc = "raised" => task[t].meaning \in {"garbled", "hangup"}

(* What is announced of a page is true: one announced as dispatched was    *)
(* taken by the other end, and unless an attempt met silence, a hang-up or *)
(* a server error it was taken once, and one announced as failed was not   *)
(* taken.                                                                  *)
PageAccounted ==
    \A t \in Task :
        task[t].pc = "publish" /\ task[t].kind \in Notifiers =>
            /\ task[t].outcome = "ok" => task[t].accepted >= 1
            /\ ~task[t].doubt =>
                   task[t].accepted = IF task[t].outcome = "ok" THEN 1 ELSE 0

(* Every call ends, whatever the remote ends, the threads and the scripts  *)
(* do, and with all threads of the pool lost to WHOIS servers that hang.   *)
EveryCallEnds == \A t \in Task : task[t].pc # "idle" ~> task[t].pc = "idle"
============================================================================
