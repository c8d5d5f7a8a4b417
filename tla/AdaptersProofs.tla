--------------------------- MODULE AdaptersProofs ---------------------------
(***************************************************************************)
(* Proofs about Adapters, for any number of calls of any adapters, any     *)
(* number of attempts and threads and any lifetime of the registry.  What  *)
(* is to be shown of an announced outcome was decided several steps and    *)
(* maybe several attempts before; CallOk says what a call remembers of it. *)
(***************************************************************************)
EXTENDS Adapters, FiniteSetTheorems, TLAPS

Outcomes == {"ok", "transient", "permanent", "raise"}
Kinds    == Checkers \cup Notifiers \cup {"none"}

Pcs == {"idle", "begin", "sleep", "publish", "raised", "iana", "iana_reply",
        "get", "thread", "parse", "script", "send", "sent"}

Call == [kind : Kinds, pc : Pcs, attempt : 0..MaxAttempts, stamp : Nat,
         taken : Nat, accepted : Nat, doubt : BOOLEAN, meaning : Meanings,
         outcome : Outcomes]

(* Where the calls of each kind wait.                                      *)
KindOk(x) ==
    /\ x.pc # "idle" => x.attempt >= 1
    /\ x.pc \in {"iana", "iana_reply", "get"} => x.kind = "rdap"
    /\ x.pc \in {"thread", "parse"} => x.kind = "whois"
    /\ x.pc = "script" => x.kind = "script"
    /\ x.pc \in {"send", "sent"} => x.kind \in Notifiers

(* OutcomesFit of one call.                                                *)
FitOk(x) ==
    /\ x.pc = "sleep" => x.attempt < MaxAttempts
    /\ <<x.kind, x.meaning>> \notin Misjudged =>
          /\ x.pc = "sleep" => x.meaning \notin Permanent
          /\ x.pc = "publish" /\ x.attempt < MaxAttempts =>
                 x.meaning \notin Temporary
    /\ x.pc = "raised" => x.meaning \in {"garbled", "hangup"}

(* A page is taken at most once per attempt, in this one only while its    *)
(* answer is awaited or came; before an attempt ended in doubt it was taken*)
(* if and only if the call has, or will have, an answer that says so.      *)
PageOk(x) ==
    /\ x.kind \notin Notifiers => x.accepted = 0
    /\ x.pc \in {"begin", "send"} => x.accepted <= x.attempt - 1
    /\ x.accepted <= x.attempt
    /\ x.pc = "sent" => x.accepted >= 1
    /\ x.pc = "publish" /\ x.kind \in Notifiers /\ x.outcome = "ok" => x.accepted >= 1
    /\ x.kind \in Notifiers /\ ~x.doubt =>
           /\ x.pc \in {"begin", "send", "sleep"} => x.accepted = 0
           /\ x.pc = "sent" => x.accepted = 1
           /\ x.pc = "publish" => x.accepted = IF x.outcome = "ok" THEN 1 ELSE 0

CallOk(x) ==
    /\ x \in Call
    /\ KindOk(x) /\ FitOk(x) /\ PageOk(x)

(* Clocks: nothing is stamped in the future, and a registry is stamped no  *)
(* later than IANA served it.                                              *)
StampsOk ==
    /\ now \in 0..MaxTime
    /\ \A t \in Task :
          /\ task[t].stamp <= now /\ task[t].taken <= now
          /\ task[t].pc = "iana_reply" => task[t].stamp <= task[t].taken
    /\ cache # None =>
          /\ cache \in [at : 0..MaxTime, taken : 0..MaxTime]
          /\ cache.at <= cache.taken

(* The pool: a job waits or runs for a call that waits for it.             *)
PoolOk ==
    /\ queued \subseteq Task /\ running \subseteq Task
    /\ queued \cap running = {}
    /\ IsFiniteSet(running) /\ orphans \in Nat
    /\ Cardinality(running) + orphans <= Workers
    /\ \A t \in Task : task[t].pc = "thread" <=> t \in queued \cup running

AdaptersInv ==
    /\ DOMAIN task = Task
    /\ \A t \in Task : CallOk(task[t])
    /\ StampsOk /\ PoolOk /\ NoScriptLeft

---------------------------------------------------------------------------
(* What the adapters make of replies.                                      *)

(* An outcome that goes by its meaning: what will not pass is not retried, *)
(* and what may pass is.                                                   *)
Judged(outcome, meaning) ==
    /\ outcome = "transient" => meaning \notin Permanent
    /\ outcome \in {"ok", "permanent"} => meaning \notin Temporary

(* An outcome that fits: it is judged by its meaning, or one of the        *)
(* Misjudged, and what nobody catches was not readable or a hang-up.       *)
Fits(kind, outcome, meaning) ==
    /\ outcome \in Outcomes /\ meaning \in Meanings
    /\ Judged(outcome, meaning) \/ <<kind, meaning>> \in Misjudged
    /\ outcome = "raise" => meaning \in {"garbled", "hangup"}

(* A fault of the exchange fits whatever the adapter.                      *)
LEMMA FaultFits ==
    ASSUME NEW r \in HttpFaults, NEW kind
    PROVE  /\ Fits(kind, IanaOutcome(r), HttpMeaning(r))
           /\ Fits(kind, RdapOutcome(r), HttpMeaning(r))
           /\ \A refusals :
                 /\ Fits(kind, HttpSendOutcome(refusals, r), HttpMeaning(r))
                 /\ HttpSendOutcome(refusals, r) # "ok"
                 /\ HttpMeaning(r) \in Uncertain
<1>1. /\ r.fault \in {"timeout", "network", "protocol"}
      /\ NoAnswer(r) <=> r.fault # "protocol"
  BY DEF HttpFaults, Fault, NoAnswer
<1>2. HttpMeaning(r) = IF r.fault = "protocol" THEN "hangup" ELSE "silence"
  BY <1>1 DEF HttpMeaning
<1>3. Fits(kind, "raise", "hangup") /\ Fits(kind, "transient", "silence")
      /\ {"hangup", "silence"} \subseteq Uncertain
  BY DEF Fits, Judged, Outcomes, Meanings, Temporary, Permanent, Uncertain
<1>4. CASE r.fault = "protocol"
  <2>1. ~NoAnswer(r)
    BY <1>1, <1>4
  <2>2. IanaOutcome(r) = "raise"
    BY <1>4, <2>1 DEF IanaOutcome
  <2>3. RdapOutcome(r) = "raise"
    BY <1>4, <2>1 DEF RdapOutcome
  <2>4. \A refusals : HttpSendOutcome(refusals, r) = "raise"
    BY <1>4, <2>1 DEF HttpSendOutcome
  <2> QED
    BY <1>2, <1>3, <1>4, <2>2, <2>3, <2>4
<1>5. CASE r.fault # "protocol"
  <2>1. NoAnswer(r)
    BY <1>1, <1>5
  <2>2. IanaOutcome(r) = "transient"
    BY <2>1 DEF IanaOutcome
  <2>3. RdapOutcome(r) = "transient"
    BY <2>1 DEF RdapOutcome
  <2>4. \A refusals : HttpSendOutcome(refusals, r) = "transient"
    BY <2>1 DEF HttpSendOutcome
  <2> QED
    BY <1>2, <1>3, <1>5, <2>2, <2>3, <2>4
<1> QED
  BY <1>4, <1>5

(* Which meanings are which.                                               *)
LEMMA MeaningKinds ==
    /\ {"server_error", "too_many", "refused", "garbled", "answer"} \subseteq Meanings
    /\ {"too_many", "garbled", "answer", "server_error"} \cap Permanent = {}
    /\ {"refused", "garbled", "answer"} \cap Temporary = {}
    /\ "server_error" \in Uncertain
    /\ {"ok", "transient", "permanent", "raise"} = Outcomes
    /\ <<"rdap", "too_many">> \in Misjudged
BY DEF Meanings, Temporary, Permanent, Uncertain, Outcomes, Misjudged

(* What an answer means, by its status.                                    *)
LEMMA AnswerMeans ==
    ASSUME NEW s \in Statuses, NEW b
    PROVE  LET r == Answer(s, b)
           IN  /\ ~NoAnswer(r) /\ r.fault = "none" /\ r.status = s /\ r.body = b
               /\ HttpMeaning(r) =
                    IF s \in HTTP_5XX THEN "server_error"
                    ELSE IF s = 429 THEN "too_many"
                    ELSE IF s \in HTTP_4XX THEN "refused"
                    ELSE IF b \in {"bad_date", "not_object"} THEN "garbled"
                    ELSE "answer"
<1> DEFINE r == Answer(s, b)
<1>1. ~NoAnswer(r) /\ r.fault = "none" /\ r.status = s /\ r.body = b
  BY DEF Answer, NoAnswer
<1> HIDE DEF r
<1>2. HttpMeaning(r) =
        IF s \in HTTP_5XX THEN "server_error"
        ELSE IF s = 429 THEN "too_many"
        ELSE IF s \in HTTP_4XX THEN "refused"
        ELSE IF b \in {"bad_date", "not_object"} THEN "garbled" ELSE "answer"
  BY <1>1 DEF HttpMeaning
<1> QED
  BY <1>1, <1>2 DEF r

(* The RDAP server's and IANA's answers.                                   *)
LEMMA LookupFits ==
    ASSUME NEW s \in Statuses
    PROVE  /\ \A b \in RdapBodies :
                 Fits("rdap", RdapOutcome(Answer(s, b)), HttpMeaning(Answer(s, b)))
           /\ \A b \in IanaBodies :
                 Fits("rdap", IanaOutcome(Answer(s, b)), HttpMeaning(Answer(s, b)))
<1>0. s \in Nat /\ (s \in HTTP_5XX => s >= 500) /\ (s \in HTTP_4XX <=> s >= 400 /\ s < 500)
      /\ HTTP_5XX \cap HTTP_4XX = {} /\ 429 \in HTTP_4XX
  BY DEF Statuses, HTTP_5XX, HTTP_4XX
<1>1. ASSUME NEW b \in RdapBodies
      PROVE  Fits("rdap", RdapOutcome(Answer(s, b)), HttpMeaning(Answer(s, b)))
  <2> DEFINE r == Answer(s, b)
  <2>1. RdapOutcome(r) =
          IF s \in HTTP_5XX THEN "transient" ELSE IF s \in HTTP_4XX THEN "permanent"
          ELSE IF b = "date" THEN "ok" ELSE IF b = "bad_date" THEN "raise" ELSE "permanent"
    <3>1. ~NoAnswer(r) /\ r.fault = "none" /\ r.status = s /\ r.body = b
      BY AnswerMeans
    <3> HIDE DEF r
    <3> QED
      BY <3>1 DEF RdapOutcome
  <2> QED
    BY <1>0, <2>1, AnswerMeans, MeaningKinds DEF Fits, Judged
<1>2. ASSUME NEW b \in IanaBodies
      PROVE  Fits("rdap", IanaOutcome(Answer(s, b)), HttpMeaning(Answer(s, b)))
  <2> DEFINE r == Answer(s, b)
  <2>1. IanaOutcome(r) =
          IF s >= 500 THEN "transient" ELSE IF s >= 400 THEN "permanent"
          ELSE IF b = "services" THEN "ok" ELSE IF b = "not_object" THEN "raise"
          ELSE "permanent"
    <3>1. ~NoAnswer(r) /\ r.fault = "none" /\ r.status = s /\ r.body = b
      BY AnswerMeans
    <3> HIDE DEF r
    <3> QED
      BY <3>1 DEF IanaOutcome
  <2> QED
    BY <1>0, <2>1, AnswerMeans, MeaningKinds DEF Fits, Judged
<1> QED
  BY <1>1, <1>2

(* An HTTP notifier: only a status that says so counts as sent, and one    *)
(* that does not after the message was taken leaves doubt.                 *)
LEMMA SendFits ==
    ASSUME NEW kind \in Notifiers \ {"email"}, NEW s \in Statuses
    PROVE  LET r == Answer(s, "none")
           IN  /\ Fits(kind, SendOutcome(kind, r), HttpMeaning(r))
               /\ SendOutcome(kind, r) = "ok" <=> s \in HTTP_2XX
               /\ s \in HTTP_5XX => HttpMeaning(r) \in Uncertain
<1> DEFINE r == Answer(s, "none")
<1>0. /\ s \in HTTP_2XX => s \notin HTTP_4XX /\ s \notin HTTP_5XX /\ s # 429
      /\ 429 \in HTTP_4XX /\ HTTP_5XX \cap HTTP_4XX = {}
  BY DEF HTTP_2XX, HTTP_4XX, HTTP_5XX
<1>1. ~NoAnswer(r) /\ r.fault = "none" /\ r.status = s
  BY AnswerMeans
<1>2. ASSUME NEW refusals, refusals \subseteq {401, 403, 404}
      PROVE  /\ Fits(kind, HttpSendOutcome(refusals, r), HttpMeaning(r))
             /\ HttpSendOutcome(refusals, r) = "ok" <=> s \in HTTP_2XX
             /\ s \in HTTP_5XX => HttpMeaning(r) \in Uncertain
  <2>1. HttpSendOutcome(refusals, r) =
          IF s \in HTTP_2XX THEN "ok" ELSE IF s \in refusals THEN "permanent"
          ELSE IF s \in HTTP_5XX \cup {429} THEN "transient"
          ELSE IF s \in HTTP_4XX THEN "permanent" ELSE "transient"
    <3> HIDE DEF r
    <3> QED
      BY <1>1 DEF HttpSendOutcome
  <2>2. refusals \subseteq HTTP_4XX \ {429}
    BY <1>2 DEF HTTP_4XX
  <2> QED
    BY <1>0, <2>1, <2>2, AnswerMeans, MeaningKinds DEF Fits, Judged
<1> HIDE DEF r
<1>3. CASE kind = "telegram"
  BY <1>2, <1>3 DEF SendOutcome, TelegramOutcome, r
<1>4. CASE kind = "discord"
  BY <1>2, <1>4 DEF SendOutcome, DiscordOutcome, r
<1>5. CASE kind = "webhook"
  BY <1>2, <1>5 DEF SendOutcome, WebhookOutcome, r
<1> QED
  BY <1>3, <1>4, <1>5 DEF Notifiers, r

(* WHOIS, scripts and SMTP.                                                *)
LEMMA OtherFits ==
    /\ \A r \in WhoisReplies \cup {"timeout"} :
          WhoisOutcome(r) = "parse" \/ Fits("whois", WhoisOutcome(r), Meaning(r))
    /\ \A r \in ParseReplies : Fits("whois", ParseOutcome(r), Meaning(r))
    /\ \A r \in ScriptReplies : Fits("script", ScriptOutcome(r), Meaning(r))
    /\ \A r \in SmtpReplies :
          /\ Fits("email", EmailOutcome(r), Meaning(r))
          /\ EmailOutcome(r) = "ok" <=> r = "ok"
    /\ Fits("whois", WhoisOutcome("timeout"), "silence")
    /\ Fits("script", ScriptOutcome("timeout"), "silence")
    /\ Fits("script", ScriptOutcome("spawn_failed"), "refused")
    /\ Fits("rdap", "permanent", "answer")
    /\ \A r \in {"timeout", "disconnected"} : Meaning(r) \in Uncertain
<1> USE DEF Fits, Judged, Outcomes, Meanings, Temporary, Permanent, Uncertain
<1>1. \A r \in WhoisReplies \cup {"timeout"} :
          WhoisOutcome(r) = "parse" \/ Fits("whois", WhoisOutcome(r), Meaning(r))
  BY DEF WhoisReplies, WhoisOutcome, Meaning, Misjudged
<1>2. \A r \in ParseReplies : Fits("whois", ParseOutcome(r), Meaning(r))
  BY DEF ParseReplies, ParseOutcome, Meaning
<1>3. \A r \in ScriptReplies : Fits("script", ScriptOutcome(r), Meaning(r))
  BY DEF ScriptReplies, ScriptOutcome, Meaning
<1>4. \A r \in SmtpReplies :
          /\ Fits("email", EmailOutcome(r), Meaning(r))
          /\ EmailOutcome(r) = "ok" <=> r = "ok"
  BY DEF SmtpReplies, EmailOutcome, Meaning, Misjudged
<1>5. /\ Fits("whois", WhoisOutcome("timeout"), "silence")
      /\ Fits("script", ScriptOutcome("timeout"), "silence")
      /\ Fits("script", ScriptOutcome("spawn_failed"), "refused")
      /\ Fits("rdap", "permanent", "answer")
  BY DEF WhoisOutcome, ScriptOutcome
<1>6. \A r \in {"timeout", "disconnected"} : Meaning(r) \in Uncertain
  BY DEF Meaning
<1> QED
  BY <1>1, <1>2, <1>3, <1>4, <1>5, <1>6

---------------------------------------------------------------------------
(* The ways an attempt ends: every result an action allows fits.           *)
LEMMA ResultsFit ==
    /\ \A r \in RdapResults \cup IanaFaults \cup IanaFailures : Fits("rdap", r[1], r[2])
    /\ \A r \in {<<ParseOutcome(q), Meaning(q)>> : q \in ParseReplies} :
          Fits("whois", r[1], r[2])
    /\ \A r \in {<<ScriptOutcome(q), Meaning(q)>> :
                    q \in ScriptReplies \ {"spawn_failed", "timeout"}} :
          Fits("script", r[1], r[2])
<1>1. \A r \in RdapResults : Fits("rdap", r[1], r[2])
  BY FaultFits, LookupFits DEF RdapResults
<1>2. \A r \in IanaFaults : Fits("rdap", r[1], r[2])
  BY FaultFits DEF IanaFaults
<1>3. \A r \in IanaFailures : Fits("rdap", r[1], r[2])
  BY LookupFits DEF IanaFailures
<1> QED
  BY <1>1, <1>2, <1>3, OtherFits

(* A notifier's last word: no "ok" without the message taken, and none but *)
(* "ok" once it was, unless the answer was lost.                           *)
LastWord(x, o, m) ==
    x.kind \in Notifiers =>
        /\ x.pc \in {"send", "sent"}
        /\ x.pc = "send" => o # "ok"
        /\ x.pc = "sent" => o = "ok" \/ m \in Uncertain

(* The fields of a call whose attempt is over.                             *)
LEMMA EndedFields ==
    ASSUME NEW x \in Call, NEW o \in Outcomes, NEW m \in Meanings
    PROVE  LET y == Ended(x, o, m)
           IN  /\ y \in Call
               /\ y.kind = x.kind /\ y.attempt = x.attempt
               /\ y.accepted = x.accepted
               /\ y.stamp = 0 /\ y.taken = 0
               /\ y.outcome = o /\ y.meaning = m
               /\ ~y.doubt /\ x.kind \in Notifiers =>
                      ~x.doubt /\ m \notin Uncertain
               /\ y.pc = IF o = "transient" /\ x.attempt < MaxAttempts
                         THEN "sleep"
                         ELSE IF o = "raise" THEN "raised" ELSE "publish"
<1> DEFINE y == Ended(x, o, m)
<1>1. (x.kind \in Notifiers /\ (x.doubt \/ m \in Uncertain)) \in BOOLEAN
  OBVIOUS
<1>2. y \in Call
  BY <1>1 DEF Ended, Call, Pcs
<1>3. ~y.doubt /\ x.kind \in Notifiers => ~x.doubt /\ m \notin Uncertain
  BY DEF Ended, Call
<1> QED
  BY <1>2, <1>3 DEF Ended, Call

LEMMA EndedOk ==
    ASSUME NEW x, CallOk(x), x.pc # "idle",
           NEW o, NEW m, Fits(x.kind, o, m), LastWord(x, o, m)
    PROVE  /\ CallOk(Ended(x, o, m))
           /\ Ended(x, o, m).stamp = 0 /\ Ended(x, o, m).taken = 0
           /\ Ended(x, o, m).pc \in {"sleep", "raised", "publish"}
<1> DEFINE y == Ended(x, o, m)
<1>1. x \in Call /\ o \in Outcomes /\ m \in Meanings
  BY DEF CallOk, Fits
<1>2. /\ y \in Call
      /\ y.kind = x.kind /\ y.attempt = x.attempt /\ y.accepted = x.accepted
      /\ y.stamp = 0 /\ y.taken = 0
      /\ y.outcome = o /\ y.meaning = m
      /\ ~y.doubt /\ x.kind \in Notifiers => ~x.doubt /\ m \notin Uncertain
      /\ y.pc = IF o = "transient" /\ x.attempt < MaxAttempts THEN "sleep"
                ELSE IF o = "raise" THEN "raised" ELSE "publish"
  BY <1>1, EndedFields
<1> HIDE DEF y
<1>3. y.pc \in {"sleep", "raised", "publish"}
  BY <1>2
<1>4. KindOk(y)
  BY <1>2, <1>3 DEF CallOk, KindOk
<1>5. FitOk(y)
  BY <1>1, <1>2 DEF FitOk, Fits, Judged, Outcomes
<1>6. PageOk(y)
  <2>1. y.kind \notin Notifiers => y.accepted = 0
    BY <1>2 DEF CallOk, PageOk
  <2>2. y.accepted <= y.attempt
    BY <1>2 DEF CallOk, PageOk
  <2>3. y.pc = "publish" /\ y.kind \in Notifiers /\ y.outcome = "ok" => y.accepted >= 1
    BY <1>2 DEF LastWord, CallOk, PageOk
  <2>4. ASSUME y.kind \in Notifiers, ~y.doubt
        PROVE  /\ y.pc = "sleep" => y.accepted = 0
               /\ y.pc = "publish" => y.accepted = IF y.outcome = "ok" THEN 1 ELSE 0
    <3>1. CASE x.pc = "send"
      BY <1>2, <2>4, <3>1 DEF LastWord, CallOk, PageOk
    <3>2. CASE x.pc = "sent"
      BY <1>2, <2>4, <3>2 DEF LastWord, CallOk, PageOk
    <3> QED
      BY <1>2, <2>4, <3>1, <3>2 DEF LastWord
  <2> QED
    BY <1>3, <2>1, <2>2, <2>3, <2>4 DEF PageOk
<1> QED
  BY <1>2, <1>3, <1>4, <1>5, <1>6 DEF CallOk, y

LEMMA IdleOk == CallOk(Idle) /\ Idle.stamp = 0 /\ Idle.taken = 0 /\ Idle.pc = "idle"
BY AdaptersAssumption DEF CallOk, Call, Idle, KindOk, FitOk, PageOk, Kinds, Pcs, Meanings,
                          Outcomes, Notifiers, Temporary

---------------------------------------------------------------------------
(* Steps of one call.                                                      *)

(* A call that becomes x, and what the other calls keep.                   *)
LEMMA Moves ==
    ASSUME AdaptersInv, NEW t \in Task, NEW x, CallOk(x), Becomes(t, x),
           now' = now, x.stamp <= now, x.taken <= now,
           x.pc = "iana_reply" => x.stamp <= x.taken
    PROVE  /\ DOMAIN task' = Task
           /\ \A u \in Task : task'[u] = IF u = t THEN x ELSE task[u]
           /\ \A u \in Task :
                 /\ CallOk(task'[u])
                 /\ task'[u].stamp <= now' /\ task'[u].taken <= now'
                 /\ task'[u].pc = "iana_reply" => task'[u].stamp <= task'[u].taken
<1>1. DOMAIN task' = Task /\ \A u \in Task : task'[u] = IF u = t THEN x ELSE task[u]
  BY DEF Becomes, AdaptersInv
<1> QED
  BY <1>1 DEF AdaptersInv, StampsOk

(* A step of a call that has no thread and no process and takes none.      *)
LEMMA PlainStep ==
    ASSUME AdaptersInv, NEW t \in Task, NEW x, CallOk(x), Becomes(t, x),
           x.stamp <= now, x.taken <= now,
           x.pc = "iana_reply" => x.stamp <= x.taken,
           x.pc # "thread", task[t].pc \notin {"thread", "script"},
           UNCHANGED <<now, queued, running, orphans, procs>>,
           \/ UNCHANGED cache
           \/ /\ cache' \in [at : 0..MaxTime, taken : 0..MaxTime]
              /\ cache'.at <= cache'.taken
    PROVE  AdaptersInv'
<1>1. /\ DOMAIN task' = Task
      /\ \A u \in Task : task'[u] = IF u = t THEN x ELSE task[u]
      /\ \A u \in Task :
            /\ CallOk(task'[u])
            /\ task'[u].stamp <= now' /\ task'[u].taken <= now'
            /\ task'[u].pc = "iana_reply" => task'[u].stamp <= task'[u].taken
  BY Moves
<1>2. StampsOk'
  BY <1>1 DEF AdaptersInv, StampsOk
<1>3. PoolOk'
  BY <1>1 DEF AdaptersInv, PoolOk
<1>4. NoScriptLeft'
  BY <1>1 DEF AdaptersInv, NoScriptLeft
<1> QED
  BY <1>1, <1>2, <1>3, <1>4 DEF AdaptersInv

(* An attempt that ends in such a state.                                   *)
LEMMA PlainEnd ==
    ASSUME AdaptersInv, NEW t \in Task, NEW results, EndsWith(t, results),
           \A r \in results : Fits(task[t].kind, r[1], r[2])
                               /\ LastWord(task[t], r[1], r[2]),
           task[t].pc \notin {"idle", "thread", "script"},
           UNCHANGED <<now, cache, queued, running, orphans, procs>>
    PROVE  AdaptersInv'
<1>1. PICK r \in results : Becomes(t, Ended(task[t], r[1], r[2]))
  BY DEF EndsWith
<1> DEFINE y == Ended(task[t], r[1], r[2])
<1>2. CallOk(task[t])
  BY DEF AdaptersInv
<1>3. /\ CallOk(y) /\ y.stamp = 0 /\ y.taken = 0
      /\ y.pc \in {"sleep", "raised", "publish"}
  BY <1>1, <1>2, EndedOk
<1>4. now \in Nat
  BY DEF AdaptersInv, StampsOk
<1> HIDE DEF y
<1>5. Becomes(t, y)
  BY <1>1 DEF y
<1> QED
  BY <1>3, <1>4, <1>5, PlainStep

(* A lookup in the registry, by a check that begins or has fetched it.     *)
LEMMA ResolvedOk ==
    ASSUME AdaptersInv, NEW t \in Task, Resolved(t),
           task[t].kind = "rdap", task[t].pc \in {"begin", "iana_reply"}
    PROVE  \E x : /\ CallOk(x) /\ Becomes(t, x) /\ x.stamp = 0 /\ x.taken = 0
                  /\ x.pc \in {"get", "sleep", "raised", "publish"}
<1>1. CallOk(task[t])
  BY DEF AdaptersInv
<1>2. CASE Becomes(t, [task[t] EXCEPT !.pc = "get", !.stamp = 0, !.taken = 0])
  <2> DEFINE x == [task[t] EXCEPT !.pc = "get", !.stamp = 0, !.taken = 0]
  <2>1. x \in Call /\ x.pc = "get" /\ x.stamp = 0 /\ x.taken = 0
    BY <1>1 DEF CallOk, Call, Pcs
  <2>2. KindOk(x) /\ FitOk(x) /\ PageOk(x)
    BY <1>1 DEF CallOk, Call, KindOk, FitOk, PageOk, Notifiers
  <2> QED
    BY <1>2, <2>1, <2>2 DEF CallOk
<1>3. CASE Becomes(t, Ended(task[t], "permanent", "answer"))
  <2>1. LastWord(task[t], "permanent", "answer")
    BY DEF LastWord, Notifiers
  <2>2. Fits("rdap", "permanent", "answer")
    BY OtherFits
  <2> QED
    BY <1>1, <1>3, <2>1, <2>2, EndedOk
<1> QED
  BY <1>2, <1>3 DEF Resolved

LEMMA StartStep ==
    ASSUME AdaptersInv, NEW t \in Task, NEW kind \in Uses[t], Start(t, kind)
    PROVE  AdaptersInv'
<1> DEFINE x == [Idle EXCEPT !.kind = kind, !.pc = "begin", !.attempt = 1]
<1>1. kind \in Checkers \cup Notifiers
  BY AdaptersAssumption
<1>2. x \in Call /\ x.stamp = 0 /\ x.taken = 0 /\ x.pc = "begin"
  <2>1. kind \in Kinds /\ 1 \in 0..MaxAttempts
    BY <1>1, AdaptersAssumption DEF Kinds
  <2>2. Idle \in Call
    BY IdleOk DEF CallOk
  <2> QED
    BY <2>1, <2>2 DEF Idle, Call, Pcs
<1>3. KindOk(x) /\ FitOk(x) /\ PageOk(x)
  BY DEF KindOk, FitOk, PageOk, Idle
<1>4. CallOk(x)
  BY <1>2, <1>3 DEF CallOk
<1>5. now \in Nat
  BY DEF AdaptersInv, StampsOk
<1>6. Becomes(t, x) /\ task[t].pc = "idle"
      /\ UNCHANGED <<now, cache, queued, running, orphans, procs>>
  BY DEF Start
<1> HIDE DEF x
<1> QED
  BY <1>2, <1>4, <1>5, <1>6, PlainStep

LEMMA WakeStep ==
    ASSUME AdaptersInv, NEW t \in Task, Wake(t)
    PROVE  AdaptersInv'
<1> DEFINE x == [task[t] EXCEPT !.pc = "begin", !.attempt = @ + 1,
                                !.outcome = "ok", !.meaning = "answer"]
<1>1. CallOk(task[t]) /\ task[t].stamp <= now /\ task[t].taken <= now
      /\ task[t].pc = "sleep"
  BY DEF AdaptersInv, StampsOk, Wake
<1>2. task[t].attempt < MaxAttempts
  BY <1>1 DEF CallOk, FitOk
<1>3. /\ x \in Call /\ x.pc = "begin" /\ x.attempt = task[t].attempt + 1
      /\ x.stamp = task[t].stamp /\ x.taken = task[t].taken
      /\ x.kind = task[t].kind /\ x.accepted = task[t].accepted
      /\ x.doubt = task[t].doubt
  <2>1. task[t] \in Call
    BY <1>1 DEF CallOk
  <2>2. task[t].attempt + 1 \in 0..MaxAttempts
    BY <1>2, <2>1, AdaptersAssumption DEF Call
  <2>3. "begin" \in Pcs /\ "ok" \in Outcomes /\ "answer" \in Meanings
    BY DEF Pcs, Outcomes, Meanings
  <2> QED
    BY <2>1, <2>2, <2>3 DEF Call
<1> HIDE DEF x
<1>4. KindOk(x) /\ FitOk(x)
  BY <1>1, <1>3 DEF CallOk, Call, KindOk, FitOk
<1>5. PageOk(x)
  BY <1>1, <1>3 DEF CallOk, Call, PageOk
<1>6. CallOk(x)
  BY <1>3, <1>4, <1>5 DEF CallOk
<1>7. Becomes(t, x) /\ UNCHANGED <<now, cache, queued, running, orphans, procs>>
  BY DEF Wake, x
<1> QED
  BY <1>1, <1>3, <1>6, <1>7, PlainStep

LEMMA FinishStep ==
    ASSUME AdaptersInv, NEW t \in Task, Finish(t)
    PROVE  AdaptersInv'
<1>1. now \in Nat
  BY DEF AdaptersInv, StampsOk
<1> QED
  BY <1>1, IdleOk, PlainStep DEF Finish

---------------------------------------------------------------------------
(* RDAP checks, and sends: no thread, no process.                          *)

LEMMA RdapBeginStep ==
    ASSUME AdaptersInv, NEW t \in Task, RdapBegin(t)
    PROVE  AdaptersInv'
<1>0. /\ CallOk(task[t]) /\ now \in Nat
      /\ task[t].stamp <= now /\ task[t].taken <= now
  BY DEF AdaptersInv, StampsOk
<1>1. CASE Fresh(cache)
  <2>1. PICK x : CallOk(x) /\ Becomes(t, x) /\ x.stamp = 0 /\ x.taken = 0
                 /\ x.pc \in {"get", "sleep", "raised", "publish"}
    BY <1>1, ResolvedOk DEF RdapBegin
  <2> QED
    BY <1>0, <2>1, PlainStep DEF RdapBegin
<1>2. CASE ~Fresh(cache)
  <2> DEFINE x == [task[t] EXCEPT !.pc = "iana", !.stamp = now]
  <2>1. x \in Call /\ x.pc = "iana" /\ x.stamp = now /\ x.taken = task[t].taken
    BY <1>0 DEF CallOk, Call, Pcs
  <2>2. KindOk(x) /\ FitOk(x) /\ PageOk(x)
    BY <1>0 DEF CallOk, Call, KindOk, FitOk, PageOk, Notifiers, RdapBegin
  <2>3. Becomes(t, x)
    BY <1>2 DEF RdapBegin
  <2> HIDE DEF x
  <2> QED
    BY <1>0, <2>1, <2>2, <2>3, PlainStep DEF RdapBegin, CallOk
<1> QED
  BY <1>1, <1>2

LEMMA IanaServesStep ==
    ASSUME AdaptersInv, NEW t \in Task, IanaServes(t)
    PROVE  AdaptersInv'
<1>0. /\ CallOk(task[t]) /\ now \in Nat /\ task[t].stamp <= now
  BY DEF AdaptersInv, StampsOk
<1> DEFINE x == [task[t] EXCEPT !.pc = "iana_reply", !.taken = now]
<1>1. x \in Call /\ x.pc = "iana_reply" /\ x.stamp = task[t].stamp /\ x.taken = now
  BY <1>0 DEF CallOk, Call, Pcs
<1>2. KindOk(x) /\ FitOk(x) /\ PageOk(x)
  BY <1>0 DEF CallOk, Call, KindOk, FitOk, PageOk, Notifiers, IanaServes
<1>3. Becomes(t, x) /\ task[t].pc = "iana"
      /\ UNCHANGED <<now, cache, queued, running, orphans, procs>>
  BY DEF IanaServes
<1> HIDE DEF x
<1> QED
  BY <1>0, <1>1, <1>2, <1>3, PlainStep DEF CallOk

LEMMA IanaReplyStep ==
    ASSUME AdaptersInv, NEW t \in Task, IanaReply(t)
    PROVE  AdaptersInv'
<1>0. /\ CallOk(task[t]) /\ now \in 0..MaxTime
      /\ task[t].stamp <= now /\ task[t].taken <= now
      /\ task[t].pc = "iana_reply" => task[t].stamp <= task[t].taken
  BY DEF AdaptersInv, StampsOk
<1>1. task[t].kind = "rdap" /\ task[t].pc \in {"iana", "iana_reply"}
      /\ UNCHANGED <<now, queued, running, orphans, procs>>
  BY <1>0 DEF IanaReply, CallOk, KindOk
<1>2. \A o, m : LastWord(task[t], o, m)
  BY <1>1 DEF LastWord, Notifiers
<1>3. CASE EndsWith(t, IanaFaults \cup IanaFailures) /\ UNCHANGED cache
  BY <1>1, <1>2, <1>3, ResultsFit, PlainEnd
<1>4. CASE task[t].pc = "iana_reply" /\ cache' = ParseRegistry(task[t]) /\ Resolved(t)
  <2>1. PICK x : CallOk(x) /\ Becomes(t, x) /\ x.stamp = 0 /\ x.taken = 0
                 /\ x.pc \in {"get", "sleep", "raised", "publish"}
    BY <1>1, <1>4, ResolvedOk
  <2>2. /\ cache' \in [at : 0..MaxTime, taken : 0..MaxTime]
        /\ cache'.at <= cache'.taken
    <3>1. task[t].stamp \in 0..MaxTime /\ task[t].taken \in 0..MaxTime
      BY <1>0, AdaptersAssumption DEF CallOk, Call
    <3> QED
      BY <1>0, <1>4, <3>1 DEF ParseRegistry
  <2> QED
    BY <1>0, <1>1, <2>1, <2>2, PlainStep
<1>5. EndsWith(t, IanaFaults) \/ EndsWith(t, IanaFailures) =>
          EndsWith(t, IanaFaults \cup IanaFailures)
  BY DEF EndsWith
<1> QED
  BY <1>3, <1>4, <1>5 DEF IanaReply

LEMMA RdapReplyStep ==
    ASSUME AdaptersInv, NEW t \in Task, RdapReply(t)
    PROVE  AdaptersInv'
<1>1. task[t].kind = "rdap" /\ task[t].pc = "get"
  BY DEF RdapReply, AdaptersInv, CallOk, KindOk
<1>2. \A o, m : LastWord(task[t], o, m)
  BY <1>1 DEF LastWord, Notifiers
<1> QED
  BY <1>1, <1>2, ResultsFit, PlainEnd DEF RdapReply

LEMMA SendBeginStep ==
    ASSUME AdaptersInv, NEW t \in Task, SendBegin(t)
    PROVE  AdaptersInv'
<1>0. /\ CallOk(task[t]) /\ now \in Nat
      /\ task[t].stamp <= now /\ task[t].taken <= now
  BY DEF AdaptersInv, StampsOk
<1> DEFINE x == [task[t] EXCEPT !.pc = "send"]
<1>1. /\ x \in Call /\ x.pc = "send"
      /\ x.stamp = task[t].stamp /\ x.taken = task[t].taken
  BY <1>0 DEF CallOk, Call, Pcs
<1>2. KindOk(x) /\ FitOk(x) /\ PageOk(x)
  BY <1>0 DEF CallOk, Call, KindOk, FitOk, PageOk, SendBegin
<1>3. Becomes(t, x) /\ task[t].pc = "begin"
      /\ UNCHANGED <<now, cache, queued, running, orphans, procs>>
  BY DEF SendBegin
<1> HIDE DEF x
<1> QED
  BY <1>0, <1>1, <1>2, <1>3, PlainStep DEF CallOk

LEMMA AcceptedStep ==
    ASSUME AdaptersInv, NEW t \in Task, Accepted(t)
    PROVE  AdaptersInv'
<1>0. /\ CallOk(task[t]) /\ now \in Nat
      /\ task[t].stamp <= now /\ task[t].taken <= now
  BY DEF AdaptersInv, StampsOk
<1> DEFINE x == [task[t] EXCEPT !.pc = "sent", !.accepted = @ + 1]
<1>1. /\ x \in Call /\ x.pc = "sent" /\ x.accepted = task[t].accepted + 1
      /\ x.kind = task[t].kind /\ x.attempt = task[t].attempt
      /\ x.doubt = task[t].doubt
      /\ x.stamp = task[t].stamp /\ x.taken = task[t].taken
  <2>1. task[t] \in Call
    BY <1>0 DEF CallOk
  <2>2. task[t].accepted + 1 \in Nat
    BY <2>1 DEF Call
  <2>3. "sent" \in Pcs
    BY DEF Pcs
  <2> QED
    BY <2>1, <2>2, <2>3 DEF Call
<1> HIDE DEF x
<1>2. KindOk(x) /\ FitOk(x)
  BY <1>0, <1>1 DEF CallOk, KindOk, FitOk, Accepted
<1>3. PageOk(x)
  BY <1>0, <1>1 DEF CallOk, Call, KindOk, PageOk, Accepted
<1>4. Becomes(t, x) /\ task[t].pc = "send"
      /\ UNCHANGED <<now, cache, queued, running, orphans, procs>>
  BY DEF Accepted, x
<1> QED
  BY <1>0, <1>1, <1>2, <1>3, <1>4, PlainStep DEF CallOk

LEMMA HttpSendReplyStep ==
    ASSUME AdaptersInv, NEW t \in Task, HttpSendReply(t)
    PROVE  AdaptersInv'
<1> DEFINE Codes == {s \in Statuses : IF task[t].pc = "sent" THEN s \in HTTP_2XX \cup HTTP_5XX
                                    ELSE s \notin HTTP_2XX}
           Answers == {Answer(s, "none") : s \in Codes}
           results == {<<SendOutcome(task[t].kind, r), HttpMeaning(r)>> :
                          r \in HttpFaults \cup Answers}
<1>1. /\ task[t].kind \in Notifiers \ {"email"} /\ task[t].pc \in {"send", "sent"}
      /\ UNCHANGED <<now, cache, queued, running, orphans, procs>>
      /\ EndsWith(t, results)
  BY DEF HttpSendReply
<1>2. ASSUME NEW r \in HttpFaults
      PROVE  /\ Fits(task[t].kind, SendOutcome(task[t].kind, r), HttpMeaning(r))
             /\ LastWord(task[t], SendOutcome(task[t].kind, r), HttpMeaning(r))
  <2>1. \E refusals : SendOutcome(task[t].kind, r) = HttpSendOutcome(refusals, r)
    <3>1. CASE task[t].kind = "telegram"
      BY <3>1 DEF SendOutcome, TelegramOutcome
    <3>2. CASE task[t].kind = "discord"
      BY <3>2 DEF SendOutcome, DiscordOutcome
    <3>3. CASE task[t].kind = "webhook"
      BY <3>3 DEF SendOutcome, WebhookOutcome
    <3> QED
      BY <1>1, <3>1, <3>2, <3>3 DEF Notifiers
  <2> QED
    BY <1>1, <2>1, FaultFits DEF LastWord
<1>3. ASSUME NEW s \in Codes
      PROVE  LET r == Answer(s, "none")
             IN  /\ Fits(task[t].kind, SendOutcome(task[t].kind, r), HttpMeaning(r))
                 /\ LastWord(task[t], SendOutcome(task[t].kind, r), HttpMeaning(r))
  BY <1>1, SendFits DEF LastWord
<1>4. \A r \in results : Fits(task[t].kind, r[1], r[2])
                               /\ LastWord(task[t], r[1], r[2])
  BY <1>2, <1>3
<1> HIDE DEF results
<1> QED
  BY <1>1, <1>4, PlainEnd

LEMMA SmtpReplyStep ==
    ASSUME AdaptersInv, NEW t \in Task, SmtpReply(t)
    PROVE  AdaptersInv'
<1> DEFINE Words == IF task[t].pc = "send" THEN SmtpReplies \ {"ok"}
                    ELSE {"timeout", "disconnected", "ok"}
           results == {<<EmailOutcome(r), Meaning(r)>> : r \in Words}
<1>1. /\ task[t].kind = "email" /\ task[t].pc \in {"send", "sent"}
      /\ UNCHANGED <<now, cache, queued, running, orphans, procs>>
      /\ EndsWith(t, results)
  BY DEF SmtpReply
<1>2. ASSUME NEW r \in Words
      PROVE  /\ Fits("email", EmailOutcome(r), Meaning(r))
             /\ LastWord(task[t], EmailOutcome(r), Meaning(r))
  <2>1. r \in SmtpReplies
    BY DEF SmtpReplies
  <2>2. EmailOutcome(r) = "ok" <=> r = "ok"
    BY <2>1, OtherFits
  <2>3. r \in {"timeout", "disconnected"} => Meaning(r) \in Uncertain
    BY OtherFits
  <2> QED
    BY <1>1, <2>1, <2>2, <2>3, OtherFits DEF LastWord
<1>3. \A r \in results : Fits(task[t].kind, r[1], r[2])
                               /\ LastWord(task[t], r[1], r[2])
  BY <1>1, <1>2
<1> HIDE DEF results
<1> QED
  BY <1>1, <1>3, PlainEnd

---------------------------------------------------------------------------
(* WHOIS checks and the thread pool.                                       *)

(* What giving up on a job does to the pool.                               *)
LEMMA AbandonPool ==
    ASSUME PoolOk, NEW t \in Task, Abandon(t)
    PROVE  /\ queued' \subseteq Task /\ running' \subseteq Task
           /\ queued' \cap running' = {}
           /\ IsFiniteSet(running') /\ orphans' \in Nat
           /\ Cardinality(running') + orphans' <= Workers
           /\ t \notin queued' \cup running'
           /\ \A u \in Task \ {t} :
                 u \in queued' \cup running' <=> u \in queued \cup running
<1>1. /\ IsFiniteSet(running')
      /\ Cardinality(running') = IF t \in running THEN Cardinality(running) - 1
                                 ELSE Cardinality(running)
  BY FS_RemoveElement DEF PoolOk, Abandon
<1>2. Cardinality(running) \in Nat
  BY FS_CardinalityType DEF PoolOk
<1>3. orphans' \in Nat /\ Cardinality(running') + orphans' <= Workers
  BY <1>1, <1>2, AdaptersAssumption DEF PoolOk, Abandon
<1> QED
  BY <1>1, <1>3 DEF PoolOk, Abandon

LEMMA WhoisBeginStep ==
    ASSUME AdaptersInv, NEW t \in Task, WhoisBegin(t)
    PROVE  AdaptersInv'
<1>0. /\ CallOk(task[t]) /\ now \in Nat
      /\ task[t].stamp <= now /\ task[t].taken <= now
  BY DEF AdaptersInv, StampsOk
<1> DEFINE x == [task[t] EXCEPT !.pc = "thread"]
<1>1. /\ x \in Call /\ x.pc = "thread"
      /\ x.stamp = task[t].stamp /\ x.taken = task[t].taken
  BY <1>0 DEF CallOk, Call, Pcs
<1>2. KindOk(x) /\ FitOk(x) /\ PageOk(x)
  BY <1>0 DEF CallOk, Call, KindOk, FitOk, PageOk, Notifiers, WhoisBegin
<1>3. Becomes(t, x) /\ task[t].pc = "begin" /\ queued' = queued \cup {t}
      /\ UNCHANGED <<now, cache, running, orphans, procs>>
  BY DEF WhoisBegin
<1> HIDE DEF x
<1>4. /\ DOMAIN task' = Task
      /\ \A u \in Task : task'[u] = IF u = t THEN x ELSE task[u]
      /\ \A u \in Task :
            /\ CallOk(task'[u])
            /\ task'[u].stamp <= now' /\ task'[u].taken <= now'
            /\ task'[u].pc = "iana_reply" => task'[u].stamp <= task'[u].taken
  BY <1>0, <1>1, <1>2, <1>3, Moves DEF CallOk
<1>5. StampsOk'
  BY <1>3, <1>4 DEF AdaptersInv, StampsOk
<1>6. PoolOk'
  BY <1>1, <1>3, <1>4 DEF AdaptersInv, PoolOk
<1>7. NoScriptLeft'
  BY <1>3, <1>4 DEF AdaptersInv, NoScriptLeft
<1> QED
  BY <1>4, <1>5, <1>6, <1>7 DEF AdaptersInv

LEMMA ThreadStartsStep ==
    ASSUME AdaptersInv, NEW t \in Task, ThreadStarts(t)
    PROVE  AdaptersInv'
<1>1. /\ t \in queued /\ t \notin running
      /\ Cardinality(running) + orphans < Workers
      /\ queued' = queued \ {t} /\ running' = running \cup {t}
      /\ UNCHANGED <<now, cache, task, orphans, procs>>
  BY DEF ThreadStarts, AdaptersInv, PoolOk
<1>2. /\ IsFiniteSet(running')
      /\ Cardinality(running') = Cardinality(running) + 1
      /\ Cardinality(running) \in Nat
  BY <1>1, FS_AddElement, FS_CardinalityType DEF AdaptersInv, PoolOk
<1>3. PoolOk'
  <2>1. orphans \in Nat /\ Cardinality(running') + orphans <= Workers
    BY <1>1, <1>2, AdaptersAssumption DEF AdaptersInv, PoolOk
  <2> QED
    BY <1>1, <1>2, <2>1 DEF AdaptersInv, PoolOk
<1> QED
  BY <1>1, <1>3 DEF AdaptersInv, StampsOk, NoScriptLeft

(* A call leaves its job behind and becomes x.                             *)
LEMMA LeavesThread ==
    ASSUME AdaptersInv, NEW t \in Task, NEW x, CallOk(x), Becomes(t, x),
           x.stamp <= now, x.taken <= now, x.pc \notin {"thread", "iana_reply"},
           task[t].pc = "thread",
           queued' \subseteq Task, running' \subseteq Task,
           queued' \cap running' = {}, IsFiniteSet(running'), orphans' \in Nat,
           Cardinality(running') + orphans' <= Workers,
           t \notin queued' \cup running',
           \A u \in Task \ {t} :
              u \in queued' \cup running' <=> u \in queued \cup running,
           UNCHANGED <<now, cache, procs>>
    PROVE  AdaptersInv'
<1>1. /\ DOMAIN task' = Task
      /\ \A u \in Task : task'[u] = IF u = t THEN x ELSE task[u]
      /\ \A u \in Task :
            /\ CallOk(task'[u])
            /\ task'[u].stamp <= now' /\ task'[u].taken <= now'
            /\ task'[u].pc = "iana_reply" => task'[u].stamp <= task'[u].taken
  BY Moves
<1>2. StampsOk'
  BY <1>1 DEF AdaptersInv, StampsOk
<1>3. PoolOk'
  BY <1>1 DEF AdaptersInv, PoolOk
<1>4. NoScriptLeft'
  BY <1>1 DEF AdaptersInv, NoScriptLeft
<1> QED
  BY <1>1, <1>2, <1>3, <1>4 DEF AdaptersInv

LEMMA ThreadReturnsStep ==
    ASSUME AdaptersInv, NEW t \in Task, ThreadReturns(t)
    PROVE  AdaptersInv'
<1>0. /\ CallOk(task[t]) /\ now \in Nat
      /\ task[t].stamp <= now /\ task[t].taken <= now
      /\ t \in running /\ t \notin queued /\ task[t].pc = "thread"
      /\ task[t].kind = "whois"
  BY DEF AdaptersInv, StampsOk, PoolOk, ThreadReturns, CallOk, KindOk
<1>1. PICK r \in WhoisReplies :
        Becomes(t, IF WhoisOutcome(r) = "parse"
                   THEN [task[t] EXCEPT !.pc = "parse"]
                   ELSE Ended(task[t], WhoisOutcome(r), Meaning(r)))
  BY DEF ThreadReturns
<1>2. \E x : /\ CallOk(x) /\ Becomes(t, x) /\ x.stamp <= now /\ x.taken <= now
             /\ x.pc \notin {"thread", "iana_reply"}
  <2>1. CASE WhoisOutcome(r) = "parse"
    <3> DEFINE x == [task[t] EXCEPT !.pc = "parse"]
    <3>1. /\ x \in Call /\ x.pc = "parse"
          /\ x.stamp = task[t].stamp /\ x.taken = task[t].taken
      BY <1>0 DEF CallOk, Call, Pcs
    <3>2. KindOk(x) /\ FitOk(x) /\ PageOk(x)
      BY <1>0 DEF CallOk, Call, KindOk, FitOk, PageOk, Notifiers
    <3>3. CallOk(x) /\ Becomes(t, x)
      BY <1>1, <2>1, <3>1, <3>2 DEF CallOk
    <3> HIDE DEF x
    <3> QED
      BY <1>0, <3>1, <3>3
  <2>2. CASE WhoisOutcome(r) # "parse"
    <3>1. Fits("whois", WhoisOutcome(r), Meaning(r))
      BY <2>2, OtherFits
    <3>2. LastWord(task[t], WhoisOutcome(r), Meaning(r))
      BY <1>0 DEF LastWord, Notifiers
    <3> DEFINE x == Ended(task[t], WhoisOutcome(r), Meaning(r))
    <3>3. CallOk(x) /\ x.stamp = 0 /\ x.taken = 0
          /\ x.pc \in {"sleep", "raised", "publish"}
      BY <1>0, <3>1, <3>2, EndedOk
    <3>4. Becomes(t, x)
      BY <1>1, <2>2
    <3> HIDE DEF x
    <3> QED
      BY <1>0, <3>3, <3>4
  <2> QED
    BY <2>1, <2>2
<1>3. PICK x : /\ CallOk(x) /\ Becomes(t, x) /\ x.stamp <= now /\ x.taken <= now
               /\ x.pc \notin {"thread", "iana_reply"}
  BY <1>2
<1>4. /\ running' = running \ {t}
      /\ UNCHANGED <<now, cache, queued, orphans, procs>>
  BY DEF ThreadReturns
<1>5. /\ IsFiniteSet(running') /\ orphans' \in Nat
      /\ Cardinality(running') + orphans' <= Workers
  <2>1. IsFiniteSet(running') /\ Cardinality(running') = Cardinality(running) - 1
    BY <1>0, <1>4, FS_RemoveElement DEF AdaptersInv, PoolOk
  <2>2. Cardinality(running) \in Nat
    BY FS_CardinalityType DEF AdaptersInv, PoolOk
  <2> QED
    BY <1>4, <2>1, <2>2, AdaptersAssumption DEF AdaptersInv, PoolOk
<1>6. /\ queued' \subseteq Task /\ running' \subseteq Task
      /\ queued' \cap running' = {} /\ t \notin queued' \cup running'
      /\ \A u \in Task \ {t} :
            u \in queued' \cup running' <=> u \in queued \cup running
  BY <1>0, <1>4 DEF AdaptersInv, PoolOk
<1> QED
  BY <1>0, <1>3, <1>4, <1>5, <1>6, LeavesThread

LEMMA OrphanReturnsStep ==
    ASSUME AdaptersInv, OrphanReturns
    PROVE  AdaptersInv'
<1>1. Cardinality(running) \in Nat
  BY FS_CardinalityType DEF AdaptersInv, PoolOk
<1>2. PoolOk'
  BY <1>1, AdaptersAssumption DEF AdaptersInv, PoolOk, OrphanReturns
<1> QED
  BY <1>2 DEF AdaptersInv, StampsOk, NoScriptLeft, OrphanReturns

LEMMA WhoisTimeoutStep ==
    ASSUME AdaptersInv, NEW t \in Task, WhoisTimeout(t)
    PROVE  AdaptersInv'
<1> DEFINE x == Ended(task[t], WhoisOutcome("timeout"), "silence")
<1>1. /\ CallOk(task[t]) /\ now \in Nat /\ task[t].kind = "whois"
      /\ task[t].pc = "thread" /\ Abandon(t) /\ Becomes(t, x)
      /\ UNCHANGED <<now, cache, procs>>
  BY DEF AdaptersInv, StampsOk, WhoisTimeout, CallOk, KindOk
<1>2. Fits("whois", WhoisOutcome("timeout"), "silence")
  BY OtherFits
<1>3. LastWord(task[t], WhoisOutcome("timeout"), "silence")
  BY <1>1 DEF LastWord, Notifiers
<1>4. CallOk(x) /\ x.stamp = 0 /\ x.taken = 0 /\ x.pc \in {"sleep", "raised", "publish"}
  BY <1>1, <1>2, <1>3, EndedOk
<1>5. PoolOk
  BY DEF AdaptersInv
<1> HIDE DEF x
<1> QED
  BY <1>1, <1>4, <1>5, AbandonPool, LeavesThread

LEMMA WhoisParsedStep ==
    ASSUME AdaptersInv, NEW t \in Task, WhoisParsed(t)
    PROVE  AdaptersInv'
<1>1. task[t].kind = "whois" /\ task[t].pc = "parse"
  BY DEF WhoisParsed, AdaptersInv, CallOk, KindOk
<1>2. \A o, m : LastWord(task[t], o, m)
  BY <1>1 DEF LastWord, Notifiers
<1> QED
  BY <1>1, <1>2, ResultsFit, PlainEnd DEF WhoisParsed

---------------------------------------------------------------------------
(* Scripts.                                                                *)

(* The call's process, if it has one, is gone when the call moves on.      *)
LEMMA LeavesScript ==
    ASSUME AdaptersInv, NEW t \in Task, NEW x, CallOk(x), Becomes(t, x),
           x.stamp = 0, x.taken = 0, x.pc \in {"sleep", "raised", "publish"},
           task[t].pc = "script", procs' = procs \ {<<t, "call">>},
           UNCHANGED <<now, cache, queued, running, orphans>>
    PROVE  AdaptersInv'
<1>0. now \in Nat
  BY DEF AdaptersInv, StampsOk
<1>1. /\ DOMAIN task' = Task
      /\ \A u \in Task : task'[u] = IF u = t THEN x ELSE task[u]
      /\ \A u \in Task :
            /\ CallOk(task'[u])
            /\ task'[u].stamp <= now' /\ task'[u].taken <= now'
            /\ task'[u].pc = "iana_reply" => task'[u].stamp <= task'[u].taken
  BY <1>0, Moves
<1>2. StampsOk'
  BY <1>1 DEF AdaptersInv, StampsOk
<1>3. PoolOk'
  BY <1>1 DEF AdaptersInv, PoolOk
<1>4. NoScriptLeft'
  BY <1>1 DEF AdaptersInv, NoScriptLeft
<1> QED
  BY <1>1, <1>2, <1>3, <1>4 DEF AdaptersInv

LEMMA ScriptBeginStep ==
    ASSUME AdaptersInv, NEW t \in Task, ScriptBegin(t)
    PROVE  AdaptersInv'
<1>0. /\ CallOk(task[t]) /\ now \in Nat
      /\ task[t].stamp <= now /\ task[t].taken <= now
      /\ task[t].pc = "begin" /\ task[t].kind = "script"
      /\ UNCHANGED <<now, cache, queued, running, orphans>>
  BY DEF AdaptersInv, StampsOk, ScriptBegin
<1>1. CASE /\ procs' = procs \cup {<<t, "call">>}
           /\ Becomes(t, [task[t] EXCEPT !.pc = "script"])
  <2> DEFINE x == [task[t] EXCEPT !.pc = "script"]
  <2>1. /\ x \in Call /\ x.pc = "script"
        /\ x.stamp = task[t].stamp /\ x.taken = task[t].taken
    BY <1>0 DEF CallOk, Call, Pcs
  <2>2. KindOk(x) /\ FitOk(x) /\ PageOk(x)
    BY <1>0 DEF CallOk, Call, KindOk, FitOk, PageOk, Notifiers
  <2>3. Becomes(t, x)
    BY <1>1
  <2> HIDE DEF x
  <2>4. /\ DOMAIN task' = Task
        /\ \A u \in Task : task'[u] = IF u = t THEN x ELSE task[u]
        /\ \A u \in Task :
              /\ CallOk(task'[u])
              /\ task'[u].stamp <= now' /\ task'[u].taken <= now'
              /\ task'[u].pc = "iana_reply" => task'[u].stamp <= task'[u].taken
    BY <1>0, <2>1, <2>2, <2>3, Moves DEF CallOk
  <2>5. StampsOk'
    BY <1>0, <2>4 DEF AdaptersInv, StampsOk
  <2>6. PoolOk'
    BY <1>0, <2>1, <2>4 DEF AdaptersInv, PoolOk
  <2>7. NoScriptLeft'
    BY <1>1, <2>1, <2>4 DEF AdaptersInv, NoScriptLeft
  <2> QED
    BY <2>4, <2>5, <2>6, <2>7 DEF AdaptersInv
<1>2. CASE /\ Becomes(t, Ended(task[t], ScriptOutcome("spawn_failed"), "refused"))
           /\ UNCHANGED procs
  <2> DEFINE x == Ended(task[t], ScriptOutcome("spawn_failed"), "refused")
  <2>1. LastWord(task[t], ScriptOutcome("spawn_failed"), "refused")
    BY <1>0 DEF LastWord, Notifiers
  <2>2. Fits("script", ScriptOutcome("spawn_failed"), "refused")
    BY OtherFits
  <2>3. CallOk(x) /\ x.stamp = 0 /\ x.taken = 0 /\ x.pc \in {"sleep", "raised", "publish"}
    BY <1>0, <2>1, <2>2, EndedOk
  <2>4. Becomes(t, x)
    BY <1>2
  <2> HIDE DEF x
  <2> QED
    BY <1>0, <1>2, <2>3, <2>4, PlainStep
<1> QED
  BY <1>1, <1>2 DEF ScriptBegin

LEMMA ScriptExitsStep ==
    ASSUME AdaptersInv, NEW t \in Task, ScriptExits(t)
    PROVE  AdaptersInv'
<1>0. /\ CallOk(task[t]) /\ task[t].pc = "script" /\ task[t].kind = "script"
      /\ procs' = procs \ {<<t, "call">>}
      /\ UNCHANGED <<now, cache, queued, running, orphans>>
  BY DEF ScriptExits, AdaptersInv, CallOk, KindOk
<1>1. PICK r \in {<<ScriptOutcome(q), Meaning(q)>> :
                     q \in ScriptReplies \ {"spawn_failed", "timeout"}} :
             Becomes(t, Ended(task[t], r[1], r[2]))
  BY DEF ScriptExits, EndsWith
<1>2. Fits("script", r[1], r[2]) /\ LastWord(task[t], r[1], r[2])
  BY <1>0, ResultsFit DEF LastWord, Notifiers
<1> DEFINE x == Ended(task[t], r[1], r[2])
<1>3. CallOk(x) /\ x.stamp = 0 /\ x.taken = 0 /\ x.pc \in {"sleep", "raised", "publish"}
  BY <1>0, <1>2, EndedOk
<1>4. Becomes(t, x)
  BY <1>1
<1> HIDE DEF x
<1> QED
  BY <1>0, <1>3, <1>4, LeavesScript

LEMMA ScriptTimeoutStep ==
    ASSUME AdaptersInv, NEW t \in Task, ScriptTimeout(t)
    PROVE  AdaptersInv'
<1> DEFINE x == Ended(task[t], ScriptOutcome("timeout"), "silence")
<1>0. /\ CallOk(task[t]) /\ task[t].pc = "script" /\ task[t].kind = "script"
      /\ procs' = procs \ {<<t, "call">>} /\ Becomes(t, x)
      /\ UNCHANGED <<now, cache, queued, running, orphans>>
  BY DEF ScriptTimeout, AdaptersInv, CallOk, KindOk
<1>1. Fits("script", ScriptOutcome("timeout"), "silence")
  BY OtherFits
<1>2. LastWord(task[t], ScriptOutcome("timeout"), "silence")
  BY <1>0 DEF LastWord, Notifiers
<1>3. CallOk(x) /\ x.stamp = 0 /\ x.taken = 0 /\ x.pc \in {"sleep", "raised", "publish"}
  BY <1>0, <1>1, <1>2, EndedOk
<1> HIDE DEF x
<1> QED
  BY <1>0, <1>3, LeavesScript

LEMMA StrayExitsStep ==
    ASSUME AdaptersInv, NEW t \in Task, StrayExits(t)
    PROVE  AdaptersInv'
BY DEF AdaptersInv, StampsOk, PoolOk, NoScriptLeft, StrayExits

---------------------------------------------------------------------------
(* Shutdown cancels a call wherever it waits.                              *)
LEMMA CancelStep ==
    ASSUME AdaptersInv, NEW t \in Task, Cancel(t)
    PROVE  AdaptersInv'
<1>0. /\ now \in Nat /\ PoolOk /\ Abandon(t) /\ Becomes(t, Idle)
      /\ UNCHANGED <<now, cache>>
  BY DEF AdaptersInv, StampsOk, Cancel
<1>1. /\ DOMAIN task' = Task
      /\ \A u \in Task : task'[u] = IF u = t THEN Idle ELSE task[u]
      /\ \A u \in Task :
            /\ CallOk(task'[u])
            /\ task'[u].stamp <= now' /\ task'[u].taken <= now'
            /\ task'[u].pc = "iana_reply" => task'[u].stamp <= task'[u].taken
  BY <1>0, IdleOk, Moves
<1>2. StampsOk'
  BY <1>0, <1>1 DEF AdaptersInv, StampsOk
<1>3. PoolOk'
  BY <1>0, <1>1, IdleOk, AbandonPool DEF PoolOk
<1>4. \A u \in Task : <<u, "call">> \in procs' => <<u, "call">> \in procs /\ u # t
  BY DEF Cancel
<1>5. NoScriptLeft'
  BY <1>1, <1>4 DEF AdaptersInv, NoScriptLeft
<1> QED
  BY <1>1, <1>2, <1>3, <1>5 DEF AdaptersInv

LEMMA TickStep ==
    ASSUME AdaptersInv, Tick
    PROVE  AdaptersInv'
<1>1. StampsOk'
  <2>1. now + 1 \in 0..MaxTime
    BY AdaptersAssumption DEF AdaptersInv, StampsOk, Tick
  <2>2. \A t \in Task : task[t].stamp \in Nat /\ task[t].taken \in Nat
    BY DEF AdaptersInv, CallOk, Call
  <2> QED
    BY <2>1, <2>2 DEF AdaptersInv, StampsOk, Tick
<1> QED
  BY <1>1 DEF AdaptersInv, PoolOk, NoScriptLeft, Tick

---------------------------------------------------------------------------
(* The invariant is inductive.                                             *)

LEMMA InvInit == Init => AdaptersInv
<1> SUFFICES ASSUME Init PROVE AdaptersInv
  OBVIOUS
<1>1. DOMAIN task = Task /\ \A t \in Task : task[t] = Idle
  BY DEF Init
<1>2. \A t \in Task : CallOk(task[t])
  BY <1>1, IdleOk
<1>3. StampsOk
  BY <1>1, IdleOk, AdaptersAssumption DEF Init, StampsOk
<1>4. PoolOk
  BY <1>1, IdleOk, FS_EmptySet, AdaptersAssumption DEF Init, PoolOk
<1> QED
  BY <1>1, <1>2, <1>3, <1>4 DEF AdaptersInv, NoScriptLeft, Init

LEMMA InvStutter == AdaptersInv /\ UNCHANGED vars => AdaptersInv'
BY DEF AdaptersInv, StampsOk, PoolOk, NoScriptLeft, vars

LEMMA InvInductive == AdaptersInv /\ [Next]_vars => AdaptersInv'
<1> SUFFICES ASSUME AdaptersInv, [Next]_vars PROVE AdaptersInv'
  OBVIOUS
<1>1. ASSUME NEW t \in Task, TaskStep(t) PROVE AdaptersInv'
  BY <1>1, WakeStep, FinishStep, RdapBeginStep, IanaReplyStep, RdapReplyStep,
     WhoisBeginStep, WhoisTimeoutStep, WhoisParsedStep, ScriptBeginStep,
     ScriptTimeoutStep, SendBeginStep, HttpSendReplyStep, SmtpReplyStep
  DEF TaskStep
<1>2. ASSUME NEW t \in Task, Remote(t) PROVE AdaptersInv'
  BY <1>2, IanaServesStep, ThreadStartsStep, ThreadReturnsStep, ScriptExitsStep,
     StrayExitsStep, AcceptedStep
  DEF Remote
<1>3. ASSUME NEW t \in Task, Cancel(t) PROVE AdaptersInv'
  BY <1>3, CancelStep
<1>4. ASSUME NEW t \in Task, NEW kind \in Uses[t], Start(t, kind) PROVE AdaptersInv'
  BY <1>4, StartStep
<1> QED
  BY <1>1, <1>2, <1>3, <1>4, TickStep, OrphanReturnsStep, InvStutter DEF Next

THEOREM InvAlways == FairSpec => []AdaptersInv
BY InvInit, InvInductive, PTL DEF FairSpec

---------------------------------------------------------------------------
(* Every step keeps the types, an attempt is never one too many, a whois   *)
(* check waits exactly while its job is queued or has a thread, and the    *)
(* pool never runs more threads than it has, those of callers that gave up *)
(* included.                                                               *)
THEOREM TypesKept == FairSpec => []TypeOK
<1>1. AdaptersInv => TypeOK
  <2> SUFFICES ASSUME AdaptersInv PROVE TypeOK
    OBVIOUS
  <2>1. ASSUME NEW t \in Task
        PROVE  /\ task[t].kind \in Checkers \cup Notifiers \cup {"none"}
               /\ task[t].attempt \in 0..MaxAttempts
               /\ task[t].accepted \in 0..task[t].attempt
    BY AdaptersAssumption DEF AdaptersInv, CallOk, Call, Kinds, PageOk
  <2>2. Cardinality(running) \in Nat
    BY FS_CardinalityType DEF AdaptersInv, PoolOk
  <2>3. Cardinality(running) + orphans \in 0..Workers
    BY <2>2, AdaptersAssumption DEF AdaptersInv, PoolOk
  <2> QED
    BY <2>1, <2>3 DEF AdaptersInv, StampsOk, PoolOk, TypeOK
<1> QED
  BY <1>1, InvAlways, PTL

(* A script's process lives only while its check waits for it, or when the *)
(* check was cancelled: no retry ever leaves one behind.                   *)
THEOREM ScriptsReaped == FairSpec => []NoScriptLeft
<1>1. AdaptersInv => NoScriptLeft
  BY DEF AdaptersInv
<1> QED
  BY <1>1, InvAlways, PTL

(* Whatever the adapter and the reply, the Misjudged apart: what may pass  *)
(* is retried to the last attempt, what will not never, and only an answer *)
(* nobody can read or an HTTP server that hangs up ends a call without an  *)
(* event.                                                                  *)
THEOREM OutcomesAreFit == FairSpec => []OutcomesFit
<1>1. AdaptersInv => OutcomesFit
  BY DEF AdaptersInv, CallOk, FitOk, OutcomesFit
<1> QED
  BY <1>1, InvAlways, PTL

(* What is announced of a page is true, through any number of retries: one *)
(* dispatched was taken, exactly once unless an attempt left it open, and  *)
(* one announced as failed was then not taken at all.                      *)
THEOREM PagesAccounted == FairSpec => []PageAccounted
<1>1. AdaptersInv => PageAccounted
  BY DEF AdaptersInv, CallOk, PageOk, PageAccounted
<1> QED
  BY <1>1, InvAlways, PTL

---------------------------------------------------------------------------
(* Which steps take a check that begins further: RdapBegin alone.          *)
LEMMA OthersKeep ==
    ASSUME AdaptersInv, NEW t \in Task, NEW u \in Task, t # u, NEW x, Becomes(u, x)
    PROVE  task'[t] = task[t]
BY DEF AdaptersInv, Becomes

LEMMA LookupIsFresh ==
    ASSUME AdaptersInv, NEW t \in Task, task[t].kind = "rdap", task[t].pc = "begin",
           [Next]_vars, task'[t] # task[t], task'[t].pc # "iana"
    PROVE  cache # None /\ now - cache.taken < Ttl
<1>1. PICK u \in Task : TaskStep(u) \/ Remote(u) \/ Cancel(u)
                         \/ \E kind \in Uses[u] : Start(u, kind)
  BY DEF Next, vars, Tick, OrphanReturns
<1>2. u = t
  <2>1. \/ \E x : Becomes(u, x)
        \/ UNCHANGED task
    BY <1>1 DEF TaskStep, Remote, Cancel, Start, Wake, Finish, RdapBegin, IanaReply,
       RdapReply, WhoisBegin, WhoisTimeout, WhoisParsed, ScriptBegin, ScriptTimeout,
       SendBegin, HttpSendReply, SmtpReply, IanaServes, ThreadStarts, ThreadReturns,
       ScriptExits, StrayExits, Accepted, EndsWith, Resolved
  <2> QED
    BY <2>1, OthersKeep
<1>3. t \notin queued \cup running
  BY DEF AdaptersInv, PoolOk
<1>4. RdapBegin(t)
  BY <1>1, <1>2, <1>3 DEF TaskStep, Remote, Cancel, Start, Wake, Finish, IanaReply,
     RdapReply, WhoisBegin, WhoisTimeout, WhoisParsed, ScriptBegin, ScriptTimeout,
     SendBegin, HttpSendReply, SmtpReply, IanaServes, ThreadStarts, ThreadReturns,
     ScriptExits, StrayExits, Accepted, Notifiers
<1>5. CASE Fresh(cache)
  BY <1>5, AdaptersAssumption DEF Fresh, AdaptersInv, StampsOk
<1>6. CASE ~Fresh(cache)
  BY <1>4, <1>6 DEF RdapBegin, Becomes, AdaptersInv, CallOk, Call
<1> QED
  BY <1>5, <1>6

(* A check goes on from the cache only with a registry that IANA served    *)
(* less than the TTL ago, whatever order the answers to concurrent fetches *)
(* came in and however late.                                               *)
THEOREM LookupsFresh == FairSpec => FreshLookup
<1>1. AdaptersInv /\ [Next]_vars =>
        [\A t \in Task :
            task[t].kind = "rdap" /\ task[t].pc = "begin"
              /\ task'[t] # task[t] /\ task'[t].pc # "iana" =>
                    cache # None /\ now - cache.taken < Ttl]_vars
  BY LookupIsFresh
<1> QED
  BY <1>1, InvAlways, PTL DEF FairSpec, FreshLookup
============================================================================
