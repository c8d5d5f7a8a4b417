------------------------------ MODULE Replies ------------------------------
(***************************************************************************)
(* What each adapter makes of what it gets back: the checkers rdap, whois  *)
(* and script, the IANA bootstrap, and the four notifiers.  An outcome is  *)
(* "ok", "transient" (TRANSIENT_ERROR, DeliveryFailedError), "permanent"   *)
(* (PERMANENT_ERROR, NotificationError) or "raise": any other exception,   *)
(* which goes through the use case that called.                            *)
(***************************************************************************)
EXTENDS Integers

(* An HTTP exchange: no answer because of a fault, or a status and a body. *)
(* httpx.RemoteProtocolError, a server that hangs up in mid-answer, is     *)
(* neither a TimeoutException nor a NetworkError: "protocol".              *)
Fault(f)     == [fault |-> f, status |-> 0, body |-> "none"]
Answer(s, b) == [fault |-> "none", status |-> s, body |-> b]

HttpFaults == {Fault(f) : f \in {"timeout", "network", "protocol"}}

NoAnswer(r) == r.fault \in {"timeout", "network"}

HTTP_2XX == 200..299
HTTP_4XX == 400..499
HTTP_5XX == 500..599

(* The representatives of every range the adapters tell apart.             *)
Statuses == {200, 204, 302, 400, 401, 404, 429, 500, 599, 600}

---------------------------------------------------------------------------
(* Mutant: the lower bound of the server errors is off by one.             *)
RdapOutcome_Above500(r) ==
    IF NoAnswer(r) THEN "transient"
    ELSE IF r.fault = "protocol" THEN "raise"
    ELSE IF r.status \in HTTP_5XX \ {500} THEN "transient"
    ELSE "permanent"

(* RdapChecker.check once the base URL is known.  A 404 is "no such        *)
(* domain"; any other status is judged by its body, where the one thing    *)
(* not caught is an eventDate that fromisoformat refuses.                  *)
RdapBodies == {"not_json", "not_object", "no_event", "bad_date", "date"}

RdapOutcome(r) ==
    IF NoAnswer(r) THEN "transient"
    ELSE IF r.fault = "protocol" THEN "raise"
    ELSE IF r.status \in HTTP_5XX THEN "transient"
    ELSE IF r.status \in HTTP_4XX THEN "permanent"
    ELSE IF r.body = "date" THEN "ok"
    ELSE IF r.body = "bad_date" THEN "raise"
    ELSE "permanent"

(* IanaBootstrap._get_registry: everything from 500 up is transient, and   *)
(* a JSON value that is not an object has no get().                        *)
IanaBodies == {"not_json", "not_object", "no_services", "services"}

IanaOutcome(r) ==
    IF NoAnswer(r) THEN "transient"
    ELSE IF r.fault = "protocol" THEN "raise"
    ELSE IF r.status >= 500 THEN "transient"
    ELSE IF r.status >= 400 THEN "permanent"
    ELSE IF r.body = "services" THEN "ok"
    ELSE IF r.body = "not_object" THEN "raise"
    ELSE "permanent"

(* _WhoisFetcher.fetch: what whois.whois came back with, or wait_for's     *)
(* TimeoutError.  python-whois raises for some answers, a registry's "no   *)
(* such domain" among them ("not_found"), as for a dead server             *)
(* ("unreachable").  Only a text without a no-match marker is parsed.      *)
WhoisReplies == {"unreachable", "not_found", "empty", "no_match", "text"}

WhoisOutcome(r) ==
    CASE r \in {"timeout", "unreachable", "not_found", "empty"} -> "transient"
      [] r = "no_match"                                         -> "permanent"
      [] r = "text"                                             -> "parse"

(* WhoisCheckerWithParser.check: every ParseError is permanent.            *)
ParseReplies == {"date", "parse_error", "other_exception"}

ParseOutcome(r) ==
    CASE r = "date"            -> "ok"
      [] r = "parse_error"     -> "permanent"
      [] r = "other_exception" -> "raise"

(* ScriptChecker.check: the JSON object on stdout decides, whatever the    *)
(* exit code.                                                              *)
ScriptReplies ==
    {"spawn_failed", "timeout", "no_object", "ok_no_date", "ok_bad_date",
     "ok_date", "failed_transient", "failed"}

ScriptOutcome(r) ==
    CASE r = "ok_date"                         -> "ok"
      [] r \in {"timeout", "failed_transient"} -> "transient"
      [] OTHER                                 -> "permanent"

---------------------------------------------------------------------------
(* Mutant: only 200 counts as delivered.                                   *)
HttpSendOutcome_Only200(refusals, r) ==
    IF NoAnswer(r) THEN "transient"
    ELSE IF r.fault = "protocol" THEN "raise"
    ELSE IF r.status = 200 THEN "ok"
    ELSE IF r.status \in refusals THEN "permanent"
    ELSE IF r.status \in HTTP_5XX \cup {429} THEN "transient"
    ELSE IF r.status \in HTTP_4XX THEN "permanent"
    ELSE "transient"

(* The ladder the HTTP notifiers share.                                    *)
HttpSendOutcome(refusals, r) ==
    IF NoAnswer(r) THEN "transient"
    ELSE IF r.fault = "protocol" THEN "raise"
    ELSE IF r.status \in HTTP_2XX THEN "ok"
    ELSE IF r.status \in refusals THEN "permanent"
    ELSE IF r.status \in HTTP_5XX \cup {429} THEN "transient"
    ELSE IF r.status \in HTTP_4XX THEN "permanent"
    ELSE "transient"

TelegramOutcome(r) == HttpSendOutcome({401, 403}, r)
DiscordOutcome(r)  == HttpSendOutcome({401, 403, 404}, r)
WebhookOutcome(r)  == HttpSendOutcome({}, r)

(* EmailNotifier.send.  Any answer to AUTH but success is an              *)
(* SMTPAuthenticationError, "auth_busy" (454) too; a relay that takes no   *)
(* address of the envelope is an SMTPRecipientsRefused, which like         *)
(* SMTPServerDisconnected reaches the last clause.                         *)
SmtpReplies ==
    {"auth", "auth_busy", "connect", "timeout", "4xx", "5xx", "bad_address",
     "disconnected", "ok"}

EmailOutcome(r) ==
    CASE r = "ok"                         -> "ok"
      [] r \in {"auth", "auth_busy", "5xx"} -> "permanent"
      [] OTHER                            -> "transient"

---------------------------------------------------------------------------
(* The reference the outcomes are compared with: what the other side meant,*)
(* by HTTP and SMTP, whatever the adapter makes of it.  "silence",         *)
(* "hangup" and "server_error": nobody knows whether the request was       *)
(* served; "outage", "too_many" and "auth_busy": not now; "refused",       *)
(* "denied", "bad_address" and "not_found": not at all; "garbled": an      *)
(* answer nobody can read.                                                 *)
Uncertain == {"silence", "hangup", "server_error"}
Temporary == Uncertain \cup {"outage", "too_many", "auth_busy"}
Permanent == {"refused", "denied", "bad_address", "not_found"}
Meanings  == Temporary \cup Permanent \cup {"garbled", "answer"}

HttpMeaning(r) ==
    IF NoAnswer(r) THEN "silence"
    ELSE IF r.fault = "protocol" THEN "hangup"
    ELSE IF r.status \in HTTP_5XX THEN "server_error"
    ELSE IF r.status = 429 THEN "too_many"
    ELSE IF r.status \in HTTP_4XX THEN "refused"
    ELSE IF r.body \in {"bad_date", "not_object"} THEN "garbled"
    ELSE "answer"

Meaning(r) ==
    CASE r \in {"timeout", "unreachable", "connect", "disconnected"} -> "silence"
      [] r \in {"4xx", "failed_transient"}              -> "outage"
      [] r \in {"auth_busy", "bad_address", "not_found"} -> r
      [] r = "auth"                                      -> "denied"
      [] r \in {"5xx", "no_match", "spawn_failed", "failed"} -> "refused"
      [] r = "other_exception"                           -> "garbled"
      [] OTHER                                           -> "answer"
============================================================================
