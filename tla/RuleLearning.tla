---------------------------- MODULE RuleLearning ----------------------------
(***************************************************************************)
(* Learned WHOIS rules: concurrent ParsingService.parse calls (static,     *)
(* then learned rules, then the suggester behind two rate limiters and a   *)
(* circuit breaker, the validation pipeline and the learned-rules          *)
(* repository), a periodic RevalidationService.run_once and an operator    *)
(* at the same repository.  On SQL every change sits in the one session of *)
(* the process, which nothing commits while the daemon runs.               *)
(* A WHOIS text is its format; what a regex makes of a format is a         *)
(* constant: no match, a match whose text does not convert or whose        *)
(* conversion raises something else than a ParseError (an epoch out of     *)
(* range), a date gate 4 refuses (past, too far, the registration date), a *)
(* sentinel date (gate 6) or a plausible one.                              *)
(***************************************************************************)
EXTENDS SuggesterSafety, FiniteSets, Functions

CONSTANTS
    Tld, Domain,
    TldOf,        \* the TLD of each domain
    Regex, Format,
    FirstFormat,  \* the format in which replies are served at first
    Outcome,      \* what a regex makes of a format
    Static,       \* static_rules: the regexes configured for each TLD
    KnownGood,    \* known_good: a reference domain of the TLD, or None
    Learner,      \* concurrent parse calls
    Stores,       \* the repositories that may be in use: "memory", "sql"
    Saved,        \* the rules that an earlier life committed to the table
    HostCapacity, HostWindow, TldCapacity, TldWindow,
    FailureThreshold, FailureWindow, OpenFor,
    CacheFor,     \* revalidate_after: life of the gate-5 cache, age of due
    MaxTime,      \* bound on the clock
    MaxParses,    \* bound on the parse calls that reach the learned rules
    MaxDrifts     \* bound on the changes of format

ASSUME RuleAssumption ==
    /\ TldOf \in [Domain -> Tld]
    /\ Outcome \in [Regex \X Format -> {"none", "bad", "raises", "refused",
                                        "sentinel", "good"}]
    /\ Static \in [Tld -> SUBSET Regex]
    /\ KnownGood \in [Tld -> Domain \cup {None}]
    /\ {HostCapacity, HostWindow, TldCapacity, TldWindow, FailureThreshold,
        FailureWindow, OpenFor, CacheFor} \subseteq Nat \ {0}
    /\ FirstFormat \in Format
    /\ Stores \subseteq {"memory", "sql"}
    /\ None \notin Learner \cup Nat \cup [tokens : Nat, last : Nat]

LearnedRule == [tld : Tld, regex : Regex, disabled : BOOLEAN,
                sample : Domain, revalidated : Nat \cup {None}]

(* UNIQUE (tld, expires_regex) of the table.                               *)
ASSUME SavedAssumption ==
    /\ Saved \in Seq(LearnedRule)
    /\ \A i, j \in 1..Len(Saved) :
          Saved[i].tld = Saved[j].tld /\ Saved[i].regex = Saved[j].regex => i = j

(* The process-wide limiter's one bucket is not one of the TLDs'.          *)
Host == "host"
ASSUME HostAssumption == Host \notin Tld

Bucket == Tld \cup {Host}

VARIABLES
    clock,
    page,     \* the format in which each domain's WHOIS is served today
    rules,    \* the repository: the learned rules, by id
    bucket,   \* the limiters' token buckets
    breaker,
    cache,    \* gate 5: the known-good text of each TLD and its age
    parse,    \* the parse calls
    parses, drifts,   \* how many there were
    store,    \* the repository in use
    reval,    \* the revalidation pass: the rules still to do, as listed, by id
    grants,   \* history: when each bucket granted a token
    calls     \* history: the suggester's calls since it last answered, in
              \* flight (by whom) or ended

safety == <<bucket, breaker, grants, calls>>
count == <<parses, drifts, store>>
vars == <<clock, page, rules, bucket, breaker, cache, parse, reval, grants,
          calls, parses, drifts, store>>

IdleParse == [pc |-> "idle", domain |-> None, raw |-> None, rule |-> None,
              since |-> None]
IdleReval == [todo |-> <<>>, raw |-> None, since |-> None]

Init ==
    /\ clock = 0
    /\ page = [d \in Domain |-> FirstFormat]
    /\ bucket = [k \in Bucket |-> None]
    /\ breaker = Closed
    /\ cache = [t \in Tld |-> None]
    /\ parse = [l \in Learner |-> IdleParse]
    /\ reval = IdleReval
    /\ grants = [k \in Bucket |-> <<>>]
    /\ calls = <<>>
    /\ parses = 0
    /\ drifts = 0
    /\ store \in Stores
    /\ rules = IF store = "sql" THEN Saved ELSE <<>>

---------------------------------------------------------------------------
(* The environment: time passes; a registry changes the shape of a reply.  *)
Tick ==
    /\ clock < MaxTime
    /\ clock' = clock + 1
    /\ UNCHANGED <<page, rules, cache, parse, reval, safety, count>>

Drift(d, f) ==
    /\ page[d] # f
    /\ drifts < MaxDrifts
    /\ page' = [page EXCEPT ![d] = f]
    /\ drifts' = drifts + 1
    /\ UNCHANGED <<clock, rules, cache, parse, reval, safety, parses, store>>

---------------------------------------------------------------------------
(* RegexWhoisParser.parse over a list of rules of the domain's TLD ends in *)
(* a NoMatchingRuleError; otherwise in a date or in another exception.     *)
NoMatchingRule(regexes, raw) == \A r \in regexes : Outcome[<<r, raw>>] = "none"

(* for_tld: the rules of the TLD that are not disabled.                    *)
ForTld(t) ==
    {rules[i].regex : i \in {j \in 1..Len(rules) :
                                rules[j].tld = t /\ ~rules[j].disabled}}

(* Gate 5 for domain d: the reference domain, unless it is d itself.       *)
Reference(d) ==
    IF KnownGood[TldOf[d]] = d THEN None ELSE KnownGood[TldOf[d]]

Cached(t) == cache[t] # None /\ clock - cache[t].at < CacheFor

(* Gates 5 and 6, given the text of the reference domain if there is one:  *)
(* the rule must match it, whatever it captures there; a sentinel is the   *)
(* last thing refused.                                                     *)
Verdict(r, raw, ref) ==
    IF (ref # None /\ Outcome[<<r, ref>>] = "none")
       \/ Outcome[<<r, raw>>] = "sentinel"
    THEN "reject" ELSE "pass"

(* ValidationPipeline.validate up to its only await: a verdict, "raises",  *)
(* or "fetch" when the text of the reference domain is to be fetched first.*)
Validate(r, raw, d) ==
    IF Outcome[<<r, raw>>] = "raises" THEN "raises"
    ELSE IF Outcome[<<r, raw>>] \in {"none", "bad", "refused"} THEN "reject"
    ELSE IF Reference(d) = None THEN Verdict(r, raw, None)
    ELSE IF Cached(TldOf[d]) THEN Verdict(r, raw, cache[TldOf[d]].raw)
    ELSE "fetch"

(* After the await: the fetch failed for now (no verdict), or for good     *)
(* (gate 5 is skipped), or the text is cached as of the time before it.    *)
CrossCheck(r, raw, d, since, answer) ==
    LET ref == page[Reference(d)]
    IN IF answer = "text"
       THEN [verdict |-> Verdict(r, raw, ref), cached |-> [at |-> since, raw |-> ref]]
       ELSE [verdict |-> IF answer = "gone" THEN Verdict(r, raw, None)
                         ELSE "transient",
             cached |-> cache[TldOf[d]]]

Answers == {"text", "gone", "transient"}

---------------------------------------------------------------------------
(* ParsingService.parse.                                                   *)

Step(l, p) == parse' = [parse EXCEPT ![l] = p]
Return(l)  == Step(l, IdleParse)

(* A checker fetched the WHOIS text of d; the static rules are tried at    *)
(* once; a date, or an exception over a match, ends the call there and     *)
(* changes nothing.                                                        *)
StartParse(l, d) ==
    /\ parse[l].pc = "idle"
    /\ parses < MaxParses
    /\ NoMatchingRule(Static[TldOf[d]], page[d])
    /\ Step(l, [IdleParse EXCEPT !.pc = "learned", !.domain = d,
                                 !.raw = page[d]])
    /\ parses' = parses + 1
    /\ UNCHANGED <<clock, page, rules, cache, reval, safety, drifts, store>>

(* Then the learned rules, in the same way.                                *)
TryLearned(l) ==
    /\ parse[l].pc = "learned"
    /\ IF NoMatchingRule(ForTld(TldOf[parse[l].domain]), parse[l].raw)
       THEN Step(l, [parse[l] EXCEPT !.pc = "host"])
       ELSE Return(l)
    /\ UNCHANGED <<clock, page, rules, cache, reval, safety, count>>

(* One token of the process-wide bucket, then one of the TLD's; a refusal  *)
(* publishes ParseFailed and raises, and a host token is not given back.   *)
Acquire(l, pc, k, capacity, window, next) ==
    /\ parse[l].pc = pc
    /\ bucket' = [bucket EXCEPT ![k] = Acquired(@, capacity, window, clock)]
    /\ IF Grants(bucket[k], capacity, window, clock)
       THEN /\ grants' = [grants EXCEPT ![k] = Append(@, clock)]
            /\ Step(l, [parse[l] EXCEPT !.pc = next])
       ELSE /\ Return(l)
            /\ UNCHANGED grants
    /\ UNCHANGED <<clock, page, rules, cache, reval, breaker, calls, count>>

AcquireHost(l) == Acquire(l, "host", Host, HostCapacity, HostWindow, "tld")
AcquireTld(l) ==
    Acquire(l, "tld", TldOf[parse[l].domain], TldCapacity, TldWindow, "suggest")

(* SuggesterCircuitBreaker.suggest: short-circuit while open ...           *)
CallSuggester(l) ==
    /\ parse[l].pc = "suggest"
    /\ breaker' = Asked(breaker, OpenFor, clock)
    /\ IF IsOpen(breaker, OpenFor, clock)
       THEN /\ Return(l)
            /\ UNCHANGED calls
       ELSE /\ Step(l, [parse[l] EXCEPT !.pc = "await"])
            /\ calls' = Append(calls, [at |-> clock, by |-> l, ended |-> "no"])
    /\ UNCHANGED <<clock, page, rules, cache, reval, bucket, grants, count>>

(* ... otherwise count a failure (a transport error or an unusable reply)  *)
End(l, how) ==
    calls' = [i \in 1..Len(calls) |->
                 IF calls[i].by = l THEN [calls[i] EXCEPT !.by = None, !.ended = how]
                 ELSE calls[i]]

SuggestFails(l) ==
    /\ parse[l].pc = "await"
    /\ breaker' = Failed(breaker, FailureThreshold, FailureWindow, clock)
    /\ End(l, "failed")
    /\ Return(l)
    /\ UNCHANGED <<clock, page, rules, cache, reval, bucket, grants, count>>

(* ... let any other exception through, uncounted ...                      *)
SuggestRaises(l) ==
    /\ parse[l].pc = "await"
    /\ End(l, "raised")
    /\ Return(l)
    /\ UNCHANGED <<clock, page, rules, cache, reval, bucket, breaker, grants,
                   count>>

(* ... or close the breaker and take the candidate.                        *)
SuggestReturns(l, r) ==
    /\ parse[l].pc = "await"
    /\ breaker' = Closed
    /\ calls' = <<>>
    /\ Step(l, [parse[l] EXCEPT !.pc = "validate", !.rule = r])
    /\ UNCHANGED <<clock, page, rules, cache, reval, bucket, grants, count>>

(* validate: go on only with a candidate that passed every gate.           *)
Settle(l, verdict) ==
    IF verdict = "pass" THEN Step(l, [parse[l] EXCEPT !.pc = "add"]) ELSE Return(l)

ValidateCandidate(l) ==
    /\ parse[l].pc = "validate"
    /\ LET v == Validate(parse[l].rule, parse[l].raw, parse[l].domain)
       IN IF v = "fetch"
          THEN Step(l, [parse[l] EXCEPT !.pc = "crosscheck", !.since = clock])
          ELSE Settle(l, v)
    /\ UNCHANGED <<clock, page, rules, cache, reval, safety, count>>

CrossCheckCandidate(l, answer) ==
    LET p == parse[l]
        c == CrossCheck(p.rule, p.raw, p.domain, p.since, answer)
    IN /\ p.pc = "crosscheck"
       /\ cache' = [cache EXCEPT ![TldOf[p.domain]] = c.cached]
       /\ Settle(l, c.verdict)
       /\ UNCHANGED <<clock, page, rules, reval, safety, count>>

(* The memory repository overlooks disabled rules, the UNIQUE constraint   *)
(* of the table does not.                                                  *)
Duplicate(t, r) ==
    \E i \in 1..Len(rules) : /\ rules[i].tld = t
                             /\ rules[i].regex = r
                             /\ store = "sql" \/ ~rules[i].disabled

(* Mutant: the repository does not look for a duplicate.                   *)
AddRule_Always(l) ==
    /\ parse[l].pc = "add"
    /\ rules' = Append(rules, [tld |-> TldOf[parse[l].domain],
                               regex |-> parse[l].rule, disabled |-> FALSE,
                               sample |-> parse[l].domain, revalidated |-> None])
    /\ Return(l)
    /\ UNCHANGED <<clock, page, cache, reval, safety, count>>

(* learned_rules.add (ValueError on a duplicate, out of parse), publish    *)
(* WhoisRuleLearned, and parse the text again with the new rule.  On SQL   *)
(* the failed flush is answered with session.rollback(): every add,        *)
(* disable and mark since the process opened its session is undone.        *)
AddRule(l) ==
    LET t == TldOf[parse[l].domain]
    IN /\ parse[l].pc = "add"
       /\ IF Duplicate(t, parse[l].rule)
          THEN rules' = IF store = "sql" THEN Saved ELSE rules
          ELSE rules' = Append(rules,
                      [tld |-> t, regex |-> parse[l].rule, disabled |-> FALSE,
                       sample |-> parse[l].domain, revalidated |-> None])
       /\ Return(l)
       /\ UNCHANGED <<clock, page, cache, reval, safety, count>>

ParseStep(l) ==
    \/ TryLearned(l) \/ AcquireHost(l) \/ AcquireTld(l) \/ CallSuggester(l)
    \/ SuggestFails(l) \/ SuggestRaises(l) \/ (\E r \in Regex : SuggestReturns(l, r))
    \/ ValidateCandidate(l) \/ AddRule(l)
    \/ \E a \in Answers : CrossCheckCandidate(l, a)

---------------------------------------------------------------------------
(* RevalidationService.run_once, and disable.                              *)

Due(i) == \/ rules[i].revalidated = None
          \/ clock - rules[i].revalidated >= CacheFor

(* The rules to do are listed once, at the start, and done in that order.  *)
StartPass ==
    /\ DOMAIN reval.todo = {}
    /\ LET due == {i \in 1..Len(rules) : ~rules[i].disabled /\ Due(i)}
       IN /\ due # {}
          /\ reval' = [IdleReval EXCEPT !.todo = Restrict(rules, due)]
    /\ UNCHANGED <<clock, page, rules, cache, parse, safety, count>>

Turn(i) == i \in DOMAIN reval.todo /\ \A j \in DOMAIN reval.todo : i <= j

Others(i) == Restrict(reval.todo, DOMAIN reval.todo \ {i})

(* fetch_whois of the next rule's sample domain; on failure it is skipped. *)
FetchSample(i, ok) ==
    /\ Turn(i)
    /\ reval.raw = None
    /\ reval' = IF ok THEN [reval EXCEPT !.raw = page[reval.todo[i].sample]]
                      ELSE [reval EXCEPT !.todo = Others(i)]
    /\ UNCHANGED <<clock, page, rules, cache, parse, safety, count>>

(* Mutant: mark_revalidated writes back the rule that was listed.          *)
MarkRevalidated_Stale(i) ==
    [rules EXCEPT ![i].revalidated = clock, ![i].disabled = FALSE]

(* mark_revalidated touches nothing but the date (and a counter).          *)
MarkRevalidated(i) == [rules EXCEPT ![i].revalidated = clock]

Disable(i) == [rules EXCEPT ![i].disabled = TRUE]

(* Validate it again: disable it on a rejection, leave it alone on a       *)
(* transient failure, else mark it.  A conversion that raises, or the      *)
(* KeyError over a rule that a rollback has taken away, ends the pass.     *)
Conclude(i, verdict) ==
    IF verdict = "raises" \/ (verdict # "transient" /\ i \notin 1..Len(rules))
    THEN reval' = IdleReval /\ UNCHANGED rules
    ELSE /\ rules' = CASE verdict = "reject"    -> Disable(i)
                       [] verdict = "transient" -> rules
                       [] verdict = "pass"      -> MarkRevalidated(i)
         /\ reval' = [IdleReval EXCEPT !.todo = Others(i)]

(* It is the rule as it was listed that is judged.                         *)
JudgeRule(i) ==
    /\ Turn(i)
    /\ reval.raw # None /\ reval.since = None
    /\ LET v == Validate(reval.todo[i].regex, reval.raw, reval.todo[i].sample)
       IN IF v = "fetch"
          THEN reval' = [reval EXCEPT !.since = clock] /\ UNCHANGED rules
          ELSE Conclude(i, v)
    /\ UNCHANGED <<clock, page, cache, parse, safety, count>>

CrossCheckRule(i, answer) ==
    /\ Turn(i)
    /\ reval.since # None
    /\ LET rule == reval.todo[i]
           c == CrossCheck(rule.regex, reval.raw, rule.sample, reval.since, answer)
       IN /\ cache' = [cache EXCEPT ![TldOf[rule.sample]] = c.cached]
          /\ Conclude(i, c.verdict)
    /\ UNCHANGED <<clock, page, parse, safety, count>>

(* What rules disable and rules revalidate do, at the daemon's repository; *)
(* revalidate validates nothing and finds active rules only.               *)
OperatorDisable(i) ==
    /\ ~rules[i].disabled
    /\ rules' = Disable(i)
    /\ UNCHANGED <<clock, page, cache, parse, reval, safety, count>>

OperatorRevalidate(i) ==
    /\ ~rules[i].disabled
    /\ rules' = MarkRevalidated(i)
    /\ UNCHANGED <<clock, page, cache, parse, reval, safety, count>>

---------------------------------------------------------------------------
Next ==
    \/ Tick
    \/ \E d \in Domain, f \in Format : Drift(d, f)
    \/ \E l \in Learner : ParseStep(l) \/ \E d \in Domain : StartParse(l, d)
    \/ StartPass
    \/ \E i \in DOMAIN reval.todo : \/ JudgeRule(i)
                                   \/ \E ok \in BOOLEAN : FetchSample(i, ok)
                                   \/ \E a \in Answers : CrossCheckRule(i, a)
    \/ \E i \in 1..Len(rules) : OperatorDisable(i) \/ OperatorRevalidate(i)

Spec == Init /\ [][Next]_vars

---------------------------------------------------------------------------
(* Properties.                                                             *)

(* Type invariant; no bucket ever holds more than its capacity.            *)
TypeOK ==
    /\ clock \in Nat
    /\ page \in [Domain -> Format]
    /\ rules \in Seq(LearnedRule)
    /\ \A k \in Bucket : bucket[k] # None =>
          /\ bucket[k].last \in Nat
          /\ bucket[k].tokens \in 0..(IF k = Host THEN HostCapacity * HostWindow
                                      ELSE TldCapacity * TldWindow)
    /\ \A t \in Tld : cache[t] # None => cache[t] \in [at : Nat, raw : Format]
    /\ \A l \in Learner :
          /\ parse[l].pc \in {"idle", "learned", "host", "tld", "suggest",
                              "await", "validate", "crosscheck", "add"}
          /\ parse[l].pc # "idle" => parse[l].domain \in Domain
    /\ \A i \in DOMAIN reval.todo : i \in Nat /\ reval.todo[i] \in LearnedRule

(* No rule is learned twice: although two parses can find the same format  *)
(* unknown, ask for a rule and validate the same candidate side by side,   *)
(* a TLD has at most one active rule with a given regex.                   *)
LearnedOnce ==
    \A i, j \in 1..Len(rules) :
        /\ rules[i].tld = rules[j].tld
        /\ rules[i].regex = rules[j].regex
        /\ ~rules[i].disabled /\ ~rules[j].disabled
        => i = j

(* What is disabled stays disabled: neither a revalidation pass that       *)
(* listed a rule before it was disabled, nor an operator's revalidate,     *)
(* brings it back.  On SQL an add that is refused as a duplicate does,     *)
(* with the rollback to what was committed; nothing else does.             *)
DisabledStaysDisabled ==
    [][\A i \in 1..Len(rules) : rules[i].disabled =>
          \/ i \in 1..Len(rules') /\ rules'[i].disabled
          \/ /\ store = "sql" /\ rules' = Saved
             /\ \E l \in Learner : /\ parse[l].pc = "add"
                                   /\ Duplicate(TldOf[parse[l].domain], parse[l].rule)]_vars

(* The limiters' promise: however calls bunch up and whenever the bucket   *)
(* is refilled, between any two grants of one key lie at most capacity     *)
(* tokens more than the time between them refills.                         *)
RateBounded ==
    \A k \in Bucket :
        LET c == IF k = Host THEN HostCapacity ELSE TldCapacity
            w == IF k = Host THEN HostWindow ELSE TldWindow
            g == grants[k]
        IN \A i, j \in 1..Len(g) :
              i <= j => (j - i + 1) * w <= c * w + c * (g[j] - g[i])

(* The breaker shields the suggester: while every call fails with the      *)
(* error the port allows, at most FailureThreshold calls and the ones that *)
(* other parses have in flight begin within a period as long as the        *)
(* breaker stays open (for a FailureWindow no shorter than that).          *)
BreakerShields ==
    Cardinality({i \in 1..Len(calls) : /\ calls[i].ended # "raised"
                                       /\ clock - calls[i].at < OpenFor})
        < FailureThreshold + Cardinality(Learner)
============================================================================
