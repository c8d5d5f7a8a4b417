------------------------- MODULE RuleLearningProofs -------------------------
(***************************************************************************)
(* Proofs about RuleLearning, for any TLDs, rules, formats, concurrent     *)
(* parses, capacities and windows, and without the bounds on time, parses  *)
(* and changes of format that the runs need.                               *)
(***************************************************************************)
EXTENDS RuleLearning, SequenceTheorems, TLAPS

Pcs == {"idle", "learned", "host", "tld", "suggest", "await", "validate",
        "crosscheck", "add"}

Parse == [pc : Pcs, domain : Domain \cup {None}, raw : Format \cup {None},
          rule : Regex \cup {None}, since : Nat \cup {None}]

(* What a parse call holds when it needs it.                               *)
ParseOk(p) ==
    /\ p \in Parse
    /\ p.pc # "idle" => p.domain \in Domain
    /\ p.pc \in {"validate", "crosscheck", "add"} => p.rule \in Regex
    /\ p.pc = "crosscheck" => p.since \in Nat /\ Reference(p.domain) # None

RulesOk ==
    /\ rules \in Seq(LearnedRule)
    /\ LearnedOnce

CacheOk ==
    /\ DOMAIN cache = Tld
    /\ \A t \in Tld : cache[t] # None => cache[t] \in [at : Nat, raw : Format]

RevalOk ==
    /\ reval = [todo |-> reval.todo, raw |-> reval.raw, since |-> reval.since]
    /\ reval.raw \in Format \cup {None} /\ reval.since \in Nat \cup {None}
    /\ \A i \in DOMAIN reval.todo : i \in Nat /\ reval.todo[i] \in LearnedRule
    /\ reval.since # None =>
          /\ reval.since \in Nat /\ reval.raw # None
          /\ \A i : Turn(i) => Reference(reval.todo[i].sample) # None

(* Products, kept folded: the provers do better without them.              *)
Times(a, b) == a * b

(* A bucket b of capacity c, refilled over w, with its grants g: of what   *)
(* it held when grant i was made and what it was refilled with since, the  *)
(* grants from i on and the tokens left account for no more than all.      *)
Account(b, g, c, w) ==
    \A i \in 1..Len(g) :
        /\ g[i] <= b.last
        /\ Times(Len(g) - i + 1, w) + b.tokens
              <= Times(c, w) + Times(c, b.last - g[i])

(* RateBounded of one bucket.                                              *)
Bounded(g, c, w) ==
    \A i, j \in 1..Len(g) :
        i <= j => Times(j - i + 1, w) <= Times(c, w) + Times(c, g[j] - g[i])

BucketOk(b, g, c, w) ==
    /\ g \in Seq(Nat)
    /\ b = None => g = <<>>
    /\ b # None => b \in [tokens : 0..Times(c, w), last : 0..clock] /\ Account(b, g, c, w)
    /\ Bounded(g, c, w)

CapacityOf(k) == IF k = Host THEN HostCapacity ELSE TldCapacity
WindowOf(k)   == IF k = Host THEN HostWindow ELSE TldWindow

BucketsOk ==
    /\ DOMAIN bucket = Bucket /\ DOMAIN grants = Bucket
    /\ \A k \in Bucket : BucketOk(bucket[k], grants[k], CapacityOf(k), WindowOf(k))

LearningInv ==
    /\ clock \in Nat
    /\ page \in [Domain -> Format]
    /\ DOMAIN parse = Learner /\ \A l \in Learner : ParseOk(parse[l])
    /\ RulesOk /\ CacheOk /\ RevalOk /\ BucketsOk

---------------------------------------------------------------------------
(* The token bucket.                                                       *)

LEMMA TimesInt == \A a, b \in Int : Times(a, b) \in Int
BY DEF Times

LEMMA TimesNat == \A a, b \in Nat : Times(a, b) \in Nat
BY DEF Times

LEMMA TimesSum ==
    ASSUME NEW a \in Int, NEW x \in Int, NEW y \in Int
    PROVE  Times(a, x + y) = Times(a, x) + Times(a, y)
BY DEF Times

LEMMA TimesNext ==
    ASSUME NEW x \in Int, NEW a \in Int
    PROVE  Times(x + 1, a) = Times(x, a) + a
BY DEF Times

LEMMA TimesUnit == \A a \in Int : Times(1, a) = a /\ Times(a, 0) = 0
BY DEF Times

(* What acquire finds in the bucket, and how it relates to what was left   *)
(* there: the refill adds at most what the time since gives.               *)
LEMMA RefillBounded ==
    ASSUME NEW c \in Nat, NEW w \in Nat, NEW b, NEW now \in Nat,
           b # None => b \in [tokens : 0..Times(c, w), last : 0..now]
    PROVE  LET r == Current(b, c, w, now)
           IN  /\ r \in [tokens : 0..Times(c, w), last : 0..now] /\ r.last = now
               /\ b # None => r.tokens <= b.tokens + Times(c, now - b.last)
<1> DEFINE r == Current(b, c, w, now)
<1>1. Times(c, w) = c * w /\ c * w \in Nat
  BY TimesNat DEF Times
<1>2. CASE b = None
  BY <1>1, <1>2 DEF Current, FullBucket
<1>3. CASE b # None
  <2>1. /\ b.tokens \in 0..(c * w) /\ b.last \in 0..now
        /\ b = [tokens |-> b.tokens, last |-> b.last]
    BY <1>1, <1>3
  <2>2. /\ Times(c, now - b.last) \in Nat
        /\ (now - b.last) * c = Times(c, now - b.last)
    <3>1. now - b.last \in Nat
      BY <2>1
    <3> QED
      BY <3>1, TimesNat DEF Times
  <2>3. r = Refilled(b, c, w, now)
    BY <1>3 DEF Current
  <2>4. CASE now > b.last
    BY <1>1, <1>3, <2>1, <2>2, <2>3, <2>4 DEF Refilled
  <2>5. CASE ~(now > b.last)
    <3>1. r = b /\ b.last = now
      BY <2>1, <2>3, <2>5 DEF Refilled
    <3> QED
      BY <1>1, <1>3, <2>1, <2>2, <3>1
  <2> QED
    BY <2>4, <2>5
<1> QED
  BY <1>2, <1>3

(* The account after a refill, before the grant.                           *)
LEMMA RefillAccounts ==
    ASSUME NEW c \in Nat, NEW w \in Nat, NEW b, NEW g, clock \in Nat,
           BucketOk(b, g, c, w)
    PROVE  Account(Current(b, c, w, clock), g, c, w)
<1> DEFINE r == Current(b, c, w, clock)
<1>1. /\ r.tokens \in Int /\ r.last = clock
      /\ b # None => r.tokens <= b.tokens + Times(c, clock - b.last)
  <2>1. b # None => b \in [tokens : 0..Times(c, w), last : 0..clock]
    BY DEF BucketOk
  <2>2. /\ r \in [tokens : 0..Times(c, w), last : 0..clock] /\ r.last = clock
        /\ b # None => r.tokens <= b.tokens + Times(c, clock - b.last)
    BY <2>1, RefillBounded
  <2> HIDE DEF r
  <2> QED
    BY <2>2
<1>2. g \in Seq(Nat) /\ Len(g) \in Nat
  BY DEF BucketOk
<1> HIDE DEF r
<1> SUFFICES ASSUME NEW i \in 1..Len(g)
             PROVE  /\ g[i] <= r.last
                    /\ Times(Len(g) - i + 1, w) + r.tokens
                          <= Times(c, w) + Times(c, r.last - g[i])
  BY DEF Account, r
<1>3. b # None
  BY <1>2 DEF BucketOk
<1>4. /\ b.tokens \in Int /\ b.last \in 0..clock
      /\ g[i] \in Nat /\ g[i] <= b.last
      /\ Times(Len(g) - i + 1, w) + b.tokens <= Times(c, w) + Times(c, b.last - g[i])
  <2>1. b.tokens \in 0..Times(c, w) /\ b.last \in 0..clock /\ Account(b, g, c, w)
    BY <1>3 DEF BucketOk
  <2>2. g[i] \in Nat
    BY <1>2
  <2> QED
    BY <2>1, <2>2 DEF Account
<1>5. Times(c, clock - g[i]) = Times(c, b.last - g[i]) + Times(c, clock - b.last)
  <2>1. /\ b.last - g[i] \in Int /\ clock - b.last \in Int /\ c \in Int
        /\ clock - g[i] = (b.last - g[i]) + (clock - b.last)
    BY <1>4
  <2> QED
    BY <2>1, TimesSum
<1>6. /\ Times(Len(g) - i + 1, w) \in Int /\ Times(c, w) \in Int
      /\ Times(c, b.last - g[i]) \in Int /\ Times(c, clock - b.last) \in Int
  <2>1. /\ Len(g) - i + 1 \in Int /\ b.last - g[i] \in Int
        /\ clock - b.last \in Int /\ c \in Int /\ w \in Int
    BY <1>2, <1>4
  <2> QED
    BY <2>1, TimesInt
<1>7. Times(Len(g) - i + 1, w) + r.tokens <= Times(c, w) + Times(c, clock - g[i])
  <2> DEFINE P == Times(Len(g) - i + 1, w)
             Q == Times(c, b.last - g[i])
             D == Times(c, clock - b.last)
             M == Times(c, w)
  <2>1. P \in Int /\ Q \in Int /\ D \in Int /\ M \in Int
    BY <1>6
  <2>2. /\ P + b.tokens <= M + Q /\ r.tokens <= b.tokens + D
        /\ Times(c, clock - g[i]) = Q + D
    BY <1>1, <1>3, <1>4, <1>5
  <2>3. r.tokens \in Int /\ b.tokens \in Int
    BY <1>1, <1>4
  <2> HIDE DEF P, Q, D, M
  <2>4. P + r.tokens <= M + (Q + D)
    BY <2>1, <2>2, <2>3
  <2> QED
    BY <2>2, <2>4 DEF P, M
<1> QED
  BY <1>1, <1>4, <1>7

(* One acquire keeps the account, whether it is granted or not.            *)
LEMMA AcquireAccounts ==
    ASSUME NEW c \in Nat, NEW w \in Nat, NEW b, NEW g, clock \in Nat,
           BucketOk(b, g, c, w)
    PROVE  BucketOk(Acquired(b, c, w, clock),
                    IF Grants(b, c, w, clock) THEN Append(g, clock) ELSE g, c, w)
<1> DEFINE r == Current(b, c, w, clock)
<1>1. r \in [tokens : 0..Times(c, w), last : 0..clock] /\ r.last = clock
  BY RefillBounded DEF BucketOk
<1>2. g \in Seq(Nat) /\ Len(g) \in Nat /\ Times(c, w) \in Nat /\ Bounded(g, c, w)
  BY TimesNat DEF BucketOk
<1>3. Account(r, g, c, w) /\ r.tokens \in Nat /\ w \in Nat
  BY <1>1, <1>2, RefillAccounts
<1>4. \A x \in [tokens : 0..Times(c, w), last : 0..clock] : x # None
  BY <1>2, RuleAssumption
<1> HIDE DEF r
<1>5. CASE ~Grants(b, c, w, clock)
  <2>1. Acquired(b, c, w, clock) = r
    BY <1>5 DEF Grants, Acquired, r
  <2> QED
    BY <1>1, <1>2, <1>3, <1>4, <1>5, <2>1 DEF BucketOk
<1>6. CASE Grants(b, c, w, clock)
  <2> DEFINE a == Acquired(b, c, w, clock)
             h == Append(g, clock)
             n == Len(g)
  <2>1. r.tokens >= w /\ a = [r EXCEPT !.tokens = @ - w]
    BY <1>6 DEF Grants, Acquired, r
  <2>2. /\ a \in [tokens : 0..Times(c, w), last : 0..clock]
        /\ a.tokens = r.tokens - w /\ a.last = clock
    <3>1. r.tokens - w \in 0..Times(c, w)
      BY <1>1, <1>2, <2>1
    <3> QED
      BY <1>1, <2>1, <3>1
  <2>3. /\ h \in Seq(Nat) /\ Len(h) = n + 1 /\ h[n + 1] = clock
        /\ \A i \in 1..n : h[i] = g[i] /\ g[i] \in Nat
    BY <1>2
  <2> HIDE DEF a, h
  (* With the new grant, what the ones before it account for is unchanged. *)
  <2>4. ASSUME NEW i \in 1..(n + 1)
        PROVE  /\ h[i] \in Nat /\ h[i] <= clock
               /\ Times(n + 1 - i + 1, w) + a.tokens
                     <= Times(c, w) + Times(c, clock - h[i])
               /\ Times(n + 1 - i + 1, w) <= Times(c, w) + Times(c, clock - h[i])
    <3>1. CASE i = n + 1
      <4>1. n + 1 - i + 1 = 1 /\ clock - h[i] = 0
        BY <1>2, <2>3, <3>1
      <4>2. Times(n + 1 - i + 1, w) = w /\ Times(c, clock - h[i]) = 0
        BY <4>1, TimesUnit
      <4> QED
        BY <1>1, <1>2, <2>1, <2>2, <2>3, <3>1, <4>2
    <3>2. CASE i \in 1..n
      <4>1. Times(n + 1 - i + 1, w) = Times(n - i + 1, w) + w
        <5>1. n - i + 1 \in Int /\ n + 1 - i + 1 = (n - i + 1) + 1 /\ w \in Int
          BY <1>2
        <5> QED
          BY <5>1, TimesNext
      <4>2. /\ g[i] <= clock
            /\ Times(n - i + 1, w) + r.tokens <= Times(c, w) + Times(c, clock - g[i])
        BY <1>1, <1>3, <3>2 DEF Account
      <4>3. Times(n - i + 1, w) \in Int /\ Times(c, clock - g[i]) \in Int
        <5>1. n - i + 1 \in Int /\ clock - g[i] \in Int /\ c \in Int /\ w \in Int
          BY <1>2, <2>3, <3>2
        <5> QED
          BY <5>1, TimesInt
      <4>4. h[i] = g[i] /\ g[i] \in Nat
        BY <2>3, <3>2
      <4> DEFINE P == Times(n - i + 1, w)
                 Q == Times(c, clock - g[i])
                 M == Times(c, w)
      <4>5. P \in Int /\ Q \in Int /\ M \in Nat /\ P + r.tokens <= M + Q
        BY <1>2, <4>2, <4>3
      <4>6. a.tokens = r.tokens - w /\ r.tokens >= w
        BY <2>1, <2>2
      <4> HIDE DEF P, Q, M
      <4>7. /\ P + w + a.tokens <= M + Q
            /\ P + w <= M + Q
        BY <1>3, <4>5, <4>6
      <4> QED
        BY <4>1, <4>2, <4>4, <4>7 DEF P, Q, M
    <3> QED
      BY <1>2, <3>1, <3>2
  <2>5. Account(a, h, c, w)
    BY <1>2, <2>2, <2>3, <2>4 DEF Account
  <2>6. Bounded(h, c, w)
    <3> SUFFICES ASSUME NEW i \in 1..(n + 1), NEW j \in 1..(n + 1), i <= j
                 PROVE  Times(j - i + 1, w) <= Times(c, w) + Times(c, h[j] - h[i])
      BY <1>2, <2>3 DEF Bounded
    <3>1. CASE j = n + 1
      BY <2>3, <2>4, <3>1
    <3>2. CASE j \in 1..n
      <4>1. i \in 1..n
        BY <1>2, <3>2
      <4> QED
        BY <1>2, <2>3, <3>2, <4>1 DEF Bounded
    <3> QED
      BY <1>2, <3>1, <3>2
  <2>7. a # None
    BY <1>4, <2>2
  <2> QED
    BY <1>6, <2>2, <2>3, <2>5, <2>6, <2>7 DEF BucketOk, a, h
<1> QED
  BY <1>5, <1>6

---------------------------------------------------------------------------
(* Steps of one parse call.                                                *)

LEMMA ParseMoves ==
    ASSUME LearningInv, NEW l \in Learner, NEW p, ParseOk(p), Step(l, p)
    PROVE  DOMAIN parse' = Learner /\ \A m \in Learner : ParseOk(parse'[m])
<1>1. /\ DOMAIN parse' = Learner
      /\ \A m \in Learner : parse'[m] = IF m = l THEN p ELSE parse[m]
  BY DEF LearningInv, Step
<1> QED
  BY <1>1 DEF LearningInv

(* A step that only moves a call, or what the proofs say nothing of.       *)
LEMMA ParseOnly ==
    ASSUME LearningInv, NEW l \in Learner, NEW p, ParseOk(p), Step(l, p),
           UNCHANGED <<clock, page, rules, cache, reval, bucket, grants>>
    PROVE  LearningInv'
<1>1. DOMAIN parse' = Learner /\ \A m \in Learner : ParseOk(parse'[m])
  BY ParseMoves
<1>2. RulesOk' /\ CacheOk' /\ RevalOk'
  BY DEF LearningInv, RulesOk, LearnedOnce, CacheOk, RevalOk, Turn
<1>3. BucketsOk'
  BY DEF LearningInv, BucketsOk, BucketOk
<1> QED
  BY <1>1, <1>2, <1>3 DEF LearningInv

LEMMA IdleOk == ParseOk(IdleParse)
BY DEF ParseOk, IdleParse, Parse, Pcs

(* On the way to a suggestion a call knows no more than its domain.        *)
LEMMA Advance ==
    ASSUME NEW p, ParseOk(p), p.pc # "idle",
           NEW q \in {"host", "tld", "suggest", "await"}
    PROVE  ParseOk([p EXCEPT !.pc = q])
BY DEF ParseOk, Parse, Pcs

LEMMA StartParseStep ==
    ASSUME LearningInv, NEW l \in Learner, NEW d \in Domain, StartParse(l, d)
    PROVE  LearningInv'
<1> DEFINE p == [IdleParse EXCEPT !.pc = "learned", !.domain = d, !.raw = page[d]]
<1>1. page[d] \in Format
  BY DEF LearningInv
<1>2. ParseOk(p)
  BY <1>1 DEF ParseOk, IdleParse, Parse, Pcs
<1> QED
  BY <1>2, ParseOnly DEF StartParse, safety

LEMMA TryLearnedStep ==
    ASSUME LearningInv, NEW l \in Learner, TryLearned(l)
    PROVE  LearningInv'
<1>1. ParseOk(parse[l]) /\ parse[l].pc # "idle"
  BY DEF LearningInv, TryLearned
<1>2. ParseOk([parse[l] EXCEPT !.pc = "host"])
  BY <1>1, Advance
<1> QED
  BY <1>2, IdleOk, ParseOnly DEF TryLearned, Return, safety

LEMMA AcquireStep ==
    ASSUME LearningInv, NEW l \in Learner, NEW pc \in {"host", "tld"}, NEW k \in Bucket,
           NEW next \in {"tld", "suggest"},
           Acquire(l, pc, k, CapacityOf(k), WindowOf(k), next)
    PROVE  LearningInv'
<1>0. CapacityOf(k) \in Nat /\ WindowOf(k) \in Nat
  BY RuleAssumption DEF CapacityOf, WindowOf
<1>1. ParseOk(parse[l]) /\ parse[l].pc # "idle" /\ clock \in Nat
  BY DEF LearningInv, Acquire
<1>2. PICK p : ParseOk(p) /\ Step(l, p)
  BY <1>1, IdleOk, Advance DEF Acquire, Return
<1>3. DOMAIN parse' = Learner /\ \A m \in Learner : ParseOk(parse'[m])
  BY <1>2, ParseMoves
<1>4. UNCHANGED <<clock, page, rules, cache, reval>>
  BY DEF Acquire
<1>5. RulesOk' /\ CacheOk' /\ RevalOk'
  BY <1>4 DEF LearningInv, RulesOk, LearnedOnce, CacheOk, RevalOk, Turn
<1>6. BucketsOk'
  <2> DEFINE granted == Grants(bucket[k], CapacityOf(k), WindowOf(k), clock)
             a == Acquired(bucket[k], CapacityOf(k), WindowOf(k), clock)
             h == IF granted THEN Append(grants[k], clock) ELSE grants[k]
  <2>1. DOMAIN bucket = Bucket /\ DOMAIN grants = Bucket
    BY DEF LearningInv, BucketsOk
  <2>2. bucket' = [bucket EXCEPT ![k] = a]
    BY DEF Acquire
  <2>3. /\ DOMAIN grants' = Bucket
        /\ \A j \in Bucket : grants'[j] = IF j = k THEN h ELSE grants[j]
    <3>1. CASE granted
      BY <2>1, <3>1 DEF Acquire
    <3>2. CASE ~granted
      BY <2>1, <3>2 DEF Acquire
    <3> QED
      BY <3>1, <3>2
  <2>4. BucketOk(a, h, CapacityOf(k), WindowOf(k))
    BY <1>0, <1>1, AcquireAccounts DEF LearningInv, BucketsOk
  <2> HIDE DEF a, h
  <2>5. /\ DOMAIN bucket' = Bucket /\ DOMAIN grants' = Bucket
        /\ \A j \in Bucket : /\ bucket'[j] = IF j = k THEN a ELSE bucket[j]
                             /\ grants'[j] = IF j = k THEN h ELSE grants[j]
    BY <2>1, <2>2, <2>3
  <2>6. \A j \in Bucket : BucketOk(bucket'[j], grants'[j], CapacityOf(j), WindowOf(j))
    BY <2>4, <2>5 DEF LearningInv, BucketsOk
  <2> QED
    BY <1>4, <2>5, <2>6 DEF BucketsOk, BucketOk
<1> QED
  BY <1>3, <1>4, <1>5, <1>6 DEF LearningInv

LEMMA AcquireHostStep ==
    ASSUME LearningInv, NEW l \in Learner, AcquireHost(l)
    PROVE  LearningInv'
BY AcquireStep DEF AcquireHost, Bucket, CapacityOf, WindowOf

LEMMA AcquireTldStep ==
    ASSUME LearningInv, NEW l \in Learner, AcquireTld(l)
    PROVE  LearningInv'
<1>1. TldOf[parse[l].domain] \in Bucket \ {Host}
  BY RuleAssumption, HostAssumption
  DEF LearningInv, ParseOk, AcquireTld, Acquire, Bucket
<1> QED
  BY <1>1, AcquireStep DEF AcquireTld, CapacityOf, WindowOf

LEMMA CallSuggesterStep ==
    ASSUME LearningInv, NEW l \in Learner, CallSuggester(l)
    PROVE  LearningInv'
<1>1. ParseOk(parse[l]) /\ parse[l].pc # "idle"
  BY DEF LearningInv, CallSuggester
<1>2. ParseOk([parse[l] EXCEPT !.pc = "await"])
  BY <1>1, Advance
<1> QED
  BY <1>2, IdleOk, ParseOnly DEF CallSuggester, Return

LEMMA SuggestionStep ==
    ASSUME LearningInv, NEW l \in Learner,
           \/ SuggestFails(l)
           \/ SuggestRaises(l)
           \/ \E r \in Regex : SuggestReturns(l, r)
    PROVE  LearningInv'
<1>1. CASE SuggestFails(l)
  BY <1>1, IdleOk, ParseOnly DEF SuggestFails, Return
<1>2. CASE SuggestRaises(l)
  BY <1>2, IdleOk, ParseOnly DEF SuggestRaises, Return
<1>3. ASSUME NEW r \in Regex, SuggestReturns(l, r) PROVE LearningInv'
  <2>1. ParseOk([parse[l] EXCEPT !.pc = "validate", !.rule = r])
    BY <1>3 DEF LearningInv, ParseOk, Parse, Pcs, SuggestReturns
  <2> QED
    BY <1>3, <2>1, ParseOnly DEF SuggestReturns
<1> QED
  BY <1>1, <1>2, <1>3

---------------------------------------------------------------------------
(* Validation.                                                             *)

LEMMA VerdictIs ==
    ASSUME NEW r, NEW raw, NEW ref
    PROVE  Verdict(r, raw, ref) \in {"reject", "pass"}
BY DEF Verdict

(* validate stops for a fetch only if there is a reference to fetch.       *)
LEMMA ValidateIs ==
    ASSUME NEW r, NEW raw, NEW d
    PROVE  /\ Validate(r, raw, d) \in {"reject", "pass", "raises", "fetch"}
           /\ Validate(r, raw, d) = "fetch" => Reference(d) # None
BY VerdictIs DEF Validate

LEMMA CrossCheckIs ==
    ASSUME LearningInv, NEW r, NEW raw, NEW d \in Domain, Reference(d) # None,
           NEW since \in Nat, NEW answer
    PROVE  LET c == CrossCheck(r, raw, d, since, answer)
           IN  /\ c.verdict \in {"reject", "pass", "transient"}
               /\ c.cached # None => c.cached \in [at : Nat, raw : Format]
<1>1. TldOf[d] \in Tld /\ Reference(d) \in Domain
  BY RuleAssumption DEF Reference
<1>2. page[Reference(d)] \in Format
  BY <1>1 DEF LearningInv
<1>3. cache[TldOf[d]] # None => cache[TldOf[d]] \in [at : Nat, raw : Format]
  BY <1>1 DEF LearningInv, CacheOk
<1> QED
  BY <1>2, <1>3, VerdictIs DEF CrossCheck

LEMMA CacheMoves ==
    ASSUME CacheOk, NEW t, NEW x, x # None => x \in [at : Nat, raw : Format],
           cache' = [cache EXCEPT ![t] = x]
    PROVE  CacheOk'
BY DEF CacheOk

(* A candidate that passed is on its way to the repository.                *)
LEMMA Settled ==
    ASSUME LearningInv, NEW l \in Learner, NEW v, Settle(l, v),
           parse[l].pc \in {"validate", "crosscheck"}
    PROVE  \E p : ParseOk(p) /\ Step(l, p)
<1>1. ParseOk([parse[l] EXCEPT !.pc = "add"])
  BY DEF LearningInv, ParseOk, Parse, Pcs
<1> QED
  BY <1>1, IdleOk DEF Settle, Return

LEMMA ValidateCandidateStep ==
    ASSUME LearningInv, NEW l \in Learner, ValidateCandidate(l)
    PROVE  LearningInv'
<1> DEFINE v == Validate(parse[l].rule, parse[l].raw, parse[l].domain)
<1>1. \E p : ParseOk(p) /\ Step(l, p)
  <2>1. CASE v = "fetch"
    <3>1. Reference(parse[l].domain) # None
      BY <2>1, ValidateIs
    <3>2. ParseOk([parse[l] EXCEPT !.pc = "crosscheck", !.since = clock])
      BY <3>1 DEF LearningInv, ParseOk, Parse, Pcs, ValidateCandidate
    <3> QED
      BY <2>1, <3>2 DEF ValidateCandidate
  <2>2. CASE v # "fetch"
    BY <2>2, Settled DEF ValidateCandidate
  <2> QED
    BY <2>1, <2>2
<1> QED
  BY <1>1, ParseOnly DEF ValidateCandidate, safety

LEMMA CrossCheckCandidateStep ==
    ASSUME LearningInv, NEW l \in Learner, NEW answer, CrossCheckCandidate(l, answer)
    PROVE  LearningInv'
<1> DEFINE p == parse[l]
           c == CrossCheck(p.rule, p.raw, p.domain, p.since, answer)
<1>1. p.domain \in Domain /\ p.since \in Nat /\ Reference(p.domain) # None
  BY DEF LearningInv, ParseOk, CrossCheckCandidate
<1>2. c.cached # None => c.cached \in [at : Nat, raw : Format]
  BY <1>1, CrossCheckIs
<1>3. /\ cache' = [cache EXCEPT ![TldOf[p.domain]] = c.cached]
      /\ UNCHANGED <<clock, page, rules, reval, bucket, grants>>
      /\ Settle(l, c.verdict) /\ p.pc = "crosscheck"
  BY DEF CrossCheckCandidate, safety
<1> HIDE DEF c
<1>4. CacheOk'
  BY <1>2, <1>3, CacheMoves DEF LearningInv
<1>5. DOMAIN parse' = Learner /\ \A m \in Learner : ParseOk(parse'[m])
  BY <1>3, Settled, ParseMoves
<1>6. RulesOk' /\ RevalOk'
  BY <1>3 DEF LearningInv, RulesOk, LearnedOnce, RevalOk, Turn
<1>7. BucketsOk'
  BY <1>3 DEF LearningInv, BucketsOk, BucketOk
<1> QED
  BY <1>3, <1>4, <1>5, <1>6, <1>7 DEF LearningInv

---------------------------------------------------------------------------
(* The repository.                                                         *)

(* What a rollback leaves: the rules that were committed.                  *)
LEMMA SavedOk ==
    /\ Saved \in Seq(LearnedRule)
    /\ \A i, j \in 1..Len(Saved) :
          Saved[i].tld = Saved[j].tld /\ Saved[i].regex = Saved[j].regex => i = j
BY SavedAssumption

(* add appends a rule that no active one equals, or rolls back.            *)
LEMMA AddRuleStep ==
    ASSUME LearningInv, NEW l \in Learner, AddRule(l)
    PROVE  LearningInv'
<1> DEFINE t == TldOf[parse[l].domain]
           new == [tld |-> t, regex |-> parse[l].rule, disabled |-> FALSE,
                   sample |-> parse[l].domain, revalidated |-> None]
<1>1. /\ parse[l].domain \in Domain /\ parse[l].rule \in Regex /\ t \in Tld
      /\ UNCHANGED <<clock, page, cache, reval, bucket, grants>>
      /\ Step(l, IdleParse)
  BY RuleAssumption DEF LearningInv, ParseOk, AddRule, Return, safety
<1>2. CASE Duplicate(t, parse[l].rule)
  <2>1. rules' = rules \/ rules' = Saved
    BY <1>2 DEF AddRule
  <2>2. RulesOk'
    BY <2>1, SavedOk DEF LearningInv, RulesOk, LearnedOnce
  <2>3. CacheOk' /\ RevalOk'
    BY <1>1 DEF LearningInv, CacheOk, RevalOk, Turn
  <2>4. DOMAIN parse' = Learner /\ \A m \in Learner : ParseOk(parse'[m])
    BY <1>1, IdleOk, ParseMoves
  <2>5. BucketsOk'
    BY <1>1 DEF LearningInv, BucketsOk, BucketOk
  <2> QED
    BY <1>1, <2>2, <2>3, <2>4, <2>5 DEF LearningInv
<1>3. CASE ~Duplicate(t, parse[l].rule)
  <2>1. rules' = Append(rules, new) /\ new \in LearnedRule
    BY <1>1, <1>3 DEF AddRule, LearnedRule
  <2>2. rules \in Seq(LearnedRule) /\ Len(rules) \in Nat
    BY DEF LearningInv, RulesOk
  <2>3. /\ rules' \in Seq(LearnedRule) /\ Len(rules') = Len(rules) + 1
        /\ \A i \in 1..Len(rules) : rules'[i] = rules[i]
        /\ rules'[Len(rules) + 1] = new
    BY <2>1, <2>2
  <2>4. \A i \in 1..Len(rules) :
          rules[i].tld = t /\ rules[i].regex = parse[l].rule => rules[i].disabled
    BY <1>3 DEF Duplicate
  <2>5. LearnedOnce'
    <3> SUFFICES ASSUME NEW i \in 1..Len(rules'), NEW j \in 1..Len(rules'),
                        rules'[i].tld = rules'[j].tld, rules'[i].regex = rules'[j].regex,
                        ~rules'[i].disabled, ~rules'[j].disabled
                 PROVE  i = j
      BY DEF LearnedOnce
    <3>1. new.tld = t /\ new.regex = parse[l].rule
      OBVIOUS
    <3>2. CASE i \in 1..Len(rules) /\ j \in 1..Len(rules)
      BY <2>3, <3>2 DEF LearningInv, RulesOk, LearnedOnce
    <3>3. CASE i = Len(rules) + 1 /\ j \in 1..Len(rules)
      BY <2>3, <2>4, <3>1, <3>3
    <3>4. CASE j = Len(rules) + 1 /\ i \in 1..Len(rules)
      BY <2>3, <2>4, <3>1, <3>4
    <3> QED
      BY <2>2, <2>3, <3>2, <3>3, <3>4
  <2>6. RulesOk' /\ CacheOk'
    BY <1>1, <2>3, <2>5 DEF LearningInv, RulesOk, CacheOk
  <2>7. RevalOk'
    BY <1>1 DEF LearningInv, RevalOk, Turn
  <2>8. DOMAIN parse' = Learner /\ \A m \in Learner : ParseOk(parse'[m])
    BY <1>1, IdleOk, ParseMoves
  <2>9. BucketsOk'
    BY <1>1 DEF LearningInv, BucketsOk, BucketOk
  <2> QED
    BY <1>1, <2>6, <2>7, <2>8, <2>9 DEF LearningInv
<1> QED
  BY <1>2, <1>3

(* What disable and mark_revalidated keep of rule i and the others.        *)
SameRules ==
    /\ rules' \in Seq(LearnedRule) /\ Len(rules') = Len(rules)
    /\ \A j \in 1..Len(rules) :
          /\ rules'[j].tld = rules[j].tld
          /\ rules'[j].regex = rules[j].regex
          /\ rules'[j].sample = rules[j].sample
          /\ rules[j].disabled => rules'[j].disabled

LEMMA RuleChanges ==
    ASSUME LearningInv, NEW i \in 1..Len(rules),
           rules' = rules \/ rules' = Disable(i) \/ rules' = MarkRevalidated(i)
    PROVE  SameRules /\ RulesOk'
<1>0. rules \in Seq(LearnedRule) /\ clock \in Nat
  BY DEF LearningInv, RulesOk
<1>1. SameRules
  <2>1. CASE rules' = rules
    BY <1>0, <2>1 DEF SameRules
  <2>2. ASSUME NEW x \in LearnedRule, rules' = [rules EXCEPT ![i] = x],
               x.tld = rules[i].tld, x.regex = rules[i].regex,
               x.sample = rules[i].sample, rules[i].disabled => x.disabled
        PROVE  SameRules
    <3>1. /\ rules' \in Seq(LearnedRule) /\ Len(rules') = Len(rules)
          /\ \A j \in 1..Len(rules) : rules'[j] = IF j = i THEN x ELSE rules[j]
      BY <1>0, <2>2
    <3> QED
      BY <2>2, <3>1 DEF SameRules
  <2>3. rules[i] \in LearnedRule
    BY <1>0
  <2>4. CASE rules' = Disable(i)
    <3> DEFINE x == [rules[i] EXCEPT !.disabled = TRUE]
    <3>1. /\ x \in LearnedRule /\ x.tld = rules[i].tld /\ x.regex = rules[i].regex
          /\ x.sample = rules[i].sample /\ x.disabled
      BY <2>3 DEF LearnedRule
    <3>2. rules' = [rules EXCEPT ![i] = x]
      BY <2>4 DEF Disable
    <3> HIDE DEF x
    <3> QED
      BY <2>2, <3>1, <3>2
  <2>5. CASE rules' = MarkRevalidated(i)
    <3> DEFINE x == [rules[i] EXCEPT !.revalidated = clock]
    <3>1. /\ x \in LearnedRule /\ x.tld = rules[i].tld /\ x.regex = rules[i].regex
          /\ x.sample = rules[i].sample /\ x.disabled = rules[i].disabled
      BY <1>0, <2>3 DEF LearnedRule
    <3>2. rules' = [rules EXCEPT ![i] = x]
      BY <2>5 DEF MarkRevalidated
    <3> HIDE DEF x
    <3> QED
      BY <2>2, <3>1, <3>2
  <2> QED
    BY <2>1, <2>4, <2>5
<1>2. LearnedOnce'
  BY <1>1 DEF LearningInv, RulesOk, LearnedOnce, SameRules
<1> QED
  BY <1>1, <1>2 DEF RulesOk, SameRules

---------------------------------------------------------------------------
(* The revalidation pass, and the operator.                                *)

(* A step that changes rules or the pass, and no parse or limiter.         *)
LEMMA RevalOnly ==
    ASSUME LearningInv, RulesOk', RevalOk', CacheOk',
           UNCHANGED <<clock, page, parse, bucket, grants>>
    PROVE  LearningInv'
<1>1. BucketsOk'
  BY DEF LearningInv, BucketsOk, BucketOk
<1> QED
  BY <1>1 DEF LearningInv

LEMMA StartPassStep ==
    ASSUME LearningInv, StartPass
    PROVE  LearningInv'
<1> DEFINE due == {i \in 1..Len(rules) : ~rules[i].disabled /\ Due(i)}
           todo == Restrict(rules, due)
<1>1. /\ reval' = [IdleReval EXCEPT !.todo = todo]
      /\ UNCHANGED <<clock, page, rules, cache, parse, bucket, grants>>
  BY DEF StartPass, safety
<1>2. DOMAIN todo = due /\ \A i \in due : todo[i] = rules[i]
  BY DEF Restrict
<1>3. \A i \in due : i \in Nat /\ rules[i] \in LearnedRule
  BY DEF LearningInv, RulesOk
<1> HIDE DEF due, todo
<1>4. reval' = [todo |-> todo, raw |-> None, since |-> None]
  BY <1>1 DEF IdleReval
<1>5. RevalOk'
  BY <1>2, <1>3, <1>4 DEF RevalOk
<1>6. RulesOk' /\ CacheOk'
  BY <1>1 DEF LearningInv, RulesOk, LearnedOnce, CacheOk
<1> QED
  BY <1>1, <1>5, <1>6, RevalOnly

(* What is left of the list when its turn is over.                         *)
LEMMA OthersOk ==
    ASSUME LearningInv, NEW i
    PROVE  \A j \in DOMAIN Others(i) : j \in Nat /\ Others(i)[j] \in LearnedRule
BY DEF LearningInv, RevalOk, Others, Restrict

(* The pass between two rules.                                             *)
LEMMA BetweenRules ==
    ASSUME NEW todo, \A j \in DOMAIN todo : j \in Nat /\ todo[j] \in LearnedRule,
           reval' = [todo |-> todo, raw |-> None, since |-> None]
    PROVE  RevalOk'
BY DEF RevalOk

LEMMA FetchSampleStep ==
    ASSUME LearningInv, NEW i \in DOMAIN reval.todo, NEW ok \in BOOLEAN,
           FetchSample(i, ok)
    PROVE  LearningInv'
<1>1. /\ reval.raw = None /\ reval.since = None
      /\ reval = [todo |-> reval.todo, raw |-> reval.raw, since |-> reval.since]
      /\ \A j \in DOMAIN reval.todo : j \in Nat /\ reval.todo[j] \in LearnedRule
      /\ UNCHANGED <<clock, page, rules, cache, parse, bucket, grants>>
  BY DEF LearningInv, RevalOk, FetchSample, safety
<1>2. page[reval.todo[i].sample] \in Format
  BY <1>1 DEF LearningInv, LearnedRule
<1>3. CASE ok
  <2>1. reval' = [todo |-> reval.todo, raw |-> page[reval.todo[i].sample], since |-> None]
    BY <1>1, <1>3 DEF FetchSample
  <2> QED
    <3>1. RevalOk'
      BY <1>1, <1>2, <2>1 DEF RevalOk
    <3>2. RulesOk' /\ CacheOk'
      BY <1>1 DEF LearningInv, RulesOk, LearnedOnce, CacheOk
    <3> QED
      BY <1>1, <3>1, <3>2, RevalOnly
<1>4. CASE ~ok
  <2>1. reval' = [todo |-> Others(i), raw |-> None, since |-> None]
    BY <1>1, <1>4 DEF FetchSample
  <2>2. RevalOk'
    BY <2>1, OthersOk, BetweenRules
  <2>3. RulesOk' /\ CacheOk'
    BY <1>1 DEF LearningInv, RulesOk, LearnedOnce, CacheOk
  <2> QED
    BY <1>1, <2>2, <2>3, RevalOnly
<1> QED
  BY <1>3, <1>4

(* The rule is judged, and the pass goes on to the next or ends.           *)
LEMMA Concluded ==
    ASSUME LearningInv, NEW i \in DOMAIN reval.todo,
           NEW v \in {"reject", "pass", "transient", "raises"}, Conclude(i, v)
    PROVE  SameRules /\ RulesOk' /\ RevalOk'
<1>1. SameRules /\ RulesOk'
  <2>1. CASE v = "transient" \/ v = "raises" \/ i \notin 1..Len(rules)
    <3>1. rules' = rules
      BY <2>1 DEF Conclude
    <3> QED
      BY <3>1 DEF LearningInv, RulesOk, LearnedOnce, SameRules
  <2>2. CASE v \in {"reject", "pass"} /\ i \in 1..Len(rules)
    <3>1. rules' = Disable(i) \/ rules' = MarkRevalidated(i)
      BY <2>2 DEF Conclude
    <3> QED
      BY <2>2, <3>1, RuleChanges
  <2> QED
    BY <2>1, <2>2
<1>2. RevalOk'
  <2>1. CASE reval' = IdleReval
    <3>1. reval' = [todo |-> <<>>, raw |-> None, since |-> None]
      BY <2>1 DEF IdleReval
    <3>2. DOMAIN <<>> = {}
      OBVIOUS
    <3> QED
      BY <3>1, <3>2, BetweenRules
  <2>2. CASE reval' = [IdleReval EXCEPT !.todo = Others(i)]
    <3>1. reval' = [todo |-> Others(i), raw |-> None, since |-> None]
      BY <2>2 DEF IdleReval
    <3> QED
      BY <3>1, OthersOk, BetweenRules
  <2> QED
    BY <2>1, <2>2 DEF Conclude
<1> QED
  BY <1>1, <1>2

LEMMA JudgeRuleStep ==
    ASSUME LearningInv, NEW i \in DOMAIN reval.todo, JudgeRule(i)
    PROVE  LearningInv' /\ SameRules
<1> DEFINE v == Validate(reval.todo[i].regex, reval.raw, reval.todo[i].sample)
<1>1. /\ Turn(i) /\ reval.raw # None /\ RevalOk /\ clock \in Nat
      /\ UNCHANGED <<clock, page, cache, parse, bucket, grants>>
  BY DEF LearningInv, JudgeRule, safety
<1>2. CacheOk'
  BY <1>1 DEF LearningInv, CacheOk
<1>3. CASE v = "fetch"
  <2>1. reval' = [todo |-> reval.todo, raw |-> reval.raw, since |-> clock]
        /\ rules' = rules
    BY <1>1, <1>3 DEF JudgeRule, RevalOk
  <2>2. Reference(reval.todo[i].sample) # None
    BY <1>3, ValidateIs
  <2>3. \A j : Turn(j)' => j = i
    <3>1. reval'.todo = reval.todo
      BY <2>1
    <3> QED
      BY <1>1, <3>1 DEF Turn, RevalOk
  <2>4. RevalOk'
    BY <1>1, <2>1, <2>2, <2>3 DEF RevalOk
  <2>5. RulesOk' /\ SameRules
    BY <2>1 DEF LearningInv, RulesOk, LearnedOnce, SameRules
  <2> QED
    BY <1>1, <1>2, <2>4, <2>5, RevalOnly
<1>4. CASE v # "fetch"
  <2>1. v \in {"reject", "pass", "raises"} /\ Conclude(i, v)
    BY <1>4, ValidateIs DEF JudgeRule
  <2>2. SameRules /\ RulesOk' /\ RevalOk'
    BY <2>1, Concluded
  <2> QED
    BY <1>1, <1>2, <2>2, RevalOnly
<1> QED
  BY <1>3, <1>4

LEMMA CrossCheckRuleStep ==
    ASSUME LearningInv, NEW i \in DOMAIN reval.todo, NEW answer,
           CrossCheckRule(i, answer)
    PROVE  LearningInv' /\ SameRules
<1> DEFINE rule == reval.todo[i]
           c == CrossCheck(rule.regex, reval.raw, rule.sample, reval.since, answer)
<1>1. /\ reval.since \in Nat /\ Reference(rule.sample) # None
      /\ UNCHANGED <<clock, page, parse, bucket, grants>>
      /\ cache' = [cache EXCEPT ![TldOf[rule.sample]] = c.cached]
      /\ Conclude(i, c.verdict)
  BY DEF LearningInv, RevalOk, CrossCheckRule, safety
<1>2. rule.sample \in Domain
  BY DEF LearningInv, RevalOk, LearnedRule
<1>3. /\ c.verdict \in {"reject", "pass", "transient"}
      /\ c.cached # None => c.cached \in [at : Nat, raw : Format]
  BY <1>1, <1>2, CrossCheckIs
<1> HIDE DEF c
<1>4. CacheOk'
  BY <1>1, <1>3, CacheMoves DEF LearningInv
<1>5. SameRules /\ RulesOk' /\ RevalOk'
  BY <1>1, <1>3, Concluded
<1> QED
  BY <1>1, <1>4, <1>5, RevalOnly

LEMMA OperatorStep ==
    ASSUME LearningInv, NEW i \in 1..Len(rules),
           OperatorDisable(i) \/ OperatorRevalidate(i)
    PROVE  LearningInv' /\ SameRules
<1>1. /\ rules' = Disable(i) \/ rules' = MarkRevalidated(i)
      /\ UNCHANGED <<clock, page, cache, parse, reval, bucket, grants>>
  BY DEF OperatorDisable, OperatorRevalidate, safety
<1>2. SameRules /\ RulesOk'
  BY <1>1, RuleChanges
<1>3. RevalOk'
  BY <1>1 DEF LearningInv, RevalOk, Turn
<1>4. CacheOk'
  BY <1>1 DEF LearningInv, CacheOk
<1> QED
  BY <1>1, <1>2, <1>3, <1>4, RevalOnly

---------------------------------------------------------------------------
(* The environment.                                                        *)

LEMMA TickStep ==
    ASSUME LearningInv, Tick
    PROVE  LearningInv'
<1>1. /\ clock' = clock + 1 /\ clock \in Nat
      /\ UNCHANGED <<page, rules, cache, parse, reval, bucket, grants>>
  BY DEF LearningInv, Tick, safety
<1>2. RulesOk' /\ CacheOk' /\ RevalOk'
  BY <1>1 DEF LearningInv, RulesOk, LearnedOnce, CacheOk, RevalOk, Turn
<1>3. BucketsOk'
  <2>1. \A b, c, w : b \in [tokens : 0..Times(c, w), last : 0..clock]
                       => b \in [tokens : 0..Times(c, w), last : 0..clock']
    BY <1>1
  <2> QED
    BY <1>1, <2>1 DEF LearningInv, BucketsOk, BucketOk
<1> QED
  BY <1>1, <1>2, <1>3 DEF LearningInv

LEMMA DriftStep ==
    ASSUME LearningInv, NEW d \in Domain, NEW f \in Format, Drift(d, f)
    PROVE  LearningInv'
<1>1. /\ page' \in [Domain -> Format]
      /\ UNCHANGED <<clock, rules, cache, parse, reval, bucket, grants>>
  BY DEF LearningInv, Drift, safety
<1>2. RulesOk' /\ CacheOk' /\ RevalOk'
  BY <1>1 DEF LearningInv, RulesOk, LearnedOnce, CacheOk, RevalOk, Turn
<1>3. BucketsOk'
  BY <1>1 DEF LearningInv, BucketsOk, BucketOk
<1> QED
  BY <1>1, <1>2, <1>3 DEF LearningInv

---------------------------------------------------------------------------
(* The invariant is inductive.                                             *)

LEMMA InvInit == Init => LearningInv
<1> SUFFICES ASSUME Init PROVE LearningInv
  OBVIOUS
<1>1. clock \in Nat /\ page \in [Domain -> Format]
  BY RuleAssumption DEF Init
<1>2. DOMAIN parse = Learner /\ \A l \in Learner : ParseOk(parse[l])
  BY IdleOk DEF Init
<1>3. RulesOk /\ CacheOk
  BY SavedOk DEF Init, RulesOk, LearnedOnce, CacheOk
<1>5. RevalOk
  <2>1. reval = [todo |-> <<>>, raw |-> None, since |-> None] /\ DOMAIN <<>> = {}
    BY DEF Init, IdleReval
  <2> QED
    BY <2>1 DEF RevalOk
<1>4. BucketsOk
  <2>1. \A c, w : BucketOk(None, <<>>, c, w)
    BY DEF BucketOk, Bounded
  <2> QED
    BY <2>1 DEF Init, BucketsOk
<1> QED
  BY <1>1, <1>2, <1>3, <1>4, <1>5 DEF LearningInv

LEMMA InvStutter == LearningInv /\ UNCHANGED vars => LearningInv'
BY DEF vars, LearningInv, RulesOk, LearnedOnce, CacheOk, RevalOk, Turn, BucketsOk,
       BucketOk

LEMMA ParseStepKeeps ==
    ASSUME LearningInv, NEW l \in Learner, ParseStep(l)
    PROVE  LearningInv'
BY TryLearnedStep, AcquireHostStep, AcquireTldStep, CallSuggesterStep, SuggestionStep,
   ValidateCandidateStep, CrossCheckCandidateStep, AddRuleStep
DEF ParseStep

LEMMA InvInductive == LearningInv /\ [Next]_vars => LearningInv'
<1> SUFFICES ASSUME LearningInv, [Next]_vars PROVE LearningInv'
  OBVIOUS
<1>1. ASSUME NEW i \in DOMAIN reval.todo,
             \/ JudgeRule(i)
             \/ \E ok \in BOOLEAN : FetchSample(i, ok)
             \/ \E a \in Answers : CrossCheckRule(i, a)
      PROVE  LearningInv'
  BY <1>1, JudgeRuleStep, FetchSampleStep, CrossCheckRuleStep
<1> QED
  BY <1>1, TickStep, DriftStep, ParseStepKeeps, StartParseStep, StartPassStep,
     OperatorStep, InvStutter
  DEF Next

(* The invariant of rules, parses, limiters and the revalidation pass.     *)
THEOREM InvAlways == Spec => []LearningInv
BY InvInit, InvInductive, PTL DEF Spec

---------------------------------------------------------------------------
(* Every step keeps the types, and no bucket is ever filled beyond its     *)
(* capacity.                                                               *)
THEOREM TypesKept == Spec => []TypeOK
<1>1. LearningInv => TypeOK
  <2> SUFFICES ASSUME LearningInv PROVE TypeOK
    OBVIOUS
  <2>1. ASSUME NEW k \in Bucket, bucket[k] # None
        PROVE  /\ bucket[k].last \in Nat
               /\ bucket[k].tokens \in 0..(IF k = Host THEN HostCapacity * HostWindow
                                           ELSE TldCapacity * TldWindow)
    <3>1. bucket[k] \in [tokens : 0..Times(CapacityOf(k), WindowOf(k)), last : 0..clock]
      BY <2>1 DEF LearningInv, BucketsOk, BucketOk
    <3>2. bucket[k].last \in Nat
      BY <3>1 DEF LearningInv
    <3> QED
      BY <3>1, <3>2 DEF CapacityOf, WindowOf, Times
  <2>2. \A l \in Learner : /\ parse[l].pc \in Pcs
                           /\ parse[l].pc # "idle" => parse[l].domain \in Domain
    BY DEF LearningInv, ParseOk, Parse
  <2>3. \A i \in DOMAIN reval.todo : i \in Nat /\ reval.todo[i] \in LearnedRule
    BY DEF LearningInv, RevalOk
  <2> QED
    BY <2>1, <2>2, <2>3 DEF LearningInv, RulesOk, CacheOk, TypeOK, Pcs
<1> QED
  BY <1>1, InvAlways, PTL

(* Whatever parses run side by side, and on either repository, no TLD ever *)
(* has two active rules with the same regex.                               *)
THEOREM NoRuleTwice == Spec => []LearnedOnce
<1>1. LearningInv => LearnedOnce
  BY DEF LearningInv, RulesOk
<1> QED
  BY <1>1, InvAlways, PTL

(* Between any two grants of a limiter lie at most its capacity and what   *)
(* the time between them refills, for any capacities and windows.          *)
THEOREM GrantsBounded == Spec => []RateBounded
<1>1. LearningInv => RateBounded
  <2> SUFFICES ASSUME LearningInv, NEW k \in Bucket
               PROVE  LET c == IF k = Host THEN HostCapacity ELSE TldCapacity
                          w == IF k = Host THEN HostWindow ELSE TldWindow
                          g == grants[k]
                      IN \A i, j \in 1..Len(g) :
                            i <= j => (j - i + 1) * w <= c * w + c * (g[j] - g[i])
    BY DEF RateBounded
  <2>1. Bounded(grants[k], CapacityOf(k), WindowOf(k))
    BY DEF LearningInv, BucketsOk, BucketOk
  <2> QED
    BY <2>1 DEF Bounded, Times, CapacityOf, WindowOf
<1> QED
  BY <1>1, InvAlways, PTL

(* No step brings back a disabled rule but a rollback: not that of a pass  *)
(* which listed the rule before it was disabled, not an operator's.        *)
Undone ==
    /\ store = "sql" /\ rules' = Saved
    /\ \E l \in Learner : /\ parse[l].pc = "add"
                          /\ Duplicate(TldOf[parse[l].domain], parse[l].rule)

LEMMA StaysDisabled ==
    ASSUME LearningInv, [Next]_vars, NEW i \in 1..Len(rules), rules[i].disabled
    PROVE  (i \in 1..Len(rules') /\ rules'[i].disabled) \/ Undone
<1>1. CASE UNCHANGED rules
  BY <1>1
<1>2. CASE SameRules
  BY <1>2 DEF SameRules
<1>3. ASSUME NEW l \in Learner, AddRule(l)
      PROVE  (i \in 1..Len(rules') /\ rules'[i].disabled) \/ Undone
  <2>1. CASE Duplicate(TldOf[parse[l].domain], parse[l].rule)
    BY <1>3, <2>1 DEF AddRule, Undone
  <2>2. CASE ~Duplicate(TldOf[parse[l].domain], parse[l].rule)
    BY <1>3, <2>2 DEF AddRule, LearningInv, RulesOk
  <2> QED
    BY <2>1, <2>2
<1>4. ASSUME NEW l \in Learner, ParseStep(l) PROVE UNCHANGED rules \/ AddRule(l)
  BY <1>4 DEF ParseStep, TryLearned, AcquireHost, AcquireTld, Acquire, CallSuggester,
     SuggestFails, SuggestRaises, SuggestReturns, ValidateCandidate, CrossCheckCandidate
<1>5. ASSUME NEW r \in DOMAIN reval.todo,
             \/ JudgeRule(r)
             \/ \E ok \in BOOLEAN : FetchSample(r, ok)
             \/ \E a \in Answers : CrossCheckRule(r, a)
      PROVE  UNCHANGED rules \/ SameRules
  BY <1>5, JudgeRuleStep, CrossCheckRuleStep DEF FetchSample
<1>6. \/ UNCHANGED rules
      \/ SameRules
      \/ \E l \in Learner : AddRule(l)
  BY <1>4, <1>5, OperatorStep DEF Next, vars, Tick, Drift, StartParse, StartPass
<1> QED
  BY <1>1, <1>2, <1>3, <1>6

(* Once disabled, a rule comes back into use only with the rollback of an  *)
(* add refused as a duplicate, on SQL, to what was committed.              *)
THEOREM DisabledForGood == Spec => DisabledStaysDisabled
<1>1. LearningInv /\ [Next]_vars =>
        [\A i \in 1..Len(rules) : rules[i].disabled =>
          \/ i \in 1..Len(rules') /\ rules'[i].disabled
          \/ /\ store = "sql" /\ rules' = Saved
             /\ \E l \in Learner :
                   /\ parse[l].pc = "add"
                   /\ Duplicate(TldOf[parse[l].domain], parse[l].rule)]_vars
  BY StaysDisabled DEF Undone
<1> QED
  BY <1>1, InvAlways, PTL DEF Spec, DisabledStaysDisabled
============================================================================
