--------------------------- MODULE BreakerProofs ---------------------------
(***************************************************************************)
(* What the circuit breaker of SuggesterSafety promises the suggester in   *)
(* RuleLearning, for any number of concurrent parses, any threshold and    *)
(* any failure window that is not shorter than the open period.            *)
(***************************************************************************)
EXTENDS RuleLearningProofs, FiniteSetTheorems, WellFoundedInduction

Call == [at : Nat, by : Learner \cup {None}, ended : {"no", "failed", "raised"}]

(* Of a history c: the calls in flight, the failed ones that began after   *)
(* x, and those the property counts.                                       *)
InFlight(c) == {i \in 1..Len(c) : c[i].ended = "no"}
FailedSince(c, x) == {i \in 1..Len(c) : c[i].ended = "failed" /\ c[i].at > x}
Counted(c, now) ==
    {i \in 1..Len(c) : c[i].ended # "raised" /\ now - c[i].at < OpenFor}

Sorted(f) == \A i, j \in 1..Len(f) : i <= j => f[i] <= f[j]

(* The last n of the failures f are later than x.                          *)
Backed(f, x, n) == n <= Len(f) /\ (n > 0 => f[Len(f) - n + 1] > x)

CallsOk ==
    /\ calls \in Seq(Call)
    /\ \A i \in 1..Len(calls) :
          /\ calls[i].at <= clock
          /\ IF calls[i].ended = "no"
             THEN calls[i].by \in Learner /\ parse[calls[i].by].pc = "await"
             ELSE calls[i].by = None
    /\ \A i, j \in InFlight(calls) : calls[i].by = calls[j].by => i = j

FailuresOk(f) ==
    /\ f \in Seq(Nat)
    /\ Sorted(f)
    /\ \A i \in 1..Len(f) : f[i] <= clock

(* While the breaker is closed, there is a failure for every failed call   *)
(* that is recent; once it has opened, no call begins until all that had   *)
(* begun are past counting.                                                *)
OpenOk ==
    IF breaker.opened_at = None
    THEN /\ Len(breaker.failures) < FailureThreshold
         /\ \A x \in Int : x >= clock - OpenFor =>
               Backed(breaker.failures, x, Cardinality(FailedSince(calls, x)))
    ELSE /\ breaker.opened_at \in 0..clock
         /\ \A i \in 1..Len(calls) : calls[i].at <= breaker.opened_at

BreakerInv ==
    /\ CallsOk /\ OpenOk
    /\ FailuresOk(breaker.failures)
    /\ BreakerShields

---------------------------------------------------------------------------
(* Sequences of failures.                                                  *)

LEMMA LeastIndex ==
    ASSUME NEW S, S \subseteq Nat, S # {}
    PROVE  \E x \in S : \A y \in S : x <= y
<1> DEFINE R == {ss \in Nat \X Nat : ss[1] < ss[2]}
<1>1. IsWellFoundedOn(R, Nat)
  BY NatLessThanWellFounded DEF OpToRel
<1>2. \A y, z \in Nat : y < z => <<y, z>> \in R
  OBVIOUS
<1> HIDE DEF R
<1>3. PICK x \in S : \A y \in S : ~(<<y, x>> \in R)
  BY <1>1, WFMin
<1>4. \A y \in S : x \in Nat /\ y \in Nat /\ ~(y < x)
  BY <1>2, <1>3
<1> QED
  BY <1>4

(* Another failure, for at most one more call.                             *)
LEMMA BackedAppend ==
    ASSUME NEW f \in Seq(Nat), Sorted(f), NEW now \in Nat,
           \A i \in 1..Len(f) : f[i] <= now,
           NEW x \in Int, NEW n \in Nat, NEW m \in Nat, Backed(f, x, n),
           m = n \/ (m = n + 1 /\ now > x)
    PROVE  Backed(Append(f, now), x, m)
<1> DEFINE a == Append(f, now)
<1>1. Len(a) = Len(f) + 1 /\ a[Len(f) + 1] = now /\ \A i \in 1..Len(f) : a[i] = f[i]
  OBVIOUS
<1>2. \A i \in 1..Len(f) : f[i] \in Nat
  OBVIOUS
<1>3. Len(f) \in Nat
  OBVIOUS
<1> HIDE DEF a
<1>4. CASE m = 0
  BY <1>1, <1>3, <1>4 DEF Backed
<1>5. CASE m = n + 1 /\ now > x /\ n = 0
  BY <1>1, <1>3, <1>5 DEF Backed
<1>6. CASE m = n + 1 /\ now > x /\ n > 0
  BY <1>1, <1>3, <1>6 DEF Backed
<1>7. CASE m = n /\ n = 1
  <2>1. f[Len(f)] > x /\ f[Len(f)] <= now /\ f[Len(f)] \in Nat
    BY <1>2, <1>3, <1>7 DEF Backed
  <2> QED
    BY <1>1, <1>3, <1>7, <2>1 DEF Backed
<1>8. CASE m = n /\ n > 1
  <2> DEFINE k == Len(f) - n + 1
  <2>1. k \in 1..Len(f) /\ k + 1 \in 1..Len(f) /\ f[k] > x
    BY <1>3, <1>8 DEF Backed
  <2>2. f[k] <= f[k + 1] /\ f[k] \in Nat /\ f[k + 1] \in Nat
    BY <1>2, <2>1 DEF Sorted
  <2>3. Len(a) - m + 1 = k + 1 /\ m <= Len(a)
    BY <1>1, <1>3, <1>8 DEF Backed
  <2>4. a[k + 1] = f[k + 1]
    BY <1>1, <2>1
  <2> HIDE DEF k
  <2>5. a[k + 1] > x
    BY <2>1, <2>2, <2>4
  <2>6. a[Len(a) - m + 1] > x
    BY <2>3, <2>5
  <2> QED
    BY <2>3, <2>6 DEF Backed, a
<1> QED
  BY <1>4, <1>5, <1>6, <1>7, <1>8

LEMMA SortedAppend ==
    ASSUME NEW f \in Seq(Nat), Sorted(f), NEW now \in Nat,
           \A i \in 1..Len(f) : f[i] <= now
    PROVE  /\ Append(f, now) \in Seq(Nat) /\ Sorted(Append(f, now))
           /\ \A i \in 1..Len(Append(f, now)) : Append(f, now)[i] <= now
           /\ Append(f, now)[Len(Append(f, now))] = now
<1> DEFINE a == Append(f, now)
<1>1. a \in Seq(Nat) /\ Len(a) = Len(f) + 1 /\ a[Len(f) + 1] = now
      /\ \A i \in 1..Len(f) : a[i] = f[i] /\ f[i] \in Nat
  OBVIOUS
<1> HIDE DEF a
<1>2. \A i \in 1..Len(a) : i \in 1..Len(f) \/ i = Len(f) + 1
  BY <1>1
<1>3. \A i \in 1..Len(a) : a[i] <= now
  BY <1>1, <1>2
<1>4. ASSUME NEW i \in 1..Len(a), NEW j \in 1..Len(a), i <= j
      PROVE  a[i] <= a[j]
  <2>1. CASE j = Len(f) + 1
    BY <1>1, <1>3, <2>1
  <2>2. CASE j \in 1..Len(f)
    <3>1. i \in 1..Len(f)
      BY <1>4, <2>2
    <3> QED
      BY <1>1, <1>4, <2>2, <3>1 DEF Sorted
  <2> QED
    BY <1>2, <2>1, <2>2
<1>5. Sorted(a)
  BY <1>4 DEF Sorted
<1> QED
  BY <1>1, <1>3, <1>5 DEF a

(* Dropping the failures older than the window drops none that counts.     *)
LEMMA RecentOk ==
    ASSUME NEW f \in Seq(Nat), Sorted(f), f # <<>>, NEW now \in Nat, NEW w \in Nat,
           f[Len(f)] = now, \A i \in 1..Len(f) : f[i] <= now
    PROVE  /\ Recent(f, w, now) \in Seq(Nat) /\ Sorted(Recent(f, w, now))
           /\ \A i \in 1..Len(Recent(f, w, now)) : Recent(f, w, now)[i] <= now
           /\ \A x \in Int, n \in Nat :
                 x >= now - w /\ Backed(f, x, n) => Backed(Recent(f, w, now), x, n)
<1> DEFINE S == {k \in 1..Len(f) : now - f[k] <= w}
           first == FirstRecent(f, w, now)
           r == Recent(f, w, now)
<1>0. Len(f) \in Nat /\ Len(f) >= 1 /\ \A i \in 1..Len(f) : f[i] \in Nat
  OBVIOUS
<1>1. Len(f) \in S /\ S \subseteq Nat
  BY <1>0
<1>2. PICK k \in S : \A j \in S : k <= j
  BY <1>1, LeastIndex
<1>3. /\ k \in 1..Len(f) /\ now - f[k] <= w
      /\ \A j \in 1..(k - 1) : now - f[j] > w
  BY <1>0, <1>2
<1>4. /\ first \in 1..Len(f) /\ now - f[first] <= w
      /\ \A j \in 1..(first - 1) : now - f[j] > w
  BY <1>3 DEF FirstRecent
<1>5. r = SubSeq(f, first, Len(f))
  BY DEF Recent
<1> HIDE DEF first, r, S
<1>6. /\ r \in Seq(Nat) /\ Len(r) = Len(f) - first + 1
      /\ \A i \in 1..(Len(f) - first + 1) : r[i] = f[first + i - 1]
  <2>1. first \in Int /\ Len(f) \in Int /\ \A i \in first..Len(f) : f[i] \in Nat
    BY <1>0, <1>4
  <2> QED
    BY <1>4, <1>5, <2>1, SubSeqProperties
<1>7. \A i \in 1..Len(r) : first + i - 1 \in 1..Len(f) /\ r[i] = f[first + i - 1]
  BY <1>0, <1>4, <1>6
<1>8. Sorted(r) /\ \A i \in 1..Len(r) : r[i] <= now
  <2>1. \A i \in 1..Len(r) : r[i] <= now
    BY <1>7
  <2>2. ASSUME NEW i \in 1..Len(r), NEW j \in 1..Len(r), i <= j
        PROVE  r[i] <= r[j]
    <3>1. first + i - 1 <= first + j - 1
      BY <1>4, <2>2
    <3> QED
      BY <1>7, <3>1 DEF Sorted
  <2> QED
    BY <2>1, <2>2 DEF Sorted
<1>9. ASSUME NEW x \in Int, NEW n \in Nat, x >= now - w, Backed(f, x, n)
      PROVE  Backed(r, x, n)
  <2>1. CASE n = 0
    BY <1>0, <1>4, <1>6, <2>1 DEF Backed
  <2>2. CASE n > 0
    <3> DEFINE i == Len(f) - n + 1
    <3>1. i \in 1..Len(f) /\ f[i] > x /\ f[i] \in Nat
      BY <1>0, <1>9, <2>2 DEF Backed
    <3>2. ~(now - f[i] > w)
      BY <1>9, <3>1
    <3> HIDE DEF i
    <3>3. i >= first
      <4>1. ~(i \in 1..(first - 1))
        BY <1>4, <3>2
      <4> QED
        BY <1>0, <1>4, <3>1, <4>1
    <3> USE DEF i
    <3>4. Len(r) - n + 1 \in 1..Len(r) /\ first + (Len(r) - n + 1) - 1 = i /\ n <= Len(r)
      <4>1. first \in Int /\ Len(f) \in Int /\ Len(r) = Len(f) - first + 1
            /\ Len(f) - n + 1 >= first
        BY <1>0, <1>4, <1>6, <3>3
      <4> QED
        BY <2>2, <4>1
    <3>5. r[Len(r) - n + 1] = f[i]
      BY <1>7, <3>4
    <3> QED
      BY <3>1, <3>4, <3>5 DEF Backed
  <2> QED
    BY <2>1, <2>2
<1> QED
  BY <1>6, <1>8, <1>9 DEF r

---------------------------------------------------------------------------
(* Histories of calls.                                                     *)

(* Finitely many parses, and a failure window that covers the open period  *)
(* (five minutes both, in default_circuit_breaker).                        *)
Covering == IsFiniteSet(Learner) /\ OpenFor <= FailureWindow

LEMMA Settings ==
    /\ FailureThreshold \in Nat \ {0} /\ OpenFor \in Nat \ {0}
    /\ FailureWindow \in Nat \ {0} /\ None \notin Nat /\ None \notin Learner
BY RuleAssumption

LEMMA Indices ==
    ASSUME NEW c, Len(c) \in Nat, NEW S, S \subseteq 1..Len(c)
    PROVE  /\ IsFiniteSet(S) /\ Cardinality(S) \in Nat
           /\ \A T \in SUBSET S : Cardinality(T) <= Cardinality(S)
<1>1. IsFiniteSet(1..Len(c))
  BY FS_Interval
<1>2. IsFiniteSet(S)
  BY <1>1, FS_Subset
<1> QED
  BY <1>2, FS_Subset, FS_CardinalityType

(* Every parse has at most one call in flight.                             *)
Apart(c) ==
    /\ \A i \in InFlight(c) : c[i].by \in Learner
    /\ \A i, j \in InFlight(c) : c[i].by = c[j].by => i = j

LEMMA InFlightFew ==
    ASSUME Covering, NEW c \in Seq(Call), Apart(c)
    PROVE  Cardinality(InFlight(c)) <= Cardinality(Learner)
<1> DEFINE S == InFlight(c)
           f == [i \in S |-> c[i].by]
<1>1. f \in Injection(S, Learner)
  BY DEF Injection, IsInjective, Apart
<1> HIDE DEF f
<1> QED
  BY <1>1, FS_Injection DEF Covering

(* Few recent failures, few recent calls.                                  *)
LEMMA FewFailuresFewCalls ==
    ASSUME Covering, NEW c \in Seq(Call), Apart(c), NEW now \in Nat,
           Cardinality(FailedSince(c, now - OpenFor)) < FailureThreshold
    PROVE  Cardinality(Counted(c, now)) < FailureThreshold + Cardinality(Learner)
<1> DEFINE F == FailedSince(c, now - OpenFor)
           S == InFlight(c)
<1>1. Len(c) \in Nat /\ \A i \in 1..Len(c) : c[i] \in Call
  OBVIOUS
<1>2. F \subseteq 1..Len(c) /\ S \subseteq 1..Len(c) /\ Counted(c, now) \subseteq F \cup S
  BY <1>1, Settings DEF FailedSince, InFlight, Counted, Call
<1>3. Cardinality(S) <= Cardinality(Learner)
  BY InFlightFew
<1>4. IsFiniteSet(F) /\ IsFiniteSet(S) /\ Cardinality(F) \in Nat /\ Cardinality(S) \in Nat
  BY <1>1, <1>2, Indices
<1>5. /\ F \cup S \subseteq 1..Len(c)
      /\ Cardinality(F \cup S) = Cardinality(F) + Cardinality(S) - Cardinality(F \cap S)
      /\ F \cap S \subseteq 1..Len(c)
  BY <1>2, <1>4, FS_Union
<1>6. /\ Cardinality(Counted(c, now)) <= Cardinality(F \cup S)
      /\ Cardinality(F \cap S) \in Nat /\ Cardinality(Counted(c, now)) \in Nat
      /\ Cardinality(F \cup S) \in Nat
  BY <1>1, <1>2, <1>5, Indices
<1>7. Cardinality(Learner) \in Nat
  BY FS_CardinalityType DEF Covering
<1> HIDE DEF F, S
<1> QED
  BY <1>3, <1>4, <1>5, <1>6, <1>7, Settings DEF F

(* A history of which no more is counted keeps the promise.                *)
LEMMA Fewer ==
    ASSUME Covering, NEW c \in Seq(Call), NEW S \in SUBSET Counted(c, clock),
           Cardinality(Counted(c, clock)) < FailureThreshold + Cardinality(Learner)
    PROVE  Cardinality(S) < FailureThreshold + Cardinality(Learner)
<1>1. Counted(c, clock) \subseteq 1..Len(c) /\ S \subseteq 1..Len(c) /\ Len(c) \in Nat
  BY DEF Counted
<1>2. /\ Cardinality(S) <= Cardinality(Counted(c, clock))
      /\ Cardinality(S) \in Nat /\ Cardinality(Counted(c, clock)) \in Nat
  BY <1>1, Indices
<1>3. Cardinality(Learner) \in Nat
  BY FS_CardinalityType DEF Covering
<1> QED
  BY <1>2, <1>3, Settings

LEMMA ShieldsMeans ==
    BreakerShields <=>
        Cardinality(Counted(calls, clock)) < FailureThreshold + Cardinality(Learner)
BY DEF BreakerShields, Counted

LEMMA CallTypes ==
    ASSUME NEW c \in Seq(Call)
    PROVE  /\ Len(c) \in Nat
           /\ \A i \in 1..Len(c) : c[i] \in Call /\ c[i].at \in Nat
<1>1. Len(c) \in Nat /\ \A i \in 1..Len(c) : c[i] \in Call
  OBVIOUS
<1> QED
  BY <1>1 DEF Call

---------------------------------------------------------------------------
(* The steps.                                                              *)

LEMMA BreakerInit == Covering /\ Init => BreakerInv
<1> SUFFICES ASSUME Covering, Init PROVE BreakerInv
  OBVIOUS
<1>1. /\ calls = <<>> /\ clock = 0 /\ breaker.failures = <<>> /\ breaker.opened_at = None
      /\ Len(calls) = 0
  BY DEF Init, Closed
<1>2. CallsOk /\ FailuresOk(breaker.failures)
  BY <1>1 DEF CallsOk, FailuresOk, Sorted, InFlight
<1>3. \A x \in Int : FailedSince(calls, x) = {}
  BY <1>1 DEF FailedSince
<1>4. OpenOk
  BY <1>1, <1>3, FS_EmptySet, Settings DEF OpenOk, Backed
<1>5. Counted(calls, clock) = {}
  BY <1>1 DEF Counted
<1>6. BreakerShields
  BY <1>5, FS_EmptySet, FS_CardinalityType, Settings, ShieldsMeans DEF Covering
<1> QED
  BY <1>2, <1>4, <1>6 DEF BreakerInv

LEMMA Later ==
    \A now, next, span \in Int : next >= now =>
        \A x \in Int : x >= next - span => x >= now - span
OBVIOUS

(* Steps that leave the breaker alone, the passage of time among them.     *)
LEMMA BesideBreaker ==
    ASSUME Covering, BreakerInv, UNCHANGED <<breaker, calls>>,
           clock \in Nat, clock' = clock \/ clock' = clock + 1,
           \A l \in Learner : parse[l].pc = "await" => parse'[l].pc = "await"
    PROVE  BreakerInv'
<1>1. calls' = calls /\ breaker' = breaker /\ clock' \in Nat /\ clock' >= clock
      /\ calls \in Seq(Call)
  BY DEF BreakerInv, CallsOk
<1>2. Len(calls) \in Nat /\ \A i \in 1..Len(calls) : calls[i] \in Call /\ calls[i].at \in Nat
  BY <1>1, CallTypes
<1>3. CallsOk'
  BY <1>1, <1>2 DEF BreakerInv, CallsOk
<1>4. FailuresOk(breaker.failures)'
  <2>1. FailuresOk(breaker.failures)
    BY DEF BreakerInv
  <2>2. \A i \in 1..Len(breaker.failures) : breaker.failures[i] \in Nat
    BY <2>1 DEF FailuresOk
  <2> QED
    BY <1>1, <2>1, <2>2 DEF FailuresOk
<1>5. OpenOk'
  <2>1. OpenOk
    BY DEF BreakerInv
  <2>2. CASE breaker.opened_at = None
    <3>0. OpenFor \in Int /\ clock \in Int /\ clock' \in Int /\ clock' >= clock
      BY <1>1, Settings
    <3>1. \A x \in Int : x >= clock' - OpenFor => x >= clock - OpenFor
      BY <3>0, Later, Zenon
    <3> QED
      BY <1>1, <2>1, <2>2, <3>1 DEF OpenOk
  <2>3. CASE breaker.opened_at # None
    BY <1>1, <2>1, <2>3 DEF OpenOk
  <2> QED
    BY <2>2, <2>3
<1>6. Counted(calls, clock') \in SUBSET Counted(calls, clock)
  BY <1>1, <1>2, Settings DEF Counted
<1>7. BreakerShields'
  <2>1. Cardinality(Counted(calls, clock')) < FailureThreshold + Cardinality(Learner)
    BY <1>1, <1>6, Fewer, ShieldsMeans DEF BreakerInv
  <2> QED
    BY <1>1, <2>1 DEF BreakerShields, Counted
<1> QED
  BY <1>3, <1>4, <1>5, <1>7 DEF BreakerInv

(* is_open: half-open, the breaker has forgotten all failures, and no call *)
(* made before it opened counts any more.                                  *)
LEMMA AskedOk ==
    ASSUME BreakerInv, clock \in Nat, ~IsOpen(breaker, OpenFor, clock),
           NEW b, b = Asked(breaker, OpenFor, clock)
    PROVE  /\ b.opened_at = None /\ FailuresOk(b.failures)
           /\ Len(b.failures) < FailureThreshold
           /\ \A x \in Int : x >= clock - OpenFor =>
                 Backed(b.failures, x, Cardinality(FailedSince(calls, x)))
<1>1. CASE breaker.opened_at = None
  BY <1>1 DEF BreakerInv, OpenOk, Asked
<1>2. CASE breaker.opened_at # None
  <2>0. /\ breaker.opened_at \in 0..clock
        /\ \A i \in 1..Len(calls) : calls[i].at <= breaker.opened_at
    BY <1>2 DEF BreakerInv, OpenOk
  <2>1. b = Closed /\ clock - breaker.opened_at >= OpenFor /\ breaker.opened_at \in Nat
    BY <1>2, <2>0, Settings DEF Asked, IsOpen
  <2>2. \A i \in 1..Len(calls) : calls[i].at \in Nat
    BY CallTypes DEF BreakerInv, CallsOk
  <2>3. ASSUME NEW x \in Int, x >= clock - OpenFor PROVE FailedSince(calls, x) = {}
    BY <2>0, <2>1, <2>2, <2>3, Settings DEF FailedSince
  <2>4. b.failures = <<>> /\ b.opened_at = None
    BY <2>1 DEF Closed
  <2>5. FailuresOk(b.failures)
    BY <2>4 DEF FailuresOk, Sorted
  <2>6. ASSUME NEW x \in Int, x >= clock - OpenFor
        PROVE  Backed(b.failures, x, Cardinality(FailedSince(calls, x)))
    BY <2>3, <2>4, <2>6, FS_EmptySet DEF Backed
  <2> QED
    BY <2>4, <2>5, <2>6, Settings
<1> QED
  BY <1>1, <1>2

LEMMA CallSuggesterOk ==
    ASSUME Covering, BreakerInv, LearningInv,
           NEW l \in Learner, CallSuggester(l), ~IsOpen(breaker, OpenFor, clock)
    PROVE  BreakerInv'
<1> DEFINE new == [at |-> clock, by |-> l, ended |-> "no"]
           c == Append(calls, new)
           b == Asked(breaker, OpenFor, clock)
<1>1. /\ calls' = c /\ breaker' = b /\ clock' = clock
      /\ parse[l].pc = "suggest" /\ parse'[l].pc = "await"
      /\ \A m \in Learner : m # l => parse'[m] = parse[m]
      /\ clock \in Nat
  <2>1. DOMAIN parse = Learner /\ parse[l] \in Parse /\ clock \in Nat
    BY DEF LearningInv, ParseOk
  <2>2. parse' = [parse EXCEPT ![l] = [parse[l] EXCEPT !.pc = "await"]]
    BY DEF CallSuggester, Step
  <2>3. [parse[l] EXCEPT !.pc = "await"].pc = "await"
    BY <2>1 DEF Parse
  <2>4. parse'[l].pc = "await" /\ \A m \in Learner : m # l => parse'[m] = parse[m]
    BY <2>1, <2>2, <2>3
  <2> QED
    BY <2>1, <2>4 DEF CallSuggester
<1>2. calls \in Seq(Call) /\ new \in Call
  BY <1>1 DEF BreakerInv, CallsOk, Call
<1>3. /\ c \in Seq(Call) /\ Len(c) = Len(calls) + 1 /\ Len(calls) \in Nat
      /\ c[Len(c)] = new /\ \A i \in 1..Len(calls) : c[i] = calls[i]
  BY <1>2
<1> HIDE DEF c, b
<1>4. \A i \in 1..Len(c) : i \in 1..Len(calls) \/ i = Len(c)
  BY <1>3
<1>5. \A i \in 1..Len(calls) : c[i].ended = "no" => c[i].by # l
  BY <1>1, <1>3 DEF BreakerInv, CallsOk
<1>6. InFlight(c) \subseteq InFlight(calls) \cup {Len(c)}
  BY <1>3, <1>4 DEF InFlight
<1>7. \A i, j \in InFlight(c) : c[i].by = c[j].by => i = j
  <2>1. \A i, j \in InFlight(calls) : calls[i].by = calls[j].by => i = j
    BY DEF BreakerInv, CallsOk
  <2>2. \A i \in InFlight(calls) : i \in 1..Len(calls) /\ c[i] = calls[i] /\ c[i].by # l
    BY <1>3, <1>5 DEF InFlight
  <2>3. c[Len(c)].by = l
    BY <1>3
  <2> QED
    BY <1>6, <2>1, <2>2, <2>3
<1>8. \A i \in 1..Len(c) :
         /\ c[i].at <= clock
         /\ IF c[i].ended = "no"
            THEN c[i].by \in Learner /\ parse'[c[i].by].pc = "await"
            ELSE c[i].by = None
  <2>1. ASSUME NEW i \in 1..Len(calls)
        PROVE  /\ c[i].at <= clock
               /\ IF c[i].ended = "no"
                  THEN c[i].by \in Learner /\ parse'[c[i].by].pc = "await"
                  ELSE c[i].by = None
    BY <1>1, <1>3, <1>5 DEF BreakerInv, CallsOk
  <2>2. c[Len(c)].at = clock /\ c[Len(c)].ended = "no" /\ c[Len(c)].by = l
    BY <1>3
  <2> QED
    BY <1>1, <1>4, <2>1, <2>2
<1>9. CallsOk'
  BY <1>1, <1>3, <1>7, <1>8 DEF CallsOk
<1>10. \A x \in Int : FailedSince(c, x) = FailedSince(calls, x)
  BY <1>3, <1>4 DEF FailedSince
<1>11. /\ b.opened_at = None /\ FailuresOk(b.failures)
       /\ Len(b.failures) < FailureThreshold
       /\ \A x \in Int : x >= clock - OpenFor =>
             Backed(b.failures, x, Cardinality(FailedSince(c, x)))
  BY <1>1, <1>10, AskedOk DEF b
<1>12. FailuresOk(breaker.failures)' /\ OpenOk'
  BY <1>1, <1>11 DEF FailuresOk, OpenOk
<1>13. BreakerShields'
  <2> DEFINE x == clock - OpenFor
  <2>1. x \in Int /\ Cardinality(FailedSince(c, x)) \in Nat
    BY <1>1, <1>3, Indices, Settings DEF FailedSince
  <2>2. Cardinality(FailedSince(c, x)) <= Len(b.failures) /\ Len(b.failures) \in Nat
    BY <1>11, <2>1 DEF Backed, FailuresOk
  <2>3. Cardinality(FailedSince(c, x)) < FailureThreshold
    BY <1>11, <2>1, <2>2, Settings
  <2>4. Apart(c)
    BY <1>7, <1>8 DEF Apart, InFlight
  <2>5. Cardinality(Counted(c, clock)) < FailureThreshold + Cardinality(Learner)
    BY <1>1, <1>3, <2>3, <2>4, FewFailuresFewCalls
  <2> QED
    BY <1>1, <2>5 DEF BreakerShields, Counted
<1> QED
  BY <1>9, <1>12, <1>13 DEF BreakerInv

(* A call of l ends: the history keeps its shape, and at most one call     *)
(* more has failed.                                                        *)
LEMMA EndOk ==
    ASSUME BreakerInv, NEW l \in Learner, NEW how \in {"failed", "raised"},
           End(l, how), clock' = clock, \A m \in Learner : m # l => parse'[m] = parse[m]
    PROVE  /\ CallsOk' /\ Len(calls') = Len(calls)
           /\ \A i \in 1..Len(calls) : calls'[i].at = calls[i].at
           /\ Counted(calls', clock) \subseteq Counted(calls, clock)
           /\ \A x \in Int : \E i :
                 FailedSince(calls', x) = FailedSince(calls, x)
                 \/ /\ how = "failed" /\ i \in 1..Len(calls) /\ calls[i].at > x
                    /\ i \notin FailedSince(calls, x)
                    /\ FailedSince(calls', x) = FailedSince(calls, x) \cup {i}
<1>1. /\ calls \in Seq(Call) /\ Len(calls) \in Nat
      /\ \A i \in 1..Len(calls) : calls[i] \in Call
      /\ calls' = [i \in 1..Len(calls) |->
                     IF calls[i].by = l
                     THEN [calls[i] EXCEPT !.by = None, !.ended = how] ELSE calls[i]]
  BY CallTypes DEF BreakerInv, CallsOk, End
<1>2. ASSUME NEW i \in 1..Len(calls)
      PROVE  /\ calls'[i] \in Call /\ calls'[i].at = calls[i].at
             /\ calls[i].by # l => calls'[i] = calls[i]
             /\ calls[i].by = l => calls'[i].by = None /\ calls'[i].ended = how
  <2>1. calls[i] \in Call /\ None \in Learner \cup {None}
    BY <1>1
  <2>2. [calls[i] EXCEPT !.by = None, !.ended = how] \in Call
    BY <2>1 DEF Call
  <2> QED
    BY <1>1, <2>1, <2>2 DEF Call
<1>3. calls' \in Seq(Call) /\ Len(calls') = Len(calls)
  <2> DEFINE n == Len(calls)
             c == calls'
  <2>1. n \in Nat /\ c = [i \in 1..n |-> c[i]] /\ \A i \in 1..n : c[i] \in Call
    BY <1>1, <1>2
  <2> HIDE DEF n, c
  <2>2. c \in Seq(Call) /\ Len(c) = n
    BY <2>1
  <2> QED
    BY <2>2 DEF n, c
<1>4. \A i \in 1..Len(calls) : calls[i].by = l <=> calls[i].ended = "no" /\ calls[i].by = l
  BY Settings DEF BreakerInv, CallsOk
<1>5. InFlight(calls') = {i \in InFlight(calls) : calls[i].by # l}
  BY <1>2, <1>3, <1>4 DEF InFlight
<1>6. CallsOk'
  <2>1. \A i \in 1..Len(calls) :
          /\ calls'[i].at <= clock
          /\ IF calls'[i].ended = "no"
             THEN calls'[i].by \in Learner /\ parse'[calls'[i].by].pc = "await"
             ELSE calls'[i].by = None
    BY <1>2 DEF BreakerInv, CallsOk
  <2>2. \A i, j \in InFlight(calls') : calls'[i].by = calls'[j].by => i = j
    <3>1. \A i \in InFlight(calls') : i \in InFlight(calls) /\ calls'[i] = calls[i]
      BY <1>2, <1>5 DEF InFlight
    <3> QED
      BY <3>1 DEF BreakerInv, CallsOk
  <2> QED
    BY <1>3, <2>1, <2>2 DEF CallsOk
<1>7. Counted(calls', clock) \subseteq Counted(calls, clock)
  <2>1. \A i \in 1..Len(calls) : calls'[i].ended # "raised" => calls[i].ended # "raised"
    BY <1>2, <1>4
  <2> QED
    BY <1>2, <1>3, <2>1 DEF Counted
<1>8. ASSUME NEW x \in Int
      PROVE  \E i :
                 FailedSince(calls', x) = FailedSince(calls, x)
                 \/ /\ how = "failed" /\ i \in 1..Len(calls) /\ calls[i].at > x
                    /\ i \notin FailedSince(calls, x)
                    /\ FailedSince(calls', x) = FailedSince(calls, x) \cup {i}
  <2>1. CASE \A i \in 1..Len(calls) : calls[i].by # l
    BY <1>2, <1>3, <2>1 DEF FailedSince
  <2>2. ASSUME NEW k \in 1..Len(calls), calls[k].by = l
        PROVE  \/ FailedSince(calls', x) = FailedSince(calls, x)
               \/ /\ how = "failed" /\ calls[k].at > x
                  /\ k \notin FailedSince(calls, x)
                  /\ FailedSince(calls', x) = FailedSince(calls, x) \cup {k}
    <3>1. \A i \in 1..Len(calls) : i # k => calls'[i] = calls[i]
      BY <1>2, <1>4, <2>2 DEF BreakerInv, CallsOk, InFlight
    <3>2. calls[k].ended = "no" /\ calls'[k].ended = how /\ calls'[k].at = calls[k].at
      BY <1>2, <1>4, <2>2
    <3>3. k \notin FailedSince(calls, x)
      BY <3>2 DEF FailedSince
    <3>4. CASE how = "failed" /\ calls[k].at > x
      BY <1>3, <3>1, <3>2, <3>3, <3>4 DEF FailedSince
    <3>5. CASE how = "raised" \/ ~(calls[k].at > x)
      BY <1>3, <3>1, <3>2, <3>3, <3>5 DEF FailedSince
    <3> QED
      BY <3>3, <3>4, <3>5
  <2> QED
    BY <2>1, <2>2
<1> QED
  BY <1>2, <1>3, <1>6, <1>7, <1>8

LEMMA EndShields ==
    ASSUME Covering, BreakerInv, clock' = clock, calls' \in Seq(Call),
           Counted(calls', clock) \subseteq Counted(calls, clock)
    PROVE  BreakerShields'
<1>1. Cardinality(Counted(calls, clock)) < FailureThreshold + Cardinality(Learner)
  BY ShieldsMeans DEF BreakerInv
<1>2. calls \in Seq(Call)
  BY DEF BreakerInv, CallsOk
<1>3. Cardinality(Counted(calls', clock)) < FailureThreshold + Cardinality(Learner)
  BY <1>1, <1>2, Fewer
<1> QED
  BY <1>3 DEF BreakerShields, Counted

LEMMA SuggestFailsOk ==
    ASSUME Covering, BreakerInv, LearningInv, NEW l \in Learner, SuggestFails(l)
    PROVE  BreakerInv'
<1> DEFINE f == breaker.failures
           a == Append(f, clock)
           r == Recent(a, FailureWindow, clock)
<1>1. /\ End(l, "failed") /\ clock' = clock
      /\ breaker' = [failures |-> r,
                     opened_at |-> IF Len(r) >= FailureThreshold THEN clock
                                   ELSE breaker.opened_at]
      /\ \A m \in Learner : m # l => parse'[m] = parse[m]
  BY DEF SuggestFails, Return, Step, Failed, LearningInv
<1>2. /\ f \in Seq(Nat) /\ Sorted(f) /\ \A i \in 1..Len(f) : f[i] <= clock
      /\ clock \in Nat
  BY DEF BreakerInv, FailuresOk, LearningInv
<1>3. /\ CallsOk' /\ Len(calls') = Len(calls)
      /\ \A i \in 1..Len(calls) : calls'[i].at = calls[i].at
      /\ Counted(calls', clock) \subseteq Counted(calls, clock)
      /\ \A x \in Int : \E i :
            FailedSince(calls', x) = FailedSince(calls, x)
            \/ /\ i \in 1..Len(calls) /\ calls[i].at > x
               /\ i \notin FailedSince(calls, x)
               /\ FailedSince(calls', x) = FailedSince(calls, x) \cup {i}
  BY <1>1, EndOk
<1>4. /\ a \in Seq(Nat) /\ Sorted(a) /\ a[Len(a)] = clock
      /\ \A i \in 1..Len(a) : a[i] <= clock
  BY <1>2, SortedAppend
<1>5. a # <<>>
  <2>1. Len(a) = Len(f) + 1 /\ Len(f) \in Nat
    BY <1>2
  <2>2. Len(a) # 0
    BY <2>1
  <2> HIDE DEF a
  <2> QED
    BY <2>2
<1> HIDE DEF a
<1>6. /\ r \in Seq(Nat) /\ Sorted(r) /\ \A i \in 1..Len(r) : r[i] <= clock
      /\ \A x \in Int, n \in Nat :
            x >= clock - FailureWindow /\ Backed(a, x, n) => Backed(r, x, n)
  BY <1>2, <1>4, <1>5, RecentOk, Settings
<1> HIDE DEF r
<1>7. FailuresOk(breaker.failures)'
  BY <1>1, <1>6 DEF FailuresOk
<1>8. /\ calls \in Seq(Call) /\ Len(calls) \in Nat
      /\ \A i \in 1..Len(calls) : calls[i].at \in Nat /\ calls[i].at <= clock
  BY CallTypes DEF BreakerInv, CallsOk
<1>9. OpenOk'
  <2>1. CASE Len(r) >= FailureThreshold
    <3>1. breaker'.opened_at = clock /\ clock # None /\ clock \in 0..clock
      BY <1>1, <1>2, <2>1, Settings
    <3>2. \A i \in 1..Len(calls') : calls'[i].at <= clock
      BY <1>3, <1>8
    <3> QED
      BY <1>1, <3>1, <3>2 DEF OpenOk
  <2>2. CASE Len(r) < FailureThreshold /\ breaker.opened_at # None
    <3>1. breaker'.opened_at = breaker.opened_at
      BY <1>1, <1>6, <2>2, Settings
    <3>2. /\ breaker.opened_at \in 0..clock
          /\ \A i \in 1..Len(calls) : calls[i].at <= breaker.opened_at
      BY <2>2 DEF BreakerInv, OpenOk
    <3>3. \A i \in 1..Len(calls') : calls'[i].at <= breaker.opened_at
      BY <1>3, <3>2
    <3> QED
      BY <1>1, <2>2, <3>1, <3>2, <3>3 DEF OpenOk
  <2>3. CASE Len(r) < FailureThreshold /\ breaker.opened_at = None
    <3>1. breaker'.opened_at = None /\ breaker'.failures = r
      BY <1>1, <1>6, <2>3, Settings
    <3>2. ASSUME NEW x \in Int, x >= clock - OpenFor
          PROVE  Backed(r, x, Cardinality(FailedSince(calls', x)))
      <4> DEFINE F == FailedSince(calls, x)
                 G == FailedSince(calls', x)
                 n == Cardinality(F)
                 m == Cardinality(G)
      <4>1. F \subseteq 1..Len(calls) /\ IsFiniteSet(F) /\ n \in Nat
        BY <1>8, Indices DEF FailedSince
      <4>2. Backed(f, x, n)
        BY <2>3, <3>2 DEF BreakerInv, OpenOk
      <4>3. PICK i : \/ G = F
                     \/ /\ i \in 1..Len(calls) /\ calls[i].at > x
                        /\ i \notin F /\ G = F \cup {i}
        BY <1>3
      <4> HIDE DEF F, G
      <4>4. m \in Nat /\ (m = n \/ (m = n + 1 /\ clock > x))
        <5>1. CASE G = F
          BY <4>1, <5>1
        <5>2. CASE i \in 1..Len(calls) /\ calls[i].at > x /\ i \notin F /\ G = F \cup {i}
          <6>1. clock > x
            BY <1>2, <1>8, <5>2
          <6>2. m = n + 1
            BY <4>1, <5>2, FS_AddElement
          <6> QED
            BY <4>1, <6>1, <6>2
        <5> QED
          BY <4>3, <5>1, <5>2
      <4> HIDE DEF n, m
      <4>5. Backed(a, x, m)
        BY <1>2, <3>2, <4>1, <4>2, <4>4, BackedAppend DEF n, a
      <4>6. x >= clock - FailureWindow
        BY <1>2, <3>2, Settings DEF Covering
      <4> QED
        BY <1>6, <4>4, <4>5, <4>6 DEF m, G
    <3> QED
      BY <1>1, <2>3, <3>1, <3>2 DEF OpenOk
  <2> QED
    BY <1>6, <2>1, <2>2, <2>3, Settings
<1>10. BreakerShields'
  BY <1>1, <1>3, EndShields DEF CallsOk
<1> QED
  BY <1>3, <1>7, <1>9, <1>10 DEF BreakerInv

LEMMA SuggestRaisesOk ==
    ASSUME Covering, BreakerInv, LearningInv, NEW l \in Learner, SuggestRaises(l)
    PROVE  BreakerInv'
<1>1. /\ End(l, "raised") /\ clock' = clock /\ breaker' = breaker
      /\ \A m \in Learner : m # l => parse'[m] = parse[m]
  BY DEF SuggestRaises, Return, Step, LearningInv
<1>2. /\ CallsOk' /\ Len(calls') = Len(calls)
      /\ \A i \in 1..Len(calls) : calls'[i].at = calls[i].at
      /\ Counted(calls', clock) \subseteq Counted(calls, clock)
      /\ \A x \in Int : FailedSince(calls', x) = FailedSince(calls, x)
  BY <1>1, EndOk
<1>3. OpenOk'
  BY <1>1, <1>2 DEF BreakerInv, OpenOk
<1>4. FailuresOk(breaker.failures)'
  BY <1>1 DEF BreakerInv, FailuresOk
<1>5. BreakerShields'
  BY <1>1, <1>2, EndShields DEF CallsOk
<1> QED
  BY <1>2, <1>3, <1>4, <1>5 DEF BreakerInv

LEMMA SuggestReturnsOk ==
    ASSUME Covering, LearningInv, NEW l \in Learner, NEW r \in Regex,
           SuggestReturns(l, r)
    PROVE  BreakerInv'
<1>1. /\ calls' = <<>> /\ breaker'.failures = <<>> /\ breaker'.opened_at = None
      /\ Len(calls') = 0 /\ clock' = clock /\ clock \in Nat
  BY DEF SuggestReturns, Closed, LearningInv
<1>2. CallsOk' /\ FailuresOk(breaker.failures)'
  BY <1>1 DEF CallsOk, FailuresOk, Sorted, InFlight
<1>3. \A x \in Int : FailedSince(calls', x) = {}
  BY <1>1 DEF FailedSince
<1>4. OpenOk'
  <2>1. \A x \in Int : Backed(<<>>, x, Cardinality(FailedSince(calls', x)))
    <3>1. Cardinality({}) = 0
      BY FS_EmptySet
    <3>2. \A x \in Int : Backed(<<>>, x, 0)
      BY DEF Backed
    <3> QED
      BY <1>3, <3>1, <3>2
  <2>2. Len(<<>>) < FailureThreshold
    BY Settings
  <2> QED
    BY <1>1, <2>1, <2>2 DEF OpenOk
<1>5. Counted(calls', clock) = {}
  BY <1>1 DEF Counted
<1>6. BreakerShields'
  <2>1. Cardinality(Counted(calls', clock)) < FailureThreshold + Cardinality(Learner)
    BY <1>5, FS_EmptySet, FS_CardinalityType, Settings DEF Covering
  <2> QED
    BY <1>1, <2>1 DEF BreakerShields, Counted
<1> QED
  BY <1>2, <1>4, <1>6 DEF BreakerInv

(* A parse at another point than the suggester does not disturb it.        *)
LEMMA ElsewhereOk ==
    ASSUME LearningInv, NEW l \in Learner, NEW p, parse[l].pc # "await", Step(l, p),
           NEW m \in Learner, parse[m].pc = "await"
    PROVE  parse'[m].pc = "await"
BY DEF LearningInv, Step

LEMMA BreakerStep ==
    ASSUME Covering, LearningInv, BreakerInv, [Next]_vars
    PROVE  BreakerInv'
<1>0. clock \in Nat /\ DOMAIN parse = Learner
  BY DEF LearningInv
<1>1. CASE UNCHANGED vars
  BY <1>0, <1>1, BesideBreaker DEF vars
<1>2. CASE Tick
  BY <1>0, <1>2, BesideBreaker DEF Tick, safety
<1>3. ASSUME NEW d \in Domain, NEW f \in Format, Drift(d, f) PROVE BreakerInv'
  BY <1>0, <1>3, BesideBreaker DEF Drift, safety
<1>4. ASSUME NEW l \in Learner, NEW d \in Domain, StartParse(l, d) PROVE BreakerInv'
  <2>1. /\ UNCHANGED <<breaker, calls>> /\ clock' = clock /\ parse[l].pc # "await"
        /\ \E p : Step(l, p)
    BY <1>4 DEF StartParse, safety
  <2> QED
    BY <1>0, <2>1, ElsewhereOk, BesideBreaker
<1>5. ASSUME NEW l \in Learner,
             \/ TryLearned(l) \/ AcquireHost(l) \/ AcquireTld(l)
             \/ ValidateCandidate(l) \/ AddRule(l)
             \/ \E answer \in Answers : CrossCheckCandidate(l, answer)
      PROVE  BreakerInv'
  <2>1. /\ UNCHANGED <<breaker, calls>> /\ clock' = clock /\ parse[l].pc # "await"
        /\ \E p : Step(l, p)
    BY <1>5 DEF TryLearned, AcquireHost, AcquireTld, Acquire, ValidateCandidate, AddRule,
       CrossCheckCandidate, Settle, Return, safety
  <2> QED
    BY <1>0, <2>1, ElsewhereOk, BesideBreaker
<1>6. ASSUME NEW l \in Learner, CallSuggester(l) PROVE BreakerInv'
  <2>1. CASE ~IsOpen(breaker, OpenFor, clock)
    BY <1>6, <2>1, CallSuggesterOk
  <2>2. CASE IsOpen(breaker, OpenFor, clock)
    <3>1. /\ UNCHANGED <<breaker, calls>> /\ clock' = clock /\ parse[l].pc # "await"
          /\ \E p : Step(l, p)
      BY <1>6, <2>2 DEF CallSuggester, Asked, Return
    <3> QED
      BY <1>0, <3>1, ElsewhereOk, BesideBreaker
  <2> QED
    BY <2>1, <2>2
<1>7. ASSUME \/ StartPass
             \/ \E i \in DOMAIN reval.todo : \/ JudgeRule(i)
                                            \/ \E ok \in BOOLEAN : FetchSample(i, ok)
                                            \/ \E a \in Answers : CrossCheckRule(i, a)
             \/ \E i \in 1..Len(rules) : OperatorDisable(i) \/ OperatorRevalidate(i)
      PROVE  BreakerInv'
  <2>1. UNCHANGED <<breaker, calls>> /\ clock' = clock /\ parse' = parse
    BY <1>7 DEF StartPass, JudgeRule, FetchSample, CrossCheckRule, OperatorDisable,
       OperatorRevalidate, safety
  <2> QED
    BY <1>0, <2>1, BesideBreaker
<1>8. ASSUME NEW l \in Learner, ParseStep(l) PROVE BreakerInv'
  <2>1. CASE SuggestFails(l)
    BY <2>1, SuggestFailsOk
  <2>2. CASE SuggestRaises(l)
    BY <2>2, SuggestRaisesOk
  <2>3. CASE \E r \in Regex : SuggestReturns(l, r)
    BY <2>3, SuggestReturnsOk
  <2> QED
    BY <1>5, <1>6, <1>8, <2>1, <2>2, <2>3 DEF ParseStep
<1> QED
  BY <1>1, <1>2, <1>3, <1>4, <1>7, <1>8 DEF Next

(* Whatever calls are in flight when it opens, and although half-open      *)
(* forgets the failures: between two answers of the suggester, fewer than  *)
(* FailureThreshold calls and one for every parse begin within a period as *)
(* long as the breaker stays open.                                         *)
THEOREM SuggesterShielded ==
    ASSUME Covering
    PROVE  Spec => []BreakerShields
<1>1. Init => BreakerInv
  BY BreakerInit
<1>2. LearningInv /\ BreakerInv /\ [Next]_vars => BreakerInv'
  BY BreakerStep
<1>3. BreakerInv => BreakerShields
  BY DEF BreakerInv
<1> QED
  BY <1>1, <1>2, <1>3, InvAlways, PTL DEF Spec
============================================================================
