-------------------------- MODULE SuggesterSafety --------------------------
(***************************************************************************)
(* infrastructure/parsers/safety.py as operators on values: the token      *)
(* bucket of TokenBucketLimiter and PerTldLimiter, and the CircuitBreaker. *)
(* Time is an integer.  Tokens are counted in units of 1/window, so that   *)
(* the linear refill (elapsed / window * capacity) stays exact: a bucket   *)
(* holds capacity * window units and a grant costs window of them.         *)
(***************************************************************************)
EXTENDS Integers, Sequences

CONSTANT None

FullBucket(capacity, window, now) == [tokens |-> capacity * window, last |-> now]

(* Mutant: the refill is not capped at the capacity.                       *)
Refilled_NoCap(bucket, capacity, window, now) ==
    IF now > bucket.last
    THEN [tokens |-> bucket.tokens + (now - bucket.last) * capacity,
          last |-> now]
    ELSE bucket

(* The refill at the start of acquire; a clock set back refills nothing.   *)
Refilled(bucket, capacity, window, now) ==
    LET more == bucket.tokens + (now - bucket.last) * capacity
    IN IF now > bucket.last
       THEN [tokens |-> IF more > capacity * window
                        THEN capacity * window ELSE more,
             last |-> now]
       ELSE bucket

(* acquire: the bucket of a key is created full at its first use.          *)
Current(bucket, capacity, window, now) ==
    IF bucket = None THEN FullBucket(capacity, window, now)
    ELSE Refilled(bucket, capacity, window, now)

Grants(bucket, capacity, window, now) ==
    Current(bucket, capacity, window, now).tokens >= window

Acquired(bucket, capacity, window, now) ==
    LET b == Current(bucket, capacity, window, now)
    IN IF b.tokens >= window THEN [b EXCEPT !.tokens = @ - window] ELSE b

---------------------------------------------------------------------------
(* CircuitBreaker: the times of recent failures and the time it opened.    *)
Closed == [failures |-> <<>>, opened_at |-> None]

IsOpen(breaker, openFor, now) ==
    breaker.opened_at # None /\ now - breaker.opened_at < openFor

(* is_open forgets the failures once the open period is over (half-open).  *)
Asked(breaker, openFor, now) ==
    IF breaker.opened_at = None \/ IsOpen(breaker, openFor, now)
    THEN breaker ELSE Closed

(* Failures are dropped from the left while they are older than the        *)
(* window; the one just recorded is not.                                   *)
FirstRecent(failures, failureWindow, now) ==
    CHOOSE k \in 1..Len(failures) :
        /\ now - failures[k] <= failureWindow
        /\ \A j \in 1..(k - 1) : now - failures[j] > failureWindow

Recent(failures, failureWindow, now) ==
    SubSeq(failures, FirstRecent(failures, failureWindow, now), Len(failures))

(* Mutant: one failure more is needed to open.                             *)
Failed_OffByOne(breaker, threshold, failureWindow, now) ==
    LET recent == Recent(Append(breaker.failures, now), failureWindow, now)
    IN [failures |-> recent,
        opened_at |-> IF Len(recent) > threshold THEN now
                      ELSE breaker.opened_at]

(* record_failure opens, or stays open longer, at the threshold.           *)
Failed(breaker, threshold, failureWindow, now) ==
    LET recent == Recent(Append(breaker.failures, now), failureWindow, now)
    IN [failures |-> recent,
        opened_at |-> IF Len(recent) >= threshold THEN now
                      ELSE breaker.opened_at]
============================================================================
