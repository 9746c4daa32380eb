--------------------------- MODULE CircuitBreaker ---------------------------
(***************************************************************************)
(* The circuit breaker of core/retry.py as a value: GPTClient and            *)
(* BingXAdapter each keep one and consult it before every attempt of their   *)
(* retry loop.  elapsed says that reset_timeout_seconds have passed since    *)
(* _opened_at; the module that keeps the breaker lets that time pass.        *)
(***************************************************************************)
LOCAL INSTANCE Naturals

CONSTANT FailureThreshold    \* failure_threshold

ASSUME ThresholdPositive == FailureThreshold \in Nat \ {0}

BreakerStates == {"CLOSED", "OPEN", "HALF_OPEN"}
Breaker == [state : BreakerStates, failures : Nat, elapsed : BOOLEAN]

Closed == [state |-> "CLOSED", failures |-> 0, elapsed |-> FALSE]

\* Fault: the clock is not looked at.
RefusesForever(b) == b.state = "OPEN"

(* before_call raises CircuitBreakerOpenError.                               *)
Refuses(b) == b.state = "OPEN" /\ ~b.elapsed

(* before_call lets the attempt through.                                     *)
before_call(b) == IF b.state = "OPEN" THEN [b EXCEPT !.state = "HALF_OPEN"] ELSE b

on_success(b) == Closed

\* Fault: _opened_at stays that of the first opening.
failure_keeps_clock(b) ==
    LET n == IF b.failures > FailureThreshold THEN b.failures ELSE b.failures + 1
    IN  IF b.state = "HALF_OPEN" \/ n >= FailureThreshold
        THEN [b EXCEPT !.state = "OPEN", !.failures = n]
        ELSE [b EXCEPT !.failures = n]

(* Every exception is counted.  _consecutive_failures is capped one above    *)
(* the threshold: past it, no comparison tells its values apart.             *)
on_failure(b) ==
    LET n == IF b.failures > FailureThreshold THEN b.failures ELSE b.failures + 1
    IN  IF b.state = "HALF_OPEN" \/ n >= FailureThreshold
        THEN [state |-> "OPEN", failures |-> n, elapsed |-> FALSE]
        ELSE [b EXCEPT !.failures = n]

\* Fault: max_attempts does not include the first.
GivesUpLate(attempt, maxAttempts, retryable) == ~retryable \/ attempt > maxAttempts

(* The last attempt of the loop, or an error that is not retried.            *)
GivesUp(attempt, maxAttempts, retryable) == ~retryable \/ attempt = maxAttempts
=============================================================================
