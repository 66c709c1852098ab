---------------------------- MODULE CircuitBreaker ----------------------------
(***************************************************************************)
(* The breaker of a market data provider (CircuitBreaker), and the         *)
(* requests that share it: the chunks of a batch go out concurrently, so a *)
(* request admitted in one state may end in another.                       *)
(*                                                                         *)
(* The cooldown is kept as the time still to run, so that nothing grows    *)
(* with the clock.                                                         *)
(***************************************************************************)
EXTENDS Naturals

CONSTANTS
    Requests,          \* requests that can be in flight at once
    FailureThreshold,  \* failure_threshold
    HalfOpenSuccesses, \* half_open_successes
    ResetTime,         \* reset_seconds
    MaxFailures        \* bound of the model: failures counted past the threshold

ASSUME BreakerAssumption ==
    /\ {FailureThreshold, HalfOpenSuccesses, ResetTime} \subseteq Nat \ {0}
    /\ MaxFailures \in Nat /\ MaxFailures >= FailureThreshold

VARIABLES
    breaker,   \* the breaker's fields
    at         \* where each request stands

breakerVars == <<breaker, at>>

Closed == [state |-> "closed", failures |-> 0, successes |-> 0, cooldown |-> 0]

BreakerInit ==
    /\ breaker = Closed
    /\ at = [r \in Requests |-> "idle"]

-----------------------------------------------------------------------------
(* The breaker's own methods.                                              *)

\* Mutant: every read of a breaker whose cooldown is over starts the probes anew.
ObservedAnew(b) ==
    IF b.state # "closed" /\ b.cooldown = 0
    THEN [b EXCEPT !.state = "half_open", !.successes = 0] ELSE b

\* state: reading it makes the OPEN -> HALF_OPEN transition.
Observed(b) ==
    IF b.state = "open" /\ b.cooldown = 0
    THEN [b EXCEPT !.state = "half_open", !.successes = 0] ELSE b

\* _open.
Opened(b) == [b EXCEPT !.state = "open", !.successes = 0, !.cooldown = ResetTime]

\* Mutant: a late answer clears the count and leaves the breaker open.
SucceededStaysOpen(b) ==
    IF b.state = "half_open"
    THEN IF b.successes + 1 >= HalfOpenSuccesses THEN Closed
         ELSE [b EXCEPT !.successes = @ + 1]
    ELSE [b EXCEPT !.failures = 0]

\* record_success, on a breaker just observed.
Succeeded(b) ==
    IF b.state = "half_open"
    THEN IF b.successes + 1 >= HalfOpenSuccesses THEN Closed
         ELSE [b EXCEPT !.successes = @ + 1]
    ELSE [b EXCEPT !.failures = 0, !.state = "closed"]

\* record_failure, on a breaker just observed.
Failed(b) ==
    LET more == IF b.failures < MaxFailures THEN b.failures + 1 ELSE b.failures IN
    IF b.state = "half_open" THEN Opened(b)
    ELSE IF more >= FailureThreshold THEN Opened([b EXCEPT !.failures = more])
    ELSE [b EXCEPT !.failures = more]

-----------------------------------------------------------------------------
(* fetch_many and _get_with_retry, and the health endpoint.                *)

\* ensure_closed passes, or raises and nothing is sent.
Send(r) ==
    LET b == Observed(breaker) IN
    /\ at[r] = "idle"
    /\ breaker' = b
    /\ at' = IF b.state = "open" THEN at ELSE [at EXCEPT ![r] = "sent"]

\* The answer, after the retries that are one call to the breaker.
Answer(r) ==
    /\ at[r] = "sent"
    /\ breaker' = Succeeded(Observed(breaker))
    /\ at' = [at EXCEPT ![r] = "idle"]

\* Every attempt failed, or a 4xx that will not improve.
Fail(r) ==
    /\ at[r] = "sent"
    /\ breaker' = Failed(Observed(breaker))
    /\ at' = [at EXCEPT ![r] = "idle"]

\* health, which the dashboard asks for, reads the state too.
Health ==
    /\ breaker' = Observed(breaker)
    /\ UNCHANGED at

BreakerElapse ==
    /\ breaker.cooldown > 0
    /\ breaker' = [breaker EXCEPT !.cooldown = @ - 1]
    /\ UNCHANGED at

BreakerNext ==
    \/ \E r \in Requests : Send(r) \/ Answer(r) \/ Fail(r)
    \/ Health \/ BreakerElapse

BreakerSpec == BreakerInit /\ [][BreakerNext]_breakerVars

\* Time passes, the worker keeps asking, and every call ends.
BreakerFairness ==
    /\ WF_breakerVars(BreakerElapse)
    /\ \A r \in Requests : WF_breakerVars(Send(r)) /\ WF_breakerVars(Answer(r) \/ Fail(r))

\* From some moment on the provider answers.
Recovered == <>[][\A r \in Requests : ~Fail(r)]_breakerVars

BreakerFairSpec == BreakerSpec /\ BreakerFairness /\ Recovered

-----------------------------------------------------------------------------
(* Correctness.                                                            *)

\* Every variable has its type.
BreakerTypeOK ==
    /\ breaker \in [state : {"closed", "open", "half_open"}, failures : 0..MaxFailures,
                    successes : Nat, cooldown : 0..ResetTime]
    /\ at \in [Requests -> {"idle", "sent"}]

\* Once the provider answers again the breaker closes for good, although no timer
\* moves it and every other reader of its state takes part in the transition.
ClosesAgain == <>[](breaker.state = "closed")

\* A breaker that is not closed has seen the threshold of failures in a row: what
\* a late answer leaves behind never lets it trip early.
TripsOnThreshold == breaker.state # "closed" => breaker.failures >= FailureThreshold
=============================================================================
