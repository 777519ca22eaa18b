---------------------------- MODULE Reliability ----------------------------
(***************************************************************************)
(* internal/reliability: ExecuteWithReliability, the three patterns        *)
(* together.  Each caller runs Retry's loop; every attempt first waits for *)
(* the rate limiter, then passes the circuit breaker, then calls fn.  The  *)
(* limiter and the breaker are shared and are the components TokenBucket   *)
(* and CircuitBreaker; this module owns Retry (retry.go) and the glue.     *)
(***************************************************************************)
EXTENDS Integers, FiniteSets

CONSTANTS
    Callers,
    \* the breaker's
    MaxRequests, Interval, Timeout, MinRequests, FailurePercent, MaxReaders,
    MaxGeneration, RequestCap,
    \* the limiter's
    TokenUnits, Limits, Strategy, MaxElapsed, MaxPolls,
    \* the retryer's: config.MaxRetries, and delays in ticks
    MaxRetries, InitialDelay, Multiplier, MaxDelay

\* What NewCircuitBreaker and NewRateLimiter make of their configurations, as in
\* CircuitBreaker and TokenBucket.
ASSUME BreakerAssumption ==
    /\ IsFiniteSet(Callers)
    /\ MaxRequests \in Nat \ {0} /\ Interval \in Nat \ {0} /\ Timeout \in Nat \ {0}
    /\ MinRequests \in Nat /\ FailurePercent \in Nat \ {0}
    /\ MaxReaders \in Nat \ {0} /\ MaxGeneration \in Nat /\ RequestCap \in Nat

ASSUME LimiterAssumption ==
    /\ TokenUnits \in Nat \ {0}
    /\ Limits # {} /\ \A l \in Limits : l \in [rate : Nat \ {0}, burst : Nat]
    /\ MaxElapsed \in Nat /\ MaxPolls \in Nat

ASSUME RetryAssumption ==
    /\ MaxRetries \in Nat
    /\ InitialDelay \in Nat \ {0}
    /\ Multiplier \in Nat \ {0}
    /\ MaxDelay \in Nat \ {0}

VARIABLES
    cb, callGen,
    tokens, elapsed, limit, pc, timer, cancelled, polls,
    phase,     \* where each caller is in Retry
    attempt,   \* Retry's attempt, from 0
    lastErr,   \* Retry's lastErr, by kind
    backoff    \* what is left of each caller's time.After(delay)

B == INSTANCE CircuitBreaker
L == INSTANCE TokenBucket

breaker == <<cb, callGen>>
limiter == <<tokens, elapsed, limit, pc, timer, cancelled, polls>>
retryer == <<phase, attempt, lastErr, backoff>>
vars    == <<breaker, limiter, retryer>>

\* What an attempt can end with: success, a failure worth retrying (5xx, 429,
\* network, unknown), a client or authentication error, the context's own
\* error, the breaker's rejection and the limiter's.
Errors == {"retryable", "permanent", "ctx", "open", "limited"}

\* Running phases, then the three ways Retry returns.
Phases == {"idle", "attempt", "limiter", "call", "decide", "backoff"}
Ended  == {"ok", "failed", "aborted"}

TypeOK ==
    /\ B!TypeOK
    /\ L!TypeOK
    /\ phase \in [Callers -> Phases \cup Ended]
    /\ attempt \in [Callers -> 0 .. MaxRetries]
    /\ lastErr \in [Callers -> Errors \cup {"none"}]
    /\ backoff \in [Callers -> 0 .. MaxDelay]
    /\ \A p \in Callers : phase[p] = "call" <=> callGen[p] # B!NoCall

-----------------------------------------------------------------------------
\* cloudflareRetryable: neither sentinel error is in its deny lists, so a
\* rejection by the breaker or the limiter is retried like a failure.
Retryable(e) == e \notin {"permanent", "ctx"}

\* calculateDelay: exponential, capped, then +-25% of jitter, capped again.
BackoffDelays(k) ==
    LET d == L!Lesser(InitialDelay * Multiplier ^ (k - 1), MaxDelay)
    IN  ((3 * d) \div 4) .. L!Lesser((5 * d) \div 4, MaxDelay)

Init ==
    /\ B!Init
    /\ L!Init
    /\ phase = [p \in Callers |-> "idle"]
    /\ attempt = [p \in Callers |-> 0]
    /\ lastErr = [p \in Callers |-> "none"]
    /\ backoff = [p \in Callers |-> 0]

\* One clock for all three.
Tick ==
    /\ B!Tick \/ (cb.remaining = B!Expired /\ UNCHANGED breaker)
    /\ L!Tick
    /\ backoff' = [p \in Callers |-> IF backoff[p] > 0 THEN backoff[p] - 1 ELSE 0]
    /\ UNCHANGED <<phase, attempt, lastErr>>

Cancel(p) ==
    /\ p \notin cancelled
    /\ L!Cancel(p)
    /\ UNCHANGED <<breaker, retryer>>

Begin(p) ==
    /\ phase[p] = "idle"
    /\ phase' = [phase EXCEPT ![p] = "attempt"]
    /\ UNCHANGED <<breaker, limiter, attempt, lastErr, backoff>>

\* The loop calls fn without looking at the context.
Attempt(p) ==
    /\ phase[p] = "attempt"
    /\ L!Wait(p)
    /\ phase' = [phase EXCEPT ![p] = "limiter"]
    /\ UNCHANGED <<breaker, attempt, lastErr, backoff>>

\* RateLimiter.Wait runs.
Limiter(p) ==
    /\ phase[p] = "limiter"
    /\ L!TryAllow(p) \/ L!Reserve(p) \/ L!Wake(p)
    /\ UNCHANGED <<breaker, retryer>>

LimiterAbort(p) ==
    /\ phase[p] = "limiter"
    /\ L!Abort(p)
    /\ UNCHANGED <<breaker, retryer>>

LeaveLimiter(p) ==
    /\ pc' = [pc EXCEPT ![p] = "idle"]
    /\ UNCHANGED <<tokens, elapsed, limit, timer, cancelled, polls>>

\* Wait returned an error.
Limited(p) ==
    /\ phase[p] = "limiter" /\ pc[p] \in {"rejected", "ctxErr"}
    /\ LeaveLimiter(p)
    /\ lastErr' = [lastErr EXCEPT ![p] = IF pc[p] = "rejected" THEN "limited" ELSE "ctx"]
    /\ phase' = [phase EXCEPT ![p] = "decide"]
    /\ UNCHANGED <<breaker, attempt, backoff>>

\* Mutant: the breaker's rejection is ignored.
AdmitIgnoringRejection(p) ==
    /\ phase[p] = "limiter" /\ pc[p] = "granted"
    /\ LeaveLimiter(p)
    /\ B!BeforeRequest(p) /\ B!WithinBounds
    /\ phase' = [phase EXCEPT ![p] = "call"]
    /\ UNCHANGED <<attempt, lastErr, backoff>>

\* Wait returned nil: CircuitBreaker.Execute, up to the call of fn.
Admit(p) ==
    /\ phase[p] = "limiter" /\ pc[p] = "granted"
    /\ LeaveLimiter(p)
    /\ B!BeforeRequest(p) /\ B!WithinBounds
    /\ IF callGen'[p] = B!NoCall
       THEN /\ phase' = [phase EXCEPT ![p] = "decide"]
            /\ lastErr' = [lastErr EXCEPT ![p] = "open"]
       ELSE /\ phase' = [phase EXCEPT ![p] = "call"]
            /\ UNCHANGED lastErr
    /\ UNCHANGED <<attempt, backoff>>

\* Mutant: only errors worth a retry are reported to the breaker.
ReturnRetryableOnly(p, e) ==
    /\ phase[p] = "call"
    /\ e = "ctx" => p \in cancelled
    /\ IF e = "none" \/ Retryable(e)
       THEN B!AfterRequest(p, e = "none") /\ B!WithinBounds
       ELSE /\ callGen' = [callGen EXCEPT ![p] = B!NoCall]
            /\ UNCHANGED cb
    /\ phase' = [phase EXCEPT ![p] = IF e = "none" THEN "ok" ELSE "decide"]
    /\ lastErr' = [lastErr EXCEPT ![p] = e]
    /\ UNCHANGED <<limiter, attempt, backoff>>

\* fn returned: Execute reports to the breaker, Retry returns on success.
Return(p, e) ==
    /\ phase[p] = "call"
    /\ e = "ctx" => p \in cancelled
    /\ B!AfterRequest(p, e = "none") /\ B!WithinBounds
    /\ phase' = [phase EXCEPT ![p] = IF e = "none" THEN "ok" ELSE "decide"]
    /\ lastErr' = [lastErr EXCEPT ![p] = e]
    /\ UNCHANGED <<limiter, attempt, backoff>>

\* Mutant: the context is not looked at before the next delay.
DecideIgnoringContext(p) ==
    /\ phase[p] = "decide"
    /\ IF ~Retryable(lastErr[p]) \/ attempt[p] >= MaxRetries
       THEN phase' = [phase EXCEPT ![p] = "failed"] /\ UNCHANGED backoff
       ELSE /\ phase' = [phase EXCEPT ![p] = "backoff"]
            /\ \E d \in BackoffDelays(attempt[p] + 1) :
                 backoff' = [backoff EXCEPT ![p] = d]
    /\ UNCHANGED <<breaker, limiter, attempt, lastErr>>

\* Retry after a failed attempt: give up, return the context's error, or sleep.
Decide(p) ==
    /\ phase[p] = "decide"
    /\ IF ~Retryable(lastErr[p]) \/ attempt[p] >= MaxRetries
       THEN phase' = [phase EXCEPT ![p] = "failed"] /\ UNCHANGED backoff
       ELSE IF p \in cancelled
       THEN phase' = [phase EXCEPT ![p] = "aborted"] /\ UNCHANGED backoff
       ELSE /\ phase' = [phase EXCEPT ![p] = "backoff"]
            /\ \E d \in BackoffDelays(attempt[p] + 1) :
                 backoff' = [backoff EXCEPT ![p] = d]
    /\ UNCHANGED <<breaker, limiter, attempt, lastErr>>

\* Retry's select, case <-time.After(delay), possible also when ctx is done.
BackoffEnds(p) ==
    /\ phase[p] = "backoff" /\ backoff[p] = 0
    /\ phase' = [phase EXCEPT ![p] = "attempt"]
    /\ attempt' = [attempt EXCEPT ![p] = @ + 1]
    /\ UNCHANGED <<breaker, limiter, lastErr, backoff>>

\* Retry's select, case <-ctx.Done().
BackoffAborts(p) ==
    /\ phase[p] = "backoff" /\ p \in cancelled
    /\ phase' = [phase EXCEPT ![p] = "aborted"]
    /\ backoff' = [backoff EXCEPT ![p] = 0]
    /\ UNCHANGED <<breaker, limiter, attempt, lastErr>>

Returns(p) == \E e \in {"none", "retryable", "permanent", "ctx"} : Return(p, e)

Next ==
    \/ Tick
    \/ \E p \in Callers :
         \/ Cancel(p) \/ Begin(p) \/ Attempt(p) \/ Limiter(p) \/ LimiterAbort(p)
         \/ Limited(p) \/ Admit(p) \/ Returns(p) \/ Decide(p)
         \/ BackoffEnds(p) \/ BackoffAborts(p)

Spec == Init /\ [][Next]_vars

\* Time passes, goroutines run, and fn returns: it has its caller's context.
Fairness ==
    /\ WF_vars(Tick)
    /\ \A p \in Callers :
         WF_vars(\/ Attempt(p) \/ Limiter(p) \/ Limited(p) \/ Admit(p)
                 \/ Returns(p) \/ Decide(p) \/ BackoffEnds(p))

FairSpec == Spec /\ Fairness

-----------------------------------------------------------------------------
(* Properties *)

\* The breaker is only used through its operations, whatever Retry does around
\* it: every behaviour of the whole is a behaviour of CircuitBreaker, and what
\* is proved of CircuitBreaker holds here.
UsesBreaker == B!Spec

\* An operation ends, however often the breaker or the limiter turn it away.
OperationEnds ==
    \A p \in Callers : phase[p] = "attempt" ~> phase[p] \in Ended

\* When Retry gives up it has made the attempts that its error speaks of
\* ("operation failed after %d attempts", with MaxRetries+1).
AttemptsAsReported ==
    \A p \in Callers : phase[p] = "failed" => attempt[p] + 1 = MaxRetries + 1
=============================================================================
