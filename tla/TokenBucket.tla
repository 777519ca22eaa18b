---------------------------- MODULE TokenBucket ----------------------------
(***************************************************************************)
(* internal/reliability/rate_limiter.go: the token bucket behind Wait and  *)
(* Allow.  A bucket is refilled lazily, by the time elapsed since the last *)
(* refill, inside whichever method runs next; Wait takes the lock once to  *)
(* try and once to compute a delay, and sleeps in between, so other        *)
(* callers, SetRate and Reset get in.                                      *)
(*                                                                         *)
(* Tokens are counted in units: a token is TokenUnits of them, a rate is   *)
(* units per tick.  Durations are whole ticks, truncated as time.Duration  *)
(* truncates.                                                              *)
(***************************************************************************)
EXTENDS Integers, FiniteSets

CONSTANTS
    Callers,     \* goroutines that call Wait, once each
    TokenUnits,  \* one token
    Limits,      \* values NewRateLimiter and SetRate give [rate, burst]
    Strategy,    \* config.BackoffStrategy
    MaxElapsed,  \* bound: ticks after which the slowest rate has filled any bucket
    MaxPolls     \* bound: calls of Allow by others

ASSUME TokenUnitsAssumption == TokenUnits \in Nat \ {0}

\* A burst of 0 is a limit NewRateLimiter produces: int(RequestsPerSecond) of a
\* rate below one.  A rate of 0 is not: NewRateLimiter replaces it.
ASSUME LimitsAssumption ==
    /\ Limits # {} /\ IsFiniteSet(Limits)
    /\ \A l \in Limits : l \in [rate : Nat \ {0}, burst : Nat]
    /\ \A l, m \in Limits : l.rate * MaxElapsed >= m.burst * TokenUnits

ASSUME BoundsAssumption ==
    /\ Strategy \in {"block", "reject", "adaptive"}
    /\ MaxElapsed \in Nat
    /\ MaxPolls \in Nat

VARIABLES
    tokens,     \* as of lastRefill
    elapsed,    \* now - lastRefill
    limit,      \* refillRate and maxTokens
    pc,         \* where each caller is in Wait
    timer,      \* what is left of each caller's delay
    cancelled,  \* callers whose context is done
    polls

bucket == <<tokens, elapsed, limit>>
vars   == <<tokens, elapsed, limit, pc, timer, cancelled, polls>>

Lesser(a, b) == IF a < b THEN a ELSE b
Capacity     == limit.burst * TokenUnits
Waiting      == {"try", "reserve", "sleep"}
Finished     == {"granted", "rejected", "ctxErr"}

TypeOK ==
    /\ limit \in Limits
    /\ tokens \in 0 .. Capacity
    /\ elapsed \in 0 .. MaxElapsed
    /\ pc \in [Callers -> {"idle"} \cup Waiting \cup Finished]
    /\ timer \in [Callers -> 0 .. TokenUnits]
    /\ cancelled \subseteq Callers
    /\ polls \in 0 .. MaxPolls

-----------------------------------------------------------------------------
\* Mutant: the refill adds whole tokens only.
RefilledInWholeTokens ==
    Lesser(tokens + ((limit.rate * elapsed) \div TokenUnits) * TokenUnits, Capacity)

\* refillTokens, which also sets lastRefill to now.
Refilled == Lesser(tokens + limit.rate * elapsed, Capacity)

DelayForToken == (TokenUnits - Refilled) \div limit.rate

Init ==
    /\ limit \in Limits
    /\ tokens = Capacity
    /\ elapsed = 0
    /\ pc = [p \in Callers |-> "idle"]
    /\ timer = [p \in Callers |-> 0]
    /\ cancelled = {}
    /\ polls = 0

Tick ==
    /\ elapsed' = Lesser(elapsed + 1, MaxElapsed)
    /\ timer' = [p \in Callers |-> IF timer[p] > 0 THEN timer[p] - 1 ELSE 0]
    /\ UNCHANGED <<tokens, limit, pc, cancelled, polls>>

\* A caller's context is cancelled or times out, at any moment.
Cancel(p) ==
    /\ cancelled' = cancelled \cup {p}
    /\ UNCHANGED <<bucket, pc, timer, polls>>

Wait(p) ==
    /\ pc[p] = "idle"
    /\ pc' = [pc EXCEPT ![p] = "try"]
    /\ UNCHANGED <<bucket, timer, cancelled, polls>>

\* Mutant: lastRefill is not moved by a request that is refused.
TryAllowKeepingElapsed(p) ==
    /\ pc[p] = "try"
    /\ IF Refilled >= TokenUnits
       THEN /\ tokens' = Refilled - TokenUnits
            /\ elapsed' = 0
            /\ pc' = [pc EXCEPT ![p] = "granted"]
       ELSE /\ tokens' = Refilled
            /\ elapsed' = elapsed
            /\ pc' = [pc EXCEPT ![p] = "reserve"]
    /\ UNCHANGED <<limit, timer, cancelled, polls>>

\* Wait's loop: Allow.
TryAllow(p) ==
    /\ pc[p] = "try"
    /\ IF Refilled >= TokenUnits
       THEN /\ tokens' = Refilled - TokenUnits
            /\ pc' = [pc EXCEPT ![p] = "granted"]
       ELSE /\ tokens' = Refilled
            /\ pc' = [pc EXCEPT ![p] = "reserve"]
    /\ elapsed' = 0
    /\ UNCHANGED <<limit, timer, cancelled, polls>>

\* Wait's loop: Reserve, which reserves nothing, and the backoff strategy.
\* Adaptive is Block: calculateAdaptiveDelay halves the delay by the share of
\* requests in `waiting`, which no method increments.
Reserve(p) ==
    /\ pc[p] = "reserve"
    /\ tokens' = Refilled
    /\ elapsed' = 0
    /\ IF Refilled >= TokenUnits \/ DelayForToken = 0
       THEN pc' = [pc EXCEPT ![p] = "try"] /\ timer' = timer
       ELSE IF Strategy = "reject"
       THEN pc' = [pc EXCEPT ![p] = "rejected"] /\ timer' = timer
       ELSE /\ pc' = [pc EXCEPT ![p] = "sleep"]
            /\ timer' = [timer EXCEPT ![p] = DelayForToken]
    /\ UNCHANGED <<limit, cancelled, polls>>

\* Wait's select, case <-timer.C, and OnRateLimited.
Wake(p) ==
    /\ pc[p] = "sleep" /\ timer[p] = 0
    /\ pc' = [pc EXCEPT ![p] = "try"]
    /\ UNCHANGED <<bucket, timer, cancelled, polls>>

\* Mutant: Block sleeps without looking at the context.
AbortAdaptiveOnly(p) ==
    /\ pc[p] = "sleep" /\ p \in cancelled /\ Strategy = "adaptive"
    /\ pc' = [pc EXCEPT ![p] = "ctxErr"]
    /\ timer' = [timer EXCEPT ![p] = 0]
    /\ UNCHANGED <<bucket, cancelled, polls>>

\* Wait's select, case <-ctx.Done().
Abort(p) ==
    /\ pc[p] = "sleep" /\ p \in cancelled
    /\ pc' = [pc EXCEPT ![p] = "ctxErr"]
    /\ timer' = [timer EXCEPT ![p] = 0]
    /\ UNCHANGED <<bucket, cancelled, polls>>

\* Allow called by somebody else.
Allow ==
    /\ polls < MaxPolls
    /\ polls' = polls + 1
    /\ tokens' = IF Refilled >= TokenUnits THEN Refilled - TokenUnits ELSE Refilled
    /\ elapsed' = 0
    /\ UNCHANGED <<limit, pc, timer, cancelled>>

\* Elapsed time is not refilled first: it will be credited at the new rate.
SetRate ==
    /\ limit' \in Limits
    /\ tokens' = Lesser(tokens, limit'.burst * TokenUnits)
    /\ UNCHANGED <<elapsed, pc, timer, cancelled, polls>>

Stats ==
    /\ tokens' = Refilled
    /\ elapsed' = 0
    /\ UNCHANGED <<limit, pc, timer, cancelled, polls>>

Reset ==
    /\ tokens' = Capacity
    /\ elapsed' = 0
    /\ UNCHANGED <<limit, pc, timer, cancelled, polls>>

Next ==
    \/ Tick
    \/ \E p \in Callers : \/ Cancel(p) \/ Wait(p) \/ TryAllow(p)
                          \/ Reserve(p) \/ Wake(p) \/ Abort(p)
    \/ Allow
    \/ SetRate
    \/ Stats
    \/ Reset

Spec == Init /\ [][Next]_vars

\* Time passes and every goroutine runs.  Go's select picks among the ready
\* cases at random, so a context that stays done is not passed over for ever.
Fairness ==
    /\ WF_vars(Tick)
    /\ \A p \in Callers :
         /\ WF_vars(TryAllow(p))
         /\ WF_vars(Reserve(p))
         /\ WF_vars(Wake(p))
         /\ SF_vars(Abort(p))

FairSpec == Spec /\ Fairness

-----------------------------------------------------------------------------
(* Properties *)

RateSettles(L) == \E l \in L : <>[](limit = l)

\* Once SetRate has settled on a limit that admits anybody, every Wait returns,
\* although a sleeper owns nothing and others may take the token it slept for.
WaitReturns ==
    RateSettles({l \in Limits : l.burst > 0}) =>
        \A p \in Callers : pc[p] \in Waiting ~> pc[p] \in Finished

\* A Wait whose context is done returns even when no token will ever come
\* (burst 0): the wait is no longer than its caller's patience.
CancelledWaitReturns ==
    RateSettles(Limits) =>
        \A p \in Callers :
            pc[p] \in Waiting /\ p \in cancelled ~> pc[p] \in Finished
=============================================================================
