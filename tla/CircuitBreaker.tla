--------------------------- MODULE CircuitBreaker ---------------------------
(***************************************************************************)
(* internal/reliability/circuit_breaker.go: one breaker shared by many     *)
(* goroutines.  A caller is admitted by beforeRequest, runs its function   *)
(* outside the lock, and reports through afterRequest: the steps of other  *)
(* callers, the clock, Reset and State() interleave between the two.       *)
(*                                                                         *)
(* Each critical section of mu is one action.  `cb` is the mutable part of *)
(* the CircuitBreaker struct; its `remaining` is expiry - now in clock     *)
(* ticks, kept at Expired once expiry is strictly before now, because      *)
(* expiry.Before(now) is all the code asks of it.  callGen[p] is the       *)
(* generation that Execute holds on p's stack while p's function runs.     *)
(***************************************************************************)
EXTENDS Integers, FiniteSets

CONSTANTS
    Callers,            \* goroutines that share the breaker
    MaxRequests,        \* config.MaxRequests: probes admitted when half-open
    Interval,           \* config.Interval, in ticks
    Timeout,            \* config.Timeout, in ticks
    MinRequests,        \* ReadyToTrip: least number of requests (5 in the code)
    FailurePercent,     \* ReadyToTrip: least failure rate (60 in the code)
    MaxReaders,         \* bound: State() callers that can race with each other
    MaxGeneration,      \* bound: generations the breaker goes through
    RequestCap          \* bound: requests admitted in one closed interval

ASSUME CallersAssumption == IsFiniteSet(Callers)

\* NewCircuitBreaker replaces a zero MaxRequests, Interval or Timeout.
ASSUME ConfigAssumption ==
    /\ MaxRequests \in Nat \ {0}
    /\ Interval \in Nat \ {0}
    /\ Timeout \in Nat \ {0}
    /\ MinRequests \in Nat
    /\ FailurePercent \in Nat \ {0}

ASSUME BoundsAssumption ==
    /\ MaxReaders \in Nat \ {0}
    /\ MaxGeneration \in Nat
    /\ RequestCap \in Nat

VARIABLES
    cb,       \* the breaker
    callGen   \* the generation each running call was admitted in

vars == <<cb, callGen>>

States  == {"closed", "open", "half-open"}
NoCall  == -1
Expired == -1

Counts == [requests : Nat, totalSuccesses : Nat, totalFailures : Nat,
           consecutiveSuccesses : Nat, consecutiveFailures : Nat]

Breaker == [state : States, generation : Nat, counts : Counts,
            remaining : Nat \cup {Expired}]

\* generation only grows: no call holds one the breaker has not reached.
TypeOK ==
    /\ cb \in Breaker
    /\ callGen \in [Callers -> (0 .. cb.generation) \cup {NoCall}]

-----------------------------------------------------------------------------
(* Counts *)

ZeroCounts == [requests |-> 0, totalSuccesses |-> 0, totalFailures |-> 0,
               consecutiveSuccesses |-> 0, consecutiveFailures |-> 0]

OnRequest(c) == [c EXCEPT !.requests = @ + 1]

CountSuccess(c) ==
    [requests             |-> c.requests,
     totalSuccesses       |-> c.totalSuccesses + 1,
     totalFailures        |-> c.totalFailures,
     consecutiveSuccesses |-> c.consecutiveSuccesses + 1,
     consecutiveFailures  |-> 0]

CountFailure(c) ==
    [requests             |-> c.requests,
     totalSuccesses       |-> c.totalSuccesses,
     totalFailures        |-> c.totalFailures + 1,
     consecutiveSuccesses |-> 0,
     consecutiveFailures  |-> c.consecutiveFailures + 1]

ReadyToTrip(c) == /\ c.requests >= MinRequests
                  /\ c.requests > 0    \* FailureRate is 0 without requests
                  /\ 100 * c.totalFailures >= FailurePercent * c.requests

-----------------------------------------------------------------------------
(* The unexported methods, as functions of the breaker *)

ExpiryOf(s) == CASE s = "closed" -> Interval
                 [] s = "open"   -> Timeout
                 [] OTHER        -> Expired     \* time.Time{}

ToNewGeneration(b) ==
    [state      |-> b.state,
     generation |-> b.generation + 1,
     counts     |-> ZeroCounts,
     remaining  |-> ExpiryOf(b.state)]

\* Mutant: the state changes but the generation does not.
SetStateSameGeneration(b, s) ==
    IF b.state = s THEN b ELSE [b EXCEPT !.state = s, !.remaining = ExpiryOf(s)]

SetState(b, s) ==
    IF b.state = s THEN b ELSE ToNewGeneration([b EXCEPT !.state = s])

\* Mutants: expiry compared with >=; an open breaker that never expires.
CurrentStateEarly(b) ==
    CASE b.state = "closed" /\ b.remaining <= 0 -> ToNewGeneration(b)
      [] b.state = "open"   /\ b.remaining <= 0 -> SetState(b, "half-open")
      [] OTHER -> b
CurrentStateClosedOnly(b) ==
    IF b.state = "closed" /\ b.remaining = Expired THEN ToNewGeneration(b) ELSE b

CurrentState(b) ==
    CASE b.state = "closed" /\ b.remaining = Expired -> ToNewGeneration(b)
      [] b.state = "open"   /\ b.remaining = Expired -> SetState(b, "half-open")
      [] OTHER -> b

\* Mutant: off by one.
RejectsLate(b) ==
    \/ b.state = "open"
    \/ b.state = "half-open" /\ b.counts.requests > MaxRequests

\* What beforeRequest refuses with ErrCircuitBreakerOpen.
Rejects(b) ==
    \/ b.state = "open"
    \/ b.state = "half-open" /\ b.counts.requests >= MaxRequests

\* Mutants: off by one; the first success closes.
OnSuccessLate(b) ==
    LET c == [b EXCEPT !.counts = CountSuccess(@)]
    IN  IF b.state = "half-open" /\ c.counts.consecutiveSuccesses > MaxRequests
        THEN SetState(c, "closed") ELSE c
OnSuccessFirst(b) ==
    LET c == [b EXCEPT !.counts = CountSuccess(@)]
    IN  IF b.state = "half-open" THEN SetState(c, "closed") ELSE c

OnSuccess(b) ==
    LET c == [b EXCEPT !.counts = CountSuccess(@)]
    IN  IF b.state = "half-open" /\ c.counts.consecutiveSuccesses >= MaxRequests
        THEN SetState(c, "closed") ELSE c

\* Mutant: a failed probe does not reopen.
OnFailureClosedOnly(b) ==
    LET f == [b EXCEPT !.counts = CountFailure(@)]
    IN  IF b.state = "closed" /\ ReadyToTrip(f.counts)
        THEN SetState(f, "open") ELSE f

OnFailure(b) ==
    LET f == [b EXCEPT !.counts = CountFailure(@)]
    IN  IF b.state = "half-open" \/ (b.state = "closed" /\ ReadyToTrip(f.counts))
        THEN SetState(f, "open") ELSE f

-----------------------------------------------------------------------------
Running  == {p \in Callers : callGen[p] # NoCall}
InFlight == {p \in Callers : callGen[p] = cb.generation}

Init ==
    /\ cb = [state |-> "closed", generation |-> 0, counts |-> ZeroCounts,
             remaining |-> Interval]
    /\ callGen = [p \in Callers |-> NoCall]

\* One unit of time passes.
Tick ==
    /\ cb.remaining # Expired
    /\ cb.generation < MaxGeneration
    /\ cb' = [cb EXCEPT !.remaining = @ - 1]
    /\ UNCHANGED callGen

\* Execute up to the call of fn.
BeforeRequest(p) ==
    /\ callGen[p] = NoCall
    /\ LET b == CurrentState(cb)
       IN  \/ /\ Rejects(b)
              /\ cb' = b
              /\ UNCHANGED callGen
           \/ /\ ~Rejects(b)
              /\ b.counts.requests < RequestCap
              /\ cb' = [b EXCEPT !.counts = OnRequest(@)]
              /\ callGen' = [callGen EXCEPT ![p] = b.generation]

\* Mutant: no generation check.
AfterRequestUnchecked(p, ok) ==
    /\ callGen[p] # NoCall
    /\ cb' = LET b == CurrentState(cb) IN IF ok THEN OnSuccess(b) ELSE OnFailure(b)
    /\ callGen' = [callGen EXCEPT ![p] = NoCall]

\* Execute from fn's return, or from its panic, which is a failure.
AfterRequest(p, ok) ==
    /\ callGen[p] # NoCall
    /\ LET b == CurrentState(cb)
       IN  cb' = IF b.generation # callGen[p] THEN b
                 ELSE IF ok THEN OnSuccess(b) ELSE OnFailure(b)
    /\ callGen' = [callGen EXCEPT ![p] = NoCall]

\* Mutant: generation starts again.
ResetToInit ==
    /\ cb' = [state |-> "closed", generation |-> 0, counts |-> ZeroCounts,
              remaining |-> Interval]
    /\ UNCHANGED callGen

Reset ==
    /\ cb' = SetState(ToNewGeneration(cb), "closed")
    /\ UNCHANGED callGen

\* State() runs currentState, which writes, under the read lock: callers of
\* State() exclude writers but not one another.  When an expiry is due, up to
\* MaxReaders of them find it due, and each increments generation or loses
\* its increment to another; the other fields get the same values from each.
ReadState ==
    /\ LET b == CurrentState(cb)
       IN  \E n \in 1 .. MaxReaders :
             cb' = IF b = cb THEN cb
                   ELSE [b EXCEPT !.generation = cb.generation + n]
    /\ UNCHANGED callGen

\* The bound on the run.  The clock stops with it, so the last generation is
\* one like the others that happens not to expire.
WithinBounds == cb'.generation <= MaxGeneration

Step ==
    /\ \/ \E p \in Callers : BeforeRequest(p)
       \/ \E p \in Callers, ok \in BOOLEAN : AfterRequest(p, ok)
       \/ Reset
       \/ ReadState
    /\ WithinBounds

Next == Tick \/ Step

Spec == Init /\ [][Next]_vars

\* Time passes, callers keep calling (each reconcile retries), and an admitted
\* call returns: it runs under the caller's context.
Fairness ==
    /\ WF_vars(Tick)
    /\ \A p \in Callers :
         /\ WF_vars(BeforeRequest(p) /\ WithinBounds)
         /\ WF_vars((\E ok \in BOOLEAN : AfterRequest(p, ok)) /\ WithinBounds)

FairSpec == Spec /\ Fairness

-----------------------------------------------------------------------------
(* Properties *)

\* Every request of the current generation is a recorded result or a call that
\* is still running: late results of earlier generations (afterRequest's
\* generation check) leave no trace, and no result is lost or counted twice.
CountsAccountForCalls ==
    cb.counts.requests = cb.counts.totalSuccesses + cb.counts.totalFailures
                           + Cardinality(InFlight)

\* A half-open breaker has admitted at most MaxRequests probes and has seen no
\* failure: the first one reopens it, the last success closes it.
HalfOpenQuota ==
    cb.state = "half-open" =>
        /\ cb.counts.requests <= MaxRequests
        /\ cb.counts.totalFailures = 0
        /\ cb.counts.consecutiveSuccesses = cb.counts.totalSuccesses
        /\ cb.counts.totalSuccesses < MaxRequests

\* Half-open has no expiry, so it can only be left by a probe's result: when
\* beforeRequest refuses everyone, a probe that will decide is still running.
NoHalfOpenLockout ==
    cb.state = "half-open" /\ Rejects(cb) => InFlight # {}

\* An open breaker has nobody running on its behalf: what still runs was
\* admitted before it opened and cannot count against, or for, the recovery.
OpenIsIdle ==
    cb.state = "open" => InFlight = {} /\ cb.counts = ZeroCounts

\* A result closes a half-open breaker only as the last of MaxRequests probes,
\* all of which succeeded: none is left running (onSuccess).
ClosesOnFullEvidence ==
    [][cb.state = "half-open" /\ cb'.state = "closed" /\ callGen' # callGen
         => /\ cb.counts.totalSuccesses + 1 = MaxRequests
            /\ \E p \in Callers : InFlight = {p} /\ callGen'[p] = NoCall]_vars

\* Rejection does not last: an open breaker lets probes through.
OpenEnds ==
    cb.state = "open" /\ cb.generation < MaxGeneration ~> cb.state # "open"

\* Probing ends: a half-open breaker closes or reopens.
HalfOpenResolves ==
    cb.state = "half-open" /\ cb.generation < MaxGeneration
        ~> cb.state # "half-open"
=============================================================================
