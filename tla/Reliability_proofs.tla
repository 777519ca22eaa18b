------------------------- MODULE Reliability_proofs -------------------------
(***************************************************************************)
(* Theorems about ExecuteWithReliability, for any number of operations,    *)
(* any retries and delays, and any breaker and limiter: it uses the        *)
(* breaker as CircuitBreaker specifies, so that what is proved there holds *)
(* here; the calls the breaker waits for are those being made; and a done  *)
(* context lets at most one more call through.                             *)
(***************************************************************************)
EXTENDS MCReliability, TLAPS

\* With the breaker's theorems.  The history of its open state, kept for a
\* theorem about the breaker alone, plays no part here.
P == INSTANCE CircuitBreaker_proofs WITH inState <- 0

\* The breaker holds a generation for an operation exactly while its fn runs.
InCall == \A p \in Callers : phase[p] = "call" <=> callGen[p] # B!NoCall

Placed == phase \in [Callers -> Phases \cup Ended] /\ InCall

\* Where an operation is that has made a call after its context was done: it
\* cannot get to another attempt.
PastRetry == {"call", "decide"} \cup Ended

Spent == \A p \in Callers : late[p] = 1 => p \in cancelled /\ phase[p] \in PastRetry

IInv == P!IInv /\ Placed
LInv == IInv /\ late \in [Callers -> {0, 1}] /\ Spent

-----------------------------------------------------------------------------
(* The breaker *)

\* The two instances of CircuitBreaker, with and without its theorems, say the
\* same.
LEMMA SameInit == B!Init <=> P!Init
BY Zenon DEF P!Init, B!Init, P!ZeroCounts, B!ZeroCounts, P!NoCall, B!NoCall

LEMMA SameNext == B!Next <=> P!Next
BY Zenon
DEF P!Next, B!Next, P!Tick, B!Tick, P!Step, B!Step, P!BeforeRequest, B!BeforeRequest,
    P!AfterRequest, B!AfterRequest, P!Reset, B!Reset, P!ReadState, B!ReadState,
    P!WithinBounds, B!WithinBounds, P!SetState, B!SetState, P!CurrentState, B!CurrentState,
    P!ToNewGeneration, B!ToNewGeneration, P!Rejects, B!Rejects, P!OnRequest, B!OnRequest,
    P!OnSuccess, B!OnSuccess, P!OnFailure, B!OnFailure, P!CountSuccess, B!CountSuccess,
    P!CountFailure, B!CountFailure, P!ReadyToTrip, B!ReadyToTrip, P!ZeroCounts, B!ZeroCounts,
    P!ExpiryOf, B!ExpiryOf, P!Expired, B!Expired, P!NoCall, B!NoCall

LEMMA SameFinite == P!IsFiniteSet(Callers) <=> IsFiniteSet(Callers)
BY Zenon DEF P!IsFiniteSet, IsFiniteSet

LEMMA BreakerInit == B!Init => P!IInv
BY P!InitInv, BreakerAssumption, SameFinite, SameInit

LEMMA BreakerNext == P!IInv /\ [B!Next]_breaker => P!IInv'
BY P!NextInv, BreakerAssumption, SameFinite, SameNext DEF breaker, P!vars

\* Every step of the whole is a step of the breaker or leaves it alone.
LEMMA StepOfBreaker == [Next]_vars => [B!Next]_breaker
<1> SUFFICES ASSUME [Next]_vars PROVE B!Next \/ UNCHANGED breaker
  OBVIOUS
<1>1. CASE Tick
  BY <1>1 DEF Tick, B!Next
<1>2. ASSUME NEW p \in Callers, Admit(p)
      PROVE  B!Next
  BY <1>2 DEF Admit, B!Next, B!Step
<1>3. ASSUME NEW p \in Callers, Returns(p)
      PROVE  B!Next
  <2>1. PICK e : Return(p, e)
    BY <1>3 DEF Returns
  <2>2. (e = "none") \in BOOLEAN
    OBVIOUS
  <2> QED BY <2>1, <2>2 DEF Return, B!Next, B!Step
<1>4. ASSUME NEW p \in Callers,
             \/ Cancel(p) \/ Begin(p) \/ Attempt(p) \/ Limiter(p) \/ LimiterAbort(p)
             \/ Limited(p) \/ Decide(p) \/ BackoffEnds(p) \/ BackoffAborts(p)
      PROVE  UNCHANGED breaker
  BY <1>4 DEF Cancel, Begin, Attempt, Limiter, LimiterAbort, Limited, Decide, BackoffEnds,
              BackoffAborts
<1>5. CASE UNCHANGED vars
  BY <1>5 DEF vars
<1> QED BY <1>1, <1>2, <1>3, <1>4, <1>5 DEF Next

\* ExecuteWithReliability uses the breaker only through beforeRequest and
\* afterRequest, one after the other for each operation.
THEOREM Composition == Spec => UsesBreaker
<1>1. Init => B!Init
  BY DEF Init
<1>2. UNCHANGED breaker <=> UNCHANGED B!vars
  BY DEF breaker, B!vars
<1>3. [Next]_vars => [B!Next]_B!vars
  BY <1>2, StepOfBreaker
<1> QED BY <1>1, <1>3, PTL DEF Spec, UsesBreaker, B!Spec

\* What is proved of the breaker by itself holds of it under Retry and the
\* limiter: exact counts, quota, no lock-out, nothing running when open.
BreakerKept ==
    B!CountsAccountForCalls /\ B!HalfOpenQuota /\ B!NoHalfOpenLockout /\ B!OpenIsIdle

\* The breaker of ExecuteWithReliability keeps its promises whatever operations,
\* retries, rejections and cancellations surround it.
THEOREM BreakerPromises == Spec => []BreakerKept
<1>1. P!IInv => BreakerKept
  <2>1. P!IInv => /\ P!CountsAccountForCalls /\ P!HalfOpenQuota
                  /\ P!NoHalfOpenLockout /\ P!OpenIsIdle
    BY P!Consequences, BreakerAssumption, SameFinite
  <2>2. P!CountsAccountForCalls <=> B!CountsAccountForCalls
    BY Zenon DEF P!CountsAccountForCalls, B!CountsAccountForCalls, P!InFlight, B!InFlight,
                 P!Cardinality, B!Cardinality, P!IsFiniteSet, B!IsFiniteSet
  <2>3. P!HalfOpenQuota <=> B!HalfOpenQuota
    BY Zenon DEF P!HalfOpenQuota, B!HalfOpenQuota
  <2>4. P!NoHalfOpenLockout <=> B!NoHalfOpenLockout
    BY Zenon DEF P!NoHalfOpenLockout, B!NoHalfOpenLockout, P!Rejects, B!Rejects,
                 P!InFlight, B!InFlight
  <2>5. P!OpenIsIdle <=> B!OpenIsIdle
    BY Zenon DEF P!OpenIsIdle, B!OpenIsIdle, P!InFlight, B!InFlight, P!ZeroCounts, B!ZeroCounts
  <2> QED BY <2>1, <2>2, <2>3, <2>4, <2>5 DEF BreakerKept
<1>2. Init => P!IInv
  BY BreakerInit DEF Init
<1>3. P!IInv /\ [Next]_vars => P!IInv'
  BY BreakerNext, StepOfBreaker
<1> QED BY <1>1, <1>2, <1>3, PTL DEF Spec

-----------------------------------------------------------------------------
(* Calls *)

LEMMA InitPlaced == Init => IInv
BY BreakerInit DEF Init, IInv, Placed, InCall, B!Init, B!NoCall, Phases, Ended

LEMMA CallGenType == P!IInv => callGen \in [Callers -> Int]
BY DEF P!IInv, P!BInv, P!Typed, P!Breaker, P!NoCall

\* A step of an operation that is not in its call, and does not enter it.
LEMMA Elsewhere ==
  ASSUME Placed, NEW p \in Callers, UNCHANGED callGen, phase[p] # "call",
         NEW ph \in (Phases \cup Ended) \ {"call"}, phase' = [phase EXCEPT ![p] = ph]
  PROVE  Placed'
BY DEF Placed, InCall

LEMMA NextPlaced == IInv /\ [Next]_vars => IInv'
<1> SUFFICES ASSUME IInv, [Next]_vars PROVE Placed'
  BY BreakerNext, StepOfBreaker DEF IInv
<1>0. Placed /\ callGen \in [Callers -> Int]
  BY CallGenType DEF IInv
<1>1. CASE Tick
  <2>1. UNCHANGED <<callGen, phase>>
    BY <1>1 DEF Tick, B!Tick, breaker
  <2> QED BY <1>0, <2>1 DEF Placed, InCall
<1>2. ASSUME NEW p \in Callers, Cancel(p) \/ Limiter(p) \/ LimiterAbort(p)
      PROVE  Placed'
  <2>1. UNCHANGED <<callGen, phase>>
    BY <1>2 DEF Cancel, Limiter, LimiterAbort, breaker, retryer
  <2> QED BY <1>0, <2>1 DEF Placed, InCall
<1>3. ASSUME NEW p \in Callers,
             Begin(p) \/ Attempt(p) \/ Limited(p) \/ BackoffEnds(p) \/ BackoffAborts(p)
      PROVE  Placed'
  BY <1>0, <1>3, Elsewhere
  DEF Begin, Attempt, Limited, BackoffEnds, BackoffAborts, breaker, Phases, Ended
<1>4. ASSUME NEW p \in Callers, Decide(p)
      PROVE  Placed'
  BY <1>0, <1>4, Elsewhere DEF Decide, breaker, Phases, Ended
<1>5. ASSUME NEW p \in Callers, Admit(p)
      PROVE  Placed'
  <2>1. \A q \in Callers \ {p} : callGen'[q] = callGen[q]
    BY <1>0, <1>5 DEF Admit, B!BeforeRequest
  <2>2. \E ph \in {"call", "decide"} :
           phase' = [phase EXCEPT ![p] = ph] /\ (ph = "call" <=> callGen'[p] # B!NoCall)
    BY <1>5 DEF Admit
  <2> QED BY <1>0, <2>1, <2>2 DEF Placed, InCall, Phases, Ended
<1>6. ASSUME NEW p \in Callers, Returns(p)
      PROVE  Placed'
  <2>1. callGen' = [callGen EXCEPT ![p] = B!NoCall]
    BY <1>6 DEF Returns, Return, B!AfterRequest
  <2>2. \E ph \in {"ok", "decide"} : phase' = [phase EXCEPT ![p] = ph]
    BY <1>6 DEF Returns, Return
  <2> QED BY <1>0, <2>1, <2>2 DEF Placed, InCall, Phases, Ended
<1>7. CASE UNCHANGED vars
  BY <1>0, <1>7 DEF vars, breaker, retryer, Placed, InCall
<1> QED BY <1>1, <1>2, <1>3, <1>4, <1>5, <1>6, <1>7 DEF Next

\* The breaker, the place of every operation in Retry, and the generations the
\* breaker holds for them fit together.
THEOREM Invariance == Spec => []IInv
BY InitPlaced, NextPlaced, PTL DEF Spec

\* No admitted call is forgotten and none is reported twice: an operation that is
\* sleeping, waiting for the limiter or has returned holds no generation of the
\* breaker, and one whose fn runs holds one.
THEOREM CallsMatch == Spec => []InCall
<1>1. IInv => InCall
  BY DEF IInv, Placed
<1> QED BY <1>1, Invariance, PTL

-----------------------------------------------------------------------------
(* Cancellation *)

\* Contexts stay done.
LEMMA CancelledGrows == [Next]_vars => cancelled \subseteq cancelled'
<1> SUFFICES ASSUME [Next]_vars PROVE cancelled \subseteq cancelled'
  OBVIOUS
<1>1. CASE Tick
  BY <1>1 DEF Tick, L!Tick
<1>2. ASSUME NEW p \in Callers,
             \/ Cancel(p) \/ Begin(p) \/ Attempt(p) \/ Limiter(p) \/ LimiterAbort(p)
             \/ Limited(p) \/ Admit(p)
      PROVE  cancelled \subseteq cancelled'
  BY <1>2 DEF Cancel, Begin, Attempt, Limiter, LimiterAbort, Limited, Admit, LeaveLimiter,
              limiter, L!Cancel, L!Wait, L!TryAllow, L!Reserve, L!Wake, L!Abort
<1>3. ASSUME NEW p \in Callers, Returns(p) \/ Decide(p) \/ BackoffEnds(p) \/ BackoffAborts(p)
      PROVE  cancelled \subseteq cancelled'
  BY <1>3 DEF Returns, Return, Decide, BackoffEnds, BackoffAborts, limiter
<1>4. CASE UNCHANGED vars
  BY <1>4 DEF vars, limiter
<1> QED BY <1>1, <1>2, <1>3, <1>4 DEF Next

\* An operation whose context is done does not get from a call, or from what
\* follows it, to another attempt, and does not enter the call from there.
LEMMA NoWayBack ==
  ASSUME IInv, [Next]_vars, NEW p \in Callers, p \in cancelled, phase[p] \in PastRetry
  PROVE  phase'[p] \in PastRetry /\ (phase'[p] = "call" => phase[p] = "call")
<1> USE DEF PastRetry, Ended
<1>0. phase \in [Callers -> Phases \cup Ended]
  BY DEF IInv, Placed
<1>1. CASE Tick
  BY <1>1 DEF Tick
<1>2. ASSUME NEW q \in Callers,
             \/ Cancel(q) \/ Begin(q) \/ Attempt(q) \/ Limiter(q) \/ LimiterAbort(q)
             \/ Limited(q) \/ Admit(q)
      PROVE  phase'[p] = phase[p]
  BY <1>0, <1>2
  DEF Cancel, Begin, Attempt, Limiter, LimiterAbort, Limited, Admit, retryer
<1>3. ASSUME NEW q \in Callers, Returns(q) \/ Decide(q) \/ BackoffEnds(q) \/ BackoffAborts(q)
      PROVE  phase'[p] \in PastRetry /\ (phase'[p] = "call" => phase[p] = "call")
  BY <1>0, <1>3 DEF Returns, Return, Decide, BackoffEnds, BackoffAborts
<1>4. CASE UNCHANGED vars
  BY <1>4 DEF vars, retryer
<1> QED BY <1>1, <1>2, <1>3, <1>4 DEF Next

LEMMA NextSpent == LInv /\ [MCNext]_<<vars, late>> => LInv'
<1> SUFFICES ASSUME LInv, [MCNext]_<<vars, late>> PROVE LInv'
  OBVIOUS
<1>1. [Next]_vars /\ IInv
  BY DEF MCNext, LInv
<1>2. IInv' /\ cancelled \subseteq cancelled'
  BY <1>1, NextPlaced, CancelledGrows
<1>3. ASSUME NEW p \in Callers
      PROVE  /\ late'[p] \in {0, 1}
             /\ late'[p] = 1 => p \in cancelled' /\ phase'[p] \in PastRetry
  <2>1. late[p] \in {0, 1} /\ (late[p] = 1 => p \in cancelled /\ phase[p] \in PastRetry)
    BY <1>3 DEF LInv, Spent
  <2>2. late'[p] = late[p] \/ (Starts(p) /\ late'[p] = late[p] + 1)
    BY DEF MCNext
  <2>3. CASE late[p] = 1
    <3>1. phase'[p] \in PastRetry /\ (phase'[p] = "call" => phase[p] = "call")
      BY <1>1, <2>1, <2>3, NoWayBack
    <3>2. ~Starts(p)
      BY <3>1 DEF Starts
    <3> QED BY <1>2, <2>1, <2>2, <2>3, <3>1, <3>2
  <2>4. CASE late[p] = 0
    BY <1>2, <2>2, <2>4 DEF Starts, PastRetry
  <2> QED BY <2>1, <2>3, <2>4
<1>4. late' \in [Callers -> {0, 1}]
  BY <1>3 DEF MCNext, LInv
<1> QED BY <1>2, <1>3, <1>4 DEF LInv, Spent

\* A done context lets at most one more call through to the API, however many
\* retries are left and however the limiter, the breaker and the delays behave.
THEOREM LateCalls == MCSpec => []AtMostOneLateCall
<1>1. MCInit => LInv
  BY InitPlaced DEF MCInit, LInv, Spent
<1>2. LInv => AtMostOneLateCall
  BY DEF LInv, AtMostOneLateCall
<1> QED BY <1>1, <1>2, NextSpent, PTL DEF MCSpec
=============================================================================
