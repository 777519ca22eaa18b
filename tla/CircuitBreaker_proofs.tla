------------------------ MODULE CircuitBreaker_proofs ------------------------
(***************************************************************************)
(* The safety properties of CircuitBreaker for any number of callers and   *)
(* any configuration.  The inductive invariant is stated for a breaker b   *)
(* and the generations g its calls hold, so that it can be carried through *)
(* the methods a critical section calls one after the other.  What is said *)
(* of time is about the history that MCCircuitBreaker adds.                *)
(***************************************************************************)
EXTENDS MCCircuitBreaker, FiniteSetTheorems, TLAPS

Holding(b, g) == {p \in Callers : g[p] = b.generation}

Typed(b, g) == /\ b \in Breaker
               /\ g \in [Callers -> (0 .. b.generation) \cup {NoCall}]

Accounted(b, g) == b.counts.requests = b.counts.totalSuccesses
                        + b.counts.totalFailures + Cardinality(Holding(b, g))

Quota(b) == b.state = "half-open" =>
                /\ b.counts.requests <= MaxRequests
                /\ b.counts.totalFailures = 0
                /\ b.counts.consecutiveSuccesses = b.counts.totalSuccesses
                /\ b.counts.totalSuccesses < MaxRequests

Idle(b, g) == b.state = "open" => Holding(b, g) = {} /\ b.counts = ZeroCounts

BInv(b, g) == Typed(b, g) /\ Accounted(b, g) /\ Quota(b) /\ Idle(b, g)

IInv == BInv(cb, callGen)

-----------------------------------------------------------------------------
\* The calls that hold a generation are finitely many; one fewer when one ends.
LEMMA HoldingFinite ==
    ASSUME NEW b, NEW g
    PROVE  IsFiniteSet(Holding(b, g))
BY CallersAssumption, FS_Subset DEF Holding

\* toNewGeneration starts from a clean slate in whatever state it finds.
LEMMA FreshGeneration ==
    ASSUME NEW b, NEW g, Typed(b, g)
    PROVE  /\ BInv(ToNewGeneration(b), g)
           /\ Holding(ToNewGeneration(b), g) = {}
           /\ ToNewGeneration(b).state = b.state
           /\ ToNewGeneration(b).generation = b.generation + 1
<1> DEFINE n == ToNewGeneration(b)
<1>1. /\ n.state = b.state /\ n.generation = b.generation + 1
      /\ n.counts = ZeroCounts /\ n.remaining = ExpiryOf(b.state)
  BY DEF ToNewGeneration
<1>2. n \in Breaker
  BY ConfigAssumption
  DEF ToNewGeneration, Typed, Breaker, Counts, ZeroCounts, ExpiryOf, States, Expired
<1>3. Holding(n, g) = {}
  BY <1>1 DEF Holding, Typed, NoCall, Breaker
<1>4. Typed(n, g)
  BY <1>1, <1>2 DEF Typed, NoCall, Breaker
<1>5. Accounted(n, g)
  BY <1>1, <1>3, FS_EmptySet DEF Accounted, ZeroCounts
<1>6. Quota(n) /\ Idle(n, g)
  BY <1>1, <1>3, ConfigAssumption DEF Quota, Idle, ZeroCounts
<1> QED BY <1>1, <1>3, <1>4, <1>5, <1>6 DEF BInv

\* setState starts a new generation exactly when it changes the state.
LEMMA SetStateFresh ==
    ASSUME NEW b, NEW g, Typed(b, g), NEW s \in States, b.state # s
    PROVE  /\ BInv(SetState(b, s), g)
           /\ Holding(SetState(b, s), g) = {}
           /\ SetState(b, s).state = s
           /\ SetState(b, s).generation = b.generation + 1
<1> DEFINE c == [b EXCEPT !.state = s]
<1>1. Typed(c, g) /\ c.state = s /\ c.generation = b.generation
  BY DEF Typed, Breaker
<1>2. SetState(b, s) = ToNewGeneration(c)
  BY DEF SetState
<1> QED BY <1>1, <1>2, FreshGeneration

\* currentState, which every critical section runs first.
LEMMA CurrentStatePreserves ==
    ASSUME NEW b, NEW g, BInv(b, g)
    PROVE  /\ BInv(CurrentState(b), g)
           /\ \/ CurrentState(b) = b
              \/ /\ CurrentState(b).generation = b.generation + 1
                 /\ Holding(CurrentState(b), g) = {}
<1>1. CASE b.state = "closed" /\ b.remaining = Expired
  <2>1. CurrentState(b) = ToNewGeneration(b)  BY <1>1 DEF CurrentState
  <2> QED BY <2>1, FreshGeneration DEF BInv
<1>2. CASE b.state = "open" /\ b.remaining = Expired
  <2>1. CurrentState(b) = SetState(b, "half-open")  BY <1>2 DEF CurrentState
  <2> QED BY <1>2, <2>1, SetStateFresh DEF BInv, States
<1>3. CASE ~ (b.state = "closed" /\ b.remaining = Expired)
           /\ ~ (b.state = "open" /\ b.remaining = Expired)
  BY <1>3 DEF CurrentState
<1> QED BY <1>1, <1>2, <1>3

\* An admission adds one request and one call that holds the generation.
LEMMA AdmitPreserves ==
    ASSUME NEW b, NEW g, BInv(b, g), ~Rejects(b), NEW p \in Callers, g[p] = NoCall
    PROVE  BInv([b EXCEPT !.counts = OnRequest(@)], [g EXCEPT ![p] = b.generation])
<1> DEFINE c == [b EXCEPT !.counts = OnRequest(@)]
           h == [g EXCEPT ![p] = b.generation]
<1>1. /\ c.counts = OnRequest(b.counts) /\ c.state = b.state
      /\ c.generation = b.generation /\ b.generation \in Nat /\ b.counts \in Counts
  BY DEF BInv, Typed, Breaker
<1>2. Typed(c, h)
  BY DEF BInv, Typed, Breaker, Counts, OnRequest
<1>3. Holding(c, h) = Holding(b, g) \cup {p} /\ p \notin Holding(b, g)
  BY <1>1 DEF BInv, Typed, Holding, NoCall
<1>4. Cardinality(Holding(c, h)) = Cardinality(Holding(b, g)) + 1
  BY <1>3, HoldingFinite, FS_AddElement
<1>5. Accounted(c, h)
  <2>1. Cardinality(Holding(b, g)) \in Nat
    BY HoldingFinite, FS_CardinalityType
  <2> QED BY <1>1, <1>4, <2>1 DEF BInv, Accounted, Counts, OnRequest
<1>6. Quota(c)
  BY <1>1, ConfigAssumption DEF BInv, Quota, Rejects, OnRequest, Counts
<1>7. Idle(c, h)
  BY <1>1 DEF Rejects, Idle
<1> QED BY <1>2, <1>5, <1>6, <1>7 DEF BInv

\* What one result adds to the counts.
LEMMA CountResult ==
    ASSUME NEW n \in Counts
    PROVE  /\ CountSuccess(n) \in Counts
           /\ CountSuccess(n).requests = n.requests
           /\ CountSuccess(n).totalFailures = n.totalFailures
           /\ CountSuccess(n).totalSuccesses = n.totalSuccesses + 1
           /\ CountSuccess(n).consecutiveSuccesses = n.consecutiveSuccesses + 1
           /\ CountFailure(n) \in Counts
           /\ CountFailure(n).requests = n.requests
           /\ CountFailure(n).totalFailures = n.totalFailures + 1
           /\ CountFailure(n).totalSuccesses = n.totalSuccesses
BY DEF Counts, CountSuccess, CountFailure

\* A result takes one call out of its generation and is counted; it may close,
\* reopen or trip the breaker.
LEMMA ReturnPreserves ==
    ASSUME NEW b, NEW g, BInv(b, g), NEW p \in Callers, g[p] = b.generation
    PROVE  /\ BInv(OnSuccess(b), [g EXCEPT ![p] = NoCall])
           /\ BInv(OnFailure(b), [g EXCEPT ![p] = NoCall])
<1> DEFINE h == [g EXCEPT ![p] = NoCall]
           c == [b EXCEPT !.counts = CountSuccess(@)]
           f == [b EXCEPT !.counts = CountFailure(@)]
<1>1. b \in Breaker /\ b.counts \in Counts /\ b.generation \in Nat
  BY DEF BInv, Typed, Breaker
<1>2. /\ c.state = b.state /\ c.generation = b.generation
      /\ c.counts = CountSuccess(b.counts)
      /\ f.state = b.state /\ f.generation = b.generation
      /\ f.counts = CountFailure(b.counts)
  BY <1>1 DEF Breaker
<1>b. c \in Breaker /\ f \in Breaker
  BY <1>1, <1>2, CountResult DEF Breaker
<1> HIDE DEF c, f
<1>h. h \in [Callers -> (0 .. b.generation) \cup {NoCall}]
  BY DEF BInv, Typed
<1>3. Typed(c, h)
  BY <1>2, <1>b, <1>h DEF Typed
<1>4. Typed(f, h)
  BY <1>2, <1>b, <1>h DEF Typed
<1>5. Holding(b, h) = Holding(b, g) \ {p} /\ p \in Holding(b, g)
  BY <1>1 DEF BInv, Typed, Holding, NoCall
<1>6. /\ Cardinality(Holding(b, h)) = Cardinality(Holding(b, g)) - 1
      /\ Cardinality(Holding(b, h)) \in Nat
      /\ Cardinality(Holding(b, g)) \in Nat
  BY <1>5, HoldingFinite, FS_RemoveElement, FS_CardinalityType
<1>7. Holding(c, h) = Holding(b, h) /\ Holding(f, h) = Holding(b, h)
  BY <1>2 DEF Holding
<1>8. Accounted(c, h)
  BY <1>1, <1>2, <1>6, <1>7, CountResult DEF BInv, Accounted, Counts
<1>9. Accounted(f, h)
  BY <1>1, <1>2, <1>6, <1>7, CountResult DEF BInv, Accounted, Counts
<1>10. b.state # "open"
  BY <1>5 DEF BInv, Idle
<1>11. BInv(OnSuccess(b), h)
  <2>1. CASE b.state = "half-open" /\ c.counts.consecutiveSuccesses >= MaxRequests
    <3>1. OnSuccess(b) = SetState(c, "closed")  BY <2>1 DEF OnSuccess, c
    <3> QED BY <1>2, <1>3, <2>1, <3>1, SetStateFresh DEF States
  <2>2. CASE ~ (b.state = "half-open" /\ c.counts.consecutiveSuccesses >= MaxRequests)
    <3>1. OnSuccess(b) = c  BY <2>2 DEF OnSuccess, c
    <3>2. Quota(c)
      BY <1>1, <1>2, <2>2, CountResult, ConfigAssumption DEF BInv, Quota, Counts
    <3>3. Idle(c, h)
      BY <1>2, <1>10 DEF Idle
    <3> QED BY <1>3, <1>8, <3>1, <3>2, <3>3 DEF BInv
  <2> QED BY <2>1, <2>2
<1>12. BInv(OnFailure(b), h)
  <2>1. CASE b.state = "half-open" \/ (b.state = "closed" /\ ReadyToTrip(f.counts))
    <3>1. OnFailure(b) = SetState(f, "open")  BY <2>1 DEF OnFailure, f
    <3> QED BY <1>2, <1>4, <1>10, <3>1, SetStateFresh DEF States
  <2>2. CASE ~ (b.state = "half-open" \/ (b.state = "closed" /\ ReadyToTrip(f.counts)))
    <3>1. OnFailure(b) = f  BY <2>2 DEF OnFailure, f
    <3>2. Quota(f) /\ Idle(f, h)
      BY <1>2, <1>10, <2>2 DEF Quota, Idle
    <3> QED BY <1>4, <1>9, <3>1, <3>2 DEF BInv
  <2> QED BY <2>1, <2>2
<1> QED BY <1>11, <1>12

\* A late result leaves the breaker as currentState made it.
LEMMA LateReturnPreserves ==
    ASSUME NEW b, NEW g, BInv(b, g), NEW p \in Callers, g[p] # b.generation
    PROVE  BInv(b, [g EXCEPT ![p] = NoCall])
<1> DEFINE h == [g EXCEPT ![p] = NoCall]
<1>1. Typed(b, h)  BY DEF BInv, Typed, NoCall
<1>2. Holding(b, h) = Holding(b, g)
  BY DEF BInv, Typed, Breaker, Holding, NoCall
<1> QED BY <1>1, <1>2 DEF BInv, Accounted, Idle

-----------------------------------------------------------------------------
LEMMA InitInv == Init => IInv
<1> SUFFICES ASSUME Init PROVE BInv(cb, callGen)  BY DEF IInv
<1>1. Typed(cb, callGen)
  BY ConfigAssumption
  DEF Init, Typed, Breaker, Counts, ZeroCounts, States, NoCall, Expired
<1>2. Holding(cb, callGen) = {}  BY DEF Init, Holding, NoCall
<1>3. Accounted(cb, callGen)
  BY <1>2, FS_EmptySet DEF Init, Accounted, ZeroCounts
<1> QED BY <1>1, <1>3 DEF Init, BInv, Quota, Idle

LEMMA NextInv == IInv /\ [Next]_vars => IInv'
<1> SUFFICES ASSUME BInv(cb, callGen), [Next]_vars PROVE BInv(cb', callGen')
  BY DEF IInv, BInv, Typed, Accounted, Quota, Idle, Holding
<1> DEFINE b == CurrentState(cb)
<1>1. BInv(b, callGen)  BY CurrentStatePreserves
<1>2. CASE Tick
  <2>1. Typed(cb', callGen')
    BY <1>2 DEF Tick, BInv, Typed, Breaker, Expired
  <2>2. Holding(cb', callGen') = Holding(cb, callGen) /\ cb'.state = cb.state
        /\ cb'.counts = cb.counts
    BY <1>2 DEF Tick, BInv, Typed, Breaker, Holding
  <2> QED BY <2>1, <2>2 DEF BInv, Accounted, Quota, Idle
<1>3. ASSUME NEW p \in Callers, BeforeRequest(p) PROVE BInv(cb', callGen')
  <2>1. CASE Rejects(b)
    BY <1>1, <1>3, <2>1 DEF BeforeRequest
  <2>2. CASE ~Rejects(b)
    <3>1. /\ callGen[p] = NoCall
          /\ cb' = [b EXCEPT !.counts = OnRequest(@)]
          /\ callGen' = [callGen EXCEPT ![p] = b.generation]
      BY <1>3, <2>2 DEF BeforeRequest
    <3> QED BY <1>1, <2>2, <3>1, AdmitPreserves
  <2> QED BY <2>1, <2>2
<1>4. ASSUME NEW p \in Callers, NEW ok \in BOOLEAN, AfterRequest(p, ok)
      PROVE  BInv(cb', callGen')
  <2>1. CASE b.generation # callGen[p]
    BY <1>1, <1>4, <2>1, LateReturnPreserves DEF AfterRequest
  <2>2. CASE b.generation = callGen[p]
    BY <1>1, <1>4, <2>2, ReturnPreserves DEF AfterRequest
  <2> QED BY <2>1, <2>2
<1>5. CASE Reset
  <2> DEFINE n == ToNewGeneration(cb)
  <2>1. BInv(n, callGen)  BY FreshGeneration DEF BInv
  <2>2. cb' = SetState(n, "closed") /\ callGen' = callGen  BY <1>5 DEF Reset
  <2>3. CASE n.state = "closed"  BY <2>1, <2>2, <2>3 DEF SetState
  <2>4. CASE n.state # "closed"
    BY <2>1, <2>2, <2>4, SetStateFresh DEF BInv, States
  <2> QED BY <2>3, <2>4
<1>6. CASE ReadState
  <2>1. CASE b = cb
    BY <1>6, <2>1 DEF ReadState
  <2>2. CASE b # cb
    <3>1. PICK n \in 1 .. MaxReaders :
            cb' = [b EXCEPT !.generation = cb.generation + n] /\ callGen' = callGen
      BY <1>6, <2>2 DEF ReadState
    <3>2. b.generation = cb.generation + 1 /\ Holding(b, callGen) = {}
      BY <2>2, CurrentStatePreserves
    <3>3. n \in Nat /\ n > 0 /\ cb.generation \in Nat
      BY BoundsAssumption DEF BInv, Typed, Breaker
    <3>4. Typed(cb', callGen')
      BY <1>1, <3>1, <3>3 DEF BInv, Typed, Breaker, NoCall
    <3>5. Holding(cb', callGen') = {}
      BY <1>1, <3>1, <3>2, <3>3 DEF BInv, Typed, Breaker, Holding, NoCall
    <3>6. cb'.state = b.state /\ cb'.counts = b.counts
      BY <1>1, <3>1 DEF BInv, Typed, Breaker
    <3> QED BY <1>1, <3>2, <3>4, <3>5, <3>6 DEF BInv, Accounted, Quota, Idle
  <2> QED BY <2>1, <2>2
<1>7. CASE UNCHANGED vars
  BY <1>7 DEF vars
<1> QED BY <1>2, <1>3, <1>4, <1>5, <1>6, <1>7 DEF Next, Step

\* The inductive invariant holds in every state.
THEOREM Invariance == Spec => []IInv
BY InitInv, NextInv, PTL DEF Spec

\* What the invariant says of a state, for these theorems and for modules that
\* use the breaker.
LEMMA Consequences ==
  IInv => TypeOK /\ CountsAccountForCalls /\ HalfOpenQuota /\ OpenIsIdle /\ NoHalfOpenLockout
<1> SUFFICES ASSUME IInv
             PROVE  TypeOK /\ CountsAccountForCalls /\ HalfOpenQuota /\ OpenIsIdle /\ NoHalfOpenLockout
  OBVIOUS
<1>1. TypeOK
  BY DEF IInv, BInv, Typed, TypeOK
<1>2. CountsAccountForCalls
  BY DEF IInv, BInv, Accounted, Holding, CountsAccountForCalls, InFlight
<1>3. HalfOpenQuota
  BY DEF IInv, BInv, Quota, HalfOpenQuota
<1>4. OpenIsIdle
  BY DEF IInv, BInv, Idle, Holding, OpenIsIdle, InFlight
<1>5. NoHalfOpenLockout
  <2> SUFFICES ASSUME cb.state = "half-open", cb.counts.requests >= MaxRequests,
                      InFlight = {}
               PROVE  FALSE
    BY DEF NoHalfOpenLockout, Rejects
  <2>1. cb.counts.requests = cb.counts.totalSuccesses + cb.counts.totalFailures
    BY FS_EmptySet DEF IInv, BInv, Typed, Breaker, Counts, Accounted, Holding, InFlight
  <2> QED BY <2>1, ConfigAssumption DEF IInv, BInv, Typed, Breaker, Counts, Quota
<1> QED BY <1>1, <1>2, <1>3, <1>4, <1>5

\* The breaker and the calls keep their types; generation never runs behind.
THEOREM TypeCorrect == Spec => []TypeOK
BY Consequences, Invariance, PTL

\* Requests are results plus running calls of the same generation.
THEOREM Accounting == Spec => []CountsAccountForCalls
BY Consequences, Invariance, PTL

\* A half-open breaker admits at most MaxRequests probes and tolerates no failure.
THEOREM Quotas == Spec => []HalfOpenQuota
BY Consequences, Invariance, PTL

\* Nothing admitted before it opened can count for an open breaker.
THEOREM OpenIdle == Spec => []OpenIsIdle
BY Consequences, Invariance, PTL

\* Half-open refuses everyone only while a probe that decides is running.
THEOREM NoLockout == Spec => []NoHalfOpenLockout
BY Consequences, Invariance, PTL

\* A result closes a half-open breaker only as the last of MaxRequests probes.
THEOREM FullEvidence == Spec => ClosesOnFullEvidence
<1> DEFINE Closes == cb.state = "half-open" /\ cb'.state = "closed" /\ callGen' # callGen
           Evidence == /\ cb.counts.totalSuccesses + 1 = MaxRequests
                       /\ \E p \in Callers : InFlight = {p} /\ callGen'[p] = NoCall
<1>1. IInv /\ [Next]_vars => [Closes => Evidence]_vars
  <2> SUFFICES ASSUME IInv, Next, Closes PROVE Evidence
    BY DEF vars
  <2>1. CurrentState(cb) = cb /\ cb.state # "closed"
    BY DEF CurrentState
  <2>2. \A p \in Callers : ~BeforeRequest(p)
    BY <2>1 DEF BeforeRequest, IInv, BInv, Typed, Breaker
  <2>3. PICK p \in Callers, ok \in BOOLEAN : AfterRequest(p, ok)
    BY <2>2 DEF Next, Step, Tick, Reset, ReadState
  <2>4. callGen[p] = cb.generation
    BY <2>1, <2>3 DEF AfterRequest
  <2>5. /\ cb.counts.totalSuccesses + 1 >= MaxRequests
        /\ callGen'[p] = NoCall
    <3>1. cb' = OnSuccess(cb) \/ cb' = OnFailure(cb)
      BY <2>1, <2>3, <2>4 DEF AfterRequest
    <3>2. OnFailure(cb).state = "open"
      BY DEF OnFailure, SetState, ToNewGeneration, IInv, BInv, Typed, Breaker
    <3>3. cb.counts \in Counts /\ cb.counts.consecutiveSuccesses = cb.counts.totalSuccesses
      BY DEF IInv, BInv, Typed, Breaker, Quota
    <3>4. CountSuccess(cb.counts).consecutiveSuccesses >= MaxRequests
      BY <2>1, <3>1, <3>2 DEF OnSuccess, IInv, BInv, Typed, Breaker
    <3>5. callGen'[p] = NoCall
      BY <2>3 DEF AfterRequest, IInv, BInv, Typed
    <3> QED BY <3>3, <3>4, <3>5, CountResult
  <2>6. /\ cb.counts.totalSuccesses + 1 = MaxRequests
        /\ Cardinality(InFlight) <= 1
    <3>1. IsFiniteSet(InFlight) /\ Cardinality(InFlight) \in Nat
      BY CallersAssumption, FS_Subset, FS_CardinalityType DEF InFlight
    <3>2. InFlight = Holding(cb, callGen)  BY DEF InFlight, Holding
    <3> QED BY <2>5, <3>1, <3>2, ConfigAssumption
            DEF IInv, BInv, Typed, Breaker, Counts, Accounted, Quota
  <2>7. InFlight = {p}
    <3>1. IsFiniteSet(InFlight) /\ p \in InFlight
      BY <2>4, CallersAssumption, FS_Subset DEF InFlight
    <3>2. IsFiniteSet(InFlight \ {p}) /\ Cardinality(InFlight \ {p}) = Cardinality(InFlight) - 1
      BY <3>1, FS_RemoveElement
    <3>3. Cardinality(InFlight \ {p}) = 0
      BY <2>6, <3>1, <3>2, FS_CardinalityType
    <3>4. InFlight \ {p} = {}
      BY <3>2, <3>3, FS_EmptySet
    <3> QED BY <3>1, <3>4
  <2> QED BY <2>5, <2>6, <2>7
<1> QED BY <1>1, Invariance, PTL DEF Spec, ClosesOnFullEvidence

-----------------------------------------------------------------------------
(* Time in the open state.  MCCircuitBreaker counts the ticks from outside; an  *)
(* open breaker's remaining time is what they leave of Timeout.                 *)

CountsDown == /\ inState \in Nat
              /\ cb.state = "open" => inState + cb.remaining = Timeout

\* What a critical section may do to an open breaker: nothing, or end its
\* being open, and let probes in only when the timeout has expired.
LEMMA LeavesOpen ==
  ASSUME IInv, Step, cb.state = "open"
  PROVE  \/ cb' = cb
         \/ cb'.state = "half-open" /\ cb.remaining = Expired
         \/ cb'.state = "closed"
<1> DEFINE b == CurrentState(cb)
<1>1. cb \in Breaker /\ \A p \in Callers : callGen[p] # cb.generation
  BY DEF IInv, BInv, Typed, Idle, Holding
<1>2. \/ b = cb
      \/ /\ b.state = "half-open" /\ cb.remaining = Expired
         /\ b.generation = cb.generation + 1
  BY <1>1 DEF CurrentState, SetState, ToNewGeneration, Breaker
<1>3. b \in Breaker
  BY CurrentStatePreserves DEF IInv, BInv, Typed
<1>4. \A p \in Callers : callGen[p] # b.generation
  <2>1. \A p \in Callers : callGen[p] \in (0 .. cb.generation) \cup {NoCall}
    BY DEF IInv, BInv, Typed
  <2> QED BY <1>1, <1>2, <2>1 DEF NoCall, Breaker
<1> HIDE DEF b
<1>5. ASSUME NEW p \in Callers, BeforeRequest(p)
      PROVE  cb' = cb \/ (cb'.state = "half-open" /\ cb.remaining = Expired)
  <2>1. CASE cb' = b
    BY <1>2, <2>1
  <2>2. CASE ~Rejects(b) /\ cb' = [b EXCEPT !.counts = OnRequest(@)]
    <3>1. b # cb
      BY <2>2 DEF Rejects
    <3>2. cb'.state = b.state
      BY <1>3, <2>2 DEF Breaker
    <3> QED BY <1>2, <3>1, <3>2
  <2> QED BY <1>5, <2>1, <2>2 DEF BeforeRequest, b
<1>6. ASSUME NEW p \in Callers, NEW ok \in BOOLEAN, AfterRequest(p, ok)
      PROVE  cb' = b
  BY <1>4, <1>6 DEF AfterRequest, b
<1>7. CASE Reset
  <2>1. cb'.state = "closed"
    BY <1>1, <1>7 DEF Reset, SetState, ToNewGeneration, Breaker
  <2> QED BY <2>1
<1>8. CASE ReadState
  <2>1. PICK n \in 1 .. MaxReaders :
          cb' = IF b = cb THEN cb ELSE [b EXCEPT !.generation = cb.generation + n]
    BY <1>8 DEF ReadState, b
  <2>2. cb' = cb \/ (b # cb /\ cb'.state = b.state)
    BY <1>3, <2>1 DEF Breaker
  <2> QED BY <1>2, <2>2
<1> QED BY <1>2, <1>5, <1>6, <1>7, <1>8 DEF Step

\* A breaker that opens has all of Timeout before it.
LEMMA Opens ==
  ASSUME IInv, Step, cb.state # "open", cb'.state = "open"
  PROVE  cb'.remaining = Timeout
<1> DEFINE b == CurrentState(cb)
<1>1. cb \in Breaker
  BY DEF IInv, BInv, Typed
<1>2. b \in Breaker /\ b.state # "open"
  <2>1. b = cb \/ b = ToNewGeneration(cb)
    BY DEF CurrentState
  <2>2. b.state # "open"
    BY <2>1 DEF ToNewGeneration
  <2> QED BY <2>2, CurrentStatePreserves DEF IInv, BInv, Typed
<1> HIDE DEF b
<1>3. \A c \in Breaker, s \in States :
         c.state # s => SetState(c, s).state = s /\ SetState(c, s).remaining = ExpiryOf(s)
  BY DEF SetState, ToNewGeneration, Breaker
<1>4. ASSUME NEW p \in Callers, BeforeRequest(p) PROVE FALSE
  <2>1. cb'.state = b.state
    BY <1>2, <1>4 DEF BeforeRequest, b, Breaker
  <2> QED BY <1>2, <2>1
<1>5. ASSUME NEW p \in Callers, NEW ok \in BOOLEAN, AfterRequest(p, ok) PROVE cb'.remaining = Timeout
  <2>1. cb' \in {b, OnSuccess(b), OnFailure(b)}
    BY <1>5 DEF AfterRequest, b
  <2> DEFINE c == [b EXCEPT !.counts = CountSuccess(@)]
             f == [b EXCEPT !.counts = CountFailure(@)]
  <2>2. /\ c \in Breaker /\ c.state = b.state
        /\ f \in Breaker /\ f.state = b.state
    <3>1. CountSuccess(b.counts) \in Counts /\ CountFailure(b.counts) \in Counts
      BY <1>2 DEF CountSuccess, CountFailure, Counts, Breaker
    <3> QED BY <1>2, <3>1 DEF Breaker
  <2>3. OnSuccess(b).state # "open"
    <3>1. OnSuccess(b) = c \/ (b.state = "half-open" /\ OnSuccess(b) = SetState(c, "closed"))
      BY DEF OnSuccess
    <3> QED BY <1>2, <1>3, <2>2, <3>1 DEF States
  <2>4. OnFailure(b) = f \/ OnFailure(b) = SetState(f, "open")
    BY DEF OnFailure
  <2>5. cb' = SetState(f, "open")
    BY <1>2, <2>1, <2>2, <2>3, <2>4
  <2> HIDE DEF c, f
  <2> QED BY <1>2, <1>3, <2>2, <2>5 DEF States, ExpiryOf
<1>6. CASE Reset
  <2>1. cb'.state = "closed"
    BY <1>1, <1>6 DEF Reset, SetState, ToNewGeneration, Breaker
  <2> QED BY <2>1
<1>7. CASE ReadState
  <2>1. cb' = cb \/ cb'.state = b.state
    BY <1>2, <1>7 DEF ReadState, b, Breaker
  <2> QED BY <1>2, <2>1
<1> QED BY <1>4, <1>5, <1>6, <1>7 DEF Step

LEMMA CountsDownPreserved ==
  ASSUME IInv, CountsDown, [MCTick \/ MCStep]_<<vars, inState>>
  PROVE  CountsDown'
<1>1. cb \in Breaker /\ Timeout \in Nat
  BY ConfigAssumption DEF IInv, BInv, Typed
<1>2. CASE MCTick
  <2>1. cb'.state = cb.state /\ cb'.remaining = cb.remaining - 1
    BY <1>1, <1>2 DEF MCTick, Tick, Breaker
  <2>2. cb.remaining \in Int
    BY <1>1 DEF Breaker, Expired
  <2> QED BY <1>1, <1>2, <2>1, <2>2 DEF MCTick, CountsDown
<1>3. CASE MCStep
  <2>1. CASE cb.state = "open"
    BY <1>3, <2>1, LeavesOpen DEF MCStep, CountsDown
  <2>2. CASE cb.state # "open"
    BY <1>1, <1>3, <2>2, Opens DEF MCStep, CountsDown
  <2> QED BY <2>1, <2>2
<1>4. CASE UNCHANGED <<vars, inState>>
  BY <1>4 DEF vars, CountsDown
<1> QED BY <1>2, <1>3, <1>4

\* currentState: an open breaker lets no probe in before Timeout is over,
\* whatever late results, State() readers or refused callers do meanwhile.
THEOREM HoldsOpen == MCSpec => OpenHoldsForTimeout
<1> DEFINE Early == cb.state = "open" /\ cb'.state = "half-open"
<1>1. MCInit => IInv /\ CountsDown
  BY InitInv DEF MCInit, CountsDown, Init
<1>2. IInv /\ CountsDown /\ [MCTick \/ MCStep]_<<vars, inState>> => IInv' /\ CountsDown'
  <2>1. [MCTick \/ MCStep]_<<vars, inState>> => [Next]_vars
    BY DEF MCTick, MCStep, Next
  <2> QED BY <2>1, NextInv, CountsDownPreserved
<1>3. IInv /\ CountsDown /\ [MCTick \/ MCStep]_<<vars, inState>>
        => [Early => inState > Timeout]_<<vars, inState>>
  <2> SUFFICES ASSUME IInv, CountsDown, MCTick \/ MCStep, Early PROVE inState > Timeout
    BY DEF vars
  <2>1. cb \in Breaker /\ Timeout \in Nat
    BY ConfigAssumption DEF IInv, BInv, Typed
  <2>2. ~Tick
    BY <2>1 DEF Tick, Breaker
  <2>3. cb.remaining = Expired
    BY <2>2, LeavesOpen DEF MCTick, MCStep
  <2> QED BY <2>1, <2>3 DEF CountsDown, Expired
<1> QED BY <1>1, <1>2, <1>3, PTL DEF MCSpec, OpenHoldsForTimeout
=============================================================================
