-------------------------- MODULE MCCircuitBreaker --------------------------
(***************************************************************************)
(* CircuitBreaker with a history variable: the ticks that the breaker has  *)
(* spent in its present state, counted from outside.                       *)
(***************************************************************************)
EXTENDS CircuitBreaker

VARIABLE inState

MCInit == Init /\ inState = 0

MCTick == Tick /\ inState' = IF cb.state = "open" THEN inState + 1 ELSE 0

MCStep == Step /\ inState' = IF cb'.state = cb.state THEN inState ELSE 0

MCSpec == MCInit /\ [][MCTick \/ MCStep]_<<vars, inState>> /\ Fairness

\* The breaker stays open for more than Timeout, whatever late results, State()
\* readers or refused callers do meanwhile; only Reset ends it sooner.
OpenHoldsForTimeout ==
    [][cb.state = "open" /\ cb'.state = "half-open" => inState > Timeout]_<<vars, inState>>
=============================================================================
