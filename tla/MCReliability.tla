--------------------------- MODULE MCReliability ---------------------------
(***************************************************************************)
(* Reliability with a history variable: the calls of fn that each caller   *)
(* started after its context was done.                                     *)
(***************************************************************************)
EXTENDS Reliability

VARIABLE late

MCLimits == {[rate |-> 1, burst |-> 1]}

MCInit == Init /\ late = [p \in Callers |-> 0]

Starts(p) == phase[p] # "call" /\ phase'[p] = "call" /\ p \in cancelled

MCNext ==
    /\ Next
    /\ late' = [p \in Callers |-> IF Starts(p) THEN late[p] + 1 ELSE late[p]]

MCSpec == MCInit /\ [][MCNext]_<<vars, late>> /\ Fairness

\* A done context lets at most one more call through to the API: Retry looks at
\* it after an attempt, not before one, and Wait not at all if a token is there.
AtMostOneLateCall == \A p \in Callers : late[p] <= 1
=============================================================================
