--------------------------- MODULE MCTokenBucket ---------------------------
(***************************************************************************)
(* TokenBucket beside an ideal bucket, a history variable: filled at every *)
(* tick at the fastest rate, up to the largest burst, drained by every     *)
(* grant.                                                                  *)
(***************************************************************************)
EXTENDS TokenBucket, FiniteSetsExt

VARIABLE ideal

MCLimits == {[rate |-> 1, burst |-> 0],
             [rate |-> 1, burst |-> 2],
             [rate |-> 2, burst |-> 1]}

Fastest == Max({l.rate : l \in Limits})
Fullest == Max({l.burst : l \in Limits}) * TokenUnits

Granted == \E p \in Callers : pc[p] = "try" /\ pc'[p] = "granted"

MCInit == Init /\ ideal = Fullest

MCTick == Tick /\ ideal' = Lesser(ideal + Fastest, Fullest)

MCGrant ==
    /\ \E p \in Callers : TryAllow(p)
    /\ ideal' = IF Granted THEN ideal - TokenUnits ELSE ideal

MCAllow ==
    /\ Allow
    /\ ideal' = IF tokens' = Refilled THEN ideal ELSE ideal - TokenUnits

MCReset == Reset /\ ideal' = Fullest

MCOther ==
    /\ \/ \E p \in Callers : Cancel(p) \/ Wait(p) \/ Reserve(p) \/ Wake(p) \/ Abort(p)
       \/ SetRate
       \/ Stats
    /\ UNCHANGED ideal

MCNext == MCTick \/ MCGrant \/ MCAllow \/ MCReset \/ MCOther

MCSpec == MCInit /\ [][MCNext]_<<vars, ideal>> /\ Fairness

\* The limit holds over every window of time, not only on average: what the
\* lazy bucket could grant now, its uncounted elapsed time included, never
\* exceeds what is left of an ideal bucket with the fastest rate and largest
\* burst configured, whatever SetRate did in between.
WithinLimit == Refilled <= ideal
=============================================================================
