------------------------- MODULE TokenBucket_proofs -------------------------
(***************************************************************************)
(* The rate limiter never grants more than it may, for any callers, token  *)
(* size and limits.  The lazy bucket is compared with the ideal one of     *)
(* MCTokenBucket; what makes the comparison inductive is to credit the     *)
(* time that has not been refilled yet at the fastest rate, since SetRate  *)
(* may credit it at any.                                                   *)
(***************************************************************************)
EXTENDS MCTokenBucket, FiniteSetTheorems, WellFoundedInduction, TLAPS

\* What the bucket comes to if the elapsed time is credited at the fastest rate.
Credited == Lesser(tokens + Fastest * elapsed, Fullest)

\* The ideal bucket covers it.
Covered == ideal \in Nat /\ Credited <= ideal

IInv == TypeOK /\ Covered

-----------------------------------------------------------------------------
(* Arithmetic *)

LEMMA Products == \A a, b \in Nat : a * b \in Nat
OBVIOUS

LEMMA ProductMonotone == \A a, b, c \in Nat : a <= b => a * c <= b * c
OBVIOUS

LEMMA ProductNext == \A a, b \in Nat : a * (b + 1) = a * b + a
OBVIOUS

LEMMA Quotients == \A a \in Nat : \A r \in Nat \ {0} : a \div r \in 0 .. a
OBVIOUS

LEMMA LesserIs == \A a, b \in Int : /\ Lesser(a, b) \in {a, b}
                                    /\ Lesser(a, b) <= a /\ Lesser(a, b) <= b
BY DEF Lesser

\* A finite set of naturals has a greatest element: a smallest subset without
\* one would lose nothing but its own greatest by losing an element.
LEMMA GreatestExists ==
  ASSUME NEW S, S \subseteq Nat, S # {}, IsFiniteSet(S)
  PROVE  \E m \in S : \A k \in S : m >= k
<1> DEFINE Greatest(A) == \E m \in A : \A k \in A : m >= k
           Bad == {A \in SUBSET S : A # {} /\ ~Greatest(A)}
           R == StrictSubsetOrdering(S)
<1> SUFFICES ASSUME ~Greatest(S) PROVE FALSE
  OBVIOUS
<1>1. IsWellFoundedOn(R, SUBSET S)
  BY FS_StrictSubsetOrderingWellFounded, FS_FiniteSubsetsOfFinite
<1>2. \A A, B \in SUBSET S : <<A, B>> \in R <=> A \subseteq B /\ A # B
  BY DEF StrictSubsetOrdering
<1>3. Bad # {} /\ Bad \subseteq SUBSET S
  OBVIOUS
<1> HIDE DEF R, Bad
<1>4. PICK A \in Bad : \A B \in Bad : ~(<<B, A>> \in R)
  BY <1>1, <1>3, WFMin
<1>5. A \in SUBSET S /\ A # {} /\ ~Greatest(A)
  BY DEF Bad
<1>6. PICK x \in A : TRUE
  BY <1>5
<1> DEFINE B == A \ {x}
<1>7. B \in SUBSET S /\ <<B, A>> \in R
  BY <1>2, <1>5
<1>8. B \notin Bad
  BY <1>4, <1>7
<1>9. CASE B = {}
  <2>1. A = {x} /\ x \in Nat
    BY <1>5, <1>9
  <2> QED BY <2>1, <1>5
<1>10. CASE B # {}
  <2>1. PICK m \in B : \A k \in B : m >= k
    BY <1>7, <1>8, <1>10 DEF Bad
  <2>2. m \in Nat /\ x \in Nat /\ A \subseteq Nat
    BY <1>5
  <2>3. CASE m >= x
    BY <2>1, <2>2, <2>3, <1>5
  <2>4. CASE x > m
    <3>1. \A k \in A : x >= k
      BY <2>1, <2>2, <2>4
    <3> QED BY <3>1, <1>5
  <2> QED BY <2>2, <2>3, <2>4
<1> QED BY <1>9, <1>10

\* The fastest rate and the largest burst are those of limits.
LEMMA Extremes ==
  /\ Fastest \in Nat /\ \A l \in Limits : l.rate <= Fastest
  /\ Fullest \in Nat /\ \A l \in Limits : l.burst * TokenUnits <= Fullest
<1> DEFINE Rates == {l.rate : l \in Limits}
           Bursts == {l.burst : l \in Limits}
<1>1. /\ Rates \subseteq Nat /\ Rates # {} /\ IsFiniteSet(Rates)
      /\ Bursts \subseteq Nat /\ Bursts # {} /\ IsFiniteSet(Bursts)
  <2>1. \A l \in Limits : l.rate \in Nat /\ l.burst \in Nat
    BY LimitsAssumption
  <2>2. IsFiniteSet(Rates)
    <3>1. [l \in Limits |-> l.rate] \in Surjection(Limits, Rates)
      BY DEF Surjection
    <3> QED BY <3>1, FS_Surjection, LimitsAssumption
  <2>3. IsFiniteSet(Bursts)
    <3>1. [l \in Limits |-> l.burst] \in Surjection(Limits, Bursts)
      BY DEF Surjection
    <3> QED BY <3>1, FS_Surjection, LimitsAssumption
  <2> QED BY <2>1, <2>2, <2>3, LimitsAssumption
<1> HIDE DEF Rates, Bursts
<1>2. Max(Rates) \in Rates /\ \A k \in Rates : Max(Rates) >= k
  BY <1>1, GreatestExists DEF Max
<1>3. Max(Bursts) \in Bursts /\ \A k \in Bursts : Max(Bursts) >= k
  BY <1>1, GreatestExists DEF Max
<1>4. Fastest = Max(Rates) /\ Fullest = Max(Bursts) * TokenUnits
  BY DEF Fastest, Fullest, Rates, Bursts
<1>5. \A l \in Limits : l.rate \in Rates /\ l.burst \in Bursts
  BY DEF Rates, Bursts
<1>6. \A l \in Limits : l.burst * TokenUnits <= Fullest
  BY <1>1, <1>3, <1>4, <1>5, ProductMonotone, TokenUnitsAssumption
<1> QED BY <1>1, <1>2, <1>3, <1>4, <1>5, <1>6, Products, TokenUnitsAssumption

-----------------------------------------------------------------------------
(* The bucket *)

\* refillTokens stays within the bucket and gives no more than the fastest rate
\* would.
LEMMA RefilledBounds ==
  ASSUME TypeOK
  PROVE  /\ Refilled \in 0 .. Capacity
         /\ Refilled <= Credited
         /\ Capacity \in Nat /\ Capacity <= Fullest
         /\ Credited \in Nat
<1> DEFINE slow == limit.rate * elapsed
           fast == Fastest * elapsed
<1>1. limit.rate \in Nat \ {0} /\ limit.burst \in Nat /\ elapsed \in Nat /\ limit \in Limits
  BY LimitsAssumption, BoundsAssumption DEF TypeOK
<1>2. Capacity \in Nat /\ Capacity <= Fullest /\ tokens \in 0 .. Capacity
  BY <1>1, Extremes, Products, TokenUnitsAssumption DEF TypeOK, Capacity
<1>3. slow \in Nat /\ fast \in Nat /\ slow <= fast
  BY <1>1, Extremes, Products, ProductMonotone
<1>4. Refilled = Lesser(tokens + slow, Capacity) /\ Credited = Lesser(tokens + fast, Fullest)
  BY DEF Refilled, Credited
<1> HIDE DEF slow, fast
<1> QED BY <1>2, <1>3, <1>4, Extremes DEF Lesser

LEMMA DelayBounds ==
  ASSUME TypeOK, Refilled < TokenUnits
  PROVE  DelayForToken \in 0 .. TokenUnits
<1>1. Refilled \in Nat /\ TokenUnits - Refilled \in Nat /\ TokenUnits - Refilled <= TokenUnits
  BY RefilledBounds, TokenUnitsAssumption
<1>2. limit.rate \in Nat \ {0}
  BY LimitsAssumption DEF TypeOK
<1>3. DelayForToken \in 0 .. (TokenUnits - Refilled)
  BY <1>1, <1>2, Quotients DEF DelayForToken
<1> QED BY <1>1, <1>3, TokenUnitsAssumption

\* The invariant is about the bucket and the ideal one; what a step does to a
\* caller matters to its types only.
LEMMA SpentPreserves ==
  ASSUME IInv, NEW n \in {0, TokenUnits}, n <= Refilled, tokens' = Refilled - n,
         elapsed' = 0, limit' = limit, ideal' = ideal - n
  PROVE  tokens' \in 0 .. Capacity' /\ elapsed' \in 0 .. MaxElapsed /\ Covered'
<1>1. /\ Refilled \in 0 .. Capacity /\ Refilled <= ideal
      /\ Capacity \in Nat /\ Capacity <= Fullest /\ ideal \in Nat
  BY RefilledBounds DEF IInv, Covered
<1>2. Capacity' = Capacity
  BY DEF Capacity
<1>3. n \in Nat /\ tokens' \in 0 .. Capacity /\ tokens' <= ideal'
  BY <1>1, TokenUnitsAssumption
<1>4. Fastest * elapsed' = 0
  BY Extremes
<1>5. Credited' = Lesser(tokens', Fullest)
  BY <1>3, <1>4 DEF Credited
<1>6. Credited' <= ideal' /\ ideal' \in Nat
  BY <1>1, <1>3, <1>5, Extremes, TokenUnitsAssumption DEF Lesser
<1> QED BY <1>2, <1>3, <1>6, BoundsAssumption DEF Covered

LEMMA TickPreserves ==
  ASSUME IInv, MCTick
  PROVE  IInv'
<1> USE DEF MCTick, Tick
<1>1. TypeOK'
  BY TokenUnitsAssumption, BoundsAssumption DEF IInv, TypeOK, Lesser, Capacity
<1>2. ideal' \in Nat
  BY Extremes DEF IInv, Covered, Lesser
<1>3. Credited' <= ideal'
  <2> DEFINE fast == Fastest * elapsed
             next == Fastest * elapsed'
  <2>1. elapsed \in Nat /\ elapsed' \in Nat /\ elapsed' <= elapsed + 1 /\ tokens \in Nat
    BY RefilledBounds, BoundsAssumption DEF IInv, TypeOK, Lesser
  <2>2. Fastest * (elapsed + 1) = fast + Fastest
    BY <2>1, Extremes, ProductNext
  <2>3. next <= Fastest * (elapsed + 1)
    <3>1. elapsed' * Fastest <= (elapsed + 1) * Fastest
      BY <2>1, Extremes, ProductMonotone
    <3> QED BY <3>1, <2>1, Extremes
  <2>4. fast \in Nat /\ next \in Nat /\ next <= fast + Fastest
    BY <2>1, <2>2, <2>3, Extremes, Products
  <2>5. Credited = Lesser(tokens + fast, Fullest) /\ Credited' = Lesser(tokens + next, Fullest)
    BY DEF Credited
  <2> HIDE DEF fast, next
  <2> QED BY <2>1, <2>4, <2>5, Extremes DEF IInv, Covered, Lesser
<1> QED BY <1>1, <1>2, <1>3 DEF IInv, Covered

\* Wait's loop, its try.
LEMMA GrantPreserves ==
  ASSUME IInv, MCGrant
  PROVE  IInv'
<1>1. PICK p \in Callers : TryAllow(p)
  BY DEF MCGrant
<1>2. pc \in [Callers -> {"idle"} \cup Waiting \cup Finished]
  BY DEF IInv, TypeOK
<1>3. CASE Refilled >= TokenUnits
  <2>1. Granted
    BY <1>1, <1>2, <1>3 DEF TryAllow, Granted
  <2>2. TokenUnits <= Refilled
    BY <1>3, RefilledBounds, TokenUnitsAssumption DEF IInv
  <2>3. tokens' \in 0 .. Capacity' /\ elapsed' \in 0 .. MaxElapsed /\ Covered'
    BY <1>1, <1>3, <2>1, <2>2, SpentPreserves DEF TryAllow, MCGrant
  <2> QED BY <1>1, <1>3, <2>3 DEF TryAllow, IInv, TypeOK, Finished
<1>4. CASE ~(Refilled >= TokenUnits)
  <2>1. ~Granted
    BY <1>1, <1>2, <1>4 DEF TryAllow, Granted
  <2>2. /\ 0 <= Refilled /\ Refilled = Refilled - 0 /\ ideal = ideal - 0
    BY RefilledBounds DEF IInv, Covered
  <2>3. tokens' \in 0 .. Capacity' /\ elapsed' \in 0 .. MaxElapsed /\ Covered'
    BY <1>1, <1>4, <2>1, <2>2, SpentPreserves DEF TryAllow, MCGrant
  <2> QED BY <1>1, <1>4, <2>3 DEF TryAllow, IInv, TypeOK, Waiting
<1> QED BY <1>3, <1>4

\* Allow called by somebody else.
LEMMA AllowPreserves ==
  ASSUME IInv, MCAllow
  PROVE  IInv'
<1> USE DEF MCAllow, Allow
<1>1. Refilled \in Nat /\ ideal \in Nat
  BY RefilledBounds DEF IInv, Covered
<1>2. PICK n \in {0, TokenUnits} :
          n <= Refilled /\ tokens' = Refilled - n /\ ideal' = ideal - n
  BY <1>1, TokenUnitsAssumption
<1>3. tokens' \in 0 .. Capacity' /\ elapsed' \in 0 .. MaxElapsed /\ Covered'
  BY <1>2, SpentPreserves
<1> QED BY <1>3, BoundsAssumption DEF IInv, TypeOK

LEMMA ResetPreserves ==
  ASSUME IInv, MCReset
  PROVE  IInv'
<1> USE DEF MCReset, Reset
<1>1. Capacity \in Nat /\ Capacity <= Fullest /\ Capacity' = Capacity
  BY RefilledBounds DEF IInv, Capacity
<1>2. Fastest * elapsed' = 0
  BY Extremes
<1>3. Credited' <= ideal' /\ ideal' \in Nat
  BY <1>1, <1>2, Extremes DEF Credited, Lesser
<1> QED BY <1>1, <1>3, BoundsAssumption DEF IInv, TypeOK, Covered

\* Steps that grant nothing.
LEMMA OtherPreserves ==
  ASSUME IInv, MCOther
  PROVE  IInv'
<1> USE DEF MCOther
<1>0. 0 <= Refilled /\ Refilled = Refilled - 0 /\ ideal = ideal - 0
  BY RefilledBounds DEF IInv, Covered
<1>1. ASSUME NEW p \in Callers, Cancel(p) \/ Wait(p) \/ Wake(p) \/ Abort(p)
      PROVE  IInv'
  <2>1. UNCHANGED <<tokens, elapsed, limit, ideal>>
    BY <1>1 DEF Cancel, Wait, Wake, Abort, bucket
  <2>2. Covered' /\ Capacity' = Capacity
    BY <2>1 DEF IInv, Covered, Credited, Capacity
  <2>3. TypeOK'
    BY <1>1, <2>1, <2>2, TokenUnitsAssumption
    DEF IInv, TypeOK, Cancel, Wait, Wake, Abort, Waiting, Finished
  <2> QED BY <2>2, <2>3 DEF IInv
<1>2. ASSUME NEW p \in Callers, Reserve(p)
      PROVE  IInv'
  <2>1. tokens' \in 0 .. Capacity' /\ elapsed' \in 0 .. MaxElapsed /\ Covered'
    BY <1>0, <1>2, SpentPreserves DEF Reserve
  <2>2. timer' \in [Callers -> 0 .. TokenUnits]
    <3>1. Refilled \in Nat
      BY RefilledBounds DEF IInv
    <3>2. Refilled < TokenUnits => DelayForToken \in 0 .. TokenUnits
      BY DelayBounds DEF IInv
    <3> QED BY <1>2, <3>1, <3>2, TokenUnitsAssumption DEF Reserve, IInv, TypeOK
  <2>3. pc' \in [Callers -> {"idle"} \cup Waiting \cup Finished]
    BY <1>2 DEF Reserve, IInv, TypeOK, Waiting, Finished
  <2> QED BY <1>2, <2>1, <2>2, <2>3 DEF Reserve, IInv, TypeOK
<1>3. CASE SetRate
  <2>1. limit' \in Limits /\ limit'.burst * TokenUnits \in Nat
    BY <1>3, LimitsAssumption, Products, TokenUnitsAssumption DEF SetRate
  <2>2. tokens \in Nat /\ tokens' \in 0 .. Capacity' /\ tokens' <= tokens
    BY <1>3, <2>1, RefilledBounds DEF SetRate, IInv, TypeOK, Lesser, Capacity
  <2>3. Fastest * elapsed \in Nat
    BY Extremes, Products, BoundsAssumption DEF IInv, TypeOK
  <2>4. Credited' <= Credited
    BY <1>3, <2>2, <2>3, Extremes DEF SetRate, Credited, Lesser
  <2>5. Covered'
    BY <1>3, <2>2, <2>3, <2>4, Extremes DEF SetRate, IInv, Covered, Credited, Lesser
  <2> QED BY <1>3, <2>1, <2>2, <2>5 DEF SetRate, IInv, TypeOK
<1>4. CASE Stats
  <2>1. tokens' \in 0 .. Capacity' /\ elapsed' \in 0 .. MaxElapsed /\ Covered'
    BY <1>0, <1>4, SpentPreserves DEF Stats
  <2> QED BY <1>4, <2>1 DEF Stats, IInv, TypeOK
<1> QED BY <1>1, <1>2, <1>3, <1>4

LEMMA InitInv == MCInit => IInv
<1> SUFFICES ASSUME MCInit PROVE IInv
  OBVIOUS
<1> USE DEF MCInit, Init
<1>1. Capacity \in Nat /\ Capacity <= Fullest
  BY Extremes, LimitsAssumption, TokenUnitsAssumption, Products DEF Capacity
<1>2. TypeOK
  BY <1>1, TokenUnitsAssumption, BoundsAssumption DEF TypeOK
<1>3. Fastest * elapsed = 0
  BY Extremes
<1> QED BY <1>1, <1>2, <1>3, Extremes DEF IInv, Covered, Credited, Lesser

LEMMA NextInv == IInv /\ [MCNext]_<<vars, ideal>> => IInv'
<1> SUFFICES ASSUME IInv, [MCNext]_<<vars, ideal>> PROVE IInv'
  OBVIOUS
<1>1. CASE MCNext
  BY <1>1, TickPreserves, GrantPreserves, AllowPreserves, ResetPreserves, OtherPreserves
  DEF MCNext
<1>2. CASE UNCHANGED <<vars, ideal>>
  BY <1>2 DEF vars, IInv, TypeOK, Covered, Credited, Capacity
<1> QED BY <1>1, <1>2

-----------------------------------------------------------------------------
(* Theorems *)

\* The types of the bucket and of its callers, and that the ideal bucket covers
\* the lazy one even if the time it has not counted yet came at the fastest rate
\* there is: what Wait, Allow, SetRate, Stats and Reset preserve together.
THEOREM Invariance == MCSpec => []IInv
BY InitInv, NextInv, PTL DEF MCSpec

\* tokens stays within the bucket of the current limit, also when SetRate makes
\* that smaller, and no delay exceeds what a whole token takes at one unit a
\* tick.
THEOREM TypeCorrect == MCSpec => []TypeOK
<1>1. IInv => TypeOK
  BY DEF IInv
<1> QED BY <1>1, Invariance, PTL

\* Over any window of time the rate limiter grants no more than an ideal bucket
\* with the fastest rate and the largest burst, whatever refills, SetRate and
\* the callers' order were.
THEOREM LimitHolds == MCSpec => []WithinLimit
<1>1. IInv => WithinLimit
  <2> SUFFICES ASSUME IInv PROVE WithinLimit
    OBVIOUS
  <2> QED BY RefilledBounds DEF IInv, Covered, WithinLimit
<1> QED BY <1>1, Invariance, PTL
=============================================================================
