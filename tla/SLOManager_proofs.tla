-------------------------- MODULE SLOManager_proofs --------------------------
(***************************************************************************)
(* Theorems about the SLO manager, for any windows and any number of       *)
(* calculations: types, that a budget never precedes its values, and that  *)
(* nothing is started once Stop has returned.                              *)
(***************************************************************************)
EXTENDS SLOManager, FiniteSetTheorems, SequenceTheorems, TLAPS

Calculation == [window : Names, stage : 1 .. 3]

\* The windows whose ticker holds a tick: each is a calculation to come.
Due == {v \in Names : ticker[v]}

\* The bound on calculations leaves room for every tick that is due, and before
\* the loop is entered for a first calculation of each window.
Room ==
    /\ calculations \in Seq(Calculation)
    /\ Len(calculations) + Cardinality(Due) <= MaxCalculations
    /\ loop = "none" => checked = 0
    /\ loop \in {"none", "starting"} => Len(calculations) = checked /\ Due = {}

\* A calculation past its first critical section has left values.
Stored ==
    \A i \in 1 .. Len(calculations) :
        calculations[i].stage > 1 => lastCalculation[calculations[i].window] # 0

\* Stop has returned: the loop is over, or monitoring is not enabled at all.
Stopped == caller.stop = "returned" /\ enabled => loop = "ended"

IInv == TypeOK /\ Room /\ Stored /\ BudgetsFollowValues /\ Stopped

-----------------------------------------------------------------------------
LEMMA WindowNames == Len(Windows) \in Nat /\ \A i \in 1 .. Len(Windows) : Windows[i] \in Names
BY WindowsAssumption DEF Names

LEMMA ThreeStages ==
  /\ Len(Stages) = 3
  /\ \A k \in 1 .. 3 : /\ Stages[k] = "values" <=> k = 1
                       /\ Stages[k] = "budgets" <=> k = 2
BY DEF Stages

\* The windows are finitely many, so are the ticks.
LEMMA DueFinite == IsFiniteSet(Names) /\ IsFiniteSet(Due) /\ Cardinality(Due) \in Nat
<1>1. IsFiniteSet(1 .. Len(Windows))
  BY FS_Interval, WindowNames
<1> DEFINE f == [i \in 1 .. Len(Windows) |-> Windows[i]]
<1>2. f \in Surjection(1 .. Len(Windows), Names)
  BY WindowNames DEF Surjection, Names
<1>3. IsFiniteSet(Names)
  BY <1>1, <1>2, FS_Surjection
<1> QED BY <1>3, FS_Subset, FS_CardinalityType DEF Due

-----------------------------------------------------------------------------
LEMMA InitInv == Init => IInv
<1> SUFFICES ASSUME Init PROVE IInv
  OBVIOUS
<1> USE WindowNames, BoundsAssumption DEF Init
<1>1. calculations \in Seq(Calculation) /\ Len(calculations) = 0
  OBVIOUS
<1>2. Due = {} /\ Cardinality(Due) = 0
  <2>1. Due = {}
    BY DEF Due
  <2> QED BY <2>1, FS_EmptySet
<1>3. Room
  BY <1>1, <1>2 DEF Room
<1>4. TypeOK
  <2>1. lastCalculation \in [Names -> {0} \cup Ids] /\ ticker \in [Names -> BOOLEAN]
    OBVIOUS
  <2>2. errorBudgets \in [Names -> Seq(Ids)]
    BY EmptySeq
  <2>3. checked \in 0 .. Len(Windows) /\ Len(calculations) <= MaxCalculations
    BY <1>1
  <2>4. caller \in [started : BOOLEAN, stop : {"no", "waiting", "returned"}]
    OBVIOUS
  <2>5. /\ enabled \in BOOLEAN /\ ctxDone \in BOOLEAN /\ stopCh \in BOOLEAN
        /\ doneCh = (loop = "ended") /\ loop = "none"
    OBVIOUS
  <2>6. \A i \in 1 .. Len(calculations) :
          calculations[i] \in [window : Names, stage : 1 .. Len(Stages)]
    BY <1>1
  <2> HIDE DEF Init
  <2> QED BY <2>1, <2>2, <2>3, <2>4, <2>5, <2>6 DEF TypeOK
<1> QED BY <1>1, <1>3, <1>4 DEF IInv, Stored, BudgetsFollowValues, Stopped

\* Steps of Start's and Stop's callers and of the loop that spawn nothing.
LEMMA ControlInv ==
  ASSUME IInv, \/ Start \/ Stop \/ StopWaits \/ CancelContext
               \/ EnterLoop \/ Return \/ Pass \/ EndPass
  PROVE  IInv'
<1> USE WindowNames DEF Start, Stop, StopWaits, CancelContext, EnterLoop, Return, Pass, EndPass,
                        control, state
<1>1. UNCHANGED <<enabled, ticker, calculations, lastCalculation, errorBudgets>>
  OBVIOUS
<1>2. TypeOK'
  <2>1. caller' \in [started : BOOLEAN, stop : {"no", "waiting", "returned"}]
    BY DEF IInv, TypeOK
  <2>2. checked' \in 0 .. Len(Windows)
    <3>1. checked' = checked \/ checked' = 0
      OBVIOUS
    <3> QED BY <3>1 DEF IInv, TypeOK
  <2>3. stopCh' \in BOOLEAN /\ ctxDone' \in BOOLEAN
    <3>1. (stopCh' = stopCh \/ stopCh' = TRUE) /\ (ctxDone' = ctxDone \/ ctxDone' = TRUE)
      OBVIOUS
    <3> QED BY <3>1 DEF IInv, TypeOK
  <2>4. loop' \in {"none", "starting", "select", "tickers", "ended"} /\ doneCh' = (loop' = "ended")
    BY DEF IInv, TypeOK
  <2>5. loop' # "none" => enabled /\ caller'.started
    BY DEF IInv, TypeOK
  <2> QED BY <1>1, <2>1, <2>2, <2>3, <2>4, <2>5 DEF IInv, TypeOK
<1>3. Room'
  BY <1>1 DEF IInv, TypeOK, Room, Due
<1>4. Stored' /\ BudgetsFollowValues'
  BY <1>1 DEF IInv, Stored, BudgetsFollowValues
<1>5. Stopped'
  BY DEF IInv, TypeOK, Stopped
<1> QED BY <1>2, <1>3, <1>4, <1>5 DEF IInv

LEMMA TickerInv == ASSUME IInv, NEW w \in Names, TickerFires(w) PROVE IInv'
<1> USE DEF TickerFires, control, state
<1>1. Due' = Due \cup {w} /\ w \notin Due
  BY DEF IInv, TypeOK, Due
<1>2. Cardinality(Due') = Cardinality(Due) + 1
  BY <1>1, FS_AddElement, DueFinite
<1>3. TypeOK'
  BY DEF IInv, TypeOK
<1>4. Room'
  BY <1>2, DueFinite, BoundsAssumption, LenProperties DEF IInv, Room, Due
<1>5. Stored' /\ BudgetsFollowValues' /\ Stopped'
  BY DEF IInv, Stored, BudgetsFollowValues, Stopped
<1> QED BY <1>3, <1>4, <1>5 DEF IInv

\* A new calculation has stored nothing yet.
LEMMA SpawnedProperties ==
  ASSUME IInv, NEW w \in Names
  PROVE  /\ Spawned(w) \in Seq(Calculation)
         /\ Len(Spawned(w)) = Len(calculations) + 1
         /\ \A i \in 1 .. Len(calculations) : Spawned(w)[i] = calculations[i]
         /\ Spawned(w)[Len(calculations) + 1] = [window |-> w, stage |-> 1]
<1>1. calculations \in Seq(Calculation) /\ [window |-> w, stage |-> 1] \in Calculation
  BY DEF IInv, Room, Calculation
<1> QED BY <1>1, AppendProperties DEF Spawned

LEMMA SpawnInv ==
  ASSUME IInv, NEW w \in Names, calculations' = Spawned(w),
         Len(calculations) < MaxCalculations,
         UNCHANGED <<state, control, loop>>
  PROVE  /\ Stored' /\ BudgetsFollowValues' /\ Stopped'
         /\ Len(calculations') <= MaxCalculations
         /\ \A i \in 1 .. Len(calculations') :
              calculations'[i] \in [window : Names, stage : 1 .. Len(Stages)]
<1>0. /\ Len(calculations') = Len(calculations) + 1
      /\ \A i \in 1 .. Len(calculations) : calculations'[i] = calculations[i]
      /\ calculations'[Len(calculations) + 1] = [window |-> w, stage |-> 1]
  BY SpawnedProperties
<1>1. Len(calculations) \in Nat
  BY LenProperties DEF IInv, Room
<1>2. \A i \in 1 .. Len(calculations') :
        i \in 1 .. Len(calculations) \/ i = Len(calculations) + 1
  BY <1>0, <1>1
<1>3. Stored'
  BY <1>0, <1>2 DEF IInv, Stored, state
<1>4. BudgetsFollowValues' /\ Stopped'
  BY DEF IInv, BudgetsFollowValues, Stopped, state, control
<1>5. \A i \in 1 .. Len(calculations') :
        calculations'[i] \in [window : Names, stage : 1 .. Len(Stages)]
  BY <1>0, <1>2, ThreeStages DEF IInv, TypeOK
<1>6. Len(calculations') <= MaxCalculations
  BY <1>0, <1>1, BoundsAssumption
<1> QED BY <1>3, <1>4, <1>5, <1>6

LEMMA StartWindowInv == ASSUME IInv, StartWindow PROVE IInv'
<1> DEFINE w == Windows[checked + 1]
<1> USE DEF StartWindow
<1>1. checked \in Nat /\ checked < Len(Windows) /\ w \in Names
  BY WindowNames DEF IInv, TypeOK
<1>2. Len(calculations) = checked /\ Due = {}
  BY DEF IInv, Room
<1>3. /\ calculations' = Spawned(w) /\ Len(calculations) < MaxCalculations
      /\ UNCHANGED <<state, control, loop, ticker>>
  BY <1>1, <1>2, BoundsAssumption, WindowNames
<1> HIDE DEF w, StartWindow
<1>4. Due' = {} /\ Cardinality(Due') = 0
  BY <1>2, <1>3, FS_EmptySet DEF Due
<1>5. checked' = checked + 1 /\ loop = "starting"
  BY DEF StartWindow
<1>6. Room'
  <2>1. calculations' \in Seq(Calculation) /\ Len(calculations') = Len(calculations) + 1
    BY <1>1, <1>3, SpawnedProperties
  <2> QED BY <1>1, <1>2, <1>3, <1>4, <1>5, <2>1, BoundsAssumption, WindowNames DEF Room
<1>7. TypeOK'
  BY <1>1, <1>3, <1>5, SpawnInv, WindowNames DEF IInv, TypeOK, state, control
<1> QED BY <1>1, <1>3, <1>6, <1>7, SpawnInv DEF IInv

LEMMA CheckTickerInv == ASSUME IInv, CheckTicker PROVE IInv'
<1> DEFINE w == Windows[checked + 1]
<1> USE DEF CheckTicker
<1>1. /\ checked \in Nat /\ checked < Len(Windows) /\ w \in Names
      /\ checked' = checked + 1 /\ loop = "tickers"
      /\ UNCHANGED <<state, control, loop>>
      /\ ticker' = [ticker EXCEPT ![w] = FALSE]
      /\ calculations' = IF ticker[w] THEN Spawned(w) ELSE calculations
  BY WindowNames DEF IInv, TypeOK
<1> HIDE DEF w, CheckTicker
<1>2. Due' = Due \ {w} /\ (w \in Due <=> ticker[w])
  BY <1>1 DEF IInv, TypeOK, Due
<1>3. Cardinality(Due') = IF ticker[w] THEN Cardinality(Due) - 1 ELSE Cardinality(Due)
  BY <1>2, FS_RemoveElement, DueFinite
<1>4. Len(calculations) \in Nat /\ calculations \in Seq(Calculation)
  BY LenProperties DEF IInv, Room
<1>5. CASE ticker[w]
  <2>1. Cardinality(Due) > 0
    BY <1>2, <1>5, FS_EmptySet, DueFinite
  <2>2. Len(calculations) < MaxCalculations
    BY <1>4, <2>1, DueFinite, BoundsAssumption DEF IInv, Room
  <2>3. Room'
    <3>1. calculations' \in Seq(Calculation) /\ Len(calculations') = Len(calculations) + 1
      BY <1>1, <1>5, SpawnedProperties
    <3> QED BY <1>1, <1>3, <1>4, <1>5, <3>1, DueFinite, BoundsAssumption DEF IInv, Room
  <2>4. TypeOK'
    BY <1>1, <1>5, <2>2, SpawnInv, WindowNames DEF IInv, TypeOK, state, control
  <2> QED BY <1>1, <1>5, <2>2, <2>3, <2>4, SpawnInv DEF IInv
<1>6. CASE ~ticker[w]
  <2>1. Room'
    BY <1>1, <1>3, <1>6 DEF IInv, Room
  <2>2. TypeOK'
    BY <1>1, <1>6, WindowNames DEF IInv, TypeOK, state, control
  <2>3. Stored' /\ BudgetsFollowValues' /\ Stopped'
    BY <1>1, <1>6 DEF IInv, Stored, BudgetsFollowValues, Stopped, state, control
  <2> QED BY <2>1, <2>2, <2>3 DEF IInv
<1> QED BY <1>5, <1>6

\* One critical section of a calculation: it moves on, the others stay.
LEMMA MoveProperties ==
  ASSUME IInv, NEW i \in 1 .. Len(calculations), Move(i), calculations[i].stage < 3
  PROVE  /\ calculations' \in Seq(Calculation) /\ Len(calculations') = Len(calculations)
         /\ calculations'[i].window = calculations[i].window
         /\ \A j \in 1 .. Len(calculations) : j # i => calculations'[j] = calculations[j]
         /\ \A j \in 1 .. Len(calculations') :
              calculations'[j] \in [window : Names, stage : 1 .. Len(Stages)]
<1> DEFINE c == [calculations[i] EXCEPT !.stage = @ + 1]
<1>1. calculations \in Seq(Calculation) /\ calculations[i] \in Calculation
  BY ElementOfSeq DEF IInv, Room
<1>2. c \in Calculation /\ c.window = calculations[i].window
  BY <1>1 DEF Calculation
<1>3. calculations' = [calculations EXCEPT ![i] = c]
  BY DEF Move
<1> HIDE DEF c
<1>4. calculations' \in Seq(Calculation) /\ Len(calculations') = Len(calculations)
  BY <1>1, <1>2, <1>3, ExceptSeq
<1>5. /\ calculations'[i] = c
      /\ \A j \in 1 .. Len(calculations) : j # i => calculations'[j] = calculations[j]
  BY <1>1, <1>3
<1>6. \A j \in 1 .. Len(calculations') : calculations'[j] \in Calculation
  BY <1>4, ElementOfSeq
<1> QED BY <1>2, <1>4, <1>5, <1>6, ThreeStages DEF Calculation

LEMMA CalculationInv == ASSUME IInv, NEW i \in Ids, CalculationStep(i) PROVE IInv'
<1> DEFINE w == calculations[i].window
<1>1. calculations \in Seq(Calculation) /\ Len(calculations) \in Nat
  BY LenProperties DEF IInv, Room
<1>2. i \in 1 .. Len(calculations) /\ i # 0
  BY <1>1, BoundsAssumption DEF CalculationStep, Ids
<1>3. calculations[i] \in Calculation
  BY <1>1, <1>2, ElementOfSeq
<1>4. w \in Names /\ calculations[i].stage \in 1 .. 3
  BY <1>3 DEF Calculation
<1>5. Move(i) /\ calculations[i].stage < 3 /\ UNCHANGED <<control, loop, checked, ticker>>
  BY <1>4, ThreeStages DEF CalculationStep, StoreCalculation, UpdateErrorBudgets, At
<1> HIDE DEF w
<1>6. Room'
  BY <1>2, <1>5, MoveProperties DEF IInv, Room, Due
<1>7. Stopped'
  BY <1>5 DEF IInv, Stopped, control
<1>8. CASE StoreCalculation(i)
  <2>1. lastCalculation' = [lastCalculation EXCEPT ![w] = i] /\ UNCHANGED errorBudgets
    BY <1>8 DEF StoreCalculation, w
  <2>2. \A v \in Names : lastCalculation'[v] = IF v = w THEN i ELSE lastCalculation[v]
    BY <2>1 DEF IInv, TypeOK
  <2>3. TypeOK'
    BY <1>2, <1>4, <1>5, <2>1, MoveProperties DEF IInv, TypeOK, control
  <2>4. BudgetsFollowValues'
    BY <1>2, <2>1, <2>2 DEF IInv, BudgetsFollowValues
  <2>5. Stored'
    <3> SUFFICES ASSUME NEW j \in 1 .. Len(calculations), calculations'[j].stage > 1
                 PROVE  lastCalculation'[calculations'[j].window] # 0
      BY <1>2, <1>5, MoveProperties DEF Stored
    <3>1. CASE j = i
      BY <3>1, <1>2, <1>4, <1>5, <2>2, MoveProperties DEF w
    <3>2. CASE j # i
      <4>1. calculations'[j] = calculations[j]
        BY <3>2, <1>2, <1>5, MoveProperties
      <4>2. calculations[j] \in Calculation
        BY <1>1, ElementOfSeq
      <4> QED BY <4>1, <4>2, <1>2, <2>2 DEF IInv, Stored, Calculation
    <3> QED BY <3>1, <3>2
  <2> QED BY <1>6, <1>7, <2>3, <2>4, <2>5 DEF IInv
<1>9. CASE UpdateErrorBudgets(i)
  <2>1. /\ errorBudgets' = [errorBudgets EXCEPT ![w] = Append(@, i)]
        /\ UNCHANGED lastCalculation
        /\ calculations[i].stage = 2
    BY <1>4, <1>9, ThreeStages DEF UpdateErrorBudgets, At, w
  <2>2. lastCalculation[w] # 0
    BY <1>2, <2>1 DEF IInv, Stored, w
  <2>3. Append(errorBudgets[w], i) \in Seq(Ids)
    BY <1>4, AppendProperties DEF IInv, TypeOK
  <2>4. TypeOK'
    BY <1>2, <1>4, <1>5, <2>1, <2>3, MoveProperties DEF IInv, TypeOK, control
  <2>5. BudgetsFollowValues'
    BY <2>1, <2>2 DEF IInv, TypeOK, BudgetsFollowValues
  <2>6. Stored'
    <3> SUFFICES ASSUME NEW j \in 1 .. Len(calculations), calculations'[j].stage > 1
                 PROVE  lastCalculation[calculations'[j].window] # 0
      BY <1>2, <1>5, <2>1, MoveProperties DEF Stored
    <3>1. CASE j = i
      BY <3>1, <1>2, <1>5, <2>2, MoveProperties DEF w
    <3>2. CASE j # i
      BY <3>2, <1>2, <1>5, MoveProperties DEF IInv, Stored
    <3> QED BY <3>1, <3>2
  <2> QED BY <1>6, <1>7, <2>4, <2>5, <2>6 DEF IInv
<1> QED BY <1>8, <1>9 DEF CalculationStep

LEMMA UnchangedInv == ASSUME IInv, UNCHANGED vars PROVE IInv'
BY DEF IInv, TypeOK, Room, Due, Stored, BudgetsFollowValues, Stopped, vars, control, state

LEMMA NextInv == IInv /\ [Next]_vars => IInv'
<1> SUFFICES ASSUME IInv, [Next]_vars PROVE IInv'
  OBVIOUS
<1> QED BY ControlInv, TickerInv, StartWindowInv, CheckTickerInv, CalculationInv, UnchangedInv
        DEF Next, RunStep

-----------------------------------------------------------------------------
(* Theorems *)

\* The invariant behind the others.
THEOREM Invariance == Spec => []IInv
BY InitInv, NextInv, PTL DEF Spec

\* Types; doneCh is closed exactly when the loop has ended, and the loop runs only
\* in an enabled manager that was started.
THEOREM TypeCorrect == Spec => []TypeOK
<1>1. IInv => TypeOK
  BY DEF IInv
<1> QED BY <1>1, Invariance, PTL

\* Readers of a window never find an error budget without values, whichever of
\* the window's calculations overlap.
THEOREM ValuesFirst == Spec => []BudgetsFollowValues
<1>1. IInv => BudgetsFollowValues
  BY DEF IInv
<1> QED BY <1>1, Invariance, PTL

\* No calculation is started once Stop has returned.
THEOREM StopIsFinal == Spec => StopEndsMonitoring
<1>1. IInv /\ [Next]_vars => [caller.stop = "returned" => Len(calculations') = Len(calculations)]_vars
  <2> SUFFICES ASSUME IInv, Next, caller.stop = "returned"
               PROVE  Len(calculations') = Len(calculations)
    OBVIOUS
  <2>1. loop \in {"none", "ended"}
    BY DEF IInv, Stopped, TypeOK
  <2>2. CASE \E i \in Ids : CalculationStep(i)
    BY <2>2 DEF CalculationStep, StoreCalculation, UpdateErrorBudgets, Move
  <2> QED BY <2>1, <2>2 DEF Next, RunStep, Start, Stop, StopWaits, CancelContext, TickerFires,
             StartWindow, EnterLoop, Return, Pass, CheckTicker, EndPass
<1> QED BY <1>1, Invariance, PTL DEF Spec, StopEndsMonitoring
=============================================================================
