----------------------------- MODULE SLOManager -----------------------------
(***************************************************************************)
(* internal/slo/slo.go: Manager.  Start spawns the monitoring loop, the    *)
(* loop spawns a calculation per window at once and per tick later, Stop   *)
(* closes stopCh and waits for the loop, never for the calculations.  A    *)
(* calculation stores its values in one critical section of mu and updates *)
(* the error budgets in another.                                           *)
(*                                                                         *)
(* What a calculation measured is its index.  An error budget is what      *)
(* folding measurements, in order, makes of it (a moving average is part   *)
(* of it): the sequence of those measurements.  Gauges and alerts, which   *)
(* are only logged, are left out.                                          *)
(***************************************************************************)
EXTENDS Integers, Sequences, FiniteSets

CONSTANTS
    Windows,         \* config.Windows, a sequence
    MaxCalculations  \* bound: calculations spawned

ASSUME WindowsAssumption ==
    /\ Windows \in Seq(STRING)
    /\ \A i, j \in 1 .. Len(Windows) : Windows[i] = Windows[j] => i = j

ASSUME BoundsAssumption ==
    MaxCalculations \in Nat /\ MaxCalculations >= Len(Windows)

VARIABLES
    enabled,          \* config.Enabled
    caller,           \* what has been called: Start, and how far Stop has got
    ctxDone,          \* the context given to Start is done
    stopCh, doneCh,   \* TRUE when closed
    loop,             \* where run is
    checked,          \* windows that run has gone through, in its current pass
    ticker,           \* ticker.C of each window: TRUE when it holds a tick
    calculations,     \* calculateForWindow, one goroutine each: its window and stage
    lastCalculation,  \* 0 when there is none
    errorBudgets

control == <<enabled, caller, ctxDone, stopCh, doneCh>>
state   == <<lastCalculation, errorBudgets>>
vars    == <<control, loop, checked, ticker, calculations, state>>

Names == {Windows[i] : i \in 1 .. Len(Windows)}
Ids   == 1 .. MaxCalculations

StagesSwapped == <<"budgets", "values", "done">>  \* mutant

\* calculateForWindow: two critical sections, one after the other.
Stages == <<"values", "budgets", "done">>

TypeOK ==
    /\ enabled \in BOOLEAN /\ ctxDone \in BOOLEAN /\ stopCh \in BOOLEAN
    /\ caller \in [started : BOOLEAN, stop : {"no", "waiting", "returned"}]
    /\ loop \in {"none", "starting", "select", "tickers", "ended"}
    /\ doneCh = (loop = "ended")
    /\ loop # "none" => enabled /\ caller.started
    /\ checked \in 0 .. Len(Windows)
    /\ ticker \in [Names -> BOOLEAN]
    /\ Len(calculations) <= MaxCalculations
    /\ \A i \in 1 .. Len(calculations) :
          calculations[i] \in [window : Names, stage : 1 .. Len(Stages)]
    /\ lastCalculation \in [Names -> {0} \cup Ids]
    /\ errorBudgets \in [Names -> Seq(Ids)]

Init ==
    /\ enabled \in BOOLEAN
    /\ caller = [started |-> FALSE, stop |-> "no"]
    /\ ctxDone = FALSE /\ stopCh = FALSE /\ doneCh = FALSE
    /\ loop = "none" /\ checked = 0
    /\ ticker = [w \in Names |-> FALSE]
    /\ calculations = <<>>
    /\ lastCalculation = [w \in Names |-> 0]
    /\ errorBudgets = [w \in Names |-> <<>>]

-----------------------------------------------------------------------------
\* Called once at most: a second run would close doneCh again, and panic.
Start ==
    /\ ~caller.started
    /\ caller' = [caller EXCEPT !.started = TRUE]
    /\ loop' = IF enabled THEN "starting" ELSE loop
    /\ UNCHANGED <<enabled, ctxDone, stopCh, doneCh, checked, ticker, calculations, state>>

\* Called once at most: closing stopCh again would panic.
Stop ==
    /\ caller.stop = "no"
    /\ stopCh' = TRUE
    /\ caller' = [caller EXCEPT !.stop = IF enabled THEN "waiting" ELSE "returned"]
    /\ UNCHANGED <<enabled, ctxDone, doneCh, loop, checked, ticker, calculations, state>>

StopReturnsAtOnce ==  \* mutant: Stop does not wait for the loop
    /\ caller.stop = "waiting"
    /\ caller' = [caller EXCEPT !.stop = "returned"]
    /\ UNCHANGED <<enabled, ctxDone, stopCh, doneCh, loop, checked, ticker, calculations, state>>

\* <-m.doneCh in Stop, whether or not run was ever started.
StopWaits ==
    /\ caller.stop = "waiting" /\ doneCh
    /\ caller' = [caller EXCEPT !.stop = "returned"]
    /\ UNCHANGED <<enabled, ctxDone, stopCh, doneCh, loop, checked, ticker, calculations, state>>

CancelContext ==
    /\ ~ctxDone
    /\ ctxDone' = TRUE
    /\ UNCHANGED <<enabled, caller, stopCh, doneCh, loop, checked, ticker, calculations, state>>

\* A ticker whose tick has not been taken drops the next one; the shortest
\* interval, 30 seconds, is longer than run takes to enter its loop.
TickerFires(w) ==
    /\ loop \in {"select", "tickers"}
    /\ ~ticker[w]
    /\ Len(calculations) + Cardinality({v \in Names : ticker[v]}) < MaxCalculations
    /\ ticker' = [ticker EXCEPT ![w] = TRUE]
    /\ UNCHANGED <<control, loop, checked, calculations, state>>

Spawned(w) == Append(calculations, [window |-> w, stage |-> 1])

StartWindowUnlessStopped ==  \* mutant: a stop in the middle leaves windows out
    /\ loop = "starting" /\ checked < Len(Windows)
    /\ checked' = checked + 1
    /\ calculations' = IF stopCh THEN calculations ELSE Spawned(Windows[checked + 1])
    /\ UNCHANGED <<control, loop, ticker, state>>

\* run, before its loop: a ticker and a first calculation for each window.
StartWindow ==
    /\ loop = "starting" /\ checked < Len(Windows)
    /\ checked' = checked + 1
    /\ calculations' = Spawned(Windows[checked + 1])
    /\ UNCHANGED <<control, loop, ticker, state>>

EnterLoop ==
    /\ loop = "starting" /\ checked = Len(Windows)
    /\ loop' = "select"
    /\ UNCHANGED <<control, checked, ticker, calculations, state>>

ReturnLeavingDoneCh ==  \* mutant: without the deferred close
    /\ loop = "select" /\ (stopCh \/ ctxDone)
    /\ loop' = "ended"
    /\ UNCHANGED <<control, checked, ticker, calculations, state>>

ReturnOnContext ==  \* mutant: only the context ends the loop
    /\ loop = "select" /\ ctxDone
    /\ loop' = "ended" /\ doneCh' = TRUE
    /\ UNCHANGED <<enabled, caller, ctxDone, stopCh, checked, ticker, calculations, state>>

\* run's select: <-stopCh or <-ctx.Done(), tickers stopped, doneCh closed.
Return ==
    /\ loop = "select" /\ (stopCh \/ ctxDone)
    /\ loop' = "ended" /\ doneCh' = TRUE
    /\ UNCHANGED <<enabled, caller, ctxDone, stopCh, checked, ticker, calculations, state>>

\* run's select, default: one pass over the windows' tickers.
Pass ==
    /\ loop = "select" /\ ~stopCh /\ ~ctxDone
    /\ loop' = "tickers" /\ checked' = 0
    /\ UNCHANGED <<control, ticker, calculations, state>>

\* In a pass stopCh is not looked at.
CheckTicker ==
    /\ loop = "tickers" /\ checked < Len(Windows)
    /\ LET w == Windows[checked + 1]
       IN  /\ calculations' = IF ticker[w] THEN Spawned(w) ELSE calculations
           /\ ticker' = [ticker EXCEPT ![w] = FALSE]
    /\ checked' = checked + 1
    /\ UNCHANGED <<control, loop, state>>

\* The sleep at the end of a pass.
EndPass ==
    /\ loop = "tickers" /\ checked = Len(Windows)
    /\ loop' = "select"
    /\ UNCHANGED <<control, checked, ticker, calculations, state>>

At(i, stage) == Stages[calculations[i].stage] = stage
Move(i) == calculations' = [calculations EXCEPT ![i].stage = @ + 1]

\* The first critical section.  Calculate never fails as it stands.
StoreCalculation(i) ==
    /\ At(i, "values") /\ Move(i)
    /\ lastCalculation' = [lastCalculation EXCEPT ![calculations[i].window] = i]
    /\ UNCHANGED <<control, loop, checked, ticker, errorBudgets>>

\* updateErrorBudgets, for its three SLOs in one critical section.
UpdateErrorBudgets(i) ==
    /\ At(i, "budgets") /\ Move(i)
    /\ errorBudgets' = [errorBudgets EXCEPT ![calculations[i].window] = Append(@, i)]
    /\ UNCHANGED <<control, loop, checked, ticker, lastCalculation>>

RunStep == StartWindow \/ EnterLoop \/ Return \/ Pass \/ CheckTicker \/ EndPass

CalculationStep(i) ==
    i \in DOMAIN calculations /\ (StoreCalculation(i) \/ UpdateErrorBudgets(i))

Next ==
    \/ Start \/ Stop \/ StopWaits \/ CancelContext
    \/ \E w \in Names : TickerFires(w)
    \/ RunStep
    \/ \E i \in Ids : CalculationStep(i)

\* Goroutines that can run do, in the end.
Fairness ==
    /\ WF_vars(RunStep) /\ WF_vars(StopWaits)
    /\ \A i \in Ids : WF_vars(CalculationStep(i))

Spec == Init /\ [][Next]_vars /\ Fairness

-----------------------------------------------------------------------------
(* Properties *)

\* A window with an error budget to show (GetErrorBudgetState) has the values of
\* a calculation to show for it (GetSLIValues), whichever calculations overlap.
BudgetsFollowValues ==
    \A w \in Names : errorBudgets[w] # <<>> => lastCalculation[w] # 0

\* Once Stop has returned no calculation is started, a tick that was due or a
\* pass that was under way notwithstanding.  (One in flight still writes.)
StopEndsMonitoring ==
    [][caller.stop = "returned" => Len(calculations') = Len(calculations)]_vars

\* "Stop should complete without hanging" (slo_test.go): of a manager that was
\* started, before or meanwhile, whether or not its context is done.
StopReturns ==
    caller.stop = "waiting" /\ caller.started ~> caller.stop = "returned"

\* A manager that is started gets values and budgets for every window, even if
\* it is stopped or its context is done before run is first scheduled.
EveryWindowMeasured ==
    enabled /\ caller.started ~>
        \A w \in Names : lastCalculation[w] # 0 /\ errorBudgets[w] # <<>>
=============================================================================
