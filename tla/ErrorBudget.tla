----------------------------- MODULE ErrorBudget -----------------------------
(***************************************************************************)
(* internal/slo/error_budget.go: ErrorBudgetManager, for one SLO and       *)
(* window (the history of another is another entry of the map).  Callers   *)
(* work out a snapshot, with the time they take, and record it under the   *)
(* lock later, so snapshots can be out of order; a report copies the       *)
(* history under the lock and then has the burn rate and the prediction    *)
(* read it again, each under a lock of its own.                            *)
(*                                                                         *)
(* A consumed percentage is counted in parts of the whole budget, 1 -      *)
(* target, so that nothing needs rounding; a burn rate is the pair of what *)
(* was consumed and the time it took.                                      *)
(***************************************************************************)
EXTENDS Integers, Sequences, FiniteSets, SequencesExt

CONSTANTS
    Callers,       \* goroutines that record snapshots
    Reporters,     \* goroutines that generate a report each
    MaxSnapshots,  \* the snapshots kept: 1000
    Hour,          \* in ticks of the clock
    Window,        \* WindowDays, in ticks
    One,           \* a ratio of 1, in parts
    Target,        \* the SLO's target
    Warning,       \* AlertThresholds.Warning
    Policies,      \* thresholds and actions
    MaxTime,       \* bound: the clock
    MaxRecords     \* bound: snapshots recorded

ASSUME BudgetAssumption ==
    /\ MaxSnapshots \in Nat \ {0} /\ Hour \in Nat \ {0} /\ Window \in Nat
    /\ One \in Nat \ {0} /\ Target \in 0 .. One - 1 /\ Warning \in Nat
    /\ \A p \in Policies : p.threshold \in Nat
    /\ MaxTime \in Nat /\ MaxRecords \in Nat

VARIABLES
    now,
    history,   \* the snapshots kept
    recorded,  \* history: all that were ever recorded
    taken,     \* the snapshot each caller has worked out, or none
    pc,        \* where each report is
    copy,      \* its copy of the snapshots
    rate,      \* the rate its prediction goes by
    report,    \* the report so far
    quiet      \* history: nothing was recorded since the copy

budget  == <<history, recorded, taken>>
reports == <<pc, copy, rate, report, quiet>>
vars    == <<now, budget, reports>>

Full      == One - Target   \* the whole budget: 100%
Snapshots == [time : 0 .. MaxTime, consumed : 0 .. Full]
None      == [none |-> TRUE]
NoReport  == [generated |-> 0, current |-> 0, burnRate |-> None, exhaustion |-> None,
              action |-> "", statistics |-> None]

Init ==
    /\ now = 0
    /\ history = <<>> /\ recorded = <<>>
    /\ taken = [c \in Callers |-> None]
    /\ pc = [r \in Reporters |-> "idle"]
    /\ copy = [r \in Reporters |-> <<>>]
    /\ rate = [r \in Reporters |-> None]
    /\ report = [r \in Reporters |-> NoReport]
    /\ quiet = [r \in Reporters |-> FALSE]

Tick ==
    /\ now < MaxTime
    /\ now' = now + 1
    /\ UNCHANGED <<budget, reports>>

-----------------------------------------------------------------------------
(* Snapshots *)

\* ConsumedPercent, clamped to 100%.  (A target of 100%, which leaves no budget
\* to divide by, is left out.)
ConsumedPercent(actual) ==
    IF actual >= Target THEN 0
    ELSE IF Target - actual > Full THEN Full ELSE Target - actual

\* CalculateErrorBudget, and the caller's snapshot of it.
CalculateErrorBudget(c) ==
    /\ taken[c] = None
    /\ \E actual \in 0 .. One :
         taken' = [taken EXCEPT ![c] = [time |-> now, consumed |-> ConsumedPercent(actual)]]
    /\ UNCHANGED <<now, history, recorded, reports>>

\* Mutant: the newest snapshots are trimmed.
TrimNewest(h) == IF Len(h) > MaxSnapshots THEN SubSeq(h, 1, MaxSnapshots) ELSE h

Trim(h) == IF Len(h) > MaxSnapshots THEN SubSeq(h, Len(h) - MaxSnapshots + 1, Len(h)) ELSE h

RecordSnapshot(c) ==
    /\ taken[c] # None
    /\ Len(recorded) < MaxRecords
    /\ history' = Trim(Append(history, taken[c]))
    /\ recorded' = Append(recorded, taken[c])
    /\ taken' = [taken EXCEPT ![c] = None]
    /\ quiet' = [r \in Reporters |-> FALSE]
    /\ UNCHANGED <<now, pc, copy, rate, report>>

-----------------------------------------------------------------------------
(* Burn rate, action and statistics of a history *)

\* From the last snapshot that is not after the start of the period, or the
\* first of all, to the last; a difference either way counts as consumed.
BurnRate(h, period) ==
    LET inside == {i \in DOMAIN h : h[i].time > now - period}
        first  == CHOOSE i \in inside : \A j \in inside : i <= j
        start  == h[IF first = 1 THEN 1 ELSE first - 1]
        end    == h[Len(h)]
        diff   == start.consumed - end.consumed
    IN  IF Len(h) < 2 \/ inside = {} \/ end.time <= start.time THEN None
        ELSE [consumed |-> IF diff < 0 THEN -diff ELSE diff,
              time     |-> end.time - start.time]

\* The policy with the highest threshold that is reached.
RecommendedAction(consumed) ==
    LET reached == {p \in Policies : p.threshold <= consumed}
    IN  IF reached = {} THEN "continue_normal_operations"
        ELSE (CHOOSE p \in reached : \A q \in reached : q.threshold <= p.threshold).action

Remaining(s)  == Full - s.consumed
Violation(s)  == s.consumed >= Warning
Larger(a, b)  == IF a > b THEN a ELSE b
Smaller(a, b) == IF a < b THEN a ELSE b

StartStatistics ==
    [min |-> Full, max |-> 0, violations |-> 0, longest |-> 0,
     inViolation |-> FALSE, start |-> 0]

\* Mutant: a violation that has ended is still under way.
NextStatisticsForgetting(st, s) ==
    LET seen  == [st EXCEPT !.min = Smaller(@, Remaining(s)), !.max = Larger(@, Remaining(s))]
    IN  CASE Violation(s) /\ ~st.inViolation ->
               [seen EXCEPT !.inViolation = TRUE, !.start = s.time, !.violations = @ + 1]
          [] ~Violation(s) /\ st.inViolation ->
               [seen EXCEPT !.longest = Larger(@, s.time - st.start)]
          [] OTHER -> seen

\* calculateStatistics, one snapshot further.
NextStatistics(st, s) ==
    LET seen  == [st EXCEPT !.min = Smaller(@, Remaining(s)), !.max = Larger(@, Remaining(s))]
    IN  CASE Violation(s) /\ ~st.inViolation ->
               [seen EXCEPT !.inViolation = TRUE, !.start = s.time, !.violations = @ + 1]
          [] ~Violation(s) /\ st.inViolation ->
               [seen EXCEPT !.inViolation = FALSE, !.longest = Larger(@, s.time - st.start)]
          [] OTHER -> seen

\* The loop's variables after each number of snapshots.
RunningStatistics(h) ==
    LET st[n \in 0 .. Len(h)] ==
            IF n = 0 THEN StartStatistics ELSE NextStatistics(st[n - 1], h[n])
    IN  st

Statistics(h) ==
    LET st == RunningStatistics(h)[Len(h)]
    IN  [min |-> st.min, max |-> st.max, violations |-> st.violations,
         longest |-> IF st.inViolation THEN Larger(st.longest, now - st.start) ELSE st.longest]

-----------------------------------------------------------------------------
(* GenerateReport *)

Continue(r, from, to) ==
    /\ pc[r] = from
    /\ pc' = [pc EXCEPT ![r] = to]
    /\ UNCHANGED <<now, budget>>

\* Under the first lock: a copy; an error without any snapshot.
CopySnapshots(r) ==
    /\ history # <<>>
    /\ Continue(r, "idle", "rate")
    /\ copy' = [copy EXCEPT ![r] = history]
    /\ quiet' = [quiet EXCEPT ![r] = TRUE]
    /\ report' = [report EXCEPT ![r] =
                   [@ EXCEPT !.generated = now, !.current = Last(history).consumed]]
    /\ UNCHANGED rate

\* CalculateBurnRate over the window.
RateReport(r) ==
    /\ Continue(r, "rate", "predict")
    /\ report' = [report EXCEPT ![r].burnRate = BurnRate(history, Window)]
    /\ UNCHANGED <<copy, rate, quiet>>

\* PredictExhaustion: CalculateBurnRate over an hour.
PredictRate(r) ==
    /\ Continue(r, "predict", "latest")
    /\ rate' = [rate EXCEPT ![r] = BurnRate(history, Hour)]
    /\ UNCHANGED <<copy, report, quiet>>

\* Mutant: an exhausted budget is not told apart.
ExhaustionUnlessOver(x, latest) ==
    now + Hour * ((Remaining(latest) * x.time) \div (x.consumed * Hour))

\* At rate x: the time of the latest snapshot when nothing remains, else so many
\* whole hours from now.
Exhaustion(x, latest) ==
    IF Remaining(latest) <= 0 THEN latest.time
    ELSE now + Hour * ((Remaining(latest) * x.time) \div (x.consumed * Hour))

\* The rest of PredictExhaustion, under a lock of its own, and of the report,
\* from the copy.  Without a rate, or with a rate of 0, there is no prediction.
FinishReport(r) ==
    /\ Continue(r, "latest", "done")
    /\ report' = [report EXCEPT ![r] = [@ EXCEPT
         !.exhaustion = IF rate[r] # None /\ rate[r].consumed > 0
                         THEN [at |-> Exhaustion(rate[r], Last(history))] ELSE None,
         !.action = RecommendedAction(report[r].current),
         !.statistics = Statistics(copy[r])]]
    /\ rate' = [rate EXCEPT ![r] = None]
    /\ UNCHANGED <<copy, quiet>>

Next ==
    \/ Tick
    \/ \E c \in Callers : CalculateErrorBudget(c) \/ RecordSnapshot(c)
    \/ \E r \in Reporters :
         CopySnapshots(r) \/ RateReport(r) \/ PredictRate(r) \/ FinishReport(r)

Spec == Init /\ [][Next]_vars

-----------------------------------------------------------------------------
(* Properties *)

TypeOK ==
    /\ now \in 0 .. MaxTime
    /\ history \in Seq(Snapshots) /\ recorded \in Seq(Snapshots)
    /\ taken \in [Callers -> Snapshots \cup {None}]
    /\ \A c \in Callers : taken[c] # None => taken[c].time <= now
    /\ pc \in [Reporters -> {"idle", "rate", "predict", "latest", "done"}]
    /\ copy \in [Reporters -> Seq(Snapshots)]
    /\ quiet \in [Reporters -> BOOLEAN]

\* The history is the latest MaxSnapshots of all that was recorded, at the limit
\* and below it, whoever recorded them.
HistoryIsLatest ==
    LET n == Smaller(Len(recorded), MaxSnapshots)
    IN  /\ Len(history) = n
        /\ \A i \in 1 .. n : history[i] = recorded[Len(recorded) - n + i]

Finished(r) == pc[r] = "done" /\ report[r].exhaustion # None

\* A report whose parts are read under different locks contradicts itself only
\* if a snapshot was recorded meanwhile: otherwise a budget it shows as used up
\* was exhausted when its last snapshot was taken, and one that it does not is
\* not predicted to have been exhausted before the report.
QuietReportsAgree ==
    \A r \in Reporters :
        Finished(r) /\ quiet[r] =>
            IF report[r].current = Full
            THEN report[r].exhaustion.at = Last(copy[r]).time
            ELSE report[r].exhaustion.at >= report[r].generated

\* A run of violations of h begins at i, and ends at the next snapshot that is
\* none, or has not ended yet.
Begins(h, i)  == Violation(h[i]) /\ (i = 1 \/ ~Violation(h[i - 1]))
Duration(h, i) ==
    LET over == {j \in (i + 1) .. Len(h) : ~Violation(h[j])}
    IN  (IF over = {} THEN now ELSE h[Min(over)].time) - h[i].time

\* The statistics of a report are those of the very history its current state
\* is from, whatever was recorded or trimmed meanwhile: extremes over all its
\* snapshots, and the number and greatest length of its runs of violations.
StatisticsOfTheCopy ==
    [][\A r \in Reporters :
         pc[r] = "latest" /\ pc'[r] = "done" =>
            LET h == copy[r]
                runs == {i \in DOMAIN h : Begins(h, i)}
            IN  report'[r].statistics =
                  [min        |-> Min({Remaining(h[i]) : i \in DOMAIN h}),
                   max        |-> Max({Remaining(h[i]) : i \in DOMAIN h}),
                   violations |-> Cardinality(runs),
                   longest    |-> Max({0} \cup {Duration(h, i) : i \in runs})]]_vars
=============================================================================
