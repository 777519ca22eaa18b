------------------------- MODULE ErrorBudget_proofs -------------------------
(***************************************************************************)
(* Theorems about the error budget manager, for any number of callers and  *)
(* reports, any limit of the history, any target and any clock: types,     *)
(* that the history is the latest of what was recorded, that a report      *)
(* agrees with itself unless something was recorded meanwhile, and that    *)
(* its statistics are those of its copy of the history.                    *)
(***************************************************************************)
EXTENDS ErrorBudget, FiniteSetTheorems, WellFoundedInduction, TLAPS

Rates == [consumed : Nat, time : Nat \ {0}]

\* A report has the fields of ErrorBudgetReport, whatever their values.
IsReport(x) ==
    x = [generated |-> x.generated, current |-> x.current, burnRate |-> x.burnRate,
         exhaustion |-> x.exhaustion, action |-> x.action, statistics |-> x.statistics]

\* Shapes of what a report is put together from.
Shapes ==
    /\ rate \in [Reporters -> Rates \cup {None}]
    /\ \A r \in Reporters : IsReport(report[r])
    /\ report = [r \in Reporters |-> report[r]]

\* A report's current state is that of the last snapshot of its copy, and the
\* copy is the history as long as nothing has been recorded.
FromCopy(r) ==
    /\ pc[r] # "idle" =>
         /\ copy[r] # <<>>
         /\ report[r].current = Last(copy[r]).consumed
         /\ report[r].generated \in 0 .. now
    /\ quiet[r] => pc[r] # "idle" /\ copy[r] = history
    /\ report[r].exhaustion # None => pc[r] = "done"

Copies == \A r \in Reporters : FromCopy(r)

IInv == TypeOK /\ HistoryIsLatest /\ Shapes /\ Copies /\ QuietReportsAgree

-----------------------------------------------------------------------------
(* Operators *)

LEMMA LeastExists ==
  ASSUME NEW S, S \subseteq Nat, S # {}
  PROVE  \E m \in S : \A k \in S : m <= k
<1> DEFINE R == OpToRel(<, Nat)
<1>1. IsWellFoundedOn(R, Nat)
  BY NatLessThanWellFounded
<1>2. \A a, b \in Nat : <<a, b>> \in R <=> a < b
  BY DEF OpToRel
<1> HIDE DEF R
<1>3. PICK m \in S : \A y \in S : ~(<<y, m>> \in R)
  BY <1>1, WFMin
<1>4. \A k \in S : ~(k < m)
  BY <1>2, <1>3
<1>5. \A k \in S : m <= k
  BY <1>4
<1> QED BY <1>5

LEMMA Whole == Full \in Nat \ {0}
BY BudgetAssumption DEF Full

\* ConsumedPercent is clamped on both sides.
LEMMA ConsumedClamped == \A actual \in 0 .. One : ConsumedPercent(actual) \in 0 .. Full
BY BudgetAssumption DEF ConsumedPercent, Full

\* CalculateBurnRate finds its start within the history, and a rate it returns is
\* over some time.
LEMMA BurnRateType ==
  ASSUME NEW h \in Seq(Snapshots), NEW period, now \in Nat
  PROVE  BurnRate(h, period) \in Rates \cup {None}
<1> DEFINE inside == {i \in DOMAIN h : h[i].time > now - period}
           first  == CHOOSE i \in inside : \A j \in inside : i <= j
           k      == IF first = 1 THEN 1 ELSE first - 1
           start  == h[k]
           end    == h[Len(h)]
           diff   == start.consumed - end.consumed
<1> SUFFICES ASSUME Len(h) >= 2, inside # {}, ~(end.time <= start.time)
             PROVE  [consumed |-> IF diff < 0 THEN -diff ELSE diff,
                     time     |-> end.time - start.time] \in Rates
  BY DEF BurnRate
<1>1. DOMAIN h = 1 .. Len(h) /\ Len(h) \in Nat
  OBVIOUS
<1>2. first \in inside
  <2>1. inside \subseteq Nat
    BY <1>1
  <2> HIDE DEF inside
  <2>2. \E i \in inside : \A j \in inside : i <= j
    BY <2>1, LeastExists
  <2> QED BY <2>2
<1>3. k \in 1 .. Len(h)
  <2>1. first \in 1 .. Len(h)
    BY <1>1, <1>2
  <2> HIDE DEF first
  <2> QED BY <1>1, <2>1
<1> HIDE DEF first
<1>4. start \in Snapshots /\ end \in Snapshots
  BY <1>1, <1>3
<1> HIDE DEF start, end
<1>5. end.time - start.time \in Nat \ {0}
  BY <1>4, BudgetAssumption DEF Snapshots
<1>6. diff \in Int
  BY <1>4, Whole DEF Snapshots
<1> HIDE DEF diff
<1>7. (IF diff < 0 THEN -diff ELSE diff) \in Nat
  BY <1>6
<1> QED BY <1>5, <1>7 DEF Rates

LEMMA Products == \A a, b \in Nat : a * b \in Nat
OBVIOUS

LEMMA Quotients == \A a \in Nat : \A b \in Nat \ {0} : a \div b \in Nat
OBVIOUS

\* A budget with something left is not predicted to have been exhausted already.
LEMMA ExhaustionLater ==
  ASSUME NEW x \in Rates, x.consumed > 0, NEW s \in Snapshots, s.consumed # Full, now \in Nat
  PROVE  Exhaustion(x, s) \in Nat /\ Exhaustion(x, s) >= now
<1> DEFINE rem == Remaining(s)
           den == x.consumed * Hour
           num == rem * x.time
<1>1. rem \in Nat /\ rem > 0 /\ x.time \in Nat /\ x.consumed \in Nat \ {0}
  BY Whole DEF Remaining, Snapshots, Rates
<1>2. num \in Nat /\ den \in Nat \ {0}
  BY <1>1, BudgetAssumption, Products
<1>3. Exhaustion(x, s) = now + Hour * (num \div den)
  BY <1>1 DEF Exhaustion
<1> HIDE DEF num, den
<1>4. num \div den \in Nat
  BY <1>2, Quotients
<1>5. Hour * (num \div den) \in Nat
  BY <1>4, Products, BudgetAssumption
<1> QED BY <1>3, <1>5

\* The trimming of RecordSnapshot keeps the latest.
LEMMA TrimKeepsLatest ==
  ASSUME TypeOK, HistoryIsLatest, NEW s \in Snapshots
  PROVE  LET h == Trim(Append(history, s))
             a == Append(recorded, s)
             n == Smaller(Len(a), MaxSnapshots)
         IN  /\ h \in Seq(Snapshots) /\ a \in Seq(Snapshots)
             /\ Len(h) = n
             /\ \A i \in 1 .. n : h[i] = a[Len(a) - n + i]
<1> DEFINE g == Append(history, s)
           h == Trim(g)
           a == Append(recorded, s)
           n == Smaller(Len(a), MaxSnapshots)
           m == Smaller(Len(recorded), MaxSnapshots)
<1>1. /\ history \in Seq(Snapshots) /\ recorded \in Seq(Snapshots)
      /\ Len(history) = m /\ \A i \in 1 .. m : history[i] = recorded[Len(recorded) - m + i]
  BY DEF TypeOK, HistoryIsLatest
<1>2. MaxSnapshots \in Nat \ {0} /\ Len(recorded) \in Nat
  BY <1>1, BudgetAssumption
<1>3. /\ g \in Seq(Snapshots) /\ Len(g) = m + 1
      /\ \A i \in 1 .. m : g[i] = history[i]
      /\ g[m + 1] = s
  BY <1>1
<1>4. /\ a \in Seq(Snapshots) /\ Len(a) = Len(recorded) + 1
      /\ \A i \in 1 .. Len(recorded) : a[i] = recorded[i]
      /\ a[Len(recorded) + 1] = s
  BY <1>1
<1>5. /\ m \in Nat /\ m <= Len(recorded) /\ m <= MaxSnapshots
      /\ m < MaxSnapshots => m = Len(recorded)
  BY <1>2 DEF Smaller
<1> HIDE DEF m, g, a
<1>6. \A i \in 1 .. m + 1 : g[i] = a[Len(a) - (m + 1) + i]
  <2> TAKE i \in 1 .. m + 1
  <2>1. CASE i = m + 1
    BY <1>2, <1>3, <1>4, <1>5, <2>1
  <2>2. CASE i \in 1 .. m
    <3>1. Len(a) - (m + 1) + i = Len(recorded) - m + i /\ Len(recorded) - m + i \in 1 .. Len(recorded)
      BY <1>2, <1>4, <1>5, <2>2
    <3> QED BY <1>1, <1>3, <1>4, <2>2, <3>1
  <2> QED BY <1>5, <2>1, <2>2
<1>7. ASSUME m + 1 <= MaxSnapshots
      PROVE  /\ h \in Seq(Snapshots) /\ a \in Seq(Snapshots) /\ Len(h) = n
             /\ \A i \in 1 .. n : h[i] = a[Len(a) - n + i]
  <2>1. n = m + 1
    BY <1>2, <1>4, <1>5, <1>7 DEF Smaller
  <2>2. h = g
    BY <1>2, <1>3, <1>5, <1>7 DEF Trim
  <2> QED BY <1>3, <1>4, <1>6, <2>1, <2>2
<1>8. ASSUME m + 1 > MaxSnapshots
      PROVE  /\ h \in Seq(Snapshots) /\ a \in Seq(Snapshots) /\ Len(h) = n
             /\ \A i \in 1 .. n : h[i] = a[Len(a) - n + i]
  <2>1. m = MaxSnapshots /\ n = m
    BY <1>2, <1>4, <1>5, <1>8 DEF Smaller
  <2>2. h = SubSeq(g, 2, m + 1)
    BY <1>2, <1>3, <1>5, <1>8, <2>1 DEF Trim
  <2>3. h \in Seq(Snapshots) /\ Len(h) = m /\ \A i \in 1 .. m : h[i] = g[i + 1]
    BY <1>2, <1>3, <1>5, <2>1, <2>2
  <2>4. \A i \in 1 .. m : h[i] = a[Len(a) - m + i]
    <3> TAKE i \in 1 .. m
    <3>1. i + 1 \in 1 .. m + 1 /\ Len(a) - (m + 1) + (i + 1) = Len(a) - m + i
      BY <1>2, <1>4, <1>5
    <3> QED BY <1>6, <2>3, <3>1
  <2> QED BY <1>4, <2>1, <2>3, <2>4
<1>9. /\ h \in Seq(Snapshots) /\ a \in Seq(Snapshots) /\ Len(h) = n
      /\ \A i \in 1 .. n : h[i] = a[Len(a) - n + i]
  BY <1>2, <1>5, <1>7, <1>8
<1> QED BY <1>9 DEF a, g
-----------------------------------------------------------------------------
(* Steps *)

LEMMA InitInv == Init => IInv
<1> SUFFICES ASSUME Init PROVE IInv
  OBVIOUS
<1> USE DEF Init
<1>1. TypeOK
  BY BudgetAssumption DEF TypeOK
<1>2. HistoryIsLatest
  BY BudgetAssumption DEF HistoryIsLatest, Smaller
<1>3. Shapes
  BY DEF Shapes, IsReport, NoReport
<1>4. Copies
  BY DEF Copies, FromCopy, NoReport
<1>5. QuietReportsAgree
  BY DEF QuietReportsAgree
<1> QED BY <1>1, <1>2, <1>3, <1>4, <1>5 DEF IInv

\* What a step leaves alone when it touches no report.
LEMMA ReportsUntouched ==
  ASSUME IInv, UNCHANGED <<pc, copy, rate, report>>, now' \in Nat, now' >= now,
         \A r \in Reporters : quiet'[r] => quiet[r] /\ UNCHANGED history
  PROVE  Shapes' /\ Copies' /\ QuietReportsAgree'
<1>1. Shapes'
  BY DEF IInv, Shapes
<1>2. Copies'
  BY BudgetAssumption DEF IInv, Copies, FromCopy, TypeOK
<1>3. QuietReportsAgree'
  BY DEF IInv, QuietReportsAgree, Finished
<1> QED BY <1>1, <1>2, <1>3

LEMMA TickPreserves ==
  ASSUME IInv, Tick
  PROVE  IInv'
<1> USE DEF Tick, budget, reports
<1>1. now' \in 0 .. MaxTime /\ now' >= now /\ now \in Nat
  BY BudgetAssumption DEF IInv, TypeOK
<1>2. TypeOK'
  <2>1. \A c \in Callers : taken[c] # None => taken[c].time \in Nat /\ taken[c].time <= now
    BY BudgetAssumption DEF IInv, TypeOK, Snapshots
  <2>2. \A c \in Callers : taken'[c] # None => taken'[c].time <= now'
    BY <1>1, <2>1
  <2> QED BY <1>1, <2>2 DEF IInv, TypeOK
<1>3. HistoryIsLatest'
  BY DEF IInv, HistoryIsLatest
<1> QED BY <1>1, <1>2, <1>3, ReportsUntouched DEF IInv

LEMMA CalculatePreserves ==
  ASSUME IInv, NEW c \in Callers, CalculateErrorBudget(c)
  PROVE  IInv'
<1> USE DEF CalculateErrorBudget, reports
<1>1. PICK s : taken' = [taken EXCEPT ![c] = s] /\ s \in Snapshots /\ s.time = now
  <2>1. PICK actual \in 0 .. One :
          taken' = [taken EXCEPT ![c] = [time |-> now, consumed |-> ConsumedPercent(actual)]]
    OBVIOUS
  <2> DEFINE s == [time |-> now, consumed |-> ConsumedPercent(actual)]
  <2>2. ConsumedPercent(actual) \in 0 .. Full
    BY ConsumedClamped
  <2>3. s \in Snapshots /\ s.time = now
    BY <2>2 DEF IInv, TypeOK, Snapshots
  <2> QED BY <2>1, <2>3
<1>2. TypeOK'
  BY <1>1, BudgetAssumption DEF IInv, TypeOK
<1>3. HistoryIsLatest'
  BY DEF IInv, HistoryIsLatest
<1>4. now' \in Nat /\ now' >= now
  BY BudgetAssumption DEF IInv, TypeOK
<1> QED BY <1>2, <1>3, <1>4, ReportsUntouched DEF IInv

LEMMA RecordPreserves ==
  ASSUME IInv, NEW c \in Callers, RecordSnapshot(c)
  PROVE  IInv'
<1> USE DEF RecordSnapshot
<1>1. taken[c] \in Snapshots
  BY DEF IInv, TypeOK
<1>2. history' \in Seq(Snapshots) /\ recorded' \in Seq(Snapshots) /\ HistoryIsLatest'
  BY <1>1, TrimKeepsLatest DEF IInv, HistoryIsLatest
<1>3. TypeOK'
  BY <1>2 DEF IInv, TypeOK
<1>4. now' \in Nat /\ now' >= now
  BY BudgetAssumption DEF IInv, TypeOK
<1>5. \A r \in Reporters : ~quiet'[r]
  OBVIOUS
<1> QED BY <1>2, <1>3, <1>4, <1>5, ReportsUntouched DEF IInv

\* A step of a report leaves the budget and the other reports alone.
LEMMA ReportStep ==
  ASSUME IInv, NEW r \in Reporters, NEW from, NEW to \in {"rate", "predict", "latest", "done"},
         Continue(r, from, to),
         copy' \in [Reporters -> Seq(Snapshots)], quiet' \in [Reporters -> BOOLEAN],
         rate' \in [Reporters -> Rates \cup {None}],
         report' = [report EXCEPT ![r] = report'[r]], IsReport(report'[r]),
         \A q \in Reporters \ {r} : copy'[q] = copy[q] /\ quiet'[q] = quiet[q],
         FromCopy(r)',
         (Finished(r) /\ quiet[r])' =>
            IF report'[r].current = Full
            THEN report'[r].exhaustion.at = Last(copy'[r]).time
            ELSE report'[r].exhaustion.at >= report'[r].generated
  PROVE  IInv'
<1> USE DEF Continue, budget
<1>1. TypeOK'
  BY DEF IInv, TypeOK
<1>2. HistoryIsLatest'
  BY DEF IInv, HistoryIsLatest
<1>3. Shapes'
  BY DEF IInv, Shapes
<1>4. ASSUME NEW q \in Reporters \ {r}
      PROVE  pc'[q] = pc[q] /\ report'[q] = report[q] /\ copy'[q] = copy[q] /\ quiet'[q] = quiet[q]
  BY <1>4 DEF IInv, Shapes, TypeOK
<1>5. Copies'
  <2> SUFFICES ASSUME NEW q \in Reporters PROVE FromCopy(q)'
    BY DEF Copies
  <2>1. CASE q # r
    BY <1>4, <2>1 DEF IInv, Copies, FromCopy
  <2> QED BY <2>1
<1>6. QuietReportsAgree'
  <2> SUFFICES ASSUME NEW q \in Reporters, Finished(q)', quiet'[q]
               PROVE  IF report'[q].current = Full
                      THEN report'[q].exhaustion.at = Last(copy'[q]).time
                      ELSE report'[q].exhaustion.at >= report'[q].generated
    BY DEF QuietReportsAgree
  <2>1. CASE q # r
    BY <1>4, <2>1 DEF IInv, QuietReportsAgree, Finished
  <2> QED BY <2>1
<1> QED BY <1>1, <1>2, <1>3, <1>5, <1>6 DEF IInv

LEMMA CopyPreserves ==
  ASSUME IInv, NEW r \in Reporters, CopySnapshots(r)
  PROVE  IInv'
<1> USE DEF CopySnapshots
<1>1. Continue(r, "idle", "rate") /\ pc[r] = "idle" /\ pc'[r] = "rate"
  BY DEF Continue, IInv, TypeOK
<1>2. /\ copy' \in [Reporters -> Seq(Snapshots)] /\ quiet' \in [Reporters -> BOOLEAN]
      /\ copy'[r] = history
  BY DEF IInv, TypeOK
<1>3. /\ report' = [report EXCEPT ![r] = report'[r]] /\ IsReport(report'[r])
      /\ report'[r].current = Last(history).consumed /\ report'[r].generated = now
      /\ report'[r].exhaustion = report[r].exhaustion
  <2> DEFINE y == report[r]
             z == report'[r]
             current == Last(history).consumed
  <2>1. IsReport(y) /\ z = [y EXCEPT !.generated = now, !.current = current]
    BY DEF IInv, Shapes
  <2>2. report' = [report EXCEPT ![r] = z]
    BY <2>1 DEF IInv, Shapes
  <2> HIDE DEF y, z, current
  <2>3. z = [generated |-> now, current |-> current, burnRate |-> y.burnRate,
             exhaustion |-> y.exhaustion, action |-> y.action, statistics |-> y.statistics]
    BY <2>1 DEF IsReport
  <2>4. IsReport(z) /\ z.current = current /\ z.generated = now /\ z.exhaustion = y.exhaustion
    BY <2>3 DEF IsReport
  <2> QED BY <2>2, <2>4 DEF y, z, current
<1>4. report[r].exhaustion = None /\ now' = now /\ history' = history /\ now \in Nat
  BY <1>1, BudgetAssumption DEF IInv, Copies, FromCopy, Continue, budget, TypeOK
<1>5. FromCopy(r)'
  BY <1>1, <1>2, <1>3, <1>4 DEF FromCopy
<1>6. ~Finished(r)'
  BY <1>1 DEF Finished
<1>7. \A q \in Reporters \ {r} : copy'[q] = copy[q] /\ quiet'[q] = quiet[q]
  BY DEF IInv, TypeOK
<1> QED BY <1>1, <1>2, <1>3, <1>5, <1>6, <1>7, ReportStep DEF IInv, Shapes

LEMMA RatePreserves ==
  ASSUME IInv, NEW r \in Reporters, RateReport(r)
  PROVE  IInv'
<1> USE DEF RateReport
<1>1. Continue(r, "rate", "predict") /\ pc[r] = "rate" /\ pc'[r] = "predict"
  BY DEF Continue, IInv, TypeOK
<1>2. /\ report' = [report EXCEPT ![r] = report'[r]] /\ IsReport(report'[r])
      /\ report'[r].current = report[r].current /\ report'[r].generated = report[r].generated
      /\ report'[r].exhaustion = report[r].exhaustion
  BY DEF IInv, Shapes, IsReport
<1>3. FromCopy(r)'
  BY <1>1, <1>2 DEF FromCopy, IInv, Copies, Continue, budget
<1>4. ~Finished(r)'
  BY <1>1 DEF Finished
<1> QED BY <1>1, <1>2, <1>3, <1>4, ReportStep DEF IInv, Shapes, TypeOK

LEMMA PredictPreserves ==
  ASSUME IInv, NEW r \in Reporters, PredictRate(r)
  PROVE  IInv'
<1> USE DEF PredictRate
<1>1. Continue(r, "predict", "latest") /\ pc[r] = "predict" /\ pc'[r] = "latest"
  BY DEF Continue, IInv, TypeOK
<1>2. BurnRate(history, Hour) \in Rates \cup {None}
  BY BurnRateType, BudgetAssumption DEF IInv, TypeOK
<1>3. rate' \in [Reporters -> Rates \cup {None}]
  BY <1>2 DEF IInv, Shapes
<1>4. report' = [report EXCEPT ![r] = report'[r]] /\ IsReport(report'[r])
  BY DEF IInv, Shapes
<1>5. FromCopy(r)'
  BY <1>1 DEF FromCopy, IInv, Copies, Continue, budget
<1>6. ~Finished(r)'
  BY <1>1 DEF Finished
<1> QED BY <1>1, <1>3, <1>4, <1>5, <1>6, ReportStep DEF IInv, TypeOK

LEMMA FinishPreserves ==
  ASSUME IInv, NEW r \in Reporters, FinishReport(r)
  PROVE  IInv'
<1> USE DEF FinishReport
<1> DEFINE x == rate[r]
           s == Last(history)
           predicted == x # None /\ x.consumed > 0
<1>1. Continue(r, "latest", "done") /\ pc[r] = "latest" /\ pc'[r] = "done"
  BY DEF Continue, IInv, TypeOK
<1>2. /\ report' = [report EXCEPT ![r] = report'[r]] /\ IsReport(report'[r])
      /\ report'[r].current = report[r].current /\ report'[r].generated = report[r].generated
      /\ report'[r].exhaustion = IF predicted THEN [at |-> Exhaustion(x, s)] ELSE None
  <2> DEFINE y == report[r]
             z == report'[r]
             e == IF predicted THEN [at |-> Exhaustion(x, s)] ELSE None
             action == RecommendedAction(report[r].current)
             statistics == Statistics(copy[r])
  <2>1. IsReport(y) /\ z = [y EXCEPT !.exhaustion = e, !.action = action, !.statistics = statistics]
    BY DEF IInv, Shapes
  <2>2. report' = [report EXCEPT ![r] = z]
    BY <2>1 DEF IInv, Shapes
  <2> HIDE DEF y, z, e, action, statistics
  <2>3. z = [generated |-> y.generated, current |-> y.current, burnRate |-> y.burnRate,
             exhaustion |-> e, action |-> action, statistics |-> statistics]
    BY <2>1 DEF IsReport
  <2>4. IsReport(z) /\ z.current = y.current /\ z.generated = y.generated /\ z.exhaustion = e
    BY <2>3 DEF IsReport
  <2> QED BY <2>2, <2>4 DEF y, z, e
<1>3. rate' \in [Reporters -> Rates \cup {None}]
  BY DEF IInv, Shapes
<1>4. FromCopy(r)'
  BY <1>1, <1>2 DEF FromCopy, IInv, Copies, Continue, budget
<1>5. ASSUME Finished(r)', quiet'[r]
      PROVE  IF report'[r].current = Full
             THEN report'[r].exhaustion.at = Last(copy'[r]).time
             ELSE report'[r].exhaustion.at >= report'[r].generated
  <2>1. predicted /\ report'[r].exhaustion.at = Exhaustion(x, s)
    BY <1>2, <1>5 DEF Finished
  <2>2. /\ copy[r] = history /\ copy[r] # <<>> /\ report[r].current = s.consumed
        /\ report[r].generated \in 0 .. now
    BY <1>1, <1>5 DEF IInv, Copies, FromCopy
  <2>3. s \in Snapshots /\ now \in Nat
    BY <2>2, BudgetAssumption DEF IInv, TypeOK, Last
  <2>4. x \in Rates
    BY <2>1 DEF IInv, Shapes
  <2>5. CASE s.consumed = Full
    <3>1. Remaining(s) <= 0
      BY <2>5, Whole DEF Remaining
    <3>2. Exhaustion(x, s) = s.time
      BY <3>1 DEF Exhaustion
    <3> QED BY <1>2, <2>1, <2>2, <2>5, <3>2
  <2>6. CASE s.consumed # Full
    <3>1. Exhaustion(x, s) \in Nat /\ Exhaustion(x, s) >= now
      BY <2>1, <2>3, <2>4, <2>6, ExhaustionLater
    <3> QED BY <1>2, <2>1, <2>2, <2>3, <2>6, <3>1
  <2> QED BY <2>5, <2>6
<1> QED BY <1>1, <1>2, <1>3, <1>4, <1>5, ReportStep DEF IInv, TypeOK

LEMMA NextInv == IInv /\ [Next]_vars => IInv'
<1> SUFFICES ASSUME IInv, [Next]_vars PROVE IInv'
  OBVIOUS
<1>1. CASE UNCHANGED vars
  <2>1. UNCHANGED <<now, history, recorded, taken, pc, copy, rate, report, quiet>>
    BY <1>1 DEF vars, budget, reports
  <2>2. TypeOK' /\ HistoryIsLatest'
    BY <2>1 DEF IInv, TypeOK, HistoryIsLatest
  <2>3. now' \in Nat /\ now' >= now
    BY <2>1, BudgetAssumption DEF IInv, TypeOK
  <2> QED BY <2>1, <2>2, <2>3, ReportsUntouched DEF IInv
<1> QED
  BY <1>1, TickPreserves, CalculatePreserves, RecordPreserves, CopyPreserves, RatePreserves,
     PredictPreserves, FinishPreserves
  DEF Next

-----------------------------------------------------------------------------
(* Theorems *)

\* The inductive invariant: the history is the end of what was recorded, what a
\* report has so far is from its copy, and the copy is the history until
\* something is recorded.
THEOREM Invariance == Spec => []IInv
BY InitInv, NextInv, PTL DEF Spec

\* The types of the history, of the snapshots on their way to it and of the
\* reports.
THEOREM TypeCorrect == Spec => []TypeOK
<1>1. IInv => TypeOK
  BY DEF IInv
<1> QED BY <1>1, Invariance, PTL

\* RecordSnapshot keeps the latest MaxSnapshots of all that was ever recorded,
\* in the order in which it was recorded, for any limit and any callers.
THEOREM LatestKept == Spec => []HistoryIsLatest
<1>1. IInv => HistoryIsLatest
  BY DEF IInv
<1> QED BY <1>1, Invariance, PTL

\* A report put together under four locks contradicts itself only if a snapshot
\* was recorded meanwhile, whatever else the callers, the clock and other
\* reports did.
THEOREM QuietAgreement == Spec => []QuietReportsAgree
<1>1. IInv => QuietReportsAgree
  BY DEF IInv
<1> QED BY <1>1, Invariance, PTL

-----------------------------------------------------------------------------
(* calculateStatistics.  RunningStatistics is recursive: that there is such a   *)
(* function, and what it computes, follows for each number n of snapshots from  *)
(* the fact that no n is the least one for which it does not.                   *)

\* A function that follows the recursion as far as n.
Follows(f, h, n) ==
    f = [i \in 0 .. n |-> IF i = 0 THEN StartStatistics ELSE NextStatistics(f[i - 1], h[i])]

LEMMA FollowsFurther ==
  ASSUME NEW h, NEW n \in Nat, NEW f, Follows(f, h, n)
  PROVE  \E g : Follows(g, h, n + 1)
<1> DEFINE g == [i \in 0 .. n + 1 |->
                   IF i = n + 1 THEN NextStatistics(f[n], h[n + 1]) ELSE f[i]]
           e(i) == IF i = 0 THEN StartStatistics ELSE NextStatistics(g[i - 1], h[i])
<1>1. ASSUME NEW i \in 0 .. n + 1 PROVE g[i] = e(i)
  <2>1. CASE i = n + 1
    <3>1. g[i - 1] = f[n] /\ i # 0
      BY <2>1
    <3>2. g[i] = NextStatistics(f[n], h[i])
      BY <2>1
    <3> HIDE DEF g
    <3> QED BY <3>1, <3>2
  <2>2. CASE i \in 1 .. n
    <3>1. g[i - 1] = f[i - 1] /\ g[i] = f[i] /\ i # 0 /\ i \in 0 .. n
      BY <2>2
    <3>2. f[i] = NextStatistics(f[i - 1], h[i])
      BY <3>1 DEF Follows
    <3> HIDE DEF g
    <3> QED BY <3>1, <3>2
  <2>3. CASE i = 0
    <3>1. g[i] = f[0]
      BY <2>3
    <3>2. f[0] = StartStatistics
      BY DEF Follows
    <3> HIDE DEF g
    <3> QED BY <2>3, <3>1, <3>2
  <2> QED BY <2>1, <2>2, <2>3
<1>2. g = [i \in 0 .. n + 1 |-> g[i]]
  OBVIOUS
<1> HIDE DEF g
<1>3. g = [i \in 0 .. n + 1 |-> e(i)]
  BY <1>1, <1>2
<1> QED BY <1>3 DEF Follows

LEMMA FollowsThrough ==
  ASSUME NEW h, NEW n \in Nat
  PROVE  \E f : Follows(f, h, n)
<1> DEFINE Bad == {m \in Nat : ~\E f : Follows(f, h, m)}
<1>1. SUFFICES ASSUME Bad # {} PROVE FALSE
  OBVIOUS
<1>2. PICK m \in Bad : \A k \in Bad : m <= k
  BY <1>1, LeastExists
<1>3. CASE m = 0
  <2> DEFINE f == [i \in 0 .. 0 |-> StartStatistics]
  <2>1. f = [i \in 0 .. 0 |-> IF i = 0 THEN StartStatistics ELSE NextStatistics(f[i - 1], h[i])]
    OBVIOUS
  <2> HIDE DEF f
  <2>2. Follows(f, h, m)
    BY <1>3, <2>1 DEF Follows
  <2> QED BY <2>2
<1>4. CASE m # 0
  <2>1. m - 1 \in Nat /\ m - 1 \notin Bad
    BY <1>2, <1>4
  <2>2. PICK f : Follows(f, h, m - 1)
    BY <2>1
  <2>3. \E g : Follows(g, h, (m - 1) + 1)
    BY <2>1, <2>2, FollowsFurther
  <2>4. (m - 1) + 1 = m
    BY <1>2
  <2> QED BY <2>3, <2>4
<1> QED BY <1>3, <1>4

LEMMA RunningIs ==
  ASSUME NEW h \in Seq(Snapshots)
  PROVE  /\ RunningStatistics(h)[0] = StartStatistics
         /\ \A n \in 1 .. Len(h) :
              RunningStatistics(h)[n] = NextStatistics(RunningStatistics(h)[n - 1], h[n])
<1> DEFINE N == Len(h)
           r == CHOOSE f : Follows(f, h, N)
<1>1. N \in Nat
  OBVIOUS
<1>2. RunningStatistics(h) = r
  BY DEF RunningStatistics, Follows
<1> HIDE DEF N
<1>3. Follows(r, h, N)
  BY <1>1, FollowsThrough
<1> HIDE DEF r
<1>4. r[0] = StartStatistics
  BY <1>1, <1>3 DEF Follows
<1>5. ASSUME NEW n \in 1 .. N PROVE r[n] = NextStatistics(r[n - 1], h[n])
  BY <1>1, <1>3, <1>5 DEF Follows
<1> QED BY <1>2, <1>4, <1>5 DEF N

Running == [min : 0 .. Full, max : 0 .. Full, violations : Nat, longest : Nat,
            inViolation : BOOLEAN, start : Nat]

\* One iteration of the loop, field by field.
LEMMA NextStatisticsIs ==
  ASSUME NEW st \in Running, NEW s \in Snapshots
  PROVE  LET x == NextStatistics(st, s)
         IN  /\ x \in Running
             /\ x.min = Smaller(st.min, Remaining(s)) /\ x.max = Larger(st.max, Remaining(s))
             /\ x.inViolation = Violation(s)
             /\ x.violations = IF Violation(s) /\ ~st.inViolation
                               THEN st.violations + 1 ELSE st.violations
             /\ x.start = IF Violation(s) /\ ~st.inViolation THEN s.time ELSE st.start
             /\ x.longest = IF ~Violation(s) /\ st.inViolation
                            THEN Larger(st.longest, s.time - st.start) ELSE st.longest
<1> DEFINE lo == Smaller(st.min, Remaining(s))
           hi == Larger(st.max, Remaining(s))
           seen == [st EXCEPT !.min = lo, !.max = hi]
           x == NextStatistics(st, s)
           long == Larger(st.longest, s.time - st.start)
<1>1. lo \in 0 .. Full /\ hi \in 0 .. Full
  BY Whole DEF Running, Snapshots, Remaining, Smaller, Larger
<1>2. s.time \in Nat /\ long \in Nat
  BY BudgetAssumption DEF Running, Snapshots, Larger
<1>3. Violation(s) \in BOOLEAN /\ st.inViolation \in BOOLEAN
  BY DEF Violation, Running
<1>4. x = CASE Violation(s) /\ ~st.inViolation ->
                 [seen EXCEPT !.inViolation = TRUE, !.start = s.time, !.violations = st.violations + 1]
            [] ~Violation(s) /\ st.inViolation ->
                 [seen EXCEPT !.inViolation = FALSE, !.longest = long]
            [] OTHER -> seen
  BY DEF NextStatistics, Running
<1> HIDE DEF lo, hi, long, x
<1>5. /\ seen \in Running /\ seen.min = lo /\ seen.max = hi /\ seen.violations = st.violations
      /\ seen.start = st.start /\ seen.longest = st.longest /\ seen.inViolation = st.inViolation
  BY <1>1 DEF Running
<1> HIDE DEF seen
<1>6. CASE Violation(s) /\ ~st.inViolation
  <2>1. x = [seen EXCEPT !.inViolation = TRUE, !.start = s.time, !.violations = st.violations + 1]
    BY <1>4, <1>6
  <2>a. st.violations + 1 \in Nat
    BY DEF Running
  <2>b. x \in Running
    BY <1>2, <1>5, <2>1, <2>a DEF Running
  <2>2. /\ x \in Running /\ x.min = lo /\ x.max = hi /\ x.violations = st.violations + 1
        /\ x.start = s.time /\ x.longest = st.longest /\ x.inViolation = TRUE
    BY <1>5, <2>1, <2>b DEF Running
  <2>3. x.inViolation = Violation(s)
    BY <1>3, <1>6, <2>2
  <2> QED BY <1>6, <2>2, <2>3 DEF lo, hi, x
<1>7. CASE ~Violation(s) /\ st.inViolation
  <2>1. x = [seen EXCEPT !.inViolation = FALSE, !.longest = long]
    BY <1>4, <1>7
  <2>2. /\ x \in Running /\ x.min = lo /\ x.max = hi /\ x.violations = st.violations
        /\ x.start = st.start /\ x.longest = long /\ x.inViolation = FALSE
    BY <1>2, <1>5, <2>1 DEF Running
  <2>3. x.inViolation = Violation(s)
    BY <1>3, <1>7, <2>2
  <2> QED BY <1>7, <2>2, <2>3 DEF lo, hi, x, long
<1>8. CASE Violation(s) = st.inViolation
  <2>1. x = seen
    BY <1>3, <1>4, <1>8
  <2> QED BY <1>3, <1>5, <1>8, <2>1 DEF lo, hi, x
<1> QED BY <1>3, <1>6, <1>7, <1>8

\* The runs of violations that begin within the first n snapshots, and when one
\* has ended.
Runs(h, n) == {i \in 1 .. n : Begins(h, i)}
Lasts(h, i, n) == \A k \in i .. n : Violation(h[k])
Ends(h, i, j) == i < j /\ ~Violation(h[j]) /\ Lasts(h, i, j - 1)

\* What the loop's variables st say of the first n snapshots of h.
Extremes(h, n, st) ==
    /\ \A i \in 1 .. n : st.min <= Remaining(h[i]) /\ Remaining(h[i]) <= st.max
    /\ n = 0 => st.min = Full /\ st.max = 0
    /\ n > 0 => /\ \E i \in 1 .. n : st.min = Remaining(h[i])
                /\ \E i \in 1 .. n : st.max = Remaining(h[i])
LastRun(h, n, st) ==
    /\ st.inViolation <=> n > 0 /\ Violation(h[n])
    /\ st.inViolation => \E i \in Runs(h, n) : Lasts(h, i, n) /\ st.start = h[i].time
Longest(h, n, st) ==
    /\ \A i \in Runs(h, n), j \in 1 .. n : Ends(h, i, j) => h[j].time - h[i].time <= st.longest
    /\ \/ st.longest = 0
       \/ \E i \in Runs(h, n), j \in 1 .. n : Ends(h, i, j) /\ st.longest = h[j].time - h[i].time
Sums(h, n, st) ==
    /\ st \in Running
    /\ Extremes(h, n, st)
    /\ st.violations = Cardinality(Runs(h, n))
    /\ LastRun(h, n, st)
    /\ Longest(h, n, st)

\* Of two runs that last until the same snapshot, neither begins in the other.
LEMMA OneLastRun ==
  ASSUME NEW h, NEW n \in Nat, NEW i \in Runs(h, n), NEW k \in Runs(h, n),
         Lasts(h, i, n), Lasts(h, k, n)
  PROVE  i = k
<1>1. \A a, b \in Runs(h, n) : Lasts(h, a, n) => ~(a < b)
  <2> SUFFICES ASSUME NEW a \in Runs(h, n), NEW b \in Runs(h, n), Lasts(h, a, n), a < b
               PROVE  FALSE
    OBVIOUS
  <2>1. b - 1 \in a .. n /\ b # 1 /\ Begins(h, b)
    BY DEF Runs
  <2> QED BY <2>1 DEF Begins, Lasts
<1>2. i \in Nat /\ k \in Nat
  BY DEF Runs
<1> QED BY <1>1, <1>2

LEMMA RunsFinite ==
  ASSUME NEW h, NEW n \in Nat
  PROVE  IsFiniteSet(Runs(h, n))
<1>1. IsFiniteSet(1 .. n)
  BY FS_Interval
<1> QED BY <1>1, FS_Subset DEF Runs

LEMMA SumsFurther ==
  ASSUME NEW h \in Seq(Snapshots), NEW n \in 1 .. Len(h), NEW st, Sums(h, n - 1, st)
  PROVE  Sums(h, n, NextStatistics(st, h[n]))
<1> DEFINE s == h[n]
           m == n - 1
           x == NextStatistics(st, s)
<1>1. /\ n \in Nat /\ m \in Nat /\ m = n - 1 /\ Len(h) \in Nat
      /\ 1 .. n = (1 .. m) \cup {n} /\ n \notin 1 .. m
  OBVIOUS
<1>2. s \in Snapshots /\ \A i \in 1 .. n : h[i] \in Snapshots
  OBVIOUS
<1>3. st \in Running /\ Extremes(h, m, st) /\ LastRun(h, m, st) /\ Longest(h, m, st)
      /\ st.violations = Cardinality(Runs(h, m))
  BY DEF Sums
<1>4. /\ x \in Running
      /\ x.min = Smaller(st.min, Remaining(s)) /\ x.max = Larger(st.max, Remaining(s))
      /\ x.inViolation = Violation(s)
      /\ x.violations = IF Violation(s) /\ ~st.inViolation THEN st.violations + 1 ELSE st.violations
      /\ x.start = IF Violation(s) /\ ~st.inViolation THEN s.time ELSE st.start
      /\ x.longest = IF ~Violation(s) /\ st.inViolation
                     THEN Larger(st.longest, s.time - st.start) ELSE st.longest
  BY <1>2, <1>3, NextStatisticsIs
<1> HIDE DEF x, m
<1>5. \A i \in 1 .. n : Remaining(h[i]) \in 0 .. Full
  BY <1>2, Whole DEF Remaining, Snapshots
<1>6. Begins(h, n) <=> Violation(s) /\ ~st.inViolation
  BY <1>1, <1>3 DEF Begins, LastRun
<1>7. Runs(h, n) = IF Begins(h, n) THEN Runs(h, m) \cup {n} ELSE Runs(h, m)
  BY <1>1 DEF Runs
<1>8. n \notin Runs(h, m) /\ Runs(h, m) \subseteq Runs(h, n) /\ Runs(h, m) \subseteq 1 .. m
  BY <1>1, <1>7 DEF Runs
<1> HIDE DEF s
<1>9. Extremes(h, n, x)
  <2>1. Remaining(h[n]) = Remaining(s) /\ Remaining(s) \in 0 .. Full
    BY <1>1, <1>5 DEF s
  <2>2. st.min \in 0 .. Full /\ st.max \in 0 .. Full /\ Full \in Nat
    BY <1>3, Whole DEF Running
  <2>3. /\ x.min <= st.min /\ x.min <= Remaining(s) /\ x.min \in 0 .. Full
        /\ x.max >= st.max /\ x.max >= Remaining(s) /\ x.max \in 0 .. Full
        /\ x.min \in {st.min, Remaining(s)} /\ x.max \in {st.max, Remaining(s)}
    BY <1>4, <2>1, <2>2 DEF Smaller, Larger
  <2>4. ASSUME NEW i \in 1 .. n PROVE x.min <= Remaining(h[i]) /\ Remaining(h[i]) <= x.max
    <3>1. CASE i = n
      BY <2>1, <2>3, <3>1
    <3>2. CASE i \in 1 .. m
      <4>1. st.min <= Remaining(h[i]) /\ Remaining(h[i]) <= st.max
        BY <1>3, <3>2 DEF Extremes
      <4>2. Remaining(h[i]) \in 0 .. Full
        BY <1>5
      <4> QED BY <2>2, <2>3, <4>1, <4>2
    <3> QED BY <1>1, <3>1, <3>2
  <2>5. CASE m = 0
    <3>1. x.min = Remaining(s) /\ x.max = Remaining(s)
      BY <1>3, <1>4, <2>1, <2>2, <2>5 DEF Extremes, Smaller, Larger
    <3> QED BY <1>1, <2>1, <2>4, <3>1 DEF Extremes
  <2>6. CASE m > 0
    <3>1. PICK i \in 1 .. m : st.min = Remaining(h[i])
      BY <1>3, <2>6 DEF Extremes
    <3>2. PICK j \in 1 .. m : st.max = Remaining(h[j])
      BY <1>3, <2>6 DEF Extremes
    <3>3. \E k \in 1 .. n : x.min = Remaining(h[k])
      BY <1>1, <2>1, <2>3, <3>1
    <3>4. \E k \in 1 .. n : x.max = Remaining(h[k])
      BY <1>1, <2>1, <2>3, <3>2
    <3> QED BY <1>1, <2>4, <3>3, <3>4 DEF Extremes
  <2> QED BY <1>1, <2>5, <2>6
<1>10. x.violations = Cardinality(Runs(h, n))
  <2>1. IsFiniteSet(Runs(h, m))
    BY <1>1, RunsFinite
  <2>2. Cardinality(Runs(h, m) \cup {n}) = Cardinality(Runs(h, m)) + 1
    BY <1>8, <2>1, FS_AddElement
  <2> QED BY <1>3, <1>4, <1>6, <1>7, <2>2
<1>11. LastRun(h, n, x)
  <2>1. x.inViolation <=> n > 0 /\ Violation(h[n])
    BY <1>1, <1>4 DEF s
  <2>2. ASSUME Violation(s) PROVE \E i \in Runs(h, n) : Lasts(h, i, n) /\ x.start = h[i].time
    <3>1. CASE ~st.inViolation
      <4>1. n \in Runs(h, n) /\ x.start = h[n].time
        BY <1>4, <1>6, <1>7, <2>2, <3>1 DEF s
      <4>2. Lasts(h, n, n)
        BY <1>1, <2>2 DEF Lasts, s
      <4> QED BY <4>1, <4>2
    <3>2. CASE st.inViolation
      <4>1. PICK i \in Runs(h, m) : Lasts(h, i, m) /\ st.start = h[i].time
        BY <1>3, <3>2 DEF LastRun
      <4>2. i \in Runs(h, n) /\ x.start = h[i].time /\ i \in 1 .. m
        BY <1>4, <1>8, <3>2, <4>1
      <4>3. Lasts(h, i, n)
        BY <1>1, <2>2, <4>1, <4>2 DEF Lasts, s
      <4> QED BY <4>2, <4>3
    <3> QED BY <3>1, <3>2
  <2> QED BY <1>4, <2>1, <2>2 DEF LastRun
<1>12. Longest(h, n, x)
  <2>1. st.longest \in Nat /\ st.start \in Nat /\ s.time \in Nat
    BY <1>2, <1>3, BudgetAssumption DEF Running, Snapshots
  <2>2. x.longest >= st.longest /\ x.longest \in Nat
    BY <1>4, <2>1 DEF Larger
  <2>3. ASSUME NEW i \in Runs(h, n), NEW j \in 1 .. n, Ends(h, i, j)
        PROVE  h[j].time - h[i].time <= x.longest
    <3>1. i \in 1 .. m /\ i \in Runs(h, m)
      BY <1>1, <2>3 DEF Runs, Ends
    <3>2. h[j].time \in Nat /\ h[i].time \in Nat
      BY <1>1, <1>2, <3>1, BudgetAssumption DEF Snapshots
    <3>3. CASE j \in 1 .. m
      <4>1. h[j].time - h[i].time <= st.longest
        BY <1>3, <2>3, <3>1, <3>3 DEF Longest
      <4> QED BY <2>1, <2>2, <3>2, <4>1
    <3>4. CASE j = n
      <4>1. ~Violation(s) /\ Lasts(h, i, m)
        BY <1>1, <2>3, <3>4 DEF Ends, s
      <4>2. st.inViolation
        <5>1. m > 0 /\ m \in i .. m
          BY <1>1, <3>1
        <5> QED BY <1>3, <4>1, <5>1 DEF LastRun, Lasts
      <4>3. PICK k \in Runs(h, m) : Lasts(h, k, m) /\ st.start = h[k].time
        BY <1>3, <4>2 DEF LastRun
      <4>4. k = i
        BY <1>1, <3>1, <4>1, <4>3, OneLastRun
      <4>5. x.longest = Larger(st.longest, s.time - st.start)
        BY <1>4, <4>1, <4>2
      <4>6. h[j].time - h[i].time = s.time - st.start
        BY <3>4, <4>3, <4>4 DEF s
      <4> QED BY <2>1, <4>5, <4>6 DEF Larger
    <3> QED BY <1>1, <3>3, <3>4
  <2>4. \/ x.longest = 0
        \/ \E i \in Runs(h, n), j \in 1 .. n : Ends(h, i, j) /\ x.longest = h[j].time - h[i].time
    <3>1. CASE x.longest = st.longest
      <4>1. CASE st.longest = 0
        BY <3>1, <4>1
      <4>2. CASE st.longest # 0
        <5>1. PICK i \in Runs(h, m), j \in 1 .. m :
                Ends(h, i, j) /\ st.longest = h[j].time - h[i].time
          BY <1>3, <4>2 DEF Longest
        <5> QED BY <1>1, <1>8, <3>1, <5>1
      <4> QED BY <4>1, <4>2
    <3>2. CASE ~Violation(s) /\ st.inViolation /\ x.longest = s.time - st.start
      <4>1. PICK i \in Runs(h, m) : Lasts(h, i, m) /\ st.start = h[i].time
        BY <1>3, <3>2 DEF LastRun
      <4>2. i \in Runs(h, n) /\ i < n
        BY <1>1, <1>8, <4>1
      <4>3. Ends(h, i, n) /\ x.longest = h[n].time - h[i].time
        BY <1>1, <3>2, <4>1, <4>2 DEF Ends, s
      <4> QED BY <1>1, <4>2, <4>3
    <3> QED BY <1>4, <3>1, <3>2 DEF Larger
  <2> QED BY <2>3, <2>4 DEF Longest
<1> QED BY <1>4, <1>9, <1>10, <1>11, <1>12 DEF Sums, x, s

\* The loop's variables are right after each snapshot.
LEMMA SumsThrough ==
  ASSUME NEW h \in Seq(Snapshots), NEW n \in 0 .. Len(h)
  PROVE  Sums(h, n, RunningStatistics(h)[n])
<1> DEFINE Bad == {k \in 0 .. Len(h) : ~Sums(h, k, RunningStatistics(h)[k])}
<1>1. SUFFICES ASSUME Bad # {} PROVE FALSE
  OBVIOUS
<1>2. Bad \subseteq Nat
  OBVIOUS
<1>3. PICK k \in Bad : \A j \in Bad : k <= j
  BY <1>1, <1>2, LeastExists
<1>4. CASE k = 0
  <2>1. StartStatistics \in Running
    BY Whole DEF StartStatistics, Running
  <2>2. Runs(h, 0) = {}
    BY DEF Runs
  <2>3. Cardinality(Runs(h, 0)) = 0
    BY <2>2, FS_EmptySet
  <2>4. Extremes(h, 0, StartStatistics) /\ LastRun(h, 0, StartStatistics)
        /\ Longest(h, 0, StartStatistics) /\ StartStatistics.violations = 0
    BY <2>2 DEF Extremes, LastRun, Longest, StartStatistics
  <2>5. Sums(h, 0, StartStatistics)
    BY <2>1, <2>3, <2>4 DEF Sums
  <2> QED BY <1>4, <2>5, RunningIs
<1>5. CASE k # 0
  <2>1. k \in 1 .. Len(h) /\ k - 1 \in 0 .. Len(h) /\ k - 1 \notin Bad
    BY <1>2, <1>3, <1>5
  <2>2. Sums(h, k - 1, RunningStatistics(h)[k - 1])
    BY <2>1
  <2>3. RunningStatistics(h)[k] = NextStatistics(RunningStatistics(h)[k - 1], h[k])
    BY <2>1, RunningIs
  <2> QED BY <2>1, <2>2, <2>3, SumsFurther
<1> QED BY <1>4, <1>5

LEMMA MinIs ==
  ASSUME NEW S, S \subseteq Int, NEW m \in S, \A y \in S : m <= y
  PROVE  Min(S) = m
<1> DEFINE c == CHOOSE x \in S : \A y \in S : x =< y
<1>1. c \in S /\ \A y \in S : c <= y
  OBVIOUS
<1>2. Min(S) = c
  BY DEF Min
<1> HIDE DEF c
<1> QED BY <1>1, <1>2

LEMMA MaxIs ==
  ASSUME NEW S, S \subseteq Int, NEW m \in S, \A y \in S : y <= m
  PROVE  Max(S) = m
<1> DEFINE c == CHOOSE x \in S : \A y \in S : x >= y
<1>1. c \in S /\ \A y \in S : c >= y
  <2>1. \E x \in S : \A y \in S : x >= y
    OBVIOUS
  <2> QED BY <2>1
<1>2. Max(S) = c
  BY DEF Max
<1> HIDE DEF c
<1> QED BY <1>1, <1>2

\* A run lasts until the snapshot that ends it, or until now.
LEMMA DurationIs ==
  ASSUME NEW h \in Seq(Snapshots), NEW i \in Runs(h, Len(h))
  PROVE  \/ Lasts(h, i, Len(h)) /\ Duration(h, i) = now - h[i].time
         \/ \E j \in 1 .. Len(h) : Ends(h, i, j) /\ Duration(h, i) = h[j].time - h[i].time
<1> DEFINE over == {j \in (i + 1) .. Len(h) : ~Violation(h[j])}
<1>1. i \in 1 .. Len(h) /\ Violation(h[i]) /\ Len(h) \in Nat
  BY DEF Runs, Begins
<1>2. Duration(h, i) = (IF over = {} THEN now ELSE h[Min(over)].time) - h[i].time
  BY DEF Duration
<1>3. \A k \in (i + 1) .. Len(h) : k \in over <=> ~Violation(h[k])
  OBVIOUS
<1>4. over \subseteq (i + 1) .. Len(h) /\ over \subseteq Nat
  BY <1>1
<1> HIDE DEF over
<1>5. CASE over = {}
  <2>1. Lasts(h, i, Len(h))
    BY <1>1, <1>3, <1>5 DEF Lasts
  <2> QED BY <1>2, <1>5, <2>1
<1>6. CASE over # {}
  <2>1. PICK j \in over : \A k \in over : j <= k
    BY <1>4, <1>6, LeastExists
  <2>2. Min(over) = j
    <3>1. over \subseteq Int
      BY <1>4
    <3> QED BY <2>1, <3>1, MinIs
  <2>3. j \in (i + 1) .. Len(h) /\ j \in 1 .. Len(h) /\ i < j
    BY <1>1, <1>4, <2>1
  <2>4. Lasts(h, i, j - 1)
    BY <1>1, <1>3, <2>1, <2>3 DEF Lasts
  <2>5. Ends(h, i, j)
    BY <1>3, <2>1, <2>3, <2>4 DEF Ends
  <2> QED BY <1>2, <1>6, <2>2, <2>3, <2>5
<1> QED BY <1>5, <1>6

\* A run that has ended does not last.
LEMMA EndedOnce ==
  ASSUME NEW n \in Nat, NEW h, NEW i \in 1 .. n, NEW j \in 1 .. n, Ends(h, i, j)
  PROVE  /\ ~Lasts(h, i, n)
         /\ \A k \in 1 .. n : Ends(h, i, k) => k = j
<1>1. ~Lasts(h, i, n)
  BY DEF Ends, Lasts
<1>2. \A a, b \in 1 .. n : Ends(h, i, a) /\ Ends(h, i, b) => ~(a < b)
  <2> SUFFICES ASSUME NEW a \in 1 .. n, NEW b \in 1 .. n, Ends(h, i, a), Ends(h, i, b), a < b
               PROVE  FALSE
    OBVIOUS
  <2>1. a \in i .. b - 1
    BY DEF Ends
  <2> QED BY <2>1 DEF Ends, Lasts
<1> QED BY <1>1, <1>2

\* calculateStatistics: the extremes of what remains, and the number and the
\* greatest length of the runs of violations, of any history.
LEMMA StatisticsAre ==
  ASSUME NEW h \in Seq(Snapshots), h # <<>>, now \in Nat
  PROVE  LET runs == {i \in DOMAIN h : Begins(h, i)}
         IN  Statistics(h) =
               [min        |-> Min({Remaining(h[i]) : i \in DOMAIN h}),
                max        |-> Max({Remaining(h[i]) : i \in DOMAIN h}),
                violations |-> Cardinality(runs),
                longest    |-> Max({0} \cup {Duration(h, i) : i \in runs})]
<1> DEFINE n    == Len(h)
           st   == RunningStatistics(h)[n]
           R    == {Remaining(h[i]) : i \in 1 .. n}
           D    == {Duration(h, i) : i \in Runs(h, n)}
           long == IF st.inViolation THEN Larger(st.longest, now - st.start) ELSE st.longest
<1>1. DOMAIN h = 1 .. n /\ n \in Nat /\ n > 0
  OBVIOUS
<1>2. \A i \in 1 .. n : h[i] \in Snapshots
  OBVIOUS
<1>3. Sums(h, n, st)
  BY <1>1, SumsThrough
<1>4. Statistics(h) = [min |-> st.min, max |-> st.max, violations |-> st.violations,
                       longest |-> long]
  BY DEF Statistics
<1>5. Runs(h, n) = {i \in DOMAIN h : Begins(h, i)}
  BY <1>1 DEF Runs
<1> HIDE DEF st, long
<1>6. st \in Running /\ Extremes(h, n, st) /\ LastRun(h, n, st) /\ Longest(h, n, st)
      /\ st.violations = Cardinality(Runs(h, n))
  BY <1>3 DEF Sums
<1>7. Min(R) = st.min /\ Max(R) = st.max
  <2>1. \A i \in 1 .. n : Remaining(h[i]) \in Int
    BY <1>2, Whole DEF Remaining, Snapshots
  <2>2. R \subseteq Int
    BY <2>1
  <2>3. /\ st.min \in R /\ \A y \in R : st.min <= y
        /\ st.max \in R /\ \A y \in R : y <= st.max
    BY <1>1, <1>6 DEF Extremes
  <2> HIDE DEF R
  <2> QED BY <2>2, <2>3, MinIs, MaxIs
<1>8. Max({0} \cup D) = long
  <2>1. st.longest \in Nat /\ st.start \in Nat /\ \A i \in 1 .. n : h[i].time \in Nat
    BY <1>2, <1>6, BudgetAssumption DEF Running, Snapshots
  <2>2. Runs(h, n) \subseteq 1 .. n
    BY DEF Runs
  <2>3. long \in Int /\ long >= st.longest /\ long >= 0
    BY <2>1 DEF long, Larger
  <2>4. ASSUME NEW i \in Runs(h, n) PROVE Duration(h, i) \in Int /\ Duration(h, i) <= long
    <3>1. CASE Lasts(h, i, n) /\ Duration(h, i) = now - h[i].time
      <4>1. n \in i .. n
        BY <1>1, <2>2
      <4>2. st.inViolation
        BY <1>1, <1>6, <3>1, <4>1 DEF LastRun, Lasts
      <4>3. PICK k \in Runs(h, n) : Lasts(h, k, n) /\ st.start = h[k].time
        BY <1>6, <4>2 DEF LastRun
      <4>4. k = i
        BY <1>1, <3>1, <4>3, OneLastRun
      <4>5. long = Larger(st.longest, now - st.start) /\ Duration(h, i) = now - st.start
        BY <3>1, <4>2, <4>3, <4>4 DEF long
      <4> QED BY <2>1, <4>5 DEF Larger
    <3>2. CASE \E j \in 1 .. n : Ends(h, i, j) /\ Duration(h, i) = h[j].time - h[i].time
      <4>1. PICK j \in 1 .. n : Ends(h, i, j) /\ Duration(h, i) = h[j].time - h[i].time
        BY <3>2
      <4>2. h[j].time - h[i].time <= st.longest
        BY <1>6, <4>1 DEF Longest
      <4> QED BY <2>1, <2>2, <2>3, <4>1, <4>2
    <3> QED BY <3>1, <3>2, DurationIs
  <2>5. long \in {0} \cup D
    <3>1. CASE st.inViolation /\ long = now - st.start
      <4>1. PICK k \in Runs(h, n) : Lasts(h, k, n) /\ st.start = h[k].time
        BY <1>6, <3>1 DEF LastRun
      <4>2. Duration(h, k) = now - h[k].time
        BY <1>1, <2>2, <4>1, DurationIs, EndedOnce
      <4> QED BY <3>1, <4>1, <4>2
    <3>2. CASE long = st.longest
      <4>1. CASE st.longest # 0
        <5>1. PICK i \in Runs(h, n), j \in 1 .. n :
                Ends(h, i, j) /\ st.longest = h[j].time - h[i].time
          BY <1>6, <4>1 DEF Longest
        <5>2. Duration(h, i) = h[j].time - h[i].time
          BY <1>1, <2>2, <5>1, DurationIs, EndedOnce
        <5> QED BY <3>2, <5>1, <5>2
      <4> QED BY <3>2, <4>1
    <3> QED BY <3>1, <3>2 DEF long, Larger
  <2>6. {0} \cup D \subseteq Int /\ \A y \in {0} \cup D : y <= long
    BY <2>3, <2>4
  <2> HIDE DEF D
  <2> QED BY <2>5, <2>6, MaxIs
<1> HIDE DEF n
<1> QED BY <1>1, <1>4, <1>5, <1>6, <1>7, <1>8

\* GenerateReport: whatever is recorded or trimmed while it is made, the
\* statistics of a report are those of the history its current state is from.
THEOREM Statistical == Spec => StatisticsOfTheCopy
<1> DEFINE Right(r) ==
             pc[r] = "latest" /\ pc'[r] = "done" =>
               LET h == copy[r]
                   runs == {i \in DOMAIN h : Begins(h, i)}
               IN  report'[r].statistics =
                     [min        |-> Min({Remaining(h[i]) : i \in DOMAIN h}),
                      max        |-> Max({Remaining(h[i]) : i \in DOMAIN h}),
                      violations |-> Cardinality(runs),
                      longest    |-> Max({0} \cup {Duration(h, i) : i \in runs})]
<1>1. ASSUME IInv, Next, NEW r \in Reporters PROVE Right(r)
  <2> SUFFICES ASSUME pc[r] = "latest", pc'[r] = "done" PROVE Right(r)
    BY Zenon
  <2>1. FinishReport(r)
    BY <1>1 DEF Next, Tick, CalculateErrorBudget, RecordSnapshot, CopySnapshots, RateReport,
                PredictRate, FinishReport, Continue, reports, budget, IInv, TypeOK
  <2>2. copy[r] \in Seq(Snapshots) /\ copy[r] # <<>> /\ now \in Nat
    BY <1>1, BudgetAssumption DEF IInv, TypeOK, Copies, FromCopy
  <2>3. report'[r].statistics = Statistics(copy[r])
    <3> DEFINE y == report[r]
               z == report'[r]
               v == Statistics(copy[r])
    <3>1. /\ IsReport(y)
          /\ \E e, a : z = [y EXCEPT !.exhaustion = e, !.action = a, !.statistics = v]
      BY <1>1, <2>1 DEF FinishReport, IInv, Shapes
    <3> HIDE DEF y, z, v
    <3>2. z.statistics = v
      BY <3>1 DEF IsReport
    <3> QED BY <3>2 DEF z, v
  <2> QED BY <2>2, <2>3, StatisticsAre, Zenon
<1>2. IInv /\ [Next]_vars => [\A r \in Reporters : Right(r)]_vars
  BY <1>1
<1> QED BY <1>2, Invariance, PTL DEF Spec, StatisticsOfTheCopy
=============================================================================
