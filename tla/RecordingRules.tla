--------------------------- MODULE RecordingRules ---------------------------
(***************************************************************************)
(* internal/slo/recording_rules.go: the recording rules generated for      *)
(* Prometheus, and Prometheus evaluating them.  A rule gives its series a  *)
(* sample only when every series its expression names has one, and the     *)
(* groups are evaluated independently, again and again.                    *)
(*                                                                         *)
(* A series is its name's parts; targets, thresholds and labels decide     *)
(* which values are recorded, not whether there are any, and are left out. *)
(* The operator's own metrics always have samples.                         *)
(***************************************************************************)
VARIABLE present  \* the recorded series that have samples

SLIs       == {"availability", "success_rate", "latency_p95", "throughput"}
BudgetSLOs == {"availability", "success_rate"}

Rule(record, from) == [record |-> record, from |-> from]

\* generateSLIRules: from the operator's metrics.
SLIRules == {Rule(<<"sli", s, w>>, {}) : s \in SLIs, w \in {"5m", "30m", "1h"}}

\* generateSLOBurnRateRules: from the SLI over the same window, except that of
\* latency, from the operator's metrics.
SLOBurnRateRules ==
    {Rule(<<"burn_rate", s, w>>, IF s = "latency_p95" THEN {} ELSE {<<"sli", s, w>>}) :
        s \in SLIs, w \in {"5m", "30m", "1h", "6h", "24h"}}

\* generateErrorBudgetRules.
ErrorBudgetRules ==
    {Rule(<<"error_budget_remaining", s, "30d">>, {<<"sli", s, "1h">>}) : s \in BudgetSLOs}
      \cup {Rule(<<"error_budget_burn_rate", s, w>>, {<<"burn_rate", s, w>>}) :
              s \in BudgetSLOs, w \in {"1h", "6h"}}

PageAlerts   == {<<"5m", "1h">>, <<"30m", "6h">>}
TicketAlerts == {<<"2h", "1d">>, <<"6h", "3d">>}

\* generateMultiWindowRules: from the burn rates over a short and a long window.
MultiWindowRules ==
    {Rule(<<"multi_window_burn_rate", s, a>>, {<<"burn_rate", s, a[1]>>, <<"burn_rate", s, a[2]>>}) :
        s \in BudgetSLOs, a \in PageAlerts \cup TicketAlerts}

\* GenerateRecordingRules.
Groups == {SLIRules, SLOBurnRateRules, ErrorBudgetRules, MultiWindowRules}

-----------------------------------------------------------------------------
Init == present = {}

HasInputs(rule) == rule.from \subseteq present

\* Prometheus evaluates a group.
Evaluate(group) == present' = present \cup {rule.record : rule \in {x \in group : HasInputs(x)}}

Next == \E group \in Groups : Evaluate(group)

\* Each group has its interval.
Spec == Init /\ [][Next]_present /\ \A group \in Groups : WF_present(Evaluate(group))

-----------------------------------------------------------------------------
\* "multi-window burn rate rules for alerting": every alert the generator knows,
\* page or ticket, comes to have burn rates to go by.
AlertsHaveBurnRates == \A rule \in MultiWindowRules : <>HasInputs(rule)
=============================================================================
