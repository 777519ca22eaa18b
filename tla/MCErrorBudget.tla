--------------------------- MODULE MCErrorBudget ---------------------------
EXTENDS ErrorBudget, TLC

\* Callers are alike, and no property is about one of them.
MCSymmetry == Permutations(Callers)

\* The two policies of DefaultConfig, at half the budget and at all of it.
MCPolicies == {[threshold |-> 1, action |-> "notify"],
               [threshold |-> 2, action |-> "freeze_deployments"]}
=============================================================================
