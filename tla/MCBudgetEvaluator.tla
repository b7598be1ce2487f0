------------------------- MODULE MCBudgetEvaluator -------------------------
(***************************************************************************)
(* BudgetEvaluator on small instances: thresholds of 50 and 100 percent of  *)
(* limits that one or two units of spend reach. A budget's limit, its list  *)
(* and both may change, and the list may be lost; beside it is a budget of  *)
(* which only that matters.                                                 *)
(***************************************************************************)
EXTENDS BudgetEvaluator, TLC

CONSTANTS b1, b2

Row(limit, thresholds) == [limit |-> limit, thresholds |-> thresholds]

Usual == {Row(2, {50, 100}), Row(4, {50}), Inactive}

Unreadable == Row(2, Null)

TermsOfOne == b1 :> Usual @@ b2 :> {}

TermsOfBoth == b1 :> Usual \cup {Unreadable} @@ b2 :> {Unreadable}

SpendOf == b1 :> 2 @@ b2 :> 0
=============================================================================
