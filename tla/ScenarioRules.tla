---------------------------- MODULE ScenarioRules ----------------------------
(***************************************************************************)
(* The rules by which scenarios are judged (domain/scenario/simulation.go):*)
(* which hard budgets a plan breaks, and which of two plans is better.     *)
(* Identifiers are compared as strings in the code and as numbers here;    *)
(* money is a whole number of cents.                                       *)
(***************************************************************************)
EXTENDS Integers

RiskKeys == {"budget_constraint_unknown", "budget_exceeded"}

(* Every risk a simulation can produce has severity "high".                *)
HasHighRisk(risks) == risks # {}

(* applyHardBudgetRisk, for the values of the hard constraints whose key   *)
(* folds to "budget".  A negative number stands for every value that is    *)
(* not a non-negative number: the code treats them alike.                  *)
HardBudgetRisks(budgets, spend) ==
  {risk \in RiskKeys :
     \/ risk = "budget_constraint_unknown" /\ \E v \in budgets : v < 0
     \/ risk = "budget_exceeded" /\ \E v \in budgets : v >= 0 /\ spend > v}

(* The higher margin wins, and the smaller id a tie.                      *)
BetterMargin(c, d) ==
  \/ c.margin > d.margin
  \/ c.margin = d.margin /\ c.id < d.id

(* What Compare promises, whatever the order of the candidates: best is a  *)
(* candidate without high risk that is better than every other such one.   *)
IsBest(best, candidates) ==
  /\ best \in candidates
  /\ ~ HasHighRisk(best.risks)
  /\ \A c \in candidates : c = best \/ HasHighRisk(c.risks) \/ BetterMargin(best, c)

=============================================================================
