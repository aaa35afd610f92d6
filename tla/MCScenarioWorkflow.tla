------------------------- MODULE MCScenarioWorkflow -------------------------
(* Instances of ScenarioWorkflow for TLC.  Scenario ids are numbers that   *)
(* the rules compare, so only handlers are taken up to permutation.        *)
EXTENDS ScenarioWorkflow, TLC

CONSTANTS g1, operator, guest, r1, h1, h2

(* One plan that spends nothing, one that spends more than a small budget  *)
(* and earns more.                                                         *)
TwoPlans == {[spend |-> 0, margin |-> 0], [spend |-> 2, margin |-> 2]}
OnePlan == {[spend |-> 2, margin |-> 2]}

(* A value that is no budget, and a budget of 1.                           *)
TwoValues == {-1, 1}

Interchangeable == Permutations(Handlers)

=============================================================================
