------------------------- MODULE MCDecisionWorkflow -------------------------
(* Instances of DecisionWorkflow for TLC.  Handlers, request ids, keys and *)
(* proposals are interchangeable, so TLC may take them up to permutation.  *)
EXTENDS DecisionWorkflow, TLC

CONSTANTS b1, b2, p1, p2, p3, operator, guest, viewer, k1, k2, r1, r2, r3, h1, h2

Interchangeable ==
  Permutations(Businesses) \cup Permutations(Proposals) \cup Permutations(Keys) \cup
  Permutations(Requests) \cup Permutations(Handlers)

=============================================================================
