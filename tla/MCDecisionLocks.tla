-------------------------- MODULE MCDecisionLocks --------------------------
(* Everything that can be done to one proposal at once: a submission, a    *)
(* revision, a decision, and a commit sent twice; and the commit of a      *)
(* second proposal.                                                        *)
EXTENDS DecisionLocks, TLC

CONSTANTS p1, p2, k1, k2, submit, revise, decide, commit, retry, other

For(kind, p, k) == [kind |-> kind, proposal |-> p, number |-> 1, key |-> k]

MCWork ==
  submit :> For("SubmitReview", p1, k1) @@ revise :> For("SaveRevision", p1, k1) @@
  decide :> For("RecordDecision", p1, k1) @@ commit :> For("Commit", p1, k1) @@
  retry :> For("Commit", p1, k1) @@ other :> For("Commit", p2, k2)

=============================================================================
