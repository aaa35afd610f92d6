---------------------------- MODULE MCAgentChat ----------------------------
(* Messages that mention one thing, nothing, or two at once, and browsers  *)
(* that report no registry, all of it, or a part.                          *)
EXTENDS AgentChat

MCMessages ==
  {{}, {"commit", "scenario"}, {"review"}, {"review", "scenario"}, {"scenario", "analysis"}, {"analysis"}}

MCRegistries ==
  {{}, Tools, {"analyze_business", "revise_proposal", "commit_approved_proposal"}}

=============================================================================
