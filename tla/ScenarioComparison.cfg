\* Every sequence of up to three candidates.  The loop ends, so TLC may stop.
SPECIFICATION Spec
CONSTANTS
  Candidates <- CandidatesMC
  MaxCandidates = 3
  None = None
INVARIANTS
  RecommendsTheBest
CHECK_DEADLOCK FALSE
