------------------------ MODULE MCScenarioComparison ------------------------
(* Up to three candidates with equal and different margins, safe and not,  *)
(* and one that was never calculated.                                      *)
EXTENDS ScenarioComparison

CandidatesMC ==
  [id : 1..3, status : {"simulated"}, calculated : {TRUE}, margin : -1..1,
   risks : {{}, {"budget_exceeded"}}]
  \cup [id : {2}, status : {"draft"}, calculated : {FALSE}, margin : {0}, risks : {{}}]

=============================================================================
