------------------------- MODULE ScenarioComparison -------------------------
(***************************************************************************)
(* The loop of Compare (domain/scenario/simulation.go), one candidate at a *)
(* time.  It is given the candidates in an order of its caller's, and the  *)
(* recommendation must not depend on that order.                           *)
(***************************************************************************)
EXTENDS ScenarioRules, Sequences

CONSTANTS
  Candidates,      \* scenarios: [id, status, calculated, margin, risks]
  MaxCandidates,   \* CompareScenarios accepts at most 8
  None

ASSUME CandidatesAssumption ==
  /\ \A c \in Candidates :
       /\ c.id \in Nat /\ c.margin \in Int /\ c.risks \subseteq RiskKeys
       /\ c.status \in {"draft", "simulated", "compared", "archived"}
       /\ c.calculated \in BOOLEAN
  /\ None \notin Candidates

ASSUME MaxCandidatesAssumption == MaxCandidates \in Nat

VARIABLES
  candidates,   \* the argument
  position,     \* the candidate the loop looks at
  best,         \* the best so far, or None
  outcome       \* "running", "recommended", "withheld" or "error"

vars == <<candidates, position, best, outcome>>

(* CompareScenarios has refused repeated ids.                              *)
Inputs ==
  {s \in UNION {[1..n -> Candidates] : n \in 0..MaxCandidates} :
     \A i, j \in DOMAIN s : s[i].id = s[j].id => i = j}

TypeOK ==
  /\ candidates \in Inputs
  /\ position \in 1..(Len(candidates) + 1)
  /\ best \in Candidates \cup {None}
  /\ outcome \in {"running", "recommended", "withheld", "error"}

Init ==
  /\ candidates \in Inputs
  /\ position = 1
  /\ best = None
  /\ outcome = IF Len(candidates) < 2 THEN "error" ELSE "running"

Current == candidates[position]

Comparable(c) == c.status \in {"simulated", "compared"} /\ c.calculated

Running == outcome = "running" /\ position <= Len(candidates)

(* A candidate that is not calculated fails the whole comparison.          *)
Refuse ==
  /\ Running /\ ~ Comparable(Current)
  /\ outcome' = "error"
  /\ UNCHANGED <<candidates, position, best>>

Skip ==
  /\ Running /\ Comparable(Current) /\ HasHighRisk(Current.risks)
  /\ position' = position + 1
  /\ UNCHANGED <<candidates, best, outcome>>

(* Mutant: the first of two equal margins stays.                           *)
ConsiderMutant ==
  /\ Running /\ Comparable(Current) /\ ~ HasHighRisk(Current.risks)
  /\ best' = IF best = None \/ Current.margin > best.margin THEN Current ELSE best
  /\ position' = position + 1
  /\ UNCHANGED <<candidates, outcome>>

Consider ==
  /\ Running /\ Comparable(Current) /\ ~ HasHighRisk(Current.risks)
  /\ best' = IF best = None \/ BetterMargin(Current, best) THEN Current ELSE best
  /\ position' = position + 1
  /\ UNCHANGED <<candidates, outcome>>

Finish ==
  /\ outcome = "running" /\ position > Len(candidates)
  /\ outcome' = IF best = None THEN "withheld" ELSE "recommended"
  /\ UNCHANGED <<candidates, position, best>>

Next == Refuse \/ Skip \/ Consider \/ Finish

Spec == Init /\ [][Next]_vars

-----------------------------------------------------------------------------

Given == {candidates[i] : i \in DOMAIN candidates}

(* The recommendation is the best safe candidate of the set, whatever the  *)
(* order, and it is withheld only when every candidate carries a high      *)
(* risk; in either case every candidate had a calculated result.           *)
RecommendsTheBest ==
  /\ outcome \in {"recommended", "withheld"} => \A c \in Given : Comparable(c)
  /\ outcome = "recommended" => IsBest(best, Given)
  /\ outcome = "withheld" => \A c \in Given : HasHighRisk(c.risks)

=============================================================================
