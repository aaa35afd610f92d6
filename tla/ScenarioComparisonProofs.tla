---------------------- MODULE ScenarioComparisonProofs ----------------------
(***************************************************************************)
(* Compare recommends the best safe candidate for every set of candidates, *)
(* in every order, of every length.                                        *)
(***************************************************************************)
EXTENDS ScenarioComparison, TLAPS

(* Better margins are a strict order, total on different ids.              *)
LEMMA BetterMarginTransitive ==
  ASSUME NEW c \in Candidates, NEW d \in Candidates, NEW e \in Candidates,
         BetterMargin(c, d), BetterMargin(d, e)
  PROVE  BetterMargin(c, e)
<1>1. \A x \in {c, d, e} : x.id \in Nat /\ x.margin \in Int
  BY CandidatesAssumption
<1> QED
  BY <1>1 DEF BetterMargin

LEMMA BetterMarginTotal ==
  ASSUME NEW c \in Candidates, NEW d \in Candidates, c.id # d.id
  PROVE  BetterMargin(c, d) \/ BetterMargin(d, c)
<1>1. \A x \in {c, d} : x.id \in Nat /\ x.margin \in Int
  BY CandidatesAssumption
<1> QED
  BY <1>1 DEF BetterMargin

(* What Inputs says of the argument.                                       *)
LEMMA InputFacts ==
  ASSUME candidates \in Inputs
  PROVE  /\ Len(candidates) \in Nat
         /\ DOMAIN candidates = 1..Len(candidates)
         /\ \A i \in 1..Len(candidates) : candidates[i] \in Candidates
         /\ \A i, j \in 1..Len(candidates) : candidates[i].id = candidates[j].id => i = j
<1>1. PICK n \in 0..MaxCandidates : candidates \in [1..n -> Candidates]
  BY DEF Inputs
<1>2. n \in Nat /\ Len(candidates) = n /\ DOMAIN candidates = 1..n
  BY <1>1, MaxCandidatesAssumption
<1> QED
  BY <1>1, <1>2 DEF Inputs

LEMMA TypeInductive == TypeOK /\ [Next]_vars => TypeOK'
<1> SUFFICES ASSUME TypeOK, [Next]_vars PROVE TypeOK'
  OBVIOUS
<1>1. Len(candidates) \in Nat /\ \A i \in 1..Len(candidates) : candidates[i] \in Candidates
  BY InputFacts DEF TypeOK
<1>2. CASE Refuse
  BY <1>2 DEF Refuse, TypeOK
<1>3. CASE Skip
  BY <1>1, <1>3 DEF Skip, Running, TypeOK
<1>4. CASE Consider
  <2>1. Current \in Candidates /\ position' \in 1..(Len(candidates') + 1)
    BY <1>1, <1>4 DEF Consider, Running, Current, TypeOK
  <2>2. best' \in Candidates \cup {None}
    BY <1>4, <2>1 DEF Consider, TypeOK
  <2> QED
    BY <1>4, <2>1, <2>2 DEF Consider, TypeOK
<1>5. CASE Finish
  BY <1>5 DEF Finish, TypeOK
<1>6. CASE UNCHANGED vars
  BY <1>6 DEF vars, TypeOK
<1> QED
  BY <1>2, <1>3, <1>4, <1>5, <1>6 DEF Next

-----------------------------------------------------------------------------
(* The loop invariant: best is the recommendation among the candidates the *)
(* loop has passed, none of which was refused.                             *)
Passed == 1..(position - 1)

BestSoFar ==
  IF best = None
  THEN \A i \in Passed : HasHighRisk(candidates[i].risks)
  ELSE /\ \E i \in Passed : best = candidates[i]
       /\ ~ HasHighRisk(best.risks)
       /\ \A i \in Passed : \/ candidates[i] = best
                            \/ HasHighRisk(candidates[i].risks)
                            \/ BetterMargin(best, candidates[i])

IInv ==
  /\ TypeOK
  /\ \A i \in Passed : Comparable(candidates[i])
  /\ BestSoFar
  /\ outcome = "recommended" => best # None
  /\ outcome = "withheld" => best = None
  /\ outcome \in {"recommended", "withheld"} => position = Len(candidates) + 1

LEMMA IInvInit == Init => IInv
<1> SUFFICES ASSUME Init PROVE IInv
  OBVIOUS
<1>1. Len(candidates) \in Nat
  BY InputFacts DEF Init
<1>2. Passed = {}
  BY DEF Init, Passed
<1> QED
  BY <1>1, <1>2 DEF Init, IInv, TypeOK, BestSoFar

(* A candidate that is considered leaves the better of it and best.        *)
LEMMA ConsiderKeepsBest ==
  ASSUME IInv, Consider
  PROVE  BestSoFar'
<1>1. /\ position \in 1..Len(candidates) /\ Len(candidates) \in Nat
      /\ \A i \in 1..Len(candidates) : candidates[i] \in Candidates
      /\ \A i, j \in 1..Len(candidates) : candidates[i].id = candidates[j].id => i = j
      /\ position' = position + 1 /\ candidates' = candidates
  BY InputFacts DEF IInv, TypeOK, Consider, Running
<1>2. Passed' = Passed \cup {position} /\ Passed \subseteq 1..Len(candidates)
      /\ position \notin Passed
  BY <1>1 DEF Passed
<1>3. Current = candidates[position] /\ Current \in Candidates /\ Current # None
      /\ ~ HasHighRisk(Current.risks)
      /\ best' = IF best = None \/ BetterMargin(Current, best) THEN Current ELSE best
  BY <1>1, CandidatesAssumption DEF Current, Consider
<1>4. CASE best = None
  <2>1. best' = Current /\ \A i \in Passed : HasHighRisk(candidates[i].risks)
    BY <1>3, <1>4 DEF IInv, BestSoFar
  <2> QED
    BY <1>1, <1>2, <1>3, <2>1 DEF BestSoFar
<1>5. CASE best # None
  <2>1. PICK b \in Passed : best = candidates[b]
    BY <1>5 DEF IInv, BestSoFar
  <2>2. best \in Candidates /\ best.id # Current.id /\ best # None
    BY <1>1, <1>2, <1>3, <1>5, <2>1
  <2>3. /\ ~ HasHighRisk(best.risks)
        /\ \A i \in Passed : \/ candidates[i] = best
                             \/ HasHighRisk(candidates[i].risks)
                             \/ BetterMargin(best, candidates[i])
    BY <1>5 DEF IInv, BestSoFar
  <2>4. CASE BetterMargin(Current, best)
    <3>1. best' = Current
      BY <1>3, <2>4
    <3>2. \A i \in Passed : HasHighRisk(candidates[i].risks)
                            \/ BetterMargin(Current, candidates[i])
      BY <1>1, <1>2, <1>3, <2>2, <2>3, <2>4, BetterMarginTransitive
    <3> QED
      BY <1>1, <1>2, <1>3, <3>1, <3>2 DEF BestSoFar
  <2>5. CASE ~ BetterMargin(Current, best)
    <3>1. best' = best /\ BetterMargin(best, Current)
      BY <1>3, <2>2, <2>5, BetterMarginTotal
    <3> QED
      BY <1>1, <1>2, <1>3, <2>1, <2>2, <2>3, <3>1 DEF BestSoFar
  <2> QED
    BY <2>4, <2>5
<1> QED
  BY <1>4, <1>5

LEMMA IInvNext == IInv /\ [Next]_vars => IInv'
<1> SUFFICES ASSUME IInv, [Next]_vars PROVE IInv'
  OBVIOUS
<1>0. TypeOK' /\ position \in Nat \ {0} /\ Len(candidates) \in Nat
  BY TypeInductive, InputFacts DEF IInv, TypeOK
<1>1. CASE Refuse
  BY <1>0, <1>1 DEF Refuse, IInv, Passed, BestSoFar
<1>2. ASSUME Skip \/ Consider
      PROVE  /\ position <= Len(candidates) /\ outcome' = "running"
             /\ candidates' = candidates
             /\ \A i \in Passed' : Comparable(candidates'[i])
             /\ Passed' = Passed \cup {position}
  <2>1. position <= Len(candidates) /\ Comparable(candidates[position])
        /\ candidates' = candidates /\ position' = position + 1 /\ outcome' = "running"
    BY <1>2 DEF Skip, Consider, Running, Current
  <2>2. Passed' = Passed \cup {position}
    BY <1>0, <2>1 DEF Passed
  <2> QED
    BY <2>1, <2>2 DEF IInv
<1>3. CASE Skip
  <2>1. HasHighRisk(candidates[position].risks) /\ best' = best
    BY <1>3 DEF Skip, Current
  <2>2. BestSoFar'
    BY <1>2, <1>3, <2>1 DEF IInv, BestSoFar
  <2> QED
    BY <1>0, <1>2, <1>3, <2>2 DEF IInv
<1>4. CASE Consider
  BY <1>0, <1>2, <1>4, ConsiderKeepsBest DEF IInv
<1>5. CASE Finish
  <2>1. position = Len(candidates) + 1
    BY <1>0, <1>5 DEF Finish, IInv, TypeOK
  <2> QED
    BY <1>0, <1>5, <2>1 DEF Finish, IInv, Passed, BestSoFar
<1>6. CASE UNCHANGED vars
  BY <1>0, <1>6 DEF vars, IInv, Passed, BestSoFar
<1> QED
  BY <1>1, <1>3, <1>4, <1>5, <1>6 DEF Next

LEMMA IInvImplies == IInv => RecommendsTheBest
<1> SUFFICES ASSUME IInv PROVE RecommendsTheBest
  OBVIOUS
<1>1. DOMAIN candidates = 1..Len(candidates) /\ Len(candidates) \in Nat
  BY InputFacts DEF IInv, TypeOK
<1>2. CASE outcome \in {"recommended", "withheld"}
  <2>1. Passed = DOMAIN candidates
    BY <1>1, <1>2 DEF IInv, Passed
  <2>2. \A c \in Given : Comparable(c)
    BY <2>1 DEF IInv, Given
  <2>3. ASSUME outcome = "recommended" PROVE IsBest(best, Given)
    BY <2>1, <2>3 DEF IInv, BestSoFar, Given, IsBest
  <2>4. ASSUME outcome = "withheld" PROVE \A c \in Given : HasHighRisk(c.risks)
    BY <2>1, <2>4 DEF IInv, BestSoFar, Given
  <2> QED
    BY <2>2, <2>3, <2>4 DEF RecommendsTheBest
<1>3. CASE outcome \notin {"recommended", "withheld"}
  BY <1>3 DEF RecommendsTheBest
<1> QED
  BY <1>2, <1>3

(* Compare recommends the best safe candidate in whatever order it is      *)
(* given them, and withholds a recommendation only if there is none.       *)
THEOREM ComparisonIsCorrect == Spec => []RecommendsTheBest
  BY IInvInit, IInvNext, IInvImplies, PTL DEF Spec

(* There is one such candidate: the recommendation is a function of the    *)
(* set, which is what ScenarioWorkflow takes it for.                       *)
THEOREM RecommendationIsUnique ==
  ASSUME NEW S \in SUBSET Candidates,
         \A c, d \in S : c.id = d.id => c = d,
         NEW c \in S, NEW d \in S, IsBest(c, S), IsBest(d, S)
  PROVE  c = d
<1> SUFFICES ASSUME c # d PROVE FALSE
  OBVIOUS
<1>1. BetterMargin(c, d) /\ BetterMargin(d, c)
  BY DEF IsBest
<1>2. \A x \in {c, d} : x.id \in Nat /\ x.margin \in Int
  BY CandidatesAssumption
<1> QED
  BY <1>1, <1>2 DEF BetterMargin

=============================================================================
