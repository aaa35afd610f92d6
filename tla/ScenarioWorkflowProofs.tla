----------------------- MODULE ScenarioWorkflowProofs -----------------------
(***************************************************************************)
(* The scenario workflow keeps its promises for any numbers of scenarios,  *)
(* users, constraints and requests, and any number of commits.             *)
(***************************************************************************)
EXTENDS ScenarioWorkflow, FiniteSetTheorems, WellFoundedInduction, TLAPS

-----------------------------------------------------------------------------
(* Every finite set of candidates with different ids has a best one, or    *)
(* each of them carries a high risk.                                       *)

Less == {p \in Nat \X Nat : p[1] < p[2]}

LEMMA LeastElement ==
  ASSUME NEW T, T \subseteq Nat, T # {}
  PROVE  \E n \in T : \A m \in T : n <= m
<1>1. OpToRel(<, Nat) = Less
  BY DEF OpToRel, Less
<1>2. IsWellFoundedOn(Less, Nat)
  BY <1>1, NatLessThanWellFounded, Zenon
<1>3. \E n \in T : \A m \in T : ~ (<<m, n>> \in Less)
  BY <1>2, WFMin
<1>4. PICK n \in T : \A m \in T : ~ (<<m, n>> \in Less)
  BY <1>3
<1>5. ASSUME NEW m \in T PROVE n <= m
  <2>1. <<m, n>> \in Nat \X Nat
    OBVIOUS
  <2>2. ~ (<<m, n>> \in Less)
    BY <1>4
  <2>3. ~ (m < n)
    BY <2>1, <2>2 DEF Less
  <2> QED
    BY <2>3
<1> QED
  BY <1>5

(* f maps ids to what is known of the scenarios.  The one with the fewest  *)
(* better ones has none.                                                   *)
Identified(S, f) == \A s \in S : f[s].id = s /\ s \in Nat /\ f[s].margin \in Int
HasSafe(S, f) == \E s \in S : ~ HasHighRisk(f[s].risks)
HasBest(S, f) == \E s \in S : IsBest(f[s], {f[t] : t \in S})

LEMMA BestExists ==
  ASSUME NEW S, NEW f, IsFiniteSet(S), Identified(S, f), HasSafe(S, f)
  PROVE  HasBest(S, f)
<1> USE DEF Identified, HasSafe
<1> DEFINE Safe == {s \in S : ~ HasHighRisk(f[s].risks)}
           Better(s) == {t \in Safe : BetterMargin(f[t], f[s])}
           Counts == {Cardinality(Better(s)) : s \in Safe}
<1>1. ASSUME NEW s \in S
      PROVE  IsFiniteSet(Better(s)) /\ Cardinality(Better(s)) \in Nat
  <2>1. Better(s) \in SUBSET S
    OBVIOUS
  <2>2. IsFiniteSet(Better(s))
    BY <2>1, FS_Subset
  <2> QED
    BY <2>2, FS_CardinalityType
<1>2. Counts \subseteq Nat /\ Counts # {}
  BY <1>1
<1>3. PICK least \in Counts : \A n \in Counts : least <= n
  BY <1>2, LeastElement
<1>4. PICK s \in Safe : least = Cardinality(Better(s))
  OBVIOUS
<1>5. ASSUME NEW t \in Better(s)
      PROVE  FALSE
  <2>1. t \in Safe /\ t \in S /\ s \in S /\ t # s
    BY DEF BetterMargin
  <2>2. ASSUME NEW u \in Better(t) PROVE u \in Better(s) \ {t}
    <3>1. \A x \in {s, t, u} : f[x].id = x /\ x \in Nat /\ f[x].margin \in Int
      BY <2>1
    <3>2. BetterMargin(f[u], f[t]) /\ BetterMargin(f[t], f[s])
      OBVIOUS
    <3>3. BetterMargin(f[u], f[s]) /\ u # t
      BY <3>1, <3>2 DEF BetterMargin
    <3> QED
      BY <3>3
  <2>3. IsFiniteSet(Better(s) \ {t}) /\ Cardinality(Better(s) \ {t}) = least - 1
    BY <1>1, <1>4, <2>1, FS_RemoveElement
  <2>4. Better(t) \in SUBSET (Better(s) \ {t})
    BY <2>2
  <2>5. Cardinality(Better(t)) <= least - 1
    BY <2>3, <2>4, FS_Subset
  <2>6. least <= Cardinality(Better(t))
    BY <1>3, <2>1
  <2>7. least \in Nat /\ Cardinality(Better(t)) \in Nat
    BY <1>1, <1>2, <2>1
  <2> HIDE DEF Better, Counts
  <2> QED
    BY <2>5, <2>6, <2>7
<1>6. ASSUME NEW t \in S
      PROVE  f[t] = f[s] \/ HasHighRisk(f[t].risks) \/ BetterMargin(f[s], f[t])
  <2>1. ~ HasHighRisk(f[t].risks) => ~ BetterMargin(f[t], f[s])
    BY <1>5
  <2>2. \A x \in {s, t} : f[x].id = x /\ x \in Nat /\ f[x].margin \in Int
    OBVIOUS
  <2>3. s = t \/ BetterMargin(f[t], f[s]) \/ BetterMargin(f[s], f[t])
    BY <2>2 DEF BetterMargin
  <2> QED
    BY <2>1, <2>3
<1>7. IsBest(f[s], {f[t] : t \in S})
  BY <1>6 DEF IsBest
<1> QED
  BY <1>7 DEF HasBest

-----------------------------------------------------------------------------
(* Types.                                                                  *)

Views == CreateView \cup SimulateView

(* What a record is, read off its op.                                      *)
LEMMA ViewKinds ==
  ASSUME NEW v \in Views
  PROVE  /\ v # None
         /\ v.op = "create" => v \in CreateView
         /\ v.op = "simulate" => v \in SimulateView
BY NoneAssumption DEF Views, CreateView, SimulateView

LEMMA ViewAtStep ==
  ASSUME TypeOK, NEW h \in Handlers, NEW step, AtStep(h, step)
  PROVE  handlers[h] \in SimulateView /\ handlers[h].step = step
BY ViewKinds DEF TypeOK, AtStep, Views

(* Every step of a request but its last replaces what it holds.            *)
LEMMA SetView ==
  ASSUME TypeOK, NEW h \in Handlers, NEW new \in Views \cup {None},
         handlers' = [handlers EXCEPT ![h] = new]
  PROVE  handlers' \in [Handlers -> CreateView \cup SimulateView \cup {None}]
BY DEF TypeOK, Views

LEMMA ReadSnapshotView ==
  ASSUME TypeOK, NEW h \in Handlers, NEW u \in Users, NEW g \in Goals, NEW plan \in Plans,
         ReadSnapshot(h, u, g, plan)
  PROVE  \E new \in CreateView :
           /\ new.base = state_version
           /\ handlers' = [handlers EXCEPT ![h] = new]
<1> DEFINE new == [op |-> "create", actor |-> u, goal |-> g, plan |-> plan, base |-> state_version]
<1>1. new \in CreateView /\ new.base = state_version
  BY DEF CreateView, TypeOK
<1>2. handlers' = [handlers EXCEPT ![h] = new]
  BY DEF ReadSnapshot
<1> QED
  BY <1>1, <1>2

LEMMA ReadScenarioView ==
  ASSUME TypeOK, NEW h \in Handlers, NEW u \in Users, NEW s \in Scenarios, ReadScenario(h, u, s)
  PROVE  \E new \in SimulateView :
           /\ new.step = "scenario" /\ new.scenario = s /\ new.candidate = scenarios[s]
           /\ handlers' = [handlers EXCEPT ![h] = new]
<1> DEFINE new == [op |-> "simulate", step |-> "scenario", actor |-> u, scenario |-> s,
                   candidate |-> scenarios[s], constraints |-> None, looks |-> {}]
<1>1. scenarios[s] \in ScenarioRow
  BY DEF TypeOK, ReadScenario
<1>2. new \in SimulateView
  BY <1>1 DEF SimulateView
<1>3. handlers' = [handlers EXCEPT ![h] = new]
  BY DEF ReadScenario
<1> QED
  BY <1>2, <1>3

LEMMA ReadGoalView ==
  ASSUME TypeOK, NEW h \in Handlers, ReadGoal(h)
  PROVE  \E new \in SimulateView :
           /\ new.step = "goal" /\ new.scenario = handlers[h].scenario
           /\ new.candidate = handlers[h].candidate /\ new.looks = {state_version}
           /\ handlers' = [handlers EXCEPT ![h] = new]
<1> DEFINE v == handlers[h]
           new == [v EXCEPT !.step = "goal",
                            !.constraints = goal_constraints[v.candidate.goal],
                            !.looks = {state_version}]
<1>1. v \in SimulateView
  BY ViewAtStep DEF ReadGoal
<1>2. v.candidate.goal \in Goals
  BY <1>1 DEF SimulateView, ScenarioRow
<1>3. goal_constraints[v.candidate.goal] \in ConstraintRows
  BY <1>2 DEF TypeOK
<1>4. new \in SimulateView /\ new.step = "goal" /\ new.scenario = v.scenario
      /\ new.candidate = v.candidate /\ new.looks = {state_version}
  BY <1>1, <1>3 DEF SimulateView, TypeOK
<1>5. handlers' = [handlers EXCEPT ![h] = new]
  BY DEF ReadGoal
<1> QED
  BY <1>4, <1>5

(* What Simulate makes of the row that was read.                           *)
Calculated(old, new) ==
  /\ old.status = "draft" /\ old.base = state_version
  /\ new.status = "simulated" /\ new.version = old.version + 1
  /\ new.result.baseline = state_version
  /\ new.goal = old.goal /\ new.base = old.base /\ new.plan = old.plan

LEMMA CalculatedView ==
  ASSUME TypeOK, NEW h \in Handlers, Simulate(h)
  PROVE  \E new \in SimulateView :
           /\ new.step = "calculated" /\ new.scenario = handlers[h].scenario
           /\ Calculated(handlers[h].candidate, new.candidate) /\ new.looks = handlers[h].looks
           /\ handlers' = [handlers EXCEPT ![h] = new]
<1> DEFINE v == handlers[h]
           result == [baseline |-> state_version,
                      risks |-> HardBudgetRisks(HardBudgets(v.constraints), v.candidate.plan.spend)]
           row == [v.candidate EXCEPT !.status = "simulated",
                                      !.version = v.candidate.version + 1,
                                      !.result = result]
           new == [v EXCEPT !.step = "calculated", !.candidate = row]
<1>1. v \in SimulateView /\ v.candidate \in ScenarioRow
  BY ViewAtStep DEF Simulate, SimulateView
<1>2. result \in Result
  BY DEF Result, HardBudgetRisks, TypeOK
<1>3. row \in ScenarioRow
  <2> HIDE DEF result, v
  <2>1. v.candidate.version + 1 \in Nat
    BY <1>1 DEF ScenarioRow
  <2> QED
    BY <1>1, <1>2, <2>1 DEF ScenarioRow
<1>4. Calculated(v.candidate, row)
  <2>1. v.candidate.status = "draft" /\ v.candidate.base = state_version
    BY DEF Simulate, ContextMatches, OnCurrentVersion
  <2>2. /\ row.status = "simulated" /\ row.version = v.candidate.version + 1
        /\ row.result.baseline = state_version
        /\ row.goal = v.candidate.goal /\ row.base = v.candidate.base
        /\ row.plan = v.candidate.plan
    BY <1>1 DEF ScenarioRow
  <2> QED
    BY <2>1, <2>2 DEF Calculated
<1> HIDE DEF row
<1>5. new \in SimulateView /\ new.step = "calculated" /\ new.scenario = v.scenario
      /\ new.candidate = row /\ new.looks = v.looks
  BY <1>1, <1>3 DEF SimulateView
<1>6. handlers' = [handlers EXCEPT ![h] = new]
  BY DEF Simulate, row
<1> HIDE DEF new
<1> QED
  BY <1>4, <1>5, <1>6

LEMMA CheckVersionView ==
  ASSUME TypeOK, NEW h \in Handlers, CheckVersion(h)
  PROVE  \E new \in SimulateView :
           /\ new.step = "checked" /\ new.scenario = handlers[h].scenario
           /\ new.candidate = handlers[h].candidate /\ new.candidate.base = state_version
           /\ new.looks = handlers[h].looks \cup {state_version}
           /\ handlers' = [handlers EXCEPT ![h] = new]
<1> DEFINE v == handlers[h]
           new == [v EXCEPT !.step = "checked", !.looks = v.looks \cup {state_version}]
<1>1. v \in SimulateView /\ v.candidate.base = state_version
  BY ViewAtStep DEF CheckVersion, IsNotStale, OnCurrentVersion
<1>2. v.looks \cup {state_version} \in SUBSET Nat
  BY <1>1 DEF SimulateView, TypeOK
<1>3. new \in SimulateView /\ new.step = "checked" /\ new.scenario = v.scenario
      /\ new.candidate = v.candidate /\ new.looks = v.looks \cup {state_version}
  BY <1>1, <1>2 DEF SimulateView
<1>4. handlers' = [handlers EXCEPT ![h] = new]
  BY DEF CheckVersion
<1> QED
  BY <1>1, <1>3, <1>4

-----------------------------------------------------------------------------
(* What the two writing transactions do to the rows.                       *)

IsNewDraft(row) ==
  /\ row.status = "draft" /\ row.version = 1 /\ row.result = NoResult
  /\ row.base = state_version

LEMMA CreateEffect ==
  ASSUME TypeOK, NEW h \in Handlers, CreateScenario(h)
  PROVE  \E s \in Scenarios, new \in ScenarioRow :
           /\ scenarios[s] = None /\ IsNewDraft(new)
           /\ scenarios' = [scenarios EXCEPT ![s] = new]
<1> DEFINE v == handlers[h]
<1>1. v \in CreateView
  BY ViewKinds DEF TypeOK, CreateScenario, Views
<1>2. PICK s \in Scenarios :
        /\ scenarios[s] = None
        /\ scenarios' = [scenarios EXCEPT ![s] =
             [goal |-> v.goal, base |-> v.base, plan |-> v.plan, status |-> "draft",
              version |-> 1, result |-> NoResult, looks |-> {}]]
  BY DEF CreateScenario
<1> DEFINE new == [goal |-> v.goal, base |-> v.base, plan |-> v.plan, status |-> "draft",
                   version |-> 1, result |-> NoResult, looks |-> {}]
<1>3. NoResult \in Result
  BY DEF NoResult, Result
<1>4. new \in ScenarioRow
  BY <1>1, <1>3 DEF CreateView, ScenarioRow
<1>5. v.base = state_version
  BY DEF CreateScenario, OnCurrentVersion
<1>6. IsNewDraft(new)
  BY <1>5 DEF IsNewDraft
<1> QED
  BY <1>2, <1>4, <1>6

(* The row that replaces old when candidate is written.                    *)
Completes(new, old, candidate, looks) ==
  /\ old.status = "draft" /\ old.version = candidate.version - 1
  /\ new.status = candidate.status /\ new.version = candidate.version
  /\ new.result = candidate.result /\ new.looks = looks
  /\ new.goal = old.goal /\ new.base = old.base /\ new.plan = old.plan

LEMMA PersistEffect ==
  ASSUME TypeOK, NEW h \in Handlers, PersistSimulation(h)
  PROVE  \E s \in Scenarios, new \in ScenarioRow, v \in SimulateView :
           /\ v = handlers[h] /\ v.step = "checked" /\ v.scenario = s /\ v.candidate.base = scenarios[s].base
           /\ scenarios[s] # None
           /\ Completes(new, scenarios[s], v.candidate, v.looks)
           /\ scenarios' = [scenarios EXCEPT ![s] = new]
<1> DEFINE v == handlers[h]
           s == v.scenario
           old == scenarios[s]
           new == [old EXCEPT !.result = v.candidate.result, !.status = v.candidate.status,
                              !.version = v.candidate.version, !.looks = v.looks]
<1>1. v \in SimulateView /\ v.step = "checked"
  BY ViewAtStep DEF PersistSimulation
<1>2. s \in Scenarios /\ v.candidate \in ScenarioRow /\ v.looks \in SUBSET Nat
  BY <1>1 DEF SimulateView
<1>3. old # None /\ old.status = "draft" /\ old.version = v.candidate.version - 1
      /\ old.base = v.candidate.base
  BY DEF PersistSimulation, IsUnchangedDraft
<1>4. old \in ScenarioRow
  BY <1>2, <1>3 DEF TypeOK
<1>5. new \in ScenarioRow
  BY <1>2, <1>4 DEF ScenarioRow
<1>6. Completes(new, old, v.candidate, v.looks)
  <2>1. /\ new.status = v.candidate.status /\ new.version = v.candidate.version
        /\ new.result = v.candidate.result /\ new.looks = v.looks
        /\ new.goal = old.goal /\ new.base = old.base /\ new.plan = old.plan
    BY <1>2, <1>4 DEF ScenarioRow
  <2> QED
    BY <1>3, <2>1 DEF Completes
<1>7. scenarios' = [scenarios EXCEPT ![s] = new]
  BY DEF PersistSimulation
<1> HIDE DEF new, v
<1> QED
  BY <1>1, <1>2, <1>3, <1>5, <1>6, <1>7 DEF v

LEMMA AddConstraintType ==
  ASSUME TypeOK, NEW u \in Users, NEW g \in Goals, NEW k \in ConstraintKeys,
         NEW c \in Constraint, NEW r \in Requests, AddConstraint(u, g, k, c, r)
  PROVE  TypeOK'
<1> DEFINE event == [goal |-> g, key |-> k, request |-> r]
<1>1. audit_events' \subseteq [goal : Goals, key : ConstraintKeys, request : Requests]
  BY DEF AddConstraint, TypeOK
<1>2. goal_constraints[g] \in ConstraintRows
  BY DEF TypeOK
<1>3. [goal_constraints[g] EXCEPT ![k] = c] \in ConstraintRows
  BY <1>2 DEF ConstraintRows
<1>4. goal_constraints' = [goal_constraints EXCEPT ![g] = [goal_constraints[g] EXCEPT ![k] = c]]
  BY DEF AddConstraint
<1>5. goal_constraints' \in [Goals -> ConstraintRows]
  BY <1>3, <1>4 DEF TypeOK
<1> QED
  BY <1>1, <1>5 DEF AddConstraint, TypeOK

LEMMA RecommendedType ==
  ASSUME NEW S \in SUBSET Scenarios
  PROVE  Recommended(S) \in Scenarios \cup {None}
BY DEF Recommended

LEMMA TypeInductive == TypeOK /\ [Next]_vars => TypeOK'
<1> SUFFICES ASSUME TypeOK, [Next]_vars PROVE TypeOK'
  OBVIOUS
<1>1. CASE CommitDecision
  BY <1>1 DEF CommitDecision, TypeOK
<1>2. ASSUME NEW u \in Users, NEW g \in Goals, NEW k \in ConstraintKeys, NEW c \in Constraint,
             NEW r \in Requests, AddConstraint(u, g, k, c, r)
      PROVE  TypeOK'
  BY <1>2, AddConstraintType
<1>3. ASSUME NEW h \in Handlers, NEW u \in Users, NEW g \in Goals, NEW plan \in Plans,
             ReadSnapshot(h, u, g, plan)
      PROVE  TypeOK'
  <2>1. PICK new \in CreateView : handlers' = [handlers EXCEPT ![h] = new]
    BY <1>3, ReadSnapshotView
  <2>2. handlers' \in [Handlers -> CreateView \cup SimulateView \cup {None}]
    BY <2>1 DEF TypeOK
  <2> QED
    BY <1>3, <2>2 DEF ReadSnapshot, TypeOK
<1>4. ASSUME NEW h \in Handlers, CreateScenario(h)
      PROVE  TypeOK'
  <2>1. PICK s \in Scenarios, new \in ScenarioRow :
          /\ scenarios[s] = None /\ IsNewDraft(new)
          /\ scenarios' = [scenarios EXCEPT ![s] = new]
    BY <1>4, CreateEffect
  <2>2. scenarios' \in [Scenarios -> ScenarioRow \cup {None}]
    BY <2>1 DEF TypeOK
  <2>3. handlers' = [handlers EXCEPT ![h] = None]
        /\ UNCHANGED <<state_version, goal_constraints, audit_events, comparison>>
    BY <1>4 DEF CreateScenario
  <2> QED
    BY <2>2, <2>3 DEF TypeOK
<1>5. ASSUME NEW h \in Handlers, NEW u \in Users, NEW s \in Scenarios, ReadScenario(h, u, s)
      PROVE  TypeOK'
  <2>1. PICK new \in SimulateView : handlers' = [handlers EXCEPT ![h] = new]
    BY <1>5, ReadScenarioView
  <2>2. handlers' \in [Handlers -> CreateView \cup SimulateView \cup {None}]
    BY <2>1 DEF TypeOK
  <2> QED
    BY <1>5, <2>2 DEF ReadScenario, TypeOK
<1>6. ASSUME NEW h \in Handlers, ReadGoal(h) \/ Simulate(h) \/ CheckVersion(h)
      PROVE  TypeOK'
  <2>1. PICK new \in SimulateView : handlers' = [handlers EXCEPT ![h] = new]
    BY <1>6, ReadGoalView, CalculatedView, CheckVersionView
  <2>2. handlers' \in [Handlers -> CreateView \cup SimulateView \cup {None}]
    BY <2>1 DEF TypeOK
  <2>3. UNCHANGED <<state_version, goal_constraints, audit_events, scenarios, comparison>>
    BY <1>6 DEF ReadGoal, Simulate, CheckVersion
  <2> QED
    BY <2>2, <2>3 DEF TypeOK
<1>7. ASSUME NEW h \in Handlers, PersistSimulation(h)
      PROVE  TypeOK'
  <2>1. PICK s \in Scenarios, new \in ScenarioRow : scenarios' = [scenarios EXCEPT ![s] = new]
    BY <1>7, PersistEffect
  <2>2. scenarios' \in [Scenarios -> ScenarioRow \cup {None}]
    BY <2>1 DEF TypeOK
  <2>3. handlers' = [handlers EXCEPT ![h] = None]
        /\ UNCHANGED <<state_version, goal_constraints, audit_events, comparison>>
    BY <1>7 DEF PersistSimulation
  <2> QED
    BY <2>2, <2>3 DEF TypeOK
<1>8. ASSUME NEW h \in Handlers, GiveUp(h)
      PROVE  TypeOK'
  BY <1>8 DEF GiveUp, TypeOK
<1>9. ASSUME NEW S \in SUBSET Scenarios, CompareScenarios(S)
      PROVE  TypeOK'
  BY <1>9, RecommendedType DEF CompareScenarios, Comparison, TypeOK
<1>10. CASE UNCHANGED vars
  BY <1>10 DEF vars, TypeOK
<1> QED
  BY <1>1, <1>2, <1>3, <1>4, <1>5, <1>6, <1>7, <1>8, <1>9, <1>10 DEF Next, Create, RunScenario

-----------------------------------------------------------------------------
(* The inductive invariant.  What a request remembers of a scenario agrees *)
(* with the row, the goal was not read before the version that the         *)
(* scenario rests on, and what has been calculated rests on that version,  *)
(* the read of the goal included, since versions only grow: this is what   *)
(* the last transaction of a simulation relies on.                         *)

Agrees(candidate, row) ==
  candidate.goal = row.goal /\ candidate.base = row.base /\ candidate.plan = row.plan

Unsimulated(candidate) == candidate.status = "draft" => candidate.version = 1

Prepared(candidate) ==
  /\ candidate.status = "simulated" /\ candidate.version = 2
  /\ candidate.result.baseline = candidate.base

(* A goal read at version n.                                               *)
ReadSince(base, looks) == \E n \in base..state_version : looks = {n}

(* What a request knows at its step.                                       *)
Knows(step, candidate, looks) ==
  /\ step \in {"scenario", "goal"} => Unsimulated(candidate)
  /\ step = "goal" => ReadSince(candidate.base, looks)
  /\ step \in {"calculated", "checked"} => Prepared(candidate) /\ looks = {candidate.base}

ViewIsFaithful(v) ==
  v # None /\ v.op = "simulate" =>
    /\ Row(v.scenario) # None
    /\ Agrees(v.candidate, Row(v.scenario))
    /\ Knows(v.step, v.candidate, v.looks)

ViewsAreFaithful == \A h \in Handlers : ViewIsFaithful(handlers[h])

IInv ==
  /\ TypeOK
  /\ ResultsRestOnTheirBase
  /\ ViewsAreFaithful
  /\ RecommendationStands

(* All that a step can do to rows and business version.                    *)
Creates(s, new) ==
  /\ scenarios[s] = None /\ IsNewDraft(new)
  /\ scenarios' = [scenarios EXCEPT ![s] = new]
  /\ state_version' = state_version

Completed(s, new) ==
  /\ scenarios[s] # None /\ scenarios[s].status = "draft"
  /\ Prepared(new) /\ new.looks = {new.base} /\ Agrees(new, scenarios[s])
  /\ scenarios' = [scenarios EXCEPT ![s] = new]
  /\ state_version' = state_version

RowsStay == scenarios' = scenarios /\ state_version' \in {state_version, state_version + 1}

LEMMA StepKinds ==
  ASSUME IInv, [Next]_vars
  PROVE  \/ RowsStay
         \/ \E s \in Scenarios, new \in ScenarioRow : Creates(s, new) \/ Completed(s, new)
<1> USE DEF RowsStay
<1>0. TypeOK
  BY DEF IInv
<1>1. CASE CommitDecision
  BY <1>1 DEF CommitDecision
<1>2. CASE \E u \in Users, g \in Goals, k \in ConstraintKeys, c \in Constraint, r \in Requests :
             AddConstraint(u, g, k, c, r)
  BY <1>2 DEF AddConstraint
<1>3. ASSUME NEW h \in Handlers,
             \/ \E u \in Users, g \in Goals, plan \in Plans : ReadSnapshot(h, u, g, plan)
             \/ \E u \in Users, s \in Scenarios : ReadScenario(h, u, s)
             \/ ReadGoal(h) \/ Simulate(h) \/ CheckVersion(h) \/ GiveUp(h)
      PROVE  RowsStay
  BY <1>3 DEF ReadSnapshot, ReadScenario, ReadGoal, Simulate, CheckVersion, GiveUp
<1>4. ASSUME NEW h \in Handlers, CreateScenario(h)
      PROVE  \E s \in Scenarios, new \in ScenarioRow : Creates(s, new)
  BY <1>0, <1>4, CreateEffect DEF CreateScenario, Creates
<1>5. ASSUME NEW h \in Handlers, PersistSimulation(h)
      PROVE  \E s \in Scenarios, new \in ScenarioRow : Completed(s, new)
  <2>1. PICK s \in Scenarios, new \in ScenarioRow, v \in SimulateView :
          /\ v = handlers[h] /\ v.step = "checked" /\ v.scenario = s /\ v.candidate.base = scenarios[s].base
          /\ scenarios[s] # None
          /\ Completes(new, scenarios[s], v.candidate, v.looks)
          /\ scenarios' = [scenarios EXCEPT ![s] = new]
    BY <1>0, <1>5, PersistEffect
  <2>2. v # None /\ v.op = "simulate"
    BY ViewKinds DEF SimulateView, Views
  <2>3. Prepared(v.candidate) /\ v.looks = {v.candidate.base}
    BY <2>1, <2>2 DEF IInv, ViewsAreFaithful, ViewIsFaithful, Knows
  <2>4. /\ Prepared(new) /\ new.looks = {new.base}
        /\ Agrees(new, scenarios[s]) /\ scenarios[s].status = "draft"
    BY <2>1, <2>3 DEF Completes, Prepared, Agrees
  <2>5. state_version' = state_version
    BY <1>5 DEF PersistSimulation
  <2> QED
    BY <2>1, <2>4, <2>5 DEF Completed
<1>6. CASE \E S \in SUBSET Scenarios : CompareScenarios(S)
  BY <1>6 DEF CompareScenarios
<1>7. CASE UNCHANGED vars
  BY <1>7 DEF vars
<1> QED
  BY <1>1, <1>2, <1>3, <1>4, <1>5, <1>6, <1>7 DEF Next, Create, RunScenario

(* Hence the action property.                                              *)
LEMMA RowSteps ==
  ASSUME IInv, [Next]_vars, NEW s \in Scenarios
  PROVE  ScenarioStep(s)
<1>0. scenarios \in [Scenarios -> ScenarioRow \cup {None}]
  BY DEF IInv, TypeOK
<1>1. CASE RowsStay
  BY <1>1 DEF RowsStay, ScenarioStep, Row
<1>2. ASSUME NEW t \in Scenarios, NEW new \in ScenarioRow, Creates(t, new)
      PROVE  ScenarioStep(s)
  BY <1>0, <1>2 DEF Creates, ScenarioStep, Row
<1>3. ASSUME NEW t \in Scenarios, NEW new \in ScenarioRow, Completed(t, new)
      PROVE  ScenarioStep(s)
  <2>1. CASE s # t
    BY <1>0, <1>3, <2>1 DEF Completed, ScenarioStep, Row
  <2>2. CASE s = t
    <3>1. Row(s)' = new /\ new # None
      BY <1>0, <1>3, <2>2, NoneAssumption DEF Completed, Row
    <3>2. /\ Row(s).status = "draft" /\ new.status = "simulated"
          /\ new.goal = Row(s).goal /\ new.base = Row(s).base /\ new.plan = Row(s).plan
      BY <1>3, <2>2 DEF Completed, Prepared, Agrees, Row
    <3> QED
      BY <3>1, <3>2 DEF ScenarioStep
  <2> QED
    BY <2>1, <2>2
<1> QED
  BY <1>1, <1>2, <1>3, StepKinds

(* What rests on a base still does when the business has moved on.         *)
LEMMA RestsOnItsBaseStays ==
  ASSUME TypeOK, NEW row, RestsOnItsBase(row), state_version' \in {state_version, state_version + 1}
  PROVE  RestsOnItsBase(row)'
BY DEF TypeOK, RestsOnItsBase

LEMMA RowsRest ==
  ASSUME IInv, [Next]_vars
  PROVE  ResultsRestOnTheirBase'
<1> SUFFICES ASSUME NEW s \in Scenarios, Row(s)' # None
             PROVE  RestsOnItsBase(Row(s))'
  BY DEF ResultsRestOnTheirBase
<1>0. /\ scenarios \in [Scenarios -> ScenarioRow \cup {None}]
      /\ state_version \in Nat \ {0} /\ TypeOK
  BY DEF IInv, TypeOK
<1>1. Row(s) # None => RestsOnItsBase(Row(s))
  BY DEF IInv, ResultsRestOnTheirBase
<1>2. ASSUME Row(s)' = Row(s), state_version' \in {state_version, state_version + 1}
      PROVE  RestsOnItsBase(Row(s))'
  <2>1. PICK row : row = Row(s)
    OBVIOUS
  <2>2. Row(s)' = row /\ RestsOnItsBase(row)
    BY <1>1, <1>2, <2>1
  <2>3. RestsOnItsBase(row)'
    BY <1>0, <1>2, <2>2, RestsOnItsBaseStays
  <2> QED
    BY <2>2, <2>3 DEF RestsOnItsBase
<1>3. CASE RowsStay
  <2>1. Row(s)' = Row(s)
    BY <1>3 DEF RowsStay, Row
  <2> QED
    BY <1>2, <1>3, <2>1 DEF RowsStay
<1>4. ASSUME NEW t \in Scenarios, NEW new \in ScenarioRow, Creates(t, new) \/ Completed(t, new)
      PROVE  RestsOnItsBase(Row(s))'
  <2>1. CASE s # t
    <3>1. Row(s)' = Row(s) /\ state_version' = state_version
      BY <1>0, <1>4, <2>1 DEF Creates, Completed, Row
    <3> QED
      BY <1>2, <3>1
  <2>2. CASE s = t
    <3>1. Row(s)' = new /\ state_version' = state_version
      BY <1>0, <1>4, <2>2 DEF Creates, Completed, Row
    <3>2. CASE Creates(t, new)
      <4>1. /\ new.base \in 1..state_version
            /\ new.status = "draft" /\ new.version = 1 /\ new.result = NoResult
        BY <1>0, <3>2 DEF Creates, IsNewDraft
      <4> QED
        BY <3>1, <4>1 DEF RestsOnItsBase, NoResult
    <3>3. CASE Completed(t, new)
      <4>1. Row(s).base \in 1..state_version
        BY <1>1, <2>2, <3>3 DEF Completed, Row, RestsOnItsBase
      <4>2. /\ new.base = Row(s).base
            /\ new.status = "simulated" /\ new.version = 2 /\ new.result.baseline = new.base
            /\ new.looks = {new.base}
        BY <2>2, <3>3 DEF Completed, Prepared, Agrees, Row
      <4> QED
        BY <3>1, <4>1, <4>2 DEF RestsOnItsBase
    <3> QED
      BY <1>4, <3>2, <3>3
  <2> QED
    BY <2>1, <2>2
<1> QED
  BY <1>3, <1>4, StepKinds

(* What a request remembers stays in agreement with the row.               *)
LEMMA ViewStaysFaithful ==
  ASSUME IInv, [Next]_vars, NEW v \in Views, ViewIsFaithful(v)
  PROVE  ViewIsFaithful(v)'
<1> SUFFICES ASSUME v.op = "simulate" PROVE ViewIsFaithful(v)'
  BY DEF ViewIsFaithful
<1>1. v # None /\ v.scenario \in Scenarios
  BY ViewKinds DEF SimulateView
<1>2. /\ Row(v.scenario) # None /\ Agrees(v.candidate, Row(v.scenario))
      /\ Knows(v.step, v.candidate, v.looks)
  BY <1>1 DEF ViewIsFaithful
<1>3. ScenarioStep(v.scenario)
  BY <1>1, RowSteps
<1>4. Row(v.scenario)' # None /\ Agrees(v.candidate, Row(v.scenario)')
  BY <1>2, <1>3 DEF ScenarioStep, Agrees
<1>5. state_version \in Nat /\ state_version' \in {state_version, state_version + 1}
  BY StepKinds DEF IInv, TypeOK, RowsStay, Creates, Completed
<1>6. v.candidate.base \in Nat
  BY ViewKinds DEF SimulateView, ScenarioRow
<1>7. ReadSince(v.candidate.base, v.looks) => ReadSince(v.candidate.base, v.looks)'
  BY <1>5, <1>6 DEF ReadSince
<1>8. Knows(v.step, v.candidate, v.looks)'
  BY <1>2, <1>7 DEF Knows, Unsimulated, Prepared
<1> QED
  BY <1>1, <1>4, <1>8 DEF ViewIsFaithful, Agrees

(* A request whose new view is faithful to the old rows.                   *)
LEMMA SetViewFaithful ==
  ASSUME IInv, [Next]_vars, NEW h \in Handlers, NEW new \in Views \cup {None},
         handlers' = [handlers EXCEPT ![h] = new], ViewIsFaithful(new)
  PROVE  ViewsAreFaithful'
<1> SUFFICES ASSUME NEW k \in Handlers PROVE ViewIsFaithful(handlers[k])'
  BY DEF ViewsAreFaithful
<1>1. PICK w : w = handlers'[k]
  OBVIOUS
<1>2. handlers \in [Handlers -> Views \cup {None}]
  BY DEF IInv, TypeOK, Views
<1>3. w \in Views \cup {None} /\ ViewIsFaithful(w)
  <2>1. handlers[k] \in Views \cup {None} /\ ViewIsFaithful(handlers[k])
    BY <1>2 DEF IInv, ViewsAreFaithful
  <2>2. w = IF k = h THEN new ELSE handlers[k]
    BY <1>1, <1>2
  <2> QED
    BY <2>1, <2>2
<1>4. ViewIsFaithful(w)'
  <2>1. CASE w = None
    BY <2>1 DEF ViewIsFaithful
  <2>2. CASE w # None
    BY <1>3, <2>2, ViewStaysFaithful
  <2> QED
    BY <2>1, <2>2
<1> QED
  BY <1>1, <1>4 DEF ViewIsFaithful

LEMMA ViewsStayFaithful ==
  ASSUME IInv, [Next]_vars
  PROVE  ViewsAreFaithful'
<1>0. TypeOK /\ handlers \in [Handlers -> Views \cup {None}]
  BY DEF IInv, TypeOK, Views
<1>1. ASSUME handlers' = handlers
      PROVE  ViewsAreFaithful'
  <2> SUFFICES ASSUME NEW k \in Handlers PROVE ViewIsFaithful(handlers[k])'
    BY DEF ViewsAreFaithful
  <2>1. PICK w \in Views \cup {None} : w = handlers[k] /\ w = handlers'[k]
    BY <1>0, <1>1
  <2>2. ViewIsFaithful(w)
    BY <2>1 DEF IInv, ViewsAreFaithful
  <2>3. ViewIsFaithful(w)'
    <3>1. CASE w = None
      BY <3>1 DEF ViewIsFaithful
    <3>2. CASE w # None
      BY <2>2, <3>2, ViewStaysFaithful
    <3> QED
      BY <3>1, <3>2
  <2> QED
    BY <2>1, <2>3 DEF ViewIsFaithful
<1>2. ASSUME NEW h \in Handlers, CreateScenario(h) \/ PersistSimulation(h) \/ GiveUp(h)
      PROVE  ViewsAreFaithful'
  <2>1. handlers' = [handlers EXCEPT ![h] = None]
    BY <1>2 DEF CreateScenario, PersistSimulation, GiveUp
  <2>2. ViewIsFaithful(None)
    BY DEF ViewIsFaithful
  <2> QED
    BY <2>1, <2>2, SetViewFaithful
<1>3. ASSUME NEW h \in Handlers, NEW u \in Users, NEW g \in Goals, NEW plan \in Plans,
             ReadSnapshot(h, u, g, plan)
      PROVE  ViewsAreFaithful'
  <2>1. PICK new \in CreateView : handlers' = [handlers EXCEPT ![h] = new]
    BY <1>0, <1>3, ReadSnapshotView
  <2>2. new \in Views \cup {None} /\ ViewIsFaithful(new)
    BY DEF Views, CreateView, ViewIsFaithful
  <2> QED
    BY <2>1, <2>2, SetViewFaithful
<1>4. ASSUME NEW h \in Handlers, NEW u \in Users, NEW s \in Scenarios, ReadScenario(h, u, s)
      PROVE  ViewsAreFaithful'
  <2>1. PICK new \in SimulateView :
           /\ new.step = "scenario" /\ new.scenario = s /\ new.candidate = scenarios[s]
           /\ handlers' = [handlers EXCEPT ![h] = new]
    BY <1>0, <1>4, ReadScenarioView
  <2>2. Row(s) # None /\ new.candidate = Row(s)
    BY <1>4, <2>1 DEF ReadScenario, Row
  <2>3. Unsimulated(new.candidate)
    <3>1. RestsOnItsBase(Row(s))
      BY <2>2 DEF IInv, ResultsRestOnTheirBase
    <3> QED
      BY <2>2, <3>1 DEF RestsOnItsBase, Unsimulated
  <2>4. new \in Views \cup {None} /\ ViewIsFaithful(new)
    BY <2>1, <2>2, <2>3 DEF Views, Agrees, Knows, ViewIsFaithful
  <2> QED
    BY <2>1, <2>4, SetViewFaithful
<1>5. ASSUME NEW h \in Handlers, NEW step, AtStep(h, step)
      PROVE  /\ handlers[h].step = step /\ Row(handlers[h].scenario) # None
             /\ Agrees(handlers[h].candidate, Row(handlers[h].scenario))
             /\ Knows(step, handlers[h].candidate, handlers[h].looks)
  BY <1>5 DEF AtStep, IInv, ViewsAreFaithful, ViewIsFaithful
<1>6. ASSUME NEW h \in Handlers, ReadGoal(h)
      PROVE  ViewsAreFaithful'
  <2>1. PICK new \in SimulateView :
           /\ new.step = "goal" /\ new.scenario = handlers[h].scenario
           /\ new.candidate = handlers[h].candidate /\ new.looks = {state_version}
           /\ handlers' = [handlers EXCEPT ![h] = new]
    BY <1>0, <1>6, ReadGoalView
  <2>2. AtStep(h, "scenario")
    BY <1>6 DEF ReadGoal
  <2>3. new.candidate.base \in 1..state_version
    <3>1. new.scenario \in Scenarios /\ Row(new.scenario) # None
      BY <1>5, <2>1, <2>2 DEF SimulateView
    <3>2. RestsOnItsBase(Row(new.scenario))
      BY <3>1 DEF IInv, ResultsRestOnTheirBase
    <3> QED
      BY <1>5, <2>1, <2>2, <3>2 DEF RestsOnItsBase, Agrees
  <2>4. ReadSince(new.candidate.base, new.looks)
    BY <1>0, <2>1, <2>3 DEF ReadSince, TypeOK
  <2>5. Knows("goal", new.candidate, new.looks)
    BY <1>5, <2>1, <2>2, <2>4 DEF Knows
  <2>6. new \in Views \cup {None} /\ ViewIsFaithful(new)
    BY <1>5, <2>1, <2>2, <2>5 DEF Views, ViewIsFaithful
  <2> QED
    BY <2>1, <2>6, SetViewFaithful
<1>7. ASSUME NEW h \in Handlers, Simulate(h)
      PROVE  ViewsAreFaithful'
  <2>1. PICK new \in SimulateView :
           /\ new.step = "calculated" /\ new.scenario = handlers[h].scenario
           /\ Calculated(handlers[h].candidate, new.candidate) /\ new.looks = handlers[h].looks
           /\ handlers' = [handlers EXCEPT ![h] = new]
    BY <1>0, <1>7, CalculatedView
  <2>2. AtStep(h, "goal")
    BY <1>7 DEF Simulate
  <2>3. /\ Unsimulated(handlers[h].candidate)
        /\ ReadSince(handlers[h].candidate.base, handlers[h].looks)
    BY <1>5, <2>2 DEF Knows
  <2>4. Prepared(new.candidate)
    BY <2>1, <2>3 DEF Calculated, Unsimulated, Prepared
  <2>5. Agrees(new.candidate, Row(new.scenario)) /\ Row(new.scenario) # None
    BY <1>5, <2>1, <2>2 DEF Calculated, Agrees
  <2>6. new.looks = {new.candidate.base}
    BY <1>0, <2>1, <2>3 DEF Calculated, ReadSince, TypeOK
  <2>7. new \in Views \cup {None} /\ ViewIsFaithful(new)
    BY <2>1, <2>4, <2>5, <2>6 DEF Views, Knows, ViewIsFaithful
  <2> QED
    BY <2>1, <2>7, SetViewFaithful
<1>8. ASSUME NEW h \in Handlers, CheckVersion(h)
      PROVE  ViewsAreFaithful'
  <2>1. PICK new \in SimulateView :
           /\ new.step = "checked" /\ new.scenario = handlers[h].scenario
           /\ new.candidate = handlers[h].candidate /\ new.candidate.base = state_version
           /\ new.looks = handlers[h].looks \cup {state_version}
           /\ handlers' = [handlers EXCEPT ![h] = new]
    BY <1>0, <1>8, CheckVersionView
  <2>2. AtStep(h, "calculated")
    BY <1>8 DEF CheckVersion
  <2>3. /\ Prepared(handlers[h].candidate)
        /\ handlers[h].looks = {handlers[h].candidate.base}
    BY <1>5, <2>2 DEF Knows
  <2>4. Knows("checked", new.candidate, new.looks)
    BY <2>1, <2>3 DEF Knows
  <2>5. new \in Views \cup {None} /\ ViewIsFaithful(new)
    BY <1>5, <2>1, <2>2, <2>4 DEF Views, ViewIsFaithful
  <2> QED
    BY <2>1, <2>5, SetViewFaithful
<1>9. CASE \/ CommitDecision
           \/ \E u \in Users, g \in Goals, k \in ConstraintKeys, c \in Constraint, r \in Requests :
                AddConstraint(u, g, k, c, r)
           \/ \E S \in SUBSET Scenarios : CompareScenarios(S)
           \/ UNCHANGED vars
  BY <1>1, <1>9 DEF CommitDecision, AddConstraint, CompareScenarios, vars
<1> QED
  BY <1>2, <1>3, <1>4, <1>6, <1>7, <1>8, <1>9 DEF Next, Create, RunScenario

-----------------------------------------------------------------------------
(* The recommendation.  known is what the rows of its items say, which     *)
(* does not change any more.                                               *)

Stands(S, best, known) ==
  /\ best # None => IsBest(known[best], {known[s] : s \in S})
  /\ best = None => \A s \in S : HasHighRisk(known[s].risks)

Comparably(S) == \A s, t \in S : Simulated(s) /\ Row(s).base = Row(t).base

Known(S) == [s \in S |-> Candidate(s)]

LEMMA CandidateFields ==
  ASSUME NEW s
  PROVE  /\ Candidate(s).id = s /\ Candidate(s).margin = Row(s).plan.margin
         /\ Candidate(s).risks = Row(s).result.risks
BY DEF Candidate, Row

LEMMA BestIsAnItem ==
  ASSUME NEW S \in SUBSET Scenarios, NEW best \in Scenarios,
         IsBest(Candidate(best), {Candidate(s) : s \in S})
  PROVE  best \in S
BY DEF IsBest, Candidate

Stated(S, best) ==
  /\ best # None => IsBest(Candidate(best), {Candidate(s) : s \in S})
  /\ best = None => \A s \in S : HasHighRisk(Row(s).result.risks)

LEMMA StandsMeans ==
  ASSUME NEW S \in SUBSET Scenarios, NEW best \in S \cup {None}
  PROVE  Stated(S, best) <=> Stands(S, best, Known(S))
<1>1. \A s \in S : Known(S)[s] = Candidate(s)
  BY DEF Known
<1>2. {Known(S)[s] : s \in S} = {Candidate(s) : s \in S}
  BY <1>1
<1>3. \A s \in S : Known(S)[s].risks = Row(s).result.risks
  BY <1>1, CandidateFields
<1> QED
  BY <1>1, <1>2, <1>3 DEF Stands, Stated

LEMMA FreshRecommendationStands ==
  ASSUME IInv, NEW S \in SUBSET Scenarios, CompareScenarios(S)
  PROVE  /\ Comparably(S) /\ Recommended(S) \in S \cup {None}
         /\ Stands(S, Recommended(S), Known(S))
<1>1. PICK f : f = Known(S)
  OBVIOUS
<1>2. \A s \in S : f[s] = Candidate(s) /\ s \in Nat /\ None # s
  BY <1>1, SetsAssumption, NoneAssumption DEF Known
<1>3. \A s \in S : scenarios[s] \in ScenarioRow /\ Simulated(s)
  BY DEF IInv, TypeOK, CompareScenarios, Comparable, Simulated, Row
<1>4. \A s \in S : f[s].id = s /\ s \in Nat /\ f[s].margin \in Int
  <2> SUFFICES ASSUME NEW s \in S PROVE f[s].id = s /\ f[s].margin \in Int
    BY <1>2
  <2>1. Row(s).plan \in Plans
    BY <1>3 DEF Row, ScenarioRow
  <2>2. Row(s).plan.margin \in Int
    BY <2>1, SetsAssumption
  <2> QED
    BY <1>2, <2>2, CandidateFields
<1>5. {f[s] : s \in S} = {Candidate(s) : s \in S}
  BY <1>2
<1>6. Comparably(S)
  BY <1>3 DEF CompareScenarios, Comparably, Row
<1>7. CASE \E s \in S : IsBest(f[s], {f[t] : t \in S})
  <2>1. \E s \in S : IsBest(Candidate(s), {Candidate(t) : t \in S})
    BY <1>2, <1>5, <1>7
  <2>2. Recommended(S) \in S
        /\ IsBest(Candidate(Recommended(S)), {Candidate(t) : t \in S})
    BY <2>1 DEF Recommended
  <2>3. IsBest(f[Recommended(S)], {f[t] : t \in S}) /\ Recommended(S) # None
    BY <1>2, <1>5, <2>2
  <2> QED
    BY <1>1, <1>6, <2>2, <2>3 DEF Stands
<1>8. CASE ~ \E s \in S : IsBest(f[s], {f[t] : t \in S})
  <2>1. ~ \E s \in S : IsBest(Candidate(s), {Candidate(t) : t \in S})
    BY <1>2, <1>5, <1>8
  <2>2. Recommended(S) = None
    BY <2>1 DEF Recommended
  <2>3. IsFiniteSet(S)
    BY DEF CompareScenarios
  <2>4. ~ \E s \in S : ~ HasHighRisk(f[s].risks)
    <3>1. Identified(S, f) /\ ~ HasBest(S, f)
      BY <1>4, <1>8 DEF Identified, HasBest
    <3>2. ~ HasSafe(S, f)
      BY <2>3, <3>1, BestExists
    <3> QED
      BY <3>2 DEF HasSafe
  <2> QED
    BY <1>1, <1>6, <2>2, <2>4 DEF Stands
<1> QED
  BY <1>7, <1>8

(* A recommendation that stands does as long as rows that are simulated    *)
(* stay.                                                                   *)
LEMMA KnownStays ==
  ASSUME IInv, [Next]_vars, NEW S \in SUBSET Scenarios, Comparably(S)
  PROVE  /\ Comparably(S)' /\ Known(S)' = Known(S)
<1>1. ASSUME NEW s \in S
      PROVE  Row(s)' = Row(s)
  <2>1. ScenarioStep(s)
    BY RowSteps
  <2>2. Row(s) # None /\ Row(s).status = "simulated"
    BY DEF Comparably, Simulated
  <2> QED
    BY <2>1, <2>2 DEF ScenarioStep
<1>2. \A s \in S : Candidate(s)' = Candidate(s)
  BY <1>1 DEF Candidate, Row
<1>3. Known(S)' = Known(S)
  BY <1>2 DEF Known
<1>4. Comparably(S)'
  BY <1>1 DEF Comparably, Simulated
<1> QED
  BY <1>3, <1>4

(* RecommendationStands in the terms of this section.                      *)
RecommendationHolds ==
  /\ Comparably(comparison.items)
  /\ comparison.recommended \in comparison.items \cup {None}
  /\ Stands(comparison.items, comparison.recommended, Known(comparison.items))

LEMMA HoldsMeans == TypeOK => (RecommendationStands <=> RecommendationHolds)
<1> SUFFICES ASSUME TypeOK PROVE RecommendationStands <=> RecommendationHolds
  OBVIOUS
<1> DEFINE S == comparison.items
           best == comparison.recommended
<1>1. S \in SUBSET Scenarios /\ best \in Scenarios \cup {None}
  BY DEF TypeOK, Comparison
<1>2. RecommendationStands <=> Comparably(S) /\ Stated(S, best)
  BY DEF RecommendationStands, Comparably, Stated
<1>3. ASSUME Stated(S, best)
      PROVE  best \in S \cup {None}
  BY <1>1, <1>3, BestIsAnItem DEF Stated
<1>4. best \in S \cup {None} => (Stated(S, best) <=> Stands(S, best, Known(S)))
  BY <1>1, StandsMeans
<1> QED
  BY <1>2, <1>3, <1>4 DEF RecommendationHolds

LEMMA RecommendationStays ==
  ASSUME IInv, [Next]_vars
  PROVE  RecommendationStands'
<1>0. TypeOK /\ TypeOK' /\ RecommendationHolds
  BY TypeInductive, HoldsMeans DEF IInv
<1>1. comparison.items \in SUBSET Scenarios
  BY <1>0 DEF TypeOK, Comparison
<1>5. ASSUME NEW S \in SUBSET Scenarios, NEW best \in S \cup {None}, Comparably(S)',
             Known(S)' = Known(S), Stands(S, best, Known(S)),
             comparison'.items = S, comparison'.recommended = best
      PROVE  RecommendationStands'
  <2>1. PICK known : known = Known(S)
    OBVIOUS
  <2>2. Stands(S, best, known) /\ Known(S)' = known
    BY <1>5, <2>1
  <2>3. Known(comparison.items)' = known
    BY <1>5, <2>2 DEF Known
  <2>4. Comparably(comparison.items)'
    BY <1>5 DEF Comparably
  <2>5. Stands(comparison.items, comparison.recommended, Known(comparison.items))'
    BY <1>5, <2>2, <2>3 DEF Stands
  <2>6. RecommendationHolds'
    BY <1>5, <2>4, <2>5 DEF RecommendationHolds
  <2>7. TypeOK' => (RecommendationStands' <=> RecommendationHolds')
    BY HoldsMeans, PTL
  <2> QED
    BY <1>0, <2>6, <2>7
<1>2. CASE comparison' = comparison
  <2>1. PICK S \in SUBSET Scenarios, best \in Scenarios \cup {None} :
          S = comparison.items /\ best = comparison.recommended
    BY <1>0, <1>1 DEF TypeOK, Comparison
  <2>2. Comparably(S) /\ best \in S \cup {None} /\ Stands(S, best, Known(S))
    BY <1>0, <2>1 DEF RecommendationHolds
  <2>3. Comparably(S)' /\ Known(S)' = Known(S)
    BY <2>2, KnownStays
  <2>4. comparison'.items = S /\ comparison'.recommended = best
    BY <1>2, <2>1
  <2> QED
    BY <1>0, <1>5, <2>2, <2>3, <2>4
<1>3. ASSUME NEW S \in SUBSET Scenarios, CompareScenarios(S)
      PROVE  RecommendationStands'
  <2>1. PICK best : best = Recommended(S)
    OBVIOUS
  <2>2. Comparably(S) /\ best \in S \cup {None} /\ Stands(S, best, Known(S))
    BY <1>3, <2>1, FreshRecommendationStands
  <2>3. Comparably(S)' /\ Known(S)' = Known(S)
    BY <2>2, KnownStays
  <2>4. comparison'.items = S /\ comparison'.recommended = best
    BY <1>3, <2>1 DEF CompareScenarios
  <2> QED
    BY <1>0, <1>5, <2>2, <2>3, <2>4
<1>4. CASE ~ \E S \in SUBSET Scenarios : CompareScenarios(S)
  <2>1. comparison' = comparison
    BY <1>4 DEF Next, Create, RunScenario, CommitDecision, AddConstraint, ReadSnapshot,
                CreateScenario, ReadScenario, ReadGoal, Simulate, CheckVersion,
                PersistSimulation, GiveUp, vars
  <2> QED
    BY <1>2, <2>1
<1> QED
  BY <1>3, <1>4

-----------------------------------------------------------------------------
(* Theorems.                                                               *)

LEMMA IInvInit == Init => IInv
<1> SUFFICES ASSUME Init PROVE IInv
  OBVIOUS
<1>1. TypeOK
  BY DEF Init, TypeOK, ConstraintRows, Comparison
<1> QED
  BY <1>1 DEF Init, IInv, ResultsRestOnTheirBase, Row, ViewsAreFaithful, ViewIsFaithful,
              RecommendationStands

LEMMA IInvInductive == IInv /\ [Next]_vars => IInv'
BY TypeInductive, RowsRest, ViewsStayFaithful, RecommendationStays DEF IInv

LEMMA InvariantHolds == Spec => []IInv
BY IInvInit, IInvInductive, PTL DEF Spec

(* Every row, view and answer keeps its shape; in particular nothing ever  *)
(* moves a scenario to the domain's statuses compared or archived.         *)
THEOREM TypeCorrect == Spec => []TypeOK
<1>1. IInv => TypeOK
  BY DEF IInv
<1> QED
  BY <1>1, InvariantHolds, PTL

(* Scenarios and their results rest on a version the business has had:     *)
(* goal, snapshot and last look of a simulation fell into that one         *)
(* version, whatever is committed between its transactions.                *)
THEOREM ResultsAreGrounded == Spec => []ResultsRestOnTheirBase
<1>1. IInv => ResultsRestOnTheirBase
  BY DEF IInv
<1> QED
  BY <1>1, InvariantHolds, PTL

(* No two requests simulate the same scenario, and no step changes what a  *)
(* scenario proposes.                                                      *)
THEOREM ScenariosAreSimulatedOnce == Spec => SimulatedOnce
<1>1. IInv /\ [Next]_vars => [\A s \in Scenarios : ScenarioStep(s)]_vars
  BY RowSteps
<1> QED
  BY <1>1, InvariantHolds, PTL DEF Spec, SimulatedOnce

(* A recommendation once made stays the best of its items, and one that    *)
(* was withheld had no safe item.                                          *)
THEOREM RecommendationsLast == Spec => []RecommendationStands
<1>1. IInv => RecommendationStands
  BY DEF IInv
<1> QED
  BY <1>1, InvariantHolds, PTL

=============================================================================
