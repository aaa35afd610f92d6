-------------------------- MODULE ScenarioWorkflow --------------------------
(***************************************************************************)
(* The scenarios of one business: created on the version the business has, *)
(* simulated once under the constraints of their goal, compared.  The      *)
(* business version moves on whenever a decision is committed.             *)
(*                                                                         *)
(* Requests span several transactions, and any other step may come         *)
(* between them.  SimulateScenario reads the scenario, the goal and the    *)
(* snapshot in one transaction each, calculates, and writes in a fourth,   *)
(* which is two steps here: under READ COMMITTED its plain select of the   *)
(* business version and its update each see what was committed when they   *)
(* ran, and the select holds no lock.                                      *)
(*                                                                         *)
(* Products, orders and metrics never change (no code writes them), so a   *)
(* snapshot is identified by the version it was read at.                   *)
(***************************************************************************)
EXTENDS ScenarioRules, FiniteSets

CONSTANTS
  Scenarios,       \* the random scenario ids, each used once: naturals
  Goals,           \* the goals of the business
  OpenGoals,       \* goals whose status is draft or active
  Users,           \* rows of users
  Operators,       \* users whose role is owner or operator
  Guests,          \* viewers that hold a guest token (auth.IsGuest)
  ConstraintKeys,  \* keys of goal constraints
  BudgetKeys,      \* the keys that fold to "budget"
  Values,          \* constraint values; a negative one is not a budget
  Plans,           \* what proposed actions amount to: [spend, margin]
  Requests,        \* request ids, chosen by the client and repeated on a retry
  Handlers,        \* requests served at the same time
  FieldsLoaded,    \* does a commit load every field that it validates?
  MaxVersion,      \* bound: versions of the business
  None             \* no row, no request, no recommendation

ASSUME SetsAssumption ==
  /\ Scenarios \subseteq Nat
  /\ OpenGoals \subseteq Goals
  /\ Operators \subseteq Users /\ Guests \subseteq Users
  /\ BudgetKeys \subseteq ConstraintKeys
  /\ Values \subseteq Int
  /\ \A plan \in Plans : plan.spend \in Nat /\ plan.margin \in Int

ASSUME FieldsAssumption == FieldsLoaded \in BOOLEAN

ASSUME MaxVersionAssumption == MaxVersion \in Nat \ {0}

VARIABLES
  state_version,     \* businesses.state_version
  goal_constraints,  \* goal_constraints[g][k] = None or [value, hard]
  audit_events,      \* events of constraint updates: [goal, key, request]
  scenarios,         \* scenarios[s] = the row
  handlers,          \* handlers[h] = None or what the request holds in memory
  comparison         \* the latest answer of CompareScenarios

vars == <<state_version, goal_constraints, audit_events, scenarios, handlers, comparison>>

-----------------------------------------------------------------------------
(* Rows, what requests hold, and their types.                              *)

(* baseline is the version of the snapshot the metrics were calculated     *)
(* from, 0 as long as the result is not Calculated.                        *)
Result == [baseline : Nat, risks : SUBSET RiskKeys]
NoResult == [baseline |-> 0, risks |-> {}]

(* looks is not a column: it tells which versions the business had when    *)
(* the simulation read the goal and when it looked before its update.      *)
ScenarioRow == [goal : Goals, base : Nat, plan : Plans, status : {"draft", "simulated"},
                version : Nat, result : Result, looks : SUBSET Nat]

Constraint == [value : Values, hard : BOOLEAN]
ConstraintRows == [ConstraintKeys -> Constraint \cup {None}]

CreateView == [op : {"create"}, actor : Users, goal : Goals, plan : Plans, base : Nat]

(* candidate is the row as read, and after the calculation the row to      *)
(* write; constraints is None until the goal has been read.  looks is      *)
(* history, as above.                                                      *)
SimulateView == [op : {"simulate"}, step : {"scenario", "goal", "calculated", "checked"},
                 actor : Users, scenario : Scenarios, candidate : ScenarioRow,
                 constraints : ConstraintRows \cup {None}, looks : SUBSET Nat]

Comparison == [items : SUBSET Scenarios, recommended : Scenarios \cup {None}]

(* Needed to tell a row from its absence.                                  *)
ASSUME NoneAssumption ==
  None \notin ScenarioRow \cup Constraint \cup CreateView \cup SimulateView
              \cup ConstraintRows \cup Scenarios

TypeOK ==
  /\ state_version \in Nat \ {0}
  /\ goal_constraints \in [Goals -> ConstraintRows]
  /\ audit_events \subseteq [goal : Goals, key : ConstraintKeys, request : Requests]
  /\ scenarios \in [Scenarios -> ScenarioRow \cup {None}]
  /\ handlers \in [Handlers -> CreateView \cup SimulateView \cup {None}]
  /\ comparison \in Comparison

Init ==
  /\ state_version = 1
  /\ goal_constraints = [g \in Goals |-> [k \in ConstraintKeys |-> None]]
  /\ audit_events = {}
  /\ scenarios = [s \in Scenarios |-> None]
  /\ handlers = [h \in Handlers |-> None]
  /\ comparison = [items |-> {}, recommended |-> None]

-----------------------------------------------------------------------------

(* The condition on users in the statements of scenarios.                  *)
MayEditScenarios(u) == u \in Operators \cup Guests

(* What the insert, the calculation and the look before the update ask of  *)
(* the version the business has when they run.                             *)
OnCurrentVersion(base) == base = state_version

(* A decision is committed: all the decision workflow does to this state.  *)
(* As built no commit gets so far: it validates fields that it does not    *)
(* load, and is refused.                                                   *)
CommitDecision ==
  /\ FieldsLoaded                                   \* else commit.Validate refuses
  /\ state_version < MaxVersion                     \* bound
  /\ state_version' = state_version + 1
  /\ UNCHANGED <<goal_constraints, audit_events, scenarios, handlers, comparison>>

(* AddConstraint: one row per goal and key.  The id of the audit event is  *)
(* derived from goal, key and request id, so a repeated request fails and  *)
(* takes its update with it.                                               *)
AddConstraint(u, g, k, c, r) ==
  LET event == [goal |-> g, key |-> k, request |-> r] IN
  /\ u \in Operators                                \* else ErrGoalNotFound
  /\ event \notin audit_events
  /\ goal_constraints' = [goal_constraints EXCEPT ![g][k] = c]
  /\ audit_events' = audit_events \cup {event}
  /\ UNCHANGED <<state_version, scenarios, handlers, comparison>>

-----------------------------------------------------------------------------
(* CreateScenario: the snapshot and the goal are read, then the row is     *)
(* inserted if the business still has the version that was read.           *)

ReadSnapshot(h, u, g, plan) ==
  /\ handlers[h] = None
  /\ g \in OpenGoals                                \* else ErrScenarioContext
  /\ handlers' = [handlers EXCEPT ![h] =
       [op |-> "create", actor |-> u, goal |-> g, plan |-> plan, base |-> state_version]]
  /\ UNCHANGED <<state_version, goal_constraints, audit_events, scenarios, comparison>>

CreateScenario(h) ==
  LET v == handlers[h] IN
  /\ v # None /\ v.op = "create"
  /\ OnCurrentVersion(v.base)                       \* else ErrScenarioContext
  /\ MayEditScenarios(v.actor)                      \* else ErrScenarioContext
  /\ \E s \in Scenarios :
       /\ scenarios[s] = None
       /\ scenarios' = [scenarios EXCEPT ![s] =
            [goal |-> v.goal, base |-> v.base, plan |-> v.plan, status |-> "draft",
             version |-> 1, result |-> NoResult, looks |-> {}]]
  /\ handlers' = [handlers EXCEPT ![h] = None]
  /\ UNCHANGED <<state_version, goal_constraints, audit_events, comparison>>

-----------------------------------------------------------------------------
(* SimulateScenario.                                                       *)

ReadScenario(h, u, s) ==
  /\ handlers[h] = None
  /\ scenarios[s] # None                            \* else ErrScenarioNotFound
  /\ handlers' = [handlers EXCEPT ![h] =
       [op |-> "simulate", step |-> "scenario", actor |-> u, scenario |-> s,
        candidate |-> scenarios[s], constraints |-> None, looks |-> {}]]
  /\ UNCHANGED <<state_version, goal_constraints, audit_events, scenarios, comparison>>

AtStep(h, step) ==
  handlers[h] # None /\ handlers[h].op = "simulate" /\ handlers[h].step = step

ReadGoal(h) ==
  LET v == handlers[h] IN
  /\ AtStep(h, "scenario")
  /\ handlers' = [handlers EXCEPT ![h] = [v EXCEPT
       !.step = "goal",
       !.constraints = goal_constraints[v.candidate.goal],
       !.looks = {state_version}]]
  /\ UNCHANGED <<state_version, goal_constraints, audit_events, scenarios, comparison>>

(* Simulate refuses a scenario that is not a draft, and a snapshot of      *)
(* another version than the one the scenario was created on.               *)
ContextMatches(candidate) ==
  candidate.status = "draft" /\ OnCurrentVersion(candidate.base)

HardBudgets(constraints) ==
  {constraints[k].value : k \in {j \in BudgetKeys : constraints[j] # None /\ constraints[j].hard}}

(* The snapshot is read and the result calculated, in memory.              *)
Simulate(h) ==
  LET v == handlers[h]
      result == [baseline |-> state_version,
                 risks |-> HardBudgetRisks(HardBudgets(v.constraints), v.candidate.plan.spend)]
  IN
  /\ AtStep(h, "goal")
  /\ ContextMatches(v.candidate)                    \* else an error
  /\ handlers' = [handlers EXCEPT ![h] = [v EXCEPT
       !.step = "calculated",
       !.candidate = [v.candidate EXCEPT !.status = "simulated",
                                         !.version = v.candidate.version + 1,
                                         !.result = result]]]
  /\ UNCHANGED <<state_version, goal_constraints, audit_events, scenarios, comparison>>

(* Mutant: the update does not ask which version the business has.         *)
IsNotStaleMutant(candidate) == TRUE

(* The look before the update, which no lock keeps true.                   *)
IsNotStale(candidate) == OnCurrentVersion(candidate.base)

(* UpdateSimulation, up to its unlocked look at the business version.      *)
CheckVersion(h) ==
  LET v == handlers[h] IN
  /\ AtStep(h, "calculated")
  /\ MayEditScenarios(v.actor)                      \* else ErrScenarioUnauthorized
  /\ IsNotStale(v.candidate)                        \* else ErrScenarioStale
  /\ handlers' = [handlers EXCEPT ![h] = [v EXCEPT
       !.step = "checked",
       !.looks = v.looks \cup {state_version}]]
  /\ UNCHANGED <<state_version, goal_constraints, audit_events, scenarios, comparison>>

(* Mutant: the update without its conditions on status and version.        *)
IsUnchangedDraftMutant(s, candidate) ==
  scenarios[s] # None /\ scenarios[s].base = candidate.base

(* The row must still be the draft that was read.                          *)
IsUnchangedDraft(s, candidate) ==
  /\ scenarios[s] # None
  /\ scenarios[s].status = "draft"
  /\ scenarios[s].version = candidate.version - 1
  /\ scenarios[s].base = candidate.base

PersistSimulation(h) ==
  LET v == handlers[h] IN
  /\ AtStep(h, "checked")
  /\ IsUnchangedDraft(v.scenario, v.candidate)      \* else ErrScenarioConflict
  /\ scenarios' = [scenarios EXCEPT ![v.scenario] = [scenarios[v.scenario] EXCEPT
       !.result = v.candidate.result,
       !.status = v.candidate.status,
       !.version = v.candidate.version,
       !.looks = v.looks]]
  /\ handlers' = [handlers EXCEPT ![h] = None]
  /\ UNCHANGED <<state_version, goal_constraints, audit_events, comparison>>

(* A request is refused, its transaction aborted, or its process dies.     *)
GiveUp(h) ==
  /\ handlers[h] # None
  /\ handlers' = [handlers EXCEPT ![h] = None]
  /\ UNCHANGED <<state_version, goal_constraints, audit_events, scenarios, comparison>>

-----------------------------------------------------------------------------
(* CompareScenarios reads all rows with one statement.                     *)

Candidate(s) ==
  [id |-> s, margin |-> scenarios[s].plan.margin, risks |-> scenarios[s].result.risks]

Comparable(s) ==
  scenarios[s] # None /\ scenarios[s].status = "simulated" /\ scenarios[s].result.baseline > 0

(* Mutant: risky scenarios are not left out.                               *)
RecommendedMutant(S) ==
  CHOOSE s \in S : \A t \in S : s = t \/ BetterMargin(Candidate(s), Candidate(t))

Recommended(S) ==
  IF \E s \in S : IsBest(Candidate(s), {Candidate(t) : t \in S})
  THEN CHOOSE s \in S : IsBest(Candidate(s), {Candidate(t) : t \in S})
  ELSE None

(* Mutant: compared scenarios are marked, as the domain's status machine   *)
(* would have it.                                                          *)
CompareScenariosMutant(S) ==
  /\ IsFiniteSet(S) /\ Cardinality(S) \in 2..8
  /\ \A s \in S : Comparable(s)
  /\ \A s, t \in S : scenarios[s].base = scenarios[t].base
  /\ comparison' = [items |-> S, recommended |-> Recommended(S)]
  /\ scenarios' = [s \in Scenarios |->
       IF s \in S THEN [scenarios[s] EXCEPT !.status = "compared"] ELSE scenarios[s]]
  /\ UNCHANGED <<state_version, goal_constraints, audit_events, handlers>>

CompareScenarios(S) ==
  /\ IsFiniteSet(S) /\ Cardinality(S) \in 2..8
  /\ \A s \in S : Comparable(s)                     \* else not found, or an error
  /\ \A s, t \in S : scenarios[s].base = scenarios[t].base   \* else ErrScenarioContext
  /\ comparison' = [items |-> S, recommended |-> Recommended(S)]
  /\ UNCHANGED <<state_version, goal_constraints, audit_events, scenarios, handlers>>

-----------------------------------------------------------------------------

Create(h) ==
  \/ \E u \in Users, g \in Goals, plan \in Plans : ReadSnapshot(h, u, g, plan)
  \/ CreateScenario(h)

RunScenario(h) ==
  \/ \E u \in Users, s \in Scenarios : ReadScenario(h, u, s)
  \/ ReadGoal(h)
  \/ Simulate(h)
  \/ CheckVersion(h)
  \/ PersistSimulation(h)

Next ==
  \/ CommitDecision
  \/ \E u \in Users, g \in Goals, k \in ConstraintKeys, c \in Constraint, r \in Requests :
       AddConstraint(u, g, k, c, r)
  \/ \E h \in Handlers : Create(h) \/ RunScenario(h) \/ GiveUp(h)
  \/ \E S \in SUBSET Scenarios : CompareScenarios(S)

Spec == Init /\ [][Next]_vars

-----------------------------------------------------------------------------
(* Properties.                                                             *)

Row(s) == scenarios[s]
Simulated(s) == Row(s) # None /\ Row(s).status = "simulated"

RestsOnItsBase(row) ==
  /\ row.base \in 1..state_version
  /\ IF row.status = "simulated"
     THEN row.result.baseline = row.base /\ row.version = 2 /\ row.looks = {row.base}
     ELSE row.result = NoResult /\ row.version = 1

(* A scenario rests on a version the business has had, which is what the   *)
(* decision workflow takes for granted of the scenarios it is offered; and *)
(* its metrics, if any, were calculated while the business had that        *)
(* version: the goal was read, the snapshot taken and the version looked   *)
(* at before the update in transactions of their own, and commits may come *)
(* between any two of them.  (One may also come after the look: the result *)
(* is then stored late, and says so by its base.)                          *)
ResultsRestOnTheirBase ==
  \A s \in Scenarios : Row(s) # None => RestsOnItsBase(Row(s))

(* A scenario is simulated at most once: of two requests that have read    *)
(* the same draft, under different constraints perhaps, one writes and the *)
(* other is refused; and nothing changes what a scenario proposes.         *)
ScenarioStep(s) ==
  Row(s) # None =>
    \/ Row(s)' = Row(s)
    \/ /\ Row(s)' # None
       /\ Row(s).status = "draft" /\ Row(s)'.status = "simulated"
       /\ <<Row(s)'.goal, Row(s)'.base, Row(s)'.plan>> = <<Row(s).goal, Row(s).base, Row(s).plan>>

SimulatedOnce == [][\A s \in Scenarios : ScenarioStep(s)]_vars

(* What a comparison has recommended stays the best of its items for good: *)
(* later simulations, constraints and commits do not change what it says.  *)
RecommendationStands ==
  LET S == comparison.items
      best == comparison.recommended
  IN
  /\ \A s, t \in S : Simulated(s) /\ Row(s).base = Row(t).base
  /\ best # None => IsBest(Candidate(best), {Candidate(s) : s \in S})
  /\ best = None => \A s \in S : HasHighRisk(Row(s).result.risks)

(* The keys under which the repository itself records a hard budget: the   *)
(* one the rules know and the one of the demo data.                        *)
DeclaredBudgetKeys == BudgetKeys \cup {"budget_cents"}

(* A calculation under a hard budget that the plan exceeds carries a risk  *)
(* (docs/M7: "hard budget violations become explicit high-severity risks   *)
(* and warnings").                                                         *)
HardBudgetsBecomeRisks ==
  \A h \in Handlers :
    AtStep(h, "calculated") =>
      \A k \in DeclaredBudgetKeys \cap ConstraintKeys :
        LET c == handlers[h].constraints[k]
            candidate == handlers[h].candidate
        IN  c # None /\ c.hard /\ c.value >= 0 /\ candidate.plan.spend > c.value
              => HasHighRisk(candidate.result.risks)

=============================================================================
