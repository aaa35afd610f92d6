\* The goal of the demo data, whose hard budget is called budget_cents.
SPECIFICATION Spec
CONSTANTS
  g1 = g1
  operator = operator
  guest = guest
  r1 = r1
  h1 = h1
  h2 = h2
  None = None
  Goals = {g1}
  OpenGoals = {g1}
  Operators = {operator}
  Guests = {}
  Users = {operator}
  ConstraintKeys = {"budget_cents"}
  BudgetKeys = {}
  Values = {1}
  Plans <- OnePlan
  Scenarios = {1}
  Requests = {r1}
  Handlers = {h1}
  MaxVersion = 1
  FieldsLoaded = FALSE
INVARIANTS
  HardBudgetsBecomeRisks
