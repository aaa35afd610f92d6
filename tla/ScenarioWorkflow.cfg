\* Two simulations, constraints and a commit at the same time.
SPECIFICATION Spec
CONSTANTS
  g1 = g1
  operator = operator
  guest = guest
  r1 = r1
  h1 = h1
  h2 = h2
  None = None
  Goals = {g1}
  OpenGoals = {g1}
  Operators = {operator}
  Guests = {guest}
  Users = {guest, operator}
  ConstraintKeys = {"budget"}
  BudgetKeys = {"budget"}
  Values <- TwoValues
  Plans <- TwoPlans
  Scenarios = {1, 2}
  Requests = {r1}
  Handlers = {h1, h2}
  MaxVersion = 2
  FieldsLoaded = TRUE
SYMMETRY Interchangeable
INVARIANTS
  TypeOK
  ResultsRestOnTheirBase
  RecommendationStands
PROPERTIES
  SimulatedOnce
