\* Six transactions on two proposals of one business.
SPECIFICATION Spec
CONSTANTS
  p1 = p1
  p2 = p2
  k1 = k1
  k2 = k2
  submit = submit
  revise = revise
  decide = decide
  commit = commit
  retry = retry
  other = other
  Proposals = {p1, p2}
  Keys = {k1, k2}
  Txs = {submit, revise, decide, commit, retry, other}
  Work <- MCWork
  LoadedFields = {"goal_id", "scenario_id"}
  MaxSent = 3
INVARIANTS
  TypeOK
  DeadlocksAreKnown
PROPERTIES
  TransactionsAreAtomic
  EveryTransactionEnds
CHECK_DEADLOCK FALSE
