\* The smallest workflow as built: the commit transaction loads neither field.
SPECIFICATION Spec
CONSTANTS
  b1 = b1
  b2 = b2
  p1 = p1
  p2 = p2
  p3 = p3
  operator = operator
  guest = guest
  viewer = viewer
  k1 = k1
  k2 = k2
  r1 = r1
  r2 = r2
  r3 = r3
  h1 = h1
  h2 = h2
  None = None
  Businesses = {b1}
  Proposals = {p1}
  Users = {operator, viewer}
  Operators = {operator}
  Guests = {}
  Keys = {k1}
  Requests = {r1}
  Handlers = {h1}
  MaxNumber = 2
  LoadedFields = {}
INVARIANTS
  GuardedCommitsGoThrough
