\* Key rotation, role changes and a restart under two requests at a time.
SPECIFICATION Spec
CONSTANTS
  Absent = Absent
  Requests = {r1, r2}
  r1 = r1
  r2 = r2
  Tokens <- ThreeTokens
  Documents <- Rotation
  Members <- OneOperator
  Organization = "org"
  Issuer = "issuer"
  Audience = "api"
  GuestUser = "guest"
  GuestBusiness = "shop"
  GuestGoal = "goal"
  ClockSkew = 1
  GuestSkew = 1
  Lifetime = 2
  FetchTimeout = 1
  MaxClock = 3
  MaxFaults = 1
  NewRoles = {"viewer"}
INVARIANTS
  TypeOK
  WithdrawnKeysRunOut
  ServedWithMembership
  RefusedForCause
PROPERTIES
  RotationIsPickedUp
CHECK_DEADLOCK FALSE
