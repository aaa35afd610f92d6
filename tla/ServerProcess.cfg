\* Two connections of one client, from start-up to exit.
SPECIFICATION Spec
CONSTANTS
  Environment = "development"
  Connections = {c1, c2}
  Clients = {ip}
  Limit = 2
  Window = 3
  MaxDelay = 1
  MaxClock = 3
INVARIANTS
  TypeOK
  CleanExit
  ReadyAnswersAreTrue
  AdmissionsAreBounded
PROPERTIES
  SignalEndsTheProcess
CHECK_DEADLOCK FALSE
