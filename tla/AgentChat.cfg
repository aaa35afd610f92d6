\* One turn, with up to three Groq keys; a tick is three seconds.
SPECIFICATION Spec
CONSTANTS
  Messages <- MCMessages
  Registries <- MCRegistries
  ChatLimit = 1
  ProviderTimeout = 3
  MaxWait = 1
  WriteTimeout = 10
INVARIANTS
  TypeOK
  SuggestionsAreOpen
  WarningsAreTrue
  AnsweredInTime
PROPERTIES
  GuideAlwaysAnswers
  EveryTurnEnds
CHECK_DEADLOCK FALSE
