SPECIFICATION Spec
CONSTANTS
  SorobanCalls = {s1}
  HorizonCalls = {h1}
  MaxRetries = 2
  MaxPolls = 2
CHECK_DEADLOCK FALSE
INVARIANTS
  TypeOK
  AnswerIsTrue
  EffectsAreAccountedFor
PROPERTIES
  EveryCallEnds
  ImplementsCall
