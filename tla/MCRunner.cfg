SPECIFICATION FairSpec
CONSTANTS
  Outcomes = {"completed"}
  MaxMishaps <- Mishaps
INVARIANTS JobsSettle HonestStatus AnswerIsItsOwn StopIsAsked
PROPERTIES RunEnds
CHECK_DEADLOCK FALSE
