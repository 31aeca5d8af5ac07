SPECIFICATION Spec
CONSTANTS
  Messages = {m1}
  MaxQueue = 2
  MaxFailures = 0
  Owners <- Closing
  NoMessage = NoMessage
INVARIANT RemainingBecomeGap
CHECK_DEADLOCK FALSE
