SPECIFICATION Spec
CONSTANTS
  Messages = {m1}
  MaxQueue = 2
  MaxFailures = 0
  Owners <- Asking
  NoMessage = NoMessage
INVARIANT DisconnectBehindReceived
CHECK_DEADLOCK FALSE
