SPECIFICATION FairSpec
CONSTANTS
  Messages = {m1, m2}
  MaxQueue = 2
  MaxFailures = 1
  Owners <- Closing
  NoMessage = NoMessage
INVARIANTS ExactMeansIngested DisconnectComesLast NoSilentLoss
PROPERTIES DisconnectServed GapTold
CHECK_DEADLOCK FALSE
