SPECIFICATION FairSpec
CONSTANTS
  f1 = f1  f2 = f2
  Bad = Bad
  Nil = Nil
  Files = {f1, f2}
  Events <- Generations
  Starts <- Journals
  MaxRows = 1
  LinesFit = TRUE
  LateHeads = FALSE
  MaxEvents = 2
  MaxLosses = 1
  MaxWrites = 2
  MaxAborts = 1
INVARIANTS CountedOnce LossTold
PROPERTIES FloorBelowRetained PendingResolve
