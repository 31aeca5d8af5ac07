SPECIFICATION Spec
CONSTANTS
  f1 = f1  f2 = f2
  Bad = Bad
  Nil = Nil
  Files = {f1, f2}
  Events <- Overwritings
  Starts <- InPlace
  MaxRows = 2
  LinesFit = FALSE
  LateHeads = FALSE
  MaxEvents = 4
  MaxLosses = 2
  MaxWrites = 2
  MaxAborts = 0
PROPERTY FloorBelowRetained
