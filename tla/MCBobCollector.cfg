SPECIFICATION FairSpec
CONSTANTS
  a = a  b = b  x = x
  Rows = {1, 2}
  Ids = {a, b}
  Odd = Odd
  Bodies = {x}
  Bad = Bad
  Nil = Nil
  Starts <- Chats
  MaxCommits = 3
  MaxMishaps = 1
INVARIANTS Coherent UnchangedIsCurrent
PROPERTIES EditsReconciled
CHECK_DEADLOCK FALSE
