SPECIFICATION Spec
CONSTANTS
  Nil = Nil  Half = Half  Unsafe = Unsafe
  Paths = {1, 2, 3}
  Inodes = {1, 2, 3}
  SidOf <- Sids
  Stages <- CommandOnly
  Lines <- Written
  Header <- Meta
  Budgets = {1, 9}
  Starts <- Homes
  MaxChanges = 2
  MaxMishaps = 1
CONSTRAINT Small
INVARIANTS CoverageIsHonest
CHECK_DEADLOCK FALSE
