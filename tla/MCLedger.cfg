SPECIFICATION Spec
CONSTANTS
  d1 = d1  d2 = d2  s1 = s1  s2 = s2
  Dispatches = {d1, d2}
  Conns = {c1, c2}
  Streams = {s1, s2}
  BindingIds = {b1, b2}
  Projections <- Delivered
  Reported = {"submitted", "acknowledged", "running", "completed", "control-lost"}
  KeyMayFail = TRUE
  MaxGeneration = 1
  MaxPending = 2
  NoBinding = NoBinding
  NoManifest = NoManifest
SYMMETRY Names
CONSTRAINT Small
INVARIANTS PendingUnclaimed Accounting BlockedIsVisible
CHECK_DEADLOCK FALSE
