SPECIFICATION Spec
CONSTANTS
  d1 = d1  d2 = d2  s1 = s1  c1 = c1
  Dispatches = {d1, d2}
  Conns = {c1}
  Streams = {s1}
  BindingIds = {b1, b2}
  Projections <- OneEach
  Reported = {"completed"}
  KeyMayFail = FALSE
  MaxGeneration = 2
  MaxPending = 1
  NoBinding = NoBinding
  NoManifest = NoManifest
  Observed = d1
  Feed <- FirstSource
INVARIANTS TypeOK HonestCoverage ExactCoverageHasLiveSource BindingsLive GapsRemembered PublishedIsCurrent
PROPERTIES LossIsReported ImplementsSourceLedger
CHECK_DEADLOCK FALSE
