SPECIFICATION FairSpec
CONSTANTS
  Dispatches = {d1, d2}
  Exporters = {x1, x2}
  MaxRevision = 6
  MaxFailures = 1
  NoRow = NoRow
  NoHealth = NoHealth
  NoRecord = NoRecord
  Nobody = Nobody
INVARIANTS TypeOK CursorCovers NeverRefused CleanIsHonest
PROPERTIES NothingRegresses CatchesUp
