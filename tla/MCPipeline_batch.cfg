CONSTANTS
  u1 = u1
  u2 = u2
  w1 = w1
  w2 = w2
  Uploads = {u1, u2}
  Sections <- OneAndNone
  Malformed <- Nothing
  Notifications <- Together
  Workers = {w1}
  MaxPuts = 1
  MaxFaults = 1
  MaxDeletes = 1
SPECIFICATION FairSpec
INVARIANT NothingDropped
INVARIANT StatusMatchesCounts
PROPERTY EventuallyProcessed
CHECK_DEADLOCK FALSE
