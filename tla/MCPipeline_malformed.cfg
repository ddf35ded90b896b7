CONSTANTS
  u1 = u1
  u2 = u2
  w1 = w1
  w2 = w2
  Uploads = {u1}
  Sections <- OneSection
  Malformed <- FirstMalformed
  Notifications <- Alone
  Workers = {w1}
  MaxPuts = 1
  MaxFaults = 0
  MaxDeletes = 0
SPECIFICATION FairSpec
PROPERTY MalformedIsRejected
CHECK_DEADLOCK FALSE
