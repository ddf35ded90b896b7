CONSTANTS
  r1 = r1
  c1 = c1
  Replicas = {r1}
  Clients = {c1}
  MaxChanges = 2
  MaxFaults = 2
SPECIFICATION FairSpec
INVARIANT TypeOK
INVARIANT InSyncUnlessMissed
PROPERTY EventuallyShown
CHECK_DEADLOCK FALSE
