CONSTANTS
  u1 = u1
  u2 = u2
  w1 = w1
  w2 = w2
  Uploads = {u1}
  Sections <- TwoSections
  Malformed <- Nothing
  Notifications <- Alone
  Workers = {w1, w2}
  MaxPuts = 2
  MaxFaults = 1
  MaxDeletes = 0
SPECIFICATION Spec
SYMMETRY WorkerSymmetry
INVARIANT ProgressNeverOverstates
INVARIANT ProcessedMeansSearchable
INVARIANT CompletionAnnounced
PROPERTY RowNeverRegresses
PROPERTY ImplementsLifecycle
CHECK_DEADLOCK FALSE
