SPECIFICATION Spec
CONSTANTS
  f1 = f1
  f2 = f2
  Files = {f1, f2}
  NoFile = NoFile
  MaxSessions = 2
  MaxCalls = 2
  MaxTransfers = 2
  MaxSelections = 2
  MaxTotal = 2
  Totals = {2}
  MaxFaults = 1
SYMMETRY Interchangeable
INVARIANT TypeOK
INVARIANT AnswerIsCurrent
INVARIANT BusyIsHonest
INVARIANT RowsKeepTheirFile
INVARIANT DoneMeansStored
INVARIANT SettledListIsCurrent
CHECK_DEADLOCK FALSE
