CONSTANTS
  m1 = m1
  m2 = m2
  None = None
  Members = {m1, m2}
  NumRecords = 3
  MaxPollRecords = 2
  MaxInterruptions = 2
  Invalid <- MCInvalid
SPECIFICATION FairSpec
INVARIANT TypeOK
INVARIANT NoCommitPastFailedWork
INVARIANT RedeliveryNeedsInterruption
PROPERTY CommitNeverRewinds
PROPERTY EveryRecordCommitted
CHECK_DEADLOCK FALSE
