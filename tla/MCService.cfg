CONSTANTS
  q1 = q1
  q2 = q2
  Self = Self
  None = None
  Services = {"dashboard", "rag", "auth", "worker"}
  Requests = {q1, q2}
  NumRecords = 2
  MaxPollRecords = 2
  Invalid <- MCInvalid
  MaxRestarts = 2
  MaxTimeouts = 1
SPECIFICATION FairSpec
INVARIANT HandlersHaveThePool
INVARIANT RequestsSurviveShutdown
PROPERTY ShutdownCompletes
PROPERTY ImplementsRecordLoop
CHECK_DEADLOCK FALSE
