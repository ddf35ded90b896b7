CONSTANTS
  ann = ann
  x = x
  None = None
  Characters = {"a", "b"}
  Names = {ann, x}
  InvalidNames = {x}
  Passwords <- MCPasswords
  MinPasswordLength = 1
  MaxPasswordLength = 2
  Settings <- MCSettings
  MaxAllowed <- MCMaxAllowed
  PublicKey = "key"
  TTL = 4
  Second = 2
  Skew = 1
  RequestTime = 1
  MaxRegistrations = 2
  MaxSessions = 1
  MaxTime = 8
  MaxRestarts = 1
  MaxFaults = 1
SPECIFICATION Spec
INVARIANT RegistrationsAreHonest
INVARIANT RegisteredPasswordWorks
INVARIANT AccessEndsAfterSignout
INVARIANT FreshTokensWork
CHECK_DEADLOCK FALSE
