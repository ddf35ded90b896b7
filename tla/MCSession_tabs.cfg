CONSTANTS
  t1 = t1
  t2 = t2
  a = a
  b = b
  Tabs = {t1, t2}
  Lanes = {a}
  MaxSessions = 3
  MaxExpiries = 1
  MaxFaults = 1
SPECIFICATION Spec
SYMMETRY Interchangeable
INVARIANT TypeOK
INVARIANT OneTokenPerSession
INVARIANT SignOutIsFinal
INVARIANT NeverLockedOut
INVARIANT EndedOrContested
CHECK_DEADLOCK FALSE
