CONSTANTS
  t1 = t1
  t2 = t2
  a = a
  b = b
  Tabs = {t1}
  Lanes = {a}
  MaxSessions = 1
  MaxExpiries = 1
  MaxFaults = 1
SPECIFICATION Spec
PROPERTY SignoutClearsCookies
CHECK_DEADLOCK FALSE
