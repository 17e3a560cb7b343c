CONSTANTS
  Proc = {q1, q2}
  None = None
  Process = {p1, p2}
  Steady = {p2}
  Session = {c1}
  t1 = t1
  Tenant = {t1, t2}
  Home <- OneTenant
  MaxMessage = 1
  registerMaxAttempts = 2
  Sess = {s1, s2}
  Tables = 2
  MaxExpired = 1
  deleteLimit = 1
  maxBatchCount = 2
  Key = {k1, k2}
  MaxClient = 3
SPECIFICATION MCSpec
CHECK_DEADLOCK FALSE
INVARIANTS OrderlyLife MessagesArrive OneCleaner ClientsShared
PROPERTY PlatformGoesOn
