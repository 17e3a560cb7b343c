CONSTANTS
  Proc = {p1, p2}
  Sender = {p1, p2}
  Code = {c1, c2}
  None = None
  Scene = {login, reset}
  Reset = reset
  Frequency = 1
  Expire = 2
  DailyMax = 2
  DayLength = 2
  Faults = TRUE
  MaxRow = 2
  MaxTime = 2
SPECIFICATION Spec
INVARIANTS UndeliveredUnusable
PROPERTY ImplementsSingleUse
SYMMETRY Interchangeable
