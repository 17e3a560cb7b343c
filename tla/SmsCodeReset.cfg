CONSTANTS
  Proc = {p1}
  Sender = {p1}
  Code = {c1}
  None = None
  Scene = {login, reset}
  Reset = reset
  Frequency = 1
  Expire = 2
  DailyMax = 2
  DayLength = 2
  Faults = TRUE
  MaxRow = 1
  MaxTime = 1
SPECIFICATION Spec
INVARIANTS ResetIsAtomic
