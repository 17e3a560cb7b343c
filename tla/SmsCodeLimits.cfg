CONSTANTS
  Proc = {p1, p2}
  Sender = {p1}
  Code = {c1}
  None = None
  Scene = {reset}
  Reset = reset
  Frequency = 2
  Expire = 2
  DailyMax = 2
  DayLength = 5
  Faults = TRUE
  MaxRow = 3
  MaxTime = 5
SPECIFICATION Spec
INVARIANTS LimitsKept
SYMMETRY Interchangeable
