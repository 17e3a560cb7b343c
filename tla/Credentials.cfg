CONSTANTS
  Proc = {p1, p2}
  None = None
  Scope = {n1, n2}
  MaxApprove = 2
  MaxCode = 1
  MaxChallenge = 2
  OpenId = {n1, n2}
  Account = {a1, a2}
  UserType = {admin}
  MaxState = 2
  MaxSocial = 2
  MaxBind = 3
SPECIFICATION MCSpec
CHECK_DEADLOCK FALSE
INVARIANTS ConsentIsLastChoice OneBindingUnlessRaced
PROPERTY TicketsOnce
SYMMETRY MCSymmetry
