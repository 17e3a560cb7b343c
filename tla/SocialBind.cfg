\* One user logs in by a social platform and is told that he is not bound.
CONSTANTS
  Proc = {p1}
  None = None
  OpenId = {o1}
  Account = {a1}
  UserType = {admin}
  MaxState = 2
  MaxSocial = 2
  MaxBind = 2
SPECIFICATION SocialSpec
CHECK_DEADLOCK FALSE
INVARIANT LoginCanBeBound
