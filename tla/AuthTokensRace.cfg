CONSTANTS
  u1 = u1
  t1 = t1
  t2 = t2
  User = {u1}
  Member = {}
  Tenant = {t1}
  TenantOf <- OneTenant
  Client = client
  Access = {a1, a2}
  Refresh = {r1, r2}
  Proc = {p1, p2}
  Ops = {"login", "refresh", "logout", "force", "remove", "disable"}
  CanLapse = {}
  CanExpire = {}
  Faults = TRUE
  AnyTenant = AnyTenant
  None = None
SPECIFICATION Spec
INVARIANTS PublishedAfterCommit PairsAreAtomic LogoutEndsToken RemovalEndsSession WithdrawnLeavesNothing
PROPERTY RefreshKeepsSession
SYMMETRY Interchangeable
