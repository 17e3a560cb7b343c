CONSTANTS
  u1 = u1
  t1 = t1
  t2 = t2
  User = {u1, u2}
  Member = {u2}
  Tenant = {t1, t2}
  TenantOf <- TwoTenants
  Client = client
  Access = {a1, a2, a3}
  Refresh = {r1, r2}
  Proc = {p1}
  Ops = {"create", "refresh", "logout", "remove", "byUser", "disable"}
  CanLapse = {}
  CanExpire = {r1}
  Faults = TRUE
  AnyTenant = AnyTenant
  None = None
SPECIFICATION Spec
INVARIANTS OneAccessPerRefresh SessionOver ScopedToTenant
SYMMETRY Interchangeable
