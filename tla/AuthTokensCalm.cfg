CONSTANTS
  u1 = u1
  t1 = t1
  t2 = t2
  User = {u1}
  Member = {}
  Tenant = {t1}
  TenantOf <- OneTenant
  Client = client
  Access = {a1, a2}
  Refresh = {r1, r2}
  Proc = {p1}
  Ops = {"login", "create", "refresh", "logout", "force", "remove", "byUser", "disable"}
  CanLapse = {t1, client}
  CanExpire = {a1, r1}
  Faults = FALSE
  AnyTenant = AnyTenant
  None = None
SPECIFICATION FairSpec
INVARIANTS CacheCoherent
PROPERTY RequestsFinish
