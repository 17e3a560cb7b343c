CONSTANTS
  t1 = t1
  k1 = k1
  k2 = k2
  m1 = m1
  u1 = u1
  Tenant = {t1}
  Package = {k1, k2}
  System = System
  Menu = {m1}
  Role = {1, 2}
  User = {u1}
  TenantOf <- AllOfT1
  HomeOf <- HomeT1
  AdminOf <- FirstRole
  OwnerOf <- FirstUser
  Founding <- NoTenant
  Contents <- K1Richer
  Edits <- K1Shrinks
  Proc = {p1, p2}
  Saver = {p1}
  Ops = {"menus", "roles", "delete", "save", "create", "drop", "deleteTenant", "savePackage", "deleteMenu", "deleteUser"}
  None = None
SPECIFICATION Spec
INVARIANTS DeletedRoleHasNoGrants GrantsWithinPackage NoCircularWait
CHECK_DEADLOCK FALSE
