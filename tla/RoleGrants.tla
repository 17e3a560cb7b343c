----------------------------- MODULE RoleGrants -----------------------------
(***************************************************************************)
(* Roles of internal/system/directory: which menus a role grants, which    *)
(* users hold it, and the tenant package that limits the menus             *)
(* (access.go, mysql_access.go, tenant.go, mysql_tenant.go).               *)
(*                                                                         *)
(* A request first validates by plain SELECTs, then runs one transaction:  *)
(* it locks the tenant row or role rows (SELECT ... FOR UPDATE, UPDATE),   *)
(* one row at a step, and its writes become visible when it commits.       *)
(* Requests interleave between any two of these steps.                     *)
(***************************************************************************)
EXTENDS Naturals, FiniteSets

CONSTANTS
  Tenant,
  Package,
  System,       \* packageIDSystem: the package of the system tenant
  Menu,
  Role,         \* role ids
  User,
  TenantOf,     \* the tenant of each role
  HomeOf,       \* the tenant of each user
  AdminOf,      \* the role tenant_admin of each tenant
  OwnerOf,      \* the first account of each tenant
  Founding,     \* tenants that exist at first, and their package
  Contents,     \* the menus of each package at first
  Edits,        \* the sets of menus each package may be given
  Proc,         \* requests that may be in flight at the same time
  Saver,        \* the ones of them that may save a tenant
  Ops,          \* the operations the requests perform
  None

Locking == {"menus", "roles", "delete", "save"}

ASSUME ConstantsAssumption ==
  /\ Role \subseteq Nat
  /\ TenantOf \in [Role -> Tenant]
  /\ HomeOf \in [User -> Tenant]
  /\ AdminOf \in [Tenant -> Role]
  /\ \A t \in Tenant : TenantOf[AdminOf[t]] = t
  /\ OwnerOf \in [Tenant -> User]
  /\ DOMAIN Founding \subseteq Tenant
  /\ Founding \in [DOMAIN Founding -> Package \union {System}]
  /\ Edits \in [Package -> SUBSET SUBSET Menu]
  /\ Contents \in [Package -> SUBSET Menu]
  /\ \A k \in Package : Contents[k] \in Edits[k]
  /\ IsFiniteSet(Proc)
  /\ Saver \subseteq Proc
  /\ System \notin Package
  /\ None \notin Tenant \union Package \union User \union Role
  /\ Tenant \intersect Role = {}

VARIABLES
  tenant,      \* rows of system_tenant
  packageOf,   \* their column package_id
  packages,    \* rows of system_tenant_package that are not deleted
  content,     \* their column menu_ids
  menus,       \* rows of system_menu that are not deleted
  role,        \* rows of system_role
  users,       \* rows of system_users that are not deleted
  roleMenu,    \* rows of system_role_menu, by role
  userRole,    \* rows of system_user_role, by user
  req          \* progress, local variables and row locks of the requests

catalog == <<packages, content, menus>>
people  == <<users, userRole>>
rows    == <<tenant, packageOf, catalog, role, people, roleMenu>>
vars    == <<tenant, packageOf, packages, content, menus, role, users,
             roleMenu, userRole, req>>

Row == {"none", "live", "deleted"}

Request == [pc      : {"idle", "tenant", "package", "roles", "sync", "commit",
                       "drop"},
            op      : Locking \union {"none", "create", "drop"},
            tenant  : Tenant \union {None},
            package : Package \union {System, None},
            user    : User \union {None},
            roles   : SUBSET Role,             \* the roles it is about
            menus   : SUBSET Menu,             \* to grant, or of the package
            sync    : BOOLEAN,                 \* the package is another one
            todo    : SUBSET Role,             \* role rows still to lock
            held    : SUBSET (Tenant \union Role),  \* row locks
            plan    : [Role -> SUBSET Menu]]   \* what a sync gives the roles

Idle == [pc |-> "idle", op |-> "none", tenant |-> None, package |-> None,
         user |-> None, roles |-> {}, menus |-> {}, sync |-> FALSE,
         todo |-> {}, held |-> {}, plan |-> [r \in Role |-> {}]]

TypeOK ==
  /\ tenant \in [Tenant -> Row]
  /\ packageOf \in [Tenant -> Package \union {System, None}]
  /\ packages \subseteq Package
  /\ content \in [Package -> SUBSET Menu]
  /\ menus \subseteq Menu
  /\ role \in [Role -> Row]
  /\ users \subseteq User
  /\ roleMenu \in [Role -> SUBSET Menu]
  /\ userRole \in [User -> SUBSET Role]
  /\ req \in [Proc -> Request]

\* CreateTenant has left the founding tenants with their administrator's role.
Init ==
  /\ tenant = [t \in Tenant |-> IF t \in DOMAIN Founding THEN "live" ELSE "none"]
  /\ packageOf = [t \in Tenant |-> IF t \in DOMAIN Founding THEN Founding[t]
                                                           ELSE None]
  /\ packages = Package
  /\ content = Contents
  /\ menus = Menu
  /\ role = [r \in Role |-> IF \E t \in DOMAIN Founding : r = AdminOf[t]
                            THEN "live" ELSE "none"]
  /\ users = {u \in User : HomeOf[u] \in DOMAIN Founding}
  /\ roleMenu = [r \in Role |->
       {m \in Menu : \E t \in DOMAIN Founding :
          r = AdminOf[t] /\ Founding[t] \in Package /\ m \in Contents[Founding[t]]}]
  /\ userRole = [u \in User |-> {}]
  /\ req = [p \in Proc |-> Idle]

-----------------------------------------------------------------------------
(* Helpers.                                                                *)

At(p, pc) == req[p].pc = pc

Step(p, r) == req' = [req EXCEPT ![p] = r]

\* The reply; the transaction is over and its locks are released.
Finish(p) == Step(p, Idle)

Start(p, op, r) == /\ At(p, "idle")
                   /\ op \in Ops
                   /\ Step(p, r)
                   /\ UNCHANGED rows

Free(x) == \A q \in Proc : x \notin req[q].held

Admins == {AdminOf[t] : t \in Tenant}

\* The menus tenant t may grant now.
Allowed(t) == IF packageOf[t] = System THEN menus ELSE content[packageOf[t]]

LiveRolesOf(t) == {r \in Role : TenantOf[r] = t /\ role[r] = "live"}

Lowest(R) == CHOOSE r \in R : \A s \in R : r <= s

\* Mutant: ReplaceUserRoles locks the roles in another order.
NextRoleUnsorted(p) ==
  IF req[p].op = "roles"
  THEN CHOOSE r \in req[p].todo : \A s \in req[p].todo : r >= s
  ELSE Lowest(req[p].todo)

\* The row with the lowest id is locked next (ORDER BY id, sort.Slice).
NextRole(p) == Lowest(req[p].todo)

-----------------------------------------------------------------------------
(* The validations of the service, before the transaction.                 *)

\* AssignRoleMenus drops the menus outside of the package it reads here.
StartAssignMenus(p, r, M) ==
  LET t == TenantOf[r]
  IN  /\ role[r] = "live"
      /\ tenant[t] = "live"
      /\ packageOf[t] \in packages \union {System}
      /\ Start(p, "menus", [Idle EXCEPT !.pc = "tenant", !.op = "menus",
                              !.tenant = t, !.roles = {r},
                              !.menus = M \intersect Allowed(t)])

StartAssignRoles(p, u, R) ==
  /\ u \in users
  /\ R \subseteq LiveRolesOf(HomeOf[u])
  /\ Start(p, "roles", [Idle EXCEPT !.pc = IF R = {} THEN "commit" ELSE "roles",
                          !.op = "roles", !.user = u, !.roles = R, !.todo = R])

\* DeleteRole and DeleteRoleList; built-in roles are refused.
StartDelete(p, t, R) ==
  /\ R # {}
  /\ R \subseteq LiveRolesOf(t) \ Admins
  /\ Start(p, "delete", [Idle EXCEPT !.pc = "roles", !.op = "delete",
                           !.roles = R, !.todo = R])

\* SaveTenant with a known id reads the tenant and the menus of the package.
StartSave(p, t, k) ==
  /\ p \in Saver
  /\ tenant[t] = "live"
  /\ packageOf[t] # System
  /\ k \in packages
  /\ Start(p, "save", [Idle EXCEPT !.pc = "tenant", !.op = "save",
                         !.tenant = t, !.package = k, !.menus = content[k],
                         !.sync = packageOf[t] # k])

\* SaveTenant with a new tenant.
StartCreate(p, t, k) ==
  /\ tenant[t] = "none"
  /\ \A q \in Proc : req[q].op = "create" => req[q].tenant # t
  /\ k \in packages
  /\ Start(p, "create", [Idle EXCEPT !.pc = "commit", !.op = "create",
                           !.tenant = t, !.package = k, !.menus = content[k]])

\* DeletePackage counts the tenants that use the package ...
StartDrop(p, k) ==
  /\ k \in packages
  /\ \A t \in Tenant : tenant[t] = "live" => packageOf[t] # k
  /\ Start(p, "drop", [Idle EXCEPT !.pc = "drop", !.op = "drop", !.package = k])

-----------------------------------------------------------------------------
(* The transactions: locks, and what is read under them.                   *)

\* ReplaceRoleMenus: SELECT package_id ... FOR UPDATE.
LockTenant(p) ==
  LET t == req[p].tenant
  IN  /\ At(p, "tenant") /\ req[p].op = "menus"
      /\ Free(t)
      /\ tenant[t] = "live"
      /\ Step(p, [req[p] EXCEPT !.pc = "package", !.held = {t},
                                !.package = packageOf[t]])
      /\ UNCHANGED rows

TenantGone(p) ==
  /\ At(p, "tenant") /\ req[p].op = "menus"
  /\ Free(req[p].tenant)
  /\ tenant[req[p].tenant] # "live"
  /\ Finish(p)
  /\ UNCHANGED rows

\* Mutant: the menus the service has let through are not filtered again.
KeepFiltered(p) ==
  /\ At(p, "package")
  /\ Step(p, [req[p] EXCEPT !.pc = "roles", !.todo = req[p].roles])
  /\ UNCHANGED rows

\* The menus of the package, or for the system tenant all menus, are read again.
ReadPackage(p) ==
  LET k == req[p].package
      allowed == IF k = System THEN menus ELSE content[k]
  IN  /\ At(p, "package")
      /\ k \in packages \union {System}
      /\ Step(p, [req[p] EXCEPT !.pc = "roles", !.todo = req[p].roles,
                                !.menus = @ \intersect allowed])
      /\ UNCHANGED rows

PackageGone(p) ==
  /\ At(p, "package")
  /\ req[p].package \notin packages \union {System}
  /\ Finish(p)
  /\ UNCHANGED rows

\* UpdateTenant: UPDATE system_tenant, then the roles if the package changes. (A
\* role created before they are all locked has no menu yet, and can get none.)
UpdateTenant(p) ==
  LET t == req[p].tenant
  IN  /\ At(p, "tenant") /\ req[p].op = "save"
      /\ Free(t)
      /\ Step(p, [req[p] EXCEPT
           !.pc = CASE ~req[p].sync                          -> "commit"
                    [] req[p].sync /\ LiveRolesOf(t) = {}    -> "sync"
                    [] req[p].sync /\ LiveRolesOf(t) # {}    -> "roles",
           !.todo = IF req[p].sync THEN LiveRolesOf(t) ELSE {},
           !.held = {t}])
      /\ UNCHANGED rows

AfterLocks(p) == IF req[p].op = "save" THEN "sync" ELSE "commit"

\* Mutant: the role is taken as the service has seen it.
LockRoleUnseen(p) ==
  LET r == NextRole(p)
      rest == req[p].todo \ {r}
  IN  /\ At(p, "roles") /\ req[p].todo # {}
      /\ Free(r)
      /\ Step(p, [req[p] EXCEPT !.todo = rest, !.held = @ \union {r},
                    !.pc = IF rest = {} THEN AfterLocks(p) ELSE "roles"])
      /\ UNCHANGED rows

\* SELECT ... WHERE deleted=0 FOR UPDATE sees the role as last committed.
LockRole(p) ==
  LET r == NextRole(p)
      rest == req[p].todo \ {r}
  IN  /\ At(p, "roles") /\ req[p].todo # {}
      /\ Free(r)
      /\ role[r] = "live"
      /\ Step(p, [req[p] EXCEPT !.todo = rest, !.held = @ \union {r},
                    !.pc = IF rest = {} THEN AfterLocks(p) ELSE "roles"])
      /\ UNCHANGED rows

\* A deleted role is an error, and a row less for syncTenantMenus.
RoleGone(p) ==
  LET r == NextRole(p)
      rest == req[p].todo \ {r}
  IN  /\ At(p, "roles") /\ req[p].todo # {}
      /\ Free(r)
      /\ role[r] # "live"
      /\ IF req[p].op = "save"
         THEN Step(p, [req[p] EXCEPT !.todo = rest,
                         !.pc = IF rest = {} THEN "sync" ELSE "roles"])
         ELSE Finish(p)
      /\ UNCHANGED rows

\* syncTenantMenus: the administrator gets the menus of the package; the other
\* roles are read and lose what is outside of it.
Sync(p) ==
  LET locked == req[p].held \intersect Role
      plan == [r \in Role |-> IF r \in Admins THEN req[p].menus
                              ELSE roleMenu[r] \intersect req[p].menus]
  IN  /\ At(p, "sync")
      /\ Step(p, [req[p] EXCEPT !.pc = "commit", !.plan = plan,
           !.roles = {r \in locked : r \in Admins \/ plan[r] # roleMenu[r]}])
      /\ UNCHANGED rows

-----------------------------------------------------------------------------
(* COMMIT makes the writes of the transaction visible.                     *)

CommitMenus(p) ==
  /\ At(p, "commit") /\ req[p].op = "menus"
  /\ roleMenu' = [r \in Role |-> IF r \in req[p].roles THEN req[p].menus
                                                       ELSE roleMenu[r]]
  /\ Finish(p)
  /\ UNCHANGED <<tenant, packageOf, catalog, role, people>>

CommitRoles(p) ==
  /\ At(p, "commit") /\ req[p].op = "roles"
  /\ userRole' = [userRole EXCEPT ![req[p].user] = req[p].roles]
  /\ Finish(p)
  /\ UNCHANGED <<tenant, packageOf, catalog, role, users, roleMenu>>

CommitDelete(p) ==
  /\ At(p, "commit") /\ req[p].op = "delete"
  /\ role' = [r \in Role |-> IF r \in req[p].roles THEN "deleted" ELSE role[r]]
  /\ roleMenu' = [r \in Role |-> IF r \in req[p].roles THEN {} ELSE roleMenu[r]]
  /\ userRole' = [u \in User |-> userRole[u] \ req[p].roles]
  /\ Finish(p)
  /\ UNCHANGED <<tenant, packageOf, catalog, users>>

\* UPDATE system_tenant ... WHERE deleted=0 has hit the tenant or no row.
CommitSave(p) ==
  LET t == req[p].tenant
  IN  /\ At(p, "commit") /\ req[p].op = "save"
      /\ packageOf' = [packageOf EXCEPT ![t] = IF tenant[t] = "live"
                                               THEN req[p].package ELSE @]
      /\ roleMenu' = [r \in Role |-> IF r \in req[p].roles THEN req[p].plan[r]
                                                           ELSE roleMenu[r]]
      /\ Finish(p)
      /\ UNCHANGED <<tenant, catalog, role, people>>

CommitCreate(p) ==
  LET t == req[p].tenant
  IN  /\ At(p, "commit") /\ req[p].op = "create"
      /\ tenant' = [tenant EXCEPT ![t] = "live"]
      /\ packageOf' = [packageOf EXCEPT ![t] = req[p].package]
      /\ role' = [role EXCEPT ![AdminOf[t]] = "live"]
      /\ roleMenu' = [roleMenu EXCEPT ![AdminOf[t]] = req[p].menus]
      /\ users' = users \union {OwnerOf[t]}
      /\ userRole' = [userRole EXCEPT ![OwnerOf[t]] = {AdminOf[t]}]
      /\ Finish(p)
      /\ UNCHANGED catalog

\* ... and then deletes the package, whatever happened in between.
DropPackage(p) ==
  /\ At(p, "drop")
  /\ packages' = packages \ {req[p].package}
  /\ Finish(p)
  /\ UNCHANGED <<tenant, packageOf, content, menus, role, people, roleMenu>>

\* An error, a lost connection or a deadlock: the transaction is rolled back.
Abort(p) ==
  /\ ~At(p, "idle")
  /\ Finish(p)
  /\ UNCHANGED rows

-----------------------------------------------------------------------------
(* Operations of a single statement, or of a transaction without row locks *)
(* that another one waits for.                                             *)

\* SaveRole with a new role.
CreateRole(r) ==
  /\ role[r] = "none" /\ r \notin Admins
  /\ tenant[TenantOf[r]] = "live"
  /\ role' = [role EXCEPT ![r] = "live"]
  /\ UNCHANGED <<tenant, packageOf, catalog, people, roleMenu, req>>

DeleteTenant(t) ==
  /\ "deleteTenant" \in Ops
  /\ tenant[t] = "live" /\ packageOf[t] # System
  /\ Free(t)
  /\ tenant' = [tenant EXCEPT ![t] = "deleted"]
  /\ UNCHANGED <<packageOf, catalog, role, people, roleMenu, req>>

\* SavePackage: the roles of the tenants that use the package are not touched.
SavePackage(k, M) ==
  /\ "savePackage" \in Ops
  /\ k \in packages
  /\ content[k] # M
  /\ content' = [content EXCEPT ![k] = M]
  /\ UNCHANGED <<tenant, packageOf, packages, menus, role, people, roleMenu, req>>

\* deleteMenuIDs.
DeleteMenu(m) ==
  /\ "deleteMenu" \in Ops
  /\ m \in menus
  /\ menus' = menus \ {m}
  /\ roleMenu' = [r \in Role |-> roleMenu[r] \ {m}]
  /\ UNCHANGED <<tenant, packageOf, packages, content, role, people, req>>

\* deleteUsers.
DeleteUser(u) ==
  /\ "deleteUser" \in Ops
  /\ u \in users
  /\ users' = users \ {u}
  /\ userRole' = [userRole EXCEPT ![u] = {}]
  /\ UNCHANGED <<tenant, packageOf, catalog, role, roleMenu, req>>

-----------------------------------------------------------------------------

Begin(p) ==
  \/ \E r \in Role, M \in SUBSET Menu : StartAssignMenus(p, r, M)
  \/ \E u \in User, R \in SUBSET Role : StartAssignRoles(p, u, R)
  \/ \E t \in Tenant, R \in SUBSET Role : StartDelete(p, t, R)
  \/ \E t \in Tenant, k \in Package : StartSave(p, t, k) \/ StartCreate(p, t, k)
  \/ \E k \in Package : StartDrop(p, k)

\* The steps a request in flight takes by itself.
Progress(p) ==
  \/ LockTenant(p) \/ TenantGone(p) \/ ReadPackage(p) \/ PackageGone(p)
  \/ UpdateTenant(p) \/ LockRole(p) \/ RoleGone(p) \/ Sync(p)
  \/ CommitMenus(p) \/ CommitRoles(p) \/ CommitDelete(p) \/ CommitSave(p)
  \/ CommitCreate(p) \/ DropPackage(p)

Others ==
  \/ \E r \in Role : CreateRole(r)
  \/ \E t \in Tenant : DeleteTenant(t)
  \/ \E k \in Package : \E M \in Edits[k] : SavePackage(k, M)
  \/ \E m \in Menu : DeleteMenu(m)
  \/ \E u \in User : DeleteUser(u)

Next == (\E p \in Proc : Begin(p) \/ Progress(p) \/ Abort(p)) \/ Others

Spec == Init /\ [][Next]_vars

-----------------------------------------------------------------------------
(* Properties.                                                             *)

\* DeleteRole and the two grants share the lock of the role row: a grant that
\* was validated before the deletion cannot leave rows of a deleted role.
DeletedRoleHasNoGrants ==
  \A r \in Role : role[r] # "live" =>
    roleMenu[r] = {} /\ \A u \in User : r \notin userRole[u]

\* ReplaceRoleMenus and syncTenantMenus: after a tenant has changed its
\* package no role, old or new, grants a menu the package has never offered,
\* although grants are validated before the change. (SavePackage does not take
\* menus away from the roles, hence "never".)
GrantsWithinPackage ==
  \A r \in Role :
    LET t == TenantOf[r]
    IN  tenant[t] = "live" /\ packageOf[t] \in Package =>
          roleMenu[r] \subseteq UNION Edits[packageOf[t]]

\* The row p waits for; None if it waits for none.
Wanted(p) == CASE At(p, "tenant") -> req[p].tenant
               [] At(p, "roles")  -> NextRole(p)
               [] OTHER           -> None

\* Row locks are taken in one order, the tenant first and the roles by id, so
\* no requests wait for one another in a circle.
NoCircularWait ==
  \A S \in SUBSET Proc : S # {} =>
    \E p \in S : \A q \in S : Wanted(p) \notin req[q].held

-----------------------------------------------------------------------------
(* The inductive invariants behind the properties above.                   *)

\* The menus package k has offered at some time, or will.
Offered(k) == UNION Edits[k]

\* Which operation can be at which step, and with which arguments.
StepOK(q) ==
  /\ q.pc = "tenant" => q.op \in {"menus", "save"}
  /\ q.pc = "package" => q.op = "menus"
  /\ q.pc = "roles" => q.op \in Locking /\ q.todo # {}
  /\ q.pc = "sync" => q.op = "save"
  /\ q.op = "drop" <=> q.pc = "drop"
  /\ q.op = "create" => q.pc = "commit"
  /\ q.op = "none" <=> q.pc = "idle"
  /\ q.op \in {"menus", "save", "create"} => q.tenant \in Tenant
  /\ q.op \in {"save", "create"} => q.package \in Package
  /\ q.op = "roles" => q.user \in User
  /\ q.op = "menus" => q.roles # {}

\* The locks a request has, in their order, and the roles it may write.
LocksOK(q) ==
  /\ q.pc \in {"idle", "tenant", "drop"} \/ q.op = "create" => q.held = {}
  /\ q.op \in {"menus", "save"} /\ q.pc \in {"package", "roles", "sync", "commit"}
       => q.tenant \in q.held
  /\ q.pc = "package" => q.held \subseteq Tenant
  /\ \A r \in q.held \intersect Role : role[r] = "live"
  /\ q.pc = "roles" => \A r \in q.held \intersect Role, s \in q.todo : r < s
  /\ q.op \in {"menus", "roles", "delete"} /\ q.pc = "roles" =>
       q.roles \subseteq q.held \union q.todo
  /\ q.op \in {"menus", "roles", "delete", "save"} /\ q.pc = "commit" =>
       q.roles \subseteq q.held
  /\ q.op = "save" /\ q.pc # "commit" => q.roles = {}

LocksExclusive ==
  \A p, q \in Proc : p # q => req[p].held \intersect req[q].held = {}

LockInv ==
  /\ TypeOK
  /\ \A p \in Proc : StepOK(req[p]) /\ LocksOK(req[p])
  /\ LocksExclusive
  /\ DeletedRoleHasNoGrants

\* What a grant of menus knows of the package, from its read to its commit.
GrantOK(q) ==
  q.op = "menus" =>
    /\ tenant[q.tenant] # "none"
    /\ \A r \in q.roles : TenantOf[r] = q.tenant
    /\ q.pc \in {"package", "roles", "commit"} => packageOf[q.tenant] = q.package
    /\ q.pc \in {"roles", "commit"} /\ q.package \in Package =>
         q.menus \subseteq Offered(q.package)

\* What the change of a package knows of the roles it has to bring in line.
SaveOK(p) ==
  LET q == req[p]
      mine == {r \in Role : TenantOf[r] = q.tenant}
  IN  q.op = "save" =>
    /\ p \in Saver
    /\ tenant[q.tenant] # "none"
    /\ q.menus \subseteq Offered(q.package)
    /\ (q.held \intersect Role) \union q.todo \subseteq mine
    /\ ~q.sync => packageOf[q.tenant] = q.package /\ q.roles = {}
    /\ q.pc \in {"roles", "sync"} => q.sync
    /\ q.sync /\ q.pc \in {"roles", "sync", "commit"} => \A r \in mine :
         roleMenu[r] = {} \/ r \in q.held \/ (q.pc = "roles" /\ r \in q.todo)
    /\ q.sync /\ q.pc = "commit" => \A r \in q.held \intersect Role :
         IF r \in q.roles THEN q.plan[r] \subseteq q.menus
                          ELSE roleMenu[r] \subseteq q.menus

CreateOK(q) ==
  q.op = "create" => /\ tenant[q.tenant] = "none"
                     /\ q.menus \subseteq Offered(q.package)

CreatesDistinct ==
  \A p, q \in Proc : p # q /\ req[p].op = "create" /\ req[q].op = "create" =>
    req[p].tenant # req[q].tenant

\* Roles come after their tenant, and contents from the allowed edits.
CatalogOK ==
  /\ \A r \in Role : tenant[TenantOf[r]] = "none" => role[r] = "none"
  /\ \A k \in Package : content[k] \in Edits[k]

PackageInv ==
  /\ \A p \in Proc : GrantOK(req[p]) /\ SaveOK(p) /\ CreateOK(req[p])
  /\ CreatesDistinct
  /\ CatalogOK
  /\ GrantsWithinPackage

IInv == LockInv /\ PackageInv
=============================================================================
