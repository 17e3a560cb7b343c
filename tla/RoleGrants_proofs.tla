-------------------------- MODULE RoleGrants_proofs --------------------------
(***************************************************************************)
(* For any number of requests, tenants, packages, roles, menus and users:  *)
(* row locks are exclusive and cannot deadlock, grants never come back for *)
(* a deleted role, and, as long as one request at a time saves tenants, no *)
(* role grants a menu that the package of its tenant has never offered.    *)
(***************************************************************************)
EXTENDS RoleGrants, FiniteSetTheorems, TLAPS

\* ORDER BY id has a first row: otherwise every lower bound n of the ids would
\* give another one, n + 1, and the finite set of the lower bounds would be as
\* large as the set of them without 0.
LEMMA LowestFact ==
  ASSUME NEW R \in SUBSET Role, R # {}
  PROVE  Lowest(R) \in R /\ \A s \in R : Lowest(R) <= s
<1> DEFINE L == {n \in Nat : \A s \in R : n <= s}
           up == [n \in L |-> n + 1]
<1>1. R \subseteq Nat
  BY ConstantsAssumption
<1>2. \E n \in L : n + 1 \notin L
  <2>1. SUFFICES ASSUME \A n \in L : n + 1 \in L PROVE FALSE
    OBVIOUS
  <2>2. IsFiniteSet(L)
    <3>1. PICK x \in R : TRUE
      OBVIOUS
    <3>2. L \subseteq 0..x /\ x \in Int /\ 0 \in Int
      BY <1>1, <3>1
    <3>. QED  BY <3>2, FS_Interval, FS_Subset
  <2>3. 0 \in L
    BY <1>1
  <2>4. /\ IsFiniteSet(L \ {0})
        /\ Cardinality(L \ {0}) < Cardinality(L)
    <3>1. /\ IsFiniteSet(L \ {0})
          /\ Cardinality(L \ {0}) = Cardinality(L) - 1
      BY <2>2, <2>3, FS_RemoveElement, Zenon
    <3>2. Cardinality(L) \in Nat
      BY <2>2, FS_CardinalityType
    <3>. HIDE DEF L
    <3>. QED  BY <3>1, <3>2
  <2>5. up \in [L -> L \ {0}]
    BY <2>1
  <2>6. \E m, n \in L : m # n /\ up[m] = up[n]
    <3>. HIDE DEF L, up
    <3>. QED  BY <2>2, <2>4, <2>5, FS_PigeonHole
  <2>. QED  BY <2>6
<1>3. \E n \in R : \A s \in R : n <= s
  BY <1>1, <1>2
<1>. QED  BY <1>3 DEF Lowest

LEMMA NextRoleFact ==
  ASSUME NEW p, req[p].todo \in SUBSET Role, req[p].todo # {}
  PROVE  /\ NextRole(p) \in req[p].todo
         /\ \A s \in req[p].todo : NextRole(p) <= s
BY LowestFact DEF NextRole

LEMMA IdleFacts ==
  /\ Idle \in Request
  /\ Idle.pc = "idle" /\ Idle.op = "none" /\ Idle.held = {} /\ Idle.roles = {}
  /\ Idle.todo = {}
BY DEF Idle, Request, Locking

LEMMA IdleOK == StepOK(Idle) /\ LocksOK(Idle)
<1>1. StepOK(Idle)
  BY IdleFacts DEF StepOK
<1>2. LocksOK(Idle)
  BY IdleFacts DEF LocksOK
<1>. QED  BY <1>1, <1>2

-----------------------------------------------------------------------------
(* The row locks.                                                          *)

LEMMA InitLockInv == Init => LockInv
<1> SUFFICES ASSUME Init PROVE LockInv
  OBVIOUS
<1>1. TypeOK
  <2>1. /\ tenant \in [Tenant -> Row] /\ role \in [Role -> Row]
        /\ packages \subseteq Package /\ menus \subseteq Menu
        /\ users \subseteq User
    BY DEF Init, Row
  <2>2. packageOf \in [Tenant -> Package \union {System, None}]
    BY ConstantsAssumption DEF Init
  <2>3. content \in [Package -> SUBSET Menu]
    BY ConstantsAssumption DEF Init
  <2>4. roleMenu \in [Role -> SUBSET Menu] /\ userRole \in [User -> SUBSET Role]
    BY DEF Init
  <2>5. req \in [Proc -> Request]
    BY IdleFacts DEF Init
  <2>. QED  BY <2>1, <2>2, <2>3, <2>4, <2>5 DEF TypeOK
<1>2. \A p \in Proc : StepOK(req[p]) /\ LocksOK(req[p])
  BY IdleOK DEF Init
<1>3. LocksExclusive
  BY IdleFacts DEF Init, LocksExclusive
<1>4. DeletedRoleHasNoGrants
  BY DEF Init, DeletedRoleHasNoGrants
<1>. QED  BY <1>1, <1>2, <1>3, <1>4 DEF LockInv

\* A step by which a request only changes its own progress and locks.
LEMMA OwnStep ==
  ASSUME LockInv, NEW p \in Proc, NEW r \in Request, Step(p, r),
         StepOK(r), LocksOK(r),
         \A q \in Proc \ {p} : r.held \intersect req[q].held = {},
         UNCHANGED rows
  PROVE  LockInv'
<1>1. TypeOK'
  BY DEF LockInv, TypeOK, Step, rows, catalog, people
<1>2. \A q \in Proc : req'[q] = IF q = p THEN r ELSE req[q]
  BY DEF LockInv, TypeOK, Step
<1>3. \A q \in Proc : StepOK(req[q])' /\ LocksOK(req[q])'
  <2>1. role' = role
    BY DEF rows
  <2>2. \A q \in Proc : StepOK(req[q]) /\ LocksOK(req[q])
    BY DEF LockInv
  <2>. QED  BY <1>2, <2>1, <2>2 DEF StepOK, LocksOK
<1>4. LocksExclusive'
  BY <1>2 DEF LockInv, LocksExclusive
<1>5. DeletedRoleHasNoGrants'
  BY DEF LockInv, DeletedRoleHasNoGrants, rows, people
<1>. QED  BY <1>1, <1>3, <1>4, <1>5 DEF LockInv

\* The end of a transaction that leaves the roles locked by others alive.
LEMMA EndStep ==
  ASSUME LockInv, NEW p \in Proc, Finish(p), TypeOK',
         \A q \in Proc \ {p}, r \in Role : r \in req[q].held => role'[r] = "live",
         DeletedRoleHasNoGrants'
  PROVE  LockInv'
<1>1. \A q \in Proc : req'[q] = IF q = p THEN Idle ELSE req[q]
  BY DEF LockInv, TypeOK, Finish, Step
<1>2. \A q \in Proc : StepOK(req[q])' /\ LocksOK(req[q])'
  <2>1. SUFFICES ASSUME NEW q \in Proc PROVE StepOK(req[q])' /\ LocksOK(req[q])'
    OBVIOUS
  <2>2. CASE q = p
    BY <1>1, <2>2, IdleFacts DEF StepOK, LocksOK
  <2>3. CASE q # p
    <3>1. req'[q] = req[q] /\ StepOK(req[q]) /\ LocksOK(req[q])
      BY <1>1, <2>3 DEF LockInv
    <3>2. \A r \in Role : r \in req[q].held => role'[r] = "live"
      BY <2>3
    <3>. QED  BY <3>1, <3>2 DEF StepOK, LocksOK
  <2>. QED  BY <2>2, <2>3
<1>3. LocksExclusive'
  BY <1>1, IdleFacts DEF LockInv, LocksExclusive
<1>. QED  BY <1>2, <1>3 DEF LockInv

\* A statement outside of the requests that leaves the live roles alive.
LEMMA OtherStep ==
  ASSUME LockInv, req' = req, TypeOK',
         \A r \in Role : role[r] = "live" => role'[r] = "live",
         DeletedRoleHasNoGrants'
  PROVE  LockInv'
<1>1. \A q \in Proc : StepOK(req[q])' /\ LocksOK(req[q])'
  <2>1. SUFFICES ASSUME NEW q \in Proc PROVE StepOK(req[q])' /\ LocksOK(req[q])'
    OBVIOUS
  <2>2. StepOK(req[q]) /\ LocksOK(req[q])
    BY DEF LockInv
  <2>. QED  BY <2>2 DEF StepOK, LocksOK
<1>2. LocksExclusive'
  BY DEF LockInv, LocksExclusive
<1>. QED  BY <1>1, <1>2 DEF LockInv

LEMMA FinishOnly ==
  ASSUME LockInv, NEW p \in Proc, Finish(p), UNCHANGED rows
  PROVE  LockInv'
<1>1. \A q \in Proc \ {p} : Idle.held \intersect req[q].held = {}
  BY IdleFacts
<1>. QED  BY <1>1, IdleFacts, IdleOK, OwnStep DEF Finish

\* What a request in flight has, by its step and operation.
LEMMA RequestFacts ==
  ASSUME LockInv, NEW p \in Proc
  PROVE  /\ req[p] \in Request
         /\ StepOK(req[p]) /\ LocksOK(req[p])
         /\ \A q \in Proc \ {p} : req[p].held \intersect req[q].held = {}
BY DEF LockInv, TypeOK, LocksExclusive

\* Validation: the request has no locks yet.
LEMMA StartStep ==
  ASSUME LockInv, NEW p \in Proc, NEW r \in Request, Step(p, r), UNCHANGED rows,
         StepOK(r), r.held = {}, r.pc \in {"tenant", "roles", "drop"} \/ r.op = "create"
                                 \/ r.roles = {},
         r.op \in {"menus", "roles", "delete"} /\ r.pc = "roles" => r.roles = r.todo,
         r.op \in {"menus", "save"} => r.pc = "tenant",
         r.op = "save" => r.roles = {}
  PROVE  LockInv'
<1>1. LocksOK(r)
  BY DEF StepOK, LocksOK
<1>. QED  BY <1>1, OwnStep

LEMMA BeginStep ==
  ASSUME LockInv, NEW p \in Proc, Begin(p)
  PROVE  LockInv'
<1>. USE DEF Start
<1>1. ASSUME NEW r \in Role, NEW M \in SUBSET Menu, StartAssignMenus(p, r, M)
      PROVE  LockInv'
  <2> DEFINE new == [Idle EXCEPT !.pc = "tenant", !.op = "menus",
                      !.tenant = TenantOf[r], !.roles = {r},
                      !.menus = M \intersect Allowed(TenantOf[r])]
  <2>1. TenantOf[r] \in Tenant
    BY ConstantsAssumption
  <2>2. new \in Request /\ StepOK(new) /\ new.held = {} /\ new.pc = "tenant"
        /\ new.op = "menus"
    BY <2>1 DEF Idle, Request, Locking, StepOK
  <2>3. Step(p, new) /\ UNCHANGED rows
    BY <1>1 DEF StartAssignMenus
  <2>. HIDE DEF new
  <2>. QED  BY <2>2, <2>3, StartStep
<1>2. ASSUME NEW u \in User, NEW R \in SUBSET Role, StartAssignRoles(p, u, R)
      PROVE  LockInv'
  <2> DEFINE new == [Idle EXCEPT !.pc = IF R = {} THEN "commit" ELSE "roles",
                      !.op = "roles", !.user = u, !.roles = R, !.todo = R]
  <2>1. new \in Request /\ StepOK(new) /\ new.held = {} /\ new.roles = new.todo
        /\ (new.pc = "roles" \/ new.roles = {}) /\ new.op = "roles"
    BY DEF Idle, Request, Locking, StepOK
  <2>2. Step(p, new) /\ UNCHANGED rows
    BY <1>2 DEF StartAssignRoles
  <2>. HIDE DEF new
  <2>. QED  BY <2>1, <2>2, StartStep
<1>3. ASSUME NEW t \in Tenant, NEW R \in SUBSET Role, StartDelete(p, t, R)
      PROVE  LockInv'
  <2> DEFINE new == [Idle EXCEPT !.pc = "roles", !.op = "delete",
                      !.roles = R, !.todo = R]
  <2>1. R # {}
    BY <1>3 DEF StartDelete
  <2>2. new \in Request /\ StepOK(new) /\ new.held = {} /\ new.roles = new.todo
        /\ new.pc = "roles" /\ new.op = "delete"
    BY <2>1 DEF Idle, Request, Locking, StepOK
  <2>3. Step(p, new) /\ UNCHANGED rows
    BY <1>3 DEF StartDelete
  <2>. HIDE DEF new
  <2>. QED  BY <2>2, <2>3, StartStep
<1>4. ASSUME NEW t \in Tenant, NEW k \in Package, StartSave(p, t, k)
      PROVE  LockInv'
  <2> DEFINE new == [Idle EXCEPT !.pc = "tenant", !.op = "save",
                      !.tenant = t, !.package = k, !.menus = content[k],
                      !.sync = packageOf[t] # k]
  <2>1. content[k] \in SUBSET Menu
    BY DEF LockInv, TypeOK
  <2>2. new \in Request /\ StepOK(new) /\ new.held = {} /\ new.roles = {}
        /\ new.pc = "tenant" /\ new.op = "save"
    BY <2>1 DEF Idle, Request, Locking, StepOK
  <2>3. Step(p, new) /\ UNCHANGED rows
    BY <1>4 DEF StartSave
  <2>. HIDE DEF new
  <2>. QED  BY <2>2, <2>3, StartStep
<1>5. ASSUME NEW t \in Tenant, NEW k \in Package, StartCreate(p, t, k)
      PROVE  LockInv'
  <2> DEFINE new == [Idle EXCEPT !.pc = "commit", !.op = "create",
                      !.tenant = t, !.package = k, !.menus = content[k]]
  <2>1. content[k] \in SUBSET Menu
    BY DEF LockInv, TypeOK
  <2>2. new \in Request /\ StepOK(new) /\ new.held = {} /\ new.op = "create"
    BY <2>1 DEF Idle, Request, Locking, StepOK
  <2>3. Step(p, new) /\ UNCHANGED rows
    BY <1>5 DEF StartCreate
  <2>. HIDE DEF new
  <2>. QED  BY <2>2, <2>3, StartStep
<1>6. ASSUME NEW k \in Package, StartDrop(p, k)
      PROVE  LockInv'
  <2> DEFINE new == [Idle EXCEPT !.pc = "drop", !.op = "drop", !.package = k]
  <2>1. new \in Request /\ StepOK(new) /\ new.held = {} /\ new.pc = "drop"
        /\ new.op = "drop"
    BY DEF Idle, Request, Locking, StepOK
  <2>2. Step(p, new) /\ UNCHANGED rows
    BY <1>6 DEF StartDrop
  <2>. HIDE DEF new
  <2>. QED  BY <2>1, <2>2, StartStep
<1>. QED  BY <1>1, <1>2, <1>3, <1>4, <1>5, <1>6 DEF Begin

\* Progress that writes no row: a lock is taken, something is read.
LEMMA ReadingStep ==
  ASSUME LockInv, NEW p \in Proc,
         \/ LockTenant(p) \/ TenantGone(p) \/ ReadPackage(p) \/ PackageGone(p)
         \/ UpdateTenant(p) \/ LockRole(p) \/ RoleGone(p) \/ Sync(p) \/ Abort(p)
  PROVE  LockInv'
<1>0. /\ req[p] \in Request
      /\ StepOK(req[p]) /\ LocksOK(req[p])
      /\ \A q \in Proc \ {p} : req[p].held \intersect req[q].held = {}
  BY RequestFacts
<1>1. CASE TenantGone(p) \/ PackageGone(p) \/ Abort(p)
  BY <1>1, FinishOnly DEF TenantGone, PackageGone, Abort
<1>2. CASE LockTenant(p)
  <2> DEFINE t == req[p].tenant
             new == [req[p] EXCEPT !.pc = "package", !.held = {t},
                                   !.package = packageOf[t]]
  <2>1. t \in Tenant /\ req[p].op = "menus" /\ Free(t) /\ Step(p, new)
        /\ UNCHANGED rows
    BY <1>0, <1>2 DEF LockTenant, StepOK
  <2>2. packageOf[t] \in Package \union {System, None}
    BY <2>1 DEF LockInv, TypeOK
  <2>3. new \in Request
    BY <1>0, <2>1, <2>2 DEF Request
  <2>4. StepOK(new) /\ new.held = {t}
    BY <1>0, <2>1 DEF Request, StepOK
  <2>5. LocksOK(new)
    BY <1>0, <2>1, ConstantsAssumption DEF Request, LocksOK
  <2>. HIDE DEF new
  <2>. QED  BY <2>1, <2>3, <2>4, <2>5, OwnStep DEF Free
<1>3. CASE ReadPackage(p)
  <2> DEFINE k == req[p].package
             M == IF k = System THEN menus ELSE content[k]
             new == [req[p] EXCEPT !.pc = "roles", !.todo = req[p].roles,
                                   !.menus = @ \intersect M]
  <2>1. At(p, "package") /\ Step(p, new) /\ UNCHANGED rows
    BY <1>3 DEF ReadPackage
  <2>2. new \in Request /\ new.held = req[p].held
    BY <1>0 DEF Request
  <2>3. StepOK(new) /\ LocksOK(new)
    BY <1>0, <2>1, ConstantsAssumption
    DEF Request, StepOK, LocksOK, At, Locking
  <2>. HIDE DEF new
  <2>. QED  BY <1>0, <2>1, <2>2, <2>3, OwnStep
<1>4. CASE UpdateTenant(p)
  <2> DEFINE t == req[p].tenant
             R == LiveRolesOf(t)
             pc == CASE ~req[p].sync                 -> "commit"
                     [] req[p].sync /\ R = {}        -> "sync"
                     [] req[p].sync /\ R # {}        -> "roles"
             todo == IF req[p].sync THEN R ELSE {}
             new == [req[p] EXCEPT !.pc = pc, !.todo = todo, !.held = {t}]
  <2>1. t \in Tenant /\ At(p, "tenant") /\ req[p].op = "save" /\ Free(t)
    BY <1>0, <1>4 DEF UpdateTenant, StepOK
  <2>2. Step(p, new) /\ UNCHANGED rows
    BY <1>4 DEF UpdateTenant
  <2>3. /\ pc \in {"commit", "sync", "roles"}
        /\ pc = "roles" => todo # {}
        /\ todo \in SUBSET Role
    BY <1>0 DEF Request, LiveRolesOf
  <2>. HIDE DEF pc, todo
  <2>4. new \in Request /\ new.held = {t} /\ new.pc = pc /\ new.todo = todo
        /\ new.op = "save" /\ new.tenant = t /\ new.roles = req[p].roles
        /\ new.package = req[p].package
    BY <1>0, <2>1, <2>3 DEF Request
  <2>5. StepOK(new)
    BY <1>0, <2>1, <2>3, <2>4 DEF StepOK, Locking
  <2>6. req[p].roles = {}
    BY <1>0, <2>1 DEF LocksOK, At
  <2>7. LocksOK(new)
    BY <2>1, <2>3, <2>4, <2>6, ConstantsAssumption DEF LocksOK
  <2>. HIDE DEF new
  <2>. QED  BY <2>1, <2>2, <2>4, <2>5, <2>7, OwnStep DEF Free
<1>5. CASE LockRole(p)
  <2> DEFINE r == NextRole(p)
             rest == req[p].todo \ {r}
             pc == IF rest = {} THEN AfterLocks(p) ELSE "roles"
             new == [req[p] EXCEPT !.todo = rest, !.held = @ \union {r}, !.pc = pc]
  <2>1. At(p, "roles") /\ req[p].todo # {} /\ Free(r) /\ role[r] = "live"
        /\ Step(p, new) /\ UNCHANGED rows
    BY <1>5 DEF LockRole
  <2>2. req[p].todo \in SUBSET Role
    BY <1>0 DEF Request
  <2>3. r \in req[p].todo /\ \A s \in req[p].todo : r <= s
    BY <2>1, <2>2, NextRoleFact
  <2>4. /\ pc \in {"commit", "sync", "roles"}
        /\ pc = "roles" => rest # {}
        /\ pc = "commit" => rest = {} /\ req[p].op # "save"
        /\ pc = "sync" => req[p].op = "save"
    BY DEF AfterLocks
  <2>. HIDE DEF r, pc
  <2>5. new \in Request /\ new.held = req[p].held \union {r} /\ new.pc = pc
        /\ new.todo = rest /\ new.op = req[p].op /\ new.tenant = req[p].tenant
        /\ new.roles = req[p].roles /\ new.package = req[p].package
        /\ new.user = req[p].user
    BY <1>0, <2>2, <2>3, <2>4 DEF Request
  <2>6. StepOK(new)
    BY <1>0, <2>1, <2>4, <2>5 DEF StepOK, At
  <2>7. \A s \in rest : r < s
    BY <2>2, <2>3, ConstantsAssumption
  <2>8. LocksOK(new)
    BY <1>0, <2>1, <2>3, <2>4, <2>5, <2>7 DEF LocksOK, StepOK, At, Locking
  <2>. HIDE DEF new
  <2>. QED  BY <1>0, <2>1, <2>5, <2>6, <2>8, OwnStep DEF Free
<1>6. CASE RoleGone(p)
  <2> DEFINE r == NextRole(p)
             rest == req[p].todo \ {r}
             pc == IF rest = {} THEN "sync" ELSE "roles"
             new == [req[p] EXCEPT !.todo = rest, !.pc = pc]
  <2>1. CASE req[p].op = "save"
    <3>1. At(p, "roles") /\ Step(p, new) /\ UNCHANGED rows
      BY <1>6, <2>1 DEF RoleGone
    <3>2. pc \in {"sync", "roles"} /\ (pc = "roles" => rest # {})
      OBVIOUS
    <3>. HIDE DEF r, pc
    <3>3. new \in Request /\ new.held = req[p].held /\ new.pc = pc
          /\ new.todo = rest /\ new.op = req[p].op /\ new.tenant = req[p].tenant
          /\ new.roles = req[p].roles /\ new.package = req[p].package
      BY <1>0, <3>2 DEF Request
    <3>4. StepOK(new) /\ LocksOK(new)
      BY <1>0, <2>1, <3>1, <3>2, <3>3 DEF StepOK, LocksOK, At, Locking
    <3>. HIDE DEF new
    <3>. QED  BY <1>0, <3>1, <3>3, <3>4, OwnStep
  <2>2. CASE req[p].op # "save"
    BY <1>6, <2>2, FinishOnly DEF RoleGone
  <2>. QED  BY <2>1, <2>2
<1>7. CASE Sync(p)
  <2> DEFINE locked == req[p].held \intersect Role
             plan == [r \in Role |-> IF r \in Admins THEN req[p].menus
                                     ELSE roleMenu[r] \intersect req[p].menus]
             R == {r \in locked : r \in Admins \/ plan[r] # roleMenu[r]}
             new == [req[p] EXCEPT !.pc = "commit", !.plan = plan, !.roles = R]
  <2>1. At(p, "sync") /\ Step(p, new) /\ UNCHANGED rows
    BY <1>7 DEF Sync
  <2>2. plan \in [Role -> SUBSET Menu] /\ R \subseteq locked
    BY <1>0 DEF Request
  <2>. HIDE DEF plan, R
  <2>3. new \in Request /\ new.held = req[p].held /\ new.pc = "commit"
        /\ new.todo = req[p].todo /\ new.op = req[p].op
        /\ new.tenant = req[p].tenant /\ new.roles = R
        /\ new.package = req[p].package
    BY <1>0, <2>2 DEF Request
  <2>4. StepOK(new) /\ LocksOK(new)
    BY <1>0, <2>1, <2>2, <2>3 DEF StepOK, LocksOK, At, Locking
  <2>. HIDE DEF new
  <2>. QED  BY <1>0, <2>1, <2>3, <2>4, OwnStep
<1>. QED  BY <1>1, <1>2, <1>3, <1>4, <1>5, <1>6, <1>7

\* The end of a transaction: its writes, and the locks that made them safe.
LEMMA WritingStep ==
  ASSUME LockInv, NEW p \in Proc,
         \/ CommitMenus(p) \/ CommitRoles(p) \/ CommitDelete(p) \/ CommitSave(p)
         \/ CommitCreate(p) \/ DropPackage(p)
  PROVE  LockInv'
<1>0. /\ req[p] \in Request
      /\ StepOK(req[p]) /\ LocksOK(req[p])
      /\ \A q \in Proc \ {p} : req[p].held \intersect req[q].held = {}
  BY RequestFacts
<1>a. \A q \in Proc, r \in Role : r \in req[q].held => role[r] = "live"
  BY DEF LockInv, LocksOK
<1>b. Finish(p)
  BY DEF CommitMenus, CommitRoles, CommitDelete, CommitSave, CommitCreate,
         DropPackage
<1>c. req' \in [Proc -> Request]
  BY <1>b, IdleFacts DEF LockInv, TypeOK, Finish, Step
<1>d. TypeOK /\ DeletedRoleHasNoGrants
  BY DEF LockInv
<1>1. CASE CommitMenus(p)
  <2>1. TypeOK'
    BY <1>0, <1>1, <1>c, <1>d DEF CommitMenus, TypeOK, Request, catalog, people
  <2>2. \A r \in req[p].roles : role[r] = "live"
    BY <1>0, <1>1, <1>a DEF CommitMenus, LocksOK, At, Request
  <2>3. DeletedRoleHasNoGrants'
    BY <1>1, <1>d, <2>2 DEF CommitMenus, DeletedRoleHasNoGrants, people
  <2>. QED  BY <1>1, <1>a, <1>b, <2>1, <2>3, EndStep DEF CommitMenus
<1>2. CASE CommitRoles(p)
  <2>1. req[p].user \in User
    BY <1>0, <1>2 DEF CommitRoles, StepOK
  <2>2. TypeOK'
    BY <1>0, <1>2, <1>c, <1>d DEF CommitRoles, TypeOK, Request, catalog
  <2>3. \A r \in req[p].roles : role[r] = "live"
    BY <1>0, <1>2, <1>a DEF CommitRoles, LocksOK, At, Request
  <2>4. \A u \in User : userRole'[u] = IF u = req[p].user THEN req[p].roles
                                                         ELSE userRole[u]
    BY <1>2, <1>d DEF CommitRoles, TypeOK
  <2>5. DeletedRoleHasNoGrants'
    BY <1>2, <1>d, <2>3, <2>4 DEF CommitRoles, DeletedRoleHasNoGrants
  <2>. QED  BY <1>2, <1>a, <1>b, <2>2, <2>5, EndStep DEF CommitRoles
<1>3. CASE CommitDelete(p)
  <2>1. TypeOK'
    BY <1>0, <1>3, <1>c, <1>d DEF CommitDelete, TypeOK, Request, catalog, Row
  <2>2. DeletedRoleHasNoGrants'
    BY <1>3, <1>d DEF CommitDelete, DeletedRoleHasNoGrants
  <2>3. req[p].roles \subseteq req[p].held
    BY <1>0, <1>3 DEF CommitDelete, LocksOK, At
  <2>4. \A q \in Proc \ {p}, r \in Role : r \in req[q].held => role'[r] = "live"
    BY <1>0, <1>3, <1>a, <2>3 DEF CommitDelete
  <2>. QED  BY <1>b, <2>1, <2>2, <2>4, EndStep
<1>4. CASE CommitSave(p)
  <2>1. req[p].package \in Package
    BY <1>0, <1>4 DEF CommitSave, StepOK
  <2>2. roleMenu' \in [Role -> SUBSET Menu]
    BY <1>0, <1>4, <1>d DEF CommitSave, TypeOK, Request
  <2>3. packageOf' \in [Tenant -> Package \union {System, None}]
    BY <1>4, <1>d, <2>1 DEF CommitSave, TypeOK
  <2>4. TypeOK'
    BY <1>4, <1>c, <1>d, <2>2, <2>3 DEF CommitSave, TypeOK, catalog, people
  <2>5. \A r \in req[p].roles : role[r] = "live"
    BY <1>0, <1>4, <1>a DEF CommitSave, LocksOK, At, Request
  <2>6. DeletedRoleHasNoGrants'
    BY <1>4, <1>d, <2>5 DEF CommitSave, DeletedRoleHasNoGrants, people
  <2>. QED  BY <1>4, <1>a, <1>b, <2>4, <2>6, EndStep DEF CommitSave
<1>5. CASE CommitCreate(p)
  <2> DEFINE t == req[p].tenant
  <2>1. /\ t \in Tenant /\ req[p].package \in Package
        /\ AdminOf[t] \in Role /\ OwnerOf[t] \in User
    BY <1>0, <1>5, ConstantsAssumption DEF CommitCreate, StepOK
  <2>2. TypeOK'
    BY <1>0, <1>5, <1>c, <1>d, <2>1
    DEF CommitCreate, TypeOK, Request, catalog, Row
  <2>3. \A r \in Role : role'[r] = IF r = AdminOf[t] THEN "live" ELSE role[r]
    BY <1>5, <1>d DEF CommitCreate, TypeOK
  <2>4. \A r \in Role : r # AdminOf[t] => roleMenu'[r] = roleMenu[r]
    BY <1>5, <1>d DEF CommitCreate, TypeOK
  <2>5. \A u \in User, r \in Role :
          r \in userRole'[u] => r \in userRole[u] \/ r = AdminOf[t]
    BY <1>5, <1>d DEF CommitCreate, TypeOK
  <2>6. DeletedRoleHasNoGrants'
    BY <1>d, <2>3, <2>4, <2>5 DEF DeletedRoleHasNoGrants
  <2>. QED  BY <1>a, <1>b, <2>2, <2>3, <2>6, EndStep
<1>6. CASE DropPackage(p)
  <2>1. TypeOK'
    BY <1>6, <1>c, <1>d DEF DropPackage, TypeOK, people
  <2>2. DeletedRoleHasNoGrants'
    BY <1>6, <1>d DEF DropPackage, DeletedRoleHasNoGrants, people
  <2>. QED  BY <1>6, <1>a, <1>b, <2>1, <2>2, EndStep DEF DropPackage
<1>. QED  BY <1>1, <1>2, <1>3, <1>4, <1>5, <1>6

\* The statements outside of the requests delete grants but no role.
LEMMA OthersStep ==
  ASSUME LockInv, Others
  PROVE  LockInv'
<1>0. TypeOK /\ DeletedRoleHasNoGrants
  BY DEF LockInv
<1>1. ASSUME NEW r \in Role, CreateRole(r) PROVE LockInv'
  <2>1. TypeOK'
    BY <1>0, <1>1 DEF CreateRole, TypeOK, catalog, people, Row
  <2>2. \A s \in Role : role'[s] = IF s = r THEN "live" ELSE role[s]
    BY <1>0, <1>1 DEF CreateRole, TypeOK
  <2>3. DeletedRoleHasNoGrants'
    BY <1>0, <1>1, <2>2 DEF CreateRole, DeletedRoleHasNoGrants, people
  <2>. QED  BY <1>1, <2>1, <2>2, <2>3, OtherStep DEF CreateRole
<1>2. ASSUME NEW t \in Tenant, DeleteTenant(t) PROVE LockInv'
  <2>1. TypeOK'
    BY <1>0, <1>2 DEF DeleteTenant, TypeOK, catalog, people, Row
  <2>2. DeletedRoleHasNoGrants'
    BY <1>0, <1>2 DEF DeleteTenant, DeletedRoleHasNoGrants, people
  <2>. QED  BY <1>2, <2>1, <2>2, OtherStep DEF DeleteTenant
<1>3. ASSUME NEW k \in Package, NEW M \in Edits[k], SavePackage(k, M) PROVE LockInv'
  <2>1. M \in SUBSET Menu
    BY ConstantsAssumption
  <2>2. TypeOK'
    BY <1>0, <1>3, <2>1 DEF SavePackage, TypeOK, people
  <2>3. DeletedRoleHasNoGrants'
    BY <1>0, <1>3 DEF SavePackage, DeletedRoleHasNoGrants, people
  <2>. QED  BY <1>3, <2>2, <2>3, OtherStep DEF SavePackage
<1>4. ASSUME NEW m \in Menu, DeleteMenu(m) PROVE LockInv'
  <2>1. TypeOK'
    BY <1>0, <1>4 DEF DeleteMenu, TypeOK, people
  <2>2. DeletedRoleHasNoGrants'
    BY <1>0, <1>4 DEF DeleteMenu, DeletedRoleHasNoGrants, people
  <2>. QED  BY <1>4, <2>1, <2>2, OtherStep DEF DeleteMenu
<1>5. ASSUME NEW u \in User, DeleteUser(u) PROVE LockInv'
  <2>1. TypeOK'
    BY <1>0, <1>5 DEF DeleteUser, TypeOK, catalog
  <2>2. \A v \in User : userRole'[v] \subseteq userRole[v]
    BY <1>0, <1>5 DEF DeleteUser, TypeOK
  <2>3. DeletedRoleHasNoGrants'
    BY <1>0, <1>5, <2>2 DEF DeleteUser, DeletedRoleHasNoGrants
  <2>. QED  BY <1>5, <2>1, <2>3, OtherStep DEF DeleteUser
<1>. QED  BY <1>1, <1>2, <1>3, <1>4, <1>5 DEF Others

LEMMA LockInvStep == LockInv /\ [Next]_vars => LockInv'
<1> SUFFICES ASSUME LockInv, [Next]_vars PROVE LockInv'
  OBVIOUS
<1>1. ASSUME NEW p \in Proc, Begin(p) PROVE LockInv'
  BY <1>1, BeginStep
<1>2. ASSUME NEW p \in Proc, Progress(p) \/ Abort(p) PROVE LockInv'
  BY <1>2, ReadingStep, WritingStep DEF Progress
<1>3. CASE Others
  BY <1>3, OthersStep
<1>4. CASE UNCHANGED vars
  BY <1>4 DEF vars, LockInv, TypeOK, StepOK, LocksOK, LocksExclusive,
              DeletedRoleHasNoGrants
<1>. QED  BY <1>1, <1>2, <1>3, <1>4 DEF Next

LEMMA LockInvAlways == Spec => []LockInv
BY InitLockInv, LockInvStep, PTL DEF Spec

\* Rows, grants and requests have their types.
THEOREM TypeCorrect == Spec => []TypeOK
BY LockInvAlways, PTL DEF LockInv

\* DeleteRole, ReplaceRoleMenus and ReplaceUserRoles: a deleted role has no rows
\* left in system_role_menu and system_user_role, whatever was granted meanwhile.
THEOREM GrantsEndWithRole == Spec => []DeletedRoleHasNoGrants
BY LockInvAlways, PTL DEF LockInv

-----------------------------------------------------------------------------
(* No deadlock: among the roles waited for, one has the highest id.        *)

\* Without a greatest element, "the next one" would map a finite set of ids
\* into the set without its first element, and never two ids to the same one.
LEMMA HighestFact ==
  ASSUME NEW W \in SUBSET Role, W # {}, IsFiniteSet(W)
  PROVE  \E x \in W : \A y \in W : y <= x
<1> DEFINE above(x) == {y \in W : y > x}
           next == [x \in W |-> Lowest(above(x))]
           first == Lowest(W)
<1>1. W \subseteq Nat
  BY ConstantsAssumption
<1>2. SUFFICES ASSUME \A x \in W : above(x) # {} PROVE FALSE
  BY <1>1
<1>3. first \in W /\ \A y \in W : first <= y
  BY LowestFact
<1>4. ASSUME NEW x \in W
      PROVE  /\ next[x] \in W /\ next[x] > x
             /\ \A y \in W : y > x => next[x] <= y
  <2>1. above(x) \in SUBSET Role /\ above(x) # {}
    BY <1>2
  <2>2. Lowest(above(x)) \in above(x) /\ \A y \in above(x) : Lowest(above(x)) <= y
    <3>. HIDE DEF above
    <3>. QED  BY <2>1, LowestFact
  <2>. QED  BY <2>2
<1>. HIDE DEF next, above, first
<1>5. next \in [W -> W \ {first}]
  <2>1. \A x \in W : next[x] \in W \ {first}
    BY <1>1, <1>3, <1>4
  <2>. QED  BY <2>1 DEF next
<1>6. /\ IsFiniteSet(W \ {first})
      /\ Cardinality(W \ {first}) < Cardinality(W)
  <2>1. /\ IsFiniteSet(W \ {first})
        /\ Cardinality(W \ {first}) = Cardinality(W) - 1
    BY <1>3, FS_RemoveElement, Zenon
  <2>2. Cardinality(W) \in Nat
    BY FS_CardinalityType
  <2>. QED  BY <2>1, <2>2
<1>7. PICK x \in W, y \in W : x # y /\ next[x] = next[y]
  BY <1>5, <1>6, FS_PigeonHole
<1>8. x \in Nat /\ y \in Nat /\ next[x] \in Nat
  BY <1>1, <1>4
<1>9. CASE x < y
  <2>1. next[x] <= y
    BY <1>4, <1>8, <1>9
  <2>2. next[y] > y
    BY <1>4
  <2>. QED  BY <1>7, <1>8, <2>1, <2>2
<1>10. CASE y < x
  <2>1. next[y] <= x
    BY <1>4, <1>8, <1>10
  <2>2. next[x] > x
    BY <1>4
  <2>. QED  BY <1>7, <1>8, <2>1, <2>2
<1>. QED  BY <1>7, <1>8, <1>9, <1>10

LEMMA NoCycle == LockInv => NoCircularWait
<1> SUFFICES ASSUME LockInv, NEW S \in SUBSET Proc, S # {}
             PROVE  \E p \in S : \A q \in S : Wanted(p) \notin req[q].held
  BY DEF NoCircularWait
<1>1. \A q \in S : /\ req[q] \in Request /\ StepOK(req[q]) /\ LocksOK(req[q])
                   /\ req[q].held \subseteq Tenant \union Role
  BY RequestFacts DEF Request
<1>2. CASE \E p \in S : ~At(p, "tenant") /\ ~At(p, "roles")
  <2>1. PICK p \in S : ~At(p, "tenant") /\ ~At(p, "roles")
    BY <1>2
  <2>2. Wanted(p) = None
    BY <2>1 DEF Wanted
  <2>. QED  BY <1>1, <2>2, ConstantsAssumption
<1>3. CASE \A q \in S : At(q, "tenant")
  <2>1. \A q \in S : req[q].held = {}
    BY <1>1, <1>3 DEF LocksOK, At
  <2>. QED  BY <2>1
<1>4. CASE /\ \A q \in S : At(q, "tenant") \/ At(q, "roles")
           /\ \E p \in S : At(p, "roles")
  <2> DEFINE waiting == {p \in S : At(p, "roles")}
             W == {NextRole(p) : p \in waiting}
  <2>1. \A p \in waiting : /\ req[p].todo \in SUBSET Role /\ req[p].todo # {}
                           /\ Wanted(p) = NextRole(p)
    BY <1>1 DEF Request, StepOK, Wanted, At
  <2>2. \A p \in waiting : NextRole(p) \in req[p].todo
    BY <2>1, NextRoleFact
  <2>3. W \in SUBSET Role /\ W # {}
    BY <1>4, <2>1, <2>2
  <2>4. IsFiniteSet(W)
    <3>1. IsFiniteSet(waiting)
      BY ConstantsAssumption, FS_Subset
    <3> DEFINE rowOf == [p \in waiting |-> NextRole(p)]
    <3>2. rowOf \in Surjection(waiting, W)
      BY DEF Surjection
    <3>. HIDE DEF waiting, W, rowOf
    <3>. QED  BY <3>1, <3>2, FS_Surjection
  <2>5. PICK p \in waiting : \A q \in waiting : NextRole(q) <= NextRole(p)
    <3>1. PICK x \in W : \A y \in W : y <= x
      <4>. HIDE DEF W
      <4>. QED  BY <2>3, <2>4, HighestFact
    <3>. QED  BY <3>1
  <2>6. ASSUME NEW q \in S PROVE NextRole(p) \notin req[q].held
    <3>1. CASE At(q, "tenant")
      BY <1>1, <3>1 DEF LocksOK, At
    <3>2. CASE At(q, "roles")
      <4>1. q \in waiting /\ NextRole(q) \in Role /\ NextRole(p) \in Role
        BY <2>1, <2>2, <3>2
      <4>2. \A r \in req[q].held \intersect Role : r < NextRole(q)
        BY <1>1, <2>2, <3>2, <4>1 DEF LocksOK, At
      <4>3. NextRole(q) <= NextRole(p)
        BY <2>5, <4>1
      <4>. QED  BY <4>1, <4>2, <4>3, ConstantsAssumption
    <3>. QED  BY <1>4, <3>1, <3>2
  <2>. QED  BY <2>1, <2>5, <2>6
<1>. QED  BY <1>2, <1>3, <1>4

\* ReplaceRoleMenus, ReplaceUserRoles, DeleteRoleList and syncTenantMenus lock
\* the tenant before the roles and the roles by id: they cannot deadlock.
THEOREM NoDeadlock == Spec => []NoCircularWait
BY LockInvAlways, NoCycle, PTL

-----------------------------------------------------------------------------
(* Packages. Two requests that save the same tenant read it before either  *)
(* has locked it, so what follows is about one request that saves.         *)

OneSaver == \A p, q \in Saver : p = q

\* A deleted role, or one that was never there, has nothing to bring in line.
LEMMA NoRoleNoMenus ==
  ASSUME IInv, NEW r \in Role, role[r] # "live"
  PROVE  roleMenu[r] = {}
BY DEF IInv, LockInv, DeletedRoleHasNoGrants

LEMMA InitPackageInv == Init => PackageInv
<1> SUFFICES ASSUME Init PROVE PackageInv
  OBVIOUS
<1>1. \A p \in Proc : req[p] = Idle
  BY DEF Init
<1>2. \A p \in Proc : GrantOK(req[p]) /\ SaveOK(p) /\ CreateOK(req[p])
  BY <1>1, IdleFacts DEF GrantOK, SaveOK, CreateOK
<1>3. CreatesDistinct
  BY <1>1, IdleFacts DEF CreatesDistinct
<1>4. CatalogOK
  BY ConstantsAssumption DEF Init, CatalogOK
<1>5. GrantsWithinPackage
  <2>1. SUFFICES ASSUME NEW r \in Role, NEW m \in roleMenu[r],
                        packageOf[TenantOf[r]] \in Package
                 PROVE  m \in UNION Edits[packageOf[TenantOf[r]]]
    BY DEF GrantsWithinPackage
  <2>2. PICK t \in DOMAIN Founding : /\ r = AdminOf[t] /\ Founding[t] \in Package
                                     /\ m \in Contents[Founding[t]]
    BY <2>1 DEF Init
  <2>3. TenantOf[r] = t /\ packageOf[t] = Founding[t]
    BY <2>2, ConstantsAssumption DEF Init
  <2>. QED  BY <2>2, <2>3, ConstantsAssumption
<1>. QED  BY <1>2, <1>3, <1>4, <1>5 DEF PackageInv

\* A step by which a request only changes its own progress.
LEMMA OwnPackageStep ==
  ASSUME IInv, NEW p \in Proc, NEW r \in Request, Step(p, r), UNCHANGED rows,
         GrantOK(req[p])', SaveOK(p)', CreateOK(req[p])',
         r.op = "create" => \A q \in Proc \ {p} :
                              req[q].op = "create" => req[q].tenant # r.tenant
  PROVE  PackageInv'
<1>1. \A q \in Proc : req'[q] = IF q = p THEN r ELSE req[q]
  BY DEF IInv, LockInv, TypeOK, Step
<1>2. PackageInv
  BY DEF IInv
<1>. USE DEF rows, catalog, people
<1>3. ASSUME NEW q \in Proc, q # p
      PROVE  GrantOK(req[q])' /\ SaveOK(q)' /\ CreateOK(req[q])'
  <2>1. req'[q] = req[q] /\ GrantOK(req[q]) /\ SaveOK(q) /\ CreateOK(req[q])
    BY <1>1, <1>2, <1>3 DEF PackageInv
  <2>. QED  BY <2>1 DEF GrantOK, SaveOK, CreateOK
<1>4. CreatesDistinct'
  BY <1>1, <1>2 DEF PackageInv, CreatesDistinct
<1>5. CatalogOK' /\ GrantsWithinPackage'
  BY <1>2 DEF PackageInv, CatalogOK, GrantsWithinPackage
<1>. QED  BY <1>3, <1>4, <1>5 DEF PackageInv

LEMMA OwnFinish ==
  ASSUME IInv, NEW p \in Proc, Finish(p), UNCHANGED rows
  PROVE  PackageInv'
<1>1. req'[p] = Idle
  BY DEF IInv, LockInv, TypeOK, Finish, Step
<1>2. GrantOK(req[p])' /\ SaveOK(p)' /\ CreateOK(req[p])'
  BY <1>1, IdleFacts DEF GrantOK, SaveOK, CreateOK
<1>. QED  BY <1>2, IdleFacts, OwnPackageStep DEF Finish

LEMMA BeginPackage ==
  ASSUME IInv, NEW p \in Proc, Begin(p)
  PROVE  PackageInv'
<1>. USE DEF Start
<1>0. TypeOK /\ CatalogOK
  BY DEF IInv, LockInv, PackageInv
<1>1. ASSUME NEW r \in Role, NEW M \in SUBSET Menu, StartAssignMenus(p, r, M)
      PROVE  PackageInv'
  <2> DEFINE new == [Idle EXCEPT !.pc = "tenant", !.op = "menus",
                      !.tenant = TenantOf[r], !.roles = {r},
                      !.menus = M \intersect Allowed(TenantOf[r])]
  <2>1. TenantOf[r] \in Tenant
    BY ConstantsAssumption
  <2>2. new \in Request /\ new.pc = "tenant" /\ new.op = "menus"
        /\ new.tenant = TenantOf[r] /\ new.roles = {r}
    BY <2>1 DEF Idle, Request, Locking
  <2>3. Step(p, new) /\ UNCHANGED rows /\ tenant[TenantOf[r]] = "live"
    BY <1>1 DEF StartAssignMenus
  <2>. HIDE DEF new
  <2>4. req'[p] = new /\ tenant' = tenant
    BY <1>0, <2>3 DEF TypeOK, Step, rows
  <2>5. GrantOK(req[p])' /\ SaveOK(p)' /\ CreateOK(req[p])'
    BY <2>2, <2>3, <2>4 DEF GrantOK, SaveOK, CreateOK
  <2>. QED  BY <2>2, <2>3, <2>5, OwnPackageStep
<1>2. ASSUME NEW u \in User, NEW R \in SUBSET Role, StartAssignRoles(p, u, R)
      PROVE  PackageInv'
  <2> DEFINE new == [Idle EXCEPT !.pc = IF R = {} THEN "commit" ELSE "roles",
                      !.op = "roles", !.user = u, !.roles = R, !.todo = R]
  <2>1. new \in Request /\ new.op = "roles"
    BY DEF Idle, Request, Locking
  <2>2. Step(p, new) /\ UNCHANGED rows
    BY <1>2 DEF StartAssignRoles
  <2>. HIDE DEF new
  <2>3. req'[p] = new
    BY <1>0, <2>2 DEF TypeOK, Step
  <2>4. GrantOK(req[p])' /\ SaveOK(p)' /\ CreateOK(req[p])'
    BY <2>1, <2>3 DEF GrantOK, SaveOK, CreateOK
  <2>. QED  BY <2>1, <2>2, <2>4, OwnPackageStep
<1>3. ASSUME NEW t \in Tenant, NEW R \in SUBSET Role, StartDelete(p, t, R)
      PROVE  PackageInv'
  <2> DEFINE new == [Idle EXCEPT !.pc = "roles", !.op = "delete",
                      !.roles = R, !.todo = R]
  <2>1. new \in Request /\ new.op = "delete"
    BY DEF Idle, Request, Locking
  <2>2. Step(p, new) /\ UNCHANGED rows
    BY <1>3 DEF StartDelete
  <2>. HIDE DEF new
  <2>3. req'[p] = new
    BY <1>0, <2>2 DEF TypeOK, Step
  <2>4. GrantOK(req[p])' /\ SaveOK(p)' /\ CreateOK(req[p])'
    BY <2>1, <2>3 DEF GrantOK, SaveOK, CreateOK
  <2>. QED  BY <2>1, <2>2, <2>4, OwnPackageStep
<1>4. ASSUME NEW t \in Tenant, NEW k \in Package, StartSave(p, t, k)
      PROVE  PackageInv'
  <2> DEFINE changed == packageOf[t] # k
             new == [Idle EXCEPT !.pc = "tenant", !.op = "save",
                      !.tenant = t, !.package = k, !.menus = content[k],
                      !.sync = changed]
  <2>1. content[k] \in SUBSET Menu
    BY <1>0 DEF TypeOK
  <2>2. changed \in BOOLEAN
    OBVIOUS
  <2>3. Step(p, new) /\ UNCHANGED rows /\ tenant[t] = "live" /\ p \in Saver
    BY <1>4 DEF StartSave
  <2>4. ~changed => packageOf[t] = k
    OBVIOUS
  <2>. HIDE DEF changed
  <2>5. new \in Request /\ new.op = "save" /\ new.tenant = t /\ new.package = k
        /\ new.menus = content[k] /\ new.sync = changed /\ new.pc = "tenant"
        /\ new.held = {} /\ new.todo = {} /\ new.roles = {}
    BY <2>1, <2>2 DEF Idle, Request, Locking
  <2>. HIDE DEF new
  <2>6. req'[p] = new /\ tenant' = tenant /\ packageOf' = packageOf
    BY <1>0, <2>3 DEF TypeOK, Step, rows
  <2>7. content[k] \subseteq Offered(k)
    BY <1>0 DEF CatalogOK, Offered
  <2>8. SaveOK(p)'
    BY <2>3, <2>4, <2>5, <2>6, <2>7 DEF SaveOK
  <2>9. GrantOK(req[p])' /\ CreateOK(req[p])'
    BY <2>5, <2>6 DEF GrantOK, CreateOK
  <2>. QED  BY <2>3, <2>5, <2>8, <2>9, OwnPackageStep
<1>5. ASSUME NEW t \in Tenant, NEW k \in Package, StartCreate(p, t, k)
      PROVE  PackageInv'
  <2> DEFINE new == [Idle EXCEPT !.pc = "commit", !.op = "create",
                      !.tenant = t, !.package = k, !.menus = content[k]]
  <2>1. content[k] \in SUBSET Menu /\ content[k] \subseteq Offered(k)
    BY <1>0 DEF TypeOK, CatalogOK, Offered
  <2>2. new \in Request /\ new.op = "create" /\ new.tenant = t
        /\ new.package = k /\ new.menus = content[k]
    BY <2>1 DEF Idle, Request, Locking
  <2>3. /\ Step(p, new) /\ UNCHANGED rows /\ tenant[t] = "none"
        /\ \A q \in Proc : req[q].op = "create" => req[q].tenant # t
    BY <1>5 DEF StartCreate
  <2>. HIDE DEF new
  <2>4. req'[p] = new /\ tenant' = tenant
    BY <1>0, <2>3 DEF TypeOK, Step, rows
  <2>5. GrantOK(req[p])' /\ SaveOK(p)' /\ CreateOK(req[p])'
    BY <2>1, <2>2, <2>3, <2>4 DEF GrantOK, SaveOK, CreateOK
  <2>. QED  BY <2>2, <2>3, <2>5, OwnPackageStep
<1>6. ASSUME NEW k \in Package, StartDrop(p, k)
      PROVE  PackageInv'
  <2> DEFINE new == [Idle EXCEPT !.pc = "drop", !.op = "drop", !.package = k]
  <2>1. new \in Request /\ new.op = "drop"
    BY DEF Idle, Request, Locking
  <2>2. Step(p, new) /\ UNCHANGED rows
    BY <1>6 DEF StartDrop
  <2>. HIDE DEF new
  <2>3. req'[p] = new
    BY <1>0, <2>2 DEF TypeOK, Step
  <2>4. GrantOK(req[p])' /\ SaveOK(p)' /\ CreateOK(req[p])'
    BY <2>1, <2>3 DEF GrantOK, SaveOK, CreateOK
  <2>. QED  BY <2>1, <2>2, <2>4, OwnPackageStep
<1>. QED  BY <1>1, <1>2, <1>3, <1>4, <1>5, <1>6 DEF Begin

LEMMA ReadingPackage ==
  ASSUME IInv, NEW p \in Proc,
         \/ LockTenant(p) \/ TenantGone(p) \/ ReadPackage(p) \/ PackageGone(p)
         \/ UpdateTenant(p) \/ LockRole(p) \/ RoleGone(p) \/ Sync(p) \/ Abort(p)
  PROVE  PackageInv'
<1>0. /\ req[p] \in Request /\ StepOK(req[p]) /\ LocksOK(req[p])
      /\ GrantOK(req[p]) /\ SaveOK(p) /\ CreateOK(req[p])
      /\ TypeOK /\ CatalogOK
  BY RequestFacts DEF IInv, LockInv, PackageInv
<1>1. CASE TenantGone(p) \/ PackageGone(p) \/ Abort(p)
  BY <1>1, OwnFinish DEF TenantGone, PackageGone, Abort
<1>2. CASE LockTenant(p)
  <2> DEFINE t == req[p].tenant
             new == [req[p] EXCEPT !.pc = "package", !.held = {t},
                                   !.package = packageOf[t]]
  <2>1. t \in Tenant /\ req[p].op = "menus" /\ Step(p, new) /\ UNCHANGED rows
    BY <1>0, <1>2 DEF LockTenant, StepOK
  <2>2. packageOf[t] \in Package \union {System, None}
    BY <1>0, <2>1 DEF TypeOK
  <2>3. new \in Request /\ new.op = "menus" /\ new.pc = "package"
        /\ new.tenant = t /\ new.package = packageOf[t]
        /\ new.roles = req[p].roles
    BY <1>0, <2>1, <2>2 DEF Request
  <2>. HIDE DEF new
  <2>4. req'[p] = new /\ tenant' = tenant /\ packageOf' = packageOf
    BY <1>0, <2>1 DEF TypeOK, Step, rows
  <2>5. GrantOK(req[p])' /\ SaveOK(p)' /\ CreateOK(req[p])'
    BY <1>0, <2>1, <2>3, <2>4 DEF GrantOK, SaveOK, CreateOK
  <2>. QED  BY <2>1, <2>3, <2>5, OwnPackageStep
<1>3. CASE ReadPackage(p)
  <2> DEFINE k == req[p].package
             M == IF k = System THEN menus ELSE content[k]
             new == [req[p] EXCEPT !.pc = "roles", !.todo = req[p].roles,
                                   !.menus = @ \intersect M]
  <2>1. At(p, "package") /\ Step(p, new) /\ UNCHANGED rows
    BY <1>3 DEF ReadPackage
  <2>2. req[p].op = "menus" /\ req[p].pc = "package"
    BY <1>0, <2>1 DEF StepOK, At
  <2>3. k \in Package => M \subseteq Offered(k)
    BY <1>0, ConstantsAssumption DEF CatalogOK, Offered
  <2>. HIDE DEF M
  <2>4. new \in Request /\ new.op = "menus" /\ new.pc = "roles"
        /\ new.tenant = req[p].tenant /\ new.package = req[p].package
        /\ new.roles = req[p].roles /\ new.menus \subseteq M
    BY <1>0, <2>2 DEF Request
  <2>. HIDE DEF new
  <2>5. req'[p] = new /\ tenant' = tenant /\ packageOf' = packageOf
    BY <1>0, <2>1 DEF TypeOK, Step, rows
  <2>6. GrantOK(req[p])' /\ SaveOK(p)' /\ CreateOK(req[p])'
    BY <1>0, <2>2, <2>3, <2>4, <2>5 DEF GrantOK, SaveOK, CreateOK
  <2>. QED  BY <2>1, <2>4, <2>6, OwnPackageStep
<1>4. CASE UpdateTenant(p)
  <2> DEFINE t == req[p].tenant
             R == LiveRolesOf(t)
             pc == CASE ~req[p].sync                 -> "commit"
                     [] req[p].sync /\ R = {}        -> "sync"
                     [] req[p].sync /\ R # {}        -> "roles"
             todo == IF req[p].sync THEN R ELSE {}
             new == [req[p] EXCEPT !.pc = pc, !.todo = todo, !.held = {t}]
  <2>1. t \in Tenant /\ At(p, "tenant") /\ req[p].op = "save"
        /\ Step(p, new) /\ UNCHANGED rows
    BY <1>0, <1>4 DEF UpdateTenant, StepOK
  <2>2. /\ pc \in {"commit", "sync", "roles"}
        /\ pc \in {"sync", "roles"} <=> req[p].sync
        /\ pc = "sync" => R = {}
        /\ pc = "roles" => todo = R
        /\ R \subseteq {r \in Role : TenantOf[r] = t} /\ todo \subseteq R
        /\ R \in SUBSET Role /\ todo \in SUBSET Role
    BY <1>0 DEF Request, LiveRolesOf
  <2>3. \A r \in Role : TenantOf[r] = t => r \in R \/ roleMenu[r] = {}
    BY NoRoleNoMenus DEF LiveRolesOf
  <2>. HIDE DEF R, pc, todo
  <2>4. new \in Request /\ new.held = {t} /\ new.pc = pc /\ new.todo = todo
        /\ new.op = "save" /\ new.tenant = t /\ new.roles = req[p].roles
        /\ new.package = req[p].package /\ new.sync = req[p].sync
        /\ new.menus = req[p].menus
    BY <1>0, <2>1, <2>2 DEF Request
  <2>. HIDE DEF new
  <2>5. req'[p] = new /\ tenant' = tenant /\ packageOf' = packageOf
        /\ roleMenu' = roleMenu
    BY <1>0, <2>1 DEF TypeOK, Step, rows
  <2>6. (new.held \intersect Role) \union new.todo \subseteq R
    BY <2>1, <2>2, <2>4, ConstantsAssumption
  <2>7. SaveOK(p)'
    BY <1>0, <2>1, <2>2, <2>3, <2>4, <2>5, <2>6 DEF SaveOK, At
  <2>8. GrantOK(req[p])' /\ CreateOK(req[p])'
    BY <2>4, <2>5 DEF GrantOK, CreateOK
  <2>. QED  BY <2>1, <2>4, <2>7, <2>8, OwnPackageStep
<1>5. CASE LockRole(p)
  <2> DEFINE r == NextRole(p)
             rest == req[p].todo \ {r}
             pc == IF rest = {} THEN AfterLocks(p) ELSE "roles"
             new == [req[p] EXCEPT !.todo = rest, !.held = @ \union {r}, !.pc = pc]
  <2>1. At(p, "roles") /\ req[p].todo # {} /\ Step(p, new) /\ UNCHANGED rows
    BY <1>5 DEF LockRole
  <2>2. r \in req[p].todo /\ req[p].todo \in SUBSET Role
    <3>1. req[p].todo \in SUBSET Role
      BY <1>0 DEF Request
    <3>. QED  BY <2>1, <3>1, NextRoleFact
  <2>3. /\ pc \in {"commit", "sync", "roles"} /\ (pc # "roles" => rest = {})
        /\ pc = "commit" => req[p].op # "save"
        /\ pc = "sync" => req[p].op = "save"
    BY DEF AfterLocks
  <2>. HIDE DEF r, pc
  <2>4. new \in Request /\ new.held = req[p].held \union {r} /\ new.pc = pc
        /\ new.todo = rest /\ new.op = req[p].op /\ new.tenant = req[p].tenant
        /\ new.roles = req[p].roles /\ new.package = req[p].package
        /\ new.menus = req[p].menus /\ new.sync = req[p].sync
    BY <1>0, <2>2, <2>3 DEF Request
  <2>. HIDE DEF new
  <2>5. req'[p] = new /\ tenant' = tenant /\ packageOf' = packageOf
        /\ roleMenu' = roleMenu
    BY <1>0, <2>1 DEF TypeOK, Step, rows
  <2>6. GrantOK(req[p])'
    BY <1>0, <2>1, <2>3, <2>4, <2>5 DEF GrantOK, At
  <2>7. SaveOK(p)'
    BY <1>0, <2>1, <2>2, <2>3, <2>4, <2>5 DEF SaveOK, At
  <2>8. CreateOK(req[p])'
    BY <1>0, <2>1, <2>4, <2>5 DEF CreateOK, StepOK, At
  <2>9. req[p].op # "create"
    BY <1>0, <2>1 DEF StepOK, At
  <2>. QED  BY <2>1, <2>4, <2>6, <2>7, <2>8, <2>9, OwnPackageStep
<1>6. CASE RoleGone(p)
  <2> DEFINE r == NextRole(p)
             rest == req[p].todo \ {r}
             pc == IF rest = {} THEN "sync" ELSE "roles"
             new == [req[p] EXCEPT !.todo = rest, !.pc = pc]
  <2>1. CASE req[p].op # "save"
    BY <1>6, <2>1, OwnFinish DEF RoleGone
  <2>2. CASE req[p].op = "save"
    <3>1. At(p, "roles") /\ req[p].todo # {} /\ role[r] # "live"
          /\ Step(p, new) /\ UNCHANGED rows
      BY <1>6, <2>2 DEF RoleGone
    <3>2. r \in req[p].todo /\ req[p].todo \in SUBSET Role
      <4>1. req[p].todo \in SUBSET Role
        BY <1>0 DEF Request
      <4>. QED  BY <3>1, <4>1, NextRoleFact
    <3>3. pc \in {"sync", "roles"} /\ (pc = "sync" => rest = {})
      OBVIOUS
    <3>. HIDE DEF r, pc
    <3>4. roleMenu[r] = {}
      BY <3>1, <3>2, NoRoleNoMenus
    <3>5. new \in Request /\ new.held = req[p].held /\ new.pc = pc
          /\ new.todo = rest /\ new.op = "save" /\ new.tenant = req[p].tenant
          /\ new.roles = req[p].roles /\ new.package = req[p].package
          /\ new.menus = req[p].menus /\ new.sync = req[p].sync
      BY <1>0, <2>2, <3>2, <3>3 DEF Request
    <3>. HIDE DEF new
    <3>6. req'[p] = new /\ tenant' = tenant /\ packageOf' = packageOf
          /\ roleMenu' = roleMenu
      BY <1>0, <3>1 DEF TypeOK, Step, rows
    <3>7. SaveOK(p)'
      BY <1>0, <2>2, <3>1, <3>3, <3>4, <3>5, <3>6 DEF SaveOK, At
    <3>8. GrantOK(req[p])' /\ CreateOK(req[p])'
      BY <3>5, <3>6 DEF GrantOK, CreateOK
    <3>. QED  BY <3>1, <3>5, <3>7, <3>8, OwnPackageStep
  <2>. QED  BY <2>1, <2>2
<1>7. CASE Sync(p)
  <2> DEFINE locked == req[p].held \intersect Role
             plan == [r \in Role |-> IF r \in Admins THEN req[p].menus
                                     ELSE roleMenu[r] \intersect req[p].menus]
             R == {r \in locked : r \in Admins \/ plan[r] # roleMenu[r]}
             new == [req[p] EXCEPT !.pc = "commit", !.plan = plan, !.roles = R]
  <2>1. At(p, "sync") /\ Step(p, new) /\ UNCHANGED rows
    BY <1>7 DEF Sync
  <2>2. req[p].op = "save" /\ req[p].pc = "sync" /\ req[p].sync
    BY <1>0, <2>1 DEF StepOK, SaveOK, At
  <2>3. /\ plan \in [Role -> SUBSET Menu] /\ R \subseteq Role
        /\ \A r \in Role : plan[r] \subseteq req[p].menus
        /\ \A r \in locked \ R : roleMenu[r] \subseteq req[p].menus
    <3>1. req[p].menus \in SUBSET Menu
      BY <1>0 DEF Request
    <3>2. \A r \in Role : plan[r] \subseteq req[p].menus /\ plan[r] \in SUBSET Menu
      BY <3>1
    <3>3. \A r \in locked \ R : plan[r] = roleMenu[r]
      OBVIOUS
    <3>. QED  BY <3>1, <3>2, <3>3
  <2>. HIDE DEF plan, R
  <2>4. new \in Request /\ new.held = req[p].held /\ new.pc = "commit"
        /\ new.todo = req[p].todo /\ new.op = "save" /\ new.plan = plan
        /\ new.tenant = req[p].tenant /\ new.roles = R /\ new.sync
        /\ new.package = req[p].package /\ new.menus = req[p].menus
    BY <1>0, <2>2, <2>3 DEF Request
  <2>. HIDE DEF new
  <2>5. req'[p] = new /\ tenant' = tenant /\ packageOf' = packageOf
        /\ roleMenu' = roleMenu
    BY <1>0, <2>1 DEF TypeOK, Step, rows
  <2>6. SaveOK(p)'
    BY <1>0, <2>2, <2>3, <2>4, <2>5 DEF SaveOK
  <2>7. GrantOK(req[p])' /\ CreateOK(req[p])'
    BY <2>4, <2>5 DEF GrantOK, CreateOK
  <2>. QED  BY <2>1, <2>4, <2>6, <2>7, OwnPackageStep
<1>. QED  BY <1>1, <1>2, <1>3, <1>4, <1>5, <1>6, <1>7

\* What a change of the rows must leave alone for the requests Q in flight.
LEMMA RowsPackageStep ==
  ASSUME IInv, NEW Q \in SUBSET Proc,
         \A q \in Proc : req'[q] = IF q \in Q THEN req[q] ELSE Idle,
         \A t \in Tenant : tenant[t] # "none" => tenant'[t] # "none",
         \A q \in Q : req[q].op = "create" => tenant'[req[q].tenant] = "none",
         \A q \in Q : \/ req[q].op = "menus" /\ req[q].pc # "tenant"
                      \/ req[q].op = "save"
                      => packageOf'[req[q].tenant] = packageOf[req[q].tenant],
         \A q \in Q, r \in Role :
           req[q].op = "save" /\ req[q].pc # "tenant" /\ TenantOf[r] = req[q].tenant
             => roleMenu'[r] \subseteq roleMenu[r],
         CatalogOK', GrantsWithinPackage'
  PROVE  PackageInv'
<1>1. ASSUME NEW q \in Proc
      PROVE  GrantOK(req[q])' /\ SaveOK(q)' /\ CreateOK(req[q])'
  <2>1. CASE q \notin Q
    <3>1. req'[q] = Idle
      BY <2>1
    <3>. QED  BY <3>1, IdleFacts DEF GrantOK, SaveOK, CreateOK
  <2>2. CASE q \in Q
    <3>1. /\ req'[q] = req[q] /\ req[q] \in Request
          /\ GrantOK(req[q]) /\ SaveOK(q) /\ CreateOK(req[q]) /\ StepOK(req[q])
      BY <2>2, RequestFacts DEF IInv, PackageInv
    <3>2. req[q].op \in {"menus", "save", "create"} => req[q].tenant \in Tenant
      BY <3>1 DEF StepOK
    <3>3. GrantOK(req[q])'
      BY <2>2, <3>1, <3>2 DEF GrantOK
    <3>4. SaveOK(q)'
      <4>1. SUFFICES ASSUME req[q].op = "save" PROVE SaveOK(q)'
        BY <3>1 DEF SaveOK
      <4>2. req[q].tenant \in Tenant /\ tenant'[req[q].tenant] # "none"
            /\ packageOf'[req[q].tenant] = packageOf[req[q].tenant]
        BY <2>2, <3>1, <3>2, <4>1 DEF SaveOK
      <4>3. req[q].pc # "tenant" => \A r \in Role :
              TenantOf[r] = req[q].tenant => roleMenu'[r] \subseteq roleMenu[r]
        BY <2>2, <4>1
      <4>4. (req[q].held \intersect Role) \subseteq
              {r \in Role : TenantOf[r] = req[q].tenant}
        BY <3>1, <4>1 DEF SaveOK
      <4>. QED  BY <3>1, <4>1, <4>2, <4>3, <4>4 DEF SaveOK
    <3>5. CreateOK(req[q])'
      BY <2>2, <3>1 DEF CreateOK
    <3>. QED  BY <3>3, <3>4, <3>5
  <2>. QED  BY <2>1, <2>2
<1>2. CreatesDistinct'
  <2>1. CreatesDistinct /\ Idle.op # "create"
    BY IdleFacts DEF IInv, PackageInv
  <2>2. \A q \in Proc : req'[q].op = "create" => req'[q] = req[q]
    BY <2>1
  <2>. QED  BY <2>1, <2>2 DEF CreatesDistinct
<1>. QED  BY <1>1, <1>2 DEF PackageInv

LEMMA WritingPackage ==
  ASSUME IInv, OneSaver, NEW p \in Proc,
         \/ CommitMenus(p) \/ CommitRoles(p) \/ CommitDelete(p) \/ CommitSave(p)
         \/ CommitCreate(p) \/ DropPackage(p)
  PROVE  PackageInv'
<1> DEFINE Q == Proc \ {p}
           t == req[p].tenant
<1>0. /\ req[p] \in Request /\ StepOK(req[p]) /\ LocksOK(req[p])
      /\ GrantOK(req[p]) /\ SaveOK(p) /\ CreateOK(req[p])
      /\ \A q \in Q : req[p].held \intersect req[q].held = {}
  BY RequestFacts DEF IInv, PackageInv
<1>a. /\ TypeOK /\ LockInv /\ PackageInv
      /\ CreatesDistinct /\ CatalogOK /\ GrantsWithinPackage
  BY DEF IInv, LockInv, PackageInv
<1>b. Finish(p)
  BY DEF CommitMenus, CommitRoles, CommitDelete, CommitSave, CommitCreate,
         DropPackage
<1>c. \A q \in Proc : req'[q] = IF q \in Q THEN req[q] ELSE Idle
  BY <1>a, <1>b DEF TypeOK, Finish, Step
<1>d. \A q \in Q :
        /\ req[q].op = "menus" => req[q].tenant \in Tenant /\ tenant[req[q].tenant] # "none"
        /\ req[q].op = "save" => /\ req[q].tenant \in Tenant
                                 /\ tenant[req[q].tenant] # "none" /\ q \in Saver
        /\ req[q].op = "create" => req[q].tenant \in Tenant
                                   /\ tenant[req[q].tenant] = "none"
  BY <1>a, RequestFacts DEF PackageInv, GrantOK, SaveOK, CreateOK, StepOK
<1>e. \A q \in Q : req[q].op \in {"menus", "save"} /\ req[q].pc # "tenant"
                     => req[q].tenant \in req[q].held
  <2>1. SUFFICES ASSUME NEW q \in Q, req[q].op \in {"menus", "save"},
                        req[q].pc # "tenant"
                 PROVE  req[q].tenant \in req[q].held
    OBVIOUS
  <2>2. req[q] \in Request /\ StepOK(req[q]) /\ LocksOK(req[q])
    BY <1>a, RequestFacts
  <2>3. req[q].pc # "idle" /\ req[q].pc # "drop"
    BY <2>1, <2>2, <1>a DEF StepOK
  <2>. QED  BY <2>1, <2>2, <2>3 DEF LocksOK, Request
<1>1. CASE CommitMenus(p)
  <2>1. /\ t \in Tenant /\ t \in req[p].held /\ req[p].pc = "commit"
        /\ req[p].op = "menus"
    BY <1>0, <1>1 DEF CommitMenus, StepOK, LocksOK, At
  <2>2. ASSUME NEW q \in Q, NEW r \in Role, req[q].op = "save",
               req[q].pc # "tenant", TenantOf[r] = req[q].tenant
        PROVE  roleMenu'[r] \subseteq roleMenu[r]
    <3>1. req[q].tenant # t
      BY <1>0, <1>e, <2>1, <2>2
    <3>2. r \notin req[p].roles
      BY <1>0, <2>1, <2>2, <3>1 DEF GrantOK
    <3>. QED  BY <1>1, <3>2 DEF CommitMenus
  <2>3. tenant' = tenant /\ packageOf' = packageOf /\ CatalogOK'
    BY <1>1, <1>a DEF CommitMenus, CatalogOK, catalog
  <2>4. GrantsWithinPackage'
    <3>1. SUFFICES ASSUME NEW r \in Role, tenant[TenantOf[r]] = "live",
                          packageOf[TenantOf[r]] \in Package
                   PROVE  roleMenu'[r] \subseteq Offered(packageOf[TenantOf[r]])
      BY <2>3 DEF GrantsWithinPackage, Offered
    <3>2. CASE r \in req[p].roles
      <4>1. TenantOf[r] = t /\ packageOf[t] = req[p].package
        BY <1>0, <2>1, <3>2 DEF GrantOK
      <4>2. req[p].menus \subseteq Offered(req[p].package)
        BY <1>0, <2>1, <3>1, <4>1 DEF GrantOK
      <4>. QED  BY <1>1, <3>2, <4>1, <4>2 DEF CommitMenus
    <3>3. CASE r \notin req[p].roles
      BY <1>1, <1>a, <3>1, <3>3 DEF CommitMenus, GrantsWithinPackage, Offered
    <3>. QED  BY <3>2, <3>3
  <2>. HIDE DEF Q
  <2>. QED  BY <1>c, <1>d, <2>2, <2>3, <2>4, RowsPackageStep DEF Q
<1>2. CASE CommitRoles(p) \/ DropPackage(p)
  <2>1. /\ tenant' = tenant /\ packageOf' = packageOf /\ roleMenu' = roleMenu
        /\ role' = role /\ content' = content
    BY <1>2 DEF CommitRoles, DropPackage, catalog
  <2>2. CatalogOK' /\ GrantsWithinPackage'
    BY <1>a, <2>1 DEF CatalogOK, GrantsWithinPackage
  <2>. QED  BY <1>c, <1>d, <2>1, <2>2, RowsPackageStep
<1>3. CASE CommitDelete(p)
  <2>1. /\ tenant' = tenant /\ packageOf' = packageOf /\ content' = content
        /\ \A r \in Role : roleMenu'[r] \subseteq roleMenu[r]
    BY <1>3 DEF CommitDelete, catalog
  <2>2. \A r \in Role : role'[r] = "none" <=> role[r] = "none"
    <3>1. \A r \in req[p].roles : r \in Role /\ role[r] = "live"
      BY <1>0, <1>3 DEF CommitDelete, LocksOK, At, Request
    <3>. QED  BY <1>3, <3>1 DEF CommitDelete
  <2>3. CatalogOK'
    BY <1>a, <2>1, <2>2 DEF CatalogOK
  <2>4. GrantsWithinPackage'
    BY <1>a, <2>1 DEF GrantsWithinPackage
  <2>. QED  BY <1>c, <1>d, <2>1, <2>3, <2>4, RowsPackageStep
<1>4. CASE CommitSave(p)
  <2>1. /\ t \in Tenant /\ t \in req[p].held /\ req[p].pc = "commit"
        /\ req[p].op = "save" /\ p \in Saver /\ req[p].package \in Package
    BY <1>0, <1>4 DEF CommitSave, StepOK, LocksOK, SaveOK, At
  <2>2. \A q \in Q : req[q].op # "save"
    BY <1>d, <2>1 DEF OneSaver
  <2>3. /\ tenant' = tenant /\ CatalogOK'
        /\ \A u \in Tenant : u # t => packageOf'[u] = packageOf[u]
        /\ tenant[t] = "live" => packageOf'[t] = req[p].package
    BY <1>4, <1>a, <2>1 DEF CommitSave, TypeOK, CatalogOK, catalog
  <2>4. \A q \in Q : req[q].op = "menus" /\ req[q].pc # "tenant"
                       => req[q].tenant # t
    BY <1>0, <1>e, <2>1
  <2>5. GrantsWithinPackage'
    <3>1. SUFFICES ASSUME NEW r \in Role, tenant[TenantOf[r]] = "live",
                          packageOf'[TenantOf[r]] \in Package
                   PROVE  roleMenu'[r] \subseteq Offered(packageOf'[TenantOf[r]])
      BY <2>3 DEF GrantsWithinPackage, Offered
    <3>2. \A s \in req[p].roles : s \in req[p].held /\ s \in Role
      BY <1>0, <2>1 DEF LocksOK, Request
    <3>3. CASE TenantOf[r] # t
      <4>1. r \notin req[p].roles /\ packageOf'[TenantOf[r]] = packageOf[TenantOf[r]]
        BY <1>0, <2>1, <2>3, <3>2, <3>3, ConstantsAssumption DEF SaveOK
      <4>2. roleMenu'[r] = roleMenu[r]
        BY <1>4, <4>1 DEF CommitSave
      <4>. QED  BY <1>a, <3>1, <4>1, <4>2 DEF GrantsWithinPackage, Offered
    <3>4. CASE TenantOf[r] = t /\ ~req[p].sync
      <4>1. req[p].roles = {} /\ packageOf[t] = req[p].package
        BY <1>0, <2>1, <3>4 DEF SaveOK
      <4>2. roleMenu'[r] = roleMenu[r]
        BY <1>4, <4>1 DEF CommitSave
      <4>. QED  BY <1>a, <2>1, <2>3, <3>1, <3>4, <4>1, <4>2
                DEF GrantsWithinPackage, Offered
    <3>5. CASE TenantOf[r] = t /\ req[p].sync
      <4>1. req[p].menus \subseteq Offered(req[p].package)
        BY <1>0, <2>1 DEF SaveOK
      <4>2. CASE r \in req[p].held
        <5>1. IF r \in req[p].roles THEN req[p].plan[r] \subseteq req[p].menus
                                    ELSE roleMenu[r] \subseteq req[p].menus
          BY <1>0, <2>1, <3>5, <4>2 DEF SaveOK
        <5>2. roleMenu'[r] \subseteq req[p].menus
          BY <1>4, <5>1 DEF CommitSave
        <5>. QED  BY <2>3, <3>1, <3>5, <4>1, <5>2
      <4>3. CASE r \notin req[p].held
        <5>1. roleMenu[r] = {} /\ r \notin req[p].roles
          BY <1>0, <2>1, <3>2, <3>5, <4>3 DEF SaveOK
        <5>. QED  BY <1>4, <5>1 DEF CommitSave
      <4>. QED  BY <4>2, <4>3
    <3>. QED  BY <3>3, <3>4, <3>5
  <2>. HIDE DEF Q, t
  <2>6. \A q \in Q : req[q].op = "menus" /\ req[q].pc # "tenant" =>
          packageOf'[req[q].tenant] = packageOf[req[q].tenant]
    BY <1>d, <2>3, <2>4
  <2>7. \A q \in Q : req[q].op = "create" => tenant'[req[q].tenant] = "none"
    BY <1>d, <2>3
  <2>. QED  BY <1>c, <2>2, <2>3, <2>5, <2>6, <2>7, RowsPackageStep DEF Q
<1>5. CASE CommitCreate(p)
  <2>1. /\ t \in Tenant /\ tenant[t] = "none" /\ req[p].op = "create"
        /\ req[p].package \in Package /\ req[p].menus \subseteq Offered(req[p].package)
        /\ AdminOf[t] \in Role /\ TenantOf[AdminOf[t]] = t
    BY <1>0, <1>5, ConstantsAssumption DEF CommitCreate, StepOK, CreateOK
  <2>2. /\ \A u \in Tenant : tenant'[u] = IF u = t THEN "live" ELSE tenant[u]
        /\ \A u \in Tenant : packageOf'[u] = IF u = t THEN req[p].package
                                                      ELSE packageOf[u]
        /\ \A r \in Role : role'[r] = IF r = AdminOf[t] THEN "live" ELSE role[r]
        /\ \A r \in Role : roleMenu'[r] = IF r = AdminOf[t] THEN req[p].menus
                                                            ELSE roleMenu[r]
        /\ content' = content
    BY <1>5, <1>a DEF CommitCreate, TypeOK, catalog
  <2>3. \A q \in Q : req[q].op = "create" => req[q].tenant # t
    BY <1>a, <2>1 DEF CreatesDistinct
  <2>4. \A q \in Q : req[q].op \in {"menus", "save"} => req[q].tenant # t
    BY <1>d, <2>1
  <2>5. CatalogOK'
    BY <1>a, <2>1, <2>2, ConstantsAssumption DEF CatalogOK
  <2>6. GrantsWithinPackage'
    <3>1. SUFFICES ASSUME NEW r \in Role, tenant'[TenantOf[r]] = "live",
                          packageOf'[TenantOf[r]] \in Package
                   PROVE  roleMenu'[r] \subseteq Offered(packageOf'[TenantOf[r]])
      BY DEF GrantsWithinPackage, Offered
    <3>2. TenantOf[r] \in Tenant
      BY ConstantsAssumption
    <3>3. CASE TenantOf[r] # t
      BY <1>a, <2>1, <2>2, <3>1, <3>2, <3>3 DEF GrantsWithinPackage, Offered
    <3>4. CASE TenantOf[r] = t
      <4>1. roleMenu[r] = {}
        BY <1>a, <2>1, <3>4, NoRoleNoMenus DEF CatalogOK
      <4>. QED  BY <2>1, <2>2, <3>4, <4>1
    <3>. QED  BY <3>3, <3>4
  <2>. HIDE DEF Q, t
  <2>7. \A q \in Q : \/ req[q].op = "menus" /\ req[q].pc # "tenant"
                     \/ req[q].op = "save"
                     => packageOf'[req[q].tenant] = packageOf[req[q].tenant]
    BY <1>d, <2>2, <2>4
  <2>8. \A q \in Q : req[q].op = "create" => tenant'[req[q].tenant] = "none"
    BY <1>d, <2>2, <2>3
  <2>9. \A q \in Q, r \in Role :
          req[q].op = "save" /\ req[q].pc # "tenant" /\ TenantOf[r] = req[q].tenant
            => roleMenu'[r] \subseteq roleMenu[r]
    BY <2>1, <2>2, <2>4
  <2>10. \A u \in Tenant : tenant[u] # "none" => tenant'[u] # "none"
    BY <2>2
  <2>. QED  BY <1>c, <2>5, <2>6, <2>7, <2>8, <2>9, <2>10, RowsPackageStep DEF Q
<1>. QED  BY <1>1, <1>2, <1>3, <1>4, <1>5

LEMMA OthersPackage ==
  ASSUME IInv, Others
  PROVE  PackageInv'
<1>0. TypeOK /\ CatalogOK /\ GrantsWithinPackage
  BY DEF IInv, LockInv, PackageInv
<1>1. \A q \in Proc :
        req[q].op = "create" => req[q].tenant \in Tenant /\ tenant[req[q].tenant] = "none"
  BY RequestFacts DEF IInv, PackageInv, CreateOK, StepOK
<1>2. SUFFICES
        /\ req' = req /\ packageOf' = packageOf
        /\ \A t \in Tenant : tenant'[t] = "none" <=> tenant[t] = "none"
        /\ \A r \in Role : roleMenu'[r] \subseteq roleMenu[r]
        /\ CatalogOK' /\ GrantsWithinPackage'
  <2>1. \A q \in Proc : req[q] = IF q \in Proc THEN req[q] ELSE Idle
    OBVIOUS
  <2>. QED  BY <1>1, <2>1, RowsPackageStep
<1>3. CASE \E r \in Role : CreateRole(r)
  BY <1>0, <1>3, ConstantsAssumption
  DEF CreateRole, TypeOK, CatalogOK, GrantsWithinPackage, catalog
<1>4. CASE \E t \in Tenant : DeleteTenant(t)
  <2>1. PICK t \in Tenant : DeleteTenant(t)
    BY <1>4
  <2>2. /\ req' = req /\ packageOf' = packageOf /\ roleMenu' = roleMenu
        /\ role' = role /\ content' = content
    BY <2>1 DEF DeleteTenant, catalog
  <2>3. /\ \A u \in Tenant : tenant'[u] = "none" <=> tenant[u] = "none"
        /\ \A u \in Tenant : tenant'[u] = "live" => tenant[u] = "live"
    BY <1>0, <2>1 DEF DeleteTenant, TypeOK
  <2>4. CatalogOK' /\ GrantsWithinPackage'
    BY <1>0, <2>2, <2>3, ConstantsAssumption DEF CatalogOK, GrantsWithinPackage
  <2>. QED  BY <2>2, <2>3, <2>4
<1>5. CASE \E k \in Package : \E M \in Edits[k] : SavePackage(k, M)
  <2>1. PICK k \in Package : \E M \in Edits[k] : SavePackage(k, M)
    BY <1>5
  <2>2. PICK M \in Edits[k] : SavePackage(k, M)
    BY <2>1
  <2>3. /\ req' = req /\ packageOf' = packageOf /\ roleMenu' = roleMenu
        /\ role' = role /\ tenant' = tenant
    BY <2>2 DEF SavePackage
  <2>4. \A j \in Package : content'[j] = IF j = k THEN M ELSE content[j]
    BY <1>0, <2>2 DEF SavePackage, TypeOK
  <2>5. CatalogOK' /\ GrantsWithinPackage'
    BY <1>0, <2>3, <2>4 DEF CatalogOK, GrantsWithinPackage
  <2>. QED  BY <2>3, <2>5
<1>6. CASE \E m \in Menu : DeleteMenu(m)
  <2>1. /\ req' = req /\ packageOf' = packageOf /\ content' = content
        /\ role' = role /\ tenant' = tenant
        /\ \A r \in Role : roleMenu'[r] \subseteq roleMenu[r]
    BY <1>6 DEF DeleteMenu
  <2>2. CatalogOK' /\ GrantsWithinPackage'
    BY <1>0, <2>1 DEF CatalogOK, GrantsWithinPackage
  <2>. QED  BY <2>1, <2>2
<1>7. CASE \E u \in User : DeleteUser(u)
  <2>1. /\ req' = req /\ packageOf' = packageOf /\ content' = content
        /\ role' = role /\ tenant' = tenant /\ roleMenu' = roleMenu
    BY <1>7 DEF DeleteUser, catalog
  <2>2. CatalogOK' /\ GrantsWithinPackage'
    BY <1>0, <2>1 DEF CatalogOK, GrantsWithinPackage
  <2>. QED  BY <2>1, <2>2
<1>. QED  BY <1>3, <1>4, <1>5, <1>6, <1>7 DEF Others

LEMMA IInvStep ==
  ASSUME OneSaver
  PROVE  IInv /\ [Next]_vars => IInv'
<1> SUFFICES ASSUME IInv, [Next]_vars PROVE IInv'
  OBVIOUS
<1>0. LockInv'
  BY LockInvStep DEF IInv
<1>1. ASSUME NEW p \in Proc, Begin(p) PROVE PackageInv'
  BY <1>1, BeginPackage
<1>2. ASSUME NEW p \in Proc, Progress(p) \/ Abort(p) PROVE PackageInv'
  BY <1>2, ReadingPackage, WritingPackage DEF Progress
<1>3. ASSUME Others PROVE PackageInv'
  BY <1>3, OthersPackage
<1>4. ASSUME UNCHANGED vars PROVE PackageInv'
  BY <1>4 DEF vars, IInv, PackageInv, GrantOK, SaveOK, CreateOK, CreatesDistinct,
              CatalogOK, GrantsWithinPackage
<1>5. PackageInv'
  BY <1>1, <1>2, <1>3, <1>4 DEF Next
<1>. QED  BY <1>0, <1>5 DEF IInv

\* ReplaceRoleMenus and syncTenantMenus: as long as one request at a time saves a
\* tenant, no role grants a menu the package of its tenant has never offered,
\* whatever is granted, deleted or created around the change of the package.
THEOREM GrantsFollowPackage ==
  ASSUME OneSaver
  PROVE  Spec => []GrantsWithinPackage
<1>1. Init => IInv
  BY InitLockInv, InitPackageInv DEF IInv
<1>2. IInv => GrantsWithinPackage
  BY DEF IInv, PackageInv
<1>. QED  BY <1>1, <1>2, IInvStep, PTL DEF Spec

=============================================================================
