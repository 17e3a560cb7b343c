------------------------------ MODULE DeptTree ------------------------------
(***************************************************************************)
(* The departments of one tenant (system_dept) while requests of several   *)
(* administrators overlap: a department is created, moved below another    *)
(* one, deleted alone or in a list, named in the data scope of a role, and *)
(* walked level by level to find what a user may see.                      *)
(*                                                                         *)
(* Every SELECT that takes no lock, every row lock and every commit is a   *)
(* step of its own.  InnoDB picks a victim when transactions wait for one  *)
(* another in a circle.                                                    *)
(***************************************************************************)
EXTENDS Requests

CONSTANTS MaxDept,   \* departments are numbered 1 .. MaxDept (AUTO_INCREMENT)
          DeptOps,   \* the operations the requests perform
          OwnDept,   \* the departments of users who ask (Root: none)
          Asked      \* the data scopes of their enabled roles

ASSUME DeptAssumption ==
  /\ MaxDept \in Nat
  /\ DeptOps \subseteq {"create", "move", "delete", "scope", "query"}
  /\ OwnDept \subseteq 0 .. MaxDept
  /\ Asked \subseteq SUBSET {"all", "custom", "dept", "deptAndChild", "self"}

Dept == 1 .. MaxDept
Root == 0
RoleRow == 0                 \* the row of the role whose data scope is edited
Row == 0 .. MaxDept          \* what a transaction may lock

Scopes == {"all", "custom", "dept", "deptAndChild", "self"}

VARIABLES
  born,     \* how many ids were given out
  live,     \* rows with deleted = 0
  parent,   \* parent_id
  custom,   \* data_scope_dept_ids of the role
  owner,    \* owner[r]: the transaction that holds the lock of row r
  req,      \* req[p]: the progress of request p
  raced     \* history: departments that were inserted when their parent was
            \* deleted already, or its deletion had looked for children

deptVars == <<born, live, parent, custom, owner, req, raced>>

Idle == [op |-> "none", stage |-> "idle", dept |-> Root, parent |-> Root,
         todo |-> <<>>, cur |-> {}, seen |-> {}, found |-> {}, scopes |-> {}, quiet |-> TRUE]

Request == [op : DeptOps \cup {"none"},
            stage : {"idle", "walk", "role", "lock", "write", "roles", "level", "answer"},
            dept : Row, parent : Row, todo : Seq(Dept), cur : SUBSET Row,
            seen : SUBSET Dept, found : SUBSET Dept, scopes : SUBSET Scopes,
            quiet : BOOLEAN]

-----------------------------------------------------------------------------
(* The tree *)

\* The set C contains, with a department, its parent when that is in L.
ClosedIn(C, L) == \A d \in C : parent[d] \in L => parent[d] \in C

\* e is met on the way from d to the root, d included, among the rows L.
OnPath(d, e, L) == \A C \in SUBSET L : d \in C /\ ClosedIn(C, L) => e \in C

\* No department is its own ancestor: every set of departments has a member
\* whose parent is outside of it.
Acyclic(L) == \A S \in SUBSET L : S # {} => \E d \in S : parent[d] \notin S

Descendants(d) == {e \in live \ {d} : OnPath(e, d, live \cup {d})}

Children(P) == {e \in live : parent[e] \in P}

\* The orders in which a request may name one or two departments.
DeptOrders == {<<d>> : d \in Dept} \cup {s \in Dept \X Dept : s[1] # s[2]}

-----------------------------------------------------------------------------
(* Locks *)

Held(p) == {r \in Row : owner[r] = p}

Free(r, p) == owner[r] \in {None, p}

\* The row p asks for next, while it is taking locks.
Wanted(p) ==
  IF req[p].stage = "role" THEN {RoleRow}
  ELSE IF req[p].stage = "lock" /\ req[p].todo # <<>>
       THEN {Head(req[p].todo)} \cap live
       ELSE {}

WaitsFor(p, q) == p # q /\ \E r \in Wanted(p) : owner[r] = q

\* Requests that all wait for another one of them.
Circle(S) == S # {} /\ \A p \in S : \E q \in S : WaitsFor(p, q)

Released(p) == [r \in Row |-> IF owner[r] = p THEN None ELSE owner[r]]

To(p, stage) == req' = [req EXCEPT ![p].stage = stage]

\* The reply, successful or refused, ends the transaction as well.
Finish(p) == req' = [req EXCEPT ![p] = Idle] /\ owner' = Released(p)

\* A request begins with SELECTs of its own; when they refuse it, nothing has
\* happened.
Begins(p, op) == op \in DeptOps /\ req[p] = Idle

\* A committed change of the tree interrupts the walks under way.
Noticed(r) == [q \in Proc |-> [r[q] EXCEPT !.quiet = @ /\ r[q].op # "query"]]

-----------------------------------------------------------------------------
\* A tenant that has departments; the parent of each was there before it.
DeptInit ==
  /\ born \in 1 .. MaxDept
  /\ live = 1 .. born
  /\ parent \in {f \in [Dept -> Row] : \A d \in Dept : f[d] < d /\ (d > born => f[d] = Root)}
  /\ custom = {}
  /\ owner = [r \in Row |-> None]
  /\ req = [p \in Proc |-> Idle]
  /\ raced = {}

(* Create: the parent is looked up, then the row inserted, without a lock *)

StartCreate(p, q) ==
  /\ Begins(p, "create") /\ born < MaxDept
  /\ q \in live \cup {Root}
  /\ req' = [req EXCEPT ![p] = [Idle EXCEPT !.op = "create", !.stage = "write", !.parent = q]]
  /\ UNCHANGED <<born, live, parent, custom, owner, raced>>

\* Rows of deletions that have already looked for children.
BeingDeleted ==
  {d \in Dept : \E q \in Proc : owner[d] = q /\ req[q].op = "delete" /\ req[q].stage = "write"}

CreateDept(p) ==
  /\ req[p].op = "create" /\ req[p].stage = "write" /\ born < MaxDept
  /\ born' = born + 1
  /\ live' = live \cup {born'}
  /\ parent' = [parent EXCEPT ![born'] = req[p].parent]
  /\ raced' = IF req[p].parent \in (live \ BeingDeleted) \cup {Root} THEN raced ELSE raced \cup {born'}
  /\ req' = Noticed([req EXCEPT ![p] = Idle])
  /\ UNCHANGED <<custom, owner>>

(* Move: the row and its new ancestors are looked up one by one without a  *)
(* lock, then all rows are locked in the order of their ids and the chain  *)
(* is checked again.                                                       *)

StartMove(p, d, q) ==
  /\ Begins(p, "move") /\ d \in live
  /\ req' = [req EXCEPT ![p] = [Idle EXCEPT !.op = "move", !.stage = "walk",
                                            !.dept = d, !.parent = q, !.cur = {q}]]
  /\ UNCHANGED <<born, live, parent, custom, owner, raced>>

\* One turn of the loop of validateDeptParentChain: one row is read.
WalkUp(p) ==
  LET r == req[p]
      c == CHOOSE x \in Row : r.cur = {x}
  IN
  /\ r.op = "move" /\ r.stage = "walk"
  /\ \/ /\ c = Root \/ (c \notin live /\ c # r.parent /\ c # r.dept /\ c \notin r.seen)
        /\ req' = [req EXCEPT ![p].stage = "lock", ![p].todo = Ascending(Dept),
                              ![p].cur = {}, ![p].seen = {}]
        /\ UNCHANGED owner
     \/ /\ c # Root
        /\ c = r.dept \/ c \in r.seen \/ (c \notin live /\ c = r.parent)
        /\ Finish(p)
     \/ /\ c \in live /\ c # r.dept /\ c \notin r.seen
        /\ req' = [req EXCEPT ![p].cur = {parent[c]}, ![p].seen = @ \cup {c}]
        /\ UNCHANGED owner
  /\ UNCHANGED <<born, live, parent, custom, raced>>

\* Mutant: a data scope passes over a department that is gone.
LockRowIfThere(p) ==
  LET d == Head(req[p].todo) IN
  /\ req[p].stage = "lock" /\ req[p].todo # <<>>
  /\ IF d \in live THEN Free(d, p) /\ owner' = [owner EXCEPT ![d] = p] ELSE UNCHANGED owner
  /\ req' = [req EXCEPT ![p].todo = Tail(@)]
  /\ UNCHANGED <<born, live, parent, custom, raced>>

\* SELECT ... FOR UPDATE meets the rows in order: a row that is deleted by
\* then is passed over, a row that is locked is waited for.
LockRow(p) ==
  LET r == req[p]
      d == Head(r.todo)
  IN
  /\ r.stage = "lock" /\ r.todo # <<>>
  /\ IF d \in live
     THEN /\ Free(d, p)
          /\ owner' = [owner EXCEPT ![d] = p]
          /\ req' = [req EXCEPT ![p].todo = Tail(@)]
     ELSE IF r.op = "scope"
          THEN Finish(p)
          ELSE req' = [req EXCEPT ![p].todo = Tail(@)] /\ UNCHANGED owner
  /\ UNCHANGED <<born, live, parent, custom, raced>>

HasLocked(p, op) == req[p].op = op /\ req[p].stage = "lock" /\ req[p].todo = <<>>

\* Mutant: under the locks only the new parent itself is looked at.
ParentOK(d, q, L) == q = Root \/ q \in L \ {d}

\* The chain from q to the root, as far as the rows L go, misses d.
ChainOK(d, q, L) ==
  \/ q = Root
  \/ /\ q \in L
     /\ \E C \in SUBSET (L \ {d}) : q \in C /\ ClosedIn(C, L) /\ Acyclic(C)

UpdateDept(p) ==
  LET r == req[p] IN
  /\ HasLocked(p, "move")
  /\ IF r.dept \in Held(p) /\ ChainOK(r.dept, r.parent, Held(p))
     THEN /\ parent' = [parent EXCEPT ![r.dept] = r.parent]
          /\ req' = Noticed([req EXCEPT ![p] = Idle])
          /\ owner' = Released(p)
     ELSE Finish(p) /\ UNCHANGED parent
  /\ UNCHANGED <<born, live, custom, raced>>

(* Delete one department or a list: the rows are locked in order, then a   *)
(* plain SELECT looks for a child of any of them.                          *)

\* Mutant: the rows are locked from the last one on.
StartDeleteBackwards(p, D) ==
  /\ Begins(p, "delete")
  /\ LET s == Ascending(D) IN
     req' = [req EXCEPT ![p] = [Idle EXCEPT !.op = "delete", !.stage = "lock", !.cur = D,
                                            !.todo = [i \in DOMAIN s |-> s[Len(s) + 1 - i]]]]
  /\ UNCHANGED <<born, live, parent, custom, owner, raced>>

StartDelete(p, D) ==
  /\ Begins(p, "delete")
  /\ req' = [req EXCEPT ![p] = [Idle EXCEPT !.op = "delete", !.stage = "lock",
                                            !.todo = Ascending(D), !.cur = D]]
  /\ UNCHANGED <<born, live, parent, custom, owner, raced>>

\* Mutant: the children are not looked for.
CheckNothing(p) ==
  /\ HasLocked(p, "delete")
  /\ To(p, "write")
  /\ UNCHANGED <<born, live, parent, custom, owner, raced>>

CheckChildren(p) ==
  /\ HasLocked(p, "delete")
  /\ IF Children(req[p].cur) = {} /\ (Cardinality(req[p].cur) = 1 => Held(p) # {})
     THEN To(p, "write") /\ UNCHANGED owner
     ELSE Finish(p)
  /\ UNCHANGED <<born, live, parent, custom, raced>>

DeleteDepts(p) ==
  /\ req[p].op = "delete" /\ req[p].stage = "write"
  /\ live' = live \ Held(p)
  /\ raced' = raced \ Held(p)
  /\ req' = Noticed([req EXCEPT ![p] = Idle])
  /\ owner' = Released(p)
  /\ UNCHANGED <<born, parent, custom>>

(* Data scope: the role is locked, then every department in the order of   *)
(* the request.                                                            *)

\* AssignRoleDataScope looks every department up before the transaction.
StartScope(p, s) ==
  /\ Begins(p, "scope")
  /\ \A i \in DOMAIN s : s[i] \in live
  /\ req' = [req EXCEPT ![p] = [Idle EXCEPT !.op = "scope", !.stage = "role", !.todo = s,
                                            !.cur = {s[i] : i \in DOMAIN s}]]
  /\ UNCHANGED <<born, live, parent, custom, owner, raced>>

LockRole(p) ==
  /\ req[p].stage = "role" /\ Free(RoleRow, p)
  /\ owner' = [owner EXCEPT ![RoleRow] = p]
  /\ To(p, "lock")
  /\ UNCHANGED <<born, live, parent, custom, raced>>

UpdateDataScope(p) ==
  /\ HasLocked(p, "scope")
  /\ custom' = req[p].cur
  /\ req' = Noticed([req EXCEPT ![p] = Idle])
  /\ owner' = Released(p)
  /\ UNCHANGED <<born, live, parent, raced>>

(* InnoDB rolls back one of the transactions that wait in a circle.        *)
Victim(p) ==
  /\ \E S \in SUBSET Proc : p \in S /\ Circle(S)
  /\ Finish(p)
  /\ UNCHANGED <<born, live, parent, custom, raced>>

-----------------------------------------------------------------------------
(* What a user may see: his roles are read, then his department's          *)
(* descendants, one SELECT for each level of the tree.                     *)

StartQuery(p, d, R) ==
  /\ Begins(p, "query")
  /\ req' = [req EXCEPT ![p] = [Idle EXCEPT !.op = "query", !.stage = "roles",
                                            !.dept = d, !.scopes = R]]
  /\ UNCHANGED <<born, live, parent, custom, owner, raced>>

\* What the scopes R give without looking at the tree.
OwnScope(R, d) ==
  (IF "custom" \in R THEN custom ELSE {})
    \cup (IF R \cap {"custom", "dept", "deptAndChild"} # {} THEN {d} \ {Root} ELSE {})

ReadRoles(p) ==
  LET r     == req[p]
      below == "deptAndChild" \in r.scopes /\ r.dept # Root
  IN
  /\ r.op = "query" /\ r.stage = "roles"
  /\ req' = [req EXCEPT ![p].found = OwnScope(r.scopes, r.dept),
                        ![p].seen = IF below THEN {r.dept} ELSE {},
                        ![p].cur = IF below THEN {r.dept} ELSE {},
                        ![p].stage = IF below THEN "level" ELSE "answer"]
  /\ UNCHANGED <<born, live, parent, custom, owner, raced>>

\* Mutant: every level is looked for below the department itself.
NextLevelOfFirst(r) == Children({r.dept}) \ r.seen

\* The next level: departments whose parent is in the last one, unseen yet.
NextLevel(r) == Children(r.cur) \ r.seen

ReadLevel(p) ==
  LET next == NextLevel(req[p]) IN
  /\ req[p].op = "query" /\ req[p].stage = "level"
  /\ req' = [req EXCEPT ![p].seen = @ \cup next, ![p].cur = next,
                        ![p].stage = IF next = {} THEN "answer" ELSE "level"]
  /\ UNCHANGED <<born, live, parent, custom, owner, raced>>

Answer(p) ==
  /\ req[p].op = "query" /\ req[p].stage = "answer"
  /\ Finish(p)
  /\ UNCHANGED <<born, live, parent, custom, raced>>

-----------------------------------------------------------------------------
DeptStart(p) ==
  \/ \E q \in Row : StartCreate(p, q)
  \/ \E d \in Dept, q \in Row : StartMove(p, d, q)
  \/ \E D \in (SUBSET Dept) \ {{}} : StartDelete(p, D)
  \/ \E s \in DeptOrders : StartScope(p, s)
  \/ \E d \in OwnDept, R \in Asked : StartQuery(p, d, R)

DeptStep(p) ==
  \/ CreateDept(p)
  \/ WalkUp(p) \/ LockRow(p) \/ UpdateDept(p)
  \/ CheckChildren(p) \/ DeleteDepts(p)
  \/ LockRole(p) \/ UpdateDataScope(p)
  \/ ReadRoles(p) \/ ReadLevel(p) \/ Answer(p)
  \/ Victim(p)

DeptNext == \E p \in Proc : DeptStart(p) \/ DeptStep(p)

DeptSpec == DeptInit /\ [][DeptNext]_deptVars

-----------------------------------------------------------------------------
(* Properties *)

\* Types of the variables; rows are live only once their id was given out.
DeptTypeOK ==
  /\ born \in 0 .. MaxDept
  /\ live \subseteq 1 .. born
  /\ parent \in [Dept -> Row]
  /\ custom \subseteq Dept
  /\ owner \in [Row -> Proc \cup {None}]
  /\ req \in [Proc -> Request]
  /\ raced \subseteq live

\* No department is below itself, whatever moves overlap: validation walks up
\* without a lock, so only the second check under the locks of all rows
\* (UpdateDept) can keep two moves from closing a circle.
TreeIsAcyclic == Acyclic(live)

\* A department hangs below a deleted one only if it was inserted after that
\* one's deletion had looked for children: moves and deletions, which lock, never
\* leave an orphan behind (deleteDeptIDs, UpdateDept).
OnlyRacedOrphans == \A d \in live \ raced : parent[d] \in live \cup {Root}

\* Moves and deletions lock in the order of the ids and never wait for one
\* another in a circle; a circle needs a data scope, which locks in the order
\* of its request (UpdateRoleDataScope).
OnlyScopesDeadlock ==
  \A S \in SUBSET Proc : Circle(S) => \E p \in S : req[p].op = "scope"

\* A walk that no change of the tree interrupts finds the department and all
\* departments below it, although every level is a query of its own and rows
\* seen before are skipped (childDeptIDs, ChildDeptIDs).
WalkFindsSubtree ==
  \A p \in Proc :
    LET r == req[p] IN
    (r.op = "query" /\ r.stage = "answer" /\ r.quiet /\ "deptAndChild" \in r.scopes /\ r.dept # Root)
      => r.seen = Descendants(r.dept) \cup {r.dept}

\* A role's data scope is only ever set to departments that exist at that
\* moment: the locks keep a deletion out (UpdateRoleDataScope).
ScopeNamesLive == [][custom' # custom => custom' \subseteq live']_deptVars
=============================================================================
