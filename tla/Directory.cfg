CONSTANTS
  Proc = {p1, p2}
  None = None
  MaxDept = 3
  DeptOps = {"create", "move", "delete", "scope", "query"}
  OwnDept = {1}
  Asked <- AskedScopes
  MaxUser = 2
  UserOps = {"create", "update", "delete", "import"}
  Username = {n1, n2}
  Post = {q1, q2}
  MaxSheet = 2
  Role = {r1, r2}
  Menu = {m1}
  Holder = {u1}
  Permission = {f1}
  MaxWrites = 3
SPECIFICATION MCSpec
INVARIANTS TreeIsAcyclic OnlyRacedOrphans LocksAreOrdered WalkFindsSubtree UserPostsAgree CachesFollow
PROPERTY ScopeNamesLive
SYMMETRY Symmetry
