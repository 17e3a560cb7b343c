---------------------------- MODULE MCDirectory ----------------------------
(***************************************************************************)
(* The directory for model checking: departments, users and Java caches.   *)
(* They share no state here, so each behaviour is about one of them.  Of   *)
(* the operations on departments it takes up to three kinds.               *)
(***************************************************************************)
EXTENDS DeptTree, Users, JavaCaches, TLC

CONSTANT MaxWrites   \* writes of a behaviour about caches

VARIABLES focus, writes

directoryVars == <<deptVars, usersVars, cacheVars, focus, writes>>

DeptMixes == {{"create", "move", "delete"}, {"scope", "delete"},
              {"query", "move"}, {"query", "delete", "create"}}

AskedScopes == {{"deptAndChild"}, {"custom", "deptAndChild", "self"}}

MCInit ==
  /\ focus \in DeptMixes \cup {{"users"}, {"caches"}}
  /\ writes = 0
  /\ DeptInit
  /\ focus \notin DeptMixes => born = 1
  /\ UserInit
  /\ focus # {"users"} => uBorn = 0 /\ postOn = Post
  /\ CacheInit
  /\ grants = {} /\ holders = {} /\ perms \in [Menu -> Permission]
  /\ focus # {"caches"} => roles = [r \in Role |-> Gone] /\ watched = <<"named", None>>

MCDept ==
  /\ focus \in DeptMixes
  /\ DeptNext
  /\ \A p \in Proc : req'[p].op \in focus \cup {"none"}
  /\ UNCHANGED <<usersVars, cacheVars, focus, writes>>

MCUsers == focus = {"users"} /\ UserNext /\ UNCHANGED <<deptVars, cacheVars, focus, writes>>

\* After MaxWrites writes the caches come to rest.
MCCaches ==
  /\ focus = {"caches"}
  /\ \/ writes < MaxWrites /\ writes' = writes + 1 /\ \E p \in Proc : CacheWrite(p)
     \/ CacheStep /\ UNCHANGED writes
     \/ writes = MaxWrites /\ UNCHANGED <<cacheVars, writes>>
  /\ UNCHANGED <<deptVars, usersVars, focus>>

MCNext == MCDept \/ MCUsers \/ MCCaches

MCSpec == MCInit /\ [][MCNext]_directoryVars

\* Transactions wait in a circle only where the code lacks an order of locks: a
\* data scope locks departments in the order of its request, an import locks
\* users in the order of its table.
LocksAreOrdered == OnlyScopesDeadlock /\ OnlyImportsDeadlock

Symmetry == Permutations(Proc) \cup Permutations(Role) \cup Permutations(Username) \cup Permutations(Post)
=============================================================================
