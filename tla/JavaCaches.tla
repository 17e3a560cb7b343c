----------------------------- MODULE JavaCaches -----------------------------
(***************************************************************************)
(* The Spring caches of the Java services on the same MySQL and Redis.     *)
(* Java fills an entry with what it has read from MySQL; Go never reads an *)
(* entry, but removes after every commit the entries that the write may    *)
(* have made stale: one key by DEL, or all keys of a pattern by a complete *)
(* SCAN and then DEL.  Any command may fail or time out, and the process   *)
(* may die between the commit and the eviction.                            *)
(*                                                                         *)
(* Entries do not interact, so one key is followed, any one.               *)
(***************************************************************************)
EXTENDS Requests

CONSTANTS Role, Menu, Holder, Permission   \* ids and permission names

ASSUME CacheAssumption == IsFiniteSet(Role) /\ None \notin Permission

\* A key of Redis, without its tenant.  A named cache is that of the mail, SMS
\* and notify templates, of the mail accounts and of the OAuth2 clients.
CacheKeys == ({"role"} \X Role) \cup ({"menu_role_ids"} \X Menu) \cup ({"user_role_ids"} \X Holder)
               \cup ({"permission_menu_ids"} \X Permission)
               \cup {<<"dept_children_ids", None>>, <<"named", None>>}

VARIABLES
  roles,     \* live roles, with a column that edits change: [Role -> {Gone, 0, 1}]
  grants,    \* system_role_menu
  holders,   \* system_user_role
  perms,     \* permission of every live menu
  edition,   \* what the tree of departments and the named tables hold
  watched,   \* the key that is followed
  entry,     \* its value in Redis, or Empty
  filling,   \* what Java has read from MySQL and not put yet, or Empty
  jReq,      \* jReq[p]: the commands request p still has to send
  excused    \* history: the entry may be stale, see Excuses

cacheVars == <<roles, grants, holders, perms, edition, watched, entry, filling, jReq, excused>>
database == <<roles, grants, holders, perms, edition>>

Gone == 2
Empty == [cached |-> FALSE, value |-> None]
Filled(v) == [cached |-> TRUE, value |-> v]

\* What Java caches under key k is a function of the database.
Value(k) ==
  CASE k[1] = "role"                -> roles[k[2]]
    [] k[1] = "menu_role_ids"       -> {r \in Role : <<r, k[2]>> \in grants}
    [] k[1] = "user_role_ids"       -> {r \in Role : <<k[2], r>> \in holders}
    [] k[1] = "permission_menu_ids" -> {m \in DOMAIN perms : perms[m] = k[2]}
    [] OTHER                        -> edition[k[1]]

\* Java does not cache a role that is not there.
Cacheable(k) == k[1] = "role" => roles[k[2]] # Gone

CacheInit ==
  /\ roles \in [Role -> {0, Gone}]
  /\ grants \in SUBSET ({r \in Role : roles[r] # Gone} \X Menu)
  /\ holders \in SUBSET (Holder \X {r \in Role : roles[r] # Gone})
  /\ perms \in [Menu -> Permission \cup {None}]
  /\ edition = [n \in {"dept_children_ids", "named"} |-> 0]
  /\ watched \in CacheKeys
  /\ entry = Empty /\ filling = Empty
  /\ jReq = [p \in Proc |-> <<>>]
  /\ excused = FALSE

-----------------------------------------------------------------------------
(* The eviction plans: sequences of commands, each with the keys it removes *)

Del(K) == [cmd |-> "del", keys |-> K]
Scan(name) == [cmd |-> "scan", keys |-> {k \in CacheKeys : k[1] = name}]

EvictRole(r) == <<Del({<<"role", r>>})>>

\* Mutant: the users of the deleted role are forgotten.
EvictDeletedRoleMenus(r) == EvictRole(r) \o <<Scan("menu_role_ids")>>

EvictDeletedRole(r) == EvictRole(r) \o <<Scan("menu_role_ids"), Scan("user_role_ids")>>

EvictRoleMenus == <<Scan("menu_role_ids"), Scan("permission_menu_ids")>>

EvictUserRoles(u) == <<Del({<<"user_role_ids", u>>})>>

EvictDeptChildren == <<Scan("dept_children_ids")>>

EvictMenuCreated(q) == IF q = None THEN <<>> ELSE <<Del({<<"permission_menu_ids", q>>})>>

EvictMenuChanged == <<Scan("permission_menu_ids")>>

EvictNamedCache == <<Scan("named")>>

\* The scan keeps the keys of the deleted menus only.
EvictMenusDeleted(M) ==
  IF M = {} THEN <<>>
  ELSE <<[cmd |-> "scan", keys |-> {"menu_role_ids"} \X M]>> \o EvictMenuChanged

-----------------------------------------------------------------------------
(* The writes.  What they check before is the business of other modules.   *)

CacheBegins(p) == jReq[p] = <<>>

\* The commit; the eviction follows.
Plan(p, plan) ==
  /\ CacheBegins(p)
  /\ jReq' = [jReq EXCEPT ![p] = plan]
  /\ UNCHANGED <<watched, entry, filling>>

\* The second save of a role, its data scope included, evicts it; nobody can
\* have cached a role that was not there.
SaveRole(p, r) ==
  /\ roles' = [roles EXCEPT ![r] = IF @ = Gone THEN 0 ELSE 1 - @]
  /\ Plan(p, IF roles[r] = Gone THEN <<>> ELSE EvictRole(r))
  /\ UNCHANGED <<grants, holders, perms, edition, excused>>

\* One role or a list, which evicts the first as a deleted role and the others
\* by their keys.
DeleteRoles(p, R) ==
  /\ R # {} /\ \A r \in R : roles[r] # Gone
  /\ roles' = [r \in Role |-> IF r \in R THEN Gone ELSE roles[r]]
  /\ grants' = {g \in grants : g[1] \notin R}
  /\ holders' = {h \in holders : h[2] \notin R}
  /\ \E s \in [1 .. Cardinality(R) -> R] :
       /\ \A r \in R : \E i \in DOMAIN s : s[i] = r
       /\ Plan(p, EvictDeletedRole(s[1]) \o [i \in 1 .. Cardinality(R) - 1 |-> EvictRole(s[i + 1])[1]])
  /\ UNCHANGED <<perms, edition, excused>>

AssignRoleMenus(p, r, M) ==
  /\ roles[r] # Gone
  /\ grants' = {g \in grants : g[1] # r} \cup ({r} \X M)
  /\ Plan(p, EvictRoleMenus)
  /\ UNCHANGED <<roles, holders, perms, edition, excused>>

AssignUserRoles(p, u, R) ==
  /\ \A r \in R : roles[r] # Gone
  /\ holders' = {h \in holders : h[1] # u} \cup ({u} \X R)
  /\ Plan(p, EvictUserRoles(u))
  /\ UNCHANGED <<roles, grants, perms, edition, excused>>

DeleteUser(p, u) ==
  /\ holders' = {h \in holders : h[1] # u}
  /\ Plan(p, EvictUserRoles(u))
  /\ UNCHANGED <<roles, grants, perms, edition, excused>>

CreateMenu(p, m, q) ==
  /\ m \notin DOMAIN perms
  /\ perms' = [x \in DOMAIN perms \cup {m} |-> IF x = m THEN q ELSE perms[x]]
  /\ Plan(p, EvictMenuCreated(q))
  /\ UNCHANGED <<roles, grants, holders, edition, excused>>

UpdateMenu(p, m, q) ==
  /\ m \in DOMAIN perms
  /\ perms' = [perms EXCEPT ![m] = q]
  /\ Plan(p, EvictMenuChanged)
  /\ UNCHANGED <<roles, grants, holders, edition, excused>>

\* The grants of a deleted menu go with it.
DeleteMenus(p, M) ==
  /\ perms' = [m \in DOMAIN perms \ M |-> perms[m]]
  /\ grants' = {g \in grants : g[2] \notin M}
  /\ Plan(p, EvictMenusDeleted(M))
  /\ UNCHANGED <<roles, holders, edition, excused>>

SaveDept(p) ==
  /\ edition' = [edition EXCEPT !["dept_children_ids"] = 1 - @]
  /\ Plan(p, EvictDeptChildren)
  /\ UNCHANGED <<roles, grants, holders, perms, excused>>

\* Deletion of a list of templates, mail accounts or OAuth2 clients.
DeleteNamedList(p) ==
  /\ edition' = [edition EXCEPT !["named"] = 1 - @]
  /\ Plan(p, EvictNamedCache)
  /\ UNCHANGED <<roles, grants, holders, perms, excused>>

\* Saving or deleting one of them evicts nothing.
SaveNamed(p) ==
  /\ edition' = [edition EXCEPT !["named"] = 1 - @]
  /\ Plan(p, <<>>)
  /\ excused' = (excused \/ watched[1] = "named")
  /\ UNCHANGED <<roles, grants, holders, perms>>

-----------------------------------------------------------------------------
(* Eviction *)

\* DEL removes the key if it is there by now.
DelKeys(p) ==
  /\ jReq[p] # <<>> /\ Head(jReq[p]).cmd = "del"
  /\ jReq' = [jReq EXCEPT ![p] = Tail(@)]
  /\ IF watched \in Head(jReq[p]).keys
     THEN entry' = Empty /\ excused' = FALSE
     ELSE UNCHANGED <<entry, excused>>
  /\ UNCHANGED <<database, watched, filling>>

\* The complete SCAN comes first.  It finds a key that was there all the time;
\* one that Java puts meanwhile it may miss.
ScanKeys(p) ==
  LET c == Head(jReq[p]) IN
  /\ jReq[p] # <<>> /\ c.cmd = "scan"
  /\ jReq' = [jReq EXCEPT ![p] = IF entry.cached
                                 THEN <<Del(c.keys)>> \o Tail(@)
                                 ELSE Tail(@)]
  /\ UNCHANGED <<database, watched, entry, filling, excused>>

\* A command fails, the 5 seconds are over, too many pages or keys were met,
\* or the process dies: nothing further is removed, and the reply, if any,
\* says that the caches have to be cleaned by hand.
EvictionFails(p) ==
  /\ jReq[p] # <<>>
  /\ jReq' = [jReq EXCEPT ![p] = <<>>]
  /\ excused' = (excused \/ \E i \in DOMAIN jReq[p] : watched \in jReq[p][i].keys)
  /\ UNCHANGED <<database, watched, entry, filling>>

(* Java *)

JavaReads ==
  /\ ~ entry.cached /\ ~ filling.cached /\ Cacheable(watched)
  /\ filling' = Filled(Value(watched))
  /\ UNCHANGED <<database, watched, entry, jReq, excused>>

\* Java puts what it has read, however old by now.
JavaPuts ==
  /\ filling.cached
  /\ entry' = filling /\ filling' = Empty
  /\ excused' = (filling.value # Value(watched))
  /\ UNCHANGED <<database, watched, jReq>>

CacheWrite(p) ==
  \/ \E r \in Role : SaveRole(p, r)
  \/ \E R \in SUBSET Role : DeleteRoles(p, R)
  \/ \E r \in Role, M \in SUBSET Menu : AssignRoleMenus(p, r, M)
  \/ \E u \in Holder, R \in SUBSET Role : AssignUserRoles(p, u, R)
  \/ \E u \in Holder : DeleteUser(p, u)
  \/ \E m \in Menu, q \in Permission \cup {None} : CreateMenu(p, m, q) \/ UpdateMenu(p, m, q)
  \/ \E M \in SUBSET Menu : DeleteMenus(p, M)
  \/ SaveDept(p) \/ DeleteNamedList(p) \/ SaveNamed(p)

CacheStep ==
  \/ \E p \in Proc : DelKeys(p) \/ ScanKeys(p) \/ EvictionFails(p)
  \/ JavaReads \/ JavaPuts

CacheNext == (\E p \in Proc : CacheWrite(p)) \/ CacheStep

CacheSpec == CacheInit /\ [][CacheNext]_cacheVars

-----------------------------------------------------------------------------
(* Properties *)

\* Types of the variables.
CacheTypeOK ==
  /\ roles \in [Role -> {0, 1, Gone}]
  /\ grants \subseteq Role \X Menu
  /\ holders \subseteq Holder \X Role
  /\ perms \in UNION {[M -> Permission \cup {None}] : M \in SUBSET Menu}
  /\ watched \in CacheKeys
  /\ entry.cached \in BOOLEAN /\ filling.cached \in BOOLEAN
  /\ excused \in BOOLEAN

\* The keys that request p is still going to remove.
Pending(p) == UNION {jReq[p][i].keys : i \in DOMAIN jReq[p]}

\* Every write evicts every entry it makes stale: an entry differs from the
\* database only while an eviction that reaches it is under way, or after an
\* eviction has failed, or when Java has put a value it had read before, or for
\* the named caches that single saves leave alone (evictAfterWrite).
CachesFollow ==
  (entry.cached /\ entry.value # Value(watched))
     => excused \/ \E p \in Proc : watched \in Pending(p)
=============================================================================
