------------------------------- MODULE Users -------------------------------
(***************************************************************************)
(* The users of one tenant: system_users with its column post_ids, and     *)
(* the relation system_user_post that repeats it row by row.  Users are    *)
(* created, edited, deleted alone or in a list, and imported from a table  *)
(* in one transaction.                                                     *)
(*                                                                         *)
(* Uncommitted changes of an import are kept in its request: nobody else   *)
(* sees them, and its own SELECTs do.                                      *)
(***************************************************************************)
EXTENDS Requests

CONSTANTS MaxUser,    \* users are numbered 1 .. MaxUser
          UserOps,    \* the operations the requests perform
          Username,
          Post,
          MaxSheet    \* rows of an imported table

ASSUME UserAssumption ==
  /\ MaxUser \in Nat /\ MaxSheet \in Nat
  /\ UserOps \subseteq {"create", "update", "delete", "import"}
  /\ None \notin Username \cup Post

UserId == 1 .. MaxUser
Nobody == 0

VARIABLES
  uBorn,      \* how many ids were given out
  uLive,      \* rows of system_users with deleted = 0
  uName,      \* username
  uColumn,    \* post_ids
  uPost,      \* system_user_post, rows with deleted = 0: <<user, post>>
  postOn,     \* posts that exist and are enabled
  uLock,      \* uLock[u]: the transaction that holds the lock of row u
  uReq        \* uReq[p]: the progress of request p

usersVars == <<uBorn, uLive, uName, uColumn, uPost, postOn, uLock, uReq>>

UserIdle == [op |-> "none", stage |-> "idle", user |-> Nobody, name |-> None,
             posts |-> {}, todo |-> {}, had |-> {}, ids |-> <<>>,
             sheet |-> <<>>, added |-> {}]

PostsOf(u) == {q \in Post : <<u, q>> \in uPost}

Named(n) == {u \in uLive : uName[u] = n}

UserFree(u, p) == uLock[u] \in {None, p}

Unlocked(p) == [u \in UserId |-> IF uLock[u] = p THEN None ELSE uLock[u]]

UserTo(p, stage) == uReq' = [uReq EXCEPT ![p].stage = stage]

\* The reply; an open transaction ends with it.
UserReply(p) == uReq' = [uReq EXCEPT ![p] = UserIdle] /\ uLock' = Unlocked(p)

UserTables == <<uBorn, uLive, uName, uColumn, uPost, postOn>>

UserInit ==
  /\ uBorn \in 0 .. 1 /\ uBorn <= MaxUser
  /\ uLive = 1 .. uBorn
  /\ uName \in [UserId -> Username \cup {None}]
  /\ uColumn \in [UserId -> SUBSET Post]
  /\ \A u \in UserId : IF u \in uLive THEN uName[u] # None ELSE uName[u] = None /\ uColumn[u] = {}
  /\ uPost = {r \in uLive \X Post : r[2] \in uColumn[r[1]]}
  /\ postOn \in SUBSET Post
  /\ uLock = [u \in UserId |-> None]
  /\ uReq = [p \in Proc |-> UserIdle]

UserBegins(p, op) == op \in UserOps /\ uReq[p] = UserIdle

-----------------------------------------------------------------------------
(* Create and update: the name is looked up, then each post, then one      *)
(* transaction writes the row and the relation.                            *)

StartCreateUser(p, n, Q) ==
  /\ UserBegins(p, "create")
  /\ uBorn + Cardinality({r \in Proc : uReq[r].op = "create"}) < MaxUser
  /\ Named(n) = {}
  /\ uReq' = [uReq EXCEPT ![p] = [UserIdle EXCEPT !.op = "create", !.stage = "posts", !.name = n,
                                                  !.posts = Q, !.todo = Q]]
  /\ UNCHANGED <<UserTables, uLock>>

\* Whoever registers has no posts.
StartRegister(p, n) == StartCreateUser(p, n, {})

StartUpdateUser(p, u, n, Q) ==
  /\ UserBegins(p, "update") /\ u \in uLive
  /\ uReq' = [uReq EXCEPT ![p] = [UserIdle EXCEPT !.op = "update", !.stage = "name", !.user = u,
                                                  !.name = n, !.posts = Q, !.todo = Q]]
  /\ UNCHANGED <<UserTables, uLock>>

UsernameTaken(p) ==
  /\ uReq[p].stage = "name"
  /\ IF Named(uReq[p].name) \subseteq {uReq[p].user}
     THEN UserTo(p, "posts") /\ UNCHANGED uLock
     ELSE UserReply(p)
  /\ UNCHANGED UserTables

\* One turn of the loop of validateUserPosts.
ValidatePost(p) ==
  /\ uReq[p].stage = "posts" /\ uReq[p].todo # {}
  /\ \E q \in uReq[p].todo :
       IF q \in postOn
       THEN uReq' = [uReq EXCEPT ![p].todo = @ \ {q}] /\ UNCHANGED uLock
       ELSE UserReply(p)
  /\ UNCHANGED UserTables

PostsChecked(p, op) == uReq[p].op = op /\ uReq[p].stage = "posts" /\ uReq[p].todo = {}

CreateUser(p) ==
  LET r == uReq[p] IN
  /\ PostsChecked(p, "create") /\ uBorn < MaxUser
  /\ uBorn' = uBorn + 1
  /\ uLive' = uLive \cup {uBorn'}
  /\ uName' = [uName EXCEPT ![uBorn'] = r.name]
  /\ uColumn' = [uColumn EXCEPT ![uBorn'] = r.posts]
  /\ uPost' = uPost \cup ({uBorn'} \X r.posts)
  /\ UserReply(p)
  /\ UNCHANGED postOn

\* Mutant: the relation is read without the lock of the row.
ReadUser(p) ==
  /\ PostsChecked(p, "update")
  /\ IF uReq[p].user \in uLive
     THEN /\ uReq' = [uReq EXCEPT ![p].stage = "write", ![p].had = PostsOf(uReq[p].user)]
          /\ UNCHANGED uLock
     ELSE UserReply(p)
  /\ UNCHANGED UserTables

\* The row is locked, then the relation read under that lock.
LockUser(p) ==
  LET r == uReq[p] IN
  /\ PostsChecked(p, "update")
  /\ IF r.user \in uLive
     THEN /\ UserFree(r.user, p)
          /\ uLock' = [uLock EXCEPT ![r.user] = p]
          /\ uReq' = [uReq EXCEPT ![p].stage = "write", ![p].had = PostsOf(r.user)]
     ELSE UserReply(p)
  /\ UNCHANGED UserTables

\* The relation is brought to the wanted posts by its difference to the rows
\* that were read.
UpdateUser(p) ==
  LET r == uReq[p] IN
  /\ r.op = "update" /\ r.stage = "write"
  /\ uName' = [uName EXCEPT ![r.user] = r.name]
  /\ uColumn' = [uColumn EXCEPT ![r.user] = r.posts]
  /\ uPost' = (uPost \ ({r.user} \X (r.had \ r.posts))) \cup ({r.user} \X (r.posts \ r.had))
  /\ UserReply(p)
  /\ UNCHANGED <<uBorn, uLive, postOn>>

-----------------------------------------------------------------------------
(* Delete: one user that must be there, or a list in which missing ids are *)
(* passed over.  The rows are locked in the order of their ids.            *)

StartDeleteUser(p, U) ==
  /\ UserBegins(p, "delete")
  /\ Cardinality(U) = 1 => U \subseteq uLive
  /\ uReq' = [uReq EXCEPT ![p] = [UserIdle EXCEPT !.op = "delete", !.stage = "lock",
                                                  !.ids = Ascending(U)]]
  /\ UNCHANGED <<UserTables, uLock>>

LockUserRow(p) ==
  LET u == Head(uReq[p].ids) IN
  /\ uReq[p].op = "delete" /\ uReq[p].ids # <<>>
  /\ IF u \in uLive
     THEN UserFree(u, p) /\ uLock' = [uLock EXCEPT ![u] = p]
     ELSE UNCHANGED uLock
  /\ uReq' = [uReq EXCEPT ![p].ids = Tail(@)]
  /\ UNCHANGED UserTables

DeleteUsers(p) ==
  LET found == {u \in UserId : uLock[u] = p} IN
  /\ uReq[p].op = "delete" /\ uReq[p].ids = <<>>
  /\ uLive' = uLive \ found
  /\ uName' = [u \in UserId |-> IF u \in found THEN None ELSE uName[u]]
  /\ uColumn' = [u \in UserId |-> IF u \in found THEN {} ELSE uColumn[u]]
  /\ uPost' = {r \in uPost : r[1] \notin found}
  /\ UserReply(p)
  /\ UNCHANGED <<uBorn, postOn>>

-----------------------------------------------------------------------------
(* Import: row by row in one READ COMMITTED transaction.  A row with a bad *)
(* field, department, mobile or mail is noted and passed over.             *)

StartImport(p, s) ==
  /\ UserBegins(p, "import")
  /\ uReq' = [uReq EXCEPT ![p] = [UserIdle EXCEPT !.op = "import", !.stage = "row", !.sheet = s]]
  /\ UNCHANGED <<UserTables, uLock>>

SkipRow(p) ==
  /\ uReq[p].stage = "row" /\ uReq[p].sheet # <<>>
  /\ uReq' = [uReq EXCEPT ![p].sheet = Tail(@)]
  /\ UNCHANGED <<UserTables, uLock>>

\* Is there a user of that name?  Rows of this import count, rows of others do
\* not before they commit.
FindImported(p) ==
  LET r == uReq[p]
      n == Head(r.sheet)
  IN
  /\ r.stage = "row" /\ r.sheet # <<>>
  /\ \/ /\ Named(n) = {} /\ n \notin r.added
        /\ uReq' = [uReq EXCEPT ![p].added = @ \cup {n}, ![p].sheet = Tail(@)]
     \/ /\ n \in r.added
        /\ uReq' = [uReq EXCEPT ![p].sheet = Tail(@)]
     \/ \E u \in Named(n) : uReq' = [uReq EXCEPT ![p].stage = "found", ![p].user = u]
  /\ UNCHANGED <<UserTables, uLock>>

\* UPDATE by id: it waits for the row, and changes nothing when the row is gone.
\* The columns it sets are none of the model's.
UpdateImported(p) ==
  LET u == uReq[p].user IN
  /\ uReq[p].stage = "found"
  /\ IF u \in uLive
     THEN UserFree(u, p) /\ uLock' = [uLock EXCEPT ![u] = p]
     ELSE UNCHANGED uLock
  /\ uReq' = [uReq EXCEPT ![p].stage = "row", ![p].user = Nobody, ![p].sheet = Tail(@)]
  /\ UNCHANGED UserTables

\* The inserted rows become visible, each without posts.
CommitImport(p) ==
  LET names == uReq[p].added
      new   == uBorn + 1 .. uBorn + Cardinality(names)
  IN
  /\ uReq[p].stage = "row" /\ uReq[p].sheet = <<>>
  /\ new \subseteq UserId
  /\ \E f \in [new -> names] :
       /\ \A n \in names : \E u \in new : f[u] = n
       /\ uName' = [u \in UserId |-> IF u \in new THEN f[u] ELSE uName[u]]
  /\ uBorn' = uBorn + Cardinality(names)
  /\ uLive' = uLive \cup new
  /\ UserReply(p)
  /\ UNCHANGED <<uColumn, uPost, postOn>>

\* A database error rolls every row of the import back.
RollbackImport(p) ==
  /\ uReq[p].stage \in {"row", "found"}
  /\ UserReply(p)
  /\ UNCHANGED UserTables

-----------------------------------------------------------------------------
(* Transactions that wait for one another in a circle.                     *)

UserWanted(p) ==
  CASE PostsChecked(p, "update") -> {uReq[p].user} \cap uLive
    [] uReq[p].op = "delete" /\ uReq[p].ids # <<>> -> {Head(uReq[p].ids)} \cap uLive
    [] uReq[p].stage = "found" -> {uReq[p].user} \cap uLive
    [] OTHER -> {}

UserCircle(S) ==
  S # {} /\ \A p \in S : \E q \in S \ {p} : \E u \in UserWanted(p) : uLock[u] = q

\* InnoDB rolls one of them back.
UserVictim(p) ==
  /\ \E S \in SUBSET Proc : p \in S /\ UserCircle(S)
  /\ UserReply(p)
  /\ UNCHANGED UserTables

Sheets == UNION {[1 .. k -> Username] : k \in 1 .. MaxSheet}

UserStart(p) ==
  \/ \E n \in Username, Q \in SUBSET Post : StartCreateUser(p, n, Q)
  \/ \E n \in Username : StartRegister(p, n)
  \/ \E u \in UserId, n \in Username, Q \in SUBSET Post : StartUpdateUser(p, u, n, Q)
  \/ \E U \in (SUBSET UserId) \ {{}} : StartDeleteUser(p, U)
  \/ \E s \in Sheets : StartImport(p, s)

UserStep(p) ==
  \/ UsernameTaken(p) \/ ValidatePost(p)
  \/ CreateUser(p) \/ LockUser(p) \/ UpdateUser(p)
  \/ LockUserRow(p) \/ DeleteUsers(p)
  \/ SkipRow(p) \/ FindImported(p) \/ UpdateImported(p) \/ CommitImport(p) \/ RollbackImport(p)
  \/ UserVictim(p)

UserNext == \E p \in Proc : UserStart(p) \/ UserStep(p)

UserSpec == UserInit /\ [][UserNext]_usersVars

-----------------------------------------------------------------------------
(* Properties *)

\* Types of the variables.
UserTypeOK ==
  /\ uBorn \in 0 .. MaxUser
  /\ uLive \subseteq 1 .. uBorn
  /\ uName \in [UserId -> Username \cup {None}]
  /\ uColumn \in [UserId -> SUBSET Post]
  /\ uPost \subseteq UserId \X Post
  /\ postOn \subseteq Post
  /\ uLock \in [UserId -> Proc \cup {None}]
  /\ \A p \in Proc : uReq[p].user \in UserId \cup {Nobody}

\* The posts of a user are stored twice; the column and the relation agree
\* between any two statements other requests can see, although two edits each
\* write the difference to what they have read (UpdateUser), and a deleted user
\* keeps no posts (deleteUsers).
UserPostsAgree ==
  \A u \in UserId : PostsOf(u) = IF u \in uLive THEN uColumn[u] ELSE {}

\* Edits and deletions never wait for one another in a circle; it takes an
\* import, which locks the users in the order of its table.
OnlyImportsDeadlock ==
  \A S \in SUBSET Proc : UserCircle(S) => \E p \in S : uReq[p].op = "import"
=============================================================================
