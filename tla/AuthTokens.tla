----------------------------- MODULE AuthTokens -----------------------------
(***************************************************************************)
(* Access and refresh tokens of internal/system/auth: how requests issue,  *)
(* rotate and revoke them over two MySQL tables and the Redis cache that   *)
(* the Java services read first.                                           *)
(*                                                                         *)
(* A request is one HTTP or Feign call, run by its own goroutine.  Every   *)
(* SQL statement, SQL transaction and Redis command is one step of it, so  *)
(* requests interleave between any two of them.  Where Faults is TRUE a    *)
(* step may also fail: the request then ends (an error reply or a crash),  *)
(* or compensates where the code does.                                     *)
(***************************************************************************)
EXTENDS Naturals, FiniteSets, Sequences

CONSTANTS
  User,        \* accounts
  Member,      \* the accounts of user type member; the others are admins
  Tenant,
  TenantOf,    \* the tenant of each account
  Client,      \* the OAuth2 client "default"
  Access,      \* access token values
  Refresh,     \* refresh token values
  Proc,        \* requests that may be in flight at the same time
  Ops,         \* the operations the requests perform
  CanLapse,    \* tenants and clients that may be disabled meanwhile
  CanExpire,   \* tokens whose expiry may pass meanwhile
  Faults,      \* may a step fail, or the process crash?
  AnyTenant,   \* no tenant restriction (restrictTenant <= 0, tenantID < 0)
  None

Issuing  == {"login", "create"}
Leaving  == {"logout", "force"}
Removing == {"remove", "byUser", "disable"}

ASSUME ConstantsAssumption ==
  /\ Member \subseteq User
  /\ TenantOf \in [User -> Tenant]
  /\ Ops \subseteq Issuing \union Leaving \union Removing \union {"refresh"}
  /\ CanLapse \subseteq Tenant \union {Client}
  /\ CanExpire \subseteq Access \union Refresh
  /\ Faults \in BOOLEAN
  /\ None \notin User \union Access \union Refresh
  /\ AnyTenant \notin Tenant
  /\ Access \intersect Refresh = {}

VARIABLES
  access,      \* rows of system_oauth2_access_token
  refresh,     \* rows of system_oauth2_refresh_token
  link,        \* column refresh_token of an access row
  owner,       \* column user_id of a refresh row
  cache,       \* access tokens with a Redis key oauth2_access_token:<token>
  standing,    \* accounts, tenants and clients that are enabled
  expired,     \* tokens whose expires_time has passed
  req,         \* progress and local variables of the requests
  told         \* history: what replies have told the callers

db   == <<access, refresh, link, owner>>
vars == <<access, refresh, link, owner, cache, standing, expired, req, told>>

Row     == {"none", "live", "deleted"}   \* "deleted" is the soft delete
Subject == User \union Tenant \union {Client}

PC == {"idle", "check", "insert", "put", "undoAccess", "undoRefresh",
       "undoCache", "select", "rotate", "evictOld", "list", "next", "find",
       "delAccess", "delRefresh", "evict"}

Request == [pc     : PC,
            op     : Issuing \union Leaving \union Removing
                       \union {"refresh", "none"},
            user   : User \union {None},
            tok    : Access \union {None},
            ref    : Refresh \union {None},
            scope  : Tenant \union {AnyTenant},
            checks : Seq(Subject),    \* validations still to pass, in order
            batch  : SUBSET Access,   \* result of a SELECT, being worked off
            clean  : BOOLEAN]         \* no compensation step failed so far

Idle == [pc |-> "idle", op |-> "none", user |-> None, tok |-> None,
         ref |-> None, scope |-> AnyTenant, checks |-> <<>>, batch |-> {},
         clean |-> TRUE]

Reply == [issued    : SUBSET Access,    \* returned to a caller
          withdrawn : SUBSET (Access \union Refresh), \* fully compensated
          loggedOut : SUBSET Access,    \* Logout answered success
          ended     : SUBSET Access,    \* row found, and removed to the end
          cleared   : SUBSET User]      \* disabled and revoked, not re-enabled

TypeOK ==
  /\ access \in [Access -> Row]
  /\ refresh \in [Refresh -> Row]
  /\ link \in [Access -> Refresh \union {None}]
  /\ owner \in [Refresh -> User \union {None}]
  /\ cache \subseteq Access
  /\ standing \subseteq Subject
  /\ expired \subseteq Access \union Refresh
  /\ req \in [Proc -> Request]
  /\ told \in Reply

Init ==
  /\ access = [a \in Access |-> "none"]
  /\ refresh = [r \in Refresh |-> "none"]
  /\ link = [a \in Access |-> None]
  /\ owner = [r \in Refresh |-> None]
  /\ cache = {}
  /\ standing = Subject
  /\ expired = {}
  /\ req = [p \in Proc |-> Idle]
  /\ told = [issued |-> {}, withdrawn |-> {}, loggedOut |-> {}, ended |-> {},
             cleared |-> {}]

-----------------------------------------------------------------------------
(* Helpers.                                                                *)

SoftDelete(row) == IF row = "live" THEN "deleted" ELSE row

Admin(u) == u \notin Member

\* newToken: a random value no row and no other request has.
FreshAccess(a)  == access[a] = "none" /\ \A q \in Proc : req[q].tok # a
FreshRefresh(r) == refresh[r] = "none" /\ \A q \in Proc : req[q].ref # r

\* Members are never looked up in the table of administrators.
AccountCheck(u) == IF Admin(u) THEN <<u>> ELSE <<>>

\* What a request validates, in the order of the code, before it writes.
Validations(op, u) ==
  CASE op = "login"   -> <<u, TenantOf[u], Client>>
    [] op = "create"  -> <<TenantOf[u], Client>> \o AccountCheck(u)
    [] op = "refresh" -> <<Client>> \o AccountCheck(u) \o <<TenantOf[u]>>

Start(p, r) == /\ req[p].pc = "idle"
               /\ r.op \in Ops
               /\ req' = [req EXCEPT ![p] = r]

At(p, pc) == req[p].pc = pc

Goto(p, pc) == req' = [req EXCEPT ![p].pc = pc]

Finish(p) == req' = [req EXCEPT ![p] = Idle]

-----------------------------------------------------------------------------
(* Issuing: Login, SmsLogin, IssueFor ("login") and CreateAccessToken      *)
(* ("create").                                                             *)

StartIssue(p, u, o, a, r) ==
  /\ o = "login" => Admin(u)
  /\ FreshAccess(a) /\ FreshRefresh(r)
  /\ Start(p, [Idle EXCEPT !.pc = "check", !.op = o, !.user = u, !.tok = a,
                           !.ref = r, !.checks = Validations(o, u)])
  /\ UNCHANGED <<db, cache, standing, expired, told>>

\* One validation: FindByUsername/FindByID and its status, checkTenant,
\* clientByID.  Each reads the current state; nothing is locked.
PassCheck(p) ==
  /\ At(p, "check")
  /\ Head(req[p].checks) \in standing
  /\ LET rest == Tail(req[p].checks)
         after == IF req[p].op = "refresh" THEN "select" ELSE "insert"
     IN  req' = [req EXCEPT ![p].checks = rest,
                            ![p].pc = IF rest = <<>> THEN after ELSE "check"]
  /\ UNCHANGED <<db, cache, standing, expired, told>>

FailCheck(p) ==
  /\ At(p, "check")
  /\ Head(req[p].checks) \notin standing
  /\ Finish(p)
  /\ UNCHANGED <<db, cache, standing, expired, told>>

\* Mutant: the error of the transaction is dropped.
InsertPairLost(p) ==
  /\ At(p, "insert")
  /\ req[p].op \in Issuing
  /\ Goto(p, "put")
  /\ UNCHANGED <<db, cache, standing, expired, told>>

\* Mutant: two statements without a transaction, the second one fails.
InsertPairHalf(p) ==
  /\ At(p, "insert")
  /\ req[p].op \in Issuing
  /\ refresh' = [refresh EXCEPT ![req[p].ref] = "live"]
  /\ owner' = [owner EXCEPT ![req[p].ref] = req[p].user]
  /\ Finish(p)
  /\ UNCHANGED <<access, link, cache, standing, expired, told>>

\* issuePair: both rows in one transaction.
InsertPair(p) ==
  /\ At(p, "insert")
  /\ req[p].op \in Issuing
  /\ access' = [access EXCEPT ![req[p].tok] = "live"]
  /\ refresh' = [refresh EXCEPT ![req[p].ref] = "live"]
  /\ link' = [link EXCEPT ![req[p].tok] = req[p].ref]
  /\ owner' = [owner EXCEPT ![req[p].ref] = req[p].user]
  /\ Goto(p, "put")
  /\ UNCHANGED <<cache, standing, expired, told>>

\* Cache.Put writes nothing for a token that has expired already (ttl <= 0).
Put(p) ==
  /\ At(p, "put")
  /\ cache' = cache \union ({req[p].tok} \ expired)
  /\ told' = [told EXCEPT !.issued = @ \union {req[p].tok}]
  /\ Finish(p)
  /\ UNCHANGED <<db, standing, expired>>

\* Cache.Put fails; the key may have been written all the same.
PutFails(p) ==
  /\ Faults
  /\ At(p, "put")
  /\ cache' \in {cache, cache \union ({req[p].tok} \ expired)}
  /\ Goto(p, "undoAccess")
  /\ UNCHANGED <<db, standing, expired, told>>

\* Mutant: a failed refresh is compensated like a failed login.
AlwaysUndoRefresh(p) == "undoRefresh"

\* compensateIssued: every part is tried, whatever happened to the others.
\* After a refresh the refresh token is kept.
AfterUndoAccess(p) == IF req[p].op = "refresh" THEN "undoCache"
                                               ELSE "undoRefresh"

UndoAccess(p) ==
  /\ At(p, "undoAccess")
  /\ access' = [access EXCEPT ![req[p].tok] = SoftDelete(@)]
  /\ Goto(p, AfterUndoAccess(p))
  /\ UNCHANGED <<refresh, link, owner, cache, standing, expired, told>>

UndoRefresh(p) ==
  /\ At(p, "undoRefresh")
  /\ refresh' = [refresh EXCEPT ![req[p].ref] = SoftDelete(@)]
  /\ Goto(p, "undoCache")
  /\ UNCHANGED <<access, link, owner, cache, standing, expired, told>>

\* Mutant: the key is taken to be absent, because Put has failed.
UndoCacheSkipped(p) ==
  /\ At(p, "undoCache")
  /\ told' = IF req[p].clean
             THEN [told EXCEPT !.withdrawn = @ \union {req[p].tok}] ELSE told
  /\ Finish(p)
  /\ UNCHANGED <<db, cache, standing, expired>>

UndoCache(p) ==
  /\ At(p, "undoCache")
  /\ cache' = cache \ {req[p].tok}
  /\ told' = IF req[p].clean
             THEN [told EXCEPT !.withdrawn = @ \union {req[p].tok} \union
                     (IF req[p].op = "refresh" THEN {} ELSE {req[p].ref})]
             ELSE told
  /\ Finish(p)
  /\ UNCHANGED <<db, standing, expired>>

UndoFails(p) ==
  /\ Faults
  /\ \/ /\ At(p, "undoAccess")
        /\ req' = [req EXCEPT ![p].pc = AfterUndoAccess(p), ![p].clean = FALSE]
     \/ /\ At(p, "undoRefresh")
        /\ req' = [req EXCEPT ![p].pc = "undoCache", ![p].clean = FALSE]
     \/ At(p, "undoCache") /\ Finish(p)
  /\ UNCHANGED <<db, cache, standing, expired, told>>

-----------------------------------------------------------------------------
(* Rotation: Refresh (t = AnyTenant) and RefreshTokenRPC (the tenant of    *)
(* the header, which checkTenant must pass).  Another tenant's token, and  *)
(* another client's, is refused before anything is written.                *)

StartRefresh(p, r, t, a) ==
  /\ refresh[r] = "live"
  /\ \E b \in told.issued : link[b] = r
  /\ t \in {AnyTenant, TenantOf[owner[r]]} \intersect ({AnyTenant} \union standing)
  /\ FreshAccess(a)
  /\ Start(p, [Idle EXCEPT !.pc = "check", !.op = "refresh",
                           !.user = owner[r], !.tok = a, !.ref = r,
                           !.scope = t,
                           !.checks = Validations("refresh", owner[r])])
  /\ UNCHANGED <<db, cache, standing, expired, told>>

LiveAccessOf(r) == {a \in Access : access[a] = "live" /\ link[a] = r}

\* DeleteAccessByRefresh: first the SELECT ...
SelectOld(p) ==
  /\ At(p, "select")
  /\ req' = [req EXCEPT ![p].batch = LiveAccessOf(req[p].ref),
                        ![p].pc = "rotate"]
  /\ UNCHANGED <<db, cache, standing, expired, told>>

\* Mutant: only the cache is cleared of the old access tokens.
RotateCacheOnly(p) ==
  /\ At(p, "rotate")
  /\ Goto(p, "evictOld")
  /\ UNCHANGED <<db, cache, standing, expired, told>>

\* ... then the UPDATE, which may hit rows the SELECT has not returned.
Rotate(p) ==
  /\ At(p, "rotate")
  /\ access' = [a \in Access |-> IF a \in LiveAccessOf(req[p].ref)
                                 THEN "deleted" ELSE access[a]]
  /\ Goto(p, IF req[p].batch = {} THEN "insert" ELSE "evictOld")
  /\ UNCHANGED <<refresh, link, owner, cache, standing, expired, told>>

\* Mutant: the rotated tokens stay in Redis until they expire.
EvictOldSkipped(p) ==
  /\ At(p, "evictOld")
  /\ Goto(p, "insert")
  /\ UNCHANGED <<db, cache, standing, expired, told>>

EvictOld(p) ==
  /\ At(p, "evictOld")
  /\ cache' = cache \ req[p].batch
  /\ Goto(p, "insert")
  /\ UNCHANGED <<db, standing, expired, told>>

DropExpired(p) ==
  /\ At(p, "insert")
  /\ req[p].op = "refresh"
  /\ req[p].ref \in expired
  /\ refresh' = [refresh EXCEPT ![req[p].ref] = SoftDelete(@)]
  /\ Finish(p)
  /\ UNCHANGED <<access, link, owner, cache, standing, expired, told>>

\* newAccess: the refresh row is not read again.
InsertAccess(p) ==
  /\ At(p, "insert")
  /\ req[p].op = "refresh"
  /\ req[p].ref \notin expired
  /\ access' = [access EXCEPT ![req[p].tok] = "live"]
  /\ link' = [link EXCEPT ![req[p].tok] = req[p].ref]
  /\ Goto(p, "put")
  /\ UNCHANGED <<refresh, owner, cache, standing, expired, told>>

-----------------------------------------------------------------------------
(* Revocation: Logout and ForceLogout (removeToken), RemoveAccessToken,    *)
(* RemoveAccessTokensByUser and UpdateStatus(user, disabled).              *)

StartLogout(p, a) ==
  /\ a \in told.issued
  /\ Start(p, [Idle EXCEPT !.pc = "find", !.op = "logout", !.tok = a])
  /\ UNCHANGED <<db, cache, standing, expired, told>>

\* An administrator of tenant t picks a token of the paged list.
StartForceLogout(p, a, t) ==
  /\ access[a] # "none"
  /\ Start(p, [Idle EXCEPT !.pc = "find", !.op = "force", !.tok = a,
                           !.scope = t])
  /\ UNCHANGED <<db, cache, standing, expired, told>>

StartRemove(p, a, t) ==
  /\ a \in told.issued
  /\ Start(p, [Idle EXCEPT !.pc = "next", !.op = "remove", !.tok = a,
                           !.scope = t, !.batch = {a}])
  /\ UNCHANGED <<db, cache, standing, expired, told>>

StartRemoveByUser(p, u) ==
  /\ Start(p, [Idle EXCEPT !.pc = "list", !.op = "byUser", !.user = u,
                           !.scope = TenantOf[u]])
  /\ UNCHANGED <<db, cache, standing, expired, told>>

\* The status is committed first, the tokens are revoked after.
StartDisable(p, u) ==
  /\ Admin(u)
  /\ standing' = standing \ {u}
  /\ Start(p, [Idle EXCEPT !.pc = "list", !.op = "disable", !.user = u,
                           !.scope = TenantOf[u]])
  /\ UNCHANGED <<db, cache, expired, told>>

ListByUser(p) ==
  /\ At(p, "list")
  /\ req' = [req EXCEPT ![p].pc = "next",
                        ![p].batch = {a \in Access :
                                        /\ access[a] = "live"
                                        /\ owner[link[a]] = req[p].user}]
  /\ UNCHANGED <<db, cache, standing, expired, told>>

\* Mutant: the loop over the tokens does not advance.
TakeNextAgain(p, a) ==
  /\ At(p, "next")
  /\ a \in req[p].batch
  /\ req' = [req EXCEPT ![p].pc = "find", ![p].tok = a, ![p].ref = None]
  /\ UNCHANGED <<db, cache, standing, expired, told>>

TakeNext(p, a) ==
  /\ At(p, "next")
  /\ a \in req[p].batch
  /\ req' = [req EXCEPT ![p].pc = "find", ![p].tok = a, ![p].ref = None,
                        ![p].batch = @ \ {a}]
  /\ UNCHANGED <<db, cache, standing, expired, told>>

RemovalReplies(p) ==
  /\ At(p, "next")
  /\ req[p].batch = {}
  /\ told' = IF req[p].op = "disable"
             THEN [told EXCEPT !.cleared = @ \union ({req[p].user} \ standing)]
             ELSE told
  /\ Finish(p)
  /\ UNCHANGED <<db, cache, standing, expired>>

\* Mutant: the tenant of the row is not compared.
AnyScope(p) == TRUE

InScope(p) == req[p].scope \in {AnyTenant, TenantOf[owner[link[req[p].tok]]]}

\* removeToken deletes the refresh row first, RemoveAccessToken the access row.
FindAccess(p) ==
  /\ At(p, "find")
  /\ access[req[p].tok] = "live"
  /\ InScope(p)
  /\ req' = [req EXCEPT ![p].ref = link[req[p].tok],
                        ![p].pc = IF req[p].op \in Leaving THEN "delRefresh"
                                                           ELSE "delAccess"]
  /\ UNCHANGED <<db, cache, standing, expired, told>>

FindForeign(p) ==
  /\ At(p, "find")
  /\ access[req[p].tok] = "live"
  /\ ~InScope(p)
  /\ Finish(p)
  /\ UNCHANGED <<db, cache, standing, expired, told>>

\* No live row: Logout still clears the cache, the others have nothing to do.
FindNothing(p) ==
  /\ At(p, "find")
  /\ access[req[p].tok] # "live"
  /\ CASE req[p].op = "logout"     -> Goto(p, "evict")
       [] req[p].op = "force"      -> Finish(p)
       [] req[p].op \in Removing   -> Goto(p, "next")
  /\ UNCHANGED <<db, cache, standing, expired, told>>

\* Mutant: the refresh row is kept.
DeleteRefreshSkipped(p) ==
  /\ At(p, "delRefresh")
  /\ Goto(p, IF req[p].op \in Leaving THEN "delAccess" ELSE "evict")
  /\ UNCHANGED <<db, cache, standing, expired, told>>

DeleteRefresh(p) ==
  /\ At(p, "delRefresh")
  /\ refresh' = [refresh EXCEPT ![req[p].ref] = SoftDelete(@)]
  /\ Goto(p, IF req[p].op \in Leaving THEN "delAccess" ELSE "evict")
  /\ UNCHANGED <<access, link, owner, cache, standing, expired, told>>

\* Mutant: a removal ends after the access row.
DeleteAccessLast(p) ==
  /\ At(p, "delAccess")
  /\ access' = [access EXCEPT ![req[p].tok] = SoftDelete(@)]
  /\ Goto(p, "evict")
  /\ UNCHANGED <<refresh, link, owner, cache, standing, expired, told>>

DeleteAccess(p) ==
  /\ At(p, "delAccess")
  /\ access' = [access EXCEPT ![req[p].tok] = SoftDelete(@)]
  /\ Goto(p, IF req[p].op \in Leaving THEN "evict" ELSE "delRefresh")
  /\ UNCHANGED <<refresh, link, owner, cache, standing, expired, told>>

\* Mutant: the Redis key is left to its TTL.
EvictSkipped(p) ==
  /\ At(p, "evict")
  /\ told' = [told EXCEPT !.loggedOut = @ \union {req[p].tok}]
  /\ Finish(p)
  /\ UNCHANGED <<db, cache, standing, expired>>

Evict(p) ==
  /\ At(p, "evict")
  /\ cache' = cache \ {req[p].tok}
  /\ told' = [told EXCEPT
       !.ended = @ \union (IF req[p].ref = None THEN {} ELSE {req[p].tok}),
       !.loggedOut = @ \union (IF req[p].op = "logout" THEN {req[p].tok}
                                                       ELSE {})]
  /\ IF req[p].op \in Leaving THEN Finish(p) ELSE Goto(p, "next")
  /\ UNCHANGED <<db, standing, expired>>

-----------------------------------------------------------------------------
(* The rest of the system.                                                 *)

\* A call returns an error, or the process dies, between two steps.
Abort(p) ==
  /\ Faults
  /\ ~At(p, "idle")
  /\ Finish(p)
  /\ UNCHANGED <<db, cache, standing, expired, told>>

\* UpdateStatus(user, enabled).
Enable(u) ==
  /\ "disable" \in Ops
  /\ u \in User \ standing
  /\ standing' = standing \union {u}
  /\ told' = [told EXCEPT !.cleared = @ \ {u}]
  /\ UNCHANGED <<db, cache, expired, req>>

Lapse(s) ==
  /\ s \in CanLapse \intersect standing
  /\ standing' = standing \ {s}
  /\ UNCHANGED <<db, cache, expired, req, told>>

Restore(s) ==
  /\ s \in CanLapse \ standing
  /\ standing' = standing \union {s}
  /\ UNCHANGED <<db, cache, expired, req, told>>

\* expires_time passes; the TTL of the Redis key ends with it.
Expire(x) ==
  /\ x \in CanExpire \ expired
  /\ \/ x \in Access /\ access[x] # "none"
     \/ x \in Refresh /\ refresh[x] # "none"
  /\ expired' = expired \union {x}
  /\ cache' = cache \ {x}
  /\ UNCHANGED <<db, standing, req, told>>

Issue(p) ==
  \/ \E u \in User, o \in Issuing, a \in Access, r \in Refresh :
       StartIssue(p, u, o, a, r)
  \/ \E r \in Refresh, t \in Tenant \union {AnyTenant}, a \in Access :
       StartRefresh(p, r, t, a)

Revoke(p) ==
  \/ \E a \in Access : StartLogout(p, a)
  \/ \E a \in Access, t \in Tenant :
       StartForceLogout(p, a, t) \/ StartRemove(p, a, t)
  \/ \E u \in User : StartRemoveByUser(p, u) \/ StartDisable(p, u)

\* The steps a request in flight takes by itself.
Progress(p) ==
  \/ PassCheck(p) \/ FailCheck(p) \/ InsertPair(p) \/ Put(p)
  \/ UndoAccess(p) \/ UndoRefresh(p) \/ UndoCache(p)
  \/ SelectOld(p) \/ Rotate(p) \/ EvictOld(p) \/ DropExpired(p)
  \/ InsertAccess(p) \/ ListByUser(p) \/ RemovalReplies(p)
  \/ \E a \in Access : TakeNext(p, a)
  \/ FindAccess(p) \/ FindForeign(p) \/ FindNothing(p)
  \/ DeleteRefresh(p) \/ DeleteAccess(p) \/ Evict(p)

Mishap(p) == PutFails(p) \/ UndoFails(p) \/ Abort(p)

World ==
  \/ \E u \in User : Enable(u)
  \/ \E s \in Tenant \union {Client} : Lapse(s) \/ Restore(s)
  \/ \E x \in Access \union Refresh : Expire(x)

Next ==
  \/ \E p \in Proc : Issue(p) \/ Revoke(p) \/ Progress(p) \/ Mishap(p)
  \/ World

Spec == Init /\ [][Next]_vars

\* Every database and Redis call returns, so a goroutine keeps running.
FairSpec == Spec /\ \A p \in Proc : WF_vars(Progress(p))
-----------------------------------------------------------------------------
(* Safety, for any number of concurrent requests and any failures.         *)

RowOf(x) == IF x \in Access THEN access[x] ELSE refresh[x]

\* Redis only ever holds tokens that MySQL has committed (newAccess and
\* issuePair publish after the insert), so Java never accepts a token that
\* was not, or not yet, issued.
PublishedAfterCommit == \A a \in cache : access[a] # "none"

\* InsertPair: a refresh row never exists without the access row of its pair,
\* so a failed login leaves nothing that could be refreshed.
PairsAreAtomic ==
  \A r \in Refresh : refresh[r] # "none" =>
    \E a \in Access : access[a] # "none" /\ link[a] = r

\* Once Logout has answered success, neither the Go check (MySQL) nor Java
\* (Redis) accepts the token again, whatever rotations, failed or repeated
\* logouts and revocations ran beside it.
LogoutEndsToken ==
  \A a \in told.loggedOut : access[a] = "deleted" /\ a \notin cache

\* A removal that found the row and ran to its end has ended the session: the
\* refresh token is as dead as the access token, in either deletion order.
RemovalEndsSession ==
  \A a \in told.ended :
    /\ access[a] = "deleted"
    /\ link[a] # None => refresh[link[a]] = "deleted"

\* compensateIssued: when it reports no error, no row and no Redis key of the
\* tokens it withdrew is left, even if the failed Put had reached Redis.
WithdrawnLeavesNothing ==
  \A x \in told.withdrawn : RowOf(x) = "deleted" /\ x \notin cache

\* A revocation or rotation on behalf of a tenant never reaches the rows of
\* another tenant.
ScopedToTenant ==
  \A p \in Proc :
    req[p].pc \in {"delAccess", "delRefresh", "evict", "rotate", "evictOld"}
    /\ req[p].scope # AnyTenant =>
      IF req[p].op = "refresh"
      THEN TenantOf[owner[req[p].ref]] = req[p].scope
      ELSE TenantOf[owner[link[req[p].tok]]] = req[p].scope

\* No outcome of a refresh costs the caller an unexpired refresh token: after
\* any failure of the rotation it can be presented again.
RefreshKeepsSession ==
  [][\A r \in Refresh :
       refresh[r] = "live" /\ refresh'[r] # "live" =>
         \/ r \in expired
         \/ \E p \in Proc : /\ req[p].ref = r
                            /\ req[p].op # "refresh"
                            /\ req[p].pc \in {"delRefresh", "undoRefresh"}]_vars

-----------------------------------------------------------------------------
(* The inductive invariant behind the properties above.                    *)

Producing == Issuing \union {"refresh"}

\* Columns of a row are set for good when the row is inserted.
RowsOK ==
  /\ \A a \in Access : access[a] # "none" =>
       link[a] \in Refresh /\ refresh[link[a]] # "none"
  /\ \A r \in Refresh : refresh[r] # "none" => owner[r] \in User

\* Which operation can be at which step.
StepOK(q) ==
  /\ q.pc \in {"check", "insert", "put", "undoAccess", "undoCache"} =>
       q.op \in Producing
  /\ q.pc = "check" => q.checks # <<>>
  /\ q.pc = "undoRefresh" => q.op \in Issuing
  /\ q.pc \in {"select", "rotate", "evictOld"} => q.op = "refresh"
  /\ q.pc \in {"list", "next"} => q.op \in Removing
  /\ q.pc \in {"find", "delAccess", "delRefresh", "evict"} =>
       q.op \in Leaving \union Removing
  /\ q.op = "logout" => q.scope = AnyTenant /\ q.tok \in told.issued
  /\ q.op = "remove" => q.tok \in Access
  /\ q.op = "disable" => q.user \in User

\* The tokens a request is issuing: reserved, then inserted but not told.
ReservationOK(q) ==
  /\ q.pc \in {"check", "insert", "select", "rotate", "evictOld"} =>
       /\ q.tok \in Access
       /\ access[q.tok] = "none"
       /\ q.ref \in Refresh
       /\ q.user \in User
       /\ q.op \in Issuing => refresh[q.ref] = "none"
       /\ q.op = "refresh" =>
            /\ refresh[q.ref] # "none"
            /\ q.scope \in {AnyTenant, TenantOf[owner[q.ref]]}
  /\ q.pc \in {"put", "undoAccess", "undoRefresh", "undoCache"} =>
       /\ q.tok \in Access
       /\ access[q.tok] # "none"
       /\ link[q.tok] = q.ref
       /\ q.tok \notin told.issued
       /\ q.tok \notin told.withdrawn
  /\ q.clean /\ q.pc \in {"undoRefresh", "undoCache"} =>
       access[q.tok] = "deleted"
  /\ q.clean /\ q.pc = "undoCache" /\ q.op \in Issuing =>
       refresh[q.ref] = "deleted"

\* How far a removal has come with the token it is working on.
RemovalOK(q) ==
  /\ q.pc = "find" =>
       q.tok \in Access /\ access[q.tok] # "none" /\ q.ref = None
  /\ q.pc \in {"delAccess", "delRefresh"} =>
       /\ q.tok \in Access
       /\ access[q.tok] # "none"
       /\ q.ref = link[q.tok]
       /\ q.scope \in {AnyTenant, TenantOf[owner[q.ref]]}
  /\ q.pc = "delAccess" /\ q.op \in Leaving => refresh[q.ref] = "deleted"
  /\ q.pc = "delRefresh" /\ q.op \in Removing => access[q.tok] = "deleted"
  /\ q.pc = "evict" =>
       /\ q.tok \in Access
       /\ access[q.tok] = "deleted"
       /\ q.ref = None => q.scope = AnyTenant
       /\ q.ref # None =>
            /\ q.ref = link[q.tok]
            /\ refresh[q.ref] = "deleted"
            /\ q.scope \in {AnyTenant, TenantOf[owner[q.ref]]}
  /\ \A a \in q.batch : access[a] # "none"

RequestOK(q) == StepOK(q) /\ ReservationOK(q) /\ RemovalOK(q)

\* No two requests issue the same token.
ReservationsDistinct ==
  \A p, q \in Proc : p # q =>
    /\ req[p].op \in Producing /\ req[q].op \in Producing =>
         req[p].tok # req[q].tok
    /\ req[p].op \in Issuing /\ req[q].op \in Issuing =>
         req[p].ref # req[q].ref

\* Every token the callers or Redis know of has been inserted.
KnownTokensOK ==
  /\ \A a \in told.issued : access[a] # "none"
  /\ told.loggedOut \subseteq told.issued
  /\ \A a \in told.ended : access[a] = "deleted"

LedgerOK ==
  /\ KnownTokensOK
  /\ PublishedAfterCommit
  /\ PairsAreAtomic
  /\ LogoutEndsToken
  /\ RemovalEndsSession
  /\ WithdrawnLeavesNothing

IInv ==
  /\ TypeOK
  /\ RowsOK
  /\ \A p \in Proc : RequestOK(req[p])
  /\ ReservationsDistinct
  /\ LedgerOK

-----------------------------------------------------------------------------
(* Safety when requests run one after the other.                           *)

\* Rotation replaces: at most one live access token hangs on a refresh token,
\* whichever steps of earlier rotations failed.
OneAccessPerRefresh ==
  \A a, b \in Access :
    access[a] = "live" /\ access[b] = "live" /\ link[a] = link[b] => a = b

\* After a complete removal no access token of the session is left.
SessionOver ==
  \A a \in told.ended, b \in Access :
    link[b] = link[a] => access[b] # "live"

\* With no request in flight and no failure so far, Redis and MySQL agree on
\* every token that a caller holds.
CacheCoherent ==
  (\A p \in Proc : At(p, "idle")) =>
    cache = {a \in told.issued \ expired : access[a] = "live"}

-----------------------------------------------------------------------------
(* Liveness.                                                               *)

\* No request waits for another or loops: each one comes to its reply.
RequestsFinish == \A p \in Proc : ~At(p, "idle") ~> At(p, "idle")
=============================================================================
