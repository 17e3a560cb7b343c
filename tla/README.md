# TLA+ models of yudao-cloud-go

yudao-cloud-go is a Go rewrite of the `system` and `infra` services of the Java
project yudao-cloud. A process serves HTTP requests and Feign calls, and shares
MySQL, Redis and Nacos with other processes and with the Java services that run beside
it. It keeps almost no state in memory: a request is one goroutine that runs a sequence
of SQL statements, SQL transactions and Redis commands, and everything that is hard
about it happens *between* two of these. This directory models the parts where that
matters, checks them with TLC on small instances, and proves the most important results
for instances of any size with TLAPS.

    tlc -workers 2 -config AuthTokensRace.cfg MCAuthTokens.tla
    tlapm AuthTokens_proofs.tla

Contents: 1 the system; 2 the modules; 3 what TLC checks; 4 what is proved;
5 where the code promises less; 6 not modelled; 7 what is left.

## 1. The system

| Component (`src/internal/...`) | State | Operations that change it | What makes it correct | Module |
|---|---|---|---|---|
| `system/auth` tokens | `system_oauth2_access_token`, `system_oauth2_refresh_token` (soft delete), Redis keys `oauth2_access_token:*` read by Java | log in, create, refresh, log out, force out, remove one / all of a user | Redis never ahead of MySQL; ended sessions stay ended; a failed operation leaves nothing usable; tenants are isolated | `AuthTokens` |
| `system/auth` SMS codes | `system_sms_code` | send, discard, use (login, Feign), reset password | a code is used once; a code whose send failed and was withdrawn is unusable; frequency and daily limit | `SmsCode` |
| `system/captcha` | Redis: challenge, second verification | create, check, verify | each is used once | `Captcha` |
| `system/identity` | OAuth2 codes and approvals; social users, bindings, Redis states | authorize, exchange; log in, bind, rebind, unbind | codes and states are used once; the last consent counts; one binding per social user | `OAuth2`, `Social` |
| `system/directory` grants | tenants, packages, menus, roles, `system_role_menu`, `system_user_role` | grant menus and roles, delete roles/menus/users/tenants/packages, create a tenant, change its package | no grants of deleted roles, none outside of the package, no deadlock | `RoleGrants` |
| `system/directory` departments, `permissionrpc` | `system_dept`, data scope of a role | create, move, delete (single and list), name in a data scope, walk down | a forest without cycles; orphans only where the code does not lock; no deadlock but by data scopes | `DeptTree` |
| `system/directory` users | `system_users` with `post_ids`, `system_user_post` | create, register, edit, delete, import | the two copies of a user's posts agree | `Users` |
| `system/directory` Java caches | Redis keys Spring writes | bounded SCAN + DEL after a commit | no stale entry survives an eviction that succeeded | `JavaCaches` |
| tables of the back office (roles, menus, posts, dictionaries, tenants, packages, notices, templates, accounts, channels, clients, parameters, data sources, contacts, categories) | one table each, no unique keys | save, delete, delete a list, rename | names are unique, references point at something | `Crud`, `Tables` |
| `system/message` | send logs, site messages | send by a vendor, the robot or SMTP; report of delivery; read | a log tells what happened; a report is not lost | `Messages` |
| `infra/file` | configurations, one of them the master; rows and objects | CRUD, switch of the master, upload, delete over five storages | there is one master; a row has its object | `Files` |
| `infra/codegen` | definitions and their columns, the catalog of MySQL | import, edit, synchronise, delete | a definition lists what was read, once | `Codegen` |
| `infra/demo03` | students, courses, grades | nested and separate saves, deletions | children go with their student | `Students` |
| `platform/app`, `platform/ws` | listeners and pools; sessions in memory, Redis Pub/Sub | start, fail to start, shut down; connect, publish, deliver | resources close after their users; each message arrives once | `Lifecycle` |
| `platform/job` | MySQL `GET_LOCK` | clean old logs in batches | one process at a time; the lock is given back | `Cleanup` |
| `platform/nacos` | registration; pool of clients | register, deregister, discover, close | listed only while it runs, with everything open but a port that failed; no call on a closed client | `Lifecycle`, `Discovery` |

Components meet in MySQL and Redis and by direct calls: `directory.UpdateStatus` calls
`auth.RevokeAdminTokens` through a callback; `auth.SendSmsCode` calls `message` through
`codeSender` in `platform/app`; social login ends in `auth.IssueFor`; Java reads the
Redis keys that `auth` and `directory` write; every process delivers what any of them
publishes.

Hard to test are: requests that overlap between a check and the write it justifies;
several writes of one operation without a transaction; MySQL and Redis, which share no
transaction; compensation that itself fails; row locks and their order; calls of
vendors that may or may not have happened; processes that die or stop while others go
on. `PROJECT.json` lists these at their lines, with the property that covers each.

## 2. The modules

| Module | What it is |
|---|---|
| `Requests` | requests in flight, shared by the modules of the administration; `Processes` adds copies of the program |
| `AuthTokens` | sessions: rows, cache, and every request that issues, rotates or revokes tokens |
| `SingleUse` | what a one-time credential promises (abstract), with the theorem that it keeps it |
| `SmsCode` | SMS codes of one mobile number; implements `SingleUse` |
| `OAuth2`, `Captcha`, `Social` | authorization codes and approvals; challenges and verifications; states, social users and bindings. Each one-time credential implements `SingleUse` |
| `RoleGrants` | roles, menus, users' roles and tenant packages, with row locks |
| `DeptTree`, `Users`, `JavaCaches` | the directory: departments with row locks, users with their posts, eviction of Spring's caches |
| `Crud`, `Tables` | how a table is edited, and the program of every request of nineteen tables |
| `Messages`, `Files`, `Students`, `Codegen` | the rest of the back office |
| `Lifecycle`, `Cleanup`, `Discovery` | what runs beside the requests |
| `MCAuthTokens`, `MCSmsCode`, `MCRoleGrants`, `MCDirectory`, `MCCredentials`, `MCBackOffice`, `MCPlatform` | constants, symmetry and composition for TLC |
| `AuthTokens_proofs`, `SmsCode_proofs`, `RoleGrants_proofs`, `Credentials_proofs`, `Directory_proofs`, `BackOffice_proofs`, `Platform_proofs` | inductive invariants and theorems |

All models have the same shape. A record per request (`req[p]`, `uReq[p]`, `crud[p]`,
`oauth[p]`, ...) is its goroutine: its program counter and the local variables it
carries from one statement to the next. `Start...` is its entry with the validations of
its arguments; every other action is one statement, transaction, row lock or Redis
command, with the Go code up to the next one. A request that fails or dies between any
two steps is an action of its own. A definition that only lists the requests of a
component (`CodegenStep`, `MessageStep`, ...) is mapped to its table of routes; records
of requests at rest, guards on the bounds and unions of steps translate no code and are
not mapped. Variables called *history* (`told`, `raced`,
`tainted`, `contested`, `late`, `excused`, `due`, ...) record what has happened for the
properties; no guard reads them. Definitions marked *Mutant* are used by no
specification. They are plausible bugs that the checks must detect: each property was
seen to fail with one of them in place.

### AuthTokens

`access` and `refresh` are the rows (`none`, `live`, `deleted`: rows are never
removed), `link` and `owner` their columns, `cache` the Redis keys, `standing` the
accounts, tenants and clients that are enabled.

| Code | Actions |
|---|---|
| `Login`, `SmsLogin`, `IssueFor`, `Register` (`issue`) and `CreateAccessToken` | `StartIssue`, `PassCheck`/`FailCheck` per validation in the order of the code, `InsertPair`, `Put` |
| `issuePair`/`newAccess` on a failed `Put`: `compensateIssued` | `PutFails`, `UndoAccess`, `UndoRefresh` (not after a refresh), `UndoCache`, `UndoFails` |
| `refreshToken` | `StartRefresh`, checks, `SelectOld`, `Rotate`, `EvictOld`, `DropExpired` or `InsertAccess`, `Put` |
| `removeToken` (`Logout`, `ForceLogout`) | `Find...`, `DeleteRefresh`, `DeleteAccess`, `Evict` |
| `RemoveAccessToken`, `RemoveAccessTokensByUser`, `UpdateStatus` + `RevokeAdminTokens` | `ListByUser`, `TakeNext`, `Find...`, `DeleteAccess`, `DeleteRefresh`, `Evict`, `RemovalReplies` |

`removeToken` deletes the refresh row first and `RemoveAccessToken` the access row
first; the model keeps both orders. `DeleteAccessByRefresh` is two statements and two
steps. A failed `Put` may have written the key (a timeout); it is taken to have done so
before the error returns, or never. Token values are fresh (`newToken` is random).

### SingleUse and the credentials

`SingleUse` is a ticket: issued once, then redeemed by at most one request or
cancelled. Five kinds of credentials implement it.

- `SmsCode` keeps the rows of `system_sms_code` by id with code, scene, creation time
  and index of the day, and a clock. `createSmsCode` is `ReadLast`,
  `RefuseSend`/`DrawCode`, `InsertSmsCode`; then `SendCode`, or `SendCodeFails` and
  `DiscardSmsCode`, which deletes *by value* the newest unused row. `useSmsCode` is
  `LastSmsCode`, `Judge`, `UseSmsCode` (the conditional `UPDATE`) or `UseTooLate`;
  `ResetPassword` goes on with `UpdatePassword`. All queries filter by the mobile
  number, so one number is modelled.
- `Captcha`: GETDEL takes a challenge, whether or not the answer is right, and then the
  verification that a right answer has made.
- `OAuth2`: a code is read by `SELECT ... FOR UPDATE` (`ConsumeCode`) and deleted in the
  same transaction (`DeleteCode`), before client, address and state are compared. Beside
  it, the approvals of scopes: an `UPDATE` and, unless it changed exactly one row, an
  `INSERT`, so rows may multiply (`MaxApprove`).
- `Social`: a state goes to the platform and comes back; GETDEL consumes it. The social
  user is a `SELECT` followed by an `INSERT` or `UPDATE`; a state that nobody brings back
  is void after its five minutes (`StateExpires`); a binding is a transaction of
  two deletions and an insert (`DropBySocial`, `DropByUser`, `Rebind`).

### RoleGrants

The grant services validate by plain `SELECT`s (`Start...`) and then run a transaction
that locks rows: `LockTenant`, `LockRole` (one row each, by id), `UpdateTenant`. What
is read under the locks (`ReadPackage`, `Sync`) is a step of its own, because it reads
what others have committed meanwhile. A transaction's writes become visible at
`Commit...`, where its locks are released. `FOR UPDATE` reads the row as last
committed, so `LockRole` requires a live role and `RoleGone` is the other case:
an error for a grant or deletion, one row less for `syncTenantMenus`. Locks on relation
rows are not modelled: they are taken last, and only while the role row is held, or by
single statements. Disabled roles and packages, and the branch of the system tenant,
exist in the model as far as it needs them but are not exercised by the runs.

### DeptTree, Users, JavaCaches

`DeptTree` has the rows of `system_dept` (`live`, `parent`), the data scope of a role
(`custom`), and `owner[r]`, the transaction that holds a row's lock. A move walks up
from its new parent without locks (`WalkUp`), then locks *every* department by id
(`LockRow`) and checks the chain again (`UpdateDept`). A deletion locks its rows by id,
looks for children by a plain `SELECT` (`CheckChildren`) and deletes. A creation locks
nothing. A data scope locks in the order of the request, so transactions may wait in a
circle, and `Victim` is InnoDB's answer. A query (`ReadRoles`, `ReadLevel`, `Answer`)
walks down one level per `SELECT`.

`Users` stores the posts of a user twice, in `post_ids` and as rows. An edit locks the
row, reads the relation under that lock and writes the difference (`LockUser`,
`UpdateUser`). An import works through its table in one transaction: rows it has
inserted are seen by itself only until `CommitImport`.

`JavaCaches` follows one key of Redis (`watched`): every write has a plan of DEL and
complete SCAN commands to send after its commit (`jReq`), each of which may fail, and
Java may put a value it has read before (`filling`). `excused` records the reasons the
code accepts for a stale entry.

### Crud and Tables

In `Crud` a request is a program of steps: SELECTs that may refuse it (`"name"`,
`"code"`, `"parent"`, `"unused"`, ...), row locks where the code takes them, and one
write at the end. Each step is a statement of its own, so others commit between a check
and the write it was made for; `tainted` remembers the rows for which that has
happened. `Tables` gives the program of each request of each table, in the order of the
code: a new check in the code is a new step in a program.

### Messages, Files, Students, Codegen

`Messages` inserts a log row, calls the vendor, and finishes the row with what the
vendor replied; the call may reach the vendor without its reply being read, the process
may die, and reports of delivery come in any order, early, late or twice. The five
channels for text messages, mail and site messages differ in what counts as success and
by what a report finds its row.

`Files` has configurations, rows and objects. The five storages differ in what a failed
or interrupted write leaves (`localUpload`, `ftpUpload`, ... : nothing, a torn object or
a whole one) and in what a deletion of a missing object says.

`Students` writes nested forms in one transaction that others see at its commit
(`BeginSave`, `CommitSave`), next to single courses and grades that never look for
their student. `Codegen` reads MySQL's catalog and its own tables, plans
(`Deletes`, `Inserts` of `syncPlan`) and then commits, while the physical table changes
and other requests do the same.

### Lifecycle, Cleanup, Discovery

`Lifecycle` starts a process step by step (`Open` in the order of `Start`, or
`OpenFails`), registers it with retries, and stops it in the order of `shutdown`:
`Deregister`, `Drain` or `DrainTimesOut`, `CloseBroadcaster`, `WaitForListener`,
`CloseStores`. `Signal` cancels the context at any stage (`cancelled`), also while the
process still starts or registers; what is stopped then is stopped after the start
(`Shutdown`). `ServeFails` closes the port of a process that goes on (`deaf`), since the
code only logs it. Close closes the subscription first and then waits for the listener,
which may still be writing to a client and ends at its next read (`Quit`), or earlier if
the connection breaks (`QuitsEarly`). Beside it runs the broadcaster: `publishRequest`
puts a message in the feed of every subscribed process, `listen` takes it and chooses
the sessions, `send` writes to one; a client that does not read blocks its write until
it goes.

`Cleanup` follows the job that `Start` leaves running and the sessions of MySQL. A
signal ends the wait for its next turn while the pool is closed under it (`shut`,
`CloseDB`), so it may still be at work when nothing is open any more: the lock belongs
to a session (`lock`), a session may break at any moment (`ended`, `closing`), and a job
that cannot say whether its unlock arrived discards its connection (`UnlockFails`).
`Discovery` has the mutex of the table of clients (`mu`), one for each client (`owner`),
the clients that are open, and `CloseDiscovery`, which closes them one by one.

## 3. What TLC checks

Twelve runs; each cfg is named after its run. `PROJECT.json` gives for every property
the mutant of the code that breaks it.

| Run | Instance | States | Shows |
|---|---|---|---|
| `AuthTokensRace` | 2 overlapping requests, 2 access and 2 refresh tokens, 1 user, failures anywhere | 418k | `PublishedAfterCommit`, `PairsAreAtomic`, `LogoutEndsToken`, `RemovalEndsSession`, `WithdrawnLeavesNothing`, `RefreshKeepsSession` |
| `AuthTokensSerial` | 1 request at a time, 2 tenants, an administrator and a member, 3 access tokens, failures, expiry | 1.4M | `OneAccessPerRefresh`, `SessionOver`, `ScopedToTenant` |
| `AuthTokensCalm` | 1 request at a time, all operations, no failures | 33k | `CacheCoherent`, liveness `RequestsFinish` |
| `SmsCodeRace` | 2 requests, 2 rows, 2 codes, 2 scenes, failures | 1.6M | `UndeliveredUnusable` (the rows left are those delivered, on their way, abandoned by a send that crashed or could not withdraw, or used too early), `ImplementsSingleUse` |
| `SmsCodeLimits` | 1 sender beside a user, 3 rows, change of day | 1.0M | `LimitsKept` |
| `RoleGrants` | 2 transactions, 1 tenant (created in the run), 2 packages, 2 roles, 1 menu, 1 user | 777k | `DeletedRoleHasNoGrants`, `GrantsWithinPackage`, `NoCircularWait` |
| `Directory` | 2 requests; 3 departments, or 2 users with 2 posts, or caches of 2 roles | 1.3M | `TreeIsAcyclic`, `OnlyRacedOrphans`, `ScopeNamesLive`, `WalkFindsSubtree`, `LocksAreOrdered`, `UserPostsAgree`, `CachesFollow` |
| `Credentials` | 2 requests; 2 scopes and 1 code, or 2 challenges, or 2 openids, accounts and states | 1.7M | `TicketsOnce`, `ConsentIsLastChoice`, `OneBindingUnlessRaced` |
| `BackOffice` | 2 requests; 3 rows of each family of tables, or 2 log rows of each channel, 2 files of each storage, 2 students, 2 definitions | 1.5M | `UniqueUnlessRaced`, `RefsUnlessRaced`, `LogsTellTrue`, `ReportsKept`, `MasterKept`, `FilesKept`, `StudentsWhole`, `DefinitionsWhole` |
| `Platform` | 2 processes, 1 session of a client, 1 message; 2 sessions of MySQL, 2 tables; 2 queries, 2 servers | 105k | `OrderlyLife`, `MessagesArrive`, `OneCleaner`, `ClientsShared`, liveness `PlatformGoesOn` |
| `SmsCodeReset` | violation of `ResetIsAtomic` | | a reset that dies has spent its code |
| `SocialBind` | violation of `LoginCanBeBound` | | a login stores neither code nor state, so a bind after it cannot reuse the exchange |

**Composition.** Components that share no state are checked in one run: the initial
state chooses which one the behaviour is about (`focus`), and the others stand still.
Nothing is lost, since no action of one reads or writes a variable of the other.
Components that do share state are in one module: tokens in MySQL and Redis, roles with
tenants and packages, social users with their bindings, the process with its listener
and its WebSocket sessions.

**Unless raced.** Most tables have no unique key, and the code checks before it writes,
without a lock. Such code cannot keep a name unique under overlap, and no property says
so. What can go wrong, and is hard to see, is that it fails *without* an overlap: that a
check misses a case (a rename, a list, a self-reference), or that one overlap damages
rows it did not touch. `UniqueUnlessRaced`, `RefsUnlessRaced`, `OneBindingUnlessRaced`,
`ConsentIsLastChoice`, `MasterKept`, `StudentsWhole`, `DefinitionsWhole` and
`OnlyRacedOrphans` say that, with a history variable that marks exactly the rows of a
request that was overtaken between its checks and its write. Where the code does take
locks (departments, roles, users, tickets) the properties have no such exception.

**Bounds.** Requests of one kind are unlimited in number unless noted; `Proc` bounds how
many overlap. The races in this code are between two: one that has read and one that
writes.

- Tokens: two access tokens are a session and its rotation, or two sessions of a user;
  three let a rotation fail twice. SMS: two rows are enough for two codes of one value,
  three for the limit of two a day to be exceeded; `MaxRow` and `MaxTime` bound the
  counters.
- Roles: two roles are needed for a wrong lock order, one menu for a grant that its
  package does not have. One request at a time saves the tenant (`Saver`): with two,
  TLC finds `GrantsWithinPackage` violated, see section 5.
- Departments: three rows are the least in which two moves can close a circle beside a
  bystander. A behaviour takes up to three kinds of operations (`DeptMixes`): all that
  change the tree together, and data scopes and walks each against what disturbs them.
  Caches: three writes, of any kind.
- Tables: three rows (two where a table has no references) with two names and codes: two
  rows that clash, and a parent or a bystander. A menu with a component name is at the
  root, others are below row 1; packages are rows 1 and 2; a category whose name may
  clash is below another one, but not below the last row. No menu goes below its own
  descendant (section 5). Once an overlap has left its mark on a row no new request is
  served: what follows would be about rows the property leaves out.
- Messages: two rows, so that a report can hit the wrong one. Files: two
  configurations of one kind of storage; no new request after a configuration was
  edited or deleted. Students: two with two children, ids that nobody remembers are
  given out again. Codegen: one physical table of one or two fields; the form of a
  definition leaves a column its name and its definition, though `mysql.go:270` would
  write others. A receipt's SELECT by serial number and its UPDATE are one step, and a
  body reports on rows in their order. Credentials: two
  tickets of a kind, three bindings; a form of consent names at most as many scopes, in
  any order and repeated or not, as there are scopes.
- Platform: one process runs all the time (`Steady`), the other starts, stops and dies
  at will, and only the other's `Serve` fails; two MySQL sessions, in two pools, let a
  job begin while one of the other process is closing; every process has a broadcaster,
  which `app.go:155` gives to those with the routes of infra only;
  `registerMaxAttempts`, `maxBatchCount` are 2, so that a retry and a full batch happen.
  Three clients let a configuration be opened again after it was closed.

`CHECK_DEADLOCK FALSE` is set where everything may come to an end: all rows deleted, all
tickets spent, all requests of a bound used. The other runs check for deadlock.

**Overlap and succession.** `OneAccessPerRefresh`, `SessionOver` and `CacheCoherent`
are checked with one request at a time, because the code does not promise more: two
refreshes of one token at once both insert an access token, and `EvictOld` removes the
keys of the tokens its `SELECT` has seen, not of those its `UPDATE` hit. The properties
of `AuthTokensRace` hold with any overlap.

**Fairness.** Each liveness property has the fairness of its own component only.

- `AuthTokens`: weak fairness of `Progress(p)`. A request that can take a step takes
  one, because every call of the MySQL and Redis drivers returns and Go schedules every
  runnable goroutine.
- `LifeFairness`: weak fairness of starting, stopping and listening; strong fairness of
  `send(p)`, which is enabled again and again while clients stall and read: the kernel
  completes a blocked write once there is room. Nothing promises that a client reads, a
  request ends or a message comes.
- `CleanFairness`: weak fairness of the job's steps and of MySQL noticing a closed
  connection. None for rows that expire: they may do so as fast as they are deleted, and
  the batches still end.
- `DiscoFairness`: weak fairness of a query under way, because the SDK's calls have
  timeouts; strong fairness of taking a mutex, which Go's `sync.Mutex` grants (after a
  millisecond it hands over to the first waiter).

Nothing is assumed of callers, failures, or the administration.

## 4. What is proved

TLAPS checks these for all values of the constants: any number of requests, rows,
tokens, users, processes and sessions, failures or not. The only assumptions are the
named `...Assumption`s of the modules, which say what kind of thing each constant is.

`AuthTokens_proofs`: `Inductive` (`Spec => []IInv`), and from it type correctness,
`PublishedAfterCommit`, `PairsAreAtomic`, `LogoutEndsToken`, `RemovalEndsSession`,
`WithdrawnLeavesNothing`, `ScopedToTenant` and the action property
`RefreshKeepsSession`. None of them is inductive: whether `Evict` may promise the end of
a session depends on what the request did two steps before. `IInv` adds

- `RowsOK`: the links of a row are set once, to rows that exist;
- `RequestOK` for each request: which operation can be at which step (`StepOK`), that the
  token it is about to insert is still unused and the one it is about to publish has not
  been told to anyone (`ReservationOK`), and which rows a removal has already deleted at
  each step, in either order (`RemovalOK`);
- `ReservationsDistinct`: no two requests issue the same token - without it the step of
  one could break what another has established;
- `KnownTokensOK`: what callers know of exists.

The argument why failures and overlap cannot break the promises is that rows only move
from `none` to `live` to `deleted`, and that a key is written only by the request that
has reserved the token and not yet told anyone, so nobody can have logged it out. The
proof has a step for each action, and under it one for each conjunct the action disturbs.

For requests that run one after the other (`Alone`: there is one request at a time, which
may fail and be followed by others) the same module has three theorems.
`RotationReplaces` and `RemovalEndsAllOfSession` rest on `SessionsOK`: a request that
rotates still finds its refresh token live, has left no live access token of it after
the UPDATE, and a removal works on the only live access token of its session. Without
failures `RedisAgrees` (`CacheCoherent`) rests on `CalmOK`: Redis differs from MySQL only
by the keys the request in flight is about to delete.

`SmsCode_proofs`: `CodesAreSingleUse` shows that `SmsCode` implements `SingleUse`: each
step on the rows is the issue, redemption or cancellation of one ticket, or a stutter.
Its invariant says that ids are given in order (so that an insert issues an unissued
ticket) and that a request holds a row where it needs one. With `OnceOnly` of
`SingleUse` it follows that a code lets at most one request through
(`CodeUsedAtMostOnce`). `UndeliveredStayUnusable` counts, for each value, the rows that
are not deleted, used or not, and the codes that are delivered or underway, were left
behind by a send that crashed or whose `DiscardSmsCode` failed (`stranded`), or were
used before they were discarded (`early`): the numbers are always equal. So a code that
was withdrawn cannot be used, though a code that should have been and was not can be
(`smscode.go:138`). A discard deletes by value and may take the row of another request,
but it only runs after its own message has failed, and removes one of each.
`LimitsStayKept` assumes that one request at a time sends to a number (`OneSender`, as
in the run) and shows that the newest row that counts covers every message sent, so
looking at the last row alone is enough.

`Credentials_proofs`: `AllTicketsOnce` puts together the refinements of `SingleUse` by
challenges, verifications (`CaptchasOnce`), states (`StatesOnce`) and authorization codes
(`CodesOnce`). A verification is issued by the one request that has taken its challenge,
so its invariant says that no two requests hold the same solved challenge. For codes it is
that two requests never hold the same row between `ConsumeCode` and `DeleteCode`.
`OneBinding` shows `OneBindingUnlessRaced`: a request that nobody has overtaken still
knows the truth about the rows it has read, and one that has been is recorded.
`LastChoiceCounts` shows `ConsentIsLastChoice`: outside of contested scopes, all rows of
a scope carry the last choice, however many there are.

`RoleGrants_proofs`: `GrantsEndWithRole`, `NoDeadlock` and, if at most one request
saves tenants (`OneSaver`), `GrantsFollowPackage`. There are two invariants.

- `LockInv` needs no restriction: a request holds the locks its step implies
  (`LocksOK`), the tenant before the roles and each role before those with a higher id;
  a locked role is live; a request at its commit holds every role it writes; and no two
  requests hold the same row (`LocksExclusive`). So a grant can commit only for roles
  that are still live, and a deletion takes away no role another request has locked.
- `PackageInv` says what a request knows between its reads and its commit: the package of
  a tenant cannot change under a grant that holds its row (`GrantOK`), and a role of a
  tenant that is being saved is locked, still to be locked, or without menus (`SaveOK`),
  so a grant cannot slip in behind the change of the package.

For `NoDeadlock`, of the roles that a set of requests wait for, one has the highest id,
and whoever holds it would have to wait for a higher one. That finite sets of ids have a
lowest and a highest element is proved by counting (`LowestFact`, `HighestFact`).
Role ids are assumed to be natural numbers, and the requests in flight finitely many.

`Platform_proofs`: `OneCleanerAtATime` shows `OneCleaner`. The invariant says where a
session of MySQL can be: in one pool, with one job, or closing, never in two places; and
that the lock is with a session of a job that is past taking it, or with one that is
closing. `NobodyAsksAClosedClient` shows `ClientsShared`: who is at a client holds its
mutex, which `CloseDiscovery` must take before it closes that client, and the table of
clients is only changed under its own. `LifeIsOrderly` shows `OrderlyLife`: `LifeOK`
ties the stage of a process to what it has opened, subscribed and registered, through a
start, a shutdown and a failed `Serve`; a listener may be without its subscription while
Close waits for it, but not without Redis. `MessagesReachSessions` shows
`MessagesArrive`: what is on its way to a process is in order (`LineOK`), later than all
its sessions have got (`BoxOK`), and a message that is due to a session is on its way or
has arrived (`DueOK`).

`Directory_proofs`, in parts that share only what is known of locks:

- Departments. `LocksOK` says which rows a request has locked at each stage. `RacedOrphans`
  follows since a deletion holds the row it has checked. `TreeStaysAcyclic` is the hardest:
  a move reads the table, then locks its departments one by one, upwards, and checks the
  chain again only on what it has read. `MoveOK` says how old that can be: whatever it has
  passed over has been inserted since, so a chain of parents of what it has not locked
  descends to smaller ids or runs into locked rows, whose parents it knows. So a cycle
  would have been a cycle in what it has read. `WalksFind` is an invariant on levels: all
  seen so far lies below the start, and no child of an older level is missing.
- Users. An edit writes the difference of the posts it wants and those it has read; the
  lock on the row keeps the latter true (`UsersOK`), hence `PostsAgree`.
- Locks. In `LocksOrdered`, of the rows that a circle waits for one has the highest id,
  and its holder waits for a higher one, unless it locks in another order: a data scope
  or an import. That the rows of a set can be put in order is proved by counting.
- Caches. `CachesFollowWrites` goes through the writes: each has a plan that removes every
  entry it makes stale (`WriteKeeps`). The first save of a role evicts nothing, and
  `CachesOK` says why that is enough: Java cannot hold a role that was not there.

`BackOffice_proofs`: the invariants say what a request may still believe.

- `MasterStays`, `FilesStay`: what an administrator has seen of a configuration is still
  so when he writes, unless he was overtaken, which is on record; an object is whole, or
  on record as deleted or written over.
- `LogsSayWhatIs`, `ReportsShow`: a request that says the vendor took its message has a
  row among the accepted ones (`SenderOK`), and a row says of vendor and reports only what
  is so (`LogRowOK`).
- `StudentsStayWhole`: what a save remembers of the children is so while they are there,
  and a request that has found no grade is marked by everyone who writes one.
- `KeysStayUnique`, `ReferencesStay` are about nineteen tables at once. `Saves` says of a
  request that writes: every check its table needs (`Needs`) is still ahead of it, or has
  found what it looks for, or another request has committed since. `Removes` says the same
  of deletions: every row that goes was found without children (`DropOK`, `DropAllOK`), and
  a list of dictionary types is locked before (`LocksFirst`, `DictOK`). What a category has
  climbed is a set `C` of rows, closed under parents but for the one it reads next, that
  does not hold the category (`Climbed`): when the climb is over, no set of rows that
  contains the category and all its parents is left. One lemma each shows that a check that
  passes, a commit of another request and a write keep this, one for each of the nineteen
  tables that its programs begin with it.
- `DefinitionsStayWhole`: a synchronisation plans, and writes later. `PlanOK` says what it
  may still believe if nobody has passed it: the columns it keeps are those of the fields
  it does not insert. `ImportOK` says that the names checked so far are not taken, or only
  by definitions that are marked. Ids of columns come back into use, but never one that
  another plan remembers.

Assumptions on constants that proofs needed and the code justifies: roles are finitely
many, and values that stand for "nothing" or for a state are not also names of things
(`None` is no permission, no verdict and no table, `"gone"` is no process). `MaxId`, a bound,
is more than one: the row a database comes with needs an id.

**Only model-checked:** liveness (`RequestsFinish`, `PlatformGoesOn`: out of the prover's
reach). Every other property of a passing run is a theorem.

## 5. Where the code promises less

The two violations are places where a comment states more than the code does;
`PROJECT.json` quotes them. The following was met while modelling; each is either
excluded by the wording of a property or a bound above, or has no property.

- **Tokens.** A user is disabled and his tokens listed while a login of his has passed
  its check, or a rotation has stopped half way: a session survives. A removal that dies
  between its rows is not completed by its repetition.
- **Roles.** Two requests that save one tenant at once may keep roles of the package of
  the first (`tenant.go:139`). A package is counted as unused and deleted while a tenant
  moves to it; the comment at `tenant.go:192` promises more. An edit of a package leaves
  the roles as they are.
- **Departments and users.** A department may be created below one that is being
  deleted. A role may be assigned to a user who is being deleted. `UpdateProfile` looks
  at neither mail nor mobile number of others.
- **Menus.** `SaveMenu` refuses only the menu itself as its parent (`access.go:228`): a
  menu can be moved below its own child.
- **Caches.** Single saves and deletions of templates, accounts and clients evict
  nothing in Java; lists do.
- **Messages.** The calls of vendors and SMTP have no timeout of their own. A reply of
  the DingTalk robot that cannot be read counts as success.
- **Files.** A write that breaks off leaves a torn object on local, SFTP and FTP
  storages. The deletion of a configuration does not look for its files. Files of the
  same name and day share a path.
- **Code generator.** Imports number columns from 1 and synchronisations compare with an
  index from 0, so that every synchronisation replaces columns, and the join column of a
  sub-table then names a row that is gone. An import whose list names a table twice
  defines it twice.
- **Demo.** A nested save of a grade without an id adds a second grade.
- **Platform.** While a client does not read, the listener of its process writes to
  nobody else, and a shutdown waits for it. The listener may stop at the signal, before the
  instance is deregistered: messages in between need not arrive. A process whose `Serve`
  has failed stays registered without a port (`app.go:329`). A query of a slow Nacos
  server holds the mutex of the whole table while another one waits for that client
  (`registry.go:215`).

## 6. Not modelled

- `rolepostrpc`, `tenantrpc`, `logger`, `area`, API logs and the Redis
  monitor: single reads, forwarding, or rows that are only appended.
- Handlers as far as they parse requests and render replies; `platform/httpx`,
  `config`, `db`, `cache`, `sheet`: no state that more than one step depends on.
- Rendering, vendor signatures and wire protocols, pictures of captchas, encryption of
  passwords, spreadsheets and generated code: pure computation on bytes. What a vendor
  or a storage did, and whether its reply arrived, is in the models.
- OAuth2 implicit, password and client grants beyond the token they issue (which is
  `AuthTokens`); the quota of registered users; refreshing WeChat's own token; user
  passwords and the columns that only carry data.
- Java's own writes, except that it fills caches; skewed clocks.

## 7. What is left

Every invariant and action property of a passing run is a theorem. What is left are the
hazards of `PROJECT.json` that have no property, because the repository promises nothing
that holds under overlap there, and properties of the parts of section 6.
