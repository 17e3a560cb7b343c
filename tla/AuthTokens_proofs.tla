------------------------- MODULE AuthTokens_proofs -------------------------
(***************************************************************************)
(* The invariants of AuthTokens hold for every set of accounts, tokens and *)
(* requests.  IInv is inductive: a step of request p changes the tables in *)
(* a direction (Evolution) that keeps what the other requests rely on.     *)
(***************************************************************************)
EXTENDS AuthTokens, SequenceTheorems, TLAPS

\* What a step of request p may do to the tables and to the history: rows only
\* go forward, a row is inserted only for a token that p has reserved, and
\* only such a token becomes known.
Evolution(p) ==
  /\ \A a \in Access :
       /\ access[a] # "none" => access'[a] # "none" /\ link'[a] = link[a]
       /\ access[a] = "deleted" => access'[a] = "deleted"
       /\ access[a] = "none" /\ access'[a] # "none" =>
            req[p].op \in Producing /\ a = req[p].tok
  /\ \A r \in Refresh :
       /\ refresh[r] # "none" => refresh'[r] # "none" /\ owner'[r] = owner[r]
       /\ refresh[r] = "deleted" => refresh'[r] = "deleted"
       /\ refresh[r] = "none" /\ refresh'[r] # "none" =>
            req[p].op \in Issuing /\ r = req[p].ref
  /\ told.issued \subseteq told'.issued
  /\ \A a \in told'.issued \ told.issued :
       req[p].op \in Producing /\ a = req[p].tok
  /\ \A x \in told'.withdrawn \ told.withdrawn :
       x \in Access => req[p].op \in Producing /\ x = req[p].tok

DistinctFrom(p, r) ==
  \A q \in Proc \ {p} :
    /\ r.op \in Producing /\ req[q].op \in Producing => r.tok # req[q].tok
    /\ r.op \in Issuing /\ req[q].op \in Issuing => r.ref # req[q].ref

-----------------------------------------------------------------------------

\* A request that does not take the step stays consistent with the tables.
LEMMA OthersKeep ==
  ASSUME IInv, NEW p \in Proc, NEW q \in Proc, p # q,
         Evolution(p), req'[q] = req[q]
  PROVE  RequestOK(req[q])'
<1> DEFINE s == req[q]
<1>1. RequestOK(s) /\ s \in Request /\ RowsOK
  BY DEF IInv, TypeOK
<1>2. /\ req[p].op \in Producing /\ s.op \in Producing => req[p].tok # s.tok
      /\ req[p].op \in Issuing /\ s.op \in Issuing => req[p].ref # s.ref
  BY DEF IInv, ReservationsDistinct
<1>3. StepOK(s)'
  BY <1>1 DEF StepOK, RequestOK, Evolution
<1>4. ReservationOK(s)'
  BY <1>1, <1>2 DEF StepOK, RequestOK, Evolution, ReservationOK, Request, Producing, Issuing, Leaving, Removing, RowsOK, TypeOK, IInv
<1>5. RemovalOK(s)'
  BY <1>1 DEF RequestOK, Evolution, RemovalOK, Request, RowsOK
<1>. QED  BY <1>3, <1>4, <1>5 DEF RequestOK

\* What is known of the tokens survives a step that publishes and tells nothing.
LEMMA QuietLedger ==
  ASSUME IInv, NEW p \in Proc, Evolution(p), TypeOK', RowsOK', PairsAreAtomic',
         cache' \subseteq cache,
         told'.issued = told.issued, told'.withdrawn = told.withdrawn,
         told'.loggedOut = told.loggedOut, told'.ended = told.ended
  PROVE  LedgerOK'
<1>1. LedgerOK /\ TypeOK /\ RowsOK
  BY DEF IInv
<1>2. KnownTokensOK'
  BY <1>1 DEF LedgerOK, KnownTokensOK, Evolution, TypeOK, Reply
<1>3. PublishedAfterCommit'
  BY <1>1 DEF LedgerOK, PublishedAfterCommit, Evolution, TypeOK
<1>4. LogoutEndsToken'
  BY <1>1 DEF LedgerOK, LogoutEndsToken, Evolution, TypeOK, Reply
<1>5. RemovalEndsSession'
  BY <1>1 DEF LedgerOK, RemovalEndsSession, Evolution, TypeOK, Reply, RowsOK, KnownTokensOK
<1>6. WithdrawnLeavesNothing'
  BY <1>1 DEF LedgerOK, WithdrawnLeavesNothing, Evolution, TypeOK, Reply, RowOf
<1>. QED  BY <1>2, <1>3, <1>4, <1>5, <1>6 DEF LedgerOK

\* A step of p is safe if it evolves the tables, leaves p in a consistent
\* state r, and keeps the ledger.
LEMMA Assemble ==
  ASSUME IInv, NEW p \in Proc, NEW r \in Request,
         req' = [req EXCEPT ![p] = r],
         Evolution(p), DistinctFrom(p, r),
         TypeOK', RowsOK', RequestOK(r)', LedgerOK'
  PROVE  IInv'
<1>1. req \in [Proc -> Request]
  BY DEF IInv, TypeOK
<1>2. ASSUME NEW q \in Proc PROVE RequestOK(req[q])'
  <2>1. CASE q = p
    BY <2>1, <1>1
  <2>2. CASE q # p
    BY <2>2, <1>1, OthersKeep
  <2>. QED  BY <2>1, <2>2
<1>3. ReservationsDistinct'
  <2>1. ASSUME NEW q \in Proc, NEW s \in Proc, q # s
        PROVE  /\ req'[q].op \in Producing /\ req'[s].op \in Producing =>
                    req'[q].tok # req'[s].tok
               /\ req'[q].op \in Issuing /\ req'[s].op \in Issuing =>
                    req'[q].ref # req'[s].ref
    <3>1. CASE q = p
      BY <2>1, <3>1, <1>1 DEF DistinctFrom
    <3>2. CASE s = p
      BY <2>1, <3>2, <1>1 DEF DistinctFrom
    <3>3. CASE q # p /\ s # p
      BY <2>1, <3>3, <1>1 DEF IInv, ReservationsDistinct
    <3>. QED  BY <3>1, <3>2, <3>3
  <2>. QED  BY <2>1 DEF ReservationsDistinct
<1>. QED  BY <1>2, <1>3 DEF IInv

\* The common case: only the request itself and at most `standing' change.
LEMMA LocalStep ==
  ASSUME IInv, NEW p \in Proc, NEW r \in Request,
         req' = [req EXCEPT ![p] = r], DistinctFrom(p, r), RequestOK(r),
         standing' \subseteq Subject,
         UNCHANGED <<db, cache, expired, told>>
  PROVE  IInv'
<1>1. TypeOK'
  BY DEF IInv, TypeOK, db
<1>2. Evolution(p)
  BY DEF Evolution, db
<1>3. RowsOK'
  BY DEF IInv, RowsOK, db
<1>4. RequestOK(r)'
  BY DEF RequestOK, StepOK, ReservationOK, RemovalOK, db
<1>5. LedgerOK'
  BY DEF IInv, LedgerOK, KnownTokensOK, PublishedAfterCommit, PairsAreAtomic, LogoutEndsToken, RemovalEndsSession, WithdrawnLeavesNothing, RowOf, db
<1>. QED  BY <1>1, <1>2, <1>3, <1>4, <1>5, Assemble

-----------------------------------------------------------------------------
(* Steps that touch only the request.                                      *)

LEMMA ValidationsType ==
  ASSUME NEW u \in User, NEW op \in Producing
  PROVE  Validations(op, u) \in Seq(Subject) \ {<<>>}
<1>1. u \in Subject /\ TenantOf[u] \in Subject /\ Client \in Subject
  BY ConstantsAssumption DEF Subject
<1>2. <<u>> \in Seq(Subject) /\ <<>> \in Seq(Subject)
  BY <1>1
<1>3. ASSUME NEW v \in Seq(Subject), NEW w \in Seq(Subject), Len(v) > 0
      PROVE  v \o w \in Seq(Subject) /\ Len(v \o w) > 0
  BY <1>3, ConcatProperties
<1>4. ASSUME NEW x \in Subject
      PROVE  <<x>> \in Seq(Subject) /\ Len(<<x>>) = 1
  OBVIOUS
<1>5. AccountCheck(u) \in Seq(Subject)
  BY <1>2 DEF AccountCheck
<1>6. CASE op = "login"
  <2>1. Validations(op, u) = <<u, TenantOf[u], Client>>
    BY <1>6 DEF Validations
  <2>2. Validations(op, u) \in Seq(Subject) /\ Len(Validations(op, u)) = 3
    BY <1>1, <2>1
  <2>. QED  BY <2>2
<1>7. CASE op = "create"
  <2>1. Validations(op, u) = <<TenantOf[u], Client>> \o AccountCheck(u)
    BY <1>7 DEF Validations
  <2>2. <<TenantOf[u], Client>> \in Seq(Subject) /\ Len(<<TenantOf[u], Client>>) = 2
    BY <1>1
  <2>. QED  BY <1>3, <1>5, <2>1, <2>2
<1>8. CASE op = "refresh"
  <2>1. Validations(op, u) = <<Client>> \o AccountCheck(u) \o <<TenantOf[u]>>
    BY <1>8 DEF Validations
  <2>2. /\ <<Client>> \o AccountCheck(u) \in Seq(Subject)
        /\ Len(<<Client>> \o AccountCheck(u)) > 0
    BY <1>1, <1>3, <1>4, <1>5
  <2>. QED  BY <1>1, <1>3, <1>4, <2>1, <2>2
<1>. QED  BY <1>6, <1>7, <1>8 DEF Producing, Issuing

LEMMA IdleOK ==
  ASSUME IInv, NEW p \in Proc
  PROVE  Idle \in Request /\ RequestOK(Idle) /\ DistinctFrom(p, Idle)
<1>1. Idle \in Request
  BY DEF Idle, Request, PC
<1>2. RequestOK(Idle)
  BY DEF Idle, RequestOK, StepOK, ReservationOK, RemovalOK, Producing, Issuing, Leaving, Removing
<1>3. DistinctFrom(p, Idle)
  BY DEF Idle, DistinctFrom, Producing, Issuing
<1>. QED  BY <1>1, <1>2, <1>3

LEMMA FinishStep ==
  ASSUME IInv, NEW p \in Proc, Finish(p),
         UNCHANGED <<db, cache, standing, expired, told>>
  PROVE  IInv'
<1>1. standing' \subseteq Subject
  BY DEF IInv, TypeOK
<1>. QED  BY <1>1, IdleOK, LocalStep DEF Finish

LEMMA StartIssueStep ==
  ASSUME IInv, NEW p \in Proc, NEW u \in User, NEW o \in Issuing,
         NEW a \in Access, NEW r \in Refresh, StartIssue(p, u, o, a, r)
  PROVE  IInv'
<1> DEFINE n == [Idle EXCEPT !.pc = "check", !.op = o, !.user = u, !.tok = a,
                             !.ref = r, !.checks = Validations(o, u)]
<1>1. Validations(o, u) \in Seq(Subject) \ {<<>>}
  BY ValidationsType DEF Producing
<1>2. /\ n.pc = "check" /\ n.op = o /\ n.user = u /\ n.tok = a /\ n.ref = r
      /\ n.checks = Validations(o, u) /\ n.batch = {} /\ n.clean = TRUE
      /\ n.scope = AnyTenant
      /\ n \in Request
  BY <1>1 DEF Idle, Request, PC
<1>3. DistinctFrom(p, n)
  BY <1>2 DEF StartIssue, FreshAccess, FreshRefresh, DistinctFrom
<1>4. RequestOK(n)
  BY <1>1, <1>2 DEF StartIssue, FreshAccess, FreshRefresh, RequestOK, StepOK, ReservationOK, RemovalOK, Producing, Issuing, Leaving, Removing
<1>5. req' = [req EXCEPT ![p] = n] /\ standing' \subseteq Subject
  BY DEF StartIssue, Start, IInv, TypeOK
<1>. HIDE DEF n
<1>. QED  BY <1>2, <1>3, <1>4, <1>5, LocalStep DEF StartIssue

LEMMA StartRefreshStep ==
  ASSUME IInv, NEW p \in Proc, NEW r \in Refresh,
         NEW t \in Tenant \union {AnyTenant}, NEW a \in Access,
         StartRefresh(p, r, t, a)
  PROVE  IInv'
<1> DEFINE n == [Idle EXCEPT !.pc = "check", !.op = "refresh",
                             !.user = owner[r], !.tok = a, !.ref = r,
                             !.scope = t,
                             !.checks = Validations("refresh", owner[r])]
<1>1. owner[r] \in User
  BY DEF StartRefresh, IInv, RowsOK
<1>2. Validations("refresh", owner[r]) \in Seq(Subject) \ {<<>>}
  BY <1>1, ValidationsType DEF Producing
<1>3. /\ n.pc = "check" /\ n.op = "refresh" /\ n.user = owner[r]
      /\ n.tok = a /\ n.ref = r /\ n.scope = t
      /\ n.checks = Validations("refresh", owner[r]) /\ n.batch = {}
      /\ n \in Request
  BY <1>1, <1>2 DEF Idle, Request, PC
<1>4. DistinctFrom(p, n)
  BY <1>3 DEF StartRefresh, FreshAccess, DistinctFrom, Issuing
<1>5. RequestOK(n)
  BY <1>1, <1>2, <1>3 DEF StartRefresh, FreshAccess, RequestOK, StepOK, ReservationOK, RemovalOK, Producing, Issuing, Leaving, Removing
<1>6. req' = [req EXCEPT ![p] = n] /\ standing' \subseteq Subject
  BY DEF StartRefresh, Start, IInv, TypeOK
<1>. HIDE DEF n
<1>. QED  BY <1>3, <1>4, <1>5, <1>6, LocalStep DEF StartRefresh

\* Requests that issue nothing, or go on with their own tokens, stay distinct.
LEMMA KeepsDistinct ==
  ASSUME IInv, NEW p \in Proc, NEW n \in Request,
         n.op \in Producing =>
           /\ n.op = req[p].op
           /\ n.tok = req[p].tok
           /\ n.ref = req[p].ref
  PROVE  DistinctFrom(p, n)
BY DEF IInv, ReservationsDistinct, DistinctFrom, Producing

LEMMA StartRevocationStep ==
  ASSUME IInv, NEW p \in Proc, Revoke(p)
  PROVE  IInv'
<1> USE DEF Leaving, Removing, Issuing, Producing
<1>1. ASSUME NEW n \in Request, n.op \notin Producing, RequestOK(n),
             req' = [req EXCEPT ![p] = n], standing' \subseteq Subject,
             UNCHANGED <<db, cache, expired, told>>
      PROVE  IInv'
  BY <1>1, KeepsDistinct, LocalStep
<1>2. standing \subseteq Subject
  BY DEF IInv, TypeOK
<1>3. \A a \in told.issued : a \in Access /\ access[a] # "none"
  BY DEF IInv, LedgerOK, KnownTokensOK, TypeOK, Reply
<1>4. ASSUME NEW a \in Access, StartLogout(p, a) PROVE IInv'
  <2> DEFINE n == [Idle EXCEPT !.pc = "find", !.op = "logout", !.tok = a]
  <2>1. /\ n.pc = "find" /\ n.op = "logout" /\ n.tok = a /\ n.ref = None
        /\ n.batch = {} /\ n.scope = AnyTenant /\ n.user = None
        /\ n \in Request
    BY IdleOK DEF Idle, Request, PC
  <2>2. RequestOK(n)
    BY <1>3, <1>4, <2>1 DEF StartLogout, RequestOK, StepOK, ReservationOK, RemovalOK
  <2>3. /\ req' = [req EXCEPT ![p] = n] /\ standing' \subseteq Subject
        /\ UNCHANGED <<db, cache, expired, told>>
    BY <1>2, <1>4 DEF StartLogout, Start
  <2>. HIDE DEF n
  <2>. QED  BY <1>1, <2>1, <2>2, <2>3
<1>5. ASSUME NEW a \in Access, NEW t \in Tenant, StartForceLogout(p, a, t)
      PROVE  IInv'
  <2> DEFINE n == [Idle EXCEPT !.pc = "find", !.op = "force", !.tok = a,
                               !.scope = t]
  <2>1. /\ n.pc = "find" /\ n.op = "force" /\ n.tok = a /\ n.ref = None
        /\ n.batch = {} /\ n.user = None /\ n \in Request
    BY IdleOK DEF Idle, Request, PC
  <2>2. RequestOK(n)
    BY <1>5, <2>1 DEF StartForceLogout, RequestOK, StepOK, ReservationOK, RemovalOK
  <2>3. /\ req' = [req EXCEPT ![p] = n] /\ standing' \subseteq Subject
        /\ UNCHANGED <<db, cache, expired, told>>
    BY <1>2, <1>5 DEF StartForceLogout, Start
  <2>. HIDE DEF n
  <2>. QED  BY <1>1, <2>1, <2>2, <2>3
<1>6. ASSUME NEW a \in Access, NEW t \in Tenant, StartRemove(p, a, t)
      PROVE  IInv'
  <2> DEFINE n == [Idle EXCEPT !.pc = "next", !.op = "remove", !.tok = a,
                               !.scope = t, !.batch = {a}]
  <2>1. /\ n.pc = "next" /\ n.op = "remove" /\ n.tok = a /\ n.ref = None
        /\ n.batch = {a} /\ n.user = None /\ n \in Request
    BY IdleOK DEF Idle, Request, PC
  <2>2. RequestOK(n)
    BY <1>3, <1>6, <2>1 DEF StartRemove, RequestOK, StepOK, ReservationOK, RemovalOK
  <2>3. /\ req' = [req EXCEPT ![p] = n] /\ standing' \subseteq Subject
        /\ UNCHANGED <<db, cache, expired, told>>
    BY <1>2, <1>6 DEF StartRemove, Start
  <2>. HIDE DEF n
  <2>. QED  BY <1>1, <2>1, <2>2, <2>3
<1>7. ASSUME NEW u \in User, StartRemoveByUser(p, u) \/ StartDisable(p, u)
      PROVE  IInv'
  <2>1. PICK o \in {"byUser", "disable"} :
          req' = [req EXCEPT ![p] = [Idle EXCEPT !.pc = "list", !.op = o,
                                       !.user = u, !.scope = TenantOf[u]]]
    BY <1>7 DEF StartRemoveByUser, StartDisable, Start
  <2> DEFINE n == [Idle EXCEPT !.pc = "list", !.op = o, !.user = u,
                               !.scope = TenantOf[u]]
  <2>2. /\ n.pc = "list" /\ n.op = o /\ n.user = u /\ n.batch = {}
        /\ n \in Request
    BY ConstantsAssumption, IdleOK DEF Idle, Request, PC
  <2>3. RequestOK(n)
    BY <2>2 DEF RequestOK, StepOK, ReservationOK, RemovalOK
  <2>4. standing' \subseteq Subject /\ UNCHANGED <<db, cache, expired, told>>
    BY <1>2, <1>7 DEF StartRemoveByUser, StartDisable
  <2>5. req' = [req EXCEPT ![p] = n]
    BY <2>1
  <2>. HIDE DEF n
  <2>. QED  BY <1>1, <2>2, <2>3, <2>4, <2>5
<1>. QED  BY <1>4, <1>5, <1>6, <1>7 DEF Revoke

LEMMA LocalProgressStep ==
  ASSUME IInv, NEW p \in Proc,
         \/ PassCheck(p) \/ SelectOld(p) \/ ListByUser(p)
         \/ \E a \in Access : TakeNext(p, a)
         \/ FindAccess(p)
  PROVE  IInv'
<1> USE DEF Leaving, Removing, Issuing, Producing
<1> DEFINE s == req[p]
<1>1. /\ req \in [Proc -> Request] /\ s \in Request /\ RequestOK(s)
      /\ standing \subseteq Subject /\ RowsOK
  BY DEF IInv, TypeOK
<1>2. ASSUME NEW n \in Request, RequestOK(n), req' = [req EXCEPT ![p] = n],
             n.op = s.op, n.tok = s.tok \/ n.op \notin Producing,
             n.ref = s.ref \/ n.op \notin Producing,
             UNCHANGED <<db, cache, standing, expired, told>>
      PROVE  IInv'
  BY <1>1, <1>2, KeepsDistinct, LocalStep
<1>3. CASE PassCheck(p)
  <2> DEFINE rest == Tail(s.checks)
             after == IF s.op = "refresh" THEN "select" ELSE "insert"
             n == [s EXCEPT !.checks = rest,
                            !.pc = IF rest = <<>> THEN after ELSE "check"]
  <2>1. s.checks \in Seq(Subject) /\ s.checks # <<>>
    BY <1>1, <1>3 DEF PassCheck, At, RequestOK, StepOK, Request
  <2>2. /\ rest \in Seq(Subject)
        /\ (IF rest = <<>> THEN after ELSE "check") \in PC
    BY <2>1 DEF PC
  <2>3. /\ n \in Request /\ n.op = s.op /\ n.tok = s.tok /\ n.ref = s.ref
        /\ n.scope = s.scope /\ n.user = s.user /\ n.batch = s.batch
        /\ n.checks = rest /\ n.clean = s.clean
        /\ n.pc = IF rest = <<>> THEN after ELSE "check"
    BY <1>1, <2>2 DEF Request
  <2>4. RequestOK(n)
    <3>1. StepOK(n)
      BY <1>1, <1>3, <2>3 DEF PassCheck, At, RequestOK, StepOK
    <3>2. ReservationOK(n)
      BY <1>1, <1>3, <2>3 DEF PassCheck, At, RequestOK, StepOK, ReservationOK
    <3>3. RemovalOK(n)
      BY <1>1, <1>3, <2>3 DEF PassCheck, At, RequestOK, RemovalOK
    <3>. QED  BY <3>1, <3>2, <3>3 DEF RequestOK
  <2>5. req' = [req EXCEPT ![p] = n]
    BY <1>1, <1>3 DEF PassCheck
  <2>. HIDE DEF n
  <2>. QED  BY <1>2, <1>3, <2>3, <2>4, <2>5 DEF PassCheck
<1>4. CASE SelectOld(p)
  <2> DEFINE n == [s EXCEPT !.batch = LiveAccessOf(s.ref), !.pc = "rotate"]
  <2>1. /\ n \in Request /\ n.op = s.op /\ n.tok = s.tok /\ n.ref = s.ref
        /\ n.scope = s.scope /\ n.user = s.user /\ n.clean = s.clean
        /\ n.batch = LiveAccessOf(s.ref) /\ n.pc = "rotate"
    BY <1>1 DEF Request, PC, LiveAccessOf
  <2>2. RequestOK(n)
    BY <1>1, <1>4, <2>1 DEF SelectOld, At, RequestOK, StepOK, ReservationOK, RemovalOK, LiveAccessOf
  <2>3. req' = [req EXCEPT ![p] = n]
    BY <1>1, <1>4 DEF SelectOld
  <2>. HIDE DEF n
  <2>. QED  BY <1>2, <1>4, <2>1, <2>2, <2>3 DEF SelectOld
<1>5. CASE ListByUser(p)
  <2> DEFINE found == {a \in Access : access[a] = "live" /\ owner[link[a]] = s.user}
             n == [s EXCEPT !.pc = "next", !.batch = found]
  <2>1. /\ n \in Request /\ n.op = s.op /\ n.tok = s.tok /\ n.ref = s.ref
        /\ n.scope = s.scope /\ n.user = s.user /\ n.clean = s.clean
        /\ n.batch = found /\ n.pc = "next"
    BY <1>1 DEF Request, PC
  <2>2. RequestOK(n)
    BY <1>1, <1>5, <2>1 DEF ListByUser, At, RequestOK, StepOK, ReservationOK, RemovalOK
  <2>3. req' = [req EXCEPT ![p] = n]
    BY <1>1, <1>5 DEF ListByUser
  <2>. HIDE DEF n
  <2>. QED  BY <1>2, <1>5, <2>1, <2>2, <2>3 DEF ListByUser
<1>6. ASSUME NEW a \in Access, TakeNext(p, a) PROVE IInv'
  <2> DEFINE n == [s EXCEPT !.pc = "find", !.tok = a, !.ref = None,
                            !.batch = s.batch \ {a}]
  <2>1. /\ n \in Request /\ n.op = s.op /\ n.tok = a /\ n.ref = None
        /\ n.scope = s.scope /\ n.user = s.user /\ n.clean = s.clean
        /\ n.batch = s.batch \ {a} /\ n.pc = "find"
    BY <1>1 DEF Request, PC
  <2>2. s.op \in Removing
    BY <1>1, <1>6 DEF TakeNext, At, RequestOK, StepOK
  <2>3. RequestOK(n)
    BY <1>1, <1>6, <2>1, <2>2 DEF TakeNext, At, RequestOK, StepOK, ReservationOK, RemovalOK
  <2>4. req' = [req EXCEPT ![p] = n]
    BY <1>1, <1>6 DEF TakeNext
  <2>. HIDE DEF n
  <2>. QED  BY <1>2, <1>6, <2>1, <2>2, <2>3, <2>4 DEF TakeNext
<1>7. CASE FindAccess(p)
  <2> DEFINE n == [s EXCEPT !.ref = link[s.tok],
                            !.pc = IF s.op \in Leaving THEN "delRefresh"
                                                       ELSE "delAccess"]
  <2>1. s.pc = "find" /\ s.tok \in Access /\ s.op \in Leaving \union Removing
    BY <1>1, <1>7 DEF FindAccess, At, RequestOK, StepOK, RemovalOK
  <2>2. /\ link[s.tok] \in Refresh
        /\ (IF s.op \in Leaving THEN "delRefresh" ELSE "delAccess") \in PC
    BY <1>1, <1>7, <2>1 DEF FindAccess, RowsOK, PC
  <2>3. /\ n \in Request /\ n.op = s.op /\ n.tok = s.tok
        /\ n.ref = link[s.tok] /\ n.scope = s.scope /\ n.user = s.user
        /\ n.batch = s.batch /\ n.clean = s.clean
        /\ n.pc = IF s.op \in Leaving THEN "delRefresh" ELSE "delAccess"
    BY <1>1, <2>2 DEF Request
  <2>4. StepOK(n)
    BY <1>1, <2>1, <2>3 DEF RequestOK, StepOK
  <2>5. ReservationOK(n)
    BY <1>1, <2>1, <2>3 DEF RequestOK, ReservationOK
  <2>6. RemovalOK(n)
    BY <1>1, <1>7, <2>1, <2>2, <2>3 DEF FindAccess, InScope, RequestOK, RemovalOK
  <2>7. req' = [req EXCEPT ![p] = n]
    BY <1>1, <1>7 DEF FindAccess
  <2>. HIDE DEF n
  <2>. QED
    BY <1>2, <1>7, <2>1, <2>3, <2>4, <2>5, <2>6, <2>7 DEF FindAccess, RequestOK
<1>. QED  BY <1>3, <1>4, <1>5, <1>6, <1>7

\* Steps that only move the request on, or end it.
LEMMA LocalGotoStep ==
  ASSUME IInv, NEW p \in Proc, FindNothing(p) \/ UndoFails(p)
  PROVE  IInv'
<1> USE DEF Leaving, Removing, Issuing, Producing
<1> DEFINE s == req[p]
<1>1. /\ req \in [Proc -> Request] /\ s \in Request /\ RequestOK(s)
      /\ standing \subseteq Subject /\ RowsOK
      /\ access \in [Access -> Row]
  BY DEF IInv, TypeOK
<1>2. UNCHANGED <<db, cache, standing, expired, told>>
  BY DEF FindNothing, UndoFails
<1>3. CASE Finish(p)
  BY <1>2, <1>3, FinishStep
<1>4. ASSUME NEW n \in Request, RequestOK(n), req' = [req EXCEPT ![p] = n],
             n.op = s.op, n.tok = s.tok, n.ref = s.ref
      PROVE  IInv'
  BY <1>1, <1>2, <1>4, KeepsDistinct, LocalStep
<1>5. CASE FindNothing(p) /\ s.op = "logout"
  <2> DEFINE n == [s EXCEPT !.pc = "evict"]
  <2>1. /\ n \in Request /\ n.op = s.op /\ n.tok = s.tok /\ n.ref = s.ref
        /\ n.scope = s.scope /\ n.user = s.user /\ n.clean = s.clean
        /\ n.batch = s.batch /\ n.pc = "evict"
    BY <1>1 DEF Request, PC
  <2>2. s.pc = "find" /\ s.tok \in Access /\ access[s.tok] = "deleted"
    BY <1>1, <1>5 DEF FindNothing, At, RequestOK, RemovalOK, Row
  <2>3. RequestOK(n)
    BY <1>1, <1>5, <2>1, <2>2 DEF RequestOK, StepOK, ReservationOK, RemovalOK
  <2>4. req' = [req EXCEPT ![p] = n]
    BY <1>1, <1>5 DEF FindNothing, Goto
  <2>. HIDE DEF n
  <2>. QED  BY <1>4, <2>1, <2>3, <2>4
<1>6. CASE FindNothing(p) /\ s.op \in Removing
  <2> DEFINE n == [s EXCEPT !.pc = "next"]
  <2>1. /\ n \in Request /\ n.op = s.op /\ n.tok = s.tok /\ n.ref = s.ref
        /\ n.scope = s.scope /\ n.user = s.user /\ n.clean = s.clean
        /\ n.batch = s.batch /\ n.pc = "next"
    BY <1>1 DEF Request, PC
  <2>2. RequestOK(n)
    BY <1>1, <1>6, <2>1 DEF FindNothing, At, RequestOK, StepOK, ReservationOK, RemovalOK
  <2>3. req' = [req EXCEPT ![p] = n]
    BY <1>1, <1>6 DEF FindNothing, Goto
  <2>. HIDE DEF n
  <2>. QED  BY <1>4, <2>1, <2>2, <2>3
<1>7. CASE UndoFails(p) /\ s.pc # "undoCache"
  <2>1. PICK pc \in {"undoCache", "undoRefresh"} :
          /\ req' = [req EXCEPT ![p].pc = pc, ![p].clean = FALSE]
          /\ pc = "undoRefresh" => s.op \in Issuing
    BY <1>1, <1>7 DEF UndoFails, At, AfterUndoAccess, RequestOK, StepOK
  <2> DEFINE n == [s EXCEPT !.pc = pc, !.clean = FALSE]
  <2>2. /\ n \in Request /\ n.op = s.op /\ n.tok = s.tok /\ n.ref = s.ref
        /\ n.scope = s.scope /\ n.user = s.user /\ n.clean = FALSE
        /\ n.batch = s.batch /\ n.pc = pc
    BY <1>1 DEF Request, PC
  <2>3. RequestOK(n)
    BY <1>1, <1>7, <2>1, <2>2 DEF UndoFails, At, RequestOK, StepOK, ReservationOK, RemovalOK
  <2>4. req' = [req EXCEPT ![p] = n]
    BY <1>1, <2>1
  <2>. HIDE DEF n
  <2>. QED  BY <1>4, <2>2, <2>3, <2>4
<1>8. CASE FindNothing(p) /\ s.op = "force"
  BY <1>3, <1>8 DEF FindNothing
<1>9. CASE UndoFails(p) /\ s.pc = "undoCache"
  BY <1>3, <1>9 DEF UndoFails, At
<1>. QED
  BY <1>1, <1>5, <1>6, <1>7, <1>8, <1>9 DEF FindNothing, At, RequestOK, StepOK

-----------------------------------------------------------------------------
(* Steps that delete rows softly.                                          *)

Moved(q, pc) == [q EXCEPT !.pc = pc]

\* n is q at another step.
MovedTo(n, q, c) ==
  /\ n = Moved(q, c)
  /\ n.pc = c /\ n.op = q.op /\ n.user = q.user /\ n.tok = q.tok
  /\ n.ref = q.ref /\ n.scope = q.scope /\ n.checks = q.checks
  /\ n.batch = q.batch /\ n.clean = q.clean

LEMMA MovedFields ==
  ASSUME NEW q \in Request, NEW c \in PC
  PROVE  \E n \in Request : MovedTo(n, q, c)
<1>1. Moved(q, c) \in Request /\ MovedTo(Moved(q, c), q, c)
  BY DEF Moved, MovedTo, Request
<1>. QED  BY <1>1

LEMMA GotoMoves ==
  ASSUME IInv, NEW p \in Proc, NEW c \in PC, Goto(p, c)
  PROVE  req' = [req EXCEPT ![p] = Moved(req[p], c)]
BY DEF Goto, Moved, IInv, TypeOK

LEMMA SoftDeletionStep ==
  ASSUME IInv, NEW p \in Proc, NEW n \in Request,
         req' = [req EXCEPT ![p] = n], DistinctFrom(p, n), RequestOK(n)',
         access' \in [Access -> Row], refresh' \in [Refresh -> Row],
         \A a \in Access : \/ access'[a] = access[a]
                           \/ access[a] = "live" /\ access'[a] = "deleted",
         \A r \in Refresh : \/ refresh'[r] = refresh[r]
                            \/ refresh[r] = "live" /\ refresh'[r] = "deleted",
         cache' \subseteq cache,
         UNCHANGED <<link, owner, standing, expired, told>>
  PROVE  IInv'
<1>1. TypeOK /\ RowsOK /\ LedgerOK
  BY DEF IInv
<1>2. TypeOK'
  BY <1>1 DEF TypeOK
<1>3. Evolution(p)
  BY DEF Evolution
<1>4. RowsOK'
  BY <1>1 DEF RowsOK
<1>5. PairsAreAtomic'
  BY <1>1 DEF LedgerOK, PairsAreAtomic
<1>6. LedgerOK'
  BY <1>2, <1>3, <1>4, <1>5, QuietLedger
<1>. QED  BY <1>2, <1>3, <1>4, <1>6, Assemble

\* The UPDATE ... SET deleted = 1 of one row.
LEMMA SoftDeleteRow ==
  ASSUME NEW S, NEW f \in [S -> Row], NEW x
  PROVE  LET g == [f EXCEPT ![x] = SoftDelete(@)]
         IN  /\ g \in [S -> Row]
             /\ \A y \in S : \/ g[y] = f[y]
                             \/ f[y] = "live" /\ g[y] = "deleted"
             /\ x \in S /\ f[x] # "none" => g[x] = "deleted"
BY DEF SoftDelete, Row

LEMMA SoftDeletions ==
  ASSUME IInv, NEW p \in Proc,
         \/ UndoAccess(p) \/ UndoRefresh(p) \/ DeleteRefresh(p)
         \/ DeleteAccess(p) \/ Rotate(p) \/ EvictOld(p)
  PROVE  IInv'
<1> USE DEF Leaving, Removing, Issuing, Producing
<1> DEFINE s == req[p]
<1>1. /\ req \in [Proc -> Request] /\ s \in Request /\ RequestOK(s)
      /\ standing \subseteq Subject /\ RowsOK
      /\ access \in [Access -> Row] /\ refresh \in [Refresh -> Row]
  BY DEF IInv, TypeOK
<1>2. ASSUME NEW c \in PC, NEW n \in Request, MovedTo(n, s, c)
      PROVE  DistinctFrom(p, n)
  BY <1>1, <1>2, KeepsDistinct DEF MovedTo
<1>3. CASE UndoAccess(p)
  <2> DEFINE c == AfterUndoAccess(p)
  <2>1. c \in PC
    BY DEF AfterUndoAccess, PC
  <2>0. PICK n \in Request : MovedTo(n, s, c)
    BY <1>1, <2>1, MovedFields
  <2>2. s.pc = "undoAccess" /\ s.op \in Producing /\ s.tok \in Access
    BY <1>1, <1>3 DEF UndoAccess, At, RequestOK, StepOK, ReservationOK
  <2>3. /\ access' \in [Access -> Row] /\ access'[s.tok] = "deleted"
        /\ \A a \in Access : \/ access'[a] = access[a]
                             \/ access[a] = "live" /\ access'[a] = "deleted"
    BY <1>1, <1>3, <2>2, SoftDeleteRow DEF UndoAccess, RequestOK, ReservationOK
  <2>4. RequestOK(n)'
    <3>1. StepOK(n)'
      BY <1>1, <1>3, <2>0, <2>1, <2>2, <2>3 DEF UndoAccess, AfterUndoAccess, MovedTo, RequestOK, StepOK
    <3>2. ReservationOK(n)'
      BY <1>1, <1>3, <2>0, <2>1, <2>2, <2>3 DEF UndoAccess, AfterUndoAccess, MovedTo, RequestOK, StepOK, ReservationOK
    <3>3. RemovalOK(n)'
      BY <1>1, <1>3, <2>0, <2>1, <2>2, <2>3 DEF UndoAccess, AfterUndoAccess, MovedTo, RequestOK, StepOK, RemovalOK
    <3>. QED  BY <3>1, <3>2, <3>3 DEF RequestOK
  <2>5. req' = [req EXCEPT ![p] = n] /\ DistinctFrom(p, n)
    BY <1>1, <1>2, <1>3, <2>0, <2>1, GotoMoves DEF MovedTo, UndoAccess
  <2>. QED  BY <1>1, <1>3, <2>3, <2>4, <2>5, SoftDeletionStep DEF UndoAccess
<1>4. CASE UndoRefresh(p)
  <2> DEFINE c == "undoCache"
  <2>1. c \in PC
    BY DEF PC
  <2>0. PICK n \in Request : MovedTo(n, s, c)
    BY <1>1, <2>1, MovedFields
  <2>2. /\ s.pc = "undoRefresh" /\ s.op \in Issuing
        /\ s.ref \in Refresh /\ refresh[s.ref] # "none"
    BY <1>1, <1>4 DEF UndoRefresh, At, RequestOK, StepOK, ReservationOK, RowsOK
  <2>3. /\ refresh' \in [Refresh -> Row] /\ refresh'[s.ref] = "deleted"
        /\ \A r \in Refresh : \/ refresh'[r] = refresh[r]
                              \/ refresh[r] = "live" /\ refresh'[r] = "deleted"
    BY <1>1, <1>4, <2>2, SoftDeleteRow DEF UndoRefresh
  <2>4. RequestOK(n)'
    <3>1. StepOK(n)'
      BY <1>1, <1>4, <2>0, <2>1, <2>2, <2>3 DEF UndoRefresh, MovedTo, RequestOK, StepOK
    <3>2. ReservationOK(n)'
      BY <1>1, <1>4, <2>0, <2>1, <2>2, <2>3 DEF UndoRefresh, MovedTo, RequestOK, StepOK, ReservationOK
    <3>3. RemovalOK(n)'
      BY <1>1, <1>4, <2>0, <2>1, <2>2, <2>3 DEF UndoRefresh, MovedTo, RequestOK, StepOK, RemovalOK
    <3>. QED  BY <3>1, <3>2, <3>3 DEF RequestOK
  <2>5. req' = [req EXCEPT ![p] = n] /\ DistinctFrom(p, n)
    BY <1>1, <1>2, <1>4, <2>0, <2>1, GotoMoves DEF MovedTo, UndoRefresh
  <2>. QED  BY <1>1, <1>4, <2>3, <2>4, <2>5, SoftDeletionStep DEF UndoRefresh
<1>5. CASE DeleteRefresh(p)
  <2> DEFINE c == IF s.op \in Leaving THEN "delAccess" ELSE "evict"
  <2>1. c \in PC
    BY DEF PC
  <2>0. PICK n \in Request : MovedTo(n, s, c)
    BY <1>1, <2>1, MovedFields
  <2>2. /\ s.pc = "delRefresh" /\ s.op \in Leaving \union Removing
        /\ s.ref \in Refresh /\ refresh[s.ref] # "none"
    BY <1>1, <1>5 DEF DeleteRefresh, At, RequestOK, StepOK, RemovalOK, RowsOK
  <2>3. /\ refresh' \in [Refresh -> Row] /\ refresh'[s.ref] = "deleted"
        /\ \A r \in Refresh : \/ refresh'[r] = refresh[r]
                              \/ refresh[r] = "live" /\ refresh'[r] = "deleted"
    BY <1>1, <1>5, <2>2, SoftDeleteRow DEF DeleteRefresh
  <2>4. RequestOK(n)'
    <3>1. StepOK(n)'
      BY <1>1, <1>5, <2>0, <2>1, <2>2, <2>3 DEF DeleteRefresh, MovedTo, RequestOK, StepOK
    <3>2. ReservationOK(n)'
      BY <1>1, <1>5, <2>0, <2>1, <2>2, <2>3 DEF DeleteRefresh, MovedTo, RequestOK, StepOK, ReservationOK
    <3>3. RemovalOK(n)'
      BY <1>1, <1>5, <2>0, <2>1, <2>2, <2>3, ConstantsAssumption DEF DeleteRefresh, MovedTo, RequestOK, StepOK, RemovalOK, RowsOK, Request
    <3>. QED  BY <3>1, <3>2, <3>3 DEF RequestOK
  <2>5. req' = [req EXCEPT ![p] = n] /\ DistinctFrom(p, n)
    BY <1>1, <1>2, <1>5, <2>0, <2>1, GotoMoves DEF MovedTo, DeleteRefresh
  <2>. QED  BY <1>1, <1>5, <2>3, <2>4, <2>5, SoftDeletionStep DEF DeleteRefresh
<1>6. CASE DeleteAccess(p)
  <2> DEFINE c == IF s.op \in Leaving THEN "evict" ELSE "delRefresh"
  <2>1. c \in PC
    BY DEF PC
  <2>0. PICK n \in Request : MovedTo(n, s, c)
    BY <1>1, <2>1, MovedFields
  <2>2. /\ s.pc = "delAccess" /\ s.op \in Leaving \union Removing
        /\ s.tok \in Access /\ access[s.tok] # "none"
    BY <1>1, <1>6 DEF DeleteAccess, At, RequestOK, StepOK, RemovalOK
  <2>3. /\ access' \in [Access -> Row] /\ access'[s.tok] = "deleted"
        /\ \A a \in Access : \/ access'[a] = access[a]
                             \/ access[a] = "live" /\ access'[a] = "deleted"
    BY <1>1, <1>6, <2>2, SoftDeleteRow DEF DeleteAccess
  <2>4. RequestOK(n)'
    <3>1. StepOK(n)'
      BY <1>1, <1>6, <2>0, <2>1, <2>2, <2>3 DEF DeleteAccess, MovedTo, RequestOK, StepOK
    <3>2. ReservationOK(n)'
      BY <1>1, <1>6, <2>0, <2>1, <2>2, <2>3 DEF DeleteAccess, MovedTo, RequestOK, StepOK, ReservationOK
    <3>3. RemovalOK(n)'
      BY <1>1, <1>6, <2>0, <2>1, <2>2, <2>3, ConstantsAssumption DEF DeleteAccess, MovedTo, RequestOK, StepOK, RemovalOK, RowsOK, Request
    <3>. QED  BY <3>1, <3>2, <3>3 DEF RequestOK
  <2>5. req' = [req EXCEPT ![p] = n] /\ DistinctFrom(p, n)
    BY <1>1, <1>2, <1>6, <2>0, <2>1, GotoMoves DEF MovedTo, DeleteAccess
  <2>. QED  BY <1>1, <1>6, <2>3, <2>4, <2>5, SoftDeletionStep DEF DeleteAccess
<1>7. CASE Rotate(p)
  <2> DEFINE c == IF s.batch = {} THEN "insert" ELSE "evictOld"
  <2>1. c \in PC
    BY DEF PC
  <2>0. PICK n \in Request : MovedTo(n, s, c)
    BY <1>1, <2>1, MovedFields
  <2>2. s.pc = "rotate" /\ s.op = "refresh" /\ access[s.tok] = "none"
    BY <1>1, <1>7 DEF Rotate, At, RequestOK, StepOK, ReservationOK
  <2>3. /\ access' \in [Access -> Row] /\ access'[s.tok] = "none"
        /\ \A a \in Access : \/ access'[a] = access[a]
                             \/ access[a] = "live" /\ access'[a] = "deleted"
    BY <1>1, <1>7, <2>2 DEF Rotate, LiveAccessOf, Row, RequestOK, ReservationOK
  <2>4. RequestOK(n)'
    <3>1. StepOK(n)'
      BY <1>1, <1>7, <2>0, <2>1, <2>2, <2>3 DEF Rotate, Request, MovedTo, RequestOK, StepOK
    <3>2. ReservationOK(n)'
      <4>1. /\ s.tok \in Access /\ s.ref \in Refresh /\ s.user \in User
            /\ refresh[s.ref] # "none"
            /\ s.scope \in {AnyTenant, TenantOf[owner[s.ref]]}
        BY <1>1, <2>2 DEF RequestOK, ReservationOK
      <4>2. refresh' = refresh /\ owner' = owner
        BY <1>7 DEF Rotate
      <4>3. n.pc \in {"insert", "evictOld"} /\ n.op = "refresh"
            /\ n.tok = s.tok /\ n.ref = s.ref /\ n.user = s.user
            /\ n.scope = s.scope
        BY <2>0, <2>2 DEF MovedTo
      <4>. QED  BY <2>3, <4>1, <4>2, <4>3 DEF ReservationOK
    <3>3. RemovalOK(n)'
      <4>1. \A a \in s.batch : a \in Access /\ access[a] # "none"
        BY <1>1 DEF RequestOK, RemovalOK, Request
      <4>2. \A a \in Access : access[a] # "none" => access'[a] # "none"
        BY <2>3
      <4>3. n.pc \in {"insert", "evictOld"} /\ n.batch = s.batch
        BY <2>0 DEF MovedTo
      <4>. QED  BY <4>1, <4>2, <4>3 DEF RemovalOK
    <3>. QED  BY <3>1, <3>2, <3>3 DEF RequestOK
  <2>5. req' = [req EXCEPT ![p] = n] /\ DistinctFrom(p, n)
    BY <1>1, <1>2, <1>7, <2>0, <2>1, GotoMoves DEF MovedTo, Rotate
  <2>. QED  BY <1>1, <1>7, <2>3, <2>4, <2>5, SoftDeletionStep DEF Rotate
<1>8. CASE EvictOld(p)
  <2> DEFINE c == "insert"
  <2>1. c \in PC
    BY DEF PC
  <2>0. PICK n \in Request : MovedTo(n, s, c)
    BY <1>1, <2>1, MovedFields
  <2>2. s.pc = "evictOld" /\ s.op = "refresh"
    BY <1>1, <1>8 DEF EvictOld, At, RequestOK, StepOK
  <2>3. RequestOK(n)'
    <3>1. StepOK(n)'
      BY <1>1, <1>8, <2>0, <2>1, <2>2 DEF EvictOld, db, MovedTo, RequestOK, StepOK
    <3>2. ReservationOK(n)'
      BY <1>1, <1>8, <2>0, <2>1, <2>2 DEF EvictOld, db, MovedTo, RequestOK, StepOK, ReservationOK
    <3>3. RemovalOK(n)'
      BY <1>1, <1>8, <2>0, <2>1, <2>2 DEF EvictOld, db, MovedTo, RequestOK, StepOK, RemovalOK
    <3>. QED  BY <3>1, <3>2, <3>3 DEF RequestOK
  <2>4. req' = [req EXCEPT ![p] = n] /\ DistinctFrom(p, n)
    BY <1>1, <1>2, <1>8, <2>0, <2>1, GotoMoves DEF MovedTo, EvictOld
  <2>. QED  BY <1>1, <1>8, <2>3, <2>4, SoftDeletionStep DEF EvictOld, db
<1>. QED  BY <1>3, <1>4, <1>5, <1>6, <1>7, <1>8

LEMMA DropExpiredStep ==
  ASSUME IInv, NEW p \in Proc, DropExpired(p)
  PROVE  IInv'
<1>1. refresh \in [Refresh -> Row]
  BY DEF IInv, TypeOK
<1>2. /\ refresh' \in [Refresh -> Row]
      /\ \A r \in Refresh : \/ refresh'[r] = refresh[r]
                            \/ refresh[r] = "live" /\ refresh'[r] = "deleted"
  BY <1>1, SoftDeleteRow DEF DropExpired
<1>3. Idle \in Request /\ DistinctFrom(p, Idle)
  BY IdleOK
<1>4. RequestOK(Idle)'
  BY DEF Idle, RequestOK, StepOK, ReservationOK, RemovalOK, Producing, Issuing, Leaving, Removing
<1>. QED
  BY <1>2, <1>3, <1>4, SoftDeletionStep DEF DropExpired, Finish, IInv, TypeOK

-----------------------------------------------------------------------------
(* Steps that insert rows.                                                 *)

\* The rows of p's reservation are inserted: the access row alone, or the pair.
LEMMA InsertionStep ==
  ASSUME IInv, NEW p \in Proc, InsertPair(p) \/ InsertAccess(p)
  PROVE  IInv'
<1> USE DEF Leaving, Removing, Issuing, Producing
<1> DEFINE s == req[p]
<1>1. /\ req \in [Proc -> Request] /\ s \in Request /\ RequestOK(s)
      /\ standing \subseteq Subject /\ RowsOK /\ LedgerOK /\ TypeOK
  BY DEF IInv, TypeOK
<1>2. /\ s.pc = "insert" /\ s.op \in Producing /\ s.tok \in Access
      /\ s.ref \in Refresh /\ s.user \in User /\ access[s.tok] = "none"
      /\ s.op \in Issuing => refresh[s.ref] = "none"
      /\ s.op = "refresh" => refresh[s.ref] # "none"
  BY <1>1 DEF InsertPair, InsertAccess, At, RequestOK, StepOK, ReservationOK
<1>3. /\ access' = [access EXCEPT ![s.tok] = "live"]
      /\ link' = [link EXCEPT ![s.tok] = s.ref]
      /\ UNCHANGED <<cache, standing, expired, told>>
      /\ Goto(p, "put")
  BY DEF InsertPair, InsertAccess
<1>4. \/ s.op = "refresh" /\ UNCHANGED <<refresh, owner>>
      \/ /\ s.op \in Issuing
         /\ refresh' = [refresh EXCEPT ![s.ref] = "live"]
         /\ owner' = [owner EXCEPT ![s.ref] = s.user]
  BY DEF InsertPair, InsertAccess
<1>5. TypeOK'
  <2>1. access' \in [Access -> Row] /\ link' \in [Access -> Refresh \union {None}]
    BY <1>1, <1>2, <1>3 DEF TypeOK, Row
  <2>2. refresh' \in [Refresh -> Row] /\ owner' \in [Refresh -> User \union {None}]
    BY <1>1, <1>2, <1>4 DEF TypeOK, Row
  <2>3. req' \in [Proc -> Request]
    BY <1>1, <1>3 DEF Goto, Request, PC
  <2>. QED  BY <1>1, <1>3, <2>1, <2>2, <2>3 DEF TypeOK
<1>6. Evolution(p)
  <2>1. \A a \in Access :
          /\ access[a] # "none" => access'[a] # "none" /\ link'[a] = link[a]
          /\ access[a] = "deleted" => access'[a] = "deleted"
          /\ access[a] = "none" /\ access'[a] # "none" => a = s.tok
    BY <1>1, <1>2, <1>3 DEF TypeOK
  <2>2. \A r \in Refresh :
          /\ refresh[r] # "none" => refresh'[r] # "none" /\ owner'[r] = owner[r]
          /\ refresh[r] = "deleted" => refresh'[r] = "deleted"
          /\ refresh[r] = "none" /\ refresh'[r] # "none" =>
               s.op \in Issuing /\ r = s.ref
    BY <1>1, <1>2, <1>4 DEF TypeOK
  <2>. QED  BY <1>2, <1>3, <2>1, <2>2 DEF Evolution
<1>7. RowsOK'
  BY <1>1, <1>2, <1>3, <1>4 DEF RowsOK, TypeOK
<1>8. PairsAreAtomic'
  <2>1. access'[s.tok] # "none" /\ link'[s.tok] = s.ref
    BY <1>1, <1>2, <1>3 DEF TypeOK
  <2>2. ASSUME NEW r \in Refresh, refresh'[r] # "none", r # s.ref
        PROVE  \E a \in Access : access'[a] # "none" /\ link'[a] = r
    <3>1. refresh[r] # "none"
      BY <1>1, <1>4, <2>2 DEF TypeOK
    <3>2. PICK a \in Access : access[a] # "none" /\ link[a] = r
      BY <1>1, <3>1 DEF LedgerOK, PairsAreAtomic
    <3>. QED  BY <1>6, <3>2 DEF Evolution
  <2>. QED  BY <1>2, <2>1, <2>2 DEF PairsAreAtomic
<1>9. LedgerOK'
  BY <1>3, <1>5, <1>6, <1>7, <1>8, QuietLedger
<1>10. PICK n \in Request : MovedTo(n, s, "put")
  BY <1>1, MovedFields DEF PC
<1>11. req' = [req EXCEPT ![p] = n] /\ DistinctFrom(p, n)
  BY <1>1, <1>3, <1>10, GotoMoves, KeepsDistinct DEF MovedTo, PC
<1>12. RequestOK(n)'
  <2>1. StepOK(n)'
    BY <1>1, <1>2, <1>3, <1>10 DEF MovedTo, RequestOK, StepOK
  <2>2. ReservationOK(n)'
    <3>1. s.tok \notin told.issued /\ s.tok \notin told.withdrawn
      BY <1>1, <1>2 DEF LedgerOK, KnownTokensOK, WithdrawnLeavesNothing, RowOf
    <3>2. access'[n.tok] # "none" /\ link'[n.tok] = n.ref
      BY <1>1, <1>2, <1>3, <1>10 DEF MovedTo, TypeOK
    <3>. QED  BY <1>2, <1>3, <1>10, <3>1, <3>2 DEF MovedTo, ReservationOK
  <2>3. RemovalOK(n)'
    <3>1. \A a \in n.batch : access'[a] # "none"
      BY <1>1, <1>6, <1>10 DEF MovedTo, Evolution, RequestOK, RemovalOK, Request
    <3>. QED  BY <1>10, <3>1 DEF MovedTo, RemovalOK
  <2>. QED  BY <2>1, <2>2, <2>3 DEF RequestOK
<1>. QED  BY <1>5, <1>6, <1>7, <1>9, <1>11, <1>12, Assemble

-----------------------------------------------------------------------------
(* Steps that publish a token in Redis, or tell the caller something.      *)

LEMMA TellStep ==
  ASSUME IInv, NEW p \in Proc, NEW n \in Request,
         req' = [req EXCEPT ![p] = n], DistinctFrom(p, n), RequestOK(n)',
         cache' \subseteq Access, told' \in Reply,
         told.issued \subseteq told'.issued,
         \A a \in told'.issued \ told.issued :
           req[p].op \in Producing /\ a = req[p].tok,
         \A x \in told'.withdrawn \ told.withdrawn :
           x \in Access => req[p].op \in Producing /\ x = req[p].tok,
         LedgerOK',
         UNCHANGED <<db, standing, expired>>
  PROVE  IInv'
<1>1. TypeOK /\ RowsOK
  BY DEF IInv
<1>2. TypeOK'
  BY <1>1 DEF TypeOK, db
<1>3. RowsOK'
  BY <1>1 DEF RowsOK, db
<1>4. Evolution(p)
  BY DEF Evolution, db
<1>. QED  BY <1>2, <1>3, <1>4, Assemble

LEMMA IdleAfter ==
  ASSUME IInv, NEW p \in Proc, Finish(p)
  PROVE  /\ Idle \in Request /\ DistinctFrom(p, Idle) /\ RequestOK(Idle)'
         /\ req' = [req EXCEPT ![p] = Idle]
<1>1. RequestOK(Idle)'
  BY DEF Idle, RequestOK, StepOK, ReservationOK, RemovalOK, Producing, Issuing, Leaving, Removing
<1>. QED  BY <1>1, IdleOK DEF Finish

LEMMA PutStep ==
  ASSUME IInv, NEW p \in Proc, Put(p) \/ PutFails(p)
  PROVE  IInv'
<1> DEFINE s == req[p]
<1>1. /\ s \in Request /\ RequestOK(s) /\ LedgerOK /\ RowsOK
      /\ cache \subseteq Access /\ told \in Reply
      /\ req \in [Proc -> Request]
  BY DEF IInv, TypeOK
<1>2. /\ s.pc = "put" /\ s.op \in Producing /\ s.tok \in Access
      /\ access[s.tok] # "none"
      /\ s.tok \notin told.issued /\ s.tok \notin told.withdrawn
  BY <1>1 DEF Put, PutFails, At, RequestOK, StepOK, ReservationOK
<1>3. cache' \subseteq cache \union {s.tok} /\ UNCHANGED <<db, standing, expired>>
  BY DEF Put, PutFails
<1>4. CASE Put(p)
  <2>1. /\ told' \in Reply /\ told'.issued = told.issued \union {s.tok}
        /\ told'.withdrawn = told.withdrawn
        /\ told'.loggedOut = told.loggedOut /\ told'.ended = told.ended
    BY <1>1, <1>2, <1>4 DEF Put, Reply
  <2>2. LedgerOK'
    BY <1>1, <1>2, <1>3, <2>1 DEF LedgerOK, KnownTokensOK, PublishedAfterCommit, PairsAreAtomic, LogoutEndsToken, RemovalEndsSession, WithdrawnLeavesNothing, RowOf, db
  <2>3. Finish(p)
    BY <1>4 DEF Put
  <2>. QED  BY <1>1, <1>2, <1>3, <2>1, <2>2, <2>3, IdleAfter, TellStep
<1>5. CASE PutFails(p)
  <2>1. told' = told
    BY <1>5 DEF PutFails
  <2>2. LedgerOK'
    BY <1>1, <1>2, <1>3, <2>1 DEF LedgerOK, KnownTokensOK, PublishedAfterCommit, PairsAreAtomic, LogoutEndsToken, RemovalEndsSession, WithdrawnLeavesNothing, RowOf, db
  <2>3. PICK n \in Request : MovedTo(n, s, "undoAccess")
    BY <1>1, MovedFields DEF PC
  <2>4. req' = [req EXCEPT ![p] = n] /\ DistinctFrom(p, n)
    BY <1>1, <1>5, <2>3, GotoMoves, KeepsDistinct DEF MovedTo, PC, PutFails
  <2>5. RequestOK(n)'
    BY <1>1, <1>2, <1>3, <2>1, <2>3 DEF MovedTo, RequestOK, StepOK, ReservationOK, RemovalOK, Producing, Issuing, Leaving, Removing, db
  <2>. QED  BY <1>1, <1>2, <1>3, <2>1, <2>2, <2>4, <2>5, TellStep
<1>. QED  BY <1>4, <1>5

LEMMA UndoCacheStep ==
  ASSUME IInv, NEW p \in Proc, UndoCache(p)
  PROVE  IInv'
<1> DEFINE s == req[p]
<1>1. /\ s \in Request /\ RequestOK(s) /\ LedgerOK
      /\ cache \subseteq Access /\ told \in Reply
  BY DEF IInv, TypeOK
<1>2. /\ s.pc = "undoCache" /\ s.op \in Producing /\ s.tok \in Access
      /\ s.ref \in Refresh \union {None}
      /\ s.clean => access[s.tok] = "deleted"
      /\ s.clean /\ s.op # "refresh" => s.ref \in Refresh /\ refresh[s.ref] = "deleted"
  <2>1. s.pc = "undoCache" /\ s.op \in Producing /\ s.tok \in Access
    BY <1>1 DEF UndoCache, At, RequestOK, StepOK, ReservationOK
  <2>2. access[s.tok] # "none" /\ link[s.tok] = s.ref
    BY <1>1, <2>1 DEF RequestOK, ReservationOK
  <2>3. s.ref \in Refresh
    BY <2>1, <2>2 DEF IInv, RowsOK
  <2>. QED
    BY <1>1, <2>1, <2>3 DEF RequestOK, ReservationOK, Request, Producing
<1>3. /\ cache' = cache \ {s.tok} /\ Finish(p)
      /\ UNCHANGED <<db, standing, expired>>
  BY DEF UndoCache
<1>4. CASE s.clean
  <2> DEFINE w == {s.tok} \union (IF s.op = "refresh" THEN {} ELSE {s.ref})
  <2>1. w \subseteq Access \union Refresh
    BY <1>2, <1>4
  <2>2. /\ told' \in Reply /\ told'.issued = told.issued
        /\ told'.withdrawn = told.withdrawn \union w
        /\ told'.loggedOut = told.loggedOut /\ told'.ended = told.ended
    <3>1. told' = [told EXCEPT !.withdrawn = @ \union w]
      BY <1>4 DEF UndoCache, Reply
    <3>. HIDE DEF w
    <3>. QED  BY <1>1, <2>1, <3>1 DEF Reply
  <2>3. WithdrawnLeavesNothing'
    <3>1. ASSUME NEW x \in w PROVE RowOf(x)' = "deleted" /\ x \notin cache'
      BY <1>1, <1>2, <1>3, <1>4, <3>1, ConstantsAssumption DEF RowOf, db
    <3>. HIDE DEF w
    <3>. QED  BY <1>1, <1>3, <2>2, <3>1 DEF LedgerOK, WithdrawnLeavesNothing, RowOf, db
  <2>4. LedgerOK'
    BY <1>1, <1>3, <2>2, <2>3 DEF LedgerOK, KnownTokensOK, PublishedAfterCommit, PairsAreAtomic, LogoutEndsToken, RemovalEndsSession, db
  <2>5. \A x \in told'.withdrawn \ told.withdrawn : x \in Access => x = s.tok
    BY <1>2, <1>4, <2>2, ConstantsAssumption
  <2>. QED  BY <1>1, <1>2, <1>3, <2>2, <2>4, <2>5, IdleAfter, TellStep
<1>5. CASE ~s.clean
  <2>1. told' = told
    BY <1>5 DEF UndoCache
  <2>2. LedgerOK'
    BY <1>1, <1>3, <2>1 DEF LedgerOK, KnownTokensOK, PublishedAfterCommit, PairsAreAtomic, LogoutEndsToken, RemovalEndsSession, WithdrawnLeavesNothing, RowOf, db
  <2>. QED  BY <1>1, <1>3, <2>1, <2>2, IdleAfter, TellStep
<1>. QED  BY <1>4, <1>5

LEMMA EvictStep ==
  ASSUME IInv, NEW p \in Proc, Evict(p)
  PROVE  IInv'
<1> USE DEF Leaving, Removing, Issuing, Producing
<1> DEFINE s == req[p]
<1>1. /\ s \in Request /\ RequestOK(s) /\ LedgerOK
      /\ cache \subseteq Access /\ told \in Reply
      /\ req \in [Proc -> Request]
  BY DEF IInv, TypeOK
<1>2. /\ s.pc = "evict" /\ s.op \in Leaving \union Removing
      /\ s.tok \in Access /\ access[s.tok] = "deleted"
      /\ s.ref # None => s.ref = link[s.tok] /\ refresh[s.ref] = "deleted"
      /\ s.op = "logout" => s.tok \in told.issued
  BY <1>1 DEF Evict, At, RequestOK, StepOK, RemovalOK
<1>3. cache' = cache \ {s.tok} /\ UNCHANGED <<db, standing, expired>>
  BY DEF Evict
<1> DEFINE e == IF s.ref = None THEN {} ELSE {s.tok}
           l == IF s.op = "logout" THEN {s.tok} ELSE {}
<1>4. /\ told' \in Reply /\ told'.issued = told.issued
      /\ told'.withdrawn = told.withdrawn
      /\ told'.ended = told.ended \union e
      /\ told'.loggedOut = told.loggedOut \union l
  <2>1. e \subseteq Access /\ l \subseteq Access
    BY <1>2
  <2>2. told' = [told EXCEPT !.ended = @ \union e, !.loggedOut = @ \union l]
    BY DEF Evict
  <2>. HIDE DEF e, l
  <2>. QED  BY <1>1, <2>1, <2>2 DEF Reply
<1>5. LedgerOK'
  <2>1. KnownTokensOK' /\ LogoutEndsToken' /\ RemovalEndsSession'
    BY <1>1, <1>2, <1>3, <1>4 DEF LedgerOK, KnownTokensOK, LogoutEndsToken, RemovalEndsSession, db
  <2>2. PublishedAfterCommit' /\ PairsAreAtomic' /\ WithdrawnLeavesNothing'
    BY <1>1, <1>3, <1>4 DEF LedgerOK, PublishedAfterCommit, PairsAreAtomic, WithdrawnLeavesNothing, RowOf, db
  <2>. QED  BY <2>1, <2>2 DEF LedgerOK
<1>6. CASE s.op \in Leaving
  BY <1>1, <1>3, <1>4, <1>5, <1>6, IdleAfter, TellStep DEF Evict
<1>7. CASE s.op \in Removing
  <2>1. PICK n \in Request : MovedTo(n, s, "next")
    BY <1>1, MovedFields DEF PC
  <2>2. req' = [req EXCEPT ![p] = n] /\ DistinctFrom(p, n)
    BY <1>1, <1>7, <2>1, GotoMoves, KeepsDistinct DEF MovedTo, PC, Evict
  <2>3. RequestOK(n)'
    BY <1>1, <1>3, <1>4, <1>7, <2>1 DEF MovedTo, RequestOK, StepOK, ReservationOK, RemovalOK, db
  <2>. QED  BY <1>1, <1>3, <1>4, <1>5, <2>2, <2>3, TellStep
<1>. QED  BY <1>2, <1>6, <1>7

LEMMA RemovalRepliesStep ==
  ASSUME IInv, NEW p \in Proc, RemovalReplies(p)
  PROVE  IInv'
<1> DEFINE s == req[p]
<1>1. /\ s \in Request /\ RequestOK(s) /\ LedgerOK
      /\ cache \subseteq Access /\ told \in Reply
  BY DEF IInv, TypeOK
<1>2. /\ told' \in Reply /\ told'.issued = told.issued
      /\ told'.withdrawn = told.withdrawn
      /\ told'.loggedOut = told.loggedOut /\ told'.ended = told.ended
  <2>1. s.op \in Removing
    BY <1>1 DEF RemovalReplies, At, RequestOK, StepOK
  <2>2. CASE s.op = "remove"
    <3>1. s.tok \in Access
      BY <1>1, <2>2 DEF RequestOK, StepOK
    <3>. QED  BY <1>1, <2>2, <3>1 DEF RemovalReplies, Reply
  <2>3. CASE s.op = "disable"
    <3>1. s.user \in User
      BY <1>1, <2>3 DEF RequestOK, StepOK
    <3>. QED  BY <1>1, <2>3, <3>1 DEF RemovalReplies, Reply
  <2>4. CASE s.op = "byUser"
    BY <1>1, <2>4 DEF RemovalReplies, Reply
  <2>. QED  BY <2>1, <2>2, <2>3, <2>4 DEF Removing
<1>3. cache' = cache /\ UNCHANGED <<db, standing, expired>> /\ Finish(p)
  BY DEF RemovalReplies
<1>4. LedgerOK'
  BY <1>1, <1>2, <1>3 DEF LedgerOK, KnownTokensOK, PublishedAfterCommit, PairsAreAtomic, LogoutEndsToken, RemovalEndsSession, WithdrawnLeavesNothing, RowOf, db
<1>. QED  BY <1>1, <1>2, <1>3, <1>4, IdleAfter, TellStep

-----------------------------------------------------------------------------
(* Steps of the rest of the system, and the theorems.                      *)

\* Accounts are enabled again, tenants and clients lapse, tokens expire.
LEMMA WorldStep ==
  ASSUME IInv, World
  PROVE  IInv'
<1>1. TypeOK /\ RowsOK /\ LedgerOK /\ ReservationsDistinct
  BY DEF IInv
<1>2. /\ UNCHANGED <<db, req>> /\ cache' \subseteq cache
      /\ standing' \subseteq Subject /\ expired' \subseteq Access \union Refresh
      /\ told' \in Reply /\ told'.issued = told.issued
      /\ told'.withdrawn = told.withdrawn
      /\ told'.loggedOut = told.loggedOut /\ told'.ended = told.ended
  <2>1. ASSUME NEW u \in User, Enable(u)
        PROVE  /\ told' \in Reply /\ told'.issued = told.issued
               /\ told'.withdrawn = told.withdrawn
               /\ told'.loggedOut = told.loggedOut /\ told'.ended = told.ended
    BY <1>1, <2>1 DEF Enable, TypeOK, Reply
  <2>. QED
    BY <1>1, <2>1, ConstantsAssumption DEF World, Enable, Lapse, Restore, Expire, TypeOK, Subject
<1>3. TypeOK' /\ RowsOK'
  BY <1>1, <1>2 DEF TypeOK, RowsOK, db
<1>4. ReservationsDistinct'
  BY <1>1, <1>2 DEF ReservationsDistinct
<1>5. LedgerOK'
  BY <1>1, <1>2 DEF LedgerOK, KnownTokensOK, PublishedAfterCommit, PairsAreAtomic, LogoutEndsToken, RemovalEndsSession, WithdrawnLeavesNothing, RowOf, db
<1>6. ASSUME NEW p \in Proc PROVE RequestOK(req[p])'
  <2>1. RequestOK(req[p])
    BY DEF IInv
  <2>2. RequestOK(req[p])'
    BY <1>2, <2>1 DEF RequestOK, StepOK, ReservationOK, RemovalOK, db
  <2>. QED  BY <2>2
<1>. QED  BY <1>3, <1>4, <1>5, <1>6 DEF IInv

LEMMA Initially == Init => IInv
<1> SUFFICES ASSUME Init PROVE IInv
  OBVIOUS
<1>1. Idle \in Request
  BY DEF Idle, Request, PC
<1>2. TypeOK
  BY <1>1 DEF Init, TypeOK, Row, Reply, Subject
<1>3. ASSUME NEW p \in Proc PROVE RequestOK(req[p])
  BY DEF Init, Idle, RequestOK, StepOK, ReservationOK, RemovalOK, Producing, Issuing, Leaving, Removing
<1>4. ReservationsDistinct
  BY DEF Init, Idle, ReservationsDistinct, Producing, Issuing
<1>5. RowsOK /\ LedgerOK
  BY DEF Init, RowsOK, LedgerOK, KnownTokensOK, PublishedAfterCommit, PairsAreAtomic, LogoutEndsToken, RemovalEndsSession, WithdrawnLeavesNothing
<1>. QED  BY <1>2, <1>3, <1>4, <1>5 DEF IInv

LEMMA RequestStep ==
  ASSUME IInv, NEW p \in Proc,
         Issue(p) \/ Revoke(p) \/ Progress(p) \/ Mishap(p)
  PROVE  IInv'
<1>1. CASE Issue(p)
  BY <1>1, StartIssueStep, StartRefreshStep DEF Issue
<1>2. CASE Revoke(p)
  BY <1>2, StartRevocationStep
<1>3. CASE FailCheck(p) \/ FindForeign(p) \/ Abort(p)
  BY <1>3, FinishStep DEF FailCheck, FindForeign, Abort
<1>4. CASE Progress(p)
  BY <1>3, <1>4, LocalProgressStep, LocalGotoStep, SoftDeletions, DropExpiredStep, InsertionStep, PutStep, UndoCacheStep, EvictStep, RemovalRepliesStep DEF Progress
<1>5. CASE Mishap(p)
  BY <1>3, <1>5, PutStep, LocalGotoStep DEF Mishap
<1>. QED  BY <1>1, <1>2, <1>4, <1>5

LEMMA Idles == IInv /\ UNCHANGED vars => IInv'
BY DEF IInv, vars, TypeOK, RowsOK, RequestOK, StepOK, ReservationOK, RemovalOK, ReservationsDistinct, LedgerOK, KnownTokensOK, PublishedAfterCommit, PairsAreAtomic, LogoutEndsToken, RemovalEndsSession, WithdrawnLeavesNothing, RowOf

\* IInv holds in every reachable state, for every set of users, tokens and
\* concurrent requests and with any failures.
THEOREM Inductive == Spec => []IInv
<1>1. IInv /\ [Next]_vars => IInv'
  BY RequestStep, WorldStep, Idles DEF Next
<1>. QED  BY <1>1, Initially, PTL DEF Spec

\* Every variable keeps its type.
THEOREM TypeCorrect == Spec => []TypeOK
<1>1. IInv => TypeOK
  BY DEF IInv
<1>. QED  BY <1>1, Inductive, PTL

\* Redis never holds a token that MySQL has not committed.
THEOREM PublishedAfterCommitHolds == Spec => []PublishedAfterCommit
<1>1. IInv => PublishedAfterCommit
  BY DEF IInv, LedgerOK
<1>. QED  BY <1>1, Inductive, PTL

\* No refresh row without the access row of its pair.
THEOREM PairsAreAtomicHolds == Spec => []PairsAreAtomic
<1>1. IInv => PairsAreAtomic
  BY DEF IInv, LedgerOK
<1>. QED  BY <1>1, Inductive, PTL

\* A token whose Logout has answered success is dead in MySQL and in Redis.
THEOREM LogoutIsFinal == Spec => []LogoutEndsToken
<1>1. IInv => LogoutEndsToken
  BY DEF IInv, LedgerOK
<1>. QED  BY <1>1, Inductive, PTL

\* A removal that ran to its end leaves neither token of the session alive.
THEOREM RemovalIsFinal == Spec => []RemovalEndsSession
<1>1. IInv => RemovalEndsSession
  BY DEF IInv, LedgerOK
<1>. QED  BY <1>1, Inductive, PTL

\* A compensation that reported no error has left nothing behind.
THEOREM CompensationIsComplete == Spec => []WithdrawnLeavesNothing
<1>1. IInv => WithdrawnLeavesNothing
  BY DEF IInv, LedgerOK
<1>. QED  BY <1>1, Inductive, PTL

\* The writes of a tenant's request hit only rows of that tenant.
THEOREM TenantIsolation == Spec => []ScopedToTenant
<1>1. IInv => ScopedToTenant
  BY ConstantsAssumption DEF IInv, ScopedToTenant, RequestOK, StepOK, ReservationOK, RemovalOK, Producing, Issuing, Leaving, Removing
<1>. QED  BY <1>1, Inductive, PTL

\* Only expiry, a removal or the compensation of the issue that created it
\* takes a refresh token away: a failed rotation never does.
THEOREM RefreshSurvivesRotation == Spec => RefreshKeepsSession
<1> DEFINE Kept == \A r \in Refresh :
             refresh[r] = "live" /\ refresh'[r] # "live" =>
               \/ r \in expired
               \/ \E p \in Proc : /\ req[p].ref = r
                                  /\ req[p].op # "refresh"
                                  /\ req[p].pc \in {"delRefresh", "undoRefresh"}
<1>1. IInv /\ [Next]_vars => [Kept]_vars
  <2> SUFFICES ASSUME IInv, Next, NEW r \in Refresh,
                      refresh[r] = "live", refresh'[r] # "live"
               PROVE  \/ r \in expired
                      \/ \E p \in Proc :
                           /\ req[p].ref = r
                           /\ req[p].op # "refresh"
                           /\ req[p].pc \in {"delRefresh", "undoRefresh"}
    OBVIOUS
  <2>1. refresh \in [Refresh -> Row]
    BY DEF IInv, TypeOK
  <2>2. PICK p \in Proc : InsertPair(p) \/ UndoRefresh(p) \/ DropExpired(p)
                            \/ DeleteRefresh(p)
    <3>1. ~World
      BY DEF World, Enable, Lapse, Restore, Expire, db
    <3>2. PICK p \in Proc : Issue(p) \/ Revoke(p) \/ Progress(p) \/ Mishap(p)
      BY <3>1 DEF Next
    <3>3. ~Issue(p) /\ ~Revoke(p)
      BY DEF Issue, StartIssue, StartRefresh, Revoke, StartLogout, StartForceLogout, StartRemove, StartRemoveByUser, StartDisable, db
    <3>4. ~Mishap(p)
      BY DEF Mishap, PutFails, UndoFails, Abort, db
    <3>5. ~(\E a \in Access : TakeNext(p, a)) /\ ~FindAccess(p)
          /\ ~FindForeign(p) /\ ~FindNothing(p) /\ ~DeleteAccess(p) /\ ~Evict(p)
          /\ ~ListByUser(p) /\ ~RemovalReplies(p)
      BY DEF ListByUser, RemovalReplies, TakeNext, FindAccess, FindForeign, FindNothing, DeleteAccess, Evict, db
    <3>6. ~PassCheck(p) /\ ~FailCheck(p) /\ ~Put(p) /\ ~UndoAccess(p)
          /\ ~UndoCache(p) /\ ~SelectOld(p) /\ ~Rotate(p) /\ ~EvictOld(p)
          /\ ~InsertAccess(p)
      BY DEF PassCheck, FailCheck, Put, UndoAccess, UndoCache, SelectOld, Rotate, EvictOld, InsertAccess, db
    <3>. QED  BY <3>2, <3>3, <3>4, <3>5, <3>6 DEF Progress
  <2>3. ~InsertPair(p)
    BY <2>1 DEF InsertPair
  <2>4. r = req[p].ref
    BY <2>1, <2>2, <2>3 DEF UndoRefresh, DropExpired, DeleteRefresh
  <2>5. RequestOK(req[p])
    BY DEF IInv
  <2>. QED
    BY <2>2, <2>3, <2>4, <2>5 DEF UndoRefresh, DropExpired, DeleteRefresh, At, RequestOK, StepOK, Issuing, Leaving, Removing
<1>2. Spec => [][Kept]_vars
  BY <1>1, Inductive, PTL DEF Spec
<1>. QED  BY <1>2 DEF RefreshKeepsSession

-----------------------------------------------------------------------------
(* Requests that run one after the other.                                  *)

Alone == \E p : Proc = {p}

\* Between FindAccess and its reply, a removal works on this token.
Removes(q) ==
  \/ q.pc \in {"delAccess", "delRefresh"}
  \/ q.pc = "evict" /\ q.ref # None

\* What a request that runs alone can rely on: the session it rotates is live
\* and, once the UPDATE has run, has no live access token; the session it
\* removes has no live access token but the one that is removed.
SessionStep(q) ==
  /\ /\ q.op = "refresh"
     /\ q.pc \in {"check", "select", "rotate", "evictOld", "insert"}
     => refresh[q.ref] = "live"
  /\ q.op = "refresh" /\ q.pc \in {"evictOld", "insert"} =>
       \A a \in Access : access[a] = "live" => link[a] # q.ref
  /\ Removes(q) =>
       \A a \in Access : access[a] = "live" /\ link[a] = link[q.tok] => a = q.tok

SessionsOK ==
  /\ OneAccessPerRefresh
  /\ SessionOver
  /\ \A p \in Proc : SessionStep(req[p])

\* Steps at which a request relies on nothing.
Rests(q) ==
  /\ q.op = "refresh" =>
       q.pc \notin {"check", "select", "rotate", "evictOld", "insert"}
  /\ ~Removes(q)

\* What a step to another place, or to the end, does to a request.
LEMMA Turns ==
  ASSUME IInv, NEW p \in Proc
  PROVE  /\ Finish(p) => req'[p] = Idle /\ Rests(req'[p])
         /\ \A c \in PC : Goto(p, c) =>
              /\ req'[p].pc = c /\ req'[p].op = req[p].op
              /\ req'[p].tok = req[p].tok /\ req'[p].ref = req[p].ref
              /\ req'[p].batch = req[p].batch
<1>1. req \in [Proc -> Request]
  BY DEF IInv, TypeOK
<1>2. Rests(Idle)
  BY DEF Rests, Removes, Idle
<1>3. ASSUME NEW c \in PC, Goto(p, c)
      PROVE  /\ req'[p].pc = c /\ req'[p].op = req[p].op
             /\ req'[p].tok = req[p].tok /\ req'[p].ref = req[p].ref
             /\ req'[p].batch = req[p].batch
  BY <1>1, <1>3 DEF Goto, Request
<1>. QED  BY <1>1, <1>2, <1>3 DEF Finish

\* A step that brings no row to life keeps the sessions in order if the request
\* that takes it relies on nothing wrong.
LEMMA SessionsMove ==
  ASSUME SessionsOK, Alone, NEW p \in Proc,
         \A a \in Access : access'[a] = "live" => access[a] = "live",
         link' = link, told'.ended = told.ended, SessionStep(req[p])'
  PROVE  SessionsOK'
<1>1. OneAccessPerRefresh'
  BY DEF SessionsOK, OneAccessPerRefresh
<1>2. SessionOver'
  BY DEF SessionsOK, SessionOver
<1>3. ASSUME NEW q \in Proc PROVE SessionStep(req[q])'
  <2>1. q = p
    BY DEF Alone
  <2>. QED  BY <2>1
<1>. QED  BY <1>1, <1>2, <1>3 DEF SessionsOK

\* The same for a step after which the request relies on nothing.
LEMMA SessionsRest ==
  ASSUME SessionsOK, Alone, NEW p \in Proc,
         \A a \in Access : access'[a] = "live" => access[a] = "live",
         link' = link, told'.ended = told.ended, Rests(req'[p])
  PROVE  SessionsOK'
<1>1. SessionStep(req[p])'
  BY DEF Rests, SessionStep, Removes
<1>. QED  BY <1>1, SessionsMove

LEMMA SessionsStart ==
  ASSUME IInv, SessionsOK, Alone, NEW p \in Proc, Issue(p) \/ Revoke(p)
  PROVE  SessionsOK'
<1>1. req \in [Proc -> Request] /\ UNCHANGED <<db, told>>
  BY DEF IInv, TypeOK, Issue, Revoke, StartIssue, StartRefresh, StartLogout, StartForceLogout, StartRemove, StartRemoveByUser, StartDisable
<1>2. \A a \in Access : access'[a] = "live" => access[a] = "live"
  BY <1>1 DEF db
<1>3. link' = link /\ refresh' = refresh /\ told'.ended = told.ended
  BY <1>1 DEF db
<1>4. CASE \E u \in User, o \in Issuing, a \in Access, r \in Refresh :
             StartIssue(p, u, o, a, r)
  <2>1. req'[p].pc = "check" /\ req'[p].op \in Issuing
    BY <1>1, <1>4 DEF StartIssue, Start, Idle
  <2>2. Rests(req'[p])
    BY <2>1 DEF Rests, Removes, Issuing
  <2>. QED  BY <1>2, <1>3, <2>2, SessionsRest
<1>5. ASSUME NEW r \in Refresh, NEW t \in Tenant \union {AnyTenant},
             NEW a \in Access, StartRefresh(p, r, t, a)
      PROVE  SessionsOK'
  <2>1. /\ req'[p].pc = "check" /\ req'[p].ref = r /\ refresh[r] = "live"
    BY <1>1, <1>5 DEF StartRefresh, Start, Idle
  <2>2. SessionStep(req[p])'
    BY <1>3, <2>1 DEF SessionStep, Removes
  <2>. QED  BY <1>2, <1>3, <2>2, SessionsMove
<1>6. CASE Revoke(p)
  <2>1. req'[p].pc \in {"find", "next", "list"}
    <3>1. ASSUME NEW a \in Access, NEW t \in Tenant, StartForceLogout(p, a, t)
          PROVE  req'[p].pc = "find"
      BY <1>1, <3>1 DEF StartForceLogout, Start, Idle
    <3>4. ASSUME NEW a \in Access, NEW t \in Tenant, StartRemove(p, a, t)
          PROVE  req'[p].pc = "next"
      BY <1>1, <3>4 DEF StartRemove, Start, Idle
    <3>2. ASSUME NEW u \in User, StartRemoveByUser(p, u) \/ StartDisable(p, u)
          PROVE  req'[p].pc = "list"
      BY <1>1, <3>2 DEF StartRemoveByUser, StartDisable, Start, Idle
    <3>3. ASSUME NEW a \in Access, StartLogout(p, a)
          PROVE  req'[p].pc = "find"
      BY <1>1, <3>3 DEF StartLogout, Start, Idle
    <3>. QED  BY <1>6, <3>1, <3>2, <3>3, <3>4 DEF Revoke
  <2>2. Rests(req'[p])
    BY <2>1 DEF Rests, Removes
  <2>. QED  BY <1>2, <1>3, <2>2, SessionsRest
<1>. QED  BY <1>4, <1>5, <1>6 DEF Issue

\* Steps that end the request, or leave it where it relies on nothing.
LEMMA SessionsIdle ==
  ASSUME IInv, SessionsOK, Alone, NEW p \in Proc,
         \/ FailCheck(p) \/ Put(p) \/ PutFails(p) \/ UndoAccess(p)
         \/ UndoRefresh(p) \/ UndoCache(p) \/ UndoFails(p) \/ DropExpired(p)
         \/ ListByUser(p) \/ RemovalReplies(p) \/ FindForeign(p)
         \/ FindNothing(p) \/ Abort(p) \/ \E a \in Access : TakeNext(p, a)
  PROVE  SessionsOK'
<1>1. /\ req \in [Proc -> Request] /\ told \in Reply /\ RequestOK(req[p])
      /\ access \in [Access -> Row]
  BY DEF IInv, TypeOK
<1>2. Rests(req'[p])
  <2>1. CASE Finish(p)
    BY <2>1, Turns
  <2>2. CASE Goto(p, "undoAccess") \/ Goto(p, "undoCache") \/ Goto(p, "next")
               \/ Goto(p, "undoRefresh")
    <3>1. req'[p].pc \in {"undoAccess", "undoCache", "next", "undoRefresh"}
      BY <2>2, Turns DEF PC
    <3>. QED  BY <3>1 DEF Rests, Removes
  <2>3. CASE UndoFails(p) \/ ListByUser(p) \/ \E a \in Access : TakeNext(p, a)
    <3>1. CASE Finish(p)
      BY <3>1, Turns
    <3>2. CASE ~Finish(p)
      <4>1. req'[p].pc \in {"undoCache", "undoRefresh", "next", "find"}
        <5>1. CASE UndoFails(p)
          BY <1>1, <3>2, <5>1 DEF UndoFails, AfterUndoAccess, Request
        <5>2. CASE ListByUser(p)
          BY <1>1, <5>2 DEF ListByUser, Request
        <5>3. ASSUME NEW a \in Access, TakeNext(p, a)
              PROVE  req'[p].pc = "find"
          <6> DEFINE n == [req[p] EXCEPT !.pc = "find", !.tok = a, !.ref = None,
                                         !.batch = req[p].batch \ {a}]
          <6>1. req' = [req EXCEPT ![p] = n]
            BY <1>1, <5>3 DEF TakeNext
          <6>2. n.pc = "find"
            BY <1>1 DEF Request
          <6>. HIDE DEF n
          <6>. QED  BY <1>1, <6>1, <6>2
        <5>. QED  BY <2>3, <5>1, <5>2, <5>3
      <4>. QED  BY <4>1 DEF Rests, Removes
    <3>. QED  BY <3>1, <3>2
  <2>4. CASE FindNothing(p) /\ Goto(p, "evict")
    <3>1. req[p].pc = "find" /\ req[p].ref = None /\ req[p].op # "refresh"
      BY <1>1, <2>4 DEF FindNothing, At, RequestOK, StepOK, RemovalOK, Leaving, Removing
    <3>2. req'[p].ref = None /\ req'[p].op # "refresh" /\ req'[p].pc = "evict"
      BY <2>4, <3>1, Turns DEF PC
    <3>. QED  BY <3>2 DEF Rests, Removes
  <2>5. FindNothing(p) => Finish(p) \/ Goto(p, "evict") \/ Goto(p, "next")
    BY <1>1 DEF FindNothing, At, RequestOK, StepOK, Leaving, Removing
  <2>. QED
    BY <2>1, <2>2, <2>3, <2>4, <2>5 DEF FailCheck, Put, PutFails, UndoAccess, UndoRefresh, UndoCache, DropExpired, RemovalReplies, FindForeign, Abort, AfterUndoAccess
<1>3. \A a \in Access : access'[a] = "live" => access[a] = "live"
  <2>1. CASE UndoAccess(p)
    BY <1>1, <2>1 DEF UndoAccess, SoftDelete
  <2>2. CASE ~UndoAccess(p)
    BY <2>2 DEF FailCheck, Put, PutFails, UndoRefresh, UndoCache, UndoFails, DropExpired, ListByUser, RemovalReplies, FindForeign, FindNothing, Abort, TakeNext, db
  <2>. QED  BY <2>1, <2>2
<1>4. link' = link
  BY DEF FailCheck, Put, PutFails, UndoAccess, UndoRefresh, UndoCache, UndoFails, DropExpired, ListByUser, RemovalReplies, FindForeign, FindNothing, Abort, TakeNext, db
<1>5. told'.ended = told.ended
  BY <1>1 DEF Reply, FailCheck, Put, PutFails, UndoAccess, UndoRefresh, UndoCache, UndoFails, DropExpired, ListByUser, RemovalReplies, FindForeign, FindNothing, Abort, TakeNext
<1>. QED  BY <1>2, <1>3, <1>4, <1>5, SessionsRest

\* The validations: nothing is written, and the rotation of a live refresh token
\* stays one until its access tokens are to be deleted.
LEMMA SessionsCheck ==
  ASSUME IInv, SessionsOK, Alone, NEW p \in Proc, PassCheck(p) \/ SelectOld(p)
  PROVE  SessionsOK'
<1> DEFINE s == req[p]
<1>1. /\ req \in [Proc -> Request] /\ UNCHANGED <<db, told>> /\ SessionStep(s)
      /\ RequestOK(s)
  BY DEF IInv, TypeOK, SessionsOK, PassCheck, SelectOld
<1>2. /\ req'[p].op = s.op /\ req'[p].ref = s.ref
      /\ \/ s.op = "refresh" /\ req'[p].pc \in {"check", "select", "rotate"}
         \/ s.op # "refresh" /\ req'[p].pc \in {"check", "insert"}
  <2>1. CASE PassCheck(p)
    BY <1>1, <2>1 DEF PassCheck, Request
  <2>2. CASE SelectOld(p)
    BY <1>1, <2>2 DEF SelectOld, Request, At, RequestOK, StepOK
  <2>. QED  BY <2>1, <2>2
<1>3. s.pc \in {"check", "select"}
  BY DEF PassCheck, SelectOld, At
<1>4. SessionStep(req[p])'
  BY <1>1, <1>2, <1>3 DEF SessionStep, Removes, db
<1>. QED  BY <1>1, <1>4, SessionsMove DEF db

\* The UPDATE of a rotation leaves no live access token of the session.
LEMMA SessionsRotate ==
  ASSUME IInv, SessionsOK, Alone, NEW p \in Proc, Rotate(p) \/ EvictOld(p)
  PROVE  SessionsOK'
<1> DEFINE s == req[p]
<1>1. /\ access \in [Access -> Row] /\ SessionStep(s) /\ RequestOK(s)
      /\ link' = link /\ refresh' = refresh /\ told' = told
  BY DEF IInv, TypeOK, SessionsOK, Rotate, EvictOld, db
<1>2. s.op = "refresh" /\ refresh[s.ref] = "live"
  BY <1>1 DEF Rotate, EvictOld, At, RequestOK, StepOK, SessionStep
<1>3. /\ req'[p].pc \in {"insert", "evictOld"}
      /\ req'[p].op = "refresh" /\ req'[p].ref = s.ref
  BY <1>2, Turns DEF Rotate, EvictOld, PC
<1>4. \A a \in Access :
        access'[a] = "live" => access[a] = "live" /\ link'[a] # s.ref
  <2>1. CASE Rotate(p)
    BY <1>1, <2>1 DEF Rotate, LiveAccessOf
  <2>2. CASE EvictOld(p)
    BY <1>1, <1>2, <2>2 DEF EvictOld, At, SessionStep, db
  <2>. QED  BY <2>1, <2>2
<1>5. SessionStep(req[p])'
  BY <1>1, <1>2, <1>3, <1>4 DEF SessionStep, Removes
<1>. QED  BY <1>1, <1>4, <1>5, SessionsMove

\* The new access token is the only live one of its session, which is not over:
\* a login has a new session, and a rotation has emptied its own.
LEMMA SessionsInsert ==
  ASSUME IInv, SessionsOK, Alone, NEW p \in Proc,
         InsertPair(p) \/ InsertAccess(p)
  PROVE  SessionsOK'
<1> DEFINE s == req[p]
<1>1. /\ access \in [Access -> Row] /\ link \in [Access -> Refresh \union {None}]
      /\ SessionStep(s) /\ RequestOK(s) /\ RowsOK /\ LedgerOK
      /\ told \in Reply /\ told' = told
  BY DEF IInv, TypeOK, SessionsOK, InsertPair, InsertAccess
<1>2. s.pc = "insert" /\ s.tok \in Access /\ access[s.tok] = "none"
  BY <1>1 DEF InsertPair, InsertAccess, At, RequestOK, ReservationOK
<1>3. \A a \in Access \ {s.tok} : access'[a] = access[a] /\ link'[a] = link[a]
  BY <1>1 DEF InsertPair, InsertAccess
<1>4. link'[s.tok] = s.ref
  BY <1>1, <1>2 DEF InsertPair, InsertAccess
<1>5. \A a \in Access : access[a] = "live" => link[a] # s.ref
  <2>1. CASE InsertPair(p)
    <3>1. refresh[s.ref] = "none"
      BY <1>1, <1>2, <2>1 DEF InsertPair, RequestOK, ReservationOK
    <3>. QED  BY <1>1, <3>1 DEF RowsOK
  <2>2. CASE InsertAccess(p)
    BY <1>1, <1>2, <2>2 DEF InsertAccess, SessionStep
  <2>. QED  BY <2>1, <2>2
<1>6. \A a \in told.ended :
        a \in Access /\ access[a] = "deleted" /\ a # s.tok /\ link[a] # s.ref
  <2>1. \A a \in told.ended : a \in Access /\ access[a] = "deleted"
    BY <1>1 DEF LedgerOK, KnownTokensOK, Reply
  <2>2. \A a \in told.ended : link[a] # None /\ refresh[link[a]] = "deleted"
    BY <1>1, <2>1, ConstantsAssumption DEF LedgerOK, RemovalEndsSession, RowsOK
  <2>3. refresh[s.ref] # "deleted"
    BY <1>1, <1>2 DEF InsertPair, InsertAccess, RequestOK, ReservationOK, SessionStep
  <2>. QED  BY <1>2, <2>1, <2>2, <2>3
<1>7. OneAccessPerRefresh'
  <2>1. ASSUME NEW a \in Access, NEW b \in Access,
               access'[a] = "live", access'[b] = "live", link'[a] = link'[b]
        PROVE  a = b
    <3>1. CASE a # s.tok /\ b # s.tok
      BY <1>3, <2>1, <3>1 DEF SessionsOK, OneAccessPerRefresh
    <3>2. CASE a = s.tok /\ b # s.tok
      BY <1>3, <1>4, <1>5, <2>1, <3>2
    <3>3. CASE a # s.tok /\ b = s.tok
      BY <1>3, <1>4, <1>5, <2>1, <3>3
    <3>. QED  BY <3>1, <3>2, <3>3
  <2>. QED  BY <2>1 DEF OneAccessPerRefresh
<1>8. SessionOver'
  <2>1. ASSUME NEW a \in told.ended, NEW b \in Access, link'[b] = link'[a]
        PROVE  access'[b] # "live"
    <3>1. link'[a] = link[a] /\ a # s.tok /\ link[a] # s.ref
      BY <1>3, <1>6
    <3>2. b # s.tok
      BY <1>4, <2>1, <3>1
    <3>. QED  BY <1>3, <2>1, <3>1, <3>2 DEF SessionsOK, SessionOver
  <2>. QED  BY <1>1, <2>1 DEF SessionOver
<1>9. req'[p].pc = "put"
  BY Turns DEF InsertPair, InsertAccess, PC
<1>10. ASSUME NEW q \in Proc PROVE SessionStep(req[q])'
  <2>1. q = p
    BY DEF Alone
  <2>2. SessionStep(req[p])'
    BY <1>9 DEF SessionStep, Removes
  <2>. QED  BY <2>1, <2>2
<1>. QED  BY <1>7, <1>8, <1>10 DEF SessionsOK

\* A removal finds the only live access token of its session.
LEMMA SessionsRemove ==
  ASSUME IInv, SessionsOK, Alone, NEW p \in Proc,
         FindAccess(p) \/ DeleteRefresh(p) \/ DeleteAccess(p)
  PROVE  SessionsOK'
<1> DEFINE s == req[p]
<1>1. /\ req \in [Proc -> Request] /\ access \in [Access -> Row]
      /\ SessionStep(s) /\ RequestOK(s) /\ link' = link /\ told' = told
  BY DEF IInv, TypeOK, SessionsOK, FindAccess, DeleteRefresh, DeleteAccess, db
<1>2. /\ s.tok \in Access /\ s.op \in Leaving \union Removing
      /\ s.pc \in {"find", "delRefresh", "delAccess"}
  BY <1>1 DEF FindAccess, DeleteRefresh, DeleteAccess, At, RequestOK, StepOK, RemovalOK
<1>3. \A a \in Access : access[a] = "live" /\ link[a] = link[s.tok] => a = s.tok
  <2>1. CASE FindAccess(p)
    BY <1>2, <2>1 DEF FindAccess, SessionsOK, OneAccessPerRefresh
  <2>2. CASE DeleteRefresh(p) \/ DeleteAccess(p)
    BY <1>1, <2>2 DEF DeleteRefresh, DeleteAccess, At, SessionStep, Removes
  <2>. QED  BY <2>1, <2>2
<1>4. \A a \in Access : access'[a] = "live" => access[a] = "live"
  BY <1>1 DEF FindAccess, DeleteRefresh, DeleteAccess, SoftDelete, db
<1>5. req'[p].tok = s.tok /\ req'[p].op = s.op
  <2>1. CASE FindAccess(p)
    BY <1>1, <2>1 DEF FindAccess, Request
  <2>2. CASE DeleteRefresh(p) \/ DeleteAccess(p)
    BY <2>2, Turns DEF DeleteRefresh, DeleteAccess, PC
  <2>. QED  BY <2>1, <2>2
<1>6. req'[p].op # "refresh"
  BY <1>2, <1>5 DEF Leaving, Removing
<1>7. SessionStep(req[p])'
  BY <1>1, <1>3, <1>4, <1>5, <1>6 DEF SessionStep
<1>. QED  BY <1>1, <1>4, <1>7, SessionsMove

\* The end of a removal: the session is over.
LEMMA SessionsEvict ==
  ASSUME IInv, SessionsOK, Alone, NEW p \in Proc, Evict(p)
  PROVE  SessionsOK'
<1> DEFINE s == req[p]
           e == IF s.ref = None THEN {} ELSE {s.tok}
<1>1. /\ SessionStep(s) /\ RequestOK(s) /\ told \in Reply
      /\ link' = link /\ access' = access /\ s.pc = "evict"
  BY DEF IInv, TypeOK, SessionsOK, Evict, At, db
<1>2. s.tok \in Access /\ access[s.tok] = "deleted"
  BY <1>1 DEF RequestOK, RemovalOK
<1>3. told'.ended = told.ended \union e
  <2> DEFINE l == IF s.op = "logout" THEN {s.tok} ELSE {}
  <2>1. told' = [told EXCEPT !.ended = @ \union e, !.loggedOut = @ \union l]
    BY DEF Evict
  <2>. HIDE DEF e, l
  <2>. QED  BY <1>1, <2>1 DEF Reply
<1>4. SessionOver'
  <2>1. ASSUME NEW a \in told'.ended, NEW b \in Access, link[b] = link[a]
        PROVE  access[b] # "live"
    <3>1. CASE a \in told.ended
      BY <2>1, <3>1 DEF SessionsOK, SessionOver
    <3>2. CASE a \notin told.ended
      <4>1. s.ref # None /\ a = s.tok
        BY <1>3, <2>1, <3>2
      <4>2. access[b] = "live" => b = s.tok
        BY <1>1, <2>1, <4>1 DEF SessionStep, Removes
      <4>. QED  BY <1>2, <4>2
    <3>. QED  BY <3>1, <3>2
  <2>. QED  BY <1>1, <2>1 DEF SessionOver
<1>5. OneAccessPerRefresh'
  BY <1>1 DEF SessionsOK, OneAccessPerRefresh
<1>6. Rests(req'[p])
  <2>1. CASE Finish(p)
    BY <2>1, Turns
  <2>2. CASE Goto(p, "next")
    <3>1. req'[p].pc = "next"
      BY <2>2, Turns DEF PC
    <3>. QED  BY <3>1 DEF Rests, Removes
  <2>. QED  BY <2>1, <2>2 DEF Evict
<1>7. ASSUME NEW q \in Proc PROVE SessionStep(req[q])'
  <2>1. q = p
    BY DEF Alone
  <2>2. SessionStep(req[p])'
    BY <1>6 DEF Rests, SessionStep, Removes
  <2>. QED  BY <2>1, <2>2
<1>. QED  BY <1>4, <1>5, <1>7 DEF SessionsOK

LEMMA SessionsSame ==
  ASSUME IInv, SessionsOK, World \/ UNCHANGED vars
  PROVE  SessionsOK'
<1>1. /\ access' = access /\ refresh' = refresh /\ link' = link /\ req' = req
      /\ told'.ended = told.ended
  <2>1. CASE UNCHANGED vars
    BY <2>1 DEF vars
  <2>2. CASE World
    <3>1. UNCHANGED <<db, req>>
      BY <2>2 DEF World, Enable, Lapse, Restore, Expire
    <3>2. told'.ended = told.ended
      BY <2>2 DEF World, Enable, Lapse, Restore, Expire, IInv, TypeOK, Reply
    <3>. QED  BY <3>1, <3>2 DEF db
  <2>. QED  BY <2>1, <2>2
<1>2. OneAccessPerRefresh' /\ SessionOver'
  BY <1>1 DEF SessionsOK, OneAccessPerRefresh, SessionOver
<1>3. ASSUME NEW q \in Proc PROVE SessionStep(req[q])'
  BY <1>1 DEF SessionsOK, SessionStep, Removes
<1>. QED  BY <1>2, <1>3 DEF SessionsOK

LEMMA SessionsInductive ==
  ASSUME Alone
  PROVE  Spec => []SessionsOK
<1>1. Init => SessionsOK
  BY DEF Init, Idle, SessionsOK, OneAccessPerRefresh, SessionOver, SessionStep, Removes
<1>2. IInv /\ SessionsOK /\ [Next]_vars => SessionsOK'
  BY SessionsStart, SessionsIdle, SessionsCheck, SessionsRotate, SessionsInsert, SessionsRemove, SessionsEvict, SessionsSame DEF Next, Progress, Mishap
<1>. QED  BY <1>1, <1>2, Inductive, PTL DEF Spec

\* Requests that run one after the other, with failures and restarts: at most one
\* live access token hangs on a refresh token, because a rotation that failed
\* between its UPDATE and its INSERT leaves none, and the next one deletes by the
\* refresh token again (DeleteAccessByRefresh).
THEOREM RotationReplaces ==
  ASSUME Alone
  PROVE  Spec => []OneAccessPerRefresh
<1>1. SessionsOK => OneAccessPerRefresh
  BY DEF SessionsOK
<1>. QED  BY <1>1, SessionsInductive, PTL

\* Requests that run one after the other, with failures and restarts: after a
\* complete removal no access token of the session is left, whatever rotations
\* came before it.
THEOREM RemovalEndsAllOfSession ==
  ASSUME Alone
  PROVE  Spec => []SessionOver
<1>1. SessionsOK => SessionOver
  BY DEF SessionsOK
<1>. QED  BY <1>1, SessionsInductive, PTL

-----------------------------------------------------------------------------
(* Requests that run one after the other, without failures.                *)

\* Tokens whose row is deleted and whose key the request will delete next.
Slated(q) ==
  {a \in Access : \/ q.pc = "evictOld" /\ a \in q.batch
                  \/ q.pc = "evict" /\ a = q.tok
                  \/ q.pc = "delRefresh" /\ q.op \in Removing /\ a = q.tok}

CalmStep(q) ==
  /\ q.pc \notin {"undoAccess", "undoRefresh", "undoCache"}
  /\ q.pc = "rotate" => q.batch = LiveAccessOf(q.ref)
  /\ q.pc = "put" => access[q.tok] = "live"
  /\ \A a \in Slated(q) : access[a] # "live"

\* The keys Redis should hold.
Current == {a \in told.issued \ expired : access[a] = "live"}

\* Apart from the keys a request is about to delete, Redis agrees with MySQL.
CalmOK ==
  \A p \in Proc : CalmStep(req[p]) /\ cache \ Slated(req[p]) = Current

\* Steps at which the request knows nothing of the rows, and has no key to delete.
Plain(q) ==
  /\ q.pc \notin {"rotate", "evictOld", "evict", "put", "undoAccess",
                  "undoRefresh", "undoCache"}
  /\ q.pc = "delRefresh" => q.op \notin Removing

LEMMA PlainOK ==
  ASSUME NEW q, Plain(q)
  PROVE  CalmStep(q) /\ Slated(q) = {}
BY DEF Plain, CalmStep, Slated

LEMMA PlainIdle ==
  ASSUME IInv, NEW p \in Proc, Finish(p)
  PROVE  Plain(req'[p])
<1>1. req'[p] = Idle
  BY Turns
<1>. QED  BY <1>1 DEF Plain, Idle

LEMMA CalmMove ==
  ASSUME Alone, NEW p \in Proc, CalmStep(req[p])',
         cache' \ Slated(req'[p]) = Current'
  PROVE  CalmOK'
<1>1. ASSUME NEW q \in Proc
      PROVE  CalmStep(req[q])' /\ cache' \ Slated(req'[q]) = Current'
  <2>1. q = p
    BY DEF Alone
  <2>. QED  BY <2>1
<1>. QED  BY <1>1 DEF CalmOK

\* Between two such steps nothing happens to Redis or to the tokens it knows.
LEMMA CalmPlain ==
  ASSUME CalmOK, Alone, NEW p \in Proc, Plain(req[p]), Plain(req'[p]),
         cache' = cache, Current' = Current
  PROVE  CalmOK'
<1>1. Slated(req[p]) = {} /\ Slated(req'[p]) = {}
  BY PlainOK
<1>2. cache = Current
  BY <1>1 DEF CalmOK
<1>3. CalmStep(req[p])'
  BY DEF Plain, CalmStep, Slated
<1>. QED  BY <1>1, <1>2, <1>3, CalmMove

LEMMA CalmStart ==
  ASSUME IInv, CalmOK, Alone, NEW p \in Proc, Issue(p) \/ Revoke(p)
  PROVE  CalmOK'
<1>1. /\ req \in [Proc -> Request]
      /\ UNCHANGED <<access, told, cache, expired>>
  BY DEF IInv, TypeOK, Issue, Revoke, StartIssue, StartRefresh, StartLogout, StartForceLogout, StartRemove, StartRemoveByUser, StartDisable, db
<1>2. Plain(req[p])
  BY DEF Plain, Issue, Revoke, StartIssue, StartRefresh, StartLogout, StartForceLogout, StartRemove, StartRemoveByUser, StartDisable, Start
<1>3. Current' = Current
  BY <1>1 DEF Current
<1>4. req'[p].pc \in {"check", "find", "next", "list"}
  <2>1. ASSUME NEW u \in User, NEW o \in Issuing, NEW a \in Access,
               NEW r \in Refresh, StartIssue(p, u, o, a, r)
        PROVE  req'[p].pc = "check"
    BY <1>1, <2>1 DEF StartIssue, Start, Idle
  <2>2. ASSUME NEW r \in Refresh, NEW t \in Tenant \union {AnyTenant},
               NEW a \in Access, StartRefresh(p, r, t, a)
        PROVE  req'[p].pc = "check"
    BY <1>1, <2>2 DEF StartRefresh, Start, Idle
  <2>3. ASSUME NEW a \in Access, StartLogout(p, a)
        PROVE  req'[p].pc = "find"
    BY <1>1, <2>3 DEF StartLogout, Start, Idle
  <2>4. ASSUME NEW a \in Access, NEW t \in Tenant, StartForceLogout(p, a, t)
        PROVE  req'[p].pc = "find"
    BY <1>1, <2>4 DEF StartForceLogout, Start, Idle
  <2>5. ASSUME NEW a \in Access, NEW t \in Tenant, StartRemove(p, a, t)
        PROVE  req'[p].pc = "next"
    BY <1>1, <2>5 DEF StartRemove, Start, Idle
  <2>6. ASSUME NEW u \in User, StartRemoveByUser(p, u) \/ StartDisable(p, u)
        PROVE  req'[p].pc = "list"
    BY <1>1, <2>6 DEF StartRemoveByUser, StartDisable, Start, Idle
  <2>. QED  BY <2>1, <2>2, <2>3, <2>4, <2>5, <2>6 DEF Issue, Revoke
<1>5. Plain(req'[p])
  BY <1>4 DEF Plain
<1>. QED  BY <1>1, <1>2, <1>3, <1>5, CalmPlain

\* Steps before the first write, and those that end a request with none.
LEMMA CalmLook ==
  ASSUME IInv, CalmOK, Alone, NEW p \in Proc,
         \/ PassCheck(p) \/ FailCheck(p) \/ ListByUser(p) \/ RemovalReplies(p)
         \/ FindAccess(p) \/ FindForeign(p) \/ DropExpired(p)
         \/ \E a \in Access : TakeNext(p, a)
  PROVE  CalmOK'
<1> DEFINE s == req[p]
<1>1. /\ req \in [Proc -> Request] /\ told \in Reply
      /\ UNCHANGED <<access, cache, expired>>
  BY DEF IInv, TypeOK, PassCheck, FailCheck, ListByUser, RemovalReplies, FindAccess, FindForeign, DropExpired, TakeNext, db
<1>2. Plain(s)
  BY DEF Plain, PassCheck, FailCheck, ListByUser, RemovalReplies, FindAccess, FindForeign, DropExpired, TakeNext, At
<1>3. told'.issued = told.issued
  BY <1>1 DEF Reply, PassCheck, FailCheck, ListByUser, RemovalReplies, FindAccess, FindForeign, DropExpired, TakeNext
<1>4. Current' = Current
  BY <1>1, <1>3 DEF Current
<1>5. CASE Finish(p)
  BY <1>1, <1>2, <1>4, <1>5, PlainIdle, CalmPlain
<1>6. CASE ~Finish(p)
  <2>1. CASE PassCheck(p)
    <3>1. req'[p].pc \in {"check", "select", "insert"}
      BY <1>1, <2>1 DEF PassCheck, Request
    <3>. QED  BY <1>1, <1>2, <1>4, <3>1, CalmPlain DEF Plain
  <2>2. CASE ListByUser(p)
    <3>1. req'[p].pc = "next"
      BY <1>1, <2>2 DEF ListByUser, Request
    <3>. QED  BY <1>1, <1>2, <1>4, <3>1, CalmPlain DEF Plain
  <2>3. CASE FindAccess(p)
    <3>1. \/ req'[p].pc = "delRefresh" /\ req'[p].op \in Leaving
          \/ req'[p].pc = "delAccess"
      BY <1>1, <2>3 DEF FindAccess, Request
    <3>2. Plain(req'[p])
      BY <3>1 DEF Plain, Leaving, Removing
    <3>. QED  BY <1>1, <1>2, <1>4, <3>2, CalmPlain
  <2>4. ASSUME NEW a \in Access, TakeNext(p, a) PROVE CalmOK'
    <3> DEFINE n == [s EXCEPT !.pc = "find", !.tok = a, !.ref = None,
                              !.batch = s.batch \ {a}]
    <3>1. req' = [req EXCEPT ![p] = n]
      BY <1>1, <2>4 DEF TakeNext
    <3>2. n.pc = "find"
      BY <1>1 DEF Request
    <3>. HIDE DEF n
    <3>3. Plain(req'[p])
      BY <1>1, <3>1, <3>2 DEF Plain
    <3>. QED  BY <1>1, <1>2, <1>4, <3>3, CalmPlain
  <2>. QED
    BY <1>6, <2>1, <2>2, <2>3, <2>4 DEF FailCheck, RemovalReplies, FindForeign, DropExpired
<1>. QED  BY <1>5, <1>6

\* The row of a new token comes to life before anybody, and Redis, knows of it.
LEMMA CalmInsert ==
  ASSUME IInv, CalmOK, Alone, NEW p \in Proc, InsertPair(p) \/ InsertAccess(p)
  PROVE  CalmOK'
<1> DEFINE s == req[p]
<1>1. /\ access \in [Access -> Row] /\ RequestOK(s) /\ LedgerOK
      /\ told \in Reply /\ UNCHANGED <<told, cache, expired>>
  BY DEF IInv, TypeOK, InsertPair, InsertAccess
<1>2. s.pc = "insert" /\ s.tok \in Access /\ access[s.tok] = "none"
  BY <1>1 DEF InsertPair, InsertAccess, At, RequestOK, ReservationOK
<1>3. access' = [access EXCEPT ![s.tok] = "live"] /\ s.tok \notin told.issued
  BY <1>1, <1>2 DEF InsertPair, InsertAccess, LedgerOK, KnownTokensOK
<1>4. Current' = Current
  BY <1>1, <1>3 DEF Current, Reply
<1>5. /\ req'[p].pc = "put" /\ req'[p].tok = s.tok
  BY Turns DEF InsertPair, InsertAccess, PC
<1>6. Slated(s) = {} /\ Slated(req'[p]) = {}
  BY <1>2, <1>5 DEF Slated
<1>7. access'[req'[p].tok] = "live"
  BY <1>1, <1>2, <1>3, <1>5
<1>8. CalmStep(req[p])'
  BY <1>5, <1>7 DEF CalmStep, Slated
<1>9. cache = Current
  BY <1>6 DEF CalmOK
<1>. QED  BY <1>1, <1>4, <1>6, <1>8, <1>9, CalmMove

\* Put publishes a live token, and only now its caller knows of it.
LEMMA CalmPut ==
  ASSUME IInv, CalmOK, Alone, NEW p \in Proc, Put(p)
  PROVE  CalmOK'
<1> DEFINE s == req[p]
<1>1. s.pc = "put" /\ access[s.tok] = "live" /\ Slated(s) = {}
  BY DEF Put, At, CalmOK, CalmStep, Slated
<1>2. cache = Current
  BY <1>1 DEF CalmOK
<1>3. /\ access' = access /\ expired' = expired
      /\ cache' = cache \union ({s.tok} \ expired)
      /\ told'.issued = told.issued \union {s.tok}
  BY DEF Put, db, IInv, TypeOK, Reply
<1>4. cache' = Current'
  BY <1>1, <1>2, <1>3 DEF Current
<1>5. Plain(req'[p])
  BY PlainIdle DEF Put
<1>6. CalmStep(req[p])' /\ Slated(req'[p]) = {}
  BY <1>5 DEF Plain, CalmStep, Slated
<1>. QED  BY <1>4, <1>6, CalmMove

\* A rotation slates the keys of the access tokens it deletes.
LEMMA CalmRotate ==
  ASSUME IInv, CalmOK, Alone, NEW p \in Proc,
         SelectOld(p) \/ Rotate(p) \/ EvictOld(p)
  PROVE  CalmOK'
<1> DEFINE s == req[p]
<1>1. /\ req \in [Proc -> Request] /\ access \in [Access -> Row]
      /\ s \in Request /\ s.batch \subseteq Access
      /\ UNCHANGED <<told, expired, link>>
      /\ CalmStep(s) /\ cache \ Slated(s) = Current
  BY DEF IInv, TypeOK, CalmOK, SelectOld, Rotate, EvictOld, db, Request
<1>2. CASE SelectOld(p)
  <2>1. /\ req'[p].pc = "rotate" /\ req'[p].ref = s.ref
        /\ req'[p].batch = LiveAccessOf(s.ref)
    BY <1>1, <1>2 DEF SelectOld, Request
  <2>2. Slated(s) = {} /\ Slated(req'[p]) = {}
    BY <1>2, <2>1 DEF SelectOld, At, Slated
  <2>3. access' = access /\ cache' = cache
    BY <1>2 DEF SelectOld, db
  <2>4. CalmStep(req[p])'
    BY <1>1, <2>1, <2>2, <2>3 DEF CalmStep, LiveAccessOf, Slated
  <2>5. Current' = Current
    BY <1>1, <2>3 DEF Current
  <2>. QED  BY <1>1, <2>2, <2>3, <2>4, <2>5, CalmMove
<1>3. CASE Rotate(p)
  <2>1. s.pc = "rotate" /\ s.batch = LiveAccessOf(s.ref) /\ Slated(s) = {}
    BY <1>1, <1>3 DEF Rotate, At, CalmStep, Slated
  <2>2. /\ cache' = cache
        /\ access' = [a \in Access |-> IF a \in s.batch THEN "deleted" ELSE access[a]]
    BY <1>3, <2>1 DEF Rotate
  <2>3. Current' = Current \ s.batch
    BY <1>1, <2>2 DEF Current, IInv, TypeOK, Reply
  <2>4. /\ req'[p].batch = s.batch
        /\ \/ req'[p].pc = "insert" /\ s.batch = {}
           \/ req'[p].pc = "evictOld"
    BY <1>3, Turns DEF Rotate, PC
  <2>5. Slated(req'[p]) = s.batch
    BY <1>1, <2>4 DEF Slated
  <2>6. \A a \in s.batch : access'[a] # "live"
    BY <1>1, <2>2
  <2>7. CalmStep(req[p])'
    <3>1. /\ req'[p].pc \notin {"undoAccess", "undoRefresh", "undoCache"}
          /\ req'[p].pc # "rotate" /\ req'[p].pc # "put"
      BY <2>4
    <3>2. \A a \in Slated(req'[p]) : access'[a] # "live"
      BY <2>5, <2>6
    <3>. QED  BY <3>1, <3>2 DEF CalmStep
  <2>. QED  BY <1>1, <2>1, <2>2, <2>3, <2>5, <2>7, CalmMove
<1>4. CASE EvictOld(p)
  <2>1. Slated(s) = s.batch
    BY <1>1, <1>4 DEF EvictOld, At, Slated
  <2>2. cache' = cache \ s.batch /\ access' = access
    BY <1>4 DEF EvictOld, db
  <2>3. Current' = Current
    BY <1>1, <2>2 DEF Current
  <2>4. req'[p].pc = "insert"
    BY <1>4, Turns DEF EvictOld, PC
  <2>5. CalmStep(req[p])' /\ Slated(req'[p]) = {}
    BY <2>4 DEF CalmStep, Slated
  <2>. QED  BY <1>1, <2>1, <2>2, <2>3, <2>5, CalmMove
<1>. QED  BY <1>2, <1>3, <1>4

\* A removal slates the key of the row it deletes, and deletes it last.
LEMMA CalmRemove ==
  ASSUME IInv, CalmOK, Alone, NEW p \in Proc,
         FindNothing(p) \/ DeleteRefresh(p) \/ DeleteAccess(p) \/ Evict(p)
  PROVE  CalmOK'
<1> DEFINE s == req[p]
<1>1. /\ req \in [Proc -> Request] /\ access \in [Access -> Row]
      /\ RequestOK(s) /\ CalmStep(s) /\ cache \ Slated(s) = Current
      /\ told \in Reply /\ expired' = expired
  BY DEF IInv, TypeOK, CalmOK, FindNothing, DeleteRefresh, DeleteAccess, Evict
<1>2. /\ s.tok \in Access /\ s.op \in Leaving \union Removing
      /\ s.pc \in {"find", "delRefresh", "delAccess", "evict"}
  BY <1>1 DEF FindNothing, DeleteRefresh, DeleteAccess, Evict, At, RequestOK, StepOK, RemovalOK
<1>3. told'.issued = told.issued
  <2>1. CASE Evict(p)
    BY <1>1, <2>1 DEF Evict, Reply
  <2>2. CASE ~Evict(p)
    BY <2>2 DEF FindNothing, DeleteRefresh, DeleteAccess
  <2>. QED  BY <2>1, <2>2
<1>4. ASSUME req'[p].pc = "evict" \/ (req'[p].pc = "delRefresh" /\ s.op \in Removing),
             req'[p].op = s.op, req'[p].tok = s.tok, access'[s.tok] # "live"
      PROVE  CalmStep(req[p])' /\ Slated(req'[p]) = {s.tok}
  <2>1. Slated(req'[p]) = {s.tok}
    BY <1>2, <1>4 DEF Slated
  <2>2. \A a \in Slated(req'[p]) : access'[a] # "live"
    BY <1>4, <2>1
  <2>. QED  BY <1>4, <2>1, <2>2 DEF CalmStep
<1>5. CASE FindNothing(p)
  <2>1. s.pc = "find" /\ access[s.tok] # "live" /\ Slated(s) = {}
    BY <1>5 DEF FindNothing, At, Slated
  <2>2. access' = access /\ cache' = cache /\ Current' = Current
    BY <1>1, <1>3, <1>5 DEF FindNothing, db, Current
  <2>3. CASE Goto(p, "evict")
    <3>1. Slated(req'[p]) = {s.tok} /\ CalmStep(req[p])'
      BY <1>4, <2>1, <2>2, <2>3, Turns DEF PC
    <3>2. s.tok \notin Current
      BY <2>1 DEF Current
    <3>. QED  BY <1>1, <2>1, <2>2, <3>1, <3>2, CalmMove
  <2>4. CASE Goto(p, "next")
    <3>1. req'[p].pc = "next"
      BY <2>4, Turns DEF PC
    <3>. QED  BY <2>1, <2>2, <3>1, CalmPlain DEF Plain
  <2>5. CASE Finish(p)
    BY <2>1, <2>2, <2>5, PlainIdle, CalmPlain DEF Plain
  <2>. QED  BY <1>2, <1>5, <2>3, <2>4, <2>5 DEF FindNothing, Leaving, Removing
<1>6. CASE DeleteRefresh(p)
  <2>1. /\ s.pc = "delRefresh" /\ access' = access /\ cache' = cache
        /\ Current' = Current
    BY <1>1, <1>3, <1>6 DEF DeleteRefresh, At, Current
  <2>2. CASE s.op \in Leaving
    <3>1. req'[p].pc = "delAccess"
      BY <1>6, <2>2, Turns DEF DeleteRefresh, PC
    <3>2. Plain(s) /\ Plain(req'[p])
      BY <2>1, <2>2, <3>1 DEF Plain, Leaving, Removing
    <3>. QED  BY <2>1, <3>2, CalmPlain
  <2>3. CASE s.op \in Removing
    <3>1. /\ req'[p].pc = "evict" /\ req'[p].op = s.op /\ req'[p].tok = s.tok
      <4>1. Goto(p, "evict")
        BY <1>6, <2>3 DEF DeleteRefresh, Leaving, Removing
      <4>. QED  BY <4>1, Turns DEF PC
    <3>2. Slated(s) = {s.tok}
      BY <1>2, <2>1, <2>3 DEF Slated
    <3>3. access'[s.tok] # "live"
      BY <1>1, <2>1, <3>2 DEF CalmStep
    <3>4. Slated(req'[p]) = {s.tok} /\ CalmStep(req[p])'
      BY <1>4, <3>1, <3>3
    <3>. QED  BY <1>1, <2>1, <3>2, <3>4, CalmMove
  <2>. QED  BY <1>2, <2>2, <2>3
<1>7. CASE DeleteAccess(p)
  <2>1. /\ s.pc = "delAccess" /\ cache' = cache /\ Slated(s) = {}
        /\ access' = [access EXCEPT ![s.tok] = SoftDelete(@)]
    BY <1>7 DEF DeleteAccess, At, Slated
  <2>2. access'[s.tok] # "live"
    BY <1>1, <1>2, <2>1 DEF SoftDelete
  <2>3. Current' = Current \ {s.tok}
    BY <1>1, <1>2, <1>3, <2>1, <2>2 DEF Current, Reply
  <2>4. /\ req'[p].op = s.op /\ req'[p].tok = s.tok
        /\ \/ req'[p].pc = "evict"
           \/ req'[p].pc = "delRefresh" /\ s.op \in Removing
    BY <1>2, <1>7, Turns DEF DeleteAccess, PC
  <2>5. Slated(req'[p]) = {s.tok} /\ CalmStep(req[p])'
    BY <1>4, <2>2, <2>4
  <2>. QED  BY <1>1, <2>1, <2>3, <2>5, CalmMove
<1>8. CASE Evict(p)
  <2>1. /\ s.pc = "evict" /\ cache' = cache \ {s.tok} /\ access' = access
    BY <1>8 DEF Evict, At, db
  <2>2. Slated(s) = {s.tok}
    BY <1>2, <2>1 DEF Slated
  <2>3. Current' = Current
    BY <1>1, <1>3, <2>1 DEF Current
  <2>4. Plain(req'[p])
    <3>1. CASE Goto(p, "next")
      <4>1. req'[p].pc = "next"
        BY <3>1, Turns DEF PC
      <4>. QED  BY <4>1 DEF Plain
    <3>. QED  BY <1>8, <3>1, PlainIdle DEF Evict
  <2>5. CalmStep(req[p])' /\ Slated(req'[p]) = {}
    BY <2>4 DEF Plain, CalmStep, Slated
  <2>. QED  BY <1>1, <2>1, <2>2, <2>3, <2>5, CalmMove
<1>. QED  BY <1>5, <1>6, <1>7, <1>8

\* No failure: nothing is compensated, and no request is broken off.
LEMMA CalmUndo ==
  ASSUME CalmOK, ~Faults, NEW p \in Proc
  PROVE  ~Mishap(p) /\ ~UndoAccess(p) /\ ~UndoRefresh(p) /\ ~UndoCache(p)
BY DEF CalmOK, CalmStep, Mishap, PutFails, UndoFails, Abort, UndoAccess, UndoRefresh, UndoCache, At

\* The TTL of a key ends with its token.
LEMMA CalmWorld ==
  ASSUME IInv, CalmOK, Alone, World \/ UNCHANGED vars
  PROVE  CalmOK'
<1>1. /\ access' = access /\ link' = link /\ req' = req
      /\ told'.issued = told.issued
  <2>1. CASE UNCHANGED vars
    BY <2>1 DEF vars
  <2>2. CASE World
    <3>1. UNCHANGED <<db, req>>
      BY <2>2 DEF World, Enable, Lapse, Restore, Expire
    <3>2. told'.issued = told.issued
      BY <2>2 DEF World, Enable, Lapse, Restore, Expire, IInv, TypeOK, Reply
    <3>. QED  BY <3>1, <3>2 DEF db
  <2>. QED  BY <2>1, <2>2
<1>2. \/ cache' = cache /\ expired' = expired
      \/ \E x \in Access \union Refresh :
           cache' = cache \ {x} /\ expired' = expired \union {x}
  BY DEF World, Enable, Lapse, Restore, Expire, vars
<1>3. PICK p : Proc = {p}
  BY DEF Alone
<1>4. CalmStep(req[p])'
  BY <1>1, <1>3 DEF CalmOK, CalmStep, LiveAccessOf, Slated
<1>5. cache \ Slated(req[p]) = Current /\ Slated(req'[p]) = Slated(req[p])
  BY <1>1, <1>3 DEF CalmOK
<1>6. cache' \ Slated(req'[p]) = Current'
  BY <1>1, <1>2, <1>5 DEF Current
<1>. QED  BY <1>3, <1>4, <1>6, CalmMove

\* Requests that run one after the other, without failures: between them Redis
\* holds exactly the live, unexpired tokens that callers have been given; each
\* key an operation makes stale is deleted before its reply.
THEOREM RedisAgrees ==
  ASSUME Alone, ~Faults
  PROVE  Spec => []CacheCoherent
<1>1. Init => CalmOK
  BY DEF Init, Idle, CalmOK, CalmStep, Slated, Current
<1>2. IInv /\ CalmOK /\ [Next]_vars => CalmOK'
  BY CalmStart, CalmLook, CalmInsert, CalmPut, CalmRotate, CalmRemove, CalmUndo, CalmWorld DEF Next, Progress
<1>3. CalmOK => CacheCoherent
  <2> SUFFICES ASSUME CalmOK, \A p \in Proc : At(p, "idle")
               PROVE  cache = Current
    BY DEF CacheCoherent, Current
  <2>1. PICK p : p \in Proc
    BY DEF Alone
  <2>2. Slated(req[p]) = {}
    BY <2>1 DEF At, Slated
  <2>. QED  BY <2>1, <2>2 DEF CalmOK
<1>. QED  BY <1>1, <1>2, <1>3, Inductive, PTL DEF Spec
=============================================================================
