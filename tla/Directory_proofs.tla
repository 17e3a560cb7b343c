-------------------------- MODULE Directory_proofs --------------------------
(***************************************************************************)
(* Theorems about the directory, for any number of requests, departments,  *)
(* users and posts.                                                        *)
(***************************************************************************)
EXTENDS MCDirectory, FiniteSetTheorems, TLAPS

-----------------------------------------------------------------------------
(* ORDER BY id: the numbers of a set can be put into an ascending order,   *)
(* and such an order names each of them.                                   *)

LEMMA AscendingFact ==
  ASSUME NEW n \in Nat, NEW S \in SUBSET (1 .. n)
  PROVE  /\ Ascending(S) \in Seq(S)
         /\ \A i, j \in DOMAIN Ascending(S) : i < j => Ascending(S)[i] < Ascending(S)[j]
         /\ \A d \in S : \E i \in DOMAIN Ascending(S) : Ascending(S)[i] = d
<1> DEFINE k == Cardinality(S)
           below(d) == {e \in S : e <= d}
           pos == [d \in S |-> Cardinality(below(d))]
           OK(s) == \A i, j \in DOMAIN s : i < j => s[i] < s[j]
<1>1. IsFiniteSet(S) /\ k \in Nat
  <2>1. IsFiniteSet(1 .. n)
    BY FS_Interval, 1 \in Int, n \in Int
  <2>2. IsFiniteSet(S)
    BY <2>1, FS_Subset, Zenon
  <2>. QED  BY <2>2, FS_CardinalityType, Zenon
<1>2. \A d \in S : below(d) \subseteq S /\ d \in below(d)
  OBVIOUS
<1>3. \A d \in S : IsFiniteSet(below(d)) /\ Cardinality(below(d)) \in 1 .. k
  <2> SUFFICES ASSUME NEW d \in S PROVE IsFiniteSet(below(d)) /\ Cardinality(below(d)) \in 1 .. k
    OBVIOUS
  <2>1. IsFiniteSet(below(d)) /\ Cardinality(below(d)) <= k
    BY <1>1, FS_Subset
  <2>2. Cardinality(below(d)) \in Nat /\ Cardinality(below(d)) # 0
    BY <1>2, <2>1, FS_CardinalityType, FS_EmptySet
  <2>. QED  BY <1>1, <2>1, <2>2
<1>4. \A d, e \in S : d < e => Cardinality(below(d)) < Cardinality(below(e))
  <2> SUFFICES ASSUME NEW d \in S, NEW e \in S, d < e
               PROVE  Cardinality(below(d)) < Cardinality(below(e))
    OBVIOUS
  <2>1. below(d) \subseteq below(e) /\ e \notin below(d) /\ e \in below(e)
    <3>1. S \subseteq Nat /\ d \in Nat /\ e \in Nat
      OBVIOUS
    <3>2. e \notin below(d) /\ e \in below(e)
      BY <3>1
    <3>3. \A x \in S : x <= d => x <= e
      BY <3>1
    <3>. QED  BY <3>2, <3>3
  <2>2. Cardinality(below(d)) <= Cardinality(below(e)) /\ Cardinality(below(e)) # Cardinality(below(d))
    <3>. DEFINE B == below(d)
                C == below(e)
    <3>1. IsFiniteSet(C) /\ B \in SUBSET C /\ B # C
      BY <1>3, <2>1
    <3>. HIDE DEF B, C
    <3>2. Cardinality(B) <= Cardinality(C) /\ (Cardinality(C) = Cardinality(B) => C = B)
      BY <3>1, FS_Subset, Zenon
    <3>. QED  BY <3>1, <3>2 DEF B, C
  <2>. QED  BY <1>3, <2>2
<1>. HIDE DEF below
<1>5. pos \in [S -> 1 .. k] /\ \A d, e \in S : d < e => pos[d] < pos[e]
  BY <1>3, <1>4
<1>. HIDE DEF pos
<1>6. IsFiniteSet(1 .. k) /\ Cardinality(1 .. k) = k
  BY <1>1, FS_Interval
<1>7. \A i \in 1 .. k : \E d \in S : pos[d] = i
  <2>1. pos \in Injection(S, 1 .. k)
    <3>1. \A d, e \in S : pos[d] = pos[e] => d = e
      <4> SUFFICES ASSUME NEW d \in S, NEW e \in S, pos[d] = pos[e], d # e PROVE FALSE
        OBVIOUS
      <4>1. (d < e \/ e < d) /\ pos[d] \in Int /\ pos[e] \in Int
        <5>1. d \in Nat /\ e \in Nat
          OBVIOUS
        <5>. QED  BY <1>5, <5>1
      <4>2. pos[d] < pos[e] \/ pos[e] < pos[d]
        BY <1>5, <4>1
      <4>. QED  BY <4>1, <4>2
    <3>. QED  BY <1>5, <3>1, Zenon DEF Injection, IsInjective
  <2>2. pos \in Surjection(S, 1 .. k)
    <3>1. Cardinality(S) = Cardinality(1 .. k)
      BY <1>6
    <3>. QED  BY <1>6, <2>1, <3>1, FS_Injection, Zenon
  <2>. QED  BY <2>2 DEF Surjection
<1>8. \E s \in [1 .. k -> S] : OK(s)
  <2> DEFINE inv == [i \in 1 .. k |-> CHOOSE d \in S : pos[d] = i]
  <2>1. \A i \in 1 .. k : inv[i] \in S /\ pos[inv[i]] = i
    BY <1>7
  <2>2. inv \in [1 .. k -> S]
    BY <2>1
  <2>. HIDE DEF inv
  <2>3. \A i, j \in 1 .. k : i < j => inv[i] < inv[j]
    <3> SUFFICES ASSUME NEW i \in 1 .. k, NEW j \in 1 .. k, i < j, ~ (inv[i] < inv[j]) PROVE FALSE
      OBVIOUS
    <3>1. inv[i] \in Int /\ inv[j] \in Int
      <4>1. S \subseteq Int
        OBVIOUS
      <4>. QED  BY <2>1, <4>1
    <3>2. inv[j] < inv[i] \/ inv[i] = inv[j]
      BY <3>1
    <3>3. pos[inv[j]] < pos[inv[i]] \/ inv[i] = inv[j]
      BY <1>5, <2>1, <3>2
    <3>4. j < i \/ i = j
      BY <2>1, <3>3
    <3>. QED  BY <3>4
  <2>. QED  BY <2>2, <2>3
<1>9. Ascending(S) \in [1 .. k -> S] /\ OK(Ascending(S))
  BY <1>8, Zenon DEF Ascending
<1>. DEFINE s == Ascending(S)
<1>. HIDE DEF s
<1>10. s \in [1 .. k -> S] /\ \A i, j \in 1 .. k : i < j => s[i] < s[j]
  BY <1>9 DEF s
<1>11. s \in Surjection(1 .. k, S)
  <2>1. \A i, j \in 1 .. k : s[i] = s[j] => i = j
    <3> SUFFICES ASSUME NEW i \in 1 .. k, NEW j \in 1 .. k, s[i] = s[j], i # j PROVE FALSE
      OBVIOUS
    <3>1. (i < j \/ j < i) /\ s[i] \in Int /\ s[j] \in Int
      <4>1. S \subseteq Int /\ i \in Int /\ j \in Int
        BY <1>1
      <4>2. i < j \/ j < i
        BY <4>1
      <4>3. s[i] \in S /\ s[j] \in S
        BY <1>10
      <4>. QED  BY <4>1, <4>2, <4>3
    <3>2. s[i] < s[j] \/ s[j] < s[i]
      BY <1>10, <3>1
    <3>. QED  BY <3>1, <3>2
  <2>2. s \in Injection(1 .. k, S)
    BY <1>10, <2>1, Zenon DEF Injection, IsInjective
  <2>3. Cardinality(1 .. k) = Cardinality(S)
    BY <1>6
  <2>. QED  BY <1>1, <2>2, <2>3, FS_Injection, Zenon
<1>12. \A d \in S : \E i \in 1 .. k : s[i] = d
  BY <1>11 DEF Surjection
<1>13. s \in Seq(S) /\ DOMAIN s = 1 .. k
  BY <1>1, <1>10
<1>. QED  BY <1>10, <1>12, <1>13 DEF s

\* The last number of an ascending order is the highest.
LEMMA HighestFact ==
  ASSUME NEW n \in Nat, NEW W \in SUBSET (1 .. n), W # {}
  PROVE  \E x \in W : \A y \in W : y <= x
<1> DEFINE s == Ascending(W)
<1>1. /\ s \in Seq(W)
      /\ \A i, j \in DOMAIN s : i < j => s[i] < s[j]
      /\ \A d \in W : \E i \in DOMAIN s : s[i] = d
  BY AscendingFact
<1>. HIDE DEF s
<1>2. DOMAIN s = 1 .. Len(s) /\ Len(s) \in Nat /\ Len(s) \in DOMAIN s
  <2>1. DOMAIN s = 1 .. Len(s) /\ Len(s) \in Nat
    BY <1>1
  <2>2. DOMAIN s # {}
    BY <1>1
  <2>. QED  BY <2>1, <2>2
<1>3. s[Len(s)] \in W
  BY <1>1, <1>2
<1>4. ASSUME NEW y \in W PROVE y <= s[Len(s)]
  <2>1. PICK i \in DOMAIN s : s[i] = y
    BY <1>1
  <2>2. i = Len(s) \/ s[i] < s[Len(s)]
    BY <1>1, <1>2
  <2>3. y \in Int /\ s[Len(s)] \in Int
    <3>1. W \subseteq Int
      OBVIOUS
    <3>. QED  BY <1>3, <3>1
  <2>. QED  BY <2>1, <2>2, <2>3
<1>. QED  BY <1>3, <1>4

-----------------------------------------------------------------------------
(* Departments: types, and which operation can be at which stage.          *)

StageOK(r, b) ==
  /\ r.op \in {"none", "create", "move", "delete", "scope", "query"}
  /\ r.op = "none" => r.stage = "idle"
  /\ r.op = "create" => r.stage = "write" /\ r.parent <= b
  /\ r.op = "move" => \/ r.stage = "walk" /\ \E c \in Row : r.cur = {c} /\ (c = r.parent \/ r.parent <= b)
                      \/ r.stage = "lock" /\ r.parent <= b
  /\ r.op = "delete" => r.stage \in {"lock", "write"} /\ r.cur \subseteq Dept
  /\ r.op = "scope" => r.stage \in {"role", "lock"} /\ r.cur \subseteq Dept
  /\ r.op = "query" => r.stage \in {"roles", "level", "answer"}

DeptTypes ==
  /\ DeptTypeOK
  /\ \A d \in Dept : parent[d] <= born
  /\ \A p \in Proc : StageOK(req[p], born)

LEMMA IdleFact == Idle \in Request /\ StageOK(Idle, born)
BY DeptAssumption DEF Idle, Request, StageOK, Row, Root, Dept, Scopes

\* Noticed changes nothing but whether a walk was disturbed.
LEMMA NoticedFact ==
  ASSUME NEW r \in [Proc -> Request]
  PROVE  /\ Noticed(r) \in [Proc -> Request]
         /\ \A q \in Proc : /\ Noticed(r)[q].op = r[q].op /\ Noticed(r)[q].stage = r[q].stage
                            /\ Noticed(r)[q].dept = r[q].dept /\ Noticed(r)[q].parent = r[q].parent
                            /\ Noticed(r)[q].todo = r[q].todo /\ Noticed(r)[q].cur = r[q].cur
                            /\ Noticed(r)[q].seen = r[q].seen /\ Noticed(r)[q].scopes = r[q].scopes
         /\ \A q \in Proc : r[q].op = "query" => Noticed(r)[q].quiet = FALSE
<1>1. ASSUME NEW q \in Proc
      PROVE  Noticed(r)[q] = [r[q] EXCEPT !.quiet = r[q].quiet /\ r[q].op # "query"]
  BY Zenon DEF Noticed
<1> DEFINE Alike(y, x) == /\ y \in Request
                          /\ y.op = x.op /\ y.stage = x.stage /\ y.dept = x.dept /\ y.parent = x.parent
                          /\ y.todo = x.todo /\ y.cur = x.cur /\ y.seen = x.seen /\ y.scopes = x.scopes
<1>2. \A x \in Request, b \in BOOLEAN :
        Alike([x EXCEPT !.quiet = b], x) /\ [x EXCEPT !.quiet = b].quiet = b
  BY DEF Request
<1>3. ASSUME NEW q \in Proc
      PROVE  Alike(Noticed(r)[q], r[q]) /\ (r[q].op = "query" => Noticed(r)[q].quiet = FALSE)
  <2> DEFINE b == r[q].quiet /\ r[q].op # "query"
  <2>. HIDE DEF Alike
  <2>1. r[q] \in Request /\ b \in BOOLEAN
    OBVIOUS
  <2>2. r[q].op = "query" => b = FALSE
    OBVIOUS
  <2>3. Noticed(r)[q] = [r[q] EXCEPT !.quiet = b]
    BY <1>1
  <2>. HIDE DEF b
  <2>4. Alike([r[q] EXCEPT !.quiet = b], r[q]) /\ [r[q] EXCEPT !.quiet = b].quiet = b
    BY <1>2, <2>1, Zenon
  <2>. QED  BY <2>2, <2>3, <2>4, Zenon
<1>4. Noticed(r) = [q \in Proc |-> Noticed(r)[q]]
  BY Zenon DEF Noticed
<1>5. Noticed(r) \in [Proc -> Request]
  BY <1>3, <1>4, Zenon
<1>. QED  BY <1>3, <1>5
\* Same(y, x): the progress y is x, but for what a query has found and whether it
\* was disturbed.
Same(y, x) ==
  /\ y.op = x.op /\ y.stage = x.stage /\ y.dept = x.dept /\ y.parent = x.parent
  /\ y.todo = x.todo /\ y.cur = x.cur /\ y.seen = x.seen /\ y.scopes = x.scopes

\* Request p goes on to x, the others stay where they are.
GoesOn(p, x) ==
  /\ req' \in [Proc -> Request]
  /\ Same(req'[p], x)
  /\ \A q \in Proc \ {p} : Same(req'[q], req[q])

LEMMA PutFact ==
  ASSUME req \in [Proc -> Request], NEW p \in Proc, NEW x \in Request,
         \/ req' = [req EXCEPT ![p] = x]
         \/ req' = Noticed([req EXCEPT ![p] = x])
  PROVE  GoesOn(p, x)
<1> DEFINE r == [req EXCEPT ![p] = x]
<1>1. r \in [Proc -> Request] /\ r[p] = x /\ \A q \in Proc \ {p} : r[q] = req[q]
  OBVIOUS
<1>. HIDE DEF r
<1>2. CASE req' = r
  BY <1>1, <1>2 DEF GoesOn, Same
<1>3. CASE req' = Noticed(r)
  <2>1. Noticed(r) \in [Proc -> Request] /\ \A q \in Proc : Same(Noticed(r)[q], r[q])
    BY <1>1, NoticedFact, Zenon DEF Same
  <2>2. Same(req'[p], x) /\ \A q \in Proc \ {p} : Same(req'[q], req[q])
    <3>1. \A q \in Proc : Same(req'[q], r[q])
      BY <1>3, <2>1, Zenon
    <3>. QED  BY <1>1, <3>1
  <2>. QED  BY <1>3, <2>1, <2>2, Zenon DEF GoesOn
<1>. QED  BY <1>2, <1>3 DEF r

\* The stages of a request that another one does not touch stay possible.
LEMMA SameFact ==
  ASSUME NEW x, NEW y, Same(y, x), StageOK(x, born), born \in Nat, born' \in Nat, born <= born',
         x.parent \in Nat
  PROVE  StageOK(y, born')
BY DEF Same, StageOK

-----------------------------------------------------------------------------
(* Where each operation takes its request.                                 *)

LEMMA RowFact ==
  /\ Row \subseteq Nat /\ Dept \subseteq Row /\ Root \in Row /\ Root \notin Dept
  /\ \A r \in Row : r # Root => r \in Dept
  /\ MaxDept \in Nat
PROOF BY DeptAssumption DEF Row, Dept, Root

LEMMA AscendingDept ==
  ASSUME NEW D \in SUBSET Dept
  PROVE  /\ Ascending(D) \in Seq(Dept)
         /\ \A i \in DOMAIN Ascending(D) : Ascending(D)[i] \in D
         /\ \A i, j \in DOMAIN Ascending(D) : i < j => Ascending(D)[i] < Ascending(D)[j]
         /\ \A d \in D : \E i \in DOMAIN Ascending(D) : Ascending(D)[i] = d
<1> DEFINE s == Ascending(D)
<1>1. /\ s \in Seq(D)
      /\ \A i, j \in DOMAIN s : i < j => s[i] < s[j]
      /\ \A d \in D : \E i \in DOMAIN s : s[i] = d
  BY AscendingFact, DeptAssumption DEF Dept
<1>. HIDE DEF s
<1>2. s \in Seq(Dept) /\ \A i \in DOMAIN s : s[i] \in D
  BY <1>1
<1>. QED  BY <1>1, <1>2 DEF s

\* The fields a step changes keep their types.
LEMMA RecordFact ==
  ASSUME NEW z \in Request, NEW t \in Seq(Dept), NEW c \in SUBSET Row, NEW e \in SUBSET Dept,
         NEW f \in SUBSET Dept,
         NEW s \in {"idle", "walk", "role", "lock", "write", "roles", "level", "answer"}
  PROVE  /\ [z EXCEPT !.stage = s, !.todo = t, !.cur = c, !.seen = e] \in Request
         /\ [z EXCEPT !.found = f, !.seen = e, !.cur = c, !.stage = s] \in Request
BY DEF Request

LEMMA StartFact ==
  ASSUME DeptTypes, NEW p \in Proc
  PROVE  /\ \A q \in Row : StartCreate(p, q) =>
              /\ q \in live \cup {Root}
              /\ GoesOn(p, [Idle EXCEPT !.op = "create", !.stage = "write", !.parent = q])
         /\ \A d \in Dept, q \in Row : StartMove(p, d, q) =>
              GoesOn(p, [Idle EXCEPT !.op = "move", !.stage = "walk", !.dept = d, !.parent = q, !.cur = {q}])
         /\ \A D \in SUBSET Dept : StartDelete(p, D) =>
              GoesOn(p, [Idle EXCEPT !.op = "delete", !.stage = "lock", !.todo = Ascending(D), !.cur = D])
         /\ \A s \in DeptOrders : StartScope(p, s) =>
              /\ s \in Seq(Dept)
              /\ GoesOn(p, [Idle EXCEPT !.op = "scope", !.stage = "role", !.todo = s,
                                        !.cur = {s[i] : i \in DOMAIN s}])
         /\ \A d \in OwnDept, R \in Asked : StartQuery(p, d, R) =>
              GoesOn(p, [Idle EXCEPT !.op = "query", !.stage = "roles", !.dept = d, !.scopes = R])
<1>. USE RowFact
<1>1. req \in [Proc -> Request] /\ Idle \in Request
  BY IdleFact DEF DeptTypes, DeptTypeOK
<1>2. ASSUME NEW q \in Row, StartCreate(p, q)
      PROVE  /\ q \in live \cup {Root}
             /\ GoesOn(p, [Idle EXCEPT !.op = "create", !.stage = "write", !.parent = q])
  <2>1. [Idle EXCEPT !.op = "create", !.stage = "write", !.parent = q] \in Request
    BY <1>1, <1>2 DEF StartCreate, Begins, Idle, Request
  <2>. QED  BY <1>1, <1>2, <2>1, PutFact DEF StartCreate
<1>3. ASSUME NEW d \in Dept, NEW q \in Row, StartMove(p, d, q)
      PROVE  GoesOn(p, [Idle EXCEPT !.op = "move", !.stage = "walk", !.dept = d, !.parent = q, !.cur = {q}])
  <2>1. [Idle EXCEPT !.op = "move", !.stage = "walk", !.dept = d, !.parent = q, !.cur = {q}] \in Request
    BY <1>1, <1>3 DEF StartMove, Begins, Idle, Request
  <2>. QED  BY <1>1, <1>3, <2>1, PutFact DEF StartMove
<1>4. ASSUME NEW D \in SUBSET Dept, StartDelete(p, D)
      PROVE  GoesOn(p, [Idle EXCEPT !.op = "delete", !.stage = "lock", !.todo = Ascending(D), !.cur = D])
  <2>1. [Idle EXCEPT !.op = "delete", !.stage = "lock", !.todo = Ascending(D), !.cur = D] \in Request
    <3>1. Ascending(D) \in Seq(Dept) /\ D \subseteq Row
      BY AscendingDept
    <3>. QED  BY <1>1, <1>4, <3>1 DEF StartDelete, Begins, Idle, Request
  <2>. QED  BY <1>1, <1>4, <2>1, PutFact DEF StartDelete
<1>5. ASSUME NEW s \in DeptOrders, StartScope(p, s)
      PROVE  /\ s \in Seq(Dept)
             /\ GoesOn(p, [Idle EXCEPT !.op = "scope", !.stage = "role", !.todo = s,
                                       !.cur = {s[i] : i \in DOMAIN s}])
  <2>1. s \in Seq(Dept) /\ {s[i] : i \in DOMAIN s} \subseteq Row
    <3>1. CASE \E d \in Dept : s = <<d>>
      BY <3>1
    <3>2. CASE s \in Dept \X Dept
      <4>1. s = <<s[1], s[2]>> /\ s[1] \in Dept /\ s[2] \in Dept
        BY <3>2
      <4>2. \A d, e \in Dept : <<d, e>> \in Seq(Dept) /\ {<<d, e>>[i] : i \in DOMAIN <<d, e>>} \subseteq Row
        OBVIOUS
      <4>. QED  BY <4>1, <4>2, Zenon
    <3>. QED  BY <3>1, <3>2 DEF DeptOrders
  <2>2. [Idle EXCEPT !.op = "scope", !.stage = "role", !.todo = s, !.cur = {s[i] : i \in DOMAIN s}] \in Request
    BY <1>1, <1>5, <2>1 DEF StartScope, Begins, Idle, Request
  <2>. QED  BY <1>1, <1>5, <2>1, <2>2, PutFact DEF StartScope
<1>6. ASSUME NEW d \in OwnDept, NEW R \in Asked, StartQuery(p, d, R)
      PROVE  GoesOn(p, [Idle EXCEPT !.op = "query", !.stage = "roles", !.dept = d, !.scopes = R])
  <2>1. d \in Row /\ R \subseteq Scopes
    BY DeptAssumption DEF Row, Scopes
  <2>2. [Idle EXCEPT !.op = "query", !.stage = "roles", !.dept = d, !.scopes = R] \in Request
    BY <1>1, <1>6, <2>1 DEF StartQuery, Begins, Idle, Request
  <2>. QED  BY <1>1, <1>6, <2>2, PutFact DEF StartQuery
<1>. QED  BY <1>2, <1>3, <1>4, <1>5, <1>6

\* The row a walk is at.
LEMMA WalkFact ==
  ASSUME DeptTypes, NEW p \in Proc, req[p].op = "move", req[p].stage = "walk"
  PROVE  \E c \in Row : /\ req[p].cur = {c} /\ (CHOOSE x \in Row : req[p].cur = {x}) = c
                        /\ (c = req[p].parent \/ req[p].parent <= born)
<1>1. PICK c \in Row : req[p].cur = {c} /\ (c = req[p].parent \/ req[p].parent <= born)
  BY Zenon DEF DeptTypes, StageOK
<1>2. (CHOOSE x \in Row : req[p].cur = {x}) = c
  BY <1>1
<1>. QED  BY <1>1, <1>2

LEMMA IdleAfter ==
  ASSUME DeptTypes, NEW p \in Proc
  PROVE  /\ Finish(p) => GoesOn(p, Idle)
         /\ CreateDept(p) => GoesOn(p, Idle)
         /\ UpdateDept(p) => GoesOn(p, Idle)
         /\ CheckChildren(p) => \/ GoesOn(p, Idle) /\ owner' = Released(p)
                                \/ GoesOn(p, [req[p] EXCEPT !.stage = "write"]) /\ UNCHANGED owner
         /\ DeleteDepts(p) => GoesOn(p, Idle)
         /\ UpdateDataScope(p) => GoesOn(p, Idle)
         /\ Answer(p) => GoesOn(p, Idle)
         /\ Victim(p) => GoesOn(p, Idle)
<1>1. req \in [Proc -> Request] /\ Idle \in Request
  BY IdleFact DEF DeptTypes, DeptTypeOK
<1>2. ASSUME Finish(p) PROVE GoesOn(p, Idle)
  BY <1>1, <1>2, PutFact DEF Finish
<1>3. ASSUME CreateDept(p) PROVE GoesOn(p, Idle)
  BY <1>1, <1>3, PutFact DEF CreateDept
<1>4. ASSUME UpdateDept(p) PROVE GoesOn(p, Idle)
  BY <1>1, <1>2, <1>4, PutFact DEF UpdateDept
<1>5. ASSUME CheckChildren(p)
      PROVE  \/ GoesOn(p, Idle) /\ owner' = Released(p)
             \/ GoesOn(p, [req[p] EXCEPT !.stage = "write"]) /\ UNCHANGED owner
  <2>1. [req[p] EXCEPT !.stage = "write"] \in Request
    BY <1>1 DEF Request
  <2>2. CASE Finish(p)
    BY <1>2, <2>2 DEF Finish
  <2>3. CASE To(p, "write") /\ UNCHANGED owner
    <3>1. req' = [req EXCEPT ![p] = [req[p] EXCEPT !.stage = "write"]]
      BY <1>1, <2>3 DEF To
    <3>. QED  BY <1>1, <2>1, <2>3, <3>1, PutFact
  <2>. QED  BY <1>5, <2>2, <2>3 DEF CheckChildren
<1>6. ASSUME DeleteDepts(p) PROVE GoesOn(p, Idle)
  BY <1>1, <1>6, PutFact DEF DeleteDepts
<1>7. ASSUME UpdateDataScope(p) PROVE GoesOn(p, Idle)
  BY <1>1, <1>7, PutFact DEF UpdateDataScope
<1>. QED  BY <1>2, <1>3, <1>4, <1>5, <1>6, <1>7 DEF Answer, Victim

\* A walk reads a row, takes the request back, or goes on to the locks.
LEMMA WalkAfter ==
  ASSUME DeptTypes, NEW p \in Proc, WalkUp(p)
  PROVE  \/ /\ req[p].parent <= born /\ UNCHANGED owner
            /\ GoesOn(p, [req[p] EXCEPT !.stage = "lock", !.todo = Ascending(Dept), !.cur = {}, !.seen = {}])
         \/ Finish(p) /\ GoesOn(p, Idle)
         \/ /\ UNCHANGED owner
            /\ \E c \in live : /\ req[p].parent <= born
                               /\ GoesOn(p, [req[p] EXCEPT !.cur = {parent[c]}, !.seen = req[p].seen \cup {c}])
<1>. USE RowFact
<1>1. req \in [Proc -> Request] /\ parent \in [Dept -> Row] /\ live \subseteq Dept /\ born \in Nat
      /\ \A d \in live : d <= born
  BY DEF DeptTypes, DeptTypeOK, Dept
<1>2. PICK c \in Row : /\ req[p].cur = {c} /\ (CHOOSE x \in Row : req[p].cur = {x}) = c
                       /\ (c = req[p].parent \/ req[p].parent <= born)
  BY WalkFact DEF WalkUp
<1>3. CASE /\ c = Root \/ (c \notin live /\ c # req[p].parent /\ c # req[p].dept /\ c \notin req[p].seen)
           /\ req' = [req EXCEPT ![p].stage = "lock", ![p].todo = Ascending(Dept),
                                 ![p].cur = {}, ![p].seen = {}]
           /\ UNCHANGED owner
  <2> DEFINE x == [req[p] EXCEPT !.stage = "lock", !.todo = Ascending(Dept), !.cur = {}, !.seen = {}]
  <2>1. x \in Request
    <3>1. Ascending(Dept) \in Seq(Dept) /\ req[p] \in Request /\ {} \subseteq Row /\ {} \subseteq Dept
      BY <1>1, AscendingDept
    <3>. QED  BY <3>1, RecordFact
  <2>2. req' = [req EXCEPT ![p] = x]
    BY <1>1, <1>3
  <2>3. GoesOn(p, x)
    <3>. HIDE DEF x
    <3>. QED  BY <1>1, <2>1, <2>2, PutFact
  <2>4. req[p].parent <= born
    BY <1>1, <1>2, <1>3 DEF Root
  <2>. QED  BY <1>3, <2>3, <2>4
<1>4. CASE Finish(p)
  BY <1>4, IdleAfter
<1>5. CASE /\ c \in live /\ c # req[p].dept /\ c \notin req[p].seen
           /\ req' = [req EXCEPT ![p].cur = {parent[c]}, ![p].seen = @ \cup {c}]
           /\ UNCHANGED owner
  <2> DEFINE x == [req[p] EXCEPT !.cur = {parent[c]}, !.seen = req[p].seen \cup {c}]
  <2>1. x \in Request
    BY <1>1, <1>5 DEF Request
  <2>2. req' = [req EXCEPT ![p] = x]
    BY <1>1, <1>5
  <2>3. GoesOn(p, x)
    <3>. HIDE DEF x
    <3>. QED  BY <1>1, <2>1, <2>2, PutFact
  <2>4. req[p].parent <= born
    BY <1>1, <1>2, <1>5
  <2>. QED  BY <1>5, <2>3, <2>4
<1>. QED  BY <1>2, <1>3, <1>4, <1>5 DEF WalkUp

\* A lock is taken, a row that is gone passed over, or a data scope given up.
LEMMA LockAfter ==
  ASSUME DeptTypes, NEW p \in Proc, LockRow(p)
  PROVE  /\ req[p].todo \in Seq(Dept) /\ req[p].todo # <<>> /\ Head(req[p].todo) \in Dept
         /\ req[p].stage = "lock"
         /\ \/ /\ GoesOn(p, [req[p] EXCEPT !.todo = Tail(req[p].todo)])
               /\ \/ /\ Head(req[p].todo) \in live /\ Free(Head(req[p].todo), p)
                     /\ owner' = [owner EXCEPT ![Head(req[p].todo)] = p]
                  \/ Head(req[p].todo) \notin live /\ req[p].op # "scope" /\ UNCHANGED owner
            \/ req[p].op = "scope" /\ Finish(p) /\ GoesOn(p, Idle)
<1> DEFINE x == [req[p] EXCEPT !.todo = Tail(req[p].todo)]
<1>1. req \in [Proc -> Request] /\ req[p].todo \in Seq(Dept) /\ req[p].todo # <<>> /\ req[p].stage = "lock"
  BY DEF DeptTypes, DeptTypeOK, LockRow, Request
<1>2. Head(req[p].todo) \in Dept /\ Tail(req[p].todo) \in Seq(Dept)
  BY <1>1
<1>3. x \in Request
  BY <1>1, <1>2 DEF Request
<1>4. ASSUME req' = [req EXCEPT ![p].todo = Tail(@)] PROVE GoesOn(p, x)
  <2>1. req' = [req EXCEPT ![p] = x]
    BY <1>1, <1>4
  <2>. HIDE DEF x
  <2>. QED  BY <1>1, <1>3, <2>1, PutFact
<1>5. Finish(p) => GoesOn(p, Idle)
  BY IdleAfter
<1>. HIDE DEF x
<1>6. CASE Head(req[p].todo) \in live
  <2>1. Free(Head(req[p].todo), p) /\ owner' = [owner EXCEPT ![Head(req[p].todo)] = p]
        /\ req' = [req EXCEPT ![p].todo = Tail(@)]
    BY <1>6, Zenon DEF LockRow
  <2>. QED  BY <1>1, <1>2, <1>4, <1>6, <2>1 DEF x
<1>7. CASE Head(req[p].todo) \notin live /\ req[p].op = "scope"
  <2>1. Finish(p)
    BY <1>7, Zenon DEF LockRow
  <2>. QED  BY <1>1, <1>2, <1>5, <1>7, <2>1
<1>8. CASE Head(req[p].todo) \notin live /\ req[p].op # "scope"
  <2>1. UNCHANGED owner /\ req' = [req EXCEPT ![p].todo = Tail(@)]
    BY <1>8, Zenon DEF LockRow
  <2>. QED  BY <1>1, <1>2, <1>4, <1>8, <2>1 DEF x
<1>. QED  BY <1>6, <1>7, <1>8

LEMMA LockRoleAfter ==
  ASSUME DeptTypes, NEW p \in Proc, LockRole(p)
  PROVE  GoesOn(p, [req[p] EXCEPT !.stage = "lock"])
<1>1. req \in [Proc -> Request] /\ [req[p] EXCEPT !.stage = "lock"] \in Request
  BY DEF DeptTypes, DeptTypeOK, Request
<1>2. req' = [req EXCEPT ![p] = [req[p] EXCEPT !.stage = "lock"]]
  BY <1>1 DEF LockRole, To
<1>. QED  BY <1>1, <1>2, PutFact

\* Whether a query has to look below a department.
Below(r) == "deptAndChild" \in r.scopes /\ r.dept # Root

LEMMA QueryAfter ==
  ASSUME DeptTypes, NEW p \in Proc
  PROVE  /\ ReadRoles(p) =>
              GoesOn(p, [req[p] EXCEPT !.seen = IF Below(req[p]) THEN {req[p].dept} ELSE {},
                                       !.cur = IF Below(req[p]) THEN {req[p].dept} ELSE {},
                                       !.stage = IF Below(req[p]) THEN "level" ELSE "answer"])
         /\ ReadLevel(p) =>
              GoesOn(p, [req[p] EXCEPT !.seen = req[p].seen \cup NextLevel(req[p]),
                                       !.cur = NextLevel(req[p]),
                                       !.stage = IF NextLevel(req[p]) = {} THEN "answer" ELSE "level"])
<1>. USE RowFact
<1>1. req \in [Proc -> Request] /\ live \subseteq Dept /\ custom \subseteq Dept
  BY DEF DeptTypes, DeptTypeOK, Dept
<1>2. ASSUME ReadRoles(p)
      PROVE  GoesOn(p, [req[p] EXCEPT !.seen = IF Below(req[p]) THEN {req[p].dept} ELSE {},
                                      !.cur = IF Below(req[p]) THEN {req[p].dept} ELSE {},
                                      !.stage = IF Below(req[p]) THEN "level" ELSE "answer"])
  <2> DEFINE f == OwnScope(req[p].scopes, req[p].dept)
             b == Below(req[p])
             x == [req[p] EXCEPT !.found = f,
                                 !.seen = IF b THEN {req[p].dept} ELSE {},
                                 !.cur = IF b THEN {req[p].dept} ELSE {},
                                 !.stage = IF b THEN "level" ELSE "answer"]
  <2>1. b \in BOOLEAN /\ (b => req[p].dept \in Dept)
    BY <1>1 DEF Below, Request
  <2>2. f \subseteq Dept
    BY <1>1 DEF OwnScope, Request
  <2>3. req' = [req EXCEPT ![p] = x]
    BY <1>1, <1>2 DEF ReadRoles, Below
  <2>. HIDE DEF f, b
  <2>4. x \in Request
    <3> DEFINE e == IF b THEN {req[p].dept} ELSE {}
               t == IF b THEN "level" ELSE "answer"
    <3>1. /\ req[p] \in Request /\ req[p].todo \in Seq(Dept) /\ e \in SUBSET Row /\ e \in SUBSET Dept
          /\ t \in {"idle", "walk", "role", "lock", "write", "roles", "level", "answer"}
      BY <1>1, <2>1 DEF Request
    <3>. HIDE DEF e, t
    <3>2. [req[p] EXCEPT !.found = f, !.seen = e, !.cur = e, !.stage = t] \in Request
      BY <2>2, <3>1, RecordFact
    <3>. QED  BY <3>2 DEF e, t
  <2>5. GoesOn(p, x)
    <3>. HIDE DEF x
    <3>. QED  BY <1>1, <2>3, <2>4, PutFact
  <2>6. Same(x, [req[p] EXCEPT !.seen = IF b THEN {req[p].dept} ELSE {},
                               !.cur = IF b THEN {req[p].dept} ELSE {},
                               !.stage = IF b THEN "level" ELSE "answer"])
    BY <1>1 DEF Same, Request
  <2>. HIDE DEF x
  <2>7. GoesOn(p, [req[p] EXCEPT !.seen = IF b THEN {req[p].dept} ELSE {},
                                 !.cur = IF b THEN {req[p].dept} ELSE {},
                                 !.stage = IF b THEN "level" ELSE "answer"])
    BY <2>5, <2>6, Zenon DEF GoesOn, Same
  <2>. QED  BY <2>7, Zenon DEF b
<1>3. ASSUME ReadLevel(p)
      PROVE  GoesOn(p, [req[p] EXCEPT !.seen = req[p].seen \cup NextLevel(req[p]),
                                      !.cur = NextLevel(req[p]),
                                      !.stage = IF NextLevel(req[p]) = {} THEN "answer" ELSE "level"])
  <2> DEFINE n == NextLevel(req[p])
             x == [req[p] EXCEPT !.seen = req[p].seen \cup n, !.cur = n,
                                 !.stage = IF n = {} THEN "answer" ELSE "level"]
  <2>1. n \subseteq Dept
    BY <1>1 DEF NextLevel, Children
  <2>2. req' = [req EXCEPT ![p] = x]
    <3>1. req' = [req EXCEPT ![p].seen = @ \cup n, ![p].cur = n,
                             ![p].stage = IF n = {} THEN "answer" ELSE "level"]
      BY <1>3, Zenon DEF ReadLevel
    <3>. HIDE DEF n
    <3>. QED  BY <1>1, <3>1
  <2>. HIDE DEF n
  <2>3. x \in Request
    BY <1>1, <2>1 DEF Request
  <2>4. GoesOn(p, x)
    <3>. HIDE DEF x
    <3>. QED  BY <1>1, <2>2, <2>3, PutFact
  <2>. QED  BY <2>4, Zenon DEF n
<1>. QED  BY <1>2, <1>3

-----------------------------------------------------------------------------
LEMMA ParentFact ==
  ASSUME DeptTypes, NEW p \in Proc
  PROVE  req[p] \in Request /\ req[p].parent \in Nat /\ req[p].parent \in Row
<1>1. req[p] \in Request
  BY DEF DeptTypes, DeptTypeOK
<1>. QED  BY <1>1, RowFact DEF Request

\* A request that goes on to a possible stage leaves all at possible stages.
LEMMA StagesFact ==
  ASSUME DeptTypes, NEW p \in Proc, NEW x, GoesOn(p, x), born' \in Nat, born <= born', x.parent \in Nat,
         StageOK(x, born)
  PROVE  (\A q \in Proc : StageOK(req[q], born))'
<1>1. born \in Nat /\ \A q \in Proc : req[q].parent \in Nat /\ StageOK(req[q], born)
  BY ParentFact DEF DeptTypes, DeptTypeOK
<1>2. StageOK(req'[p], born')
  BY <1>1, SameFact DEF GoesOn
<1>3. ASSUME NEW q \in Proc \ {p} PROVE StageOK(req'[q], born')
  BY <1>1, SameFact DEF GoesOn
<1>. QED  BY <1>2, <1>3

LEMMA IdleStages ==
  ASSUME DeptTypes, NEW p \in Proc, GoesOn(p, Idle), born' \in Nat, born <= born'
  PROVE  (\A q \in Proc : StageOK(req[q], born))'
<1>1. StageOK(Idle, born) /\ Idle.parent \in Nat
  BY IdleFact DEF Idle, Root
<1>. QED  BY <1>1, StagesFact

LEMMA ReleasedFact ==
  ASSUME DeptTypes, NEW p \in Proc
  PROVE  /\ Released(p) \in [Row -> Proc \cup {None}]
         /\ \A r \in Row : Released(p)[r] = IF owner[r] = p THEN None ELSE owner[r]
BY DEF DeptTypes, DeptTypeOK, Released

LEMMA DeptTypesInit == DeptInit => DeptTypes
<1> SUFFICES ASSUME DeptInit PROVE DeptTypes
  OBVIOUS
<1>. USE RowFact
<1>1. born \in Nat /\ born \in 1 .. MaxDept /\ live = 1 .. born /\ parent \in [Dept -> Row]
  BY DEF DeptInit, Dept
<1>2. \A d \in Dept : parent[d] <= born
  <2> SUFFICES ASSUME NEW d \in Dept PROVE parent[d] <= born
    OBVIOUS
  <2>1. parent[d] < d /\ (d > born => parent[d] = Root)
    BY DEF DeptInit
  <2>. QED  BY <1>1, <2>1 DEF Dept, Row, Root
<1>3. req \in [Proc -> Request] /\ \A p \in Proc : req[p] = Idle
  BY IdleFact DEF DeptInit
<1>4. DeptTypeOK
  BY <1>1, <1>3 DEF DeptInit, DeptTypeOK, Dept
<1>. QED  BY <1>2, <1>3, <1>4, IdleFact DEF DeptTypes

LEMMA DeptTypesStep == DeptTypes /\ [DeptNext]_deptVars => DeptTypes'
<1> SUFFICES ASSUME DeptTypes, [DeptNext]_deptVars PROVE DeptTypes'
  OBVIOUS
<1>. USE RowFact
<1>1. /\ born \in Nat /\ born <= MaxDept /\ live \subseteq 1 .. born /\ live \subseteq Dept
      /\ parent \in [Dept -> Row] /\ custom \subseteq Dept
      /\ owner \in [Row -> Proc \cup {None}] /\ req \in [Proc -> Request] /\ raced \subseteq live
      /\ \A d \in Dept : parent[d] <= born
      /\ \A q \in Proc : StageOK(req[q], born) /\ req[q].parent \in Nat
  BY ParentFact DEF DeptTypes, DeptTypeOK, Dept
<1> DEFINE Rows == /\ born \in 0 .. MaxDept /\ live \subseteq 1 .. born /\ parent \in [Dept -> Row]
                   /\ custom \subseteq Dept /\ owner \in [Row -> Proc \cup {None}] /\ raced \subseteq live
                   /\ \A d \in Dept : parent[d] <= born
<1>2. Rows
  BY <1>1
<1>3. ASSUME Rows', req' \in [Proc -> Request], (\A q \in Proc : StageOK(req[q], born))' PROVE DeptTypes'
  BY <1>3 DEF DeptTypes, DeptTypeOK
<1>4. ASSUME NEW p \in Proc, GoesOn(p, Idle), Rows', born <= born' PROVE DeptTypes'
  <2>1. born' \in Nat
    BY <1>4
  <2>. QED  BY <1>3, <1>4, <2>1, IdleStages DEF GoesOn
<1>5. ASSUME NEW p \in Proc, UNCHANGED <<born, live, parent, custom, raced>>,
             owner' = owner \/ owner' = Released(p) \/ \E d \in Row : owner' = [owner EXCEPT ![d] = p]
      PROVE  Rows'
  <2>1. owner' \in [Row -> Proc \cup {None}]
    BY <1>1, <1>5, ReleasedFact
  <2>. QED  BY <1>2, <1>5, <2>1
<1>6. ASSUME NEW p \in Proc, NEW x, GoesOn(p, x), StageOK(x, born), x.parent \in Nat, Rows', born' = born
      PROVE  DeptTypes'
  BY <1>1, <1>3, <1>6, StagesFact DEF GoesOn
<1>. HIDE DEF Rows
<1>7. CASE UNCHANGED deptVars
  BY <1>7 DEF deptVars, DeptTypes, DeptTypeOK, StageOK
<1>8. ASSUME NEW p \in Proc, DeptStart(p) PROVE DeptTypes'
  <2>1. Rows' /\ born' = born
    BY <1>5, <1>8 DEF DeptStart, StartCreate, StartMove, StartDelete, StartScope, StartQuery
  <2>2. ASSUME NEW q \in Row, StartCreate(p, q) PROVE DeptTypes'
    <3> DEFINE x == [Idle EXCEPT !.op = "create", !.stage = "write", !.parent = q]
    <3>1. GoesOn(p, x) /\ q \in live \cup {Root}
      BY <2>2, StartFact
    <3>2. q <= born
      BY <1>1, <3>1 DEF Root
    <3>3. StageOK(x, born) /\ x.parent \in Nat
      BY <3>2 DEF StageOK, Idle
    <3>. HIDE DEF x
    <3>. QED  BY <1>6, <2>1, <3>1, <3>3
  <2>3. ASSUME NEW d \in Dept, NEW q \in Row, StartMove(p, d, q) PROVE DeptTypes'
    <3> DEFINE x == [Idle EXCEPT !.op = "move", !.stage = "walk", !.dept = d, !.parent = q, !.cur = {q}]
    <3>1. GoesOn(p, x)
      BY <2>3, StartFact
    <3>3. StageOK(x, born) /\ x.parent \in Nat
      BY DEF StageOK, Idle
    <3>. HIDE DEF x
    <3>. QED  BY <1>6, <2>1, <3>1, <3>3
  <2>4. ASSUME NEW D \in SUBSET Dept, StartDelete(p, D) PROVE DeptTypes'
    <3> DEFINE x == [Idle EXCEPT !.op = "delete", !.stage = "lock", !.todo = Ascending(D), !.cur = D]
    <3>1. GoesOn(p, x)
      BY <2>4, StartFact
    <3>3. StageOK(x, born) /\ x.parent \in Nat
      BY DEF StageOK, Idle
    <3>. HIDE DEF x
    <3>. QED  BY <1>6, <2>1, <3>1, <3>3
  <2>5. ASSUME NEW s \in DeptOrders, StartScope(p, s) PROVE DeptTypes'
    <3> DEFINE x == [Idle EXCEPT !.op = "scope", !.stage = "role", !.todo = s, !.cur = {s[i] : i \in DOMAIN s}]
    <3>1. GoesOn(p, x) /\ s \in Seq(Dept)
      BY <2>5, StartFact
    <3>3. StageOK(x, born) /\ x.parent \in Nat
      BY <3>1 DEF StageOK, Idle
    <3>. HIDE DEF x
    <3>. QED  BY <1>6, <2>1, <3>1, <3>3
  <2>6. ASSUME NEW d \in OwnDept, NEW R \in Asked, StartQuery(p, d, R) PROVE DeptTypes'
    <3> DEFINE x == [Idle EXCEPT !.op = "query", !.stage = "roles", !.dept = d, !.scopes = R]
    <3>1. GoesOn(p, x)
      BY <2>6, StartFact
    <3>3. StageOK(x, born) /\ x.parent \in Nat
      BY DEF StageOK, Idle
    <3>. HIDE DEF x
    <3>. QED  BY <1>6, <2>1, <3>1, <3>3
  <2>. QED  BY <1>8, <2>2, <2>3, <2>4, <2>5, <2>6 DEF DeptStart
<1>9. ASSUME NEW p \in Proc, DeptStep(p) PROVE DeptTypes'
  <2>0. StageOK(req[p], born) /\ req[p] \in Request
    BY <1>1
  <2>1. CASE CreateDept(p)
    <3>1. GoesOn(p, Idle)
      BY <2>1, IdleAfter
    <3>2. born' = born + 1 /\ born' \in Dept /\ req[p].parent <= born /\ req[p].parent \in Row
      BY <1>1, <2>0, <2>1 DEF CreateDept, StageOK, Dept, Request
    <3>3. /\ live' = live \cup {born'} /\ parent' = [parent EXCEPT ![born'] = req[p].parent]
          /\ raced' \subseteq raced \cup {born'} /\ UNCHANGED <<custom, owner>>
      BY <2>1 DEF CreateDept
    <3>4. Rows'
      <4>1. \A d \in Dept : parent'[d] <= born'
        <5> SUFFICES ASSUME NEW d \in Dept PROVE parent'[d] <= born'
          OBVIOUS
        <5>1. parent'[d] = parent[d] \/ parent'[d] = req[p].parent
          BY <1>1, <3>3
        <5>2. parent[d] \in Nat /\ parent[d] <= born /\ req[p].parent \in Nat
          BY <1>1
        <5>. QED  BY <1>1, <3>2, <5>1, <5>2
      <4>2. live' \subseteq 1 .. born' /\ born' \in 0 .. MaxDept
        BY <1>1, <3>2, <3>3 DEF Dept
      <4>. QED  BY <1>1, <3>2, <3>3, <4>1, <4>2 DEF Rows
    <3>. QED  BY <1>1, <1>4, <3>1, <3>2, <3>4
  <2>2. CASE WalkUp(p)
    <3>1. Rows' /\ born' = born
      BY <1>5, <2>2 DEF WalkUp, Finish
    <3>2. req[p].op = "move" /\ req[p].stage = "walk"
      BY <2>2 DEF WalkUp
    <3>3. CASE /\ req[p].parent <= born
               /\ GoesOn(p, [req[p] EXCEPT !.stage = "lock", !.todo = Ascending(Dept), !.cur = {}, !.seen = {}])
      <4> DEFINE x == [req[p] EXCEPT !.stage = "lock", !.todo = Ascending(Dept), !.cur = {}, !.seen = {}]
      <4>1. StageOK(x, born) /\ x.parent \in Nat
        BY <1>1, <2>0, <3>2, <3>3 DEF StageOK, Request
      <4>. HIDE DEF x
      <4>. QED  BY <1>6, <3>1, <3>3, <4>1 DEF x
    <3>4. ASSUME NEW c \in live, req[p].parent <= born,
                 GoesOn(p, [req[p] EXCEPT !.cur = {parent[c]}, !.seen = req[p].seen \cup {c}])
          PROVE  DeptTypes'
      <4> DEFINE x == [req[p] EXCEPT !.cur = {parent[c]}, !.seen = req[p].seen \cup {c}]
      <4>0. parent[c] \in Row
        BY <1>1
      <4>1. StageOK(x, born) /\ x.parent \in Nat
        BY <1>1, <2>0, <3>2, <3>4, <4>0 DEF StageOK, Request
      <4>. HIDE DEF x
      <4>. QED  BY <1>6, <3>1, <3>4, <4>1 DEF x
    <3>5. GoesOn(p, Idle) => DeptTypes'
      BY <1>1, <1>4, <3>1
    <3>. QED  BY <2>2, <3>3, <3>4, <3>5, WalkAfter
  <2>3. CASE LockRow(p)
    <3>1. Rows' /\ born' = born
      <4>1. Head(req[p].todo) \in Row
        BY <2>3, LockAfter
      <4>2. owner' = owner \/ owner' = Released(p) \/ \E d \in Row : owner' = [owner EXCEPT ![d] = p]
        BY <2>3, <4>1, LockAfter DEF Finish
      <4>. QED  BY <1>5, <2>3, <4>2 DEF LockRow
    <3>2. CASE GoesOn(p, [req[p] EXCEPT !.todo = Tail(req[p].todo)])
      <4> DEFINE x == [req[p] EXCEPT !.todo = Tail(req[p].todo)]
      <4>1. StageOK(x, born) /\ x.parent \in Nat
        BY <1>1, <2>0 DEF StageOK, Request
      <4>. HIDE DEF x
      <4>. QED  BY <1>6, <3>1, <3>2, <4>1 DEF x
    <3>. QED  BY <1>1, <1>4, <2>3, <3>1, <3>2, LockAfter
  <2>4. CASE UpdateDept(p)
    <3>1. GoesOn(p, Idle)
      BY <2>4, IdleAfter
    <3>2. req[p].op = "move" /\ req[p].stage = "lock" /\ req[p].parent <= born /\ req[p].parent \in Row
      BY <2>0, <2>4 DEF UpdateDept, HasLocked, StageOK, Request
    <3>3. /\ UNCHANGED <<born, live, custom, raced>> /\ owner' = Released(p)
          /\ parent' = parent \/ parent' = [parent EXCEPT ![req[p].dept] = req[p].parent]
      BY <2>4 DEF UpdateDept, Finish
    <3>4. Rows'
      <4>1. owner' \in [Row -> Proc \cup {None}]
        BY <3>3, ReleasedFact
      <4>2. parent' \in [Dept -> Row] /\ \A d \in Dept : parent'[d] <= born
        BY <1>1, <3>2, <3>3
      <4>. QED  BY <1>1, <3>3, <4>1, <4>2 DEF Rows
    <3>. QED  BY <1>1, <1>4, <3>1, <3>3, <3>4
  <2>5. CASE CheckChildren(p)
    <3>1. Rows' /\ born' = born
      BY <1>5, <2>5 DEF CheckChildren, Finish
    <3>2. CASE GoesOn(p, [req[p] EXCEPT !.stage = "write"])
      <4> DEFINE x == [req[p] EXCEPT !.stage = "write"]
      <4>1. StageOK(x, born) /\ x.parent \in Nat
        BY <1>1, <2>0, <2>5 DEF StageOK, Request, CheckChildren, HasLocked
      <4>. HIDE DEF x
      <4>. QED  BY <1>6, <3>1, <3>2, <4>1 DEF x
    <3>. QED  BY <1>1, <1>4, <2>5, <3>1, <3>2, IdleAfter
  <2>6. CASE DeleteDepts(p)
    <3>1. GoesOn(p, Idle)
      BY <2>6, IdleAfter
    <3>2. /\ live' = live \ Held(p) /\ raced' = raced \ Held(p) /\ UNCHANGED <<born, parent, custom>>
          /\ owner' = Released(p)
      BY <2>6 DEF DeleteDepts
    <3>3. Rows'
      <4>1. owner' \in [Row -> Proc \cup {None}]
        BY <3>2, ReleasedFact
      <4>2. live' \subseteq 1 .. born /\ raced' \subseteq live'
        BY <1>1, <3>2
      <4>. QED  BY <1>1, <3>2, <4>1, <4>2 DEF Rows
    <3>. QED  BY <1>1, <1>4, <3>1, <3>2, <3>3
  <2>7. CASE LockRole(p)
    <3> DEFINE x == [req[p] EXCEPT !.stage = "lock"]
    <3>1. GoesOn(p, x)
      BY <2>7, LockRoleAfter
    <3>2. Rows' /\ born' = born
      <4>1. owner' = [owner EXCEPT ![RoleRow] = p] /\ RoleRow \in Row
        BY <2>7 DEF LockRole, RoleRow, Row
      <4>. QED  BY <1>5, <2>7, <4>1 DEF LockRole
    <3>3. StageOK(x, born) /\ x.parent \in Nat
      <4>1. req[p].op = "scope"
        BY <2>0, <2>7 DEF LockRole, StageOK
      <4>. QED  BY <1>1, <2>0, <4>1 DEF StageOK, Request
    <3>. HIDE DEF x
    <3>. QED  BY <1>6, <3>1, <3>2, <3>3
  <2>8. CASE UpdateDataScope(p)
    <3>1. GoesOn(p, Idle)
      BY <2>8, IdleAfter
    <3>2. custom' = req[p].cur /\ UNCHANGED <<born, live, parent, raced>> /\ owner' = Released(p)
      BY <2>8 DEF UpdateDataScope
    <3>3. req[p].cur \subseteq Dept
      BY <2>0, <2>8 DEF UpdateDataScope, HasLocked, StageOK
    <3>4. Rows'
      BY <1>1, <3>2, <3>3, ReleasedFact DEF Rows
    <3>. QED  BY <1>1, <1>4, <3>1, <3>2, <3>4
  <2>9. CASE ReadRoles(p)
    <3> DEFINE x == [req[p] EXCEPT !.seen = IF Below(req[p]) THEN {req[p].dept} ELSE {},
                                   !.cur = IF Below(req[p]) THEN {req[p].dept} ELSE {},
                                   !.stage = IF Below(req[p]) THEN "level" ELSE "answer"]
    <3>1. GoesOn(p, x)
      BY <2>9, QueryAfter
    <3>2. Rows' /\ born' = born
      BY <1>5, <2>9 DEF ReadRoles
    <3>3. StageOK(x, born) /\ x.parent \in Nat
      <4>1. req[p].op = "query"
        BY <2>9 DEF ReadRoles
      <4>. QED  BY <1>1, <2>0, <4>1 DEF StageOK, Request
    <3>. HIDE DEF x
    <3>. QED  BY <1>6, <3>1, <3>2, <3>3
  <2>10. CASE ReadLevel(p)
    <3> DEFINE n == NextLevel(req[p])
               x == [req[p] EXCEPT !.seen = req[p].seen \cup n, !.cur = n,
                                   !.stage = IF n = {} THEN "answer" ELSE "level"]
    <3>1. GoesOn(p, x)
      BY <2>10, QueryAfter
    <3>2. Rows' /\ born' = born
      BY <1>5, <2>10, Zenon DEF ReadLevel
    <3>. HIDE DEF n
    <3>3. StageOK(x, born) /\ x.parent \in Nat
      <4>1. req[p].op = "query"
        BY <2>10, Zenon DEF ReadLevel
      <4>. QED  BY <1>1, <2>0, <4>1 DEF StageOK, Request
    <3>. HIDE DEF x
    <3>. QED  BY <1>6, <3>1, <3>2, <3>3
  <2>11. CASE Answer(p) \/ Victim(p)
    <3>1. Rows' /\ born' = born
      BY <1>5, <2>11 DEF Answer, Victim, Finish
    <3>2. GoesOn(p, Idle) /\ born <= born'
      <4>1. GoesOn(p, Idle)
        BY <2>11, IdleAfter, Zenon
      <4>. QED  BY <1>1, <3>1, <4>1
    <3>. QED  BY <1>4, <3>1, <3>2
  <2>. QED  BY <1>9, <2>1, <2>2, <2>3, <2>4, <2>5, <2>6, <2>7, <2>8, <2>9, <2>10, <2>11 DEF DeptStep
<1>. QED  BY <1>7, <1>8, <1>9 DEF DeptNext

\* The types of the departments' variables, for any number of them: a request is
\* never at a stage its operation does not have, and a parent is never a
\* department whose number is yet to be given out.
THEOREM DeptTypesAlways == DeptSpec => []DeptTypes
<1>. QED  BY DeptTypesInit, DeptTypesStep, PTL DEF DeptSpec

-----------------------------------------------------------------------------
(* Locks.                                                                  *)

\* What a request r that holds the rows H has locked, and in which order it goes
\* on: moves and deletions upwards, a data scope through all its departments.
LockOK(r, H) ==
  /\ r.op = "create" \/ r.stage \notin {"lock", "write"} => H = {}
  /\ r.op \in {"move", "delete"} =>
       /\ \A i, j \in DOMAIN r.todo : i < j => r.todo[i] < r.todo[j]
       /\ \A h \in H, i \in DOMAIN r.todo : h < r.todo[i]
  /\ r.op = "delete" => H \subseteq r.cur /\ \A i \in DOMAIN r.todo : r.todo[i] \in r.cur
  /\ r.op = "scope" => \A d \in r.cur : d \in H \/ \E i \in DOMAIN r.todo : r.todo[i] = d

\* Locked departments are live.
LocksOK ==
  /\ \A p \in Proc : Held(p) \subseteq live \cup {RoleRow}
  /\ \A p \in Proc : LockOK(req[p], Held(p))

LEMMA LockSame ==
  ASSUME NEW x, NEW y, NEW H, Same(y, x), LockOK(x, H)
  PROVE  LockOK(y, H)
BY DEF Same, LockOK

\* A lock belongs to one request; taking one and giving all back leaves the locks
\* of the others alone.
LEMMA HeldFact ==
  ASSUME DeptTypes, NEW p \in Proc
  PROVE  /\ Held(p) \subseteq Row
         /\ \A q \in Proc \ {p} : Held(p) \cap Held(q) = {}
         /\ owner' = owner => \A q \in Proc : Held(q)' = Held(q)
         /\ owner' = Released(p) => Held(p)' = {} /\ \A q \in Proc \ {p} : Held(q)' = Held(q)
         /\ \A d \in Row : Free(d, p) /\ owner' = [owner EXCEPT ![d] = p] =>
              Held(p)' = Held(p) \cup {d} /\ \A q \in Proc \ {p} : Held(q)' = Held(q)
<1>1. owner \in [Row -> Proc \cup {None}] /\ None \notin Proc
  BY RequestsAssumption DEF DeptTypes, DeptTypeOK
<1>2. Held(p) \subseteq Row /\ \A q \in Proc \ {p} : Held(p) \cap Held(q) = {}
  BY DEF Held
<1>3. owner' = owner => \A q \in Proc : Held(q)' = Held(q)
  BY DEF Held
<1>4. ASSUME owner' = Released(p)
      PROVE  Held(p)' = {} /\ \A q \in Proc \ {p} : Held(q)' = Held(q)
  <2>1. \A r \in Row : owner'[r] = IF owner[r] = p THEN None ELSE owner[r]
    BY <1>4, ReleasedFact
  <2>. QED  BY <1>1, <2>1 DEF Held
<1>5. ASSUME NEW d \in Row, Free(d, p), owner' = [owner EXCEPT ![d] = p]
      PROVE  Held(p)' = Held(p) \cup {d} /\ \A q \in Proc \ {p} : Held(q)' = Held(q)
  BY <1>1, <1>5 DEF Held, Free
<1>. QED  BY <1>2, <1>3, <1>4, <1>5

LEMMA LockOthers ==
  ASSUME LocksOK, NEW p \in Proc, NEW x, GoesOn(p, x), LockOK(x, Held(p)'),
         \A q \in Proc \ {p} : Held(q)' = Held(q)
  PROVE  (\A q \in Proc : LockOK(req[q], Held(q)))'
<1>1. LockOK(req'[p], Held(p)')
  BY LockSame DEF GoesOn
<1>2. ASSUME NEW q \in Proc \ {p} PROVE LockOK(req'[q], Held(q)')
  <2>1. LockOK(req[q], Held(q)) /\ Same(req'[q], req[q]) /\ Held(q)' = Held(q)
    BY DEF LocksOK, GoesOn
  <2>. HIDE DEF Held
  <2>2. LockOK(req'[q], Held(q))
    BY <2>1, LockSame
  <2>. QED  BY <2>1, <2>2
<1>. QED  BY <1>1, <1>2

\* The rest of an ascending list starts above its head.
LEMMA TailFact ==
  ASSUME NEW t \in Seq(Dept), t # <<>>
  PROVE  /\ Tail(t) \in Seq(Dept) /\ Head(t) \in Dept
         /\ \A i \in DOMAIN Tail(t) : i + 1 \in DOMAIN t /\ Tail(t)[i] = t[i + 1]
         /\ \A i \in DOMAIN t : t[i] = Head(t) \/ \E j \in DOMAIN Tail(t) : Tail(t)[j] = t[i]
         /\ 1 \in DOMAIN t /\ t[1] = Head(t)
         /\ (\A i, j \in DOMAIN t : i < j => t[i] < t[j]) =>
              /\ \A i, j \in DOMAIN Tail(t) : i < j => Tail(t)[i] < Tail(t)[j]
              /\ \A i \in DOMAIN Tail(t) : Head(t) < Tail(t)[i]
<1>1. /\ Len(t) \in Nat /\ Len(t) > 0 /\ DOMAIN t = 1 .. Len(t) /\ t[1] = Head(t)
      /\ Tail(t) \in Seq(Dept) /\ Head(t) \in Dept
      /\ DOMAIN Tail(t) = 1 .. Len(t) - 1 /\ \A i \in 1 .. Len(t) - 1 : Tail(t)[i] = t[i + 1]
  OBVIOUS
<1>2. \A i \in DOMAIN Tail(t) : i \in Nat /\ i + 1 \in DOMAIN t /\ Tail(t)[i] = t[i + 1] /\ 1 < i + 1
  BY <1>1
<1>3. ASSUME NEW i \in DOMAIN t PROVE t[i] = Head(t) \/ \E j \in DOMAIN Tail(t) : Tail(t)[j] = t[i]
  <2>1. CASE i = 1
    BY <1>1, <2>1
  <2>2. CASE i # 1
    <3>1. i - 1 \in DOMAIN Tail(t) /\ (i - 1) + 1 = i
      BY <1>1, <2>2
    <3>. QED  BY <1>2, <3>1
  <2>. QED  BY <2>1, <2>2
<1>4. ASSUME \A i, j \in DOMAIN t : i < j => t[i] < t[j]
      PROVE  /\ \A i, j \in DOMAIN Tail(t) : i < j => Tail(t)[i] < Tail(t)[j]
             /\ \A i \in DOMAIN Tail(t) : Head(t) < Tail(t)[i]
  <2>1. \A i, j \in DOMAIN Tail(t) : i < j => i + 1 < j + 1
    BY <1>2
  <2>. QED  BY <1>1, <1>2, <1>4, <2>1
<1>. QED  BY <1>1, <1>2, <1>3, <1>4

LEMMA LocksInit == DeptInit => LocksOK
<1> SUFFICES ASSUME DeptInit PROVE LocksOK
  OBVIOUS
<1>1. \A p \in Proc : req[p] = Idle /\ Held(p) = {}
  BY RequestsAssumption DEF DeptInit, Held
<1>2. LockOK(Idle, {})
  BY DEF Idle, LockOK
<1>. QED  BY <1>1, <1>2 DEF LocksOK

\* What a step that ends the request of p leaves behind.
LEMMA EndLocks ==
  ASSUME DeptTypes, LocksOK, NEW p \in Proc, GoesOn(p, Idle), owner' = Released(p),
         \/ live \subseteq live'
         \/ live' = live \ Held(p)
  PROVE  LocksOK'
<1>1. Held(p)' = {} /\ \A q \in Proc \ {p} : Held(q)' = Held(q) /\ Held(p) \cap Held(q) = {}
  BY HeldFact
<1>2. LockOK(Idle, {})
  BY DEF Idle, LockOK
<1>3. (\A q \in Proc : LockOK(req[q], Held(q)))'
  BY <1>1, <1>2, LockOthers
<1>4. \A q \in Proc : Held(q)' \subseteq live' \cup {RoleRow}
  <2>1. \A q \in Proc : Held(q) \subseteq live \cup {RoleRow}
    BY DEF LocksOK
  <2>. HIDE DEF Held
  <2>. QED  BY <1>1, <2>1
<1>. QED  BY <1>3, <1>4 DEF LocksOK

\* A step that changes neither rows nor locks.
LEMMA QuietLocks ==
  ASSUME DeptTypes, LocksOK, NEW p \in Proc, NEW x, GoesOn(p, x), UNCHANGED <<owner, live>>, LockOK(x, Held(p))
  PROVE  LocksOK'
<1>1. \A q \in Proc : Held(q)' = Held(q)
  BY HeldFact
<1>2. LockOK(x, Held(p)')
  <2>. HIDE DEF Held
  <2>. QED  BY <1>1
<1>3. (\A q \in Proc : LockOK(req[q], Held(q)))'
  BY <1>1, <1>2, LockOthers
<1>4. \A q \in Proc : Held(q)' \subseteq live' \cup {RoleRow}
  BY <1>1 DEF LocksOK
<1>. QED  BY <1>3, <1>4 DEF LocksOK

LEMMA LocksStep == DeptTypes /\ LocksOK /\ [DeptNext]_deptVars => LocksOK'
<1> SUFFICES ASSUME DeptTypes, LocksOK, [DeptNext]_deptVars PROVE LocksOK'
  OBVIOUS
<1>. USE RowFact
<1>1. /\ \A q \in Proc : LockOK(req[q], Held(q)) /\ Held(q) \subseteq live \cup {RoleRow}
      /\ \A q \in Proc : StageOK(req[q], born) /\ req[q] \in Request
      /\ RoleRow \in Row
  BY ParentFact DEF LocksOK, DeptTypes, RoleRow, Row
<1>2. CASE UNCHANGED deptVars
  BY <1>2 DEF deptVars, LocksOK, Held
<1>3. ASSUME NEW p \in Proc, DeptStart(p) PROVE LocksOK'
  <2>1. UNCHANGED <<owner, live>>
    BY <1>3 DEF DeptStart, StartCreate, StartMove, StartDelete, StartScope, StartQuery
  <2>2. req[p] = Idle /\ Held(p) = {}
    <3>1. req[p] = Idle
      BY <1>3 DEF DeptStart, StartCreate, StartMove, StartDelete, StartScope, StartQuery, Begins
    <3>. QED  BY <1>1, <3>1 DEF LockOK, Idle
  <2>3. ASSUME NEW q \in Row, StartCreate(p, q) PROVE LocksOK'
    <3> DEFINE x == [Idle EXCEPT !.op = "create", !.stage = "write", !.parent = q]
    <3>1. GoesOn(p, x)
      BY <2>3, StartFact
    <3>2. LockOK(x, Held(p))
      BY <2>2 DEF LockOK, Idle
    <3>. HIDE DEF x
    <3>. QED  BY <2>1, <3>1, <3>2, QuietLocks
  <2>4. ASSUME NEW d \in Dept, NEW q \in Row, StartMove(p, d, q) PROVE LocksOK'
    <3> DEFINE x == [Idle EXCEPT !.op = "move", !.stage = "walk", !.dept = d, !.parent = q, !.cur = {q}]
    <3>1. GoesOn(p, x)
      BY <2>4, StartFact
    <3>2. LockOK(x, Held(p))
      BY <2>2 DEF LockOK, Idle
    <3>. HIDE DEF x
    <3>. QED  BY <2>1, <3>1, <3>2, QuietLocks
  <2>5. ASSUME NEW D \in SUBSET Dept, StartDelete(p, D) PROVE LocksOK'
    <3> DEFINE x == [Idle EXCEPT !.op = "delete", !.stage = "lock", !.todo = Ascending(D), !.cur = D]
    <3>1. GoesOn(p, x)
      BY <2>5, StartFact
    <3>2. LockOK(x, Held(p))
      BY <2>2, AscendingDept DEF LockOK, Idle
    <3>. HIDE DEF x
    <3>. QED  BY <2>1, <3>1, <3>2, QuietLocks
  <2>6. ASSUME NEW s \in DeptOrders, StartScope(p, s) PROVE LocksOK'
    <3> DEFINE x == [Idle EXCEPT !.op = "scope", !.stage = "role", !.todo = s, !.cur = {s[i] : i \in DOMAIN s}]
    <3>1. GoesOn(p, x)
      BY <2>6, StartFact
    <3>2. LockOK(x, Held(p))
      BY <2>2 DEF LockOK, Idle
    <3>. HIDE DEF x
    <3>. QED  BY <2>1, <3>1, <3>2, QuietLocks
  <2>7. ASSUME NEW d \in OwnDept, NEW R \in Asked, StartQuery(p, d, R) PROVE LocksOK'
    <3> DEFINE x == [Idle EXCEPT !.op = "query", !.stage = "roles", !.dept = d, !.scopes = R]
    <3>1. GoesOn(p, x)
      BY <2>7, StartFact
    <3>2. LockOK(x, Held(p))
      BY <2>2 DEF LockOK, Idle
    <3>. HIDE DEF x
    <3>. QED  BY <2>1, <3>1, <3>2, QuietLocks
  <2>. QED  BY <1>3, <2>3, <2>4, <2>5, <2>6, <2>7 DEF DeptStart
<1>4. ASSUME NEW p \in Proc, DeptStep(p) PROVE LocksOK'
  <2>0. LockOK(req[p], Held(p)) /\ StageOK(req[p], born) /\ req[p] \in Request
    BY <1>1
  <2>1. CASE CreateDept(p)
    <3>1. GoesOn(p, Idle) /\ Held(p) = {} /\ UNCHANGED owner /\ live \subseteq live'
      BY <2>0, <2>1, IdleAfter DEF CreateDept, LockOK
    <3>2. \A q \in Proc : Held(q)' = Held(q)
      BY <3>1, HeldFact
    <3>3. LockOK(Idle, Held(p)')
      BY <3>1, <3>2 DEF Idle, LockOK
    <3>4. (\A q \in Proc : LockOK(req[q], Held(q)))'
      BY <3>1, <3>2, <3>3, LockOthers
    <3>. QED  BY <1>1, <3>1, <3>2, <3>4 DEF LocksOK
  <2>2. CASE WalkUp(p)
    <3>1. req[p].op = "move" /\ req[p].stage = "walk" /\ Held(p) = {} /\ live' = live
      BY <2>0, <2>2 DEF WalkUp, LockOK
    <3>2. ASSUME UNCHANGED owner,
                 GoesOn(p, [req[p] EXCEPT !.stage = "lock", !.todo = Ascending(Dept), !.cur = {}, !.seen = {}])
          PROVE  LocksOK'
      <4> DEFINE x == [req[p] EXCEPT !.stage = "lock", !.todo = Ascending(Dept), !.cur = {}, !.seen = {}]
      <4>1. x.op = "move" /\ x.stage = "lock" /\ x.todo = Ascending(Dept)
        BY <2>0, <3>1 DEF Request
      <4>. HIDE DEF x
      <4>2. LockOK(x, Held(p))
        BY <3>1, <4>1, AscendingDept DEF LockOK
      <4>. QED  BY <3>1, <3>2, <4>2, QuietLocks DEF x
    <3>3. ASSUME NEW c \in live, UNCHANGED owner,
                 GoesOn(p, [req[p] EXCEPT !.cur = {parent[c]}, !.seen = req[p].seen \cup {c}])
          PROVE  LocksOK'
      <4> DEFINE x == [req[p] EXCEPT !.cur = {parent[c]}, !.seen = req[p].seen \cup {c}]
      <4>1. x.op = "move" /\ x.stage = "walk" /\ x.todo = req[p].todo
        BY <2>0, <3>1 DEF Request
      <4>. HIDE DEF x
      <4>2. LockOK(x, Held(p))
        BY <2>0, <3>1, <4>1 DEF LockOK
      <4>. QED  BY <3>1, <3>3, <4>2, QuietLocks DEF x
    <3>4. ASSUME Finish(p), GoesOn(p, Idle) PROVE LocksOK'
      BY <3>1, <3>4, EndLocks DEF Finish
    <3>. QED  BY <2>2, <3>2, <3>3, <3>4, WalkAfter
  <2>3. CASE LockRow(p)
    <3>1. /\ req[p].todo \in Seq(Dept) /\ req[p].todo # <<>> /\ Head(req[p].todo) \in Dept
          /\ req[p].stage = "lock" /\ live' = live
      BY <2>3, LockAfter DEF LockRow
    <3> DEFINE t == req[p].todo
               d == Head(t)
               x == [req[p] EXCEPT !.todo = Tail(t)]
    <3>2. /\ x.op = req[p].op /\ x.stage = "lock" /\ x.todo = Tail(t) /\ x.cur = req[p].cur
      BY <2>0, <3>1 DEF Request
    <3>. HIDE DEF x
    <3>3. ASSUME NEW H, H = Held(p) \cup {d} \/ (H = Held(p) /\ req[p].op # "scope")
          PROVE  LockOK(x, H)
      <4>. HIDE DEF Held
      <4>1. /\ \A i \in DOMAIN Tail(t) : i + 1 \in DOMAIN t /\ Tail(t)[i] = t[i + 1]
            /\ \A i \in DOMAIN t : t[i] = d \/ \E j \in DOMAIN Tail(t) : Tail(t)[j] = t[i]
            /\ 1 \in DOMAIN t /\ t[1] = d
            /\ (\A i, j \in DOMAIN t : i < j => t[i] < t[j]) =>
                 /\ \A i, j \in DOMAIN Tail(t) : i < j => Tail(t)[i] < Tail(t)[j]
                 /\ \A i \in DOMAIN Tail(t) : d < Tail(t)[i]
        BY <3>1, TailFact
      <4>2. req[p].op # "create" /\ req[p].stage = "lock"
        BY <2>0, <3>1 DEF StageOK
      <4>. HIDE DEF t, d
      <4>3. req[p].op \in {"move", "delete"} =>
              /\ \A i, j \in DOMAIN Tail(t) : i < j => Tail(t)[i] < Tail(t)[j]
              /\ \A h \in H, i \in DOMAIN Tail(t) : h < Tail(t)[i]
        <5> SUFFICES ASSUME req[p].op \in {"move", "delete"}
                     PROVE  /\ \A i, j \in DOMAIN Tail(t) : i < j => Tail(t)[i] < Tail(t)[j]
                            /\ \A h \in H, i \in DOMAIN Tail(t) : h < Tail(t)[i]
          OBVIOUS
        <5>1. /\ \A i, j \in DOMAIN t : i < j => t[i] < t[j]
              /\ \A h \in Held(p), i \in DOMAIN t : h < t[i]
          BY <2>0, Zenon DEF LockOK, t
        <5>2. /\ \A i, j \in DOMAIN Tail(t) : i < j => Tail(t)[i] < Tail(t)[j]
              /\ \A i \in DOMAIN Tail(t) : d < Tail(t)[i]
          BY <4>1, <5>1, Zenon
        <5>3. \A h \in Held(p), i \in DOMAIN Tail(t) : h < Tail(t)[i]
          BY <4>1, <5>1
        <5>. QED  BY <3>3, <5>2, <5>3
      <4>4. req[p].op = "delete" => H \subseteq req[p].cur /\ \A i \in DOMAIN Tail(t) : Tail(t)[i] \in req[p].cur
        BY <2>0, <3>3, <4>1 DEF LockOK, t
      <4>5. req[p].op = "scope" => \A e \in req[p].cur : e \in H \/ \E i \in DOMAIN Tail(t) : Tail(t)[i] = e
        BY <2>0, <3>3, <4>1 DEF LockOK, t
      <4>. QED  BY <3>2, <4>2, <4>3, <4>4, <4>5 DEF LockOK
    <3>4. CASE /\ GoesOn(p, x) /\ d \in live /\ Free(d, p) /\ owner' = [owner EXCEPT ![d] = p]
      <4>1. Held(p)' = Held(p) \cup {d} /\ \A q \in Proc \ {p} : Held(q)' = Held(q)
        BY <3>1, <3>4, HeldFact
      <4>. HIDE DEF Held
      <4>2. LockOK(x, Held(p)')
        BY <3>3, <4>1
      <4>3. (\A q \in Proc : LockOK(req[q], Held(q)))'
        BY <3>4, <4>1, <4>2, LockOthers
      <4>4. \A q \in Proc : Held(q)' \subseteq live' \cup {RoleRow}
        BY <1>1, <3>1, <3>4, <4>1
      <4>. QED  BY <4>3, <4>4 DEF LocksOK
    <3>5. CASE GoesOn(p, x) /\ req[p].op # "scope" /\ UNCHANGED owner
      <4>1. LockOK(x, Held(p))
        BY <3>3, <3>5
      <4>. QED  BY <3>1, <3>5, <4>1, QuietLocks
    <3>6. CASE Finish(p) /\ GoesOn(p, Idle)
      BY <3>1, <3>6, EndLocks DEF Finish
    <3>. QED  BY <2>3, <3>4, <3>5, <3>6, LockAfter DEF x
  <2>4. CASE UpdateDept(p)
    <3>1. GoesOn(p, Idle) /\ owner' = Released(p) /\ live' = live
      BY <2>4, IdleAfter DEF UpdateDept, Finish
    <3>. QED  BY <3>1, EndLocks
  <2>5. CASE CheckChildren(p)
    <3>1. req[p].op = "delete" /\ req[p].stage = "lock" /\ live' = live
      BY <2>5 DEF CheckChildren, HasLocked
    <3>2. CASE GoesOn(p, [req[p] EXCEPT !.stage = "write"]) /\ UNCHANGED owner
      <4> DEFINE x == [req[p] EXCEPT !.stage = "write"]
      <4>1. x.op = "delete" /\ x.stage = "write" /\ x.todo = req[p].todo /\ x.cur = req[p].cur
        BY <2>0, <3>1 DEF Request
      <4>. HIDE DEF x
      <4>2. LockOK(x, Held(p))
        BY <2>0, <3>1, <4>1 DEF LockOK
      <4>. QED  BY <3>1, <3>2, <4>2, QuietLocks DEF x
    <3>3. CASE GoesOn(p, Idle) /\ owner' = Released(p)
      BY <3>1, <3>3, EndLocks
    <3>. QED  BY <2>5, <3>2, <3>3, IdleAfter
  <2>6. CASE DeleteDepts(p)
    <3>1. GoesOn(p, Idle) /\ owner' = Released(p) /\ live' = live \ Held(p)
      BY <2>6, IdleAfter DEF DeleteDepts
    <3>. QED  BY <3>1, EndLocks
  <2>7. CASE LockRole(p)
    <3> DEFINE x == [req[p] EXCEPT !.stage = "lock"]
    <3>1. GoesOn(p, x)
      BY <2>7, LockRoleAfter
    <3>2. req[p].stage = "role" /\ req[p].op = "scope"
      BY <2>0, <2>7 DEF LockRole, StageOK
    <3>3. Held(p)' = Held(p) \cup {RoleRow} /\ \A q \in Proc \ {p} : Held(q)' = Held(q)
      BY <1>1, <2>7, HeldFact DEF LockRole
    <3>4. x.op = "scope" /\ x.stage = "lock" /\ x.todo = req[p].todo /\ x.cur = req[p].cur
      BY <2>0, <3>2 DEF Request
    <3>. HIDE DEF x, Held
    <3>5. LockOK(x, Held(p)')
      BY <2>0, <3>2, <3>3, <3>4 DEF LockOK
    <3>6. (\A q \in Proc : LockOK(req[q], Held(q)))'
      BY <3>1, <3>3, <3>5, LockOthers
    <3>7. live' = live
      BY <2>7 DEF LockRole
    <3>8. \A q \in Proc : Held(q)' \subseteq live' \cup {RoleRow}
      BY <1>1, <3>3, <3>7
    <3>. QED  BY <3>6, <3>8 DEF LocksOK
  <2>8. CASE UpdateDataScope(p)
    <3>1. GoesOn(p, Idle) /\ owner' = Released(p) /\ live' = live
      BY <2>8, IdleAfter DEF UpdateDataScope
    <3>. QED  BY <3>1, EndLocks
  <2>9. CASE ReadRoles(p) \/ ReadLevel(p)
    <3>1. req[p].op = "query" /\ Held(p) = {} /\ UNCHANGED <<owner, live>>
      <4>1. req[p].op = "query" /\ UNCHANGED <<owner, live>>
        BY <2>9, Zenon DEF ReadRoles, ReadLevel
      <4>. QED  BY <2>0, <4>1 DEF LockOK, StageOK
    <3>2. ASSUME NEW s, NEW c, NEW g, g \notin {"lock", "write"},
                 GoesOn(p, [req[p] EXCEPT !.seen = s, !.cur = c, !.stage = g])
          PROVE  LocksOK'
      <4> DEFINE x == [req[p] EXCEPT !.seen = s, !.cur = c, !.stage = g]
      <4>1. x.op = "query" /\ x.todo = req[p].todo /\ x.stage = g
        BY <2>0, <3>1 DEF Request
      <4>. HIDE DEF x
      <4>2. LockOK(x, Held(p))
        BY <3>1, <3>2, <4>1 DEF LockOK
      <4>. QED  BY <3>1, <3>2, <4>2, QuietLocks DEF x
    <3>3. CASE ReadRoles(p)
      <4>1. (IF Below(req[p]) THEN "level" ELSE "answer") \notin {"lock", "write"}
        OBVIOUS
      <4>. QED  BY <3>2, <3>3, <4>1, QueryAfter
    <3>4. CASE ReadLevel(p)
      <4> DEFINE n == NextLevel(req[p])
      <4>1. (IF n = {} THEN "answer" ELSE "level") \notin {"lock", "write"}
        OBVIOUS
      <4>2. GoesOn(p, [req[p] EXCEPT !.seen = req[p].seen \cup n, !.cur = n,
                                     !.stage = IF n = {} THEN "answer" ELSE "level"])
        BY <3>4, QueryAfter
      <4>. HIDE DEF n
      <4>. QED  BY <3>2, <4>1, <4>2
    <3>. QED  BY <2>9, <3>3, <3>4
  <2>10. CASE Answer(p) \/ Victim(p)
    <3>1. GoesOn(p, Idle)
      BY <2>10, IdleAfter, Zenon
    <3>2. owner' = Released(p) /\ live' = live
      BY <2>10 DEF Answer, Victim, Finish
    <3>. QED  BY <3>1, <3>2, EndLocks
  <2>. QED  BY <1>4, <2>1, <2>2, <2>3, <2>4, <2>5, <2>6, <2>7, <2>8, <2>9, <2>10 DEF DeptStep
<1>. QED  BY <1>2, <1>3, <1>4 DEF DeptNext

-----------------------------------------------------------------------------
(* What follows from the order of the locks.                               *)

\* Moves and deletions, which lock upwards, never wait for one another in a
\* circle (UpdateDept, deleteDeptIDs): of the rows they ask for, the highest is
\* held by one that asks for a higher one.
LEMMA ScopesDeadlockFact == DeptTypes /\ LocksOK => OnlyScopesDeadlock
<1> SUFFICES ASSUME DeptTypes, LocksOK, NEW S \in SUBSET Proc, Circle(S), \A p \in S : req[p].op # "scope"
             PROVE  FALSE
  BY DEF OnlyScopesDeadlock
<1> DEFINE t(p) == req[p].todo
           W == {Head(t(p)) : p \in S}
<1>1. ASSUME NEW p \in S
      PROVE  /\ t(p) \in Seq(Dept) /\ t(p) # <<>> /\ Wanted(p) \subseteq {Head(t(p))}
             /\ Wanted(p) # {} /\ req[p].op \in {"move", "delete"}
  <2>1. StageOK(req[p], born) /\ t(p) \in Seq(Dept)
    <3>1. req[p] \in Request
      BY ParentFact
    <3>. QED  BY <3>1 DEF DeptTypes, Request
  <2>2. Wanted(p) # {}
    BY DEF Circle, WaitsFor
  <2>3. req[p].stage # "role"
    BY <2>1 DEF StageOK
  <2>4. req[p].stage = "lock" /\ t(p) # <<>> /\ Wanted(p) \subseteq {Head(t(p))}
    BY <2>2, <2>3 DEF Wanted
  <2>5. req[p].op \in {"move", "delete"}
    BY <2>1, <2>4 DEF StageOK
  <2>. QED  BY <2>1, <2>2, <2>4, <2>5
<1>2. ASSUME NEW p \in S
      PROVE  Head(t(p)) \in Dept /\ 1 \in DOMAIN t(p) /\ t(p)[1] = Head(t(p))
  BY <1>1, TailFact
<1>. HIDE DEF t
<1>3. W \in SUBSET (1 .. MaxDept) /\ W # {}
  BY <1>2 DEF Circle, Dept
<1>4. PICK x \in W : \A y \in W : y <= x
  BY <1>3, HighestFact, DeptAssumption
<1>5. PICK p \in S : x = Head(t(p))
  OBVIOUS
<1>6. PICK q \in S : \E r \in Wanted(p) : owner[r] = q
  BY DEF Circle, WaitsFor
<1>7. owner[x] = q /\ x \in Row
  <2>1. Wanted(p) \subseteq {x}
    BY <1>1, <1>5
  <2>. QED  BY <1>2, <1>5, <1>6, <2>1, RowFact
<1>8. x < Head(t(q))
  <2>1. x \in Held(q) /\ LockOK(req[q], Held(q))
    BY <1>7 DEF Held, LocksOK
  <2>2. \A h \in Held(q), i \in DOMAIN t(q) : h < t(q)[i]
    BY <1>1, <2>1 DEF LockOK, t
  <2>. QED  BY <1>2, <2>1, <2>2
<1>9. Head(t(q)) <= x /\ x \in Nat /\ Head(t(q)) \in Nat
  BY <1>2, <1>4, <1>5, RowFact
<1>. QED  BY <1>8, <1>9

LEMMA DeptLocksAlways == DeptSpec => [](DeptTypes /\ LocksOK)
<1>. QED  BY DeptTypesInit, DeptTypesStep, LocksInit, LocksStep, PTL DEF DeptSpec

\* Transactions on departments wait in a circle only when a data scope is one of
\* them, for any number of requests and departments.
THEOREM ScopesDeadlock == DeptSpec => []OnlyScopesDeadlock
<1>. QED  BY DeptLocksAlways, ScopesDeadlockFact, PTL

\* A data scope is set to departments that are live at that moment
\* (UpdateRoleDataScope): it holds the locks of all of them.
THEOREM ScopesNameLive == DeptSpec => ScopeNamesLive
<1>1. ASSUME DeptTypes, LocksOK, [DeptNext]_deptVars
      PROVE  [custom' # custom => custom' \subseteq live']_deptVars
  <2> SUFFICES ASSUME NEW p \in Proc, DeptStart(p) \/ DeptStep(p), custom' # custom
               PROVE  custom' \subseteq live'
    BY <1>1 DEF DeptNext
  <2>1. UpdateDataScope(p)
    <3>1. DeptStart(p) => custom' = custom
      BY DEF DeptStart, StartCreate, StartMove, StartDelete, StartScope, StartQuery
    <3>2. DeptStep(p) => custom' = custom \/ UpdateDataScope(p)
      BY Zenon DEF DeptStep, CreateDept, WalkUp, LockRow, UpdateDept, CheckChildren, DeleteDepts, LockRole,
             ReadRoles, ReadLevel, Answer, Victim
    <3>. QED  BY <3>1, <3>2
  <2>2. /\ req[p].op = "scope" /\ req[p].todo = <<>> /\ req[p].cur \subseteq Dept
        /\ custom' = req[p].cur /\ live' = live
    BY <1>1, <2>1 DEF UpdateDataScope, HasLocked, DeptTypes, StageOK
  <2>3. req[p].cur \subseteq Held(p) /\ Held(p) \subseteq live \cup {RoleRow}
    <3>1. LockOK(req[p], Held(p)) /\ Held(p) \subseteq live \cup {RoleRow}
      BY <1>1 DEF LocksOK
    <3>2. DOMAIN req[p].todo = {}
      BY <2>2
    <3>. QED  BY <2>2, <3>1, <3>2 DEF LockOK
  <2>4. RoleRow \notin Dept
    BY DEF RoleRow, Dept
  <2>. QED  BY <2>2, <2>3, <2>4
<1>2. DeptTypes /\ LocksOK /\ [DeptNext]_deptVars => [custom' # custom => custom' \subseteq live']_deptVars
  BY <1>1
<1>. QED  BY <1>2, DeptLocksAlways, PTL DEF DeptSpec, ScopeNamesLive

-----------------------------------------------------------------------------
(* The tree.                                                               *)

\* Three statements change the tree; none of them touches the locks of others,
\* nor does any other step.
LEMMA FrameFact ==
  ASSUME DeptTypes, NEW p \in Proc, DeptStart(p) \/ DeptStep(p)
  PROVE  /\ \A q \in Proc \ {p} : Held(q)' = Held(q) /\ Same(req'[q], req[q])
         /\ CreateDept(p) \/ UpdateDept(p) \/ DeleteDepts(p) \/ UNCHANGED <<born, live, parent, raced>>
<1>1. \/ CreateDept(p) \/ UpdateDept(p) \/ DeleteDepts(p) \/ UNCHANGED <<born, live, parent, raced>>
  <2>1. DeptStart(p) => UNCHANGED <<born, live, parent, raced>>
    BY DEF DeptStart, StartCreate, StartMove, StartDelete, StartScope, StartQuery
  <2>2. DeptStep(p) => \/ CreateDept(p) \/ UpdateDept(p) \/ DeleteDepts(p)
                       \/ UNCHANGED <<born, live, parent, raced>>
    BY Zenon DEF DeptStep, WalkUp, LockRow, CheckChildren, LockRole, UpdateDataScope,
           ReadRoles, ReadLevel, Answer, Victim
  <2>. QED  BY <2>1, <2>2
<1>2. \/ owner' = owner \/ owner' = Released(p)
      \/ \E d \in Row : Free(d, p) /\ owner' = [owner EXCEPT ![d] = p]
  <2>1. DeptStart(p) => owner' = owner
    BY DEF DeptStart, StartCreate, StartMove, StartDelete, StartScope, StartQuery
  <2>2. LockRow(p) => \/ owner' = owner \/ owner' = Released(p)
                      \/ \E d \in Row : Free(d, p) /\ owner' = [owner EXCEPT ![d] = p]
    BY LockAfter, RowFact DEF Finish
  <2>3. LockRole(p) => \E d \in Row : Free(d, p) /\ owner' = [owner EXCEPT ![d] = p]
    <3>1. RoleRow \in Row
      BY RowFact DEF RoleRow, Root
    <3>. QED  BY <3>1 DEF LockRole
  <2>4. DeptStep(p) => LockRow(p) \/ LockRole(p) \/ owner' = owner \/ owner' = Released(p)
    BY DEF DeptStep, CreateDept, WalkUp, UpdateDept, CheckChildren, DeleteDepts, UpdateDataScope,
           ReadRoles, ReadLevel, Answer, Victim, Finish
  <2>. QED  BY <2>1, <2>2, <2>3, <2>4
<1>3. \A q \in Proc \ {p} : Held(q)' = Held(q)
  BY <1>2, HeldFact
<1>4. \A q \in Proc \ {p} : Same(req'[q], req[q])
  <2> DEFINE Others == \A q \in Proc \ {p} : Same(req'[q], req[q])
  <2>1. \A x : GoesOn(p, x) => Others
    BY DEF GoesOn
  <2>. HIDE DEF Others
  <2>2. DeptStart(p) => Others
    <3>1. \A q \in Row : StartCreate(p, q) => Others
      BY <2>1, StartFact, Zenon
    <3>2. \A d \in Dept, q \in Row : StartMove(p, d, q) => Others
      BY <2>1, StartFact, Zenon
    <3>3. \A D \in SUBSET Dept : StartDelete(p, D) => Others
      BY <2>1, StartFact, Zenon
    <3>4. \A s \in DeptOrders : StartScope(p, s) => Others
      BY <2>1, StartFact, Zenon
    <3>5. \A d \in OwnDept, R \in Asked : StartQuery(p, d, R) => Others
      BY <2>1, StartFact, Zenon
    <3>. QED  BY <3>1, <3>2, <3>3, <3>4, <3>5 DEF DeptStart
  <2>3. WalkUp(p) => Others
    BY <2>1, WalkAfter, Zenon
  <2>4. LockRow(p) => Others
    BY <2>1, LockAfter, Zenon
  <2>5. LockRole(p) => Others
    BY <2>1, LockRoleAfter, Zenon
  <2>6. (ReadRoles(p) => Others) /\ (ReadLevel(p) => Others)
    BY <2>1, QueryAfter, Zenon
  <2>7. CreateDept(p) \/ UpdateDept(p) \/ CheckChildren(p) \/ DeleteDepts(p) \/ UpdateDataScope(p)
          \/ Answer(p) \/ Victim(p) => Others
    BY <2>1, IdleAfter, Zenon
  <2>8. Others
    BY <2>2, <2>3, <2>4, <2>5, <2>6, <2>7, Zenon DEF DeptStep
  <2>. QED  BY <2>8 DEF Others
<1>. QED  BY <1>1, <1>3, <1>4

\* No department that counts hangs below a row that is about to be deleted.
OrphansOK ==
  /\ OnlyRacedOrphans
  /\ \A p \in Proc : req[p].op = "delete" /\ req[p].stage = "write" =>
       \A d \in live \ raced : parent[d] \notin Held(p)

\* A deletion is about to write only after it has looked for children.
LEMMA WritingFact ==
  ASSUME DeptTypes, LocksOK, NEW p \in Proc, DeptStart(p) \/ DeptStep(p),
         req'[p].op = "delete", req'[p].stage = "write"
  PROVE  /\ UNCHANGED <<live, parent, raced>>
         /\ \A d \in live : parent[d] \notin Held(p)'
<1>1. CASE CheckChildren(p) /\ UNCHANGED owner
  <2>1. Children(req[p].cur) = {}
    <3>1. ~ Finish(p)
      BY IdleAfter DEF GoesOn, Same, Idle
    <3>. QED  BY <1>1, <3>1 DEF CheckChildren
  <2>2. Held(p)' = Held(p) /\ Held(p) \subseteq req[p].cur
    <3>1. LockOK(req[p], Held(p)) /\ req[p].op = "delete"
      BY <1>1 DEF LocksOK, CheckChildren, HasLocked
    <3>2. Held(p)' = Held(p)
      BY <1>1 DEF Held
    <3>. QED  BY <3>1, <3>2 DEF LockOK
  <2>. QED  BY <1>1, <2>1, <2>2 DEF Children, CheckChildren
<1>2. CASE ~ (CheckChildren(p) /\ UNCHANGED owner)
  <2>0. req[p] \in Request /\ StageOK(req[p], born)
    BY ParentFact DEF DeptTypes
  <2>1. ~ GoesOn(p, Idle)
    BY DEF GoesOn, Same, Idle
  <2>2. ~ DeptStart(p)
    BY StartFact DEF DeptStart, GoesOn, Same, Idle
  <2>3. ~ WalkUp(p)
    <3> SUFFICES ASSUME WalkUp(p) PROVE FALSE
      OBVIOUS
    <3>0. req[p].op = "move"
      BY DEF WalkUp
    <3>1. \A x : GoesOn(p, x) => x.op # "move"
      BY DEF GoesOn, Same
    <3>3. \A c, d : [req[p] EXCEPT !.cur = c, !.seen = d].op = "move"
      BY <2>0, <3>0 DEF Request
    <3>4. ~ GoesOn(p, [req[p] EXCEPT !.stage = "lock", !.todo = Ascending(Dept), !.cur = {}, !.seen = {}])
      <4> DEFINE x == [req[p] EXCEPT !.stage = "lock", !.todo = Ascending(Dept), !.cur = {}, !.seen = {}]
      <4>1. x.op = "move"
        BY <2>0, <3>0 DEF Request
      <4>. HIDE DEF x
      <4>2. ~ GoesOn(p, x)
        BY <3>1, <4>1
      <4>. QED  BY <4>2 DEF x
    <3>5. \A c : ~ GoesOn(p, [req[p] EXCEPT !.cur = {parent[c]}, !.seen = req[p].seen \cup {c}])
      BY <3>1, <3>3, Zenon
    <3>. QED  BY <2>1, <3>4, <3>5, WalkAfter, Zenon
  <2>4. ~ LockRow(p)
    <3> SUFFICES ASSUME LockRow(p) PROVE FALSE
      OBVIOUS
    <3>1. GoesOn(p, [req[p] EXCEPT !.todo = Tail(req[p].todo)]) /\ req[p].stage = "lock"
      BY <2>1, LockAfter
    <3>2. [req[p] EXCEPT !.todo = Tail(req[p].todo)].stage = "lock"
      BY <2>0, <3>1 DEF Request
    <3>. QED  BY <3>1, <3>2 DEF GoesOn, Same
  <2>5. ~ LockRole(p)
    <3>1. [req[p] EXCEPT !.stage = "lock"].stage = "lock"
      BY <2>0 DEF Request
    <3>. QED  BY <3>1, LockRoleAfter DEF GoesOn, Same
  <2>6. ~ (ReadRoles(p) \/ ReadLevel(p))
    <3> SUFFICES ASSUME ReadRoles(p) \/ ReadLevel(p) PROVE FALSE
      OBVIOUS
    <3>1. req[p].op = "query"
      BY Zenon DEF ReadRoles, ReadLevel
    <3>3. \A x : GoesOn(p, x) => x.op # "query"
      BY DEF GoesOn, Same
    <3>4. \A a, b, c : ~ GoesOn(p, [req[p] EXCEPT !.seen = a, !.cur = b, !.stage = c])
      <4> TAKE a, b, c
      <4> DEFINE x == [req[p] EXCEPT !.seen = a, !.cur = b, !.stage = c]
      <4>1. x.op = "query"
        BY <2>0, <3>1 DEF Request
      <4>. HIDE DEF x
      <4>2. ~ GoesOn(p, x)
        BY <3>3, <4>1
      <4>. QED  BY <4>2 DEF x
    <3>. QED  BY <3>4, QueryAfter, Zenon
  <2>7. ~ CheckChildren(p)
    BY <1>2, <2>1, IdleAfter
  <2>. QED  BY <2>1, <2>2, <2>3, <2>4, <2>5, <2>6, <2>7, IdleAfter DEF DeptStep
<1>. QED  BY <1>1, <1>2

LEMMA OrphansInit == DeptInit => OrphansOK
<1> SUFFICES ASSUME DeptInit PROVE OrphansOK
  OBVIOUS
<1>1. \A d \in live \ raced : parent[d] \in live \cup {Root}
  <2> SUFFICES ASSUME NEW d \in live PROVE parent[d] \in live \cup {Root}
    OBVIOUS
  <2>1. born \in Nat /\ born <= MaxDept /\ MaxDept \in Nat /\ live = 1 .. born
    BY DeptAssumption DEF DeptInit
  <2>2. d \in Dept /\ parent[d] < d /\ parent[d] \in Row
    BY <2>1 DEF DeptInit, Dept
  <2>. QED  BY <2>1, <2>2 DEF Row, Root, Dept
<1>2. \A p \in Proc : req[p].op # "delete"
  BY DEF DeptInit, Idle
<1>. QED  BY <1>1, <1>2 DEF OrphansOK, OnlyRacedOrphans

LEMMA OrphansStep == DeptTypes /\ LocksOK /\ OrphansOK /\ [DeptNext]_deptVars => OrphansOK'
<1> SUFFICES ASSUME DeptTypes, LocksOK, OrphansOK, [DeptNext]_deptVars PROVE OrphansOK'
  OBVIOUS
<1>1. CASE UNCHANGED deptVars
  BY <1>1 DEF deptVars, OrphansOK, OnlyRacedOrphans, Held
<1>2. ASSUME NEW p \in Proc, DeptStart(p) \/ DeptStep(p) PROVE OrphansOK'
  <2> DEFINE Spared(q) == \A d \in live \ raced : parent[d] \notin Held(q)
             Writes(q) == req[q].op = "delete" /\ req[q].stage = "write"
             F == \A q \in Proc \ {p} : Held(q)' = Held(q) /\ (Writes(q)' => Writes(q))
  <2>1. F
    BY <1>2, FrameFact DEF Same
  <2>2. /\ OnlyRacedOrphans /\ \A q \in Proc : Writes(q) => Spared(q)
        /\ \A q \in Proc : Held(q) \subseteq live \cup {RoleRow} /\ LockOK(req[q], Held(q))
        /\ live \subseteq Dept /\ parent \in [Dept -> Row] /\ raced \subseteq live /\ born \in Nat
        /\ Root \notin Dept /\ RoleRow = Root
    BY RowFact DEF OrphansOK, LocksOK, DeptTypes, DeptTypeOK, Dept, RoleRow, Root
  <2>3. \A q \in Proc : Writes(q) => Root \notin Held(q)
    <3> SUFFICES ASSUME NEW q \in Proc, Writes(q) PROVE Root \notin Held(q)
      OBVIOUS
    <3>1. Held(q) \subseteq req[q].cur /\ req[q].cur \subseteq Dept
      BY <2>2 DEF LockOK, DeptTypes, StageOK
    <3>. QED  BY <2>2, <3>1
  <2>4. ASSUME OnlyRacedOrphans', Spared(p)' \/ ~ Writes(p)',
               \A q \in Proc \ {p} : Writes(q) /\ Spared(q) => Spared(q)'
        PROVE  OrphansOK'
    <3>1. \A q \in Proc \ {p} : Writes(q)' => Spared(q)'
      BY <2>1, <2>2, <2>4
    <3>. QED  BY <2>4, <3>1 DEF OrphansOK
  <2>5. CASE CreateDept(p)
    <3>1. /\ live' = live \cup {born'} /\ parent' = [parent EXCEPT ![born'] = req[p].parent]
          /\ raced' = IF req[p].parent \in (live \ BeingDeleted) \cup {Root} THEN raced ELSE raced \cup {born'}
      BY <2>5 DEF CreateDept
    <3>2. ~ Writes(p)' /\ born' \in Dept /\ born' \notin live
      <4>1. ~ Writes(p)'
        BY <2>5, IdleAfter DEF GoesOn, Same, Idle
      <4>2. live \subseteq 1 .. born /\ born' = born + 1 /\ born < MaxDept /\ MaxDept \in Nat
        BY <2>5, RowFact DEF CreateDept, DeptTypes, DeptTypeOK
      <4>. QED  BY <2>2, <4>1, <4>2 DEF Dept
    <3>3. \A d \in live' \ raced' : \/ d \in live \ raced /\ parent'[d] = parent[d]
                                    \/ parent'[d] \in (live \ BeingDeleted) \cup {Root}
      BY <2>2, <3>1, <3>2
    <3>4. OnlyRacedOrphans'
      BY <2>2, <3>1, <3>3 DEF OnlyRacedOrphans
    <3>5. ASSUME NEW q \in Proc \ {p}, Writes(q), Spared(q) PROVE Spared(q)'
      <4>1. Held(q) \cap live \subseteq BeingDeleted
        BY <2>2, <3>5 DEF Held, BeingDeleted
      <4>2. Root \notin Held(q) /\ Held(q)' = Held(q)
        BY <2>1, <2>3, <3>5
      <4>. HIDE DEF Held
      <4>. QED  BY <3>3, <3>5, <4>1, <4>2
    <3>. QED  BY <2>4, <3>2, <3>4, <3>5
  <2>6. CASE UpdateDept(p)
    <3>1. UNCHANGED <<live, raced>> /\ ~ Writes(p)'
      BY <2>6, IdleAfter DEF UpdateDept, GoesOn, Same, Idle
    <3>2. \/ parent' = parent
          \/ /\ parent' = [parent EXCEPT ![req[p].dept] = req[p].parent]
             /\ req[p].parent \in Held(p) \cup {Root}
      BY <2>6 DEF UpdateDept, ChainOK
    <3>3. \A d \in live : parent'[d] = parent[d] \/ parent'[d] \in Held(p) \cup {Root}
      <4>. HIDE DEF Held
      <4>. QED  BY <2>2, <3>2
    <3>4. Held(p) \subseteq live \cup {Root} /\ \A q \in Proc \ {p} : Held(p) \cap Held(q) = {}
      BY <2>2, HeldFact
    <3>. HIDE DEF Held
    <3>5. OnlyRacedOrphans'
      BY <2>2, <3>1, <3>3, <3>4 DEF OnlyRacedOrphans
    <3>6. ASSUME NEW q \in Proc \ {p}, Writes(q), Spared(q) PROVE Spared(q)'
      <4>1. Root \notin Held(q) /\ Held(q)' = Held(q)
        BY <2>1, <2>3, <3>6
      <4>. QED  BY <3>1, <3>3, <3>4, <3>6, <4>1
    <3>. QED  BY <2>4, <3>1, <3>5, <3>6
  <2>7. CASE DeleteDepts(p)
    <3>1. live' = live \ Held(p) /\ raced' = raced \ Held(p) /\ parent' = parent /\ ~ Writes(p)' /\ Writes(p)
      BY <2>7, IdleAfter DEF DeleteDepts, GoesOn, Same, Idle
    <3>2. live' \ raced' \subseteq live \ raced
      BY <3>1
    <3>3. OnlyRacedOrphans'
      <4>1. Spared(p)
        BY <2>2, <3>1
      <4>. HIDE DEF Held
      <4>. QED  BY <2>2, <3>1, <3>2, <4>1 DEF OnlyRacedOrphans
    <3>4. ASSUME NEW q \in Proc \ {p}, Spared(q) PROVE Spared(q)'
      <4>1. Held(q)' = Held(q)
        BY <2>1
      <4>. HIDE DEF Held
      <4>. QED  BY <3>1, <3>2, <3>4, <4>1
    <3>. QED  BY <2>4, <3>1, <3>3, <3>4
  <2>8. CASE UNCHANGED <<born, live, parent, raced>>
    <3>1. OnlyRacedOrphans'
      BY <2>2, <2>8 DEF OnlyRacedOrphans
    <3>2. Spared(p)' \/ ~ Writes(p)'
      <4> SUFFICES ASSUME Writes(p)' PROVE Spared(p)'
        OBVIOUS
      <4>1. \A d \in live : parent[d] \notin Held(p)'
        BY <1>2, WritingFact
      <4>. QED  BY <2>8, <4>1
    <3>3. ASSUME NEW q \in Proc \ {p}, Spared(q) PROVE Spared(q)'
      <4>1. Held(q)' = Held(q)
        BY <2>1
      <4>. HIDE DEF Held
      <4>. QED  BY <2>8, <3>3, <4>1
    <3>. QED  BY <2>4, <3>1, <3>2, <3>3
  <2>. QED  BY <1>2, <2>5, <2>6, <2>7, <2>8, FrameFact
<1>. QED  BY <1>1, <1>2 DEF DeptNext

\* A department hangs below a deleted one only if it was inserted after that
\* one's deletion had looked for children, however many moves, deletions and
\* creations overlap (deleteDeptIDs, UpdateDept, CreateDept).
THEOREM RacedOrphans == DeptSpec => []OnlyRacedOrphans
<1>1. DeptSpec => []OrphansOK
  BY DeptLocksAlways, OrphansInit, OrphansStep, PTL DEF DeptSpec
<1>2. OrphansOK => OnlyRacedOrphans
  BY DEF OrphansOK
<1>. QED  BY <1>1, <1>2, PTL

-----------------------------------------------------------------------------
(* Moves cannot close a circle.                                            *)

\* Row y is still on the list of a request r.
Listed(r, y) == \E i \in DOMAIN r.todo : r.todo[i] = y

\* A move that takes locks has passed over a live department only when that one
\* was not there yet, so what it knows of the tree is older: the new parent and
\* the parents of the locked departments below it have smaller numbers.
MoveOK(p) ==
  req[p].op = "move" /\ req[p].stage = "lock" =>
    /\ \A y \in Dept : Listed(req[p], y) \/ \A i \in DOMAIN req[p].todo : y < req[p].todo[i]
    /\ \A y \in live :
         \/ Listed(req[p], y) \/ y \in Held(p)
         \/ /\ req[p].parent < y
            /\ \A e \in Held(p) \cap Dept : e < y => parent[e] < y

AcyclicOK == TreeIsAcyclic /\ \A p \in Proc : MoveOK(p)

\* How a move comes to take locks, and how it goes on.
LEMMA MovingFact ==
  ASSUME DeptTypes, NEW p \in Proc, DeptStart(p) \/ DeptStep(p),
         req'[p].op = "move", req'[p].stage = "lock"
  PROVE  /\ req'[p].parent = req[p].parent
         /\ \/ req'[p].todo = Ascending(Dept)
            \/ /\ req[p].op = "move" /\ req[p].stage = "lock"
               /\ req[p].todo \in Seq(Dept) /\ req[p].todo # <<>> /\ req'[p].todo = Tail(req[p].todo)
               /\ \/ Head(req[p].todo) \in live /\ Held(p)' = Held(p) \cup {Head(req[p].todo)}
                  \/ Head(req[p].todo) \notin live /\ Held(p)' = Held(p)
<1>0. req[p] \in Request /\ StageOK(req[p], born)
  BY ParentFact DEF DeptTypes
<1>1. \A x : GoesOn(p, x) => x.op = "move" /\ x.stage = "lock" /\ req'[p].parent = x.parent /\ req'[p].todo = x.todo
  BY DEF GoesOn, Same
<1>2. ~ GoesOn(p, Idle)
  BY <1>1 DEF Idle
<1>3. ~ DeptStart(p)
  BY StartFact DEF DeptStart, GoesOn, Same, Idle
<1>4. CASE WalkUp(p)
  <2>1. ASSUME GoesOn(p, [req[p] EXCEPT !.stage = "lock", !.todo = Ascending(Dept), !.cur = {}, !.seen = {}])
        PROVE  req'[p].parent = req[p].parent /\ req'[p].todo = Ascending(Dept)
    <3> DEFINE x == [req[p] EXCEPT !.stage = "lock", !.todo = Ascending(Dept), !.cur = {}, !.seen = {}]
    <3>1. x.parent = req[p].parent /\ x.todo = Ascending(Dept)
      BY <1>0 DEF Request
    <3>. HIDE DEF x
    <3>. QED  BY <1>1, <2>1, <3>1 DEF x
  <2>2. \A c : ~ GoesOn(p, [req[p] EXCEPT !.cur = {parent[c]}, !.seen = req[p].seen \cup {c}])
    <3> TAKE c
    <3> DEFINE x == [req[p] EXCEPT !.cur = {parent[c]}, !.seen = req[p].seen \cup {c}]
    <3>1. x.stage = "walk"
      BY <1>0, <1>4 DEF Request, WalkUp
    <3>. HIDE DEF x
    <3>2. ~ GoesOn(p, x)
      BY <1>1, <3>1
    <3>. QED  BY <3>2 DEF x
  <2>. QED  BY <1>2, <1>4, <2>1, <2>2, WalkAfter
<1>5. CASE LockRow(p)
  <2> DEFINE x == [req[p] EXCEPT !.todo = Tail(req[p].todo)]
  <2>1. /\ req[p].todo \in Seq(Dept) /\ req[p].todo # <<>> /\ Head(req[p].todo) \in Row /\ req[p].stage = "lock"
        /\ GoesOn(p, x)
        /\ \/ /\ Head(req[p].todo) \in live /\ Free(Head(req[p].todo), p)
              /\ owner' = [owner EXCEPT ![Head(req[p].todo)] = p]
           \/ Head(req[p].todo) \notin live /\ UNCHANGED owner
    BY <1>2, <1>5, LockAfter, RowFact
  <2>2. x.op = req[p].op /\ x.stage = "lock" /\ x.todo = Tail(req[p].todo) /\ x.parent = req[p].parent
    BY <1>0, <2>1 DEF Request
  <2>. HIDE DEF x
  <2>3. req[p].op = "move" /\ req'[p].todo = Tail(req[p].todo) /\ req'[p].parent = req[p].parent
    BY <1>1, <2>1, <2>2
  <2>4. \/ Head(req[p].todo) \in live /\ Held(p)' = Held(p) \cup {Head(req[p].todo)}
        \/ Head(req[p].todo) \notin live /\ Held(p)' = Held(p)
    BY <2>1, HeldFact
  <2>. QED  BY <2>1, <2>3, <2>4
<1>6. ~ LockRole(p)
  <2> SUFFICES ASSUME LockRole(p) PROVE FALSE
    OBVIOUS
  <2>1. req[p].op = "scope"
    BY <1>0 DEF LockRole, StageOK
  <2>2. [req[p] EXCEPT !.stage = "lock"].op = "scope"
    BY <1>0, <2>1 DEF Request
  <2>. QED  BY <2>2, LockRoleAfter DEF GoesOn, Same
<1>7. ~ (ReadRoles(p) \/ ReadLevel(p))
  <2> SUFFICES ASSUME ReadRoles(p) \/ ReadLevel(p) PROVE FALSE
    OBVIOUS
  <2>1. req[p].op = "query"
    BY Zenon DEF ReadRoles, ReadLevel
  <2>2. \A a, b, c : ~ GoesOn(p, [req[p] EXCEPT !.seen = a, !.cur = b, !.stage = c])
    <3> TAKE a, b, c
    <3> DEFINE x == [req[p] EXCEPT !.seen = a, !.cur = b, !.stage = c]
    <3>1. x.op = "query"
      BY <1>0, <2>1 DEF Request
    <3>. HIDE DEF x
    <3>2. ~ GoesOn(p, x)
      BY <1>1, <3>1
    <3>. QED  BY <3>2 DEF x
  <2>. QED  BY <2>2, QueryAfter, Zenon
<1>8. ~ CheckChildren(p)
  <2> SUFFICES ASSUME CheckChildren(p) PROVE FALSE
    OBVIOUS
  <2>1. [req[p] EXCEPT !.stage = "write"].stage = "write"
    BY <1>0 DEF Request
  <2>. QED  BY <1>2, <2>1, IdleAfter DEF GoesOn, Same
<1>. QED  BY <1>2, <1>3, <1>4, <1>5, <1>6, <1>7, <1>8, IdleAfter DEF DeptStep

LEMMA AcyclicInit == DeptInit => AcyclicOK
<1> SUFFICES ASSUME DeptInit PROVE AcyclicOK
  OBVIOUS
<1>1. ASSUME NEW S \in SUBSET live, S # {}, \A d \in S : parent[d] \in S PROVE FALSE
  <2> DEFINE s == Ascending(S)
  <2>1. S \in SUBSET (1 .. MaxDept) /\ S \subseteq Dept
    BY DeptAssumption DEF DeptInit, Dept
  <2>2. /\ s \in Seq(S)
        /\ \A i, j \in DOMAIN s : i < j => s[i] < s[j]
        /\ \A d \in S : \E i \in DOMAIN s : s[i] = d
    BY <2>1, AscendingFact, DeptAssumption
  <2>. HIDE DEF s
  <2>3. DOMAIN s = 1 .. Len(s) /\ Len(s) \in Nat /\ 1 \in DOMAIN s
    <3>1. DOMAIN s = 1 .. Len(s) /\ Len(s) \in Nat /\ DOMAIN s # {}
      BY <1>1, <2>2
    <3>. QED  BY <3>1
  <2>4. s[1] \in S /\ parent[s[1]] \in S
    BY <1>1, <2>2, <2>3
  <2>5. parent[s[1]] < s[1]
    BY <2>1, <2>4 DEF DeptInit
  <2>6. PICK i \in DOMAIN s : s[i] = parent[s[1]]
    BY <2>2, <2>4
  <2>7. i = 1 \/ 1 < i
    BY <2>3
  <2>8. s[1] <= s[i]
    <3>1. s[1] \in Nat /\ s[i] \in Nat
      BY <2>1, <2>4, <2>6, RowFact
    <3>2. CASE i = 1
      BY <3>1, <3>2
    <3>3. CASE 1 < i
      <4>1. s[1] < s[i]
        BY <2>2, <2>3, <3>3
      <4>. QED  BY <3>1, <4>1
    <3>. QED  BY <2>7, <3>2, <3>3
  <2>9. s[1] \in Nat /\ s[i] \in Nat
    BY <2>1, <2>4, <2>6, RowFact
  <2>. QED  BY <2>5, <2>6, <2>8, <2>9
<1>2. \A p \in Proc : req[p].op # "move"
  BY DEF DeptInit, Idle
<1>. QED  BY <1>1, <1>2 DEF AcyclicOK, TreeIsAcyclic, Acyclic, MoveOK

LEMMA TreeFact ==
  ASSUME DeptTypes
  PROVE  /\ live \subseteq Dept /\ live \subseteq 1 .. born /\ parent \in [Dept -> Row] /\ born \in Nat
         /\ \A d \in Dept : d \in Nat /\ parent[d] <= born /\ parent[d] \in Nat
<1>1. live \subseteq 1 .. born /\ parent \in [Dept -> Row] /\ born \in 0 .. MaxDept /\ MaxDept \in Nat
      /\ \A d \in Dept : parent[d] <= born
  BY RowFact DEF DeptTypes, DeptTypeOK
<1>2. live \subseteq Dept
  BY <1>1 DEF Dept
<1>3. ASSUME NEW d \in Dept PROVE d \in Nat /\ parent[d] <= born /\ parent[d] \in Nat
  <2>1. parent[d] \in Row
    BY <1>1
  <2>. QED  BY <1>1, <2>1, RowFact
<1>4. born \in Nat
  BY <1>1
<1>. QED  BY <1>1, <1>2, <1>3, <1>4, Zenon

\* The second check of a move, under its locks, is enough although it walks only
\* as far as the rows it has locked (UpdateDept): where the walk leaves them it
\* has met a department younger than all it knows of.
LEMMA UpdateKeepsTree ==
  ASSUME DeptTypes, LocksOK, TreeIsAcyclic, NEW p \in Proc, MoveOK(p), UpdateDept(p)
  PROVE  TreeIsAcyclic'
<1> DEFINE r == req[p]
           A == Held(p)
<1>1. live' = live /\ live \subseteq Dept /\ parent \in [Dept -> Row] /\ \A d \in live : d \in Nat /\ parent[d] \in Nat
  BY TreeFact DEF UpdateDept
<1>2. CASE parent' = parent
  BY <1>1, <1>2 DEF TreeIsAcyclic, Acyclic
<1>3. CASE parent' = [parent EXCEPT ![r.dept] = r.parent] /\ r.dept \in A /\ ChainOK(r.dept, r.parent, A)
  <2> SUFFICES ASSUME NEW S \in SUBSET live, S # {}, \A d \in S : parent'[d] \in S
               PROVE  FALSE
    BY <1>1 DEF TreeIsAcyclic, Acyclic
  <2>1. \A d \in S : d # r.dept => parent'[d] = parent[d]
    BY <1>1, <1>3
  <2>2. r.dept \in S
    <3>1. CASE r.dept \notin S
      <4>1. \A d \in S : parent[d] \in S
        BY <2>1, <3>1
      <4>. QED  BY <4>1 DEF TreeIsAcyclic, Acyclic
    <3>. QED  BY <3>1
  <2>3. r.parent \in S /\ r.parent # Root
    <3>1. parent'[r.dept] = r.parent
      BY <1>1, <1>3, <2>2
    <3>. QED  BY <1>1, <2>2, <3>1, RowFact
  <2>4. PICK C \in SUBSET (A \ {r.dept}) : r.parent \in C /\ ClosedIn(C, A)
    BY <1>3, <2>3 DEF ChainOK
  <2> DEFINE U == {y \in live : y \notin A}
             T == {d \in S \cap C : \A y \in U : d < y}
  <2>5. \A y \in U : r.parent < y /\ \A e \in A \cap Dept : e < y => parent[e] < y
    <3>1. r.op = "move" /\ r.stage = "lock" /\ DOMAIN r.todo = {}
      BY <1>3 DEF UpdateDept, HasLocked
    <3>2. \A y \in live : \/ Listed(r, y) \/ y \in A
                          \/ /\ r.parent < y
                             /\ \A e \in A \cap Dept : e < y => parent[e] < y
      BY <3>1 DEF MoveOK
    <3>. QED  BY <3>1, <3>2 DEF Listed
  <2>6. r.parent \in T
    BY <2>3, <2>4, <2>5
  <2>7. ASSUME NEW d \in T PROVE parent[d] \in T
    <3>1. d \in S /\ d \in C /\ d \in A \cap Dept /\ d # r.dept
      BY <1>1, <2>4
    <3>2. parent[d] \in S
      BY <2>1, <3>1
    <3>3. \A y \in U : parent[d] < y
      BY <2>5, <3>1
    <3>4. parent[d] \notin U
      BY <1>1, <3>1, <3>3
    <3>5. parent[d] \in C
      BY <2>4, <3>1, <3>2, <3>4 DEF ClosedIn
    <3>. QED  BY <3>2, <3>3, <3>5
  <2>8. T \subseteq live /\ T # {}
    BY <2>6
  <2>. HIDE DEF T
  <2>. QED  BY <2>7, <2>8 DEF TreeIsAcyclic, Acyclic
<1>4. parent' = parent \/ (parent' = [parent EXCEPT ![r.dept] = r.parent] /\ r.dept \in A /\ ChainOK(r.dept, r.parent, A))
  BY DEF UpdateDept
<1>. QED  BY <1>2, <1>3, <1>4

\* A new department hangs below an older one.
LEMMA CreateKeepsTree ==
  ASSUME DeptTypes, TreeIsAcyclic, NEW p \in Proc, CreateDept(p)
  PROVE  TreeIsAcyclic'
<1>1. /\ live' = live \cup {born'} /\ parent' = [parent EXCEPT ![born'] = req[p].parent]
      /\ born' = born + 1 /\ born \in Nat /\ req[p].parent <= born /\ req[p].parent \in Nat
      /\ live \subseteq Dept /\ born' \in Dept /\ born' \notin live /\ parent \in [Dept -> Row]
      /\ \A d \in live : parent[d] <= born /\ parent[d] \in Nat
  <2>1. /\ live' = live \cup {born'} /\ parent' = [parent EXCEPT ![born'] = req[p].parent]
        /\ born' = born + 1 /\ born < MaxDept /\ req[p].op = "create"
    BY DEF CreateDept
  <2>2. born \in Nat /\ live \subseteq 1 .. born /\ parent \in [Dept -> Row] /\ born <= MaxDept /\ MaxDept \in Nat
    BY RowFact DEF DeptTypes, DeptTypeOK
  <2>3. live \subseteq Dept /\ born' \in Dept /\ born' \notin live
    BY <2>1, <2>2 DEF Dept
  <2>4. \A d \in live : parent[d] <= born /\ parent[d] \in Nat
    BY <2>2, <2>3, RowFact DEF DeptTypes
  <2>5. req[p].parent <= born /\ req[p].parent \in Nat
    BY <2>1, ParentFact DEF DeptTypes, StageOK
  <2>. QED  BY <2>1, <2>2, <2>3, <2>4, <2>5
<1> SUFFICES ASSUME NEW S \in SUBSET live', S # {}, \A d \in S : parent'[d] \in S
             PROVE  FALSE
  BY DEF TreeIsAcyclic, Acyclic
<1> DEFINE T == S \ {born'}
<1>2. \A d \in S : parent'[d] \in S /\ parent'[d] # born'
  <2> SUFFICES ASSUME NEW d \in S PROVE parent'[d] # born'
    OBVIOUS
  <2>1. parent'[d] <= born /\ parent'[d] \in Nat
    BY <1>1
  <2>. QED  BY <1>1, <2>1
<1>3. T \subseteq live /\ T # {}
  BY <1>1, <1>2
<1>4. \A d \in T : parent[d] \in T
  <2>1. \A d \in T : parent'[d] = parent[d]
    BY <1>1
  <2>. QED  BY <1>2, <2>1
<1>. HIDE DEF T
<1>. QED  BY <1>3, <1>4 DEF TreeIsAcyclic, Acyclic

LEMMA AcyclicStep == DeptTypes /\ LocksOK /\ AcyclicOK /\ [DeptNext]_deptVars => AcyclicOK'
<1> SUFFICES ASSUME DeptTypes, LocksOK, AcyclicOK, [DeptNext]_deptVars PROVE AcyclicOK'
  OBVIOUS
<1>1. CASE UNCHANGED deptVars
  BY <1>1 DEF deptVars, AcyclicOK, TreeIsAcyclic, Acyclic, MoveOK, Listed, Held
<1>2. ASSUME NEW p \in Proc, DeptStart(p) \/ DeptStep(p) PROVE AcyclicOK'
  <2> DEFINE Locking(q) == req[q].op = "move" /\ req[q].stage = "lock"
             Passed(q, L, P, H) == \A y \in L : \/ Listed(req[q], y) \/ y \in H
                                                \/ /\ req[q].parent < y
                                                   /\ \A e \in H \cap Dept : e < y => P[e] < y
  <2>1. ASSUME NEW q \in Proc \ {p}
        PROVE  Held(q)' = Held(q) /\ Same(req'[q], req[q])
    BY <1>2, FrameFact
  <2>2. /\ TreeIsAcyclic /\ \A q \in Proc : MoveOK(q)
        /\ live \subseteq Dept /\ live \subseteq 1 .. born /\ parent \in [Dept -> Row] /\ born \in Nat
        /\ \A d \in Dept : parent[d] <= born /\ parent[d] \in Nat
        /\ \A q \in Proc : Held(q) \cap Dept \subseteq live /\ req[q].parent \in Nat
    <3>1. TreeIsAcyclic /\ \A q \in Proc : MoveOK(q)
      BY DEF AcyclicOK
    <3>2. \A q \in Proc : Held(q) \cap Dept \subseteq live
      BY RowFact DEF LocksOK, RoleRow, Root
    <3>. HIDE DEF Held
    <3>. QED  BY <3>1, <3>2, TreeFact, ParentFact
  <2>3. ASSUME NEW q \in Proc \ {p}, Locking(q) => Passed(q, live', parent', Held(q))
        PROVE  MoveOK(q)'
    <3>. HIDE DEF Held
    <3>1. SUFFICES ASSUME Locking(q)'
                   PROVE  /\ \A y \in Dept : Listed(req'[q], y) \/ \A i \in DOMAIN req'[q].todo : y < req'[q].todo[i]
                          /\ \A y \in live' : \/ Listed(req'[q], y) \/ y \in Held(q)'
                                              \/ /\ req'[q].parent < y
                                                 /\ \A e \in Held(q)' \cap Dept : e < y => parent'[e] < y
      BY DEF MoveOK
    <3>2. /\ req'[q].todo = req[q].todo /\ req'[q].parent = req[q].parent /\ Held(q)' = Held(q) /\ Locking(q)
          /\ \A y : Listed(req'[q], y) <=> Listed(req[q], y)
      BY <2>1, <3>1 DEF Same, Listed
    <3>3. \A y \in Dept : Listed(req[q], y) \/ \A i \in DOMAIN req[q].todo : y < req[q].todo[i]
      BY <2>2, <3>2 DEF MoveOK
    <3>. QED  BY <2>3, <3>2, <3>3
  <2>4. ASSUME NEW q \in Proc, Locking(q) PROVE Passed(q, live, parent, Held(q))
    BY <2>2, <2>4 DEF MoveOK
  <2>5. ASSUME TreeIsAcyclic', MoveOK(p)', \A q \in Proc \ {p} : Locking(q) => Passed(q, live', parent', Held(q))
        PROVE  AcyclicOK'
    BY <2>3, <2>5 DEF AcyclicOK
  <2>6. CASE CreateDept(p)
    <3>1. TreeIsAcyclic'
      BY <2>2, <2>6, CreateKeepsTree
    <3>2. MoveOK(p)'
      BY <2>6, IdleAfter DEF GoesOn, Same, Idle, MoveOK
    <3>3. live' = live \cup {born'} /\ born' = born + 1 /\ parent' = [parent EXCEPT ![born'] = req[p].parent]
      BY <2>6 DEF CreateDept
    <3>4. ASSUME NEW q \in Proc \ {p}, Locking(q) PROVE Passed(q, live', parent', Held(q))
      <4>1. \A e \in Held(q) \cap Dept : parent'[e] = parent[e] /\ parent[e] <= born /\ parent[e] \in Nat
        <5>1. \A e \in live : e # born'
          BY <2>2, <3>3
        <5>. HIDE DEF Held
        <5>. QED  BY <2>2, <3>3, <5>1
      <4>2. req[q].parent <= born /\ req[q].parent \in Nat
        BY <2>2, <3>4 DEF DeptTypes, StageOK
      <4>. HIDE DEF Held
      <4>3. ASSUME NEW y \in live
            PROVE \/ Listed(req[q], y) \/ y \in Held(q)
                  \/ req[q].parent < y /\ \A e \in Held(q) \cap Dept : e < y => parent'[e] < y
        BY <2>4, <3>4, <4>1
      <4>4. req[q].parent < born' /\ \A e \in Held(q) \cap Dept : e < born' => parent'[e] < born'
        BY <2>2, <3>3, <4>1, <4>2
      <4>. QED  BY <3>3, <4>3, <4>4
    <3>. QED  BY <2>5, <3>1, <3>2, <3>4
  <2>7. CASE UpdateDept(p)
    <3>1. TreeIsAcyclic' /\ live' = live
      BY <2>2, <2>7, UpdateKeepsTree DEF UpdateDept
    <3>2. MoveOK(p)'
      BY <2>7, IdleAfter DEF GoesOn, Same, Idle, MoveOK
    <3>3. ASSUME NEW q \in Proc \ {p}, Locking(q) PROVE Passed(q, live', parent', Held(q))
      <4>1. \A e \in Held(q) \cap Dept : parent'[e] = parent[e]
        <5>1. parent' = parent \/ (parent' = [parent EXCEPT ![req[p].dept] = req[p].parent] /\ req[p].dept \in Held(p))
          BY <2>7 DEF UpdateDept
        <5>2. Held(p) \cap Held(q) = {}
          BY HeldFact
        <5>. HIDE DEF Held
        <5>. QED  BY <2>2, <5>1, <5>2
      <4>. HIDE DEF Held
      <4>. QED  BY <2>4, <3>1, <3>3, <4>1
    <3>. QED  BY <2>5, <3>1, <3>2, <3>3
  <2>8. CASE DeleteDepts(p)
    <3>1. live' \subseteq live /\ parent' = parent
      BY <2>8 DEF DeleteDepts
    <3>2. TreeIsAcyclic'
      BY <2>2, <3>1 DEF TreeIsAcyclic, Acyclic
    <3>3. MoveOK(p)'
      BY <2>8, IdleAfter DEF GoesOn, Same, Idle, MoveOK
    <3>4. ASSUME NEW q \in Proc \ {p}, Locking(q) PROVE Passed(q, live', parent', Held(q))
      <4>. HIDE DEF Held
      <4>. QED  BY <2>4, <3>1, <3>4
    <3>. QED  BY <2>5, <3>2, <3>3, <3>4
  <2>9. CASE UNCHANGED <<born, live, parent, raced>>
    <3>1. TreeIsAcyclic'
      BY <2>2, <2>9 DEF TreeIsAcyclic, Acyclic
    <3>2. ASSUME NEW q \in Proc \ {p}, Locking(q) PROVE Passed(q, live', parent', Held(q))
      <4>. HIDE DEF Held
      <4>. QED  BY <2>4, <2>9, <3>2
    <3>3. MoveOK(p)'
      <4>. HIDE DEF Held
      <4> SUFFICES ASSUME Locking(p)'
                   PROVE  /\ \A y \in Dept : Listed(req'[p], y) \/ \A i \in DOMAIN req'[p].todo : y < req'[p].todo[i]
                          /\ \A y \in live : \/ Listed(req'[p], y) \/ y \in Held(p)'
                                             \/ /\ req'[p].parent < y
                                                /\ \A e \in Held(p)' \cap Dept : e < y => parent[e] < y
        BY <2>9 DEF MoveOK
      <4>1. CASE req'[p].todo = Ascending(Dept)
        BY <2>2, <4>1, AscendingDept DEF Listed
      <4>2. CASE /\ Locking(p) /\ req[p].todo \in Seq(Dept) /\ req[p].todo # <<>> /\ req'[p].todo = Tail(req[p].todo)
                 /\ req'[p].parent = req[p].parent
                 /\ \/ Head(req[p].todo) \in live /\ Held(p)' = Held(p) \cup {Head(req[p].todo)}
                    \/ Head(req[p].todo) \notin live /\ Held(p)' = Held(p)
        <5> DEFINE t == req[p].todo
                   d == Head(t)
        <5>1. /\ \A i \in DOMAIN Tail(t) : i + 1 \in DOMAIN t /\ Tail(t)[i] = t[i + 1]
              /\ \A i \in DOMAIN t : t[i] = d \/ \E j \in DOMAIN Tail(t) : Tail(t)[j] = t[i]
              /\ 1 \in DOMAIN t /\ t[1] = d /\ d \in Dept
              /\ (\A i, j \in DOMAIN t : i < j => t[i] < t[j]) => \A i \in DOMAIN Tail(t) : d < Tail(t)[i]
          BY <4>2, TailFact
        <5>2. \A i \in DOMAIN Tail(t) : d < Tail(t)[i]
          <6>1. \A i, j \in DOMAIN t : i < j => t[i] < t[j]
            BY <4>2 DEF LocksOK, LockOK
          <6>. QED  BY <5>1, <6>1
        <5>3. req'[p].todo = Tail(t) /\ \A y : Listed(req[p], y) => y = d \/ Listed(req'[p], y)
          BY <4>2, <5>1 DEF Listed
        <5>4. /\ \A y \in Dept : Listed(req[p], y) \/ \A i \in DOMAIN t : y < t[i]
              /\ Passed(p, live, parent, Held(p))
          BY <2>2, <2>4, <4>2 DEF MoveOK
        <5>. HIDE DEF t, d
        <5>5. ASSUME NEW y \in Dept PROVE Listed(req'[p], y) \/ \A i \in DOMAIN Tail(t) : y < Tail(t)[i]
          <6>1. CASE Listed(req[p], y)
            BY <5>2, <5>3, <6>1
          <6>2. CASE \A i \in DOMAIN t : y < t[i]
            BY <5>1, <6>2
          <6>. QED  BY <5>4, <6>1, <6>2
        <5>6. ASSUME NEW y \in live
              PROVE  \/ Listed(req'[p], y) \/ y \in Held(p)'
                     \/ req[p].parent < y /\ \A e \in Held(p)' \cap Dept : e < y => parent[e] < y
          <6>1. CASE Listed(req[p], y)
            BY <4>2, <5>3, <6>1 DEF d, t
          <6>2. CASE y \in Held(p)
            BY <4>2, <6>2
          <6>3. CASE ~ Listed(req[p], y) /\ y \notin Held(p)
            <7>1. req[p].parent < y /\ \A e \in Held(p) \cap Dept : e < y => parent[e] < y
              BY <5>4, <6>3
            <7>2. ~ (d < y)
              <8>1. y < d /\ y \in Nat /\ d \in Nat
                BY <2>2, <5>1, <5>4, <6>3, RowFact
              <8>. QED  BY <8>1
            <7>3. Held(p)' \subseteq Held(p) \cup {d}
              BY <4>2 DEF d, t
            <7>. QED  BY <7>1, <7>2, <7>3
          <6>. QED  BY <6>1, <6>2, <6>3
        <5>. QED  BY <4>2, <5>3, <5>5, <5>6
      <4>. QED  BY <1>2, <4>1, <4>2, MovingFact
    <3>. QED  BY <2>5, <3>1, <3>2, <3>3
  <2>. QED  BY <1>2, <2>6, <2>7, <2>8, <2>9, FrameFact
<1>. QED  BY <1>1, <1>2 DEF DeptNext

\* No department is ever below itself, for any number of departments and of
\* overlapping moves, creations and deletions (validateDeptParentChain,
\* UpdateDept).
THEOREM TreeStaysAcyclic == DeptSpec => []TreeIsAcyclic
<1>1. DeptSpec => []AcyclicOK
  BY DeptLocksAlways, AcyclicInit, AcyclicStep, PTL DEF DeptSpec
<1>2. AcyclicOK => TreeIsAcyclic
  BY DEF AcyclicOK
<1>. QED  BY <1>1, <1>2, PTL

-----------------------------------------------------------------------------
(* Walks down the tree.                                                    *)

\* A walk that stays quiet has not seen the tree change.
LEMMA QuietFact ==
  ASSUME DeptTypes, NEW p \in Proc, DeptStart(p) \/ DeptStep(p),
         NEW q \in Proc, req[q].op = "query", req'[q].op = "query", req'[q].quiet
  PROVE  req[q].quiet /\ UNCHANGED <<live, parent>>
<1>1. req \in [Proc -> Request] /\ Idle \in Request /\ Idle.op = "none"
  BY IdleFact DEF DeptTypes, DeptTypeOK, Idle
<1>2. ASSUME req' = Noticed([req EXCEPT ![p] = Idle]) PROVE FALSE
  <2> DEFINE r == [req EXCEPT ![p] = Idle]
  <2>1. r \in [Proc -> Request] /\ r[q] = IF q = p THEN Idle ELSE req[q]
    BY <1>1
  <2>. HIDE DEF r
  <2>2. Noticed(r)[q].op = r[q].op /\ (r[q].op = "query" => Noticed(r)[q].quiet = FALSE)
    BY <2>1, NoticedFact
  <2>3. req'[q].op = r[q].op /\ (r[q].op = "query" => req'[q].quiet = FALSE)
    BY <1>2, <2>2 DEF r
  <2>. QED  BY <2>3
<1>3. ~ CreateDept(p) /\ ~ DeleteDepts(p) /\ ~ UpdateDataScope(p)
  BY <1>2 DEF CreateDept, DeleteDepts, UpdateDataScope
<1>4. UpdateDept(p) => Finish(p) /\ UNCHANGED <<live, parent>>
  BY <1>2 DEF UpdateDept
<1>5. UNCHANGED <<live, parent>>
  <2>1. DeptStart(p) => UNCHANGED <<live, parent>>
    BY DEF DeptStart, StartCreate, StartMove, StartDelete, StartScope, StartQuery
  <2>2. DeptStep(p) => UNCHANGED <<live, parent>>
    BY <1>3, <1>4, Zenon DEF DeptStep, WalkUp, LockRow, CheckChildren, LockRole, ReadRoles, ReadLevel,
           Answer, Victim
  <2>. QED  BY <2>1, <2>2
<1>6. CASE q # p
  <2>1. Finish(p) => req'[q] = req[q]
    BY <1>1, <1>6 DEF Finish
  <2>2. DeptStart(p) => req'[q] = req[q]
    BY <1>1, <1>6 DEF DeptStart, StartCreate, StartMove, StartDelete, StartScope, StartQuery
  <2>3. WalkUp(p) => req'[q] = req[q]
    BY <1>1, <1>6, <2>1 DEF WalkUp
  <2>4. LockRow(p) => req'[q] = req[q]
    BY <1>1, <1>6, <2>1 DEF LockRow
  <2>5. CheckChildren(p) \/ LockRole(p) => req'[q] = req[q]
    BY <1>1, <1>6, <2>1 DEF CheckChildren, LockRole, To
  <2>6. ReadRoles(p) => req'[q] = req[q]
    BY <1>1, <1>6 DEF ReadRoles
  <2>7. ReadLevel(p) => req'[q] = req[q]
    BY <1>1, <1>6 DEF ReadLevel
  <2>8. Answer(p) \/ Victim(p) => req'[q] = req[q]
    BY <2>1 DEF Answer, Victim
  <2>9. req'[q] = req[q]
    BY <1>3, <1>4, <2>1, <2>2, <2>3, <2>4, <2>5, <2>6, <2>7, <2>8 DEF DeptStep
  <2>. QED  BY <1>5, <2>9
<1>7. CASE q = p
  <2>1. ~ Finish(p)
    BY <1>1, <1>7 DEF Finish
  <2>2. ~ DeptStart(p)
    BY <1>1, <1>7 DEF DeptStart, StartCreate, StartMove, StartDelete, StartScope, StartQuery, Begins
  <2>3. StageOK(req[p], born)
    BY DEF DeptTypes
  <2>4. ~ WalkUp(p) /\ ~ LockRow(p) /\ ~ CheckChildren(p) /\ ~ LockRole(p) /\ ~ UpdateDept(p)
    <3>1. ~ WalkUp(p) /\ ~ CheckChildren(p) /\ ~ UpdateDept(p)
      BY <1>7 DEF WalkUp, CheckChildren, UpdateDept, HasLocked
    <3>2. req[p].stage # "lock" /\ req[p].stage # "role"
      BY <1>7, <2>3 DEF StageOK
    <3>. QED  BY <3>1, <3>2, Zenon DEF LockRow, LockRole
  <2>5. ReadRoles(p) => req'[p].quiet = req[p].quiet
    <3> SUFFICES ASSUME ReadRoles(p) PROVE req'[p].quiet = req[p].quiet
      OBVIOUS
    <3> DEFINE a == OwnScope(req[p].scopes, req[p].dept)
               b == IF Below(req[p]) THEN {req[p].dept} ELSE {}
               d == IF Below(req[p]) THEN "level" ELSE "answer"
    <3>1. req' = [req EXCEPT ![p] = [req[p] EXCEPT !.found = a, !.seen = b, !.cur = b, !.stage = d]]
      BY <1>1 DEF ReadRoles, Below
    <3>. HIDE DEF a, b, d
    <3>. QED  BY <1>1, <3>1 DEF Request
  <2>6. ReadLevel(p) => req'[p].quiet = req[p].quiet
    <3> SUFFICES ASSUME ReadLevel(p) PROVE req'[p].quiet = req[p].quiet
      OBVIOUS
    <3>1. PICK b, c, d : req' = [req EXCEPT ![p] = [req[p] EXCEPT !.seen = b, !.cur = c, !.stage = d]]
      BY <1>1 DEF ReadLevel
    <3>. QED  BY <1>1, <3>1 DEF Request
  <2>7. ReadRoles(p) \/ ReadLevel(p)
    BY <1>3, <2>1, <2>2, <2>4 DEF DeptStep, Answer, Victim
  <2>. QED  BY <1>5, <1>7, <2>5, <2>6, <2>7
<1>. QED  BY <1>6, <1>7

\* Only the two statements of a query take it to its levels and its answer.
LEMMA QueryingFact ==
  ASSUME DeptTypes, NEW p \in Proc, DeptStart(p) \/ DeptStep(p),
         req'[p].op = "query", req'[p].stage \in {"level", "answer"}
  PROVE  req[p].op = "query" /\ (ReadRoles(p) \/ ReadLevel(p))
<1>0. req[p] \in Request /\ StageOK(req[p], born)
  BY ParentFact DEF DeptTypes
<1>1. \A x : GoesOn(p, x) => x.op = "query" /\ x.stage \in {"level", "answer"}
  BY DEF GoesOn, Same
<1>2. ~ GoesOn(p, Idle)
  BY <1>1 DEF Idle
<1>3. ~ DeptStart(p)
  BY StartFact DEF DeptStart, GoesOn, Same, Idle
<1>4. ~ WalkUp(p)
  <2> SUFFICES ASSUME WalkUp(p) PROVE FALSE
    OBVIOUS
  <2>0. req[p].op = "move"
    BY DEF WalkUp
  <2>1. ~ GoesOn(p, [req[p] EXCEPT !.stage = "lock", !.todo = Ascending(Dept), !.cur = {}, !.seen = {}])
    <3> DEFINE x == [req[p] EXCEPT !.stage = "lock", !.todo = Ascending(Dept), !.cur = {}, !.seen = {}]
    <3>1. x.op = "move"
      BY <1>0, <2>0 DEF Request
    <3>. HIDE DEF x
    <3>2. ~ GoesOn(p, x)
      BY <1>1, <3>1
    <3>. QED  BY <3>2 DEF x
  <2>2. \A c : ~ GoesOn(p, [req[p] EXCEPT !.cur = {parent[c]}, !.seen = req[p].seen \cup {c}])
    <3> TAKE c
    <3> DEFINE x == [req[p] EXCEPT !.cur = {parent[c]}, !.seen = req[p].seen \cup {c}]
    <3>1. x.op = "move"
      BY <1>0, <2>0 DEF Request
    <3>. HIDE DEF x
    <3>2. ~ GoesOn(p, x)
      BY <1>1, <3>1
    <3>. QED  BY <3>2 DEF x
  <2>. QED  BY <1>2, <2>1, <2>2, WalkAfter, Zenon
<1>5. ~ LockRow(p)
  <2> SUFFICES ASSUME LockRow(p) PROVE FALSE
    OBVIOUS
  <2>1. GoesOn(p, [req[p] EXCEPT !.todo = Tail(req[p].todo)]) /\ req[p].stage = "lock"
    BY <1>2, LockAfter
  <2>2. [req[p] EXCEPT !.todo = Tail(req[p].todo)].stage = "lock"
    BY <1>0, <2>1 DEF Request
  <2>. QED  BY <2>1, <2>2 DEF GoesOn, Same
<1>6. ~ LockRole(p)
  <2>1. [req[p] EXCEPT !.stage = "lock"].stage = "lock"
    BY <1>0 DEF Request
  <2>. QED  BY <2>1, LockRoleAfter DEF GoesOn, Same
<1>7. ~ CheckChildren(p)
  <2> SUFFICES ASSUME CheckChildren(p) PROVE FALSE
    OBVIOUS
  <2>1. [req[p] EXCEPT !.stage = "write"].stage = "write"
    BY <1>0 DEF Request
  <2>. QED  BY <1>2, <2>1, IdleAfter DEF GoesOn, Same
<1>8. ReadRoles(p) \/ ReadLevel(p)
  BY <1>2, <1>3, <1>4, <1>5, <1>6, <1>7, IdleAfter DEF DeptStep
<1>. QED  BY <1>8, Zenon DEF ReadRoles, ReadLevel

\* A quiet walk from department d that has seen the set S, the last level of it
\* being the set C: all of S lies below d, and no child of the older levels is
\* missing.
WalkedOK(d, S, C) ==
  /\ d \in S /\ C \subseteq S
  /\ \A s \in S \ {d} : s \in live /\ OnPath(s, d, live \cup {d})
  /\ \A e \in live : parent[e] \in S \ C => e \in S

WalkOK(p) ==
  LET r == req[p] IN
  (r.op = "query" /\ r.quiet /\ Below(r)) =>
    /\ r.stage \in {"level", "answer"} => WalkedOK(r.dept, r.seen, r.cur)
    /\ r.stage = "answer" => r.cur = {}

WalksOK == \A p \in Proc : WalkOK(p)

LEMMA WalksInit == DeptInit => WalksOK
BY DEF DeptInit, Idle, WalksOK, WalkOK

\* The next level of a walk.
LEMMA LevelFact ==
  ASSUME DeptTypes, NEW d \in Dept, NEW S \in SUBSET Dept, NEW C \in SUBSET S, WalkedOK(d, S, C)
  PROVE  WalkedOK(d, S \cup (Children(C) \ S), Children(C) \ S)
<1> DEFINE N == Children(C) \ S
           L == live \cup {d}
<1>1. \A e \in N : e \in live /\ parent[e] \in C /\ e \notin S
  BY DEF Children
<1>2. ASSUME NEW e \in live, parent[e] \in (S \cup N) \ N PROVE e \in S \cup N
  <2>1. parent[e] \in S
    BY <1>2
  <2>2. CASE parent[e] \in C
    BY <2>2 DEF Children
  <2>3. CASE parent[e] \notin C
    BY <2>1, <2>3 DEF WalkedOK
  <2>. QED  BY <2>2, <2>3
<1>3. ASSUME NEW e \in N PROVE OnPath(e, d, L)
  <2> SUFFICES ASSUME NEW K \in SUBSET L, e \in K, ClosedIn(K, L) PROVE d \in K
    BY DEF OnPath
  <2>1. parent[e] \in S /\ parent[e] \in L
    BY <1>1, <1>3 DEF WalkedOK
  <2>2. parent[e] \in K
    BY <2>1 DEF ClosedIn
  <2>3. CASE parent[e] = d
    BY <2>2, <2>3
  <2>4. CASE parent[e] # d
    <3>1. OnPath(parent[e], d, L)
      BY <2>1, <2>4 DEF WalkedOK
    <3>. QED  BY <2>2, <3>1 DEF OnPath
  <2>. QED  BY <2>3, <2>4
<1>4. \A s \in (S \cup N) \ {d} : s \in live /\ OnPath(s, d, L)
  BY <1>1, <1>3 DEF WalkedOK
<1>5. d \in S \cup N
  BY DEF WalkedOK
<1>. HIDE DEF N
<1>6. WalkedOK(d, S \cup N, N)
  BY <1>2, <1>4, <1>5 DEF WalkedOK
<1>. QED  BY <1>6 DEF N

\* A walk that has no further level has seen all that is below.
LEMMA WalkedAll ==
  ASSUME DeptTypes, NEW d \in Dept, NEW S \in SUBSET Dept, WalkedOK(d, S, {})
  PROVE  S = Descendants(d) \cup {d}
<1> DEFINE L == live \cup {d}
<1>1. S \subseteq Descendants(d) \cup {d} /\ d \in S
  BY DEF WalkedOK, Descendants
<1>2. ASSUME NEW e \in Descendants(d), e \notin S PROVE FALSE
  <2> DEFINE K == L \ S
  <2>1. e \in live /\ e \in K /\ OnPath(e, d, L)
    BY <1>2 DEF Descendants
  <2>2. ClosedIn(K, L)
    <3> SUFFICES ASSUME NEW x \in K, parent[x] \in L, parent[x] \in S PROVE FALSE
      BY DEF ClosedIn
    <3>1. x \in live
      BY <1>1
    <3>. QED  BY <3>1 DEF WalkedOK
  <2>3. d \in K
    BY <2>1, <2>2 DEF OnPath
  <2>. QED  BY <1>1, <2>3
<1>. QED  BY <1>1, <1>2

LEMMA WalksStep == DeptTypes /\ WalksOK /\ [DeptNext]_deptVars => WalksOK'
<1> SUFFICES ASSUME DeptTypes, WalksOK, [DeptNext]_deptVars PROVE WalksOK'
  OBVIOUS
<1>1. CASE UNCHANGED deptVars
  BY <1>1 DEF deptVars, WalksOK, WalkOK, WalkedOK, OnPath, ClosedIn
<1>2. ASSUME NEW p \in Proc, DeptStart(p) \/ DeptStep(p), NEW q \in Proc PROVE WalkOK(q)'
  <2> SUFFICES ASSUME req'[q].op = "query", req'[q].quiet, Below(req'[q]), req'[q].stage \in {"level", "answer"}
               PROVE  /\ WalkedOK(req[q].dept, req[q].seen, req[q].cur)'
                      /\ req'[q].stage = "answer" => req'[q].cur = {}
    BY DEF WalkOK
  <2>1. ASSUME req[q].op = "query", WalkedOK(req'[q].dept, req'[q].seen, req'[q].cur)
        PROVE  WalkedOK(req[q].dept, req[q].seen, req[q].cur)'
    <3>1. UNCHANGED <<live, parent>>
      BY <1>2, <2>1, QuietFact
    <3>. QED  BY <2>1, <3>1 DEF WalkedOK, OnPath, ClosedIn
  <2>2. CASE q # p
    <3>1. Same(req'[q], req[q])
      BY <1>2, <2>2, FrameFact
    <3>2. /\ req[q].op = "query" /\ Below(req[q]) /\ req[q].stage \in {"level", "answer"}
          /\ req'[q].dept = req[q].dept /\ req'[q].seen = req[q].seen /\ req'[q].cur = req[q].cur
          /\ req'[q].stage = req[q].stage
      BY <3>1 DEF Same, Below
    <3>3. req[q].quiet
      BY <1>2, <3>2, QuietFact
    <3>4. WalkedOK(req[q].dept, req[q].seen, req[q].cur) /\ (req[q].stage = "answer" => req[q].cur = {})
      BY <3>2, <3>3 DEF WalksOK, WalkOK
    <3>. QED  BY <2>1, <3>2, <3>4
  <2>3. CASE q = p
    <3>1. req[p].op = "query" /\ (ReadRoles(p) \/ ReadLevel(p))
      BY <1>2, <2>3, QueryingFact
    <3>2. req[p].quiet
      BY <1>2, <2>3, <3>1, QuietFact
    <3>3. req[p] \in Request /\ live \subseteq Dept
      BY ParentFact, TreeFact
    <3>4. ASSUME NEW s \in SUBSET Dept, NEW c \in SUBSET Dept, NEW g \in {"level", "answer"},
                 GoesOn(p, [req[p] EXCEPT !.seen = s, !.cur = c, !.stage = g])
          PROVE  /\ req'[p].dept = req[p].dept /\ req'[p].seen = s /\ req'[p].cur = c /\ req'[p].stage = g
                 /\ Below(req[p])
      <4> DEFINE x == [req[p] EXCEPT !.seen = s, !.cur = c, !.stage = g]
      <4>1. x.dept = req[p].dept /\ x.seen = s /\ x.cur = c /\ x.stage = g /\ x.scopes = req[p].scopes
        BY <3>3 DEF Request
      <4>. HIDE DEF x
      <4>2. Same(req'[p], x)
        BY <3>4 DEF GoesOn, x
      <4>. QED  BY <2>3, <4>1, <4>2 DEF Same, Below
    <3>5. CASE ReadRoles(p)
      <4> DEFINE b == IF Below(req[p]) THEN {req[p].dept} ELSE {}
                 g == IF Below(req[p]) THEN "level" ELSE "answer"
      <4>1. GoesOn(p, [req[p] EXCEPT !.seen = b, !.cur = b, !.stage = g])
        BY <3>5, QueryAfter
      <4>2. b \in SUBSET Dept /\ g \in {"level", "answer"}
        BY <3>3, RowFact DEF Below, Request
      <4>. HIDE DEF b, g
      <4>3. req'[p].dept = req[p].dept /\ req'[p].seen = b /\ req'[p].cur = b /\ req'[p].stage = g /\ Below(req[p])
        BY <3>4, <4>1, <4>2
      <4>4. b = {req[p].dept} /\ g = "level"
        BY <4>3 DEF b, g
      <4>5. WalkedOK(req[p].dept, {req[p].dept}, {req[p].dept})
        BY DEF WalkedOK
      <4>. QED  BY <2>1, <2>3, <3>1, <4>3, <4>4, <4>5
    <3>6. CASE ReadLevel(p)
      <4> DEFINE n == Children(req[p].cur) \ req[p].seen
                 g == IF n = {} THEN "answer" ELSE "level"
      <4>1. GoesOn(p, [req[p] EXCEPT !.seen = req[p].seen \cup n, !.cur = n, !.stage = g])
        BY <3>6, QueryAfter DEF NextLevel
      <4>2. n \in SUBSET Dept /\ req[p].seen \in SUBSET Dept /\ g \in {"level", "answer"}
        BY <3>3 DEF Children, Request
      <4>. HIDE DEF n, g
      <4>3. /\ req'[p].dept = req[p].dept /\ req'[p].seen = req[p].seen \cup n /\ req'[p].cur = n
            /\ req'[p].stage = g /\ Below(req[p])
        BY <3>4, <4>1, <4>2
      <4>4. WalkedOK(req[p].dept, req[p].seen, req[p].cur) /\ req[p].dept \in Dept
        <5>1. req[p].stage = "level"
          BY <3>6, Zenon DEF ReadLevel
        <5>2. WalkedOK(req[p].dept, req[p].seen, req[p].cur)
          BY <3>1, <3>2, <4>3, <5>1 DEF WalksOK, WalkOK
        <5>. QED  BY <3>3, <4>3, <5>2, RowFact DEF Below, Request
      <4>5. WalkedOK(req[p].dept, req[p].seen \cup n, n)
        <5>1. req[p].cur \in SUBSET req[p].seen
          BY <4>4 DEF WalkedOK
        <5>. QED  BY <4>2, <4>4, <5>1, LevelFact DEF n
      <4>6. g = "answer" => n = {}
        BY DEF g
      <4>. QED  BY <2>1, <2>3, <3>1, <4>3, <4>5, <4>6
    <3>. QED  BY <3>1, <3>5, <3>6
  <2>. QED  BY <2>2, <2>3
<1>. QED  BY <1>1, <1>2 DEF DeptNext, WalksOK

LEMMA WalksFound == DeptTypes /\ WalksOK => WalkFindsSubtree
<1> SUFFICES ASSUME DeptTypes, WalksOK, NEW p \in Proc, req[p].op = "query", req[p].stage = "answer",
                    req[p].quiet, "deptAndChild" \in req[p].scopes, req[p].dept # Root
             PROVE  req[p].seen = Descendants(req[p].dept) \cup {req[p].dept}
  BY DEF WalkFindsSubtree
<1>1. WalkedOK(req[p].dept, req[p].seen, {})
  BY DEF WalksOK, WalkOK, Below
<1>2. req[p].dept \in Dept /\ req[p].seen \in SUBSET Dept
  BY ParentFact, RowFact DEF Request
<1>. QED  BY <1>1, <1>2, WalkedAll

\* What a user may see below his department is exactly its subtree, for a tree of
\* any shape, when nothing changes the tree between the first level and the last
\* (childDeptIDs, ChildDeptIDs).
THEOREM WalksFind == DeptSpec => []WalkFindsSubtree
<1>1. DeptSpec => [](DeptTypes /\ WalksOK)
  BY DeptTypesInit, DeptTypesStep, WalksInit, WalksStep, PTL DEF DeptSpec
<1>. QED  BY <1>1, WalksFound, PTL

-----------------------------------------------------------------------------
(* Users.                                                                  *)

\* The posts of user u in a relation.
PostsIn(relation, u) == {q \in Post : <<u, q>> \in relation}

UHeld(p) == {u \in UserId : uLock[u] = p}

UserStages == {"idle", "name", "posts", "write", "lock", "row", "found"}

UserRequest ==
  [op : {"none", "create", "update", "delete", "import"}, stage : UserStages,
   user : UserId \cup {Nobody}, name : Username \cup {None},
   posts : SUBSET Post, todo : SUBSET Post, had : SUBSET Post,
   ids : Seq(UserId), sheet : Seq(Username), added : SUBSET Username]

\* A request r with the locks H: which stages its operation has, what it must have
\* locked, and that a deletion locks upwards.
UserReqOK(r, H) ==
  /\ r \in UserRequest /\ IsFiniteSet(r.added)
  /\ r.op = "none" => r.stage = "idle"
  /\ r.op = "create" => r.stage = "posts"
  /\ r.op = "update" => r.stage \in {"name", "posts", "write"}
  /\ r.op = "delete" => r.stage = "lock"
  /\ r.op = "import" => r.stage \in {"row", "found"}
  /\ r.stage = "found" => r.sheet # <<>>
  /\ r.op \in {"none", "create"} \/ (r.op = "update" /\ r.stage # "write") => H = {}
  /\ r.stage = "write" => r.user \in H
  /\ r.op = "delete" => /\ \A i, j \in DOMAIN r.ids : i < j => r.ids[i] < r.ids[j]
                        /\ \A h \in H, i \in DOMAIN r.ids : h < r.ids[i]

UserTablesOK ==
  /\ uBorn \in 0 .. MaxUser
  /\ uLive \subseteq 1 .. uBorn
  /\ uName \in [UserId -> Username \cup {None}]
  /\ uColumn \in [UserId -> SUBSET Post]
  /\ uPost \subseteq UserId \X Post
  /\ postOn \subseteq Post
  /\ \A u \in UserId \ uLive : uColumn[u] = {}
  /\ UserPostsAgree

\* An edit that is about to write has locked the user and knows his posts.
UsersOK ==
  /\ UserTablesOK
  /\ uLock \in [UserId -> Proc \cup {None}]
  /\ uReq \in [Proc -> UserRequest]
  /\ \A p \in Proc : UHeld(p) \subseteq uLive /\ UserReqOK(uReq[p], UHeld(p))
  /\ \A p \in Proc : uReq[p].stage = "write" => uReq[p].had = PostsIn(uPost, uReq[p].user)

LEMMA UserIdleFact == UserReqOK(UserIdle, {}) /\ UserIdle.stage = "idle"
<1>1. UserIdle \in UserRequest
  BY DEF UserIdle, UserRequest, UserStages
<1>2. IsFiniteSet({})
  BY FS_EmptySet
<1>. QED  BY <1>1, <1>2 DEF UserReqOK, UserIdle

\* What one request does to the locks.
LEMMA UHeldFact ==
  ASSUME UsersOK, NEW p \in Proc
  PROVE  /\ \A q \in Proc \ {p} : UHeld(p) \cap UHeld(q) = {}
         /\ uLock' = uLock => \A q \in Proc : UHeld(q)' = UHeld(q)
         /\ uLock' = Unlocked(p) => UHeld(p)' = {} /\ \A q \in Proc \ {p} : UHeld(q)' = UHeld(q)
         /\ uLock' = Unlocked(p) \/ uLock' = uLock => uLock' \in [UserId -> Proc \cup {None}]
         /\ \A u \in UserId : UserFree(u, p) /\ uLock' = [uLock EXCEPT ![u] = p] =>
              /\ uLock' \in [UserId -> Proc \cup {None}]
              /\ UHeld(p)' = UHeld(p) \cup {u} /\ \A q \in Proc \ {p} : UHeld(q)' = UHeld(q)
<1>1. uLock \in [UserId -> Proc \cup {None}] /\ None \notin Proc
  BY RequestsAssumption DEF UsersOK
<1>2. \A q \in Proc \ {p} : UHeld(p) \cap UHeld(q) = {}
  BY DEF UHeld
<1>3. uLock' = uLock => \A q \in Proc : UHeld(q)' = UHeld(q)
  BY DEF UHeld
<1>4. ASSUME uLock' = Unlocked(p)
      PROVE  /\ UHeld(p)' = {} /\ \A q \in Proc \ {p} : UHeld(q)' = UHeld(q)
             /\ uLock' \in [UserId -> Proc \cup {None}]
  <2>1. \A u \in UserId : uLock'[u] = IF uLock[u] = p THEN None ELSE uLock[u]
    BY <1>4 DEF Unlocked
  <2>2. uLock' \in [UserId -> Proc \cup {None}]
    BY <1>1, <1>4 DEF Unlocked
  <2>. QED  BY <1>1, <2>1, <2>2 DEF UHeld
<1>5. ASSUME NEW u \in UserId, UserFree(u, p), uLock' = [uLock EXCEPT ![u] = p]
      PROVE  /\ uLock' \in [UserId -> Proc \cup {None}]
             /\ UHeld(p)' = UHeld(p) \cup {u} /\ \A q \in Proc \ {p} : UHeld(q)' = UHeld(q)
  BY <1>1, <1>5 DEF UHeld, UserFree
<1>. QED  BY <1>1, <1>2, <1>3, <1>4, <1>5

\* A step of p keeps the invariant when it keeps the tables in order, leaves the
\* others their rows and their posts, and goes on to a possible request.
LEMMA UserGoesOn ==
  ASSUME UsersOK, NEW p \in Proc, NEW x,
         uReq' = [uReq EXCEPT ![p] = x],
         UserTablesOK', uLock' \in [UserId -> Proc \cup {None}],
         UserReqOK(x, UHeld(p)'), UHeld(p)' \subseteq uLive',
         x.stage = "write" => x.had = PostsIn(uPost', x.user),
         \A q \in Proc \ {p} : /\ UHeld(q)' = UHeld(q) /\ UHeld(q) \subseteq uLive'
                               /\ \A u \in UHeld(q) : PostsIn(uPost', u) = PostsIn(uPost, u)
  PROVE  UsersOK'
<1>1. /\ uReq \in [Proc -> UserRequest] /\ x \in UserRequest
      /\ \A q \in Proc : UserReqOK(uReq[q], UHeld(q))
      /\ \A q \in Proc : uReq[q].stage = "write" => uReq[q].had = PostsIn(uPost, uReq[q].user)
  BY DEF UsersOK, UserReqOK
<1>2. uReq' \in [Proc -> UserRequest] /\ uReq'[p] = x /\ \A q \in Proc \ {p} : uReq'[q] = uReq[q]
  BY <1>1
<1>. HIDE DEF UHeld, PostsIn
<1>3. ASSUME NEW q \in Proc
      PROVE  /\ UHeld(q)' \subseteq uLive' /\ UserReqOK(uReq'[q], UHeld(q)')
             /\ uReq'[q].stage = "write" => uReq'[q].had = PostsIn(uPost', uReq'[q].user)
  <2>1. CASE q = p
    BY <1>2, <2>1
  <2>2. CASE q # p
    <3>1. uReq'[q] = uReq[q] /\ UHeld(q)' = UHeld(q)
      BY <1>2, <2>2
    <3>2. UHeld(q)' \subseteq uLive' /\ UserReqOK(uReq'[q], UHeld(q)')
      BY <1>1, <2>2, <3>1
    <3>3. ASSUME uReq[q].stage = "write" PROVE uReq[q].had = PostsIn(uPost', uReq[q].user)
      <4>1. uReq[q].user \in UHeld(q)
        BY <1>1, <3>3 DEF UserReqOK
      <4>2. \A u \in UHeld(q) : PostsIn(uPost', u) = PostsIn(uPost, u)
        BY <2>2
      <4>. QED  BY <1>1, <3>3, <4>1, <4>2
    <3>. QED  BY <3>1, <3>2, <3>3
  <2>. QED  BY <2>1, <2>2
<1>. QED  BY <1>2, <1>3 DEF UsersOK

\* A step that leaves the tables alone.
LEMMA UserCalm ==
  ASSUME UsersOK, NEW p \in Proc, NEW x, uReq' = [uReq EXCEPT ![p] = x], UNCHANGED UserTables,
         \/ uLock' = uLock /\ UserReqOK(x, UHeld(p))
         \/ uLock' = Unlocked(p) /\ UserReqOK(x, {})
         \/ \E u \in uLive : /\ UserFree(u, p) /\ uLock' = [uLock EXCEPT ![u] = p]
                             /\ UserReqOK(x, UHeld(p) \cup {u}),
         x.stage = "write" => x.had = PostsIn(uPost, x.user)
  PROVE  UsersOK'
<1>1. /\ uBorn' = uBorn /\ uLive' = uLive /\ uName' = uName /\ uColumn' = uColumn /\ uPost' = uPost
      /\ postOn' = postOn
  BY DEF UserTables
<1>2. UserTablesOK'
  <2>1. UserTablesOK
    BY DEF UsersOK
  <2>. QED  BY <1>1, <2>1 DEF UserTablesOK, UserPostsAgree, PostsOf
<1>3. \A q \in Proc : UHeld(q) \subseteq uLive
  BY DEF UsersOK
<1>4. uLive \subseteq UserId
  <2>1. uBorn \in 0 .. MaxUser /\ uLive \subseteq 1 .. uBorn
    BY DEF UsersOK, UserTablesOK
  <2>. QED  BY <2>1, UserAssumption DEF UserId
<1>0. /\ x.stage = "write" => x.had = PostsIn(uPost', x.user)
      /\ \A u : PostsIn(uPost', u) = PostsIn(uPost, u)
  BY <1>1
<1>. HIDE DEF UHeld, PostsIn
<1>5. CASE uLock' = uLock /\ UserReqOK(x, UHeld(p))
  <2>1. uLock' \in [UserId -> Proc \cup {None}] /\ \A q \in Proc : UHeld(q)' = UHeld(q)
    BY <1>5, UHeldFact
  <2>2. UHeld(p)' \subseteq uLive' /\ UserReqOK(x, UHeld(p)')
    BY <1>1, <1>3, <1>5, <2>1
  <2>3. \A q \in Proc \ {p} : /\ UHeld(q)' = UHeld(q) /\ UHeld(q) \subseteq uLive'
                              /\ \A u \in UHeld(q) : PostsIn(uPost', u) = PostsIn(uPost, u)
    BY <1>0, <1>1, <1>3, <2>1
  <2>. QED  BY <1>0, <1>2, <2>1, <2>2, <2>3, UserGoesOn
<1>6. CASE uLock' = Unlocked(p) /\ UserReqOK(x, {})
  <2>1. /\ uLock' \in [UserId -> Proc \cup {None}] /\ UHeld(p)' = {}
        /\ \A q \in Proc \ {p} : UHeld(q)' = UHeld(q)
    BY <1>6, UHeldFact
  <2>2. UHeld(p)' \subseteq uLive' /\ UserReqOK(x, UHeld(p)')
    BY <1>1, <1>3, <1>6, <2>1
  <2>3. \A q \in Proc \ {p} : /\ UHeld(q)' = UHeld(q) /\ UHeld(q) \subseteq uLive'
                              /\ \A u \in UHeld(q) : PostsIn(uPost', u) = PostsIn(uPost, u)
    BY <1>0, <1>1, <1>3, <2>1
  <2>. QED  BY <1>0, <1>2, <2>1, <2>2, <2>3, UserGoesOn
<1>7. ASSUME NEW u \in uLive, UserFree(u, p), uLock' = [uLock EXCEPT ![u] = p],
             UserReqOK(x, UHeld(p) \cup {u})
      PROVE  UsersOK'
  <2>1. /\ uLock' \in [UserId -> Proc \cup {None}] /\ UHeld(p)' = UHeld(p) \cup {u}
        /\ \A q \in Proc \ {p} : UHeld(q)' = UHeld(q)
    BY <1>4, <1>7, UHeldFact
  <2>2. UHeld(p)' \subseteq uLive' /\ UserReqOK(x, UHeld(p)')
    BY <1>1, <1>3, <1>7, <2>1
  <2>3. \A q \in Proc \ {p} : /\ UHeld(q)' = UHeld(q) /\ UHeld(q) \subseteq uLive'
                              /\ \A w \in UHeld(q) : PostsIn(uPost', w) = PostsIn(uPost, w)
    BY <1>0, <1>1, <1>3, <2>1
  <2>. QED  BY <1>0, <1>2, <2>1, <2>2, <2>3, UserGoesOn
<1>. QED  BY <1>5, <1>6, <1>7

LEMMA UserReplies ==
  ASSUME UsersOK, NEW p \in Proc, UserReply(p), UNCHANGED UserTables
  PROVE  UsersOK'
<1>1. uReq' = [uReq EXCEPT ![p] = UserIdle] /\ uLock' = Unlocked(p)
  BY DEF UserReply
<1>. QED  BY <1>1, UserCalm, UserIdleFact

LEMMA UserRecord ==
  ASSUME UsersOK, NEW p \in Proc
  PROVE  /\ uReq \in [Proc -> UserRequest] /\ uReq[p] \in UserRequest /\ UserReqOK(uReq[p], UHeld(p))
         /\ UHeld(p) \subseteq uLive /\ uLive \subseteq UserId /\ uLive \subseteq 1 .. uBorn
         /\ uBorn \in Nat /\ uBorn <= MaxUser /\ MaxUser \in Nat
<1>1. uBorn \in 0 .. MaxUser /\ uLive \subseteq 1 .. uBorn /\ uReq \in [Proc -> UserRequest]
  BY DEF UsersOK, UserTablesOK
<1>2. uLive \subseteq UserId /\ MaxUser \in Nat
  BY <1>1, UserAssumption DEF UserId
<1>3. UserReqOK(uReq[p], UHeld(p)) /\ UHeld(p) \subseteq uLive
  BY DEF UsersOK
<1>. QED  BY <1>1, <1>2, <1>3

LEMMA AscendingUsers ==
  ASSUME NEW U \in SUBSET UserId
  PROVE  /\ Ascending(U) \in Seq(UserId)
         /\ \A i, j \in DOMAIN Ascending(U) : i < j => Ascending(U)[i] < Ascending(U)[j]
<1> DEFINE s == Ascending(U)
<1>1. s \in Seq(U) /\ \A i, j \in DOMAIN s : i < j => s[i] < s[j]
  BY AscendingFact, UserAssumption DEF UserId
<1>. HIDE DEF s
<1>2. s \in Seq(UserId)
  BY <1>1
<1>. QED  BY <1>1, <1>2 DEF s

LEMMA UserStarts ==
  ASSUME UsersOK, NEW p \in Proc, UserStart(p)
  PROVE  UsersOK'
<1>1. uReq[p] = UserIdle /\ uLock' = uLock /\ UNCHANGED UserTables
  BY DEF UserStart, StartCreateUser, StartRegister, StartUpdateUser, StartDeleteUser, StartImport, UserBegins
<1>2. UHeld(p) = {} /\ uReq \in [Proc -> UserRequest]
  <2>1. UserReqOK(UserIdle, UHeld(p))
    BY <1>1, UserRecord
  <2>. QED  BY <2>1, UserRecord DEF UserReqOK, UserIdle
<1>3. ASSUME NEW x, uReq' = [uReq EXCEPT ![p] = x], UserReqOK(x, {}), x.stage # "write" PROVE UsersOK'
  BY <1>1, <1>2, <1>3, UserCalm
<1>4. UserIdle \in UserRequest /\ UserIdle.added = {} /\ IsFiniteSet({})
  BY UserIdleFact, FS_EmptySet DEF UserReqOK, UserIdle
<1>5. ASSUME NEW n \in Username, NEW Q \in SUBSET Post, StartCreateUser(p, n, Q) PROVE UsersOK'
  <2> DEFINE x == [UserIdle EXCEPT !.op = "create", !.stage = "posts", !.name = n, !.posts = Q, !.todo = Q]
  <2>1. uReq' = [uReq EXCEPT ![p] = x]
    BY <1>5 DEF StartCreateUser
  <2>2. x \in UserRequest
    BY <1>4 DEF UserRequest, UserStages
  <2>3. UserReqOK(x, {}) /\ x.stage # "write"
    BY <1>4, <2>2 DEF UserReqOK, UserIdle
  <2>. HIDE DEF x
  <2>. QED  BY <1>3, <2>1, <2>3
<1>6. ASSUME NEW u \in UserId, NEW n \in Username, NEW Q \in SUBSET Post, StartUpdateUser(p, u, n, Q)
      PROVE  UsersOK'
  <2> DEFINE x == [UserIdle EXCEPT !.op = "update", !.stage = "name", !.user = u, !.name = n, !.posts = Q, !.todo = Q]
  <2>1. uReq' = [uReq EXCEPT ![p] = x]
    BY <1>6 DEF StartUpdateUser
  <2>2. x \in UserRequest
    BY <1>4 DEF UserRequest, UserStages
  <2>3. UserReqOK(x, {}) /\ x.stage # "write"
    BY <1>4, <2>2 DEF UserReqOK, UserIdle
  <2>. HIDE DEF x
  <2>. QED  BY <1>3, <2>1, <2>3
<1>7. ASSUME NEW U \in SUBSET UserId, StartDeleteUser(p, U) PROVE UsersOK'
  <2> DEFINE x == [UserIdle EXCEPT !.op = "delete", !.stage = "lock", !.ids = Ascending(U)]
  <2>1. uReq' = [uReq EXCEPT ![p] = x]
    BY <1>7 DEF StartDeleteUser
  <2>2. x \in UserRequest
    BY <1>4, AscendingUsers DEF UserRequest, UserStages
  <2>3. UserReqOK(x, {}) /\ x.stage # "write"
    BY <1>4, <2>2, AscendingUsers DEF UserReqOK, UserIdle
  <2>. HIDE DEF x
  <2>. QED  BY <1>3, <2>1, <2>3
<1>8. ASSUME NEW s \in Sheets, StartImport(p, s) PROVE UsersOK'
  <2> DEFINE x == [UserIdle EXCEPT !.op = "import", !.stage = "row", !.sheet = s]
  <2>1. uReq' = [uReq EXCEPT ![p] = x]
    BY <1>8 DEF StartImport
  <2>2. s \in Seq(Username)
    <3>1. PICK k \in 1 .. MaxSheet : s \in [1 .. k -> Username]
      BY DEF Sheets
    <3>. QED  BY <3>1, UserAssumption
  <2>3. x \in UserRequest
    BY <1>4, <2>2 DEF UserRequest, UserStages
  <2>4. UserReqOK(x, {}) /\ x.stage # "write"
    BY <1>4, <2>3 DEF UserReqOK, UserIdle
  <2>. HIDE DEF x
  <2>. QED  BY <1>3, <2>1, <2>4
<1>. QED  BY <1>5, <1>6, <1>7, <1>8 DEF UserStart, StartRegister

\* The steps that only take a request further.
LEMMA UserWaits ==
  ASSUME UsersOK, NEW p \in Proc,
         \/ UsernameTaken(p) \/ ValidatePost(p) \/ LockUser(p) \/ LockUserRow(p)
         \/ SkipRow(p) \/ FindImported(p) \/ UpdateImported(p) \/ RollbackImport(p) \/ UserVictim(p)
  PROVE  UsersOK'
<1> DEFINE r == uReq[p]
           H == UHeld(p)
<1>1. /\ uReq \in [Proc -> UserRequest] /\ r \in UserRequest /\ UserReqOK(r, H)
      /\ H \subseteq uLive /\ uLive \subseteq UserId
  BY UserRecord
<1>. HIDE DEF H
<1>2. UserReply(p) /\ UNCHANGED UserTables => UsersOK'
  BY UserReplies
<1>3. CASE UsernameTaken(p)
  <2> DEFINE x == [r EXCEPT !.stage = "posts"]
  <2>1. r.stage = "name" /\ r.op = "update" /\ UNCHANGED UserTables
    BY <1>1, <1>3 DEF UsernameTaken, UserReqOK, UserRequest
  <2>2. CASE UserTo(p, "posts") /\ UNCHANGED uLock
    <3>1. uReq' = [uReq EXCEPT ![p] = x]
      BY <1>1, <2>2 DEF UserTo
    <3>2. x \in UserRequest /\ x.stage = "posts" /\ x.op = "update" /\ x.added = r.added
      BY <1>1, <2>1 DEF UserRequest, UserStages
    <3>. HIDE DEF x
    <3>3. UserReqOK(x, H)
      BY <1>1, <2>1, <3>2 DEF UserReqOK
    <3>. QED  BY <2>1, <2>2, <3>1, <3>2, <3>3, UserCalm DEF H
  <2>. QED  BY <1>2, <1>3, <2>1, <2>2 DEF UsernameTaken
<1>4. CASE ValidatePost(p)
  <2>1. r.stage = "posts" /\ UNCHANGED UserTables
    BY <1>4 DEF ValidatePost
  <2>2. ASSUME NEW q \in r.todo, uReq' = [uReq EXCEPT ![p].todo = @ \ {q}] /\ UNCHANGED uLock PROVE UsersOK'
    <3> DEFINE x == [r EXCEPT !.todo = r.todo \ {q}]
    <3>1. uReq' = [uReq EXCEPT ![p] = x]
      BY <1>1, <2>2
    <3>2. x \in UserRequest /\ x.stage = "posts" /\ x.op = r.op /\ x.added = r.added /\ x.ids = r.ids
      BY <1>1, <2>1 DEF UserRequest, UserStages
    <3>. HIDE DEF x
    <3>3. UserReqOK(x, H)
      BY <1>1, <2>1, <3>2 DEF UserReqOK
    <3>. QED  BY <2>1, <2>2, <3>1, <3>2, <3>3, UserCalm DEF H
  <2>. QED  BY <1>2, <1>4, <2>1, <2>2 DEF ValidatePost
<1>5. CASE LockUser(p)
  <2>1. r.stage = "posts" /\ r.op = "update" /\ UNCHANGED UserTables
    BY <1>5 DEF LockUser, PostsChecked
  <2>2. CASE /\ r.user \in uLive /\ UserFree(r.user, p) /\ uLock' = [uLock EXCEPT ![r.user] = p]
             /\ uReq' = [uReq EXCEPT ![p].stage = "write", ![p].had = PostsOf(r.user)]
    <3> DEFINE x == [r EXCEPT !.stage = "write", !.had = PostsOf(r.user)]
    <3>1. uReq' = [uReq EXCEPT ![p] = x]
      BY <1>1, <2>2
    <3>2. /\ x \in UserRequest /\ x.stage = "write" /\ x.op = "update" /\ x.added = r.added /\ x.user = r.user
          /\ x.had = PostsIn(uPost, r.user)
      BY <1>1, <2>1 DEF UserRequest, UserStages, PostsOf, PostsIn
    <3>. HIDE DEF x
    <3>3. UserReqOK(x, H \cup {r.user})
      BY <1>1, <2>1, <3>2 DEF UserReqOK
    <3>4. \E u \in uLive : /\ UserFree(u, p) /\ uLock' = [uLock EXCEPT ![u] = p]
                            /\ UserReqOK(x, UHeld(p) \cup {u})
      BY <2>2, <3>3 DEF H
    <3>5. x.stage = "write" => x.had = PostsIn(uPost, x.user)
      BY <3>2
    <3>. QED  BY <2>1, <3>1, <3>4, <3>5, UserCalm
  <2>3. CASE UserReply(p)
    BY <1>2, <2>1, <2>3
  <2>. QED  BY <1>5, <2>2, <2>3 DEF LockUser
<1>6. CASE LockUserRow(p)
  <2> DEFINE t == r.ids
             u == Head(t)
             x == [r EXCEPT !.ids = Tail(t)]
  <2>1. r.op = "delete" /\ r.stage = "lock" /\ t \in Seq(UserId) /\ t # <<>> /\ UNCHANGED UserTables
    BY <1>1, <1>6 DEF LockUserRow, UserReqOK, UserRequest
  <2>2. uReq' = [uReq EXCEPT ![p] = x]
    BY <1>1, <1>6 DEF LockUserRow
  <2>3. /\ 1 \in DOMAIN t /\ t[1] = u /\ u \in UserId /\ Tail(t) \in Seq(UserId)
        /\ \A i \in DOMAIN Tail(t) : i + 1 \in DOMAIN t /\ Tail(t)[i] = t[i + 1] /\ 1 < i + 1
        /\ \A i, j \in DOMAIN Tail(t) : i < j => i + 1 < j + 1
    BY <2>1
  <2>4. x \in UserRequest /\ x.stage = "lock" /\ x.op = "delete" /\ x.added = r.added /\ x.ids = Tail(t)
    BY <1>1, <2>1, <2>3 DEF UserRequest, UserStages
  <2>5. \A i, j \in DOMAIN t : i < j => t[i] < t[j]
    BY <1>1, <2>1 DEF UserReqOK
  <2>6. \A h \in H, i \in DOMAIN t : h < t[i]
    BY <1>1, <2>1 DEF UserReqOK
  <2>. HIDE DEF x, t
  <2>7. \A i, j \in DOMAIN Tail(t) : i < j => Tail(t)[i] < Tail(t)[j]
    BY <2>3, <2>5
  <2>8. \A h \in H \cup {u}, i \in DOMAIN Tail(t) : h < Tail(t)[i]
    BY <2>3, <2>5, <2>6
  <2>9. UserReqOK(x, H) /\ UserReqOK(x, H \cup {u})
    BY <1>1, <2>4, <2>7, <2>8 DEF UserReqOK
  <2>10. CASE u \in uLive
    <3>1. UserFree(u, p) /\ uLock' = [uLock EXCEPT ![u] = p]
      BY <1>6, <2>10 DEF LockUserRow, t
    <3>. QED  BY <2>1, <2>2, <2>4, <2>9, <2>10, <3>1, UserCalm DEF H
  <2>11. CASE u \notin uLive
    <3>1. uLock' = uLock
      BY <1>6, <2>11 DEF LockUserRow, t
    <3>. QED  BY <2>1, <2>2, <2>4, <2>9, <3>1, UserCalm DEF H
  <2>. QED  BY <2>10, <2>11
<1>7. CASE SkipRow(p) \/ FindImported(p) \/ UpdateImported(p)
  <2>1. r.op = "import" /\ UNCHANGED UserTables
    BY <1>1, <1>7 DEF SkipRow, FindImported, UpdateImported, UserReqOK, UserRequest
  <2>2. ASSUME NEW x, x \in UserRequest, x.op = "import", x.stage \in {"row", "found"}, IsFiniteSet(x.added),
               x.stage = "found" => x.sheet # <<>>,
               uReq' = [uReq EXCEPT ![p] = x],
               \/ uLock' = uLock
               \/ \E u \in uLive : UserFree(u, p) /\ uLock' = [uLock EXCEPT ![u] = p]
        PROVE  UsersOK'
    <3>1. \A K : UserReqOK(x, K)
      BY <2>2 DEF UserReqOK
    <3>. QED  BY <2>1, <2>2, <3>1, UserCalm
  <2>3. IsFiniteSet(r.added) /\ r.added \in SUBSET Username /\ r.sheet \in Seq(Username)
    BY <1>1 DEF UserReqOK, UserRequest
  <2>4. CASE SkipRow(p)
    <3> DEFINE x == [r EXCEPT !.sheet = Tail(r.sheet)]
    <3>1. uReq' = [uReq EXCEPT ![p] = x] /\ r.stage = "row" /\ Tail(r.sheet) \in Seq(Username) /\ uLock' = uLock
      BY <1>1, <2>3, <2>4 DEF SkipRow
    <3>2. x \in UserRequest /\ x.op = "import" /\ x.stage = "row" /\ x.added = r.added
      BY <1>1, <2>1, <3>1 DEF UserRequest
    <3>. HIDE DEF x
    <3>. QED  BY <2>2, <2>3, <3>1, <3>2
  <2>5. CASE FindImported(p)
    <3> DEFINE n == Head(r.sheet)
    <3>1. /\ r.stage = "row" /\ r.sheet # <<>> /\ uLock' = uLock
          /\ Tail(r.sheet) \in Seq(Username) /\ n \in Username
      BY <2>3, <2>5 DEF FindImported
    <3>2. CASE uReq' = [uReq EXCEPT ![p].added = @ \cup {n}, ![p].sheet = Tail(@)]
      <4> DEFINE x == [r EXCEPT !.added = r.added \cup {n}, !.sheet = Tail(r.sheet)]
      <4>1. uReq' = [uReq EXCEPT ![p] = x]
        BY <1>1, <3>2
      <4>2. x \in UserRequest /\ x.op = "import" /\ x.stage = "row" /\ x.added = r.added \cup {n}
        BY <1>1, <2>1, <2>3, <3>1 DEF UserRequest
      <4>3. IsFiniteSet(r.added \cup {n})
        BY <2>3, FS_AddElement
      <4>. HIDE DEF x
      <4>. QED  BY <2>2, <3>1, <4>1, <4>2, <4>3
    <3>3. CASE uReq' = [uReq EXCEPT ![p].sheet = Tail(@)]
      <4> DEFINE x == [r EXCEPT !.sheet = Tail(r.sheet)]
      <4>1. uReq' = [uReq EXCEPT ![p] = x]
        BY <1>1, <3>3
      <4>2. x \in UserRequest /\ x.op = "import" /\ x.stage = "row" /\ x.added = r.added
        BY <1>1, <2>1, <3>1 DEF UserRequest
      <4>. HIDE DEF x
      <4>. QED  BY <2>2, <2>3, <3>1, <4>1, <4>2
    <3>4. ASSUME NEW u \in uLive, uReq' = [uReq EXCEPT ![p].stage = "found", ![p].user = u] PROVE UsersOK'
      <4> DEFINE x == [r EXCEPT !.stage = "found", !.user = u]
      <4>1. uReq' = [uReq EXCEPT ![p] = x]
        BY <1>1, <3>4
      <4>2. x \in UserRequest /\ x.op = "import" /\ x.stage = "found" /\ x.added = r.added /\ x.sheet = r.sheet
        BY <1>1, <2>1 DEF UserRequest, UserStages
      <4>. HIDE DEF x
      <4>. QED  BY <2>2, <2>3, <3>1, <4>1, <4>2
    <3>. QED  BY <2>5, <3>2, <3>3, <3>4 DEF FindImported, Named
  <2>6. CASE UpdateImported(p)
    <3> DEFINE x == [r EXCEPT !.stage = "row", !.user = Nobody, !.sheet = Tail(r.sheet)]
    <3>1. uReq' = [uReq EXCEPT ![p] = x]
      BY <1>1, <2>6 DEF UpdateImported
    <3>2. \/ uLock' = uLock
          \/ \E u \in uLive : UserFree(u, p) /\ uLock' = [uLock EXCEPT ![u] = p]
      BY <2>6 DEF UpdateImported
    <3>3. Tail(r.sheet) \in Seq(Username)
      <4>1. r.sheet # <<>>
        BY <1>1, <2>6 DEF UpdateImported, UserReqOK
      <4>. QED  BY <2>3, <4>1
    <3>4. x \in UserRequest /\ x.op = "import" /\ x.stage = "row" /\ x.added = r.added
      BY <1>1, <2>1, <3>3 DEF UserRequest, UserStages
    <3>. HIDE DEF x
    <3>. QED  BY <2>2, <2>3, <3>1, <3>2, <3>4
  <2>. QED  BY <1>7, <2>4, <2>5, <2>6
<1>8. CASE RollbackImport(p) \/ UserVictim(p)
  BY <1>2, <1>8 DEF RollbackImport, UserVictim
<1>. QED  BY <1>3, <1>4, <1>5, <1>6, <1>7, <1>8

\* The four commits.  Each leaves the posts of every user in agreement, and those
\* of the users that others have locked as they are.
LEMMA UserCommits ==
  ASSUME UsersOK, NEW p \in Proc, UserTablesOK', UserReply(p),
         \A u \in uLive : u \in uLive' \/ u \in UHeld(p),
         \A u \in uLive : PostsIn(uPost', u) = PostsIn(uPost, u) \/ u \in UHeld(p)
  PROVE  UsersOK'
<1>1. uReq' = [uReq EXCEPT ![p] = UserIdle] /\ uLock' = Unlocked(p)
  BY DEF UserReply
<1>2. /\ uLock' \in [UserId -> Proc \cup {None}] /\ UHeld(p)' = {}
      /\ \A q \in Proc \ {p} : UHeld(q)' = UHeld(q) /\ UHeld(p) \cap UHeld(q) = {}
  BY <1>1, UHeldFact
<1>3. \A q \in Proc : UHeld(q) \subseteq uLive
  BY DEF UsersOK
<1>. HIDE DEF UHeld, PostsIn
<1>4. \A q \in Proc \ {p} : /\ UHeld(q)' = UHeld(q) /\ UHeld(q) \subseteq uLive'
                            /\ \A u \in UHeld(q) : PostsIn(uPost', u) = PostsIn(uPost, u)
  BY <1>2, <1>3
<1>5. UserReqOK(UserIdle, UHeld(p)') /\ UserIdle.stage # "write" /\ UHeld(p)' \subseteq uLive'
  BY <1>2, UserIdleFact
<1>. QED  BY <1>1, <1>2, <1>4, <1>5, UserGoesOn

\* Agreement in terms of the relation.
LEMMA AgreeFact ==
  ASSUME UserTablesOK
  PROVE  /\ \A u \in UserId : PostsIn(uPost, u) = uColumn[u]
         /\ uColumn \in [UserId -> SUBSET Post] /\ uLive \subseteq UserId
<1>1. \A u \in UserId : PostsIn(uPost, u) = IF u \in uLive THEN uColumn[u] ELSE {}
  BY DEF UserTablesOK, UserPostsAgree, PostsOf, PostsIn
<1>2. uLive \subseteq UserId
  <2>1. uBorn \in 0 .. MaxUser /\ uLive \subseteq 1 .. uBorn
    BY DEF UserTablesOK
  <2>. QED  BY <2>1, UserAssumption DEF UserId
<1>. QED  BY <1>1, <1>2 DEF UserTablesOK

LEMMA CreateUserKeeps ==
  ASSUME UsersOK, NEW p \in Proc, CreateUser(p)
  PROVE  UsersOK'
<1> DEFINE r == uReq[p]
           b == uBorn + 1
<1>1. /\ uBorn' = b /\ uLive' = uLive \cup {b} /\ uName' = [uName EXCEPT ![b] = r.name]
      /\ uColumn' = [uColumn EXCEPT ![b] = r.posts] /\ uPost' = uPost \cup ({b} \X r.posts)
      /\ UserReply(p) /\ postOn' = postOn /\ uBorn < MaxUser
  BY DEF CreateUser
<1>2. /\ r.name \in Username \cup {None} /\ r.posts \in SUBSET Post /\ uLive \subseteq 1 .. uBorn
      /\ uBorn \in Nat /\ MaxUser \in Nat
  BY UserRecord DEF UserRequest
<1>3. b \in UserId /\ b \notin uLive /\ uLive' \subseteq 1 .. uBorn' /\ uBorn' \in 0 .. MaxUser
  <2>1. b \in 1 .. MaxUser /\ b \notin 1 .. uBorn /\ b \in 0 .. MaxUser /\ b \in 1 .. b
        /\ \A u \in 1 .. uBorn : u \in 1 .. b
    BY <1>1, <1>2
  <2>. HIDE DEF b
  <2>. QED  BY <1>1, <1>2, <2>1 DEF UserId
<1>4. UserTablesOK
  BY DEF UsersOK
<1>. HIDE DEF b
<1>5. \A u \in UserId : PostsIn(uPost', u) = uColumn'[u] /\ (u # b => PostsIn(uPost', u) = PostsIn(uPost, u))
  <2>1. ASSUME NEW u \in UserId, u # b PROVE PostsIn(uPost', u) = PostsIn(uPost, u)
    BY <1>1, <2>1 DEF PostsIn
  <2>2. PostsIn(uPost', b) = r.posts
    <3>1. PostsIn(uPost, b) = {}
      BY <1>3, <1>4, AgreeFact DEF UserTablesOK
    <3>. QED  BY <1>1, <1>2, <3>1 DEF PostsIn
  <2>3. \A u \in UserId : uColumn'[u] = IF u = b THEN r.posts ELSE uColumn[u]
    BY <1>1, <1>4 DEF UserTablesOK
  <2>. QED  BY <1>4, <2>1, <2>2, <2>3, AgreeFact
<1>6. /\ uName' \in [UserId -> Username \cup {None}] /\ uColumn' \in [UserId -> SUBSET Post]
      /\ uPost' \subseteq UserId \X Post /\ \A u \in UserId \ uLive' : uColumn'[u] = {}
  BY <1>1, <1>2, <1>3, <1>4 DEF UserTablesOK
<1>7. UserPostsAgree'
  <2>1. \A u \in UserId : PostsOf(u)' = PostsIn(uPost', u)
    BY DEF PostsOf, PostsIn
  <2>. QED  BY <1>5, <1>6, <2>1 DEF UserPostsAgree
<1>8. UserTablesOK'
  BY <1>1, <1>3, <1>4, <1>6, <1>7 DEF UserTablesOK
<1>9. \A u \in uLive : u \in uLive' /\ PostsIn(uPost', u) = PostsIn(uPost, u)
  BY <1>1, <1>3, <1>4, <1>5, AgreeFact
<1>. QED  BY <1>1, <1>8, <1>9, UserCommits

\* The difference to the posts that were read under the lock makes the relation
\* what the column says.
LEMMA UpdateUserKeeps ==
  ASSUME UsersOK, NEW p \in Proc, UpdateUser(p)
  PROVE  UsersOK'
<1> DEFINE r == uReq[p]
<1>1. /\ uName' = [uName EXCEPT ![r.user] = r.name] /\ uColumn' = [uColumn EXCEPT ![r.user] = r.posts]
      /\ uPost' = (uPost \ ({r.user} \X (r.had \ r.posts))) \cup ({r.user} \X (r.posts \ r.had))
      /\ UserReply(p) /\ UNCHANGED <<uBorn, uLive, postOn>> /\ r.stage = "write"
  BY DEF UpdateUser
<1>2. /\ r.name \in Username \cup {None} /\ r.posts \in SUBSET Post /\ r.had \in SUBSET Post
      /\ r.user \in UHeld(p) /\ r.user \in uLive /\ r.user \in UserId
      /\ r.had = PostsIn(uPost, r.user)
  <2>1. r \in UserRequest /\ UserReqOK(r, UHeld(p)) /\ UHeld(p) \subseteq uLive /\ uLive \subseteq UserId
    BY UserRecord
  <2>2. r.user \in UHeld(p)
    BY <1>1, <2>1 DEF UserReqOK
  <2>3. r.had = PostsIn(uPost, r.user)
    BY <1>1 DEF UsersOK
  <2>. HIDE DEF UHeld
  <2>. QED  BY <2>1, <2>2, <2>3 DEF UserRequest
<1>3. UserTablesOK
  BY DEF UsersOK
<1>4. \A u \in UserId : PostsIn(uPost', u) = IF u = r.user THEN r.posts ELSE PostsIn(uPost, u)
  <2>1. ASSUME NEW u \in UserId, u # r.user PROVE PostsIn(uPost', u) = PostsIn(uPost, u)
    BY <1>1, <2>1 DEF PostsIn
  <2>2. PostsIn(uPost', r.user) = r.posts
    <3>1. ASSUME NEW q \in Post PROVE <<r.user, q>> \in uPost' <=> q \in r.posts
      <4>1. <<r.user, q>> \in uPost <=> q \in r.had
        BY <1>2 DEF PostsIn
      <4>. QED  BY <1>1, <4>1
    <3>. QED  BY <1>2, <3>1 DEF PostsIn
  <2>. QED  BY <2>1, <2>2
<1>5. \A u \in UserId : uColumn'[u] = IF u = r.user THEN r.posts ELSE uColumn[u]
  BY <1>1, <1>3 DEF UserTablesOK
<1>6. /\ uName' \in [UserId -> Username \cup {None}] /\ uColumn' \in [UserId -> SUBSET Post]
      /\ uPost' \subseteq UserId \X Post /\ \A u \in UserId \ uLive' : uColumn'[u] = {}
  BY <1>1, <1>2, <1>3 DEF UserTablesOK
<1>7. UserPostsAgree'
  <2>1. \A u \in UserId : PostsOf(u)' = PostsIn(uPost', u)
    BY DEF PostsOf, PostsIn
  <2>2. \A u \in UserId : PostsIn(uPost', u) = uColumn'[u]
    BY <1>3, <1>4, <1>5, AgreeFact
  <2>. QED  BY <1>6, <2>1, <2>2 DEF UserPostsAgree
<1>8. UserTablesOK'
  BY <1>1, <1>3, <1>6, <1>7 DEF UserTablesOK
<1>9. \A u \in uLive : u \in uLive' /\ (PostsIn(uPost', u) = PostsIn(uPost, u) \/ u \in UHeld(p))
  <2>. HIDE DEF UHeld
  <2>. QED  BY <1>1, <1>2, <1>3, <1>4, AgreeFact
<1>. QED  BY <1>1, <1>8, <1>9, UserCommits

\* Deleted users keep no posts.
LEMMA DeleteUsersKeeps ==
  ASSUME UsersOK, NEW p \in Proc, DeleteUsers(p)
  PROVE  UsersOK'
<1> DEFINE F == UHeld(p)
<1>1. /\ uLive' = uLive \ F /\ uPost' = {e \in uPost : e[1] \notin F}
      /\ uName' = [u \in UserId |-> IF u \in F THEN None ELSE uName[u]]
      /\ uColumn' = [u \in UserId |-> IF u \in F THEN {} ELSE uColumn[u]]
      /\ UserReply(p) /\ UNCHANGED <<uBorn, postOn>>
  BY DEF DeleteUsers, UHeld
<1>2. UserTablesOK /\ F \subseteq uLive
  BY DEF UsersOK
<1>. HIDE DEF F
<1>3. \A u \in UserId : PostsIn(uPost', u) = IF u \in F THEN {} ELSE PostsIn(uPost, u)
  <2> SUFFICES ASSUME NEW u \in UserId PROVE PostsIn(uPost', u) = IF u \in F THEN {} ELSE PostsIn(uPost, u)
    OBVIOUS
  <2>1. \A q \in Post : <<u, q>> \in uPost' <=> <<u, q>> \in uPost /\ u \notin F
    BY <1>1
  <2>. QED  BY <2>1 DEF PostsIn
<1>4. /\ uName' \in [UserId -> Username \cup {None}] /\ uColumn' \in [UserId -> SUBSET Post]
      /\ \A u \in UserId : uColumn'[u] = IF u \in F THEN {} ELSE uColumn[u]
  BY <1>1, <1>2 DEF UserTablesOK
<1>5. UserPostsAgree' /\ \A u \in UserId \ uLive' : uColumn'[u] = {}
  <2>1. \A u \in UserId : PostsOf(u)' = PostsIn(uPost', u)
    BY DEF PostsOf, PostsIn
  <2>2. \A u \in UserId \ uLive' : uColumn'[u] = {}
    BY <1>1, <1>2, <1>4 DEF UserTablesOK
  <2>3. \A u \in UserId : PostsIn(uPost', u) = uColumn'[u]
    BY <1>2, <1>3, <1>4, AgreeFact
  <2>. QED  BY <2>1, <2>2, <2>3 DEF UserPostsAgree
<1>6. uPost' \subseteq uPost
  BY <1>1
<1>7. UserTablesOK'
  BY <1>1, <1>2, <1>4, <1>5, <1>6 DEF UserTablesOK
<1>8. /\ \A u \in uLive : u \in uLive' \/ u \in F
      /\ \A u \in uLive : PostsIn(uPost', u) = PostsIn(uPost, u) \/ u \in F
  BY <1>1, <1>2, <1>3, AgreeFact
<1>. QED  BY <1>1, <1>7, <1>8, UserCommits DEF F

\* Imported users have no posts.
LEMMA CommitImportKeeps ==
  ASSUME UsersOK, NEW p \in Proc, CommitImport(p)
  PROVE  UsersOK'
<1> DEFINE names == uReq[p].added
           k == Cardinality(names)
           new == uBorn + 1 .. uBorn + k
<1>1. /\ new \subseteq UserId /\ uBorn' = uBorn + k /\ uLive' = uLive \cup new
      /\ UserReply(p) /\ UNCHANGED <<uColumn, uPost, postOn>>
  BY DEF CommitImport
<1>2. PICK f \in [new -> names] : uName' = [u \in UserId |-> IF u \in new THEN f[u] ELSE uName[u]]
  BY DEF CommitImport
<1>3. names \subseteq Username /\ k \in Nat
  <2>1. uReq[p] \in UserRequest /\ UserReqOK(uReq[p], UHeld(p))
    BY UserRecord
  <2>2. IsFiniteSet(names) /\ names \subseteq Username
    BY <2>1 DEF UserReqOK, UserRequest
  <2>. HIDE DEF names
  <2>3. k \in Nat
    BY <2>2, FS_CardinalityType, Zenon
  <2>. QED  BY <2>2, <2>3
<1>. HIDE DEF k, names
<1>4. UserTablesOK /\ uBorn \in Nat /\ uBorn <= MaxUser /\ MaxUser \in Nat /\ uLive \subseteq 1 .. uBorn
  BY UserRecord DEF UsersOK
<1>5. uBorn' \in 0 .. MaxUser
  <2>1. CASE k = 0
    BY <1>1, <1>4, <2>1
  <2>2. CASE k # 0
    <3>1. uBorn + k \in new
      BY <1>3, <1>4, <2>2
    <3>2. uBorn + k \in UserId
      BY <1>1, <3>1
    <3>. QED  BY <1>1, <3>2, <1>4 DEF UserId
  <2>. QED  BY <2>1, <2>2
<1>6. uLive' \subseteq 1 .. uBorn' /\ \A u \in new : u \notin uLive
  <2>1. \A u \in 1 .. uBorn : u \in 1 .. uBorn + k /\ u \notin new
    BY <1>3, <1>4
  <2>2. \A u \in new : u \in 1 .. uBorn + k
    BY <1>3, <1>4
  <2>. HIDE DEF new
  <2>. QED  BY <1>1, <1>4, <2>1, <2>2
<1>. HIDE DEF new
<1>7. uName' \in [UserId -> Username \cup {None}]
  BY <1>2, <1>3, <1>4 DEF UserTablesOK
<1>8. UserPostsAgree' /\ \A u \in UserId \ uLive' : uColumn'[u] = {}
  <2>1. \A u \in UserId : PostsOf(u)' = PostsIn(uPost, u)
    BY <1>1 DEF PostsOf, PostsIn
  <2>2. \A u \in UserId : PostsIn(uPost, u) = uColumn[u]
    BY <1>4, AgreeFact
  <2>3. \A u \in UserId \ uLive' : uColumn[u] = {}
    BY <1>1, <1>4 DEF UserTablesOK
  <2>. QED  BY <1>1, <2>1, <2>2, <2>3 DEF UserPostsAgree
<1>9. UserTablesOK'
  BY <1>1, <1>4, <1>5, <1>6, <1>7, <1>8 DEF UserTablesOK
<1>10. \A u \in uLive : u \in uLive' /\ PostsIn(uPost', u) = PostsIn(uPost, u)
  BY <1>1
<1>. QED  BY <1>1, <1>9, <1>10, UserCommits

LEMMA UsersInit == UserInit => UsersOK
<1> SUFFICES ASSUME UserInit PROVE UsersOK
  OBVIOUS
<1>1. uBorn \in 0 .. MaxUser /\ uLive \subseteq 1 .. uBorn /\ uLive \subseteq UserId
  <2>1. uBorn \in 0 .. 1 /\ uLive = 1 .. uBorn
    BY DEF UserInit
  <2>2. uLive \subseteq UserId /\ uBorn <= MaxUser
    BY <2>1, UserAssumption DEF UserInit, UserId
  <2>. QED  BY <2>1, <2>2, UserAssumption
<1>2. /\ uName \in [UserId -> Username \cup {None}] /\ uColumn \in [UserId -> SUBSET Post] /\ postOn \subseteq Post
      /\ \A u \in UserId \ uLive : uColumn[u] = {}
      /\ uPost = {e \in uLive \X Post : e[2] \in uColumn[e[1]]}
  BY DEF UserInit
<1>3. UserPostsAgree
  <2>1. ASSUME NEW u \in UserId, NEW q \in Post PROVE <<u, q>> \in uPost <=> u \in uLive /\ q \in uColumn[u]
    BY <1>2
  <2>2. \A u \in UserId : PostsOf(u) = IF u \in uLive THEN uColumn[u] ELSE {}
    BY <1>2, <2>1 DEF PostsOf
  <2>. QED  BY <2>2 DEF UserPostsAgree
<1>4. uLock \in [UserId -> Proc \cup {None}] /\ \A p \in Proc : UHeld(p) = {} /\ uReq[p] = UserIdle
  BY RequestsAssumption DEF UserInit, UHeld
<1>5. uReq \in [Proc -> UserRequest]
  BY UserIdleFact DEF UserInit, UserReqOK
<1>6. UserTablesOK
  BY <1>1, <1>2, <1>3 DEF UserTablesOK
<1>. QED  BY <1>4, <1>5, <1>6, UserIdleFact DEF UsersOK

LEMMA UsersStep == UsersOK /\ [UserNext]_usersVars => UsersOK'
<1> SUFFICES ASSUME UsersOK, [UserNext]_usersVars PROVE UsersOK'
  OBVIOUS
<1>1. CASE UNCHANGED usersVars
  <2>1. UsersOK /\ uBorn' = uBorn /\ uLive' = uLive /\ uName' = uName /\ uColumn' = uColumn
        /\ uPost' = uPost /\ postOn' = postOn /\ uLock' = uLock /\ uReq' = uReq
    BY <1>1 DEF usersVars
  <2>2. UserTablesOK' /\ \A p \in Proc : UHeld(p)' = UHeld(p)
    BY <2>1 DEF UsersOK, UserTablesOK, UserPostsAgree, PostsOf, UHeld
  <2>. HIDE DEF UHeld, UserTablesOK
  <2>3. /\ uLock' \in [UserId -> Proc \cup {None}] /\ uReq' \in [Proc -> UserRequest]
        /\ \A p \in Proc : UHeld(p)' \subseteq uLive' /\ UserReqOK(uReq'[p], UHeld(p)')
        /\ \A p \in Proc : uReq'[p].stage = "write" => uReq'[p].had = PostsIn(uPost', uReq'[p].user)
    BY <2>1, <2>2 DEF UsersOK
  <2>. QED  BY <2>2, <2>3 DEF UsersOK
<1>2. ASSUME NEW p \in Proc, UserStart(p) PROVE UsersOK'
  BY <1>2, UserStarts
<1>3. ASSUME NEW p \in Proc, UserStep(p) PROVE UsersOK'
  <2>1. CASE \/ UsernameTaken(p) \/ ValidatePost(p) \/ LockUser(p) \/ LockUserRow(p)
             \/ SkipRow(p) \/ FindImported(p) \/ UpdateImported(p) \/ RollbackImport(p) \/ UserVictim(p)
    BY <2>1, UserWaits
  <2>2. CASE CreateUser(p)
    BY <2>2, CreateUserKeeps
  <2>3. CASE UpdateUser(p)
    BY <2>3, UpdateUserKeeps
  <2>4. CASE DeleteUsers(p)
    BY <2>4, DeleteUsersKeeps
  <2>5. CASE CommitImport(p)
    BY <2>5, CommitImportKeeps
  <2>. QED  BY <1>3, <2>1, <2>2, <2>3, <2>4, <2>5 DEF UserStep
<1>. QED  BY <1>1, <1>2, <1>3 DEF UserNext

LEMMA UsersAlways == UserSpec => []UsersOK
<1>. QED  BY UsersInit, UsersStep, PTL DEF UserSpec

\* The posts in the row of a user and the rows of system_user_post agree whatever
\* creations, edits, deletions and imports overlap (CreateUser, UpdateUser,
\* deleteUsers): an edit writes the difference to the posts it has read, and the
\* lock of the row keeps those as they are until it has written.
THEOREM PostsAgree == UserSpec => []UserPostsAgree
<1>1. UsersOK => UserPostsAgree
  BY DEF UsersOK, UserTablesOK
<1>. QED  BY <1>1, UsersAlways, PTL

\* An edit asks for its first lock only, a deletion locks upwards: the highest row
\* that deletions of a circle ask for is held by one that asks for a higher one.
LEMMA ImportsDeadlockFact == UsersOK => OnlyImportsDeadlock
<1> SUFFICES ASSUME UsersOK, NEW S \in SUBSET Proc, UserCircle(S), \A p \in S : uReq[p].op # "import"
             PROVE  FALSE
  BY DEF OnlyImportsDeadlock
<1> DEFINE t(p) == uReq[p].ids
           D == {p \in S : uReq[p].op = "delete"}
           W == {Head(t(p)) : p \in D}
<1>1. ASSUME NEW p \in S
      PROVE  /\ uReq[p] \in UserRequest /\ UserReqOK(uReq[p], UHeld(p))
             /\ \E q \in S \ {p} : \E u \in UserWanted(p) : uLock[u] = q
  BY UserRecord DEF UserCircle
<1>2. ASSUME NEW p \in S
      PROVE  UserWanted(p) # {} /\ UserWanted(p) \subseteq UserId
  <2>1. UserWanted(p) \subseteq uLive /\ uLive \subseteq UserId
    BY UserRecord DEF UserWanted
  <2>. QED  BY <1>1, <2>1
<1>3. ASSUME NEW p \in S
      PROVE  PostsChecked(p, "update") \/ (p \in D /\ t(p) # <<>> /\ UserWanted(p) \subseteq {Head(t(p))})
  <2>1. uReq[p].stage # "found"
    BY <1>1 DEF UserReqOK, UserRequest
  <2>. QED  BY <1>2, <2>1 DEF UserWanted
<1>4. ASSUME NEW p \in S, UHeld(p) # {} PROVE p \in D /\ t(p) # <<>> /\ UserWanted(p) \subseteq {Head(t(p))}
  <2>1. ~PostsChecked(p, "update")
    BY <1>1, <1>4 DEF UserReqOK, PostsChecked
  <2>. QED  BY <1>3, <2>1
<1>5. ASSUME NEW p \in S
      PROVE  \E q \in D : t(q) # <<>> /\ \E u \in UserWanted(p) : u \in UHeld(q)
  <2>1. PICK q \in S \ {p} : \E u \in UserWanted(p) : uLock[u] = q
    BY <1>1
  <2>2. PICK u \in UserWanted(p) : u \in UHeld(q)
    BY <1>2, <2>1 DEF UHeld
  <2>3. q \in D /\ t(q) # <<>>
    BY <1>4, <2>1, <2>2
  <2>. QED  BY <2>2, <2>3
<1>6. ASSUME NEW p \in D
      PROVE  /\ t(p) # <<>> /\ UserWanted(p) \subseteq {Head(t(p))} /\ Head(t(p)) \in UserId
             /\ 1 \in DOMAIN t(p) /\ t(p)[1] = Head(t(p))
             /\ \A h \in UHeld(p), i \in DOMAIN t(p) : h < t(p)[i]
  <2>1. t(p) # <<>> /\ UserWanted(p) \subseteq {Head(t(p))}
    BY <1>3 DEF PostsChecked
  <2>2. t(p) \in Seq(UserId) /\ UserReqOK(uReq[p], UHeld(p))
    BY <1>1 DEF UserRequest
  <2>3. \A h \in UHeld(p), i \in DOMAIN t(p) : h < t(p)[i]
    BY <2>2 DEF UserReqOK
  <2>. QED  BY <2>1, <2>2, <2>3
<1>. HIDE DEF t, UHeld, UserWanted
<1>7. W \in SUBSET (1 .. MaxUser) /\ W # {}
  <2>1. D # {}
    BY <1>5 DEF UserCircle
  <2>. HIDE DEF D
  <2>. QED  BY <1>6, <2>1 DEF UserId
<1>8. PICK x \in W : \A y \in W : y <= x
  BY <1>7, HighestFact, UserAssumption
<1>9. PICK p \in D : x = Head(t(p))
  OBVIOUS
<1>10. PICK q \in D : \E u \in UserWanted(p) : u \in UHeld(q)
  BY <1>5
<1>11. x \in UHeld(q)
  BY <1>6, <1>9, <1>10
<1>12. x < Head(t(q))
  BY <1>6, <1>11
<1>13. Head(t(q)) <= x /\ x \in Nat /\ Head(t(q)) \in Nat
  <2>1. UserId \subseteq Nat
    BY DEF UserId
  <2>. QED  BY <1>6, <1>8, <1>9, <2>1
<1>. QED  BY <1>12, <1>13

\* Transactions on users wait in a circle only when an import, which locks in the
\* order of its table, is one of them, and transactions on departments only when
\* a data scope is.
THEOREM LocksOrdered == DeptSpec /\ UserSpec => []LocksAreOrdered
<1>1. OnlyScopesDeadlock /\ OnlyImportsDeadlock => LocksAreOrdered
  BY DEF LocksAreOrdered
<1>. QED  BY <1>1, DeptLocksAlways, ScopesDeadlockFact, UsersAlways, ImportsDeadlockFact, PTL

-----------------------------------------------------------------------------
(* The caches of the Java services.                                        *)

Command == [cmd : {"del", "scan"}, keys : SUBSET CacheKeys]

Removes(plan) == \E i \in DOMAIN plan : watched \in plan[i].keys

\* Java never holds a role that was not there when it read, so the first save of
\* a role makes no fresh entry stale.
CachesOK ==
  /\ roles \in [Role -> {0, 1, Gone}]
  /\ edition \in [{"dept_children_ids", "named"} -> Int]
  /\ watched \in CacheKeys
  /\ jReq \in [Proc -> Seq(Command)]
  /\ watched[1] = "role" => /\ entry.cached => entry.value # Gone
                            /\ filling.cached => filling.value # Gone
  /\ CachesFollow

\* What the followed entry is a copy of, before and after a step.
LEMMA WatchedFact ==
  ASSUME watched \in CacheKeys, watched' = watched
  PROVE  \/ /\ watched[1] = "role" /\ watched[2] \in Role
            /\ Value(watched) = roles[watched[2]] /\ Value(watched)' = roles'[watched[2]]
         \/ /\ watched[1] = "menu_role_ids" /\ watched[2] \in Menu
            /\ Value(watched) = {r \in Role : <<r, watched[2]>> \in grants}
            /\ Value(watched)' = {r \in Role : <<r, watched[2]>> \in grants'}
         \/ /\ watched[1] = "user_role_ids" /\ watched[2] \in Holder
            /\ Value(watched) = {r \in Role : <<watched[2], r>> \in holders}
            /\ Value(watched)' = {r \in Role : <<watched[2], r>> \in holders'}
         \/ /\ watched[1] = "permission_menu_ids" /\ watched[2] \in Permission
            /\ Value(watched) = {m \in DOMAIN perms : perms[m] = watched[2]}
            /\ Value(watched)' = {m \in DOMAIN perms' : perms'[m] = watched[2]}
         \/ /\ watched[1] \in {"dept_children_ids", "named"}
            /\ Value(watched) = edition[watched[1]] /\ Value(watched)' = edition'[watched[1]]
<1>1. CASE watched \in {"role"} \X Role
  BY <1>1 DEF Value
<1>2. CASE watched \in {"menu_role_ids"} \X Menu
  BY <1>2 DEF Value
<1>3. CASE watched \in {"user_role_ids"} \X Holder
  BY <1>3 DEF Value
<1>4. CASE watched \in {"permission_menu_ids"} \X Permission
  BY <1>4 DEF Value
<1>5. CASE watched \in {<<"dept_children_ids", None>>, <<"named", None>>}
  BY <1>5 DEF Value
<1>. QED  BY <1>1, <1>2, <1>3, <1>4, <1>5 DEF CacheKeys

LEMMA KeyFact ==
  ASSUME watched \in CacheKeys
  PROVE  /\ watched = <<watched[1], watched[2]>>
         /\ watched[1] = "dept_children_ids" \/ watched[1] = "named" => watched[2] = None
<1>1. CASE watched \in {"role"} \X Role
  BY <1>1
<1>2. CASE watched \in {"menu_role_ids"} \X Menu
  BY <1>2
<1>3. CASE watched \in {"user_role_ids"} \X Holder
  BY <1>3
<1>4. CASE watched \in {"permission_menu_ids"} \X Permission
  BY <1>4
<1>5. CASE watched \in {<<"dept_children_ids", None>>, <<"named", None>>}
  BY <1>5
<1>. QED  BY <1>1, <1>2, <1>3, <1>4, <1>5 DEF CacheKeys

\* The commands of the plans.
LEMMA CommandFact ==
  /\ \A K \in SUBSET CacheKeys : Del(K) \in Command /\ Del(K).keys = K
  /\ \A name : Scan(name) \in Command /\ Scan(name).keys = {k \in CacheKeys : k[1] = name}
BY DEF Del, Scan, Command

\* A write whose plan removes the followed entry if that becomes stale, or which
\* excuses it.
LEMMA WriteKeeps ==
  ASSUME CachesOK, NEW p \in Proc, NEW plan \in Seq(Command), Plan(p, plan),
         roles' \in [Role -> {0, 1, Gone}],
         edition' \in [{"dept_children_ids", "named"} -> Int],
         excused => excused',
         Value(watched)' = Value(watched) \/ excused' \/ Removes(plan)
           \/ (watched[1] = "role" /\ Value(watched) = Gone)
  PROVE  CachesOK'
<1>1. /\ jReq[p] = <<>> /\ jReq' = [jReq EXCEPT ![p] = plan]
      /\ watched' = watched /\ entry' = entry /\ filling' = filling
  BY DEF Plan, CacheBegins
<1>2. jReq \in [Proc -> Seq(Command)] /\ jReq' \in [Proc -> Seq(Command)]
  BY <1>1 DEF CachesOK
<1>3. \A q \in Proc : watched \in Pending(q) => watched \in Pending(q)'
  <2>1. Pending(p) = {}
    BY <1>1 DEF Pending
  <2>2. \A q \in Proc \ {p} : Pending(q)' = Pending(q)
    BY <1>1, <1>2 DEF Pending
  <2>. QED  BY <2>1, <2>2
<1>4. Removes(plan) => watched \in Pending(p)'
  <2>1. jReq'[p] = plan
    BY <1>1, <1>2
  <2>. QED  BY <2>1 DEF Removes, Pending
<1>5. ASSUME entry.cached, entry.value # Value(watched)', ~ excused'
      PROVE  \E q \in Proc : watched \in Pending(q)'
  <2>1. CASE entry.value # Value(watched)
    BY <1>3, <1>5, <2>1 DEF CachesOK, CachesFollow
  <2>2. CASE entry.value = Value(watched)
    <3>1. ~ (watched[1] = "role" /\ Value(watched) = Gone)
      BY <1>5, <2>2 DEF CachesOK
    <3>2. Value(watched)' # Value(watched)
      BY <1>5, <2>2
    <3>. QED  BY <1>4, <1>5, <3>1, <3>2
  <2>. QED  BY <2>1, <2>2
<1>6. CachesFollow'
  <2>. HIDE DEF Pending, Value
  <2>. QED  BY <1>1, <1>5 DEF CachesFollow
<1>. QED  BY <1>1, <1>2, <1>6 DEF CachesOK

LEMMA ConcatFact ==
  ASSUME NEW T, NEW a \in Seq(T), NEW b \in Seq(T)
  PROVE  /\ a \o b \in Seq(T) /\ Len(a \o b) = Len(a) + Len(b)
         /\ \A i \in 1 .. Len(a) : (a \o b)[i] = a[i]
         /\ \A i \in 1 .. Len(b) : (a \o b)[i + Len(a)] = b[i]
OBVIOUS

LEMMA RoleWrites ==
  ASSUME CachesOK, NEW p \in Proc,
         (\E r \in Role : SaveRole(p, r)) \/ \E R \in SUBSET Role : DeleteRoles(p, R)
  PROVE  CachesOK'
<1>1. watched \in CacheKeys /\ roles \in [Role -> {0, 1, Gone}]
      /\ edition \in [{"dept_children_ids", "named"} -> Int]
  BY DEF CachesOK
<1>2. ASSUME NEW r \in Role, SaveRole(p, r) PROVE CachesOK'
  <2>1. /\ roles' = [roles EXCEPT ![r] = IF @ = Gone THEN 0 ELSE 1 - @] /\ edition' = edition
        /\ grants' = grants /\ holders' = holders /\ perms' = perms /\ excused' = excused
        /\ Plan(p, IF roles[r] = Gone THEN <<>> ELSE EvictRole(r)) /\ watched' = watched
    BY <1>2 DEF SaveRole, Plan
  <2>2. roles' \in [Role -> {0, 1, Gone}] /\ edition' \in [{"dept_children_ids", "named"} -> Int]
    BY <1>1, <2>1 DEF Gone
  <2>3. Value(watched)' = Value(watched) \/ (watched[1] = "role" /\ watched[2] = r /\ Value(watched) = roles[r])
    BY <1>1, <2>1, WatchedFact
  <2>4. CASE roles[r] = Gone
    <3>1. <<>> \in Seq(Command) /\ Plan(p, <<>>)
      BY <2>1, <2>4
    <3>. HIDE DEF Value, Plan
    <3>. QED  BY <2>1, <2>2, <2>3, <2>4, <3>1, WriteKeeps
  <2>5. CASE roles[r] # Gone
    <3>1. {<<"role", r>>} \in SUBSET CacheKeys
      BY DEF CacheKeys
    <3>2. EvictRole(r) \in Seq(Command) /\ EvictRole(r) = <<Del({<<"role", r>>})>>
      BY <3>1, CommandFact DEF EvictRole
    <3>3. Plan(p, EvictRole(r))
      BY <2>1, <2>5
    <3>4. watched[1] = "role" /\ watched[2] = r => Removes(EvictRole(r))
      BY <1>1, <3>1, <3>2, CommandFact, KeyFact DEF Removes
    <3>. HIDE DEF Value, Plan
    <3>. QED  BY <2>1, <2>2, <2>3, <3>2, <3>3, <3>4, WriteKeeps
  <2>. QED  BY <2>4, <2>5
<1>3. ASSUME NEW R \in SUBSET Role, DeleteRoles(p, R) PROVE CachesOK'
  <2> DEFINE n == Cardinality(R)
             rest(s) == [i \in 1 .. n - 1 |-> EvictRole(s[i + 1])[1]]
             plan(s) == EvictDeletedRole(s[1]) \o rest(s)
  <2>1. /\ roles' = [r \in Role |-> IF r \in R THEN Gone ELSE roles[r]] /\ edition' = edition
        /\ perms' = perms /\ excused' = excused
    BY <1>3 DEF DeleteRoles
  <2>2. PICK s \in [1 .. n -> R] : (\A r \in R : \E i \in DOMAIN s : s[i] = r) /\ Plan(p, plan(s))
    BY <1>3 DEF DeleteRoles
  <2>3. n \in Nat /\ 1 \in 1 .. n
    <3>1. IsFiniteSet(R)
      BY FS_Subset, CacheAssumption
    <3>2. n \in Nat
      BY <3>1, FS_CardinalityType
    <3>3. R # {}
      BY <1>3 DEF DeleteRoles
    <3>4. 1 .. n # {}
      BY <2>2, <3>3
    <3>. QED  BY <3>2, <3>4
  <2>. HIDE DEF n
  <2>4. ASSUME NEW r \in Role
        PROVE  /\ {<<"role", r>>} \in SUBSET CacheKeys /\ EvictRole(r)[1] = Del({<<"role", r>>})
               /\ EvictRole(r)[1] \in Command /\ EvictRole(r) \in Seq(Command) /\ Len(EvictRole(r)) = 1
    <3>1. {<<"role", r>>} \in SUBSET CacheKeys
      BY DEF CacheKeys
    <3>2. EvictRole(r) = <<Del({<<"role", r>>})>> /\ Del({<<"role", r>>}) \in Command
      BY <3>1, CommandFact DEF EvictRole
    <3>. QED  BY <3>1, <3>2
  <2>5. s[1] \in Role /\ \A i \in 1 .. n - 1 : s[i + 1] \in Role
    BY <2>2, <2>3
  <2>6. <<Scan("menu_role_ids"), Scan("user_role_ids")>> \in Seq(Command)
    BY CommandFact
  <2> DEFINE head == EvictDeletedRole(s[1])
  <2>7. /\ head \in Seq(Command) /\ Len(head) = 3 /\ head[1] = Del({<<"role", s[1]>>})
        /\ head[2] = Scan("menu_role_ids") /\ head[3] = Scan("user_role_ids")
    <3> DEFINE x == EvictRole(s[1])
               y == <<Scan("menu_role_ids"), Scan("user_role_ids")>>
    <3>1. head = x \o y
      BY DEF EvictDeletedRole
    <3>2. x \in Seq(Command) /\ Len(x) = 1 /\ x[1] = Del({<<"role", s[1]>>})
      BY <2>4, <2>5
    <3>3. y \in Seq(Command) /\ Len(y) = 2 /\ y[1] = Scan("menu_role_ids") /\ y[2] = Scan("user_role_ids")
      BY <2>6
    <3>. HIDE DEF head, x, y
    <3>4. /\ x \o y \in Seq(Command) /\ Len(x \o y) = Len(x) + Len(y)
          /\ \A i \in 1 .. Len(x) : (x \o y)[i] = x[i]
          /\ \A i \in 1 .. Len(y) : (x \o y)[i + Len(x)] = y[i]
      <4>1. x \in Seq(Command) /\ y \in Seq(Command)
        BY <3>2, <3>3
      <4>. QED  BY <4>1, ConcatFact
    <3>. QED  BY <3>1, <3>2, <3>3, <3>4
  <2>8. rest(s) \in [1 .. n - 1 -> Command] /\ \A i \in 1 .. n - 1 : rest(s)[i] = Del({<<"role", s[i + 1]>>})
    BY <2>4, <2>5
  <2>9. rest(s) \in Seq(Command) /\ Len(rest(s)) = n - 1
    BY <2>3, <2>8
  <2>. HIDE DEF rest
  <2>10. /\ plan(s) \in Seq(Command) /\ DOMAIN plan(s) = 1 .. n + 2
         /\ plan(s)[1] = Del({<<"role", s[1]>>}) /\ plan(s)[2] = Scan("menu_role_ids")
         /\ plan(s)[3] = Scan("user_role_ids")
         /\ \A i \in 1 .. n - 1 : plan(s)[i + 3] = Del({<<"role", s[i + 1]>>})
    <3>1. plan(s) = head \o rest(s)
      OBVIOUS
    <3>. HIDE DEF head, plan
    <3> DEFINE x == head
               y == rest(s)
    <3>2. /\ x \o y \in Seq(Command) /\ Len(x \o y) = Len(x) + Len(y)
          /\ \A i \in 1 .. Len(x) : (x \o y)[i] = x[i]
          /\ \A i \in 1 .. Len(y) : (x \o y)[i + Len(x)] = y[i]
      <4>1. x \in Seq(Command) /\ y \in Seq(Command)
        BY <2>7, <2>9
      <4>. HIDE DEF x, y
      <4>. QED  BY <4>1, ConcatFact
    <3>3. Len(plan(s)) = n + 2
      BY <2>3, <2>7, <2>9, <3>1, <3>2
    <3>4. DOMAIN plan(s) = 1 .. n + 2
      BY <3>1, <3>2, <3>3
    <3>. QED  BY <2>7, <2>8, <2>9, <3>1, <3>2, <3>4
  <2>. HIDE DEF plan
  <2>11. \A r \in R : \E i \in DOMAIN plan(s) : plan(s)[i] = Del({<<"role", r>>})
    <3> SUFFICES ASSUME NEW r \in R PROVE \E i \in DOMAIN plan(s) : plan(s)[i] = Del({<<"role", r>>})
      OBVIOUS
    <3>1. PICK i \in 1 .. n : s[i] = r
      BY <2>2
    <3>2. CASE i = 1
      <4>1. 1 \in DOMAIN plan(s) /\ plan(s)[1] = Del({<<"role", r>>})
        <5>1. 1 \in 1 .. n + 2 /\ s[1] = r
          BY <2>3, <3>1, <3>2
        <5>. QED  BY <2>10, <5>1
      <4>. QED  BY <4>1
    <3>3. CASE i # 1
      <4>1. i - 1 \in 1 .. n - 1 /\ (i - 1) + 1 = i /\ (i - 1) + 3 \in 1 .. n + 2
        BY <2>3, <3>3
      <4>. QED  BY <2>10, <3>1, <4>1
    <3>. QED  BY <3>2, <3>3
  <2>12. watched' = watched
    BY <2>2 DEF Plan
  <2>13. Value(watched)' = Value(watched) \/ Removes(plan(s))
    <3>1. CASE watched[1] = "role"
      <4>1. watched[2] \in Role /\ Value(watched) = roles[watched[2]] /\ Value(watched)' = roles'[watched[2]]
        BY <1>1, <2>12, <3>1, WatchedFact
      <4>2. CASE watched[2] \in R
        <5>1. PICK i \in DOMAIN plan(s) : plan(s)[i] = Del({<<"role", watched[2]>>})
          BY <2>11, <4>2
        <5>2. watched \in Del({<<"role", watched[2]>>}).keys
          BY <1>1, <2>4, <3>1, <4>1, CommandFact, KeyFact
        <5>. QED  BY <5>1, <5>2 DEF Removes
      <4>3. CASE watched[2] \notin R
        BY <2>1, <4>1, <4>3
      <4>. QED  BY <4>2, <4>3
    <3>2. CASE watched[1] = "menu_role_ids"
      <4>1. watched \in Scan("menu_role_ids").keys /\ 2 \in DOMAIN plan(s)
        BY <1>1, <2>3, <2>10, <3>2, CommandFact
      <4>. QED  BY <2>10, <4>1 DEF Removes
    <3>3. CASE watched[1] = "user_role_ids"
      <4>1. watched \in Scan("user_role_ids").keys /\ 3 \in DOMAIN plan(s)
        BY <1>1, <2>3, <2>10, <3>3, CommandFact
      <4>. QED  BY <2>10, <4>1 DEF Removes
    <3>4. CASE watched[1] \in {"permission_menu_ids", "dept_children_ids", "named"}
      BY <1>1, <2>1, <2>12, <3>4, WatchedFact
    <3>. HIDE DEF Value
    <3>. QED  BY <1>1, <2>12, <3>1, <3>2, <3>3, <3>4, WatchedFact
  <2>14. roles' \in [Role -> {0, 1, Gone}] /\ edition' \in [{"dept_children_ids", "named"} -> Int]
    BY <1>1, <2>1
  <2>. HIDE DEF Value, Plan
  <2>. QED  BY <2>1, <2>2, <2>10, <2>13, <2>14, WriteKeeps
<1>. QED  BY <1>2, <1>3

LEMMA GrantWrites ==
  ASSUME CachesOK, NEW p \in Proc,
         \/ \E r \in Role, M \in SUBSET Menu : AssignRoleMenus(p, r, M)
         \/ \E u \in Holder, R \in SUBSET Role : AssignUserRoles(p, u, R)
         \/ \E u \in Holder : DeleteUser(p, u)
  PROVE  CachesOK'
<1>1. watched \in CacheKeys /\ roles \in [Role -> {0, 1, Gone}]
      /\ edition \in [{"dept_children_ids", "named"} -> Int]
  BY DEF CachesOK
<1>2. roles' = roles /\ perms' = perms /\ edition' = edition /\ excused' = excused /\ watched' = watched
  BY DEF AssignRoleMenus, AssignUserRoles, DeleteUser, Plan
<1>3. ASSUME NEW plan \in Seq(Command), Plan(p, plan), Value(watched)' = Value(watched) \/ Removes(plan)
      PROVE  CachesOK'
  BY <1>1, <1>2, <1>3, WriteKeeps
<1>4. ASSUME NEW r \in Role, NEW M \in SUBSET Menu, AssignRoleMenus(p, r, M) PROVE CachesOK'
  <2>1. EvictRoleMenus \in Seq(Command) /\ EvictRoleMenus = <<Scan("menu_role_ids"), Scan("permission_menu_ids")>>
    BY CommandFact DEF EvictRoleMenus
  <2>2. watched[1] = "menu_role_ids" => Removes(EvictRoleMenus)
    BY <1>1, <2>1, CommandFact DEF Removes
  <2>3. watched[1] # "menu_role_ids" => Value(watched)' = Value(watched)
    BY <1>1, <1>2, <1>4, WatchedFact DEF AssignRoleMenus
  <2>4. Plan(p, EvictRoleMenus)
    BY <1>4 DEF AssignRoleMenus
  <2>. QED  BY <1>3, <2>1, <2>2, <2>3, <2>4
<1>5. ASSUME NEW u \in Holder, (\E R \in SUBSET Role : AssignUserRoles(p, u, R)) \/ DeleteUser(p, u) PROVE CachesOK'
  <2>0. {<<"user_role_ids", u>>} \in SUBSET CacheKeys
    BY DEF CacheKeys
  <2>1. EvictUserRoles(u) \in Seq(Command) /\ EvictUserRoles(u) = <<Del({<<"user_role_ids", u>>})>>
    BY <2>0, CommandFact DEF EvictUserRoles
  <2>2. watched[1] = "user_role_ids" /\ watched[2] = u => Removes(EvictUserRoles(u))
    BY <1>1, <2>0, <2>1, CommandFact, KeyFact DEF Removes
  <2>3. \A v, r : v # u => (<<v, r>> \in holders' <=> <<v, r>> \in holders)
    BY <1>5 DEF AssignUserRoles, DeleteUser
  <2>4. grants' = grants
    BY <1>5 DEF AssignUserRoles, DeleteUser
  <2>5. ~ (watched[1] = "user_role_ids" /\ watched[2] = u) => Value(watched)' = Value(watched)
    BY <1>1, <1>2, <2>3, <2>4, WatchedFact
  <2>6. Plan(p, EvictUserRoles(u))
    BY <1>5 DEF AssignUserRoles, DeleteUser
  <2>. QED  BY <1>3, <2>1, <2>2, <2>5, <2>6
<1>. QED  BY <1>4, <1>5

LEMMA MenuWrites ==
  ASSUME CachesOK, NEW p \in Proc,
         \/ \E m \in Menu, q \in Permission \cup {None} : CreateMenu(p, m, q) \/ UpdateMenu(p, m, q)
         \/ \E M \in SUBSET Menu : DeleteMenus(p, M)
  PROVE  CachesOK'
<1>1. watched \in CacheKeys /\ roles \in [Role -> {0, 1, Gone}]
      /\ edition \in [{"dept_children_ids", "named"} -> Int]
  BY DEF CachesOK
<1>2. roles' = roles /\ holders' = holders /\ edition' = edition /\ excused' = excused /\ watched' = watched
  BY DEF CreateMenu, UpdateMenu, DeleteMenus, Plan
<1>3. ASSUME NEW plan \in Seq(Command), Plan(p, plan), Value(watched)' = Value(watched) \/ Removes(plan)
      PROVE  CachesOK'
  BY <1>1, <1>2, <1>3, WriteKeeps
<1>4. /\ EvictMenuChanged \in Seq(Command)
      /\ watched[1] = "permission_menu_ids" => Removes(EvictMenuChanged)
  BY <1>1, CommandFact DEF EvictMenuChanged, Removes
<1>5. ASSUME NEW m \in Menu, NEW q \in Permission \cup {None}, CreateMenu(p, m, q) PROVE CachesOK'
  <2>1. /\ m \notin DOMAIN perms /\ grants' = grants
        /\ perms' = [x \in DOMAIN perms \cup {m} |-> IF x = m THEN q ELSE perms[x]]
        /\ Plan(p, EvictMenuCreated(q))
    BY <1>5 DEF CreateMenu
  <2>2. ASSUME NEW f, f # q PROVE {x \in DOMAIN perms' : perms'[x] = f} = {x \in DOMAIN perms : perms[x] = f}
    BY <2>1, <2>2
  <2>3. ~ (watched[1] = "permission_menu_ids" /\ watched[2] = q) => Value(watched)' = Value(watched)
    BY <1>1, <1>2, <2>1, <2>2, WatchedFact
  <2>4. CASE q = None
    <3>1. EvictMenuCreated(q) = <<>> /\ <<>> \in Seq(Command)
      BY <2>4 DEF EvictMenuCreated
    <3>2. ~ (watched[1] = "permission_menu_ids" /\ watched[2] = q)
      BY <1>1, <1>2, <2>4, WatchedFact, CacheAssumption
    <3>. QED  BY <1>3, <2>1, <2>3, <3>1, <3>2
  <2>5. CASE q # None
    <3>1. EvictMenuCreated(q) = <<Del({<<"permission_menu_ids", q>>})>>
      BY <2>5 DEF EvictMenuCreated
    <3>2. {<<"permission_menu_ids", q>>} \in SUBSET CacheKeys
      BY <2>5 DEF CacheKeys
    <3>3. EvictMenuCreated(q) \in Seq(Command)
      BY <3>1, <3>2, CommandFact
    <3>4. watched[1] = "permission_menu_ids" /\ watched[2] = q => Removes(EvictMenuCreated(q))
      BY <1>1, <3>1, <3>2, CommandFact, KeyFact DEF Removes
    <3>. QED  BY <1>3, <2>1, <2>3, <3>3, <3>4
  <2>. QED  BY <2>4, <2>5
<1>6. ASSUME NEW m \in Menu, NEW q \in Permission \cup {None}, UpdateMenu(p, m, q) PROVE CachesOK'
  <2>1. grants' = grants /\ Plan(p, EvictMenuChanged)
    BY <1>6 DEF UpdateMenu
  <2>2. watched[1] # "permission_menu_ids" => Value(watched)' = Value(watched)
    BY <1>1, <1>2, <2>1, WatchedFact
  <2>. QED  BY <1>3, <1>4, <2>1, <2>2
<1>7. ASSUME NEW M \in SUBSET Menu, DeleteMenus(p, M) PROVE CachesOK'
  <2>1. /\ perms' = [m \in DOMAIN perms \ M |-> perms[m]] /\ grants' = {g \in grants : g[2] \notin M}
        /\ Plan(p, EvictMenusDeleted(M))
    BY <1>7 DEF DeleteMenus
  <2>2. watched[1] \notin {"permission_menu_ids", "menu_role_ids"} => Value(watched)' = Value(watched)
    BY <1>1, <1>2, WatchedFact
  <2>3. watched[1] = "menu_role_ids" /\ watched[2] \notin M => Value(watched)' = Value(watched)
    BY <1>1, <1>2, <2>1, WatchedFact
  <2>4. CASE M = {}
    <3>1. EvictMenusDeleted(M) = <<>> /\ <<>> \in Seq(Command)
      BY <2>4 DEF EvictMenusDeleted
    <3>2. \A f : {m \in DOMAIN perms' : perms'[m] = f} = {m \in DOMAIN perms : perms[m] = f}
      BY <2>1, <2>4
    <3>3. watched[1] = "permission_menu_ids" => Value(watched)' = Value(watched)
      BY <1>1, <1>2, <3>2, WatchedFact
    <3>. HIDE DEF Value, Plan
    <3>. QED  BY <1>3, <2>1, <2>2, <2>3, <2>4, <3>1, <3>3
  <2>5. CASE M # {}
    <3> DEFINE c == [cmd |-> "scan", keys |-> {"menu_role_ids"} \X M]
               plan == EvictMenusDeleted(M)
    <3>1. plan = <<c>> \o EvictMenuChanged
      BY <2>5 DEF EvictMenusDeleted
    <3>2. c \in Command
      BY DEF Command, CacheKeys
    <3>3. c.keys = {"menu_role_ids"} \X M
      OBVIOUS
    <3>. HIDE DEF c, plan
    <3>4. <<c>> \in Seq(Command) /\ Len(<<c>>) = 1 /\ <<c>>[1] = c /\ 1 \in 1 .. Len(<<c>>)
      BY <3>2
    <3>5. EvictMenuChanged = <<Scan("permission_menu_ids")>> /\ Len(EvictMenuChanged) = 1
          /\ 1 \in 1 .. Len(EvictMenuChanged)
      BY DEF EvictMenuChanged
    <3> DEFINE x == <<c>>
               y == EvictMenuChanged
    <3>. HIDE DEF x, y
    <3>6. /\ x \o y \in Seq(Command) /\ Len(x \o y) = Len(x) + Len(y)
          /\ \A i \in 1 .. Len(x) : (x \o y)[i] = x[i]
          /\ \A i \in 1 .. Len(y) : (x \o y)[i + Len(x)] = y[i]
      <4>1. x \in Seq(Command) /\ y \in Seq(Command)
        BY <1>4, <3>4 DEF x, y
      <4>. QED  BY <4>1, ConcatFact
    <3>7. /\ plan \in Seq(Command) /\ Len(plan) = 2 /\ plan[1] = c /\ plan[2] = Scan("permission_menu_ids")
          /\ 1 \in DOMAIN plan /\ 2 \in DOMAIN plan
      <4>1. plan = x \o y /\ Len(x) = 1 /\ Len(y) = 1 /\ x[1] = c /\ y[1] = Scan("permission_menu_ids")
        BY <3>1, <3>4, <3>5 DEF x, y
      <4>2. plan \in Seq(Command) /\ Len(plan) = 2 /\ plan[1] = c /\ plan[2] = Scan("permission_menu_ids")
        BY <3>6, <4>1
      <4>. QED  BY <4>2
    <3>8. watched[1] = "menu_role_ids" /\ watched[2] \in M => Removes(plan)
      BY <1>1, <3>3, <3>7, KeyFact DEF Removes
    <3>9. watched[1] = "permission_menu_ids" => Removes(plan)
      BY <1>1, <3>7, CommandFact DEF Removes
    <3>10. Plan(p, plan)
      BY <2>1 DEF plan
    <3>. HIDE DEF Value, Plan
    <3>. QED  BY <1>3, <2>2, <2>3, <3>7, <3>8, <3>9, <3>10
  <2>. QED  BY <2>4, <2>5
<1>. QED  BY <1>5, <1>6, <1>7

LEMMA OtherWrites ==
  ASSUME CachesOK, NEW p \in Proc, SaveDept(p) \/ DeleteNamedList(p) \/ SaveNamed(p)
  PROVE  CachesOK'
<1>1. watched \in CacheKeys /\ roles \in [Role -> {0, 1, Gone}]
      /\ edition \in [{"dept_children_ids", "named"} -> Int]
  BY DEF CachesOK
<1>2. roles' = roles /\ holders' = holders /\ grants' = grants /\ perms' = perms /\ watched' = watched
  BY DEF SaveDept, DeleteNamedList, SaveNamed, Plan
<1>3. ASSUME NEW n \in {"dept_children_ids", "named"}, edition' = [edition EXCEPT ![n] = 1 - @]
      PROVE  /\ edition' \in [{"dept_children_ids", "named"} -> Int]
             /\ watched[1] # n => Value(watched)' = Value(watched)
  <2>1. edition' \in [{"dept_children_ids", "named"} -> Int]
    BY <1>1, <1>3
  <2>2. \A k \in {"dept_children_ids", "named"} : k # n => edition'[k] = edition[k]
    BY <1>1, <1>3
  <2>3. watched[1] # n => Value(watched)' = Value(watched)
    BY <1>1, <1>2, <2>2, WatchedFact
  <2>. QED  BY <2>1, <2>3
<1>4. CASE SaveDept(p)
  <2>1. Plan(p, EvictDeptChildren) /\ excused' = excused
        /\ edition' = [edition EXCEPT !["dept_children_ids"] = 1 - @]
    BY <1>4 DEF SaveDept
  <2>2. EvictDeptChildren \in Seq(Command) /\ (watched[1] = "dept_children_ids" => Removes(EvictDeptChildren))
    BY <1>1, CommandFact DEF EvictDeptChildren, Removes
  <2>. QED  BY <1>1, <1>2, <1>3, <2>1, <2>2, WriteKeeps
<1>5. CASE DeleteNamedList(p)
  <2>1. Plan(p, EvictNamedCache) /\ excused' = excused /\ edition' = [edition EXCEPT !["named"] = 1 - @]
    BY <1>5 DEF DeleteNamedList
  <2>2. EvictNamedCache \in Seq(Command) /\ (watched[1] = "named" => Removes(EvictNamedCache))
    BY <1>1, CommandFact DEF EvictNamedCache, Removes
  <2>. QED  BY <1>1, <1>2, <1>3, <2>1, <2>2, WriteKeeps
<1>6. CASE SaveNamed(p)
  <2>1. /\ Plan(p, <<>>) /\ <<>> \in Seq(Command) /\ edition' = [edition EXCEPT !["named"] = 1 - @]
        /\ excused' = (excused \/ watched[1] = "named")
    BY <1>6 DEF SaveNamed
  <2>2. watched[1] = "named" => excused'
    BY <2>1
  <2>3. excused => excused'
    BY <2>1
  <2>. QED  BY <1>1, <1>2, <1>3, <2>1, <2>2, <2>3, WriteKeeps
<1>. QED  BY <1>4, <1>5, <1>6

LEMMA CachesInit == CacheInit => CachesOK
<1> SUFFICES ASSUME CacheInit PROVE CachesOK
  OBVIOUS
<1>1. roles \in [Role -> {0, 1, Gone}] /\ watched \in CacheKeys
  BY DEF CacheInit
<1>2. edition \in [{"dept_children_ids", "named"} -> Int] /\ jReq \in [Proc -> Seq(Command)]
  BY DEF CacheInit
<1>3. ~ entry.cached /\ ~ filling.cached
  BY DEF CacheInit, Empty
<1>. QED  BY <1>1, <1>2, <1>3 DEF CachesOK, CachesFollow

LEMMA CachesStep == CachesOK /\ [CacheNext]_cacheVars => CachesOK'
<1> SUFFICES ASSUME CachesOK, [CacheNext]_cacheVars PROVE CachesOK'
  OBVIOUS
<1>1. /\ roles \in [Role -> {0, 1, Gone}] /\ edition \in [{"dept_children_ids", "named"} -> Int]
      /\ watched \in CacheKeys /\ jReq \in [Proc -> Seq(Command)]
      /\ watched[1] = "role" => /\ entry.cached => entry.value # Gone
                                /\ filling.cached => filling.value # Gone
      /\ CachesFollow
  BY DEF CachesOK
<1>2. ASSUME UNCHANGED <<database, watched>>
      PROVE  /\ roles' = roles /\ edition' = edition /\ watched' = watched
             /\ Value(watched)' = Value(watched)
  BY <1>2 DEF database, Value
<1>3. CASE UNCHANGED cacheVars
  <2>1. UNCHANGED <<database, watched>> /\ jReq' = jReq /\ entry' = entry /\ filling' = filling /\ excused' = excused
    BY <1>3 DEF cacheVars, database
  <2>2. \A p \in Proc : Pending(p)' = Pending(p)
    BY <2>1 DEF Pending
  <2>. HIDE DEF Value, Pending
  <2>. QED  BY <1>1, <1>2, <2>1, <2>2 DEF CachesOK, CachesFollow
<1>4. ASSUME NEW p \in Proc, DelKeys(p) \/ ScanKeys(p) \/ EvictionFails(p) PROVE CachesOK'
  <2> DEFINE t == jReq[p]
             others == \A q \in Proc \ {p} : Pending(q)' = Pending(q)
  <2>1. t # <<>> /\ t \in Seq(Command) /\ UNCHANGED <<database, watched, filling>>
    BY <1>1, <1>4 DEF DelKeys, ScanKeys, EvictionFails
  <2>2. ASSUME NEW u \in Seq(Command), jReq' = [jReq EXCEPT ![p] = u]
        PROVE  jReq' \in [Proc -> Seq(Command)] /\ others /\ jReq'[p] = u
    BY <1>1, <2>2 DEF Pending
  <2>3. /\ Tail(t) \in Seq(Command) /\ t[1] = Head(t) /\ Head(t) \in Command
        /\ \A i \in DOMAIN t : i = 1 \/ (i - 1 \in DOMAIN Tail(t) /\ Tail(t)[i - 1] = t[i])
    BY <2>1
  <2>4. ASSUME ~ excused', entry' = entry, entry.cached,
               jReq' \in [Proc -> Seq(Command)], others,
               excused => excused',
               watched \in Pending(p) => watched \in Pending(p)'
        PROVE  CachesOK'
    <3>1. \A q \in Proc : watched \in Pending(q) => watched \in Pending(q)'
      BY <2>4
    <3>. HIDE DEF Value, Pending
    <3>. QED  BY <1>1, <1>2, <2>1, <2>4, <3>1 DEF CachesOK, CachesFollow
  <2>5. ASSUME jReq' \in [Proc -> Seq(Command)], excused' \/ ~ entry'.cached, entry' = entry \/ ~ entry'.cached
        PROVE  CachesOK'
    <3>. HIDE DEF Value, Pending
    <3>. QED  BY <1>1, <1>2, <2>1, <2>5 DEF CachesOK, CachesFollow
  <2>6. CASE DelKeys(p)
    <3>1. /\ jReq' = [jReq EXCEPT ![p] = Tail(t)]
          /\ IF watched \in Head(t).keys THEN entry' = Empty ELSE UNCHANGED <<entry, excused>>
      BY <1>1, <2>6 DEF DelKeys
    <3>2. jReq' \in [Proc -> Seq(Command)] /\ others /\ jReq'[p] = Tail(t)
      BY <2>2, <2>3, <3>1
    <3>3. CASE watched \in Head(t).keys
      BY <2>5, <3>1, <3>2, <3>3 DEF Empty
    <3>4. CASE watched \notin Head(t).keys
      <4>1. watched \in Pending(p) => watched \in Pending(p)'
        <5> SUFFICES ASSUME NEW i \in DOMAIN t, watched \in t[i].keys PROVE watched \in Pending(p)'
          BY DEF Pending
        <5>1. i # 1
          BY <2>3, <3>4
        <5>2. i - 1 \in DOMAIN Tail(t) /\ watched \in Tail(t)[i - 1].keys
          BY <2>3, <5>1
        <5>3. watched' = watched
          BY <2>1
        <5>. HIDE DEF t
        <5>. QED  BY <3>2, <5>2, <5>3 DEF Pending
      <4>. QED  BY <2>4, <2>5, <3>1, <3>2, <3>4, <4>1
    <3>. QED  BY <3>3, <3>4
  <2>7. CASE ScanKeys(p)
    <3> DEFINE c == Head(t)
               u == IF entry.cached THEN <<Del(c.keys)>> \o Tail(t) ELSE Tail(t)
    <3>1. jReq' = [jReq EXCEPT ![p] = u] /\ entry' = entry /\ excused' = excused
      BY <1>1, <2>7 DEF ScanKeys
    <3>2. CASE ~ entry.cached
      <4>1. jReq' \in [Proc -> Seq(Command)]
        BY <2>2, <2>3, <3>1, <3>2
      <4>. QED  BY <2>5, <3>1, <3>2, <4>1
    <3>3. CASE entry.cached
      <4> DEFINE d == Del(c.keys)
                 x == <<d>>
                 y == Tail(t)
      <4>1. d \in Command /\ d.keys = c.keys
        <5>1. c.keys \in SUBSET CacheKeys
          BY <2>3 DEF Command
        <5>. QED  BY <5>1, CommandFact
      <4>2. u = x \o y
        BY <3>3
      <4>. HIDE DEF d, c, t
      <4>3. x \in Seq(Command) /\ Len(x) = 1 /\ x[1] = d /\ y \in Seq(Command)
        BY <2>3, <4>1
      <4>. HIDE DEF x, y, u
      <4>4. /\ u \in Seq(Command) /\ Len(u) = 1 + Len(y) /\ 1 \in 1 .. Len(u) /\ u[1] = d
            /\ \A i \in 1 .. Len(y) : u[i + 1] = y[i] /\ i + 1 \in 1 .. Len(u)
        <5>1. /\ x \o y \in Seq(Command) /\ Len(x \o y) = Len(x) + Len(y)
              /\ \A i \in 1 .. Len(x) : (x \o y)[i] = x[i]
              /\ \A i \in 1 .. Len(y) : (x \o y)[i + Len(x)] = y[i]
          BY <4>3, ConcatFact
        <5>2. Len(y) \in Nat
          BY <4>3
        <5>. QED  BY <4>2, <4>3, <5>1, <5>2
      <4>5. DOMAIN u = 1 .. Len(u) /\ DOMAIN y = 1 .. Len(y)
        BY <4>3, <4>4
      <4>6. jReq' \in [Proc -> Seq(Command)] /\ others /\ jReq'[p] = u
        BY <2>2, <3>1, <4>4
      <4>7. \A i \in DOMAIN t : \E j \in DOMAIN u : u[j].keys = t[i].keys
        <5> SUFFICES ASSUME NEW i \in DOMAIN t PROVE \E j \in DOMAIN u : u[j].keys = t[i].keys
          OBVIOUS
        <5>1. CASE i = 1
          BY <2>3, <4>1, <4>4, <4>5, <5>1 DEF c
        <5>2. CASE i # 1
          <6>1. i - 1 \in 1 .. Len(y) /\ y[i - 1] = t[i]
            BY <2>3, <4>5, <5>2 DEF y
          <6>2. (i - 1) + 1 \in DOMAIN u /\ u[(i - 1) + 1] = t[i]
            BY <4>4, <4>5, <6>1
          <6>. QED  BY <6>2
        <5>. QED  BY <5>1, <5>2
      <4>8. watched \in Pending(p) => watched \in Pending(p)'
        <5>1. watched' = watched
          BY <2>1
        <5>. QED  BY <4>6, <4>7, <5>1 DEF Pending, t
      <4>. QED  BY <2>4, <2>5, <3>1, <3>3, <4>6, <4>8
    <3>. QED  BY <3>2, <3>3
  <2>8. CASE EvictionFails(p)
    <3>1. /\ jReq' = [jReq EXCEPT ![p] = <<>>] /\ entry' = entry
          /\ excused' = (excused \/ \E i \in DOMAIN jReq[p] : watched \in jReq[p][i].keys)
      BY <2>8 DEF EvictionFails
    <3>2. jReq' \in [Proc -> Seq(Command)] /\ others
      <4>1. <<>> \in Seq(Command)
        OBVIOUS
      <4>. QED  BY <2>2, <3>1, <4>1
    <3>3. watched \in Pending(p) => excused'
      BY <3>1 DEF Pending
    <3>4. excused => excused'
      BY <3>1
    <3>. QED  BY <2>4, <2>5, <3>1, <3>2, <3>3, <3>4
  <2>. QED  BY <1>4, <2>6, <2>7, <2>8
<1>5. CASE JavaReads
  <2>1. /\ UNCHANGED <<database, watched, entry, jReq, excused>> /\ ~ entry.cached
        /\ filling' = Filled(Value(watched)) /\ Cacheable(watched)
    BY <1>5 DEF JavaReads
  <2>2. watched[1] = "role" => Value(watched) # Gone
    BY <2>1 DEF Cacheable, Value
  <2>3. filling'.value = Value(watched)
    BY <2>1 DEF Filled
  <2>. HIDE DEF Value, Pending
  <2>. QED  BY <1>1, <1>2, <2>1, <2>2, <2>3 DEF CachesOK, CachesFollow
<1>6. CASE JavaPuts
  <2>1. /\ UNCHANGED <<database, watched, jReq>> /\ filling.cached /\ entry' = filling /\ filling' = Empty
        /\ excused' = (filling.value # Value(watched))
    BY <1>6 DEF JavaPuts
  <2>2. ~ filling'.cached
    BY <2>1 DEF Empty
  <2>. HIDE DEF Value, Pending
  <2>. QED  BY <1>1, <1>2, <2>1, <2>2 DEF CachesOK, CachesFollow
<1>7. ASSUME NEW p \in Proc, CacheWrite(p) PROVE CachesOK'
  BY <1>7, RoleWrites, GrantWrites, MenuWrites, OtherWrites DEF CacheWrite
<1>. QED  BY <1>3, <1>4, <1>5, <1>6, <1>7 DEF CacheNext, CacheStep

\* For any roles, menus, users and permissions, whatever writes overlap with one
\* another and with Java's reading: every write evicts every entry it makes stale
\* (evictAfterWrite), so a stale entry is about to be removed, or an eviction has
\* failed, or Java was late, or it is one of the named caches that single saves
\* leave alone.
THEOREM CachesFollowWrites == CacheSpec => []CachesFollow
<1>1. CachesOK => CachesFollow
  BY DEF CachesOK
<1>. QED  BY <1>1, CachesInit, CachesStep, PTL DEF CacheSpec
=============================================================================
