--------------------------- MODULE SmsCode_proofs ---------------------------
(***************************************************************************)
(* A verification code is a one-time credential, for any number of         *)
(* requests, codes and failures: SmsCode implements SingleUse.             *)
(***************************************************************************)
EXTENDS SmsCode, FiniteSetTheorems, TLAPS

LEMMA IdFacts ==
  /\ Id \subseteq Nat
  /\ 0 \notin Id
  /\ \A i \in {0} \union Id : i < MaxRow => i + 1 \in Id
BY ConstantsAssumption DEF Id

LEMMA TimeFacts == Time \subseteq Nat /\ 0 \in Time
BY ConstantsAssumption DEF Time

LEMMA NewestFact ==
  ASSUME NEW I \in SUBSET Id, NEW i \in Newest(I)
  PROVE  i \in {0} \union Id /\ (i # 0 => i \in I)
BY DEF Newest

LEMMA IdleTyped == Idle \in Request
BY ConstantsAssumption, TimeFacts DEF Idle, Request

LEMMA Initially == Init => IInv
<1> SUFFICES ASSUME Init PROVE IInv
  OBVIOUS
<1>1. TypeOK
  BY ConstantsAssumption, TimeFacts, IdleTyped DEF Init, TypeOK, Row, Ledger
<1>2. RowsInOrder /\ HoldsRow
  BY IdFacts DEF Init, RowsInOrder, HoldsRow, Idle
<1>. QED  BY <1>1, <1>2 DEF IInv

\* A step that changes only the request, to a well-formed r, is safe.
LEMMA RequestOnly ==
  ASSUME IInv, NEW p \in Proc, NEW r \in Request, Step(p, r),
         r.pc \in {"deliver", "discard", "judge", "mark", "password"} =>
           r.id \in Id,
         row' = row, last' = last, now' = now, told' \in Ledger
  PROVE  IInv'
<1>1. TypeOK'
  BY DEF IInv, TypeOK, Step
<1>2. HoldsRow'
  BY DEF IInv, TypeOK, HoldsRow, Step
<1>. QED  BY <1>1, <1>2 DEF IInv, RowsInOrder

\* The same for a step that also moves rows on, whose ids stay in order.
LEMMA RowStep ==
  ASSUME IInv, NEW p \in Proc, NEW r \in Request, Step(p, r),
         r.pc \in {"deliver", "discard", "judge", "mark", "password"} =>
           r.id \in Id,
         row' \in [Id -> Row], last' \in {0} \union Id, RowsInOrder',
         now' = now, told' \in Ledger
  PROVE  IInv'
<1>1. TypeOK'
  BY DEF IInv, TypeOK, Step
<1>2. HoldsRow'
  BY DEF IInv, TypeOK, HoldsRow, Step
<1>. QED  BY <1>1, <1>2 DEF IInv

LEMMA FinishOK ==
  ASSUME IInv, NEW p \in Proc, Finish(p),
         row' = row, last' = last, now' = now, told' \in Ledger
  PROVE  IInv'
<1>1. Idle.pc = "idle"
  BY DEF Idle
<1>. QED  BY <1>1, IdleTyped, RequestOnly DEF Finish

-----------------------------------------------------------------------------

LEMMA SendKeeps ==
  ASSUME IInv, NEW p \in Proc, Send(p)
  PROVE  IInv'
<1> DEFINE q == req[p]
<1>1. /\ q \in Request /\ told \in Ledger /\ row \in [Id -> Row]
      /\ last \in {0} \union Id /\ now \in Time
  BY DEF IInv, TypeOK
<1>2. q.pc \in {"deliver", "discard"} => q.id \in Id
  BY DEF IInv, HoldsRow
<1>3. ASSUME NEW s \in Scene, StartSend(p, s) PROVE IInv'
  <2> DEFINE r == [Idle EXCEPT !.pc = "last", !.op = "send", !.scene = s]
  <2>1. r \in Request /\ r.pc = "last"
    BY IdleTyped DEF Request, Idle
  <2>2. Step(p, r) /\ row' = row /\ last' = last /\ now' = now /\ told' = told
    BY <1>3 DEF StartSend
  <2>. HIDE DEF r
  <2>. QED  BY <1>1, <2>1, <2>2, RequestOnly
<1>4. CASE ReadLast(p)
  <2>1. PICK i \in Newest({j \in Id : Kept(j)}) :
          Step(p, [q EXCEPT !.pc = "limit", !.id = i])
    BY <1>4 DEF ReadLast
  <2> DEFINE r == [q EXCEPT !.pc = "limit", !.id = i]
  <2>2. i \in {0} \union Id
    BY NewestFact
  <2>3. r \in Request /\ r.pc = "limit"
    BY <1>1, <2>2 DEF Request
  <2>4. Step(p, r) /\ row' = row /\ last' = last /\ now' = now /\ told' = told
    BY <1>4, <2>1 DEF ReadLast
  <2>. HIDE DEF r
  <2>. QED  BY <1>1, <2>3, <2>4, RequestOnly
<1>5. CASE RefuseSend(p)
  BY <1>1, <1>5, FinishOK DEF RefuseSend
<1>6. ASSUME NEW c \in Code, DrawCode(p, c) PROVE IInv'
  <2> DEFINE x == IF SameDay(p) THEN row[q.id].index + 1 ELSE 1
             r == [q EXCEPT !.pc = "insert", !.code = c, !.time = now,
                            !.index = x]
  <2>1. x \in Nat
    <3>1. SameDay(p) => q.id \in Id
      BY <1>1 DEF SameDay, Request
    <3>2. SameDay(p) => row[q.id].index \in Nat
      BY <1>1, <3>1 DEF Row
    <3>. QED  BY <3>2
  <2>2. r \in Request /\ r.pc = "insert"
    <3>. HIDE DEF x
    <3>. QED  BY <1>1, <2>1 DEF Request
  <2>3. Step(p, r) /\ row' = row /\ last' = last /\ now' = now /\ told' = told
    BY <1>6 DEF DrawCode
  <2>. HIDE DEF r
  <2>. QED  BY <1>1, <2>2, <2>3, RequestOnly
<1>7. CASE InsertSmsCode(p)
  <2> DEFINE n == [state |-> "unused", code |-> q.code, scene |-> q.scene,
                   time |-> q.time, index |-> q.index]
             r == [q EXCEPT !.pc = "deliver", !.id = last + 1]
  <2>1. last + 1 \in Id
    BY <1>1, <1>7, IdFacts DEF InsertSmsCode
  <2>2. n \in Row /\ n.state = "unused"
    BY <1>1 DEF Request, Row
  <2>3. r \in Request /\ r.id = last + 1
    BY <1>1, <2>1 DEF Request
  <2>4. /\ row' = [row EXCEPT ![last + 1] = n] /\ last' = last + 1
        /\ Step(p, r) /\ now' = now /\ told' = told
    BY <1>7 DEF InsertSmsCode
  <2>. HIDE DEF n, r
  <2>5. row' \in [Id -> Row]
    BY <1>1, <2>1, <2>2, <2>4
  <2>6. RowsInOrder'
    BY <1>1, <2>1, <2>2, <2>4, IdFacts DEF IInv, RowsInOrder
  <2>. QED  BY <1>1, <2>1, <2>3, <2>4, <2>5, <2>6, RowStep
<1>8. CASE SendCode(p)
  <2>1. told' \in Ledger
    BY <1>1, <1>2, <1>8 DEF SendCode, At, Ledger
  <2>. QED  BY <1>8, <2>1, FinishOK DEF SendCode
<1>9. CASE SendCodeFails(p)
  <2> DEFINE r == [q EXCEPT !.pc = "discard"]
  <2>1. r \in Request /\ r.id \in Id
    BY <1>1, <1>2, <1>9 DEF SendCodeFails, At, Request
  <2>2. Step(p, r) /\ row' = row /\ last' = last /\ now' = now /\ told' = told
    BY <1>9 DEF SendCodeFails
  <2>. HIDE DEF r
  <2>. QED  BY <1>1, <2>1, <2>2, RequestOnly
<1>10. CASE DiscardSmsCode(p)
  <2>1. PICK i \in Newest(Unused(q.code, q.scene)) :
          /\ row' = IF i = 0 THEN row ELSE [row EXCEPT ![i].state = "gone"]
          /\ \/ told' = [told EXCEPT !.early = @ \union {q.id}]
             \/ told' = [told EXCEPT !.withdrawn = @ \union {q.id}]
    BY <1>10 DEF DiscardSmsCode
  <2>2. i # 0 => i \in Id /\ row[i].state = "unused"
    BY NewestFact DEF Unused, Matching
  <2>3. /\ row' \in [Id -> Row]
        /\ \A j \in Id : row'[j].state = "none" <=> row[j].state = "none"
    BY <1>1, <2>1, <2>2 DEF Row
  <2>4. told' \in Ledger
    BY <1>1, <1>2, <1>10, <2>1 DEF DiscardSmsCode, At, Ledger
  <2>5. last' = last /\ now' = now /\ Finish(p)
    BY <1>10 DEF DiscardSmsCode
  <2>6. RowsInOrder'
    BY <2>3, <2>5 DEF IInv, RowsInOrder
  <2>7. Idle.pc = "idle"
    BY DEF Idle
  <2>. QED  BY <1>1, <2>3, <2>4, <2>5, <2>6, <2>7, IdleTyped, RowStep DEF Finish
<1>. QED  BY <1>3, <1>4, <1>5, <1>6, <1>7, <1>8, <1>9, <1>10 DEF Send

LEMMA UseKeeps ==
  ASSUME IInv, NEW p \in Proc, Use(p)
  PROVE  IInv'
<1> DEFINE q == req[p]
<1>1. /\ q \in Request /\ told \in Ledger /\ row \in [Id -> Row]
      /\ last \in {0} \union Id /\ now \in Time
  BY DEF IInv, TypeOK
<1>2. q.pc \in {"judge", "mark", "password"} => q.id \in Id
  BY DEF IInv, HoldsRow
<1>3. ASSUME NEW o \in {"use", "reset"}, NEW c \in Code, NEW s \in Scene,
             StartUse(p, o, c, s)
      PROVE  IInv'
  <2> DEFINE r == [Idle EXCEPT !.pc = "find", !.op = o, !.code = c, !.scene = s]
  <2>1. r \in Request /\ r.pc = "find"
    BY IdleTyped DEF Request, Idle
  <2>2. Step(p, r) /\ row' = row /\ last' = last /\ now' = now /\ told' = told
    BY <1>3 DEF StartUse
  <2>. HIDE DEF r
  <2>. QED  BY <1>1, <2>1, <2>2, RequestOnly
<1>4. CASE NoSuchCode(p)
  BY <1>1, <1>4, FinishOK DEF NoSuchCode
<1>5. CASE LastSmsCode(p)
  <2>1. PICK i \in Newest(Matching(q.code, q.scene)) \ {0} :
          Step(p, [q EXCEPT !.pc = "judge", !.id = i,
                            !.used = (row[i].state = "used")])
    BY <1>5 DEF LastSmsCode
  <2> DEFINE r == [q EXCEPT !.pc = "judge", !.id = i,
                            !.used = (row[i].state = "used")]
  <2>2. i \in Id
    BY NewestFact DEF Matching
  <2>3. r \in Request /\ r.id = i
    BY <1>1, <2>2 DEF Request
  <2>4. Step(p, r) /\ row' = row /\ last' = last /\ now' = now /\ told' = told
    BY <1>5, <2>1 DEF LastSmsCode
  <2>. HIDE DEF r
  <2>. QED  BY <1>1, <2>2, <2>3, <2>4, RequestOnly
<1>6. CASE Judge(p)
  <2> DEFINE r == [q EXCEPT !.pc = "mark"]
  <2>1. row' = row /\ last' = last /\ now' = now /\ told' = told
    BY <1>6 DEF Judge
  <2>2. CASE Finish(p)
    BY <1>1, <2>1, <2>2, FinishOK
  <2>3. CASE Step(p, r)
    <3>1. r \in Request /\ r.id \in Id
      BY <1>1, <1>2, <1>6 DEF Judge, At, Request
    <3>. HIDE DEF r
    <3>. QED  BY <1>1, <2>1, <2>3, <3>1, RequestOnly
  <2>. QED  BY <1>6, <2>2, <2>3 DEF Judge
<1>7. CASE UseSmsCode(p)
  <2> DEFINE r == [q EXCEPT !.pc = "password"]
  <2>1. /\ q.id \in Id /\ row[q.id].state = "unused"
        /\ row' = [row EXCEPT ![q.id].state = "used"]
        /\ last' = last /\ now' = now
    BY <1>2, <1>7 DEF UseSmsCode, At
  <2>2. /\ row' \in [Id -> Row]
        /\ \A j \in Id : row'[j].state = "none" <=> row[j].state = "none"
    BY <1>1, <2>1 DEF Row
  <2>3. told' \in Ledger
    BY <1>1, <1>7, <2>1 DEF UseSmsCode, Ledger
  <2>4. RowsInOrder'
    BY <2>1, <2>2 DEF IInv, RowsInOrder
  <2>5. CASE Finish(p)
    <3>1. Idle.pc = "idle"
      BY DEF Idle
    <3>. QED  BY <1>1, <2>1, <2>2, <2>3, <2>4, <2>5, <3>1, IdleTyped, RowStep DEF Finish
  <2>6. CASE Step(p, r)
    <3>1. r \in Request /\ r.id \in Id
      BY <1>1, <2>1 DEF Request
    <3>. HIDE DEF r
    <3>. QED  BY <1>1, <2>1, <2>2, <2>3, <2>4, <2>6, <3>1, RowStep
  <2>. QED  BY <1>7, <2>5, <2>6 DEF UseSmsCode
<1>8. CASE UseTooLate(p) \/ UpdatePassword(p)
  BY <1>1, <1>8, FinishOK DEF UseTooLate, UpdatePassword
<1>. QED  BY <1>3, <1>4, <1>5, <1>6, <1>7, <1>8 DEF Use

\* What a request that ends as it stands leaves in the ledger.
LEMMA AbortTells ==
  ASSUME NEW p \in Proc, Abort(p)
  PROVE  \/ At(p, "password") /\ told' = [told EXCEPT !.burnt = @ \union {req[p].id}]
         \/ /\ At(p, "deliver") \/ At(p, "discard")
            /\ told' = [told EXCEPT !.stranded = @ \union {req[p].id}]
         \/ ~At(p, "deliver") /\ ~At(p, "discard") /\ told' = told
BY DEF Abort, At

LEMMA AbortKeeps ==
  ASSUME IInv, NEW p \in Proc, Abort(p)
  PROVE  IInv'
<1>1. told \in Ledger
  BY DEF IInv, TypeOK
<1>2. At(p, "password") \/ At(p, "deliver") \/ At(p, "discard") => req[p].id \in Id
  BY DEF IInv, HoldsRow, At
<1>3. told' \in Ledger
  BY <1>1, <1>2, AbortTells DEF Ledger
<1>. QED  BY <1>3, FinishOK DEF Abort

LEMMA TickKeeps == IInv /\ Tick => IInv'
<1> SUFFICES ASSUME IInv, Tick PROVE IInv'
  OBVIOUS
<1>1. now' \in Time
  BY ConstantsAssumption DEF IInv, TypeOK, Tick, Time
<1>. QED  BY <1>1 DEF IInv, TypeOK, RowsInOrder, HoldsRow, Tick

\* The table and the requests stay well formed.
THEOREM Inductive == Spec => []IInv
<1>1. IInv /\ [Next]_vars => IInv'
  <2>1. IInv /\ UNCHANGED vars => IInv'
    BY DEF IInv, TypeOK, RowsInOrder, HoldsRow, vars
  <2>. QED  BY <2>1, SendKeeps, UseKeeps, AbortKeeps, TickKeeps DEF Next
<1>. QED  BY <1>1, Initially, PTL DEF Spec

\* Every variable keeps its type.
THEOREM TypeCorrect == Spec => []TypeOK
<1>1. IInv => TypeOK
  BY DEF IInv
<1>. QED  BY <1>1, Inductive, PTL

-----------------------------------------------------------------------------
(* Refinement.                                                             *)

Tickets == [i \in Id |-> Ticket[row[i].state]]

\* Steps that leave the states of the rows and the grants alone stutter.
LEMMA Stutters ==
  ASSUME row' = row, told'.grants = told.grants
  PROVE  UNCHANGED <<Tickets, told.grants>>
BY DEF Tickets

\* One row moves on; no request is let through.
LEMMA RowMoves ==
  ASSUME IInv, NEW i \in Id, NEW r \in Row,
         row' = [row EXCEPT ![i] = r], told'.grants = told.grants,
         \/ row[i].state = "none" /\ r.state = "unused"
         \/ row[i].state = "unused" /\ r.state = "gone"
  PROVE  SU!Next
<1>1. row \in [Id -> Row]
  BY DEF IInv, TypeOK
<1>2. Tickets' = [Tickets EXCEPT ![i] = Ticket[r.state]]
  BY <1>1 DEF Tickets
<1>3. Tickets[i] = Ticket[row[i].state]
  BY DEF Tickets
<1>4. CASE row[i].state = "none" /\ r.state = "unused"
  <2>1. Tickets[i] = "unissued" /\ Tickets' = [Tickets EXCEPT ![i] = "valid"]
    BY <1>2, <1>3, <1>4 DEF Ticket
  <2>. QED  BY <2>1 DEF SU!Next, SU!Issue, SU!Move, Tickets
<1>5. CASE row[i].state = "unused" /\ r.state = "gone"
  <2>1. Tickets[i] = "valid" /\ Tickets' = [Tickets EXCEPT ![i] = "void"]
    BY <1>2, <1>3, <1>5 DEF Ticket
  <2>. QED  BY <2>1 DEF SU!Next, SU!Cancel, SU!Move, Tickets
<1>. QED  BY <1>4, <1>5

LEMMA StepMaps ==
  ASSUME IInv, Next
  PROVE  SU!Next \/ UNCHANGED <<Tickets, told.grants>>
<1>1. row \in [Id -> Row] /\ told \in Ledger /\ last \in {0} \union Id
  BY DEF IInv, TypeOK
<1>2. CASE Tick
  BY <1>2, Stutters DEF Tick
<1>3. ASSUME NEW p \in Proc, Abort(p)
      PROVE  UNCHANGED <<Tickets, told.grants>>
  <2>1. row' = row /\ told'.grants = told.grants
    BY <1>1, <1>3, AbortTells DEF Abort, Ledger
  <2>. QED  BY <2>1, Stutters
<1>4. ASSUME NEW p \in Proc, Send(p)
      PROVE  SU!Next \/ UNCHANGED <<Tickets, told.grants>>
  <2>1. CASE InsertSmsCode(p)
    <3>1. last + 1 \in Id
      BY <1>1, <2>1, IdFacts DEF InsertSmsCode
    <3>2. row[last + 1].state = "none"
      BY <1>1, <3>1, IdFacts DEF IInv, RowsInOrder
    <3> DEFINE n == [state |-> "unused", code |-> req[p].code,
                     scene |-> req[p].scene, time |-> req[p].time,
                     index |-> req[p].index]
    <3>3. n \in Row /\ n.state = "unused"
      BY DEF IInv, TypeOK, Request, Row
    <3>4. row' = [row EXCEPT ![last + 1] = n] /\ told' = told
      BY <2>1 DEF InsertSmsCode
    <3>. HIDE DEF n
    <3>. QED  BY <3>1, <3>2, <3>3, <3>4, RowMoves
  <2>2. CASE DiscardSmsCode(p)
    <3>1. PICK i \in Newest(Unused(req[p].code, req[p].scene)) :
            /\ row' = IF i = 0 THEN row ELSE [row EXCEPT ![i].state = "gone"]
            /\ \/ told' = [told EXCEPT !.early = @ \union {req[p].id}]
               \/ told' = [told EXCEPT !.withdrawn = @ \union {req[p].id}]
      BY <2>2 DEF DiscardSmsCode
    <3>2. told'.grants = told.grants
      BY <1>1, <3>1 DEF Ledger
    <3>3. CASE i = 0
      BY <3>1, <3>2, <3>3, Stutters
    <3>4. CASE i # 0
      <4>1. i \in Id /\ row[i].state = "unused"
        BY <3>4, NewestFact DEF Unused, Matching
      <4> DEFINE r == [row[i] EXCEPT !.state = "gone"]
      <4>2. r \in Row /\ r.state = "gone" /\ row' = [row EXCEPT ![i] = r]
        BY <1>1, <3>1, <3>4, <4>1 DEF Row
      <4>. HIDE DEF r
      <4>. QED  BY <3>2, <4>1, <4>2, RowMoves
    <3>. QED  BY <3>3, <3>4
  <2>3. CASE SendCode(p)
    BY <1>1, <2>3, Stutters DEF SendCode, Ledger
  <2>4. CASE \/ \E s \in Scene : StartSend(p, s)
             \/ ReadLast(p) \/ RefuseSend(p) \/ SendCodeFails(p)
             \/ \E c \in Code : DrawCode(p, c)
    BY <2>4, Stutters DEF StartSend, ReadLast, RefuseSend, SendCodeFails, DrawCode
  <2>. QED  BY <1>4, <2>1, <2>2, <2>3, <2>4 DEF Send
<1>5. ASSUME NEW p \in Proc, Use(p)
      PROVE  SU!Next \/ UNCHANGED <<Tickets, told.grants>>
  <2>1. CASE UseSmsCode(p)
    <3>1. PICK i \in Id : i = req[p].id /\ row[i].state = "unused"
      BY <2>1 DEF UseSmsCode, At, IInv, HoldsRow
    <3>2. /\ row' = [row EXCEPT ![i].state = "used"]
          /\ told' = [told EXCEPT !.grants[i] = @ + 1]
      BY <2>1, <3>1 DEF UseSmsCode
    <3>3. Tickets' = [Tickets EXCEPT ![i] = "spent"] /\ Tickets[i] = "valid"
      <4>1. PICK r \in Row : r.state = "used" /\ row' = [row EXCEPT ![i] = r]
        BY <1>1, <3>1, <3>2 DEF Row
      <4>2. Tickets' = [Tickets EXCEPT ![i] = Ticket[r.state]]
        BY <1>1, <4>1 DEF Tickets
      <4>. QED  BY <3>1, <4>1, <4>2 DEF Tickets, Ticket
    <3>4. told'.grants = [told.grants EXCEPT ![i] = @ + 1]
      BY <1>1, <3>1, <3>2 DEF Ledger
    <3>5. SU!Redeem(i)
      BY <3>3, <3>4 DEF SU!Redeem, SU!Move, Tickets
    <3>. QED  BY <3>1, <3>5 DEF SU!Next
  <2>2. CASE \/ \E o \in {"use", "reset"}, c \in Code, s \in Scene :
                  StartUse(p, o, c, s)
             \/ NoSuchCode(p) \/ LastSmsCode(p) \/ Judge(p) \/ UseTooLate(p)
             \/ UpdatePassword(p)
    BY <2>2, Stutters DEF StartUse, NoSuchCode, LastSmsCode, Judge, UseTooLate, UpdatePassword
  <2>. QED  BY <1>5, <2>1, <2>2 DEF Use
<1>. QED  BY <1>2, <1>3, <1>4, <1>5 DEF Next

\* Whatever requests, failures and crashes interleave, every row of
\* system_sms_code behaves like a one-time credential.
THEOREM CodesAreSingleUse == Spec => ImplementsSingleUse
<1>1. Init => SU!Init
  BY DEF Init, SU!Init, Ticket
<1>2. IInv /\ [Next]_vars => [SU!Next]_<<Tickets, told.grants>>
  <2>1. UNCHANGED vars => UNCHANGED <<Tickets, told.grants>>
    BY DEF vars, Tickets
  <2>. QED  BY <2>1, StepMaps
<1>3. IInv /\ [Next]_vars => [SU!Next]_<<[i \in Id |-> Ticket[row[i].state]], told.grants>>
  BY <1>2 DEF Tickets
<1>. QED
  BY <1>1, <1>3, Inductive, PTL DEF Spec, ImplementsSingleUse, SU!Spec

\* Hence no two requests are let through on one code.
THEOREM CodeUsedAtMostOnce == Spec => []SU!AtMostOnce
BY CodesAreSingleUse, SU!OnceOnly, PTL DEF ImplementsSingleUse

-----------------------------------------------------------------------------
(* Undelivered codes.                                                      *)

Sending(p) == req[p].pc \in {"deliver", "discard"}

\* The sends that ended without withdrawing a row.
Closed == told.sent \union told.stranded \union told.early

\* The rows that no send has withdrawn, by value.
Underway(c, s) ==
  {i \in 1 .. last \ told.withdrawn : row[i].code = c /\ row[i].scene = s}

\* A request that sends knows the value of its own row, and decides what becomes
\* of it.
SendingOK(p) ==
  Sending(p) => /\ req[p].id \in 1 .. last
                /\ req[p].id \notin told.withdrawn /\ req[p].id \notin Closed
                /\ row[req[p].id].code = req[p].code
                /\ row[req[p].id].scene = req[p].scene

\* Every row has one fate: a request still sends it, or one is told of it.
LedgerOK ==
  /\ told.withdrawn \subseteq 1 .. last /\ Closed \subseteq 1 .. last
  /\ told.withdrawn \intersect Closed = {}
  /\ \A i \in 1 .. last : \/ i \in told.withdrawn \/ i \in Closed
                          \/ \E p \in Proc : Sending(p) /\ req[p].id = i
  /\ \A p, q \in Proc : Sending(p) /\ Sending(q) /\ req[p].id = req[q].id => p = q

ValuesOK ==
  /\ LedgerOK
  /\ \A p \in Proc : SendingOK(p)
  /\ \A c \in Code, s \in Scene :
       Cardinality(Matching(c, s)) = Cardinality(Underway(c, s))

LEMMA ValuesCount == ValuesOK => UndeliveredUnusable
<1> SUFFICES ASSUME ValuesOK PROVE UndeliveredUnusable
  OBVIOUS
<1>1. Accounted = 1 .. last \ told.withdrawn
  <2>1. \A i \in Accounted : i \in 1 .. last /\ i \notin told.withdrawn
    BY DEF ValuesOK, LedgerOK, SendingOK, Sending, Closed, Accounted, OnTheWay
  <2>2. \A i \in 1 .. last : i \notin told.withdrawn => i \in Accounted
    BY DEF ValuesOK, LedgerOK, Sending, Closed, Accounted, OnTheWay
  <2>. QED  BY <2>1, <2>2
<1>. QED  BY <1>1 DEF ValuesOK, UndeliveredUnusable, Underway

\* Sets of ids are finite, and are counted as one expects.
LEMMA CountFact ==
  ASSUME NEW S \in SUBSET Id
  PROVE  /\ IsFiniteSet(S) /\ Cardinality(S) \in Nat
         /\ Cardinality(S) = 0 <=> S = {}
         /\ \A T \in SUBSET S : Cardinality(T) <= Cardinality(S)
         /\ \A i \in S : Cardinality(S \ {i}) = Cardinality(S) - 1
         /\ \A i \in Id \ S : Cardinality(S \union {i}) = Cardinality(S) + 1
<1>1. IsFiniteSet(Id)
  <2>1. 1 \in Int /\ MaxRow \in Int
    BY ConstantsAssumption
  <2>. QED  BY <2>1, FS_Interval DEF Id
<1>2. IsFiniteSet(S)
  BY <1>1, FS_Subset, Zenon
<1>3. Cardinality(S) \in Nat /\ (Cardinality(S) = 0 <=> S = {})
  BY <1>2, FS_CardinalityType, FS_EmptySet
<1>4. \A T \in SUBSET S : Cardinality(T) <= Cardinality(S)
  BY <1>2, FS_Subset
<1>5. \A i \in S : Cardinality(S \ {i}) = Cardinality(S) - 1
  BY <1>2, FS_RemoveElement
<1>6. \A i \in Id \ S : Cardinality(S \union {i}) = Cardinality(S) + 1
  BY <1>2, FS_AddElement
<1>. QED  BY <1>2, <1>3, <1>4, <1>5, <1>6

\* A step that leaves the rows, their fates and the requests that send alone.
LEMMA ValuesKept ==
  ASSUME IInv, ValuesOK,
         last' = last, told'.withdrawn = told.withdrawn, Closed' = Closed,
         \A i \in Id : /\ row'[i].code = row[i].code /\ row'[i].scene = row[i].scene
                       /\ Kept(i)' <=> Kept(i),
         \A p \in Proc : /\ Sending(p)' <=> Sending(p)
                         /\ Sending(p) => /\ req'[p].id = req[p].id
                                          /\ req'[p].code = req[p].code
                                          /\ req'[p].scene = req[p].scene
  PROVE  ValuesOK'
<1>1. last \in Nat /\ 1 .. last \subseteq Id
  BY ConstantsAssumption DEF IInv, TypeOK, Id
<1>2. LedgerOK'
  BY DEF ValuesOK, LedgerOK
<1>3. ASSUME NEW p \in Proc PROVE SendingOK(p)'
  BY <1>1 DEF ValuesOK, SendingOK
<1>4. ASSUME NEW c \in Code, NEW s \in Scene
      PROVE  (Cardinality(Matching(c, s)) = Cardinality(Underway(c, s)))'
  <2>1. Underway(c, s)' = Underway(c, s)
    BY <1>1 DEF Underway
  <2>2. Matching(c, s)' = Matching(c, s)
    BY DEF Matching
  <2>. QED  BY <2>1, <2>2 DEF ValuesOK
<1>. QED  BY <1>2, <1>3, <1>4 DEF ValuesOK

\* A send ends, whose row stays.
LEMMA ValuesTold ==
  ASSUME IInv, ValuesOK, NEW p \in Proc, Sending(p), ~Sending(p)',
         row' = row, last' = last, told'.withdrawn = told.withdrawn,
         Closed' = Closed \union {req[p].id},
         \A o \in Proc \ {p} : req'[o] = req[o]
  PROVE  ValuesOK'
<1>1. req[p].id \in 1 .. last /\ req[p].id \notin told.withdrawn
  BY DEF ValuesOK, SendingOK
<1>2. \A o \in Proc : Sending(o)' => o # p /\ Sending(o) /\ req'[o] = req[o]
  BY DEF Sending
<1>3. \A o \in Proc : Sending(o) /\ o # p => Sending(o)' /\ req'[o] = req[o]
  BY DEF Sending
<1>4. LedgerOK'
  <2>1. (told.withdrawn \subseteq 1 .. last /\ Closed \subseteq 1 .. last
         /\ told.withdrawn \intersect Closed = {})'
    <3> DEFINE all == 1 .. last
    <3>1. /\ told.withdrawn \subseteq all /\ Closed \subseteq all
          /\ told.withdrawn \intersect Closed = {}
      BY DEF ValuesOK, LedgerOK
    <3>2. req[p].id \in all /\ req[p].id \notin told.withdrawn /\ all' = all
      BY <1>1
    <3>3. Closed' \subseteq all /\ told.withdrawn \intersect Closed' = {}
      <4>. HIDE DEF all
      <4>. QED  BY <3>1, <3>2
    <3>. QED  BY <3>1, <3>3
  <2>2. (\A i \in 1 .. last : \/ i \in told.withdrawn \/ i \in Closed
                              \/ \E o \in Proc : Sending(o) /\ req[o].id = i)'
    <3> SUFFICES ASSUME NEW i \in 1 .. last, i \notin told.withdrawn, i \notin Closed'
                 PROVE  \E o \in Proc : Sending(o)' /\ req'[o].id = i
      OBVIOUS
    <3>1. PICK o \in Proc : Sending(o) /\ req[o].id = i
      BY DEF ValuesOK, LedgerOK
    <3>. QED  BY <1>3, <3>1
  <2>3. (\A o, q \in Proc : Sending(o) /\ Sending(q) /\ req[o].id = req[q].id => o = q)'
    BY <1>2 DEF ValuesOK, LedgerOK
  <2>. QED  BY <2>1, <2>2, <2>3 DEF LedgerOK
<1>5. ASSUME NEW o \in Proc PROVE SendingOK(o)'
  <2> SUFFICES ASSUME Sending(o)' PROVE SendingOK(o)'
    BY DEF SendingOK
  <2>1. o # p /\ Sending(o) /\ req'[o] = req[o] /\ req[o].id # req[p].id
    BY <1>2 DEF ValuesOK, LedgerOK
  <2>. QED  BY <2>1 DEF ValuesOK, SendingOK
<1>6. ASSUME NEW c \in Code, NEW s \in Scene
      PROVE  (Cardinality(Matching(c, s)) = Cardinality(Underway(c, s)))'
  BY DEF ValuesOK, Matching, Kept, Underway
<1>. QED  BY <1>4, <1>5, <1>6 DEF ValuesOK

LEMMA ValuesInit == Init => ValuesOK
<1> SUFFICES ASSUME Init PROVE ValuesOK
  OBVIOUS
<1>1. \A p \in Proc : ~Sending(p)
  BY DEF Init, Idle, Sending
<1>2. ASSUME NEW c \in Code, NEW s \in Scene
      PROVE  Cardinality(Matching(c, s)) = Cardinality(Underway(c, s))
  <2>1. Matching(c, s) = {} /\ Underway(c, s) = {}
    BY DEF Init, Matching, Kept, Underway
  <2>. QED  BY <2>1
<1>3. LedgerOK
  BY <1>1 DEF Init, LedgerOK, Closed
<1>. QED  BY <1>1, <1>2, <1>3 DEF ValuesOK, SendingOK

\* One more row, which is on its way.
LEMMA InsertCounts ==
  ASSUME IInv, ValuesOK, NEW p \in Proc, InsertSmsCode(p)
  PROVE  ValuesOK'
<1> DEFINE n == last + 1
           q == req[p]
           new == [state |-> "unused", code |-> q.code, scene |-> q.scene,
                   time |-> q.time, index |-> q.index]
<1>1. /\ n \in Id /\ last \in Nat /\ 1 .. last \subseteq Id /\ n \notin 1 .. last
      /\ 1 .. n = (1 .. last) \union {n} /\ last' = n /\ told' = told
      /\ row \in [Id -> Row] /\ req \in [Proc -> Request]
  BY ConstantsAssumption DEF InsertSmsCode, IInv, TypeOK, Id
<1>2. /\ row'[n].state = "unused" /\ row'[n].code = q.code /\ row'[n].scene = q.scene
      /\ \A i \in Id \ {n} : row'[i] = row[i]
  BY <1>1 DEF InsertSmsCode
<1>3. row[n].state = "none"
  BY <1>1 DEF IInv, RowsInOrder
<1>4. /\ req'[p].id = n /\ req'[p].code = q.code /\ req'[p].scene = q.scene
      /\ req'[p].pc = "deliver" /\ \A o \in Proc \ {p} : req'[o] = req[o]
  <2> DEFINE r == [q EXCEPT !.pc = "deliver", !.id = n]
  <2>1. r.id = n /\ r.code = q.code /\ r.scene = q.scene /\ r.pc = "deliver"
    BY <1>1 DEF Request
  <2>2. req' = [req EXCEPT ![p] = r]
    BY <1>1 DEF InsertSmsCode, Step
  <2>. HIDE DEF r
  <2>. QED  BY <1>1, <2>1, <2>2
<1>0. Closed' = Closed /\ n \notin Closed /\ n \notin told.withdrawn
  BY <1>1 DEF Closed, ValuesOK, LedgerOK
<1>9. Sending(p)' /\ ~Sending(p) /\ \A o \in Proc \ {p} : Sending(o)' <=> Sending(o)
  BY <1>4 DEF Sending, InsertSmsCode, At
<1>5. LedgerOK'
  <2>1. (told.withdrawn \subseteq 1 .. last /\ Closed \subseteq 1 .. last
         /\ told.withdrawn \intersect Closed = {})'
    BY <1>0, <1>1 DEF ValuesOK, LedgerOK
  <2>2. (\A i \in 1 .. last : \/ i \in told.withdrawn \/ i \in Closed
                              \/ \E o \in Proc : Sending(o) /\ req[o].id = i)'
    <3>1. ASSUME NEW i \in 1 .. last, i \notin told.withdrawn, i \notin Closed
          PROVE  \E o \in Proc : Sending(o)' /\ req'[o].id = i
      <4>1. PICK o \in Proc : Sending(o) /\ req[o].id = i
        BY <3>1 DEF ValuesOK, LedgerOK
      <4>. QED  BY <1>4, <1>9, <4>1
    <3>. QED  BY <1>0, <1>1, <1>4, <1>9, <3>1
  <2>3. (\A o, u \in Proc : Sending(o) /\ Sending(u) /\ req[o].id = req[u].id => o = u)'
    <3>1. \A o \in Proc \ {p} : Sending(o)' => Sending(o) /\ req'[o].id = req[o].id
                                              /\ req'[o].id # n
      BY <1>1, <1>4, <1>9 DEF ValuesOK, SendingOK
    <3>2. \A o, u \in Proc : Sending(o) /\ Sending(u) /\ req[o].id = req[u].id => o = u
      BY DEF ValuesOK, LedgerOK
    <3>. QED  BY <1>4, <3>1, <3>2
  <2>. QED  BY <2>1, <2>2, <2>3 DEF LedgerOK
<1>6. ASSUME NEW o \in Proc PROVE SendingOK(o)'
  <2>1. CASE o = p
    BY <1>0, <1>1, <1>2, <1>4, <2>1 DEF SendingOK
  <2>2. CASE o # p
    BY <1>0, <1>1, <1>2, <1>4, <1>9, <2>2 DEF SendingOK, ValuesOK
  <2>. QED  BY <2>1, <2>2
<1>7. ASSUME NEW c \in Code, NEW s \in Scene
      PROVE  (Cardinality(Matching(c, s)) = Cardinality(Underway(c, s)))'
  <2>1. Matching(c, s) \in SUBSET Id /\ Underway(c, s) \in SUBSET Id
    BY <1>1 DEF Matching, Underway
  <2>2. n \notin Matching(c, s) /\ n \notin Underway(c, s)
    BY <1>1, <1>3 DEF Matching, Kept, Underway
  <2>3. Cardinality(Matching(c, s)) = Cardinality(Underway(c, s))
    BY DEF ValuesOK
  <2>4. CASE q.code = c /\ q.scene = s
    <3>1. Matching(c, s)' = Matching(c, s) \union {n}
      BY <1>1, <1>2, <2>4 DEF Matching, Kept
    <3>2. Underway(c, s)' = Underway(c, s) \union {n}
      BY <1>0, <1>1, <1>2, <2>2, <2>4 DEF Underway
    <3>3. /\ Cardinality(Matching(c, s) \union {n}) = Cardinality(Matching(c, s)) + 1
          /\ Cardinality(Underway(c, s) \union {n}) = Cardinality(Underway(c, s)) + 1
          /\ Cardinality(Matching(c, s)) \in Nat /\ Cardinality(Underway(c, s)) \in Nat
      BY <1>1, <2>1, <2>2, CountFact
    <3>. QED  BY <2>3, <3>1, <3>2, <3>3
  <2>5. CASE ~(q.code = c /\ q.scene = s)
    <3>1. Matching(c, s)' = Matching(c, s)
      BY <1>1, <1>2, <1>3, <2>5 DEF Matching, Kept
    <3>2. Underway(c, s)' = Underway(c, s)
      BY <1>1, <1>2, <2>5 DEF Underway
    <3>. QED  BY <2>3, <3>1, <3>2
  <2>. QED  BY <2>4, <2>5
<1>. QED  BY <1>5, <1>6, <1>7 DEF ValuesOK

\* Unless every row of the value has been used by then, it has one less, and the
\* row of the request is accounted for no longer.
LEMMA DiscardCounts ==
  ASSUME IInv, ValuesOK, NEW p \in Proc, DiscardSmsCode(p)
  PROVE  ValuesOK'
<1> DEFINE q == req[p]
<1>1. /\ last \in Nat /\ 1 .. last \subseteq Id /\ last' = last
      /\ told \in Ledger /\ row \in [Id -> Row] /\ req \in [Proc -> Request]
      /\ q.pc = "discard" /\ Sending(p)
  BY ConstantsAssumption DEF DiscardSmsCode, IInv, TypeOK, Id, At, Sending
<1>2. /\ q.id \in 1 .. last /\ q.id \notin told.withdrawn /\ q.id \notin Closed
      /\ row[q.id].code = q.code /\ row[q.id].scene = q.scene
  BY <1>1 DEF ValuesOK, SendingOK
<1>3. (\A o \in Proc \ {p} : req'[o] = req[o]) /\ ~Sending(p)'
  BY <1>1 DEF DiscardSmsCode, Finish, Step, Idle, Sending
<1>4. PICK i \in Newest(Unused(q.code, q.scene)) :
        IF i = 0
        THEN row' = row /\ told' = [told EXCEPT !.early = @ \union {q.id}]
        ELSE /\ row' = [row EXCEPT ![i].state = "gone"]
             /\ told' = [told EXCEPT !.withdrawn = @ \union {q.id}]
  BY DEF DiscardSmsCode
<1>5. i # 0 => i \in Id /\ i \in Unused(q.code, q.scene)
  BY NewestFact DEF Unused, Matching
<1>6. CASE i = 0
  <2>1. told'.withdrawn = told.withdrawn /\ Closed' = Closed \union {q.id}
    BY <1>1, <1>4, <1>6 DEF Ledger, Closed
  <2>. QED  BY <1>1, <1>3, <1>4, <1>6, <2>1, ValuesTold
<1>7. CASE i # 0
  <2>1. told'.withdrawn = told.withdrawn \union {q.id} /\ Closed' = Closed
    BY <1>1, <1>4, <1>7 DEF Ledger, Closed
  <2>2. /\ \A j \in Id : row'[j].code = row[j].code /\ row'[j].scene = row[j].scene
        /\ \A j \in Id \ {i} : Kept(j)' <=> Kept(j)
        /\ i \in Id /\ Kept(i) /\ ~Kept(i)'
    BY <1>1, <1>4, <1>5, <1>7 DEF Row, Kept, Unused
  <2>3. \A o \in Proc : Sending(o)' => o # p /\ Sending(o) /\ req'[o] = req[o]
    BY <1>3 DEF Sending
  <2>4. \A o \in Proc : Sending(o) /\ o # p => Sending(o)' /\ req'[o] = req[o]
    BY <1>3 DEF Sending
  <2>5. LedgerOK'
    <3>1. (told.withdrawn \subseteq 1 .. last /\ Closed \subseteq 1 .. last
           /\ told.withdrawn \intersect Closed = {})'
      BY <1>1, <1>2, <2>1 DEF ValuesOK, LedgerOK
    <3>2. (\A j \in 1 .. last : \/ j \in told.withdrawn \/ j \in Closed
                                \/ \E o \in Proc : Sending(o) /\ req[o].id = j)'
      <4> SUFFICES ASSUME NEW j \in 1 .. last, j \notin told'.withdrawn, j \notin Closed
                   PROVE  \E o \in Proc : Sending(o)' /\ req'[o].id = j
        BY <1>1, <2>1
      <4>1. PICK o \in Proc : Sending(o) /\ req[o].id = j
        BY <2>1 DEF ValuesOK, LedgerOK
      <4>. QED  BY <2>1, <2>4, <4>1
    <3>3. (\A o, u \in Proc : Sending(o) /\ Sending(u) /\ req[o].id = req[u].id => o = u)'
      BY <2>3 DEF ValuesOK, LedgerOK
    <3>. QED  BY <3>1, <3>2, <3>3 DEF LedgerOK
  <2>6. ASSUME NEW o \in Proc PROVE SendingOK(o)'
    <3> SUFFICES ASSUME Sending(o)' PROVE SendingOK(o)'
      BY DEF SendingOK
    <3>1. o # p /\ Sending(o) /\ req'[o] = req[o] /\ req[o].id # q.id
      BY <1>1, <2>3 DEF ValuesOK, LedgerOK
    <3>. QED  BY <1>1, <2>1, <2>2, <3>1 DEF ValuesOK, SendingOK
  <2>7. ASSUME NEW c \in Code, NEW s \in Scene
        PROVE  (Cardinality(Matching(c, s)) = Cardinality(Underway(c, s)))'
    <3>1. Matching(c, s) \in SUBSET Id /\ Underway(c, s) \in SUBSET Id
      BY <1>1 DEF Matching, Underway
    <3>2. Cardinality(Matching(c, s)) = Cardinality(Underway(c, s))
      BY DEF ValuesOK
    <3>3. CASE q.code = c /\ q.scene = s
      <4>1. Underway(c, s)' = Underway(c, s) \ {q.id} /\ q.id \in Underway(c, s)
        BY <1>1, <1>2, <2>1, <2>2, <3>3 DEF Underway
      <4>2. Matching(c, s)' = Matching(c, s) \ {i} /\ i \in Matching(c, s)
        BY <1>5, <1>7, <2>2, <3>3 DEF Unused, Matching
      <4>3. /\ Cardinality(Matching(c, s) \ {i}) = Cardinality(Matching(c, s)) - 1
            /\ Cardinality(Underway(c, s) \ {q.id}) = Cardinality(Underway(c, s)) - 1
        BY <3>1, <4>1, <4>2, CountFact
      <4>. QED  BY <3>2, <4>1, <4>2, <4>3
    <3>4. CASE ~(q.code = c /\ q.scene = s)
      <4>1. Underway(c, s)' = Underway(c, s)
        BY <1>1, <1>2, <2>1, <2>2, <3>4 DEF Underway
      <4>2. Matching(c, s)' = Matching(c, s)
        BY <1>5, <1>7, <2>2, <3>4 DEF Unused, Matching
      <4>. QED  BY <3>2, <4>1, <4>2
    <3>. QED  BY <3>3, <3>4
  <2>. QED  BY <2>5, <2>6, <2>7 DEF ValuesOK
<1>. QED  BY <1>6, <1>7

LEMMA ValuesStep == IInv /\ ValuesOK /\ [Next]_vars => ValuesOK'
<1> SUFFICES ASSUME IInv, ValuesOK, [Next]_vars PROVE ValuesOK'
  OBVIOUS
<1>1. /\ req \in [Proc -> Request] /\ told \in Ledger /\ row \in [Id -> Row]
      /\ Idle.pc = "idle"
  BY DEF IInv, TypeOK, Idle
<1>2. ASSUME row' = row, last' = last, told'.withdrawn = told.withdrawn, Closed' = Closed,
             NEW p \in Proc, NEW r \in Request, Step(p, r),
             \/ ~Sending(p) /\ r.pc \notin {"deliver", "discard"}
             \/ /\ req[p].pc = "deliver" /\ r.pc = "discard" /\ r.id = req[p].id
                /\ r.code = req[p].code /\ r.scene = req[p].scene
      PROVE  ValuesOK'
  <2>1. req'[p] = r /\ \A o \in Proc \ {p} : req'[o] = req[o]
    BY <1>1, <1>2 DEF Step
  <2>2. \A o \in Proc : /\ Sending(o)' <=> Sending(o)
                        /\ Sending(o) => /\ req'[o].id = req[o].id
                                         /\ req'[o].code = req[o].code
                                         /\ req'[o].scene = req[o].scene
    BY <1>2, <2>1 DEF Sending
  <2>3. \A i \in Id : Kept(i)' <=> Kept(i)
    BY <1>2 DEF Kept
  <2>. QED  BY <1>2, <2>2, <2>3, ValuesKept
<1>3. ASSUME row' = row, last' = last, told'.withdrawn = told.withdrawn, Closed' = Closed,
             NEW p \in Proc, ~Sending(p), Finish(p)
      PROVE  ValuesOK'
  BY <1>1, <1>2, <1>3, IdleTyped DEF Finish
<1>8. ASSUME row' = row, last' = last, told'.withdrawn = told.withdrawn,
             NEW p \in Proc, Sending(p), Finish(p), Closed' = Closed \union {req[p].id}
      PROVE  ValuesOK'
  <2>1. ~Sending(p)' /\ \A o \in Proc \ {p} : req'[o] = req[o]
    BY <1>1, <1>8 DEF Finish, Step, Sending
  <2>. QED  BY <1>8, <2>1, ValuesTold
<1>4. CASE Tick \/ UNCHANGED vars
  <2>1. row' = row /\ last' = last /\ req' = req /\ told' = told
    BY <1>4 DEF Tick, vars
  <2>2. Closed' = Closed /\ (\A i \in Id : Kept(i)' <=> Kept(i))
        /\ \A p \in Proc : Sending(p)' <=> Sending(p)
    BY <2>1 DEF Closed, Kept, Sending
  <2>. QED  BY <2>1, <2>2, ValuesKept
<1>5. ASSUME NEW p \in Proc, Abort(p) PROVE ValuesOK'
  <2>1. row' = row /\ last' = last /\ Finish(p)
    BY <1>5 DEF Abort
  <2>2. CASE At(p, "deliver") \/ At(p, "discard")
    <3>1. Sending(p) /\ told' = [told EXCEPT !.stranded = @ \union {req[p].id}]
      BY <1>5, <2>2, AbortTells DEF Sending, At
    <3>2. told'.withdrawn = told.withdrawn /\ Closed' = Closed \union {req[p].id}
      BY <1>1, <3>1 DEF Ledger, Closed
    <3>. QED  BY <1>8, <2>1, <3>1, <3>2
  <2>3. CASE ~(At(p, "deliver") \/ At(p, "discard"))
    <3>1. ~Sending(p) /\ told'.withdrawn = told.withdrawn /\ Closed' = Closed
      BY <1>1, <1>5, <2>3, AbortTells DEF Sending, At, Ledger, Closed
    <3>. QED  BY <1>3, <2>1, <3>1
  <2>. QED  BY <2>2, <2>3
<1>6. ASSUME NEW p \in Proc, Send(p) PROVE ValuesOK'
  <2> DEFINE q == req[p]
  <2>1. q \in Request
    BY <1>1
  <2>2. ASSUME NEW s \in Scene, StartSend(p, s) PROVE ValuesOK'
    <3> DEFINE r == [Idle EXCEPT !.pc = "last", !.op = "send", !.scene = s]
    <3>1. r \in Request /\ r.pc = "last"
      BY IdleTyped DEF Request, Idle
    <3>2. Step(p, r) /\ row' = row /\ last' = last /\ told' = told /\ ~Sending(p)
      BY <2>2 DEF StartSend, At, Sending
    <3>. HIDE DEF r
    <3>. QED  BY <1>2, <3>1, <3>2 DEF Closed
  <2>3. CASE ReadLast(p)
    <3>1. PICK i \in Newest({j \in Id : Kept(j)}) :
            Step(p, [q EXCEPT !.pc = "limit", !.id = i])
      BY <2>3 DEF ReadLast
    <3> DEFINE r == [q EXCEPT !.pc = "limit", !.id = i]
    <3>2. i \in {0} \union Id
      BY NewestFact
    <3>3. r \in Request /\ r.pc = "limit"
      BY <2>1, <3>2 DEF Request
    <3>4. Step(p, r) /\ row' = row /\ last' = last /\ told' = told /\ ~Sending(p)
      BY <2>3, <3>1 DEF ReadLast, At, Sending
    <3>. HIDE DEF r
    <3>. QED  BY <1>2, <3>3, <3>4 DEF Closed
  <2>4. CASE RefuseSend(p)
    BY <1>3, <2>4 DEF RefuseSend, At, Sending, Closed
  <2>5. ASSUME NEW c \in Code, DrawCode(p, c) PROVE ValuesOK'
    <3>1. row' = row /\ last' = last /\ told' = told /\ req[p].pc = "limit"
      BY <2>5 DEF DrawCode, At
    <3>2. req'[p].pc = "insert" /\ \A o \in Proc \ {p} : req'[o] = req[o]
      <4> DEFINE x == IF SameDay(p) THEN row[q.id].index + 1 ELSE 1
                 r == [q EXCEPT !.pc = "insert", !.code = c, !.time = now, !.index = x]
      <4>1. r.pc = "insert"
        <5>. HIDE DEF x
        <5>. QED  BY <2>1 DEF Request
      <4>2. req' = [req EXCEPT ![p] = r]
        BY <2>5 DEF DrawCode, Step
      <4>. HIDE DEF r
      <4>. QED  BY <1>1, <4>1, <4>2
    <3>3. \A o \in Proc : /\ Sending(o)' <=> Sending(o)
                          /\ Sending(o) => /\ req'[o].id = req[o].id
                                           /\ req'[o].code = req[o].code
                                           /\ req'[o].scene = req[o].scene
      BY <3>1, <3>2 DEF Sending
    <3>4. Closed' = Closed /\ \A i \in Id : Kept(i)' <=> Kept(i)
      BY <3>1 DEF Closed, Kept
    <3>. QED  BY <3>1, <3>3, <3>4, ValuesKept
  <2>6. CASE InsertSmsCode(p)
    BY <2>6, InsertCounts
  <2>7. CASE SendCode(p)
    <3>1. /\ Sending(p) /\ Finish(p) /\ row' = row /\ last' = last
          /\ told' = [told EXCEPT !.sent = @ \union {q.id}]
      BY <2>7 DEF SendCode, At, Sending
    <3>2. told'.withdrawn = told.withdrawn /\ Closed' = Closed \union {q.id}
      BY <1>1, <3>1 DEF Ledger, Closed
    <3>. QED  BY <1>8, <3>1, <3>2
  <2>8. CASE SendCodeFails(p)
    <3> DEFINE r == [q EXCEPT !.pc = "discard"]
    <3>1. r \in Request /\ r.pc = "discard" /\ r.id = q.id /\ r.code = q.code /\ r.scene = q.scene
      BY <2>1 DEF Request
    <3>2. Step(p, r) /\ row' = row /\ last' = last /\ told' = told /\ q.pc = "deliver"
      BY <2>8 DEF SendCodeFails, At
    <3>. HIDE DEF r
    <3>. QED  BY <1>2, <3>1, <3>2 DEF Closed
  <2>9. CASE DiscardSmsCode(p)
    BY <2>9, DiscardCounts
  <2>. QED  BY <1>6, <2>2, <2>3, <2>4, <2>5, <2>6, <2>7, <2>8, <2>9 DEF Send
<1>7. ASSUME NEW p \in Proc, Use(p) PROVE ValuesOK'
  <2> DEFINE q == req[p]
  <2>1. q \in Request
    BY <1>1
  <2>2. ASSUME NEW o \in {"use", "reset"}, NEW c \in Code, NEW s \in Scene,
               StartUse(p, o, c, s)
        PROVE  ValuesOK'
    <3> DEFINE r == [Idle EXCEPT !.pc = "find", !.op = o, !.code = c, !.scene = s]
    <3>1. r \in Request /\ r.pc = "find"
      BY IdleTyped DEF Request, Idle
    <3>2. Step(p, r) /\ row' = row /\ last' = last /\ told' = told /\ ~Sending(p)
      BY <2>2 DEF StartUse, At, Sending
    <3>. HIDE DEF r
    <3>. QED  BY <1>2, <3>1, <3>2 DEF Closed
  <2>3. CASE LastSmsCode(p)
    <3>1. PICK i \in Newest(Matching(q.code, q.scene)) \ {0} :
            Step(p, [q EXCEPT !.pc = "judge", !.id = i, !.used = (row[i].state = "used")])
      BY <2>3 DEF LastSmsCode
    <3> DEFINE r == [q EXCEPT !.pc = "judge", !.id = i, !.used = (row[i].state = "used")]
    <3>2. i \in Id
      BY NewestFact DEF Matching
    <3>3. r \in Request /\ r.pc = "judge"
      BY <2>1, <3>2 DEF Request
    <3>4. Step(p, r) /\ row' = row /\ last' = last /\ told' = told /\ ~Sending(p)
      BY <2>3, <3>1 DEF LastSmsCode, At, Sending
    <3>. HIDE DEF r
    <3>. QED  BY <1>2, <3>3, <3>4 DEF Closed
  <2>4. CASE Judge(p)
    <3> DEFINE r == [q EXCEPT !.pc = "mark"]
    <3>1. row' = row /\ last' = last /\ told' = told /\ ~Sending(p)
          /\ (Step(p, r) \/ Finish(p))
      BY <2>4 DEF Judge, At, Sending
    <3>2. r \in Request /\ r.pc = "mark"
      BY <2>1 DEF Request
    <3>. HIDE DEF r
    <3>. QED  BY <1>2, <1>3, <3>1, <3>2 DEF Closed
  <2>5. CASE NoSuchCode(p) \/ UseTooLate(p) \/ UpdatePassword(p)
    BY <1>3, <2>5 DEF NoSuchCode, UseTooLate, UpdatePassword, At, Sending, Closed
  <2>6. CASE UseSmsCode(p)
    <3>1. /\ q.id \in Id /\ last' = last /\ row' = [row EXCEPT ![q.id].state = "used"]
          /\ told'.withdrawn = told.withdrawn /\ Closed' = Closed /\ q.pc = "mark"
          /\ row[q.id].state = "unused"
      BY <1>1, <2>6 DEF UseSmsCode, At, IInv, HoldsRow, Ledger, Closed
    <3>2. \A i \in Id : /\ row'[i].code = row[i].code /\ row'[i].scene = row[i].scene
                        /\ Kept(i)' <=> Kept(i)
      BY <1>1, <3>1 DEF Row, Kept
    <3>3. req'[p].pc \in {"idle", "password"} /\ \A o \in Proc \ {p} : req'[o] = req[o]
      <4> DEFINE r == [q EXCEPT !.pc = "password"]
      <4>1. r.pc = "password" /\ (Step(p, r) \/ Step(p, Idle))
        BY <2>1, <2>6 DEF UseSmsCode, Finish, Request
      <4>. HIDE DEF r
      <4>. QED  BY <1>1, <4>1 DEF Step
    <3>4. \A o \in Proc : /\ Sending(o)' <=> Sending(o)
                          /\ Sending(o) => /\ req'[o].id = req[o].id
                                           /\ req'[o].code = req[o].code
                                           /\ req'[o].scene = req[o].scene
      BY <3>1, <3>3 DEF Sending
    <3>. QED  BY <3>1, <3>2, <3>4, ValuesKept
  <2>. QED  BY <1>7, <2>2, <2>3, <2>4, <2>5, <2>6 DEF Use
<1>. QED  BY <1>4, <1>5, <1>6, <1>7 DEF Next

\* However many requests send, use and discard codes, the rows left of a value are
\* exactly as many as its codes that were delivered, are on their way or could not
\* be withdrawn (smscode.go:138): a discard by value (sms_mysql.go:113) takes away
\* one row, whosever it is, for each send that failed, so an undelivered code that
\* was withdrawn cannot be used, and no delivered one is lost.
THEOREM UndeliveredStayUnusable == Spec => []UndeliveredUnusable
<1>1. IInv /\ ValuesOK => UndeliveredUnusable
  BY ValuesCount
<1>. QED  BY <1>1, Inductive, ValuesInit, ValuesStep, PTL DEF Spec

-----------------------------------------------------------------------------
(* The limits of a number, when one request at a time sends to it: senders *)
(* that overlap read the same last row.                                    *)

OneSender == \A p, q \in Sender : p = q

SentOn(d) == {i \in told.sent : Day(row[i].time) = d}

\* A message at time t with index n would keep the limits.
Fits(t, n) ==
  /\ t <= now /\ n <= DailyMax
  /\ \A j \in told.sent : row[j].time + Frequency <= t
  /\ Cardinality(SentOn(Day(t))) < n

\* Row i is not older than any message, and its index counts those of its day.
Covers(i) ==
  /\ \A j \in told.sent : row[j].time <= row[i].time
  /\ Cardinality(SentOn(Day(row[i].time))) <= row[i].index

Underfoot(j) == \E p \in Proc : req[p].pc \in {"deliver", "discard"} /\ req[p].id = j

\* The rows that count, without the one of a message on its way.
Settled == {j \in Id : Kept(j) /\ ~ Underfoot(j)}

LimitOK(p) ==
  /\ req[p].pc \in {"last", "limit", "insert", "deliver", "discard"} => p \in Sender
  /\ req[p].pc = "limit" => req[p].id \in Newest({j \in Id : Kept(j)})
  /\ req[p].pc = "insert" => Fits(req[p].time, req[p].index)
  /\ req[p].pc \in {"deliver", "discard"} =>
       /\ req[p].id = last /\ last \in Id /\ Kept(last)
       /\ Fits(row[last].time, row[last].index)

\* The newest row that counts covers what was sent, so looking at it is enough.
LimitsOK ==
  /\ LimitsKept
  /\ told.sent \subseteq 1 .. last
  /\ \A i \in Newest(Settled) : IF i = 0 THEN told.sent = {} ELSE Covers(i)
  /\ \A p \in Proc : LimitOK(p)

\* A day does not come back.
LEMMA DayFact ==
  ASSUME NEW a \in Nat, NEW b \in Nat, NEW c \in Nat, a <= b, b <= c, Day(a) = Day(c)
  PROVE  Day(b) = Day(c)
<1>1. DayLength \in Nat \ {0}
  BY ConstantsAssumption
<1>2. ASSUME NEW t \in Nat
      PROVE  /\ Day(t) \in Nat /\ DayLength * Day(t) <= t
             /\ t < DayLength * Day(t) + DayLength
  BY <1>1 DEF Day
<1>3. ASSUME NEW x \in Nat, NEW y \in Nat, x <= y PROVE Day(x) <= Day(y)
  <2>1. SUFFICES ASSUME Day(y) + 1 <= Day(x) PROVE FALSE
    BY <1>2, <1>3
  <2>2. ASSUME NEW k \in Nat, NEW l \in Nat, k <= l PROVE DayLength * k <= DayLength * l
    BY <1>1, <2>2
  <2>3. DayLength * (Day(y) + 1) <= DayLength * Day(x)
    BY <1>2, <1>3, <2>1, <2>2
  <2>4. DayLength * (Day(y) + 1) = DayLength * Day(y) + DayLength
    BY <1>1, <1>2, <1>3
  <2>. QED  BY <1>1, <1>2, <1>3, <2>3, <2>4
<1>. QED  BY <1>2, <1>3

LEMMA LimitsInit == Init => LimitsOK
<1> SUFFICES ASSUME Init PROVE LimitsOK
  OBVIOUS
<1>1. /\ told.sent = {} /\ last = 0
      /\ \A p \in Proc : req[p].pc = "idle"
      /\ \A i \in Id : ~ Kept(i)
  BY DEF Init, Idle, Kept
<1>2. LimitsKept
  <2>1. Apart
    BY <1>1 DEF Apart
  <2>2. \A d : {i \in told.sent : Day(row[i].time) = d} = {}
    BY <1>1
  <2>3. Few
    BY <2>2, FS_EmptySet, ConstantsAssumption DEF Few
  <2>. QED  BY <2>1, <2>3 DEF LimitsKept
<1>3. \A i \in Newest(Settled) : i = 0
  BY <1>1 DEF Newest, Settled
<1>. QED  BY <1>1, <1>2, <1>3 DEF LimitsOK, LimitOK

\* Messages count by their rows, which keep time and index.
LEMMA SentSame ==
  ASSUME IInv, LimitsOK, told'.sent = told.sent,
         \A j \in 1 .. last : row'[j].time = row[j].time
  PROVE  /\ LimitsKept'
         /\ \A d : SentOn(d)' = SentOn(d)
         /\ \A t, n : now' >= now /\ t \in Nat /\ now' \in Nat /\ Fits(t, n) => Fits(t, n)'
<1>0. told.sent \subseteq 1 .. last /\ LimitsKept
  BY DEF LimitsOK
<1>1. \A d : SentOn(d)' = SentOn(d)
  BY <1>0 DEF SentOn
<1>2. Apart'
  BY <1>0 DEF LimitsKept, Apart
<1>3. \A d : {i \in told.sent : Day(row[i].time) = d}' = {i \in told.sent : Day(row[i].time) = d}
  BY <1>0
<1>4. Few'
  BY <1>0, <1>3 DEF LimitsKept, Few
<1>5. ASSUME NEW t \in Nat, NEW n, now' >= now, now' \in Nat, Fits(t, n)
      PROVE  Fits(t, n)'
  <2>1. now \in Nat
    BY TimeFacts DEF IInv, TypeOK
  <2>. QED  BY <1>0, <1>1, <1>5, <2>1 DEF Fits
<1>. QED  BY <1>1, <1>2, <1>4, <1>5 DEF LimitsKept

\* A step that leaves alone what counts, but for the request that takes it.
LEMMA LimitsSame ==
  ASSUME IInv, LimitsOK, told'.sent = told.sent, last' = last, now' >= now, now' \in Nat,
         \A j \in Id : /\ row'[j].time = row[j].time /\ row'[j].index = row[j].index
                       /\ Kept(j)' <=> Kept(j),
         \A q \in Proc :
           \/ req'[q] = req[q]
           \/ req[q].pc = "deliver" /\ req'[q].pc = "discard" /\ req'[q].id = req[q].id
           \/ /\ req[q].pc \notin {"deliver", "discard"}
              /\ req'[q].pc \notin {"deliver", "discard"}
              /\ LimitOK(q)'
  PROVE  LimitsOK'
<1>0. /\ last \in Nat /\ 1 .. last \subseteq Id /\ row \in [Id -> Row]
      /\ req \in [Proc -> Request]
  BY ConstantsAssumption DEF IInv, TypeOK, Id
<1>1. /\ LimitsKept' /\ \A d : SentOn(d)' = SentOn(d)
      /\ \A t, n : t \in Nat /\ Fits(t, n) => Fits(t, n)'
  BY <1>0, SentSame
<1>2. (told.sent \subseteq 1 .. last)'
  BY DEF LimitsOK
<1>3. Settled' = Settled
  <2>1. \A j \in Id : Underfoot(j)' <=> Underfoot(j)
    BY DEF Underfoot
  <2>. QED  BY <2>1 DEF Settled
<1>4. (\A i \in Newest(Settled) : IF i = 0 THEN told.sent = {} ELSE Covers(i))'
  <2>1. Newest(Settled)' = Newest(Settled)
    BY <1>3 DEF Newest
  <2> SUFFICES ASSUME NEW i \in Newest(Settled)
               PROVE  (IF i = 0 THEN told.sent = {} ELSE Covers(i))'
    BY <2>1
  <2>2. i # 0 => i \in Id
    BY NewestFact DEF Settled
  <2>3. IF i = 0 THEN told.sent = {} ELSE Covers(i)
    BY DEF LimitsOK
  <2>4. CASE i = 0
    BY <2>3, <2>4
  <2>5. CASE i # 0
    <3>1. row'[i].time = row[i].time /\ row'[i].index = row[i].index /\ Covers(i)
      BY <2>2, <2>3, <2>5
    <3>2. \A j \in told.sent : row'[j].time = row[j].time
      BY <1>0 DEF LimitsOK
    <3>. QED  BY <1>1, <2>5, <3>1, <3>2 DEF Covers
  <2>. QED  BY <2>4, <2>5
<1>5. ASSUME NEW q \in Proc PROVE LimitOK(q)'
  <2>1. CASE \/ req'[q] = req[q]
             \/ req[q].pc = "deliver" /\ req'[q].pc = "discard" /\ req'[q].id = req[q].id
    <3>1. LimitOK(q)
      BY DEF LimitsOK
    <3>2. req[q].time \in Nat
      BY <1>0, TimeFacts DEF Request
    <3>3. last \in Id => row'[last].time \in Nat /\ row[last].time \in Nat
      BY <1>0, TimeFacts DEF Row
    <3>4. {j \in Id : Kept(j)}' = {j \in Id : Kept(j)}
      OBVIOUS
    <3>5. Newest({j \in Id : Kept(j)})' = Newest({j \in Id : Kept(j)})
      BY <3>4 DEF Newest
    <3>6. CASE req'[q] = req[q]
      BY <1>1, <3>1, <3>2, <3>3, <3>5, <3>6 DEF LimitOK
    <3>7. CASE req[q].pc = "deliver" /\ req'[q].pc = "discard" /\ req'[q].id = req[q].id
      BY <1>1, <3>1, <3>3, <3>7 DEF LimitOK
    <3>. QED  BY <2>1, <3>6, <3>7
  <2>. QED  BY <2>1
<1>. QED  BY <1>1, <1>2, <1>4, <1>5 DEF LimitsOK

\* The last row of a request that is about to send or to discard covers everything.
LEMMA LastCovers ==
  ASSUME IInv, LimitsOK, NEW p \in Proc, req[p].pc \in {"deliver", "discard"}
  PROVE  /\ last \in Id /\ Kept(last) /\ Covers(last) /\ req[p].id = last
         /\ last \notin told.sent
         /\ \A i \in Id : Kept(i) => i <= last
<1>0. /\ row \in [Id -> Row] /\ Id \subseteq Nat /\ Time \subseteq Nat
      /\ told.sent \subseteq 1 .. last /\ Frequency \in Nat \ {0}
  BY IdFacts, TimeFacts, ConstantsAssumption DEF IInv, TypeOK, LimitsOK
<1>1. /\ last \in Id /\ Kept(last) /\ req[p].id = last
      /\ Fits(row[last].time, row[last].index)
  BY DEF LimitsOK, LimitOK
<1>2. row[last].time \in Nat /\ row[last].index \in Nat
  BY <1>0, <1>1 DEF Row
<1>3. /\ told.sent \in SUBSET Id /\ \A j \in told.sent : row[j].time \in Nat
  <2>1. 1 .. last \subseteq Id
    BY <1>1, ConstantsAssumption DEF Id
  <2>. QED  BY <1>0, <2>1 DEF Row
<1>4. Cardinality(SentOn(Day(row[last].time))) \in Nat
  BY <1>3, CountFact DEF SentOn
<1>5. Covers(last)
  BY <1>0, <1>1, <1>2, <1>3, <1>4 DEF Fits, Covers
<1>6. last \notin told.sent
  BY <1>0, <1>1, <1>2 DEF Fits
<1>7. \A i \in Id : Kept(i) => i <= last
  BY <1>0, <1>1 DEF IInv, RowsInOrder, Kept
<1>. QED  BY <1>1, <1>5, <1>6, <1>7

\* A message was sent, or was not, and then it counts only while its row is there.
LEMMA LimitsAfter ==
  ASSUME IInv, LimitsOK, OneSender, NEW p \in Proc,
         req[p].pc \in {"deliver", "discard"}, req'[p].pc = "idle",
         \A q \in Proc \ {p} : req'[q] = req[q],
         last' = last, now' = now,
         \A j \in Id : /\ row'[j].time = row[j].time /\ row'[j].index = row[j].index
                       /\ Kept(j)' => Kept(j),
         \/ told'.sent = told.sent \union {last} /\ Kept(last)'
         \/ told'.sent = told.sent /\ Kept(last)'
         \/ told'.sent = told.sent /\ \A j \in Id \ {last} : Kept(j)' <=> Kept(j)
  PROVE  LimitsOK'
<1>0. /\ row \in [Id -> Row] /\ Id \subseteq Nat /\ Time \subseteq Nat /\ last \in Nat
      /\ told.sent \subseteq 1 .. last /\ 1 .. last \subseteq Id /\ now \in Nat
      /\ req \in [Proc -> Request] /\ Frequency \in Nat \ {0} /\ DailyMax \in Nat
  BY IdFacts, TimeFacts, ConstantsAssumption DEF IInv, TypeOK, LimitsOK, Id
<1>1. /\ last \in Id /\ Kept(last) /\ Covers(last) /\ req[p].id = last
      /\ last \notin told.sent
      /\ \A i \in Id : Kept(i) => i <= last
  BY LastCovers
<1>2. /\ row[last].time \in Nat /\ row[last].index \in Nat
      /\ \A j \in Id : row[j].time \in Nat
      /\ Fits(row[last].time, row[last].index)
  BY <1>0, <1>1 DEF Row, LimitsOK, LimitOK
<1>3. \A q \in Proc \ {p} :
        req[q].pc \notin {"last", "limit", "insert", "deliver", "discard"}
  BY DEF LimitsOK, LimitOK, OneSender
<1>4. \A q \in Proc : LimitOK(q)'
  BY <1>3 DEF LimitOK
<1>5. \A j \in Id : ~ Underfoot(j)' /\ (Underfoot(j) <=> j = last)
  BY <1>1, <1>3 DEF Underfoot
<1>6. ASSUME Kept(last)', NEW i \in Newest(Settled)' PROVE i = last
  <2>1. last \in Settled' /\ \A j \in Settled' : j <= last
    BY <1>0, <1>1, <1>5, <1>6 DEF Settled
  <2>2. Settled' # {} /\ Settled' \subseteq Nat
    BY <1>0, <2>1 DEF Settled
  <2>3. i \in Settled' /\ last <= i
    BY <1>6, <2>1, <2>2 DEF Newest
  <2>. QED  BY <1>0, <2>1, <2>2, <2>3
<1>7. \A j \in told.sent \union {last} : row'[j].time = row[j].time /\ row[j].time \in Nat
  BY <1>0, <1>1, <1>2
<1>8. ASSUME told'.sent = told.sent PROVE LimitsOK'
  <2>1. LimitsKept' /\ \A d : SentOn(d)' = SentOn(d)
    BY <1>0, <1>8, SentSame
  <2>2. ASSUME NEW i \in Id, Covers(i) PROVE Covers(i)'
    BY <1>7, <1>8, <2>1, <2>2 DEF Covers
  <2>3. ASSUME NEW i \in Newest(Settled)'
        PROVE  (IF i = 0 THEN told.sent = {} ELSE Covers(i))'
    <3>1. CASE Kept(last)'
      <4>1. i = last /\ i # 0 /\ i \in Id
        BY <1>1, <1>6, <2>3, <3>1, IdFacts
      <4>2. Covers(i)'
        BY <1>1, <2>2, <4>1
      <4>. QED  BY <4>1, <4>2
    <3>2. CASE ~ Kept(last)'
      <4>1. Settled' = Settled
        BY <1>5, <1>8, <3>2 DEF Settled
      <4>2. i \in Newest(Settled) /\ (i # 0 => i \in Id)
        <5>1. i \in Newest(Settled)
          BY <2>3, <4>1 DEF Newest
        <5>. QED  BY <5>1, NewestFact DEF Settled
      <4>3. IF i = 0 THEN told.sent = {} ELSE Covers(i)
        BY <4>2 DEF LimitsOK
      <4>4. CASE i = 0
        BY <1>8, <4>3, <4>4
      <4>5. CASE i # 0
        <5>1. Covers(i)'
          BY <2>2, <4>2, <4>3, <4>5
        <5>. QED  BY <4>5, <5>1
      <4>. QED  BY <4>4, <4>5
    <3>. QED  BY <3>1, <3>2
  <2>4. \A i \in Newest(Settled)' : (IF i = 0 THEN told.sent = {} ELSE Covers(i))'
    BY <2>3
  <2>. QED  BY <1>0, <1>4, <1>8, <2>1, <2>4 DEF LimitsOK
<1>9. ASSUME told'.sent = told.sent \union {last}, Kept(last)' PROVE LimitsOK'
  <2>0. PICK e : e = Day(row[last].time)
    OBVIOUS
  <2>1. \A d : SentOn(d)' = IF d = e THEN SentOn(d) \union {last} ELSE SentOn(d)
    BY <1>7, <1>9, <2>0 DEF SentOn
  <2>2. /\ SentOn(e) \in SUBSET Id /\ last \notin SentOn(e)
    BY <1>0, <1>1 DEF SentOn
  <2>3. /\ Cardinality(SentOn(e) \union {last}) = Cardinality(SentOn(e)) + 1
        /\ Cardinality(SentOn(e)) \in Nat
    BY <1>1, <2>2, CountFact
  <2>4. Cardinality(SentOn(e)) < row[last].index /\ row[last].index <= DailyMax
    BY <1>2, <2>0 DEF Fits
  <2>5. Cardinality(SentOn(e)') <= row[last].index
    <3>1. SentOn(e)' = SentOn(e) \union {last}
      BY <2>1
    <3>. QED  BY <1>2, <2>3, <2>4, <3>1
  <2>6. Few'
    <3>1. ASSUME NEW d \in {Day(t) : t \in Time}
          PROVE  Cardinality(SentOn(d)') <= DailyMax
      <4>1. CASE d = e
        <5>1. SentOn(d)' = SentOn(e) \union {last}
          BY <2>1, <4>1
        <5>. QED  BY <1>0, <1>2, <2>3, <2>4, <5>1
      <4>2. CASE d # e
        <5>1. Cardinality(SentOn(d)) <= DailyMax
          BY <3>1 DEF LimitsOK, LimitsKept, Few, SentOn
        <5>. QED  BY <2>1, <4>2, <5>1
      <4>. QED  BY <4>1, <4>2
    <3>. QED  BY <3>1 DEF Few, SentOn
  <2>7. Apart'
    <3>1. \A j \in told.sent : j < last /\ row[last].time >= row[j].time + Frequency
      BY <1>0, <1>1, <1>2, <1>7 DEF Fits
    <3>2. Apart
      BY DEF LimitsOK, LimitsKept
    <3>3. ASSUME NEW i \in told.sent \union {last}, NEW j \in told.sent \union {last}, i < j
          PROVE  row'[j].time >= row'[i].time + Frequency
      <4>1. i \in told.sent
        BY <1>0, <3>1, <3>3
      <4>2. CASE j = last
        BY <1>7, <3>1, <4>1, <4>2
      <4>3. CASE j \in told.sent
        BY <1>7, <3>2, <3>3, <4>1, <4>3 DEF Apart
      <4>. QED  BY <4>2, <4>3
    <3>. QED  BY <1>9, <3>3 DEF Apart
  <2>8. Covers(last)'
    <3>1. \A j \in told.sent \union {last} : row[j].time <= row[last].time
      BY <1>1, <1>2 DEF Covers
    <3>2. (Day(row[last].time) = e)' /\ row'[last].index = row[last].index
      BY <1>1, <2>0 DEF Day
    <3>3. (Cardinality(SentOn(Day(row[last].time))) <= row[last].index)'
      <4>1. SentOn(Day(row[last].time))' = SentOn(e)'
        BY <3>2 DEF SentOn
      <4>. QED  BY <1>1, <2>5, <3>2, <4>1
    <3>. QED  BY <1>7, <1>9, <3>1, <3>3 DEF Covers
  <2>9. \A i \in Newest(Settled)' : (IF i = 0 THEN told.sent = {} ELSE Covers(i))'
    <3> SUFFICES ASSUME NEW i \in Newest(Settled)' PROVE (IF i = 0 THEN told.sent = {} ELSE Covers(i))'
      OBVIOUS
    <3>1. i = last /\ i # 0
      BY <1>1, <1>6, <1>9, IdFacts
    <3>. QED  BY <2>8, <3>1
  <2>10. (told.sent \subseteq 1 .. last)'
    BY <1>0, <1>1, <1>9, IdFacts
  <2>. QED  BY <1>4, <2>6, <2>7, <2>9, <2>10 DEF LimitsOK, LimitsKept
<1>. QED  BY <1>8, <1>9

\* A number is drawn only if the newest row that counts allows it.
LEMMA DrawFits ==
  ASSUME IInv, LimitsOK, OneSender, NEW p \in Proc,
         At(p, "limit"), ~ TooFast(p), ~ TooMany(p)
  PROVE  Fits(now, IF SameDay(p) THEN row[req[p].id].index + 1 ELSE 1)
<1> DEFINE i == req[p].id
<1>0. /\ row \in [Id -> Row] /\ Id \subseteq Nat /\ Time \subseteq Nat /\ last \in Nat
      /\ told.sent \subseteq 1 .. last /\ 1 .. last \subseteq Id /\ now \in Nat
      /\ Frequency \in Nat \ {0} /\ DailyMax \in Nat \ {0}
  BY IdFacts, TimeFacts, ConstantsAssumption DEF IInv, TypeOK, LimitsOK, Id
<1>1. \A j \in Id : row[j].time \in Nat /\ row[j].index \in Nat
  BY <1>0 DEF Row
<1>2. i \in Newest({j \in Id : Kept(j)}) /\ p \in Sender
  BY DEF LimitsOK, LimitOK, At
<1>3. \A j \in Id : ~ Underfoot(j)
  BY <1>2 DEF Underfoot, LimitsOK, LimitOK, OneSender, At
<1>4. Settled = {j \in Id : Kept(j)}
  BY <1>3 DEF Settled
<1>5. (IF i = 0 THEN told.sent = {} ELSE Covers(i)) /\ (i # 0 => i \in Id)
  BY <1>2, <1>4, NewestFact DEF LimitsOK
<1>6. CASE i = 0
  <2>1. ~ SameDay(p) /\ told.sent = {}
    BY <1>5, <1>6 DEF SameDay
  <2>2. Cardinality(SentOn(Day(now))) = 0
    BY <2>1, FS_EmptySet DEF SentOn
  <2>. QED  BY <1>0, <2>1, <2>2 DEF Fits
<1>7. CASE i # 0
  <2>0. i \in Id /\ Covers(i) /\ row[i].time \in Nat
    BY <1>1, <1>5, <1>7
  <2>1. i \in Id /\ Covers(i) /\ row[i].time + Frequency <= now
    <3>1. ~ (now < row[i].time + Frequency)
      BY <1>7 DEF TooFast
    <3>. QED  BY <1>0, <2>0, <3>1
  <2>2. \A j \in told.sent : row[j].time \in Nat /\ row[j].time <= row[i].time
                             /\ row[j].time + Frequency <= now
    <3>1. \A j \in told.sent : j \in Id
      BY <1>0
    <3>2. \A j \in told.sent : row[j].time \in Nat /\ row[j].time <= row[i].time
      BY <1>1, <2>1, <3>1 DEF Covers
    <3>. QED  BY <1>0, <2>0, <2>1, <3>2
  <2>3. CASE SameDay(p)
    <3>1. /\ Day(row[i].time) = Day(now) /\ row[i].index < DailyMax
      <4>1. Day(row[i].time) = Day(now)
        BY <2>3 DEF SameDay
      <4>2. ~ (row[i].index >= DailyMax)
        BY <2>3 DEF TooMany
      <4>3. row[i].index \in Nat /\ DailyMax \in Nat
        BY <1>0, <1>1, <2>0
      <4>. HIDE DEF i
      <4>. QED  BY <4>1, <4>2, <4>3
    <3>2. Cardinality(SentOn(Day(now))) <= row[i].index
      BY <2>1, <3>1 DEF Covers
    <3>3. SentOn(Day(now)) \in SUBSET Id
      BY <1>0 DEF SentOn
    <3>4. Cardinality(SentOn(Day(now))) \in Nat
      BY <3>3, CountFact
    <3>5. row[i].index \in Nat /\ row[i].index + 1 <= DailyMax
      <4>1. row[i].index \in Nat
        BY <1>1, <2>0
      <4>2. row[i].index < DailyMax /\ DailyMax \in Nat
        BY <1>0, <3>1
      <4>. HIDE DEF i
      <4>. QED  BY <4>1, <4>2
    <3>6. Cardinality(SentOn(Day(now))) < row[i].index + 1
      BY <3>2, <3>4, <3>5
    <3>7. Fits(now, row[i].index + 1)
      BY <1>0, <2>2, <3>5, <3>6 DEF Fits
    <3>. QED  BY <2>3, <3>7
  <2>4. CASE ~ SameDay(p)
    <3>1. Day(row[i].time) # Day(now)
      BY <1>7, <2>4 DEF SameDay
    <3>2. row[i].time \in Nat /\ row[i].time <= now
      BY <1>0, <2>0, <2>1
    <3>3. ASSUME NEW j \in told.sent PROVE Day(row[j].time) # Day(now)
      BY <1>0, <2>2, <3>1, <3>2, DayFact
    <3>4. SentOn(Day(now)) = {}
      BY <3>3 DEF SentOn
    <3>5. Cardinality(SentOn(Day(now))) = 0
      BY <3>4, FS_EmptySet
    <3>. QED  BY <1>0, <2>2, <2>4, <3>5 DEF Fits
  <2>. QED  BY <2>3, <2>4
<1>. QED
  <2>1. i = 0 \/ i # 0
    OBVIOUS
  <2>. QED  BY <1>6, <1>7, <2>1

\* The new row is not counted yet; nothing else has changed.
LEMMA InsertLimits ==
  ASSUME IInv, LimitsOK, OneSender, NEW p \in Proc, InsertSmsCode(p)
  PROVE  LimitsOK'
<1> DEFINE n == last + 1
           q == req[p]
<1>0. /\ row \in [Id -> Row] /\ Id \subseteq Nat /\ Time \subseteq Nat /\ last \in Nat
      /\ told.sent \subseteq 1 .. last /\ 1 .. last \subseteq Id /\ now \in Nat
      /\ req \in [Proc -> Request] /\ q \in Request
  BY IdFacts, TimeFacts, ConstantsAssumption DEF IInv, TypeOK, LimitsOK, Id
<1>1. /\ n \in Id /\ n \notin 1 .. last /\ last' = n /\ told' = told /\ now' = now
      /\ q.pc = "insert" /\ \A i \in 1 .. last : i \in 1 .. n
  <2>1. last < MaxRow /\ MaxRow \in Nat
    BY ConstantsAssumption DEF InsertSmsCode
  <2>2. n \in Id /\ n \notin 1 .. last /\ \A i \in 1 .. last : i \in 1 .. n
    BY <1>0, <2>1 DEF Id
  <2>. QED  BY <2>2 DEF InsertSmsCode, At
<1>2. /\ row'[n].state = "unused" /\ row'[n].time = q.time /\ row'[n].index = q.index
      /\ \A i \in Id \ {n} : row'[i] = row[i]
  BY <1>0, <1>1 DEF InsertSmsCode
<1>3. req'[p].id = n /\ req'[p].pc = "deliver" /\ \A o \in Proc \ {p} : req'[o] = req[o]
  <2> DEFINE r == [q EXCEPT !.pc = "deliver", !.id = n]
  <2>1. r.id = n /\ r.pc = "deliver"
    BY <1>0 DEF Request
  <2>2. req' = [req EXCEPT ![p] = r]
    BY <1>1 DEF InsertSmsCode, Step
  <2>. HIDE DEF r
  <2>. QED  BY <1>0, <2>1, <2>2
<1>4. p \in Sender /\ Fits(q.time, q.index) /\ q.time \in Nat /\ q.index \in Nat
  BY <1>0, <1>1 DEF LimitsOK, LimitOK, Request
<1>5. \A o \in Proc \ {p} :
        req[o].pc \notin {"last", "limit", "insert", "deliver", "discard"}
  BY <1>4 DEF LimitsOK, LimitOK, OneSender
<1>6. /\ LimitsKept' /\ \A d : SentOn(d)' = SentOn(d)
      /\ \A t, k : t \in Nat /\ Fits(t, k) => Fits(t, k)'
  BY <1>0, <1>1, <1>2, SentSame
<1>7. \A o \in Proc : LimitOK(o)'
  <2>1. ASSUME NEW o \in Proc \ {p} PROVE LimitOK(o)'
    BY <1>3, <1>5 DEF LimitOK
  <2>2. LimitOK(p)'
    <3>1. PICK m \in Id, t \in Nat, k \in Nat : m = n /\ t = q.time /\ k = q.index
      BY <1>1, <1>4
    <3>2. Kept(m)' /\ Fits(t, k)'
      BY <1>2, <1>4, <1>6, <3>1 DEF Kept
    <3>3. req'[p].pc = "deliver" /\ req'[p].id = m /\ last' = m
          /\ row'[m].time = t /\ row'[m].index = k
      BY <1>1, <1>2, <1>3, <3>1
    <3>. QED  BY <1>1, <1>4, <3>1, <3>2, <3>3 DEF LimitOK
  <2>. QED  BY <2>1, <2>2
<1>8. \A i \in Newest(Settled)' : (IF i = 0 THEN told.sent = {} ELSE Covers(i))'
  <2>1. \A j \in Id : ~ Underfoot(j) /\ (Underfoot(j)' <=> j = n)
    BY <1>1, <1>3, <1>5 DEF Underfoot
  <2>2. row[n].state = "none"
    BY <1>0, <1>1 DEF IInv, RowsInOrder
  <2>3. Settled' = Settled /\ n \notin Settled
    BY <1>1, <1>2, <2>1, <2>2 DEF Settled, Kept
  <2> SUFFICES ASSUME NEW i \in Newest(Settled) PROVE (IF i = 0 THEN told.sent = {} ELSE Covers(i))'
    BY <2>3 DEF Newest
  <2>4. (i # 0 => i \in Id \ {n}) /\ (IF i = 0 THEN told.sent = {} ELSE Covers(i))
    BY <2>3, NewestFact DEF LimitsOK, Settled
  <2>5. CASE i = 0
    BY <1>1, <2>4, <2>5
  <2>6. CASE i # 0
    <3>1. row'[i] = row[i] /\ Covers(i) /\ \A j \in told.sent : row'[j] = row[j]
      BY <1>0, <1>1, <1>2, <2>4, <2>6
    <3>. QED  BY <1>1, <1>6, <2>6, <3>1 DEF Covers
  <2>. QED  BY <2>5, <2>6
<1>9. (told.sent \subseteq 1 .. last)'
  BY <1>0, <1>1
<1>. QED  BY <1>6, <1>7, <1>8, <1>9 DEF LimitsOK

LEMMA LimitsStep ==
  ASSUME OneSender
  PROVE  IInv /\ IInv' /\ LimitsOK /\ [Next]_vars => LimitsOK'
<1> SUFFICES ASSUME IInv, IInv', LimitsOK, [Next]_vars PROVE LimitsOK'
  OBVIOUS
<1>1. /\ req \in [Proc -> Request] /\ told \in Ledger /\ row \in [Id -> Row]
      /\ Idle.pc = "idle" /\ now \in Nat
  BY TimeFacts DEF IInv, TypeOK, Idle
<1>2. \A q \in Proc : LimitOK(q)
  BY DEF LimitsOK
<1>3. ASSUME row' = row, last' = last, told'.sent = told.sent, now' = now,
             NEW p \in Proc, NEW r \in Request, Step(p, r),
             \/ req[p].pc = "deliver" /\ r.pc = "discard" /\ r.id = req[p].id
             \/ /\ req[p].pc \notin {"deliver", "discard"}
                /\ r.pc \notin {"insert", "deliver", "discard"}
                /\ r.pc \in {"last", "limit"} => p \in Sender
                /\ r.pc = "limit" => r.id \in Newest({j \in Id : Kept(j)})
      PROVE  LimitsOK'
  <2>1. req'[p] = r /\ \A o \in Proc \ {p} : req'[o] = req[o]
    BY <1>1, <1>3 DEF Step
  <2>2. \A j \in Id : Kept(j)' <=> Kept(j)
    BY <1>3 DEF Kept
  <2>3. Newest({j \in Id : Kept(j)})' = Newest({j \in Id : Kept(j)})
    BY <1>3 DEF Newest, Kept
  <2>4. \/ req[p].pc = "deliver" /\ req'[p].pc = "discard" /\ req'[p].id = req[p].id
        \/ /\ req[p].pc \notin {"deliver", "discard"}
           /\ req'[p].pc \notin {"deliver", "discard"}
           /\ LimitOK(p)'
    BY <1>3, <2>1, <2>3 DEF LimitOK
  <2>. QED  BY <1>1, <1>3, <2>1, <2>2, <2>4, LimitsSame
<1>4. ASSUME row' = row, last' = last, told'.sent = told.sent, now' = now,
             NEW p \in Proc, Finish(p)
      PROVE  LimitsOK'
  <2>1. req'[p] = Idle /\ \A o \in Proc \ {p} : req'[o] = req[o]
    BY <1>1, <1>4 DEF Finish, Step
  <2>2. CASE req[p].pc \in {"deliver", "discard"}
    <3>1. Kept(last)' /\ \A j \in Id : Kept(j)' <=> Kept(j)
      BY <1>4, <2>2, LastCovers DEF Kept
    <3>. QED  BY <1>1, <1>4, <2>1, <2>2, <3>1, LimitsAfter
  <2>3. CASE req[p].pc \notin {"deliver", "discard"}
    BY <1>1, <1>3, <1>4, <2>3, IdleTyped DEF Finish
  <2>. QED  BY <2>2, <2>3
<1>5. CASE Tick \/ UNCHANGED vars
  <2>1. now' >= now /\ now' \in Nat
    BY <1>1, <1>5 DEF Tick, vars
  <2>2. \A j \in Id : Kept(j)' <=> Kept(j)
    BY <1>5 DEF Tick, vars, Kept
  <2>. QED  BY <1>5, <2>1, <2>2, LimitsSame DEF Tick, vars
<1>6. ASSUME NEW p \in Proc, Abort(p) PROVE LimitsOK'
  <2>1. told'.sent = told.sent
    BY <1>1, <1>6, AbortTells DEF Ledger
  <2>. QED  BY <1>4, <1>6, <2>1 DEF Abort
<1>7. ASSUME NEW p \in Proc, Send(p) PROVE LimitsOK'
  <2> DEFINE q == req[p]
  <2>1. q \in Request /\ LimitOK(p)
    BY <1>1, <1>2
  <2>2. ASSUME NEW s \in Scene, StartSend(p, s) PROVE LimitsOK'
    <3> DEFINE r == [Idle EXCEPT !.pc = "last", !.op = "send", !.scene = s]
    <3>1. r \in Request /\ r.pc = "last"
      BY IdleTyped DEF Request, Idle
    <3>2. /\ Step(p, r) /\ row' = row /\ last' = last /\ told' = told /\ now' = now
          /\ p \in Sender /\ q.pc = "idle"
      BY <2>2 DEF StartSend, At
    <3>. HIDE DEF r
    <3>. QED  BY <1>3, <3>1, <3>2
  <2>3. CASE ReadLast(p)
    <3>1. PICK i \in Newest({j \in Id : Kept(j)}) :
            Step(p, [q EXCEPT !.pc = "limit", !.id = i])
      BY <2>3 DEF ReadLast
    <3> DEFINE r == [q EXCEPT !.pc = "limit", !.id = i]
    <3>2. i \in {0} \union Id
      BY NewestFact
    <3>3. r \in Request /\ r.pc = "limit" /\ r.id = i
      BY <2>1, <3>2 DEF Request
    <3>4. /\ Step(p, r) /\ row' = row /\ last' = last /\ told' = told /\ now' = now
          /\ q.pc = "last" /\ p \in Sender
      BY <2>1, <2>3, <3>1 DEF ReadLast, At, LimitOK
    <3>. HIDE DEF r
    <3>. QED  BY <1>3, <3>1, <3>3, <3>4
  <2>4. CASE RefuseSend(p)
    BY <1>4, <2>4 DEF RefuseSend
  <2>5. ASSUME NEW c \in Code, DrawCode(p, c) PROVE LimitsOK'
    <3> DEFINE x == IF SameDay(p) THEN row[q.id].index + 1 ELSE 1
               r == [q EXCEPT !.pc = "insert", !.code = c, !.time = now, !.index = x]
    <3>1. /\ row' = row /\ last' = last /\ told' = told /\ now' = now
          /\ q.pc = "limit" /\ p \in Sender /\ req' = [req EXCEPT ![p] = r]
      BY <2>1, <2>5 DEF DrawCode, At, LimitOK, Step
    <3>2. Fits(now, x)
      BY <2>5, DrawFits DEF DrawCode
    <3>. HIDE DEF x
    <3>3. r.pc = "insert" /\ r.time = now /\ r.index = x
      BY <2>1 DEF Request
    <3>. HIDE DEF r
    <3>4. req'[p] = r /\ \A o \in Proc \ {p} : req'[o] = req[o]
      BY <1>1, <3>1
    <3>5. PICK t, n : t = now /\ n = x
      OBVIOUS
    <3>6. LimitOK(p)'
      <4>1. Fits(t, n)'
        BY <3>1, <3>2, <3>5 DEF Fits, SentOn
      <4>2. req'[p].pc = "insert" /\ req'[p].time = t /\ req'[p].index = n
        BY <3>3, <3>4, <3>5
      <4>. QED  BY <3>1, <4>1, <4>2 DEF LimitOK
    <3>7. \A j \in Id : Kept(j)' <=> Kept(j)
      BY <3>1 DEF Kept
    <3>. QED  BY <1>1, <3>1, <3>3, <3>4, <3>6, <3>7, LimitsSame
  <2>6. CASE InsertSmsCode(p)
    BY <2>6, InsertLimits
  <2>7. CASE SendCode(p)
    <3>1. /\ q.pc = "deliver" /\ told'.sent = told.sent \union {q.id} /\ row' = row
          /\ last' = last /\ now' = now
      BY <1>1, <2>7 DEF SendCode, At, Ledger
    <3>2. req'[p] = Idle /\ \A o \in Proc \ {p} : req'[o] = req[o]
      BY <1>1, <2>7 DEF SendCode, Finish, Step
    <3>3. q.id = last /\ Kept(last)' /\ \A j \in Id : Kept(j)' <=> Kept(j)
      BY <3>1, LastCovers DEF Kept
    <3>. QED  BY <1>1, <3>1, <3>2, <3>3, LimitsAfter
  <2>8. CASE SendCodeFails(p)
    <3> DEFINE r == [q EXCEPT !.pc = "discard"]
    <3>1. r \in Request /\ r.id = q.id /\ r.pc = "discard"
      BY <2>1 DEF Request
    <3>2. Step(p, r) /\ row' = row /\ last' = last /\ told' = told /\ now' = now /\ q.pc = "deliver"
      BY <2>8 DEF SendCodeFails, At
    <3>. HIDE DEF r
    <3>. QED  BY <1>3, <3>1, <3>2
  <2>9. CASE DiscardSmsCode(p)
    <3>1. PICK i \in Newest(Unused(q.code, q.scene)) :
            /\ row' = IF i = 0 THEN row ELSE [row EXCEPT ![i].state = "gone"]
            /\ \/ told' = [told EXCEPT !.early = @ \union {q.id}]
               \/ told' = [told EXCEPT !.withdrawn = @ \union {q.id}]
      BY <2>9 DEF DiscardSmsCode
    <3>2. /\ q.pc = "discard" /\ told'.sent = told.sent /\ last' = last /\ now' = now
      BY <1>1, <2>9, <3>1 DEF DiscardSmsCode, At, Ledger
    <3>3. req'[p] = Idle /\ \A o \in Proc \ {p} : req'[o] = req[o]
      BY <1>1, <2>9 DEF DiscardSmsCode, Finish, Step
    <3>4. /\ \A j \in Id : row'[j].time = row[j].time /\ row'[j].index = row[j].index
          /\ \A j \in Id : Kept(j)' => Kept(j)
          /\ \A j \in Id \ {i} : Kept(j)' <=> Kept(j)
      BY <1>1, <3>1 DEF Kept, Row
    <3>5. Kept(last)' \/ \A j \in Id \ {last} : Kept(j)' <=> Kept(j)
      BY <3>2, <3>4, LastCovers
    <3>. QED  BY <1>1, <3>2, <3>3, <3>4, <3>5, LimitsAfter
  <2>. QED  BY <1>7, <2>2, <2>3, <2>4, <2>5, <2>6, <2>7, <2>8, <2>9 DEF Send
<1>8. ASSUME NEW p \in Proc, Use(p) PROVE LimitsOK'
  <2> DEFINE q == req[p]
  <2>1. q \in Request
    BY <1>1
  <2>2. ASSUME NEW o \in {"use", "reset"}, NEW c \in Code, NEW s \in Scene,
               StartUse(p, o, c, s)
        PROVE  LimitsOK'
    <3> DEFINE r == [Idle EXCEPT !.pc = "find", !.op = o, !.code = c, !.scene = s]
    <3>1. r \in Request /\ r.pc = "find"
      BY IdleTyped DEF Request, Idle
    <3>2. Step(p, r) /\ row' = row /\ last' = last /\ told' = told /\ now' = now /\ q.pc = "idle"
      BY <2>2 DEF StartUse, At
    <3>. HIDE DEF r
    <3>. QED  BY <1>3, <3>1, <3>2
  <2>3. CASE LastSmsCode(p)
    <3>1. PICK i \in Newest(Matching(q.code, q.scene)) \ {0} :
            Step(p, [q EXCEPT !.pc = "judge", !.id = i, !.used = (row[i].state = "used")])
      BY <2>3 DEF LastSmsCode
    <3> DEFINE r == [q EXCEPT !.pc = "judge", !.id = i, !.used = (row[i].state = "used")]
    <3>2. i \in Id
      BY NewestFact DEF Matching
    <3>3. r \in Request /\ r.pc = "judge"
      BY <2>1, <3>2 DEF Request
    <3>4. Step(p, r) /\ row' = row /\ last' = last /\ told' = told /\ now' = now /\ q.pc = "find"
      BY <2>3, <3>1 DEF LastSmsCode, At
    <3>. HIDE DEF r
    <3>. QED  BY <1>3, <3>3, <3>4
  <2>4. CASE Judge(p)
    <3> DEFINE r == [q EXCEPT !.pc = "mark"]
    <3>1. /\ row' = row /\ last' = last /\ told' = told /\ now' = now
          /\ q.pc = "judge" /\ (Step(p, r) \/ Finish(p))
      BY <2>4 DEF Judge, At
    <3>2. r \in Request /\ r.pc = "mark"
      BY <2>1 DEF Request
    <3>. HIDE DEF r
    <3>. QED  BY <1>3, <1>4, <3>1, <3>2
  <2>5. CASE NoSuchCode(p) \/ UseTooLate(p) \/ UpdatePassword(p)
    BY <1>4, <2>5 DEF NoSuchCode, UseTooLate, UpdatePassword
  <2>6. CASE UseSmsCode(p)
    <3>1. /\ q.id \in Id /\ last' = last /\ row' = [row EXCEPT ![q.id].state = "used"]
          /\ row[q.id].state = "unused" /\ told'.sent = told.sent /\ now' = now /\ q.pc = "mark"
      BY <1>1, <2>6 DEF UseSmsCode, At, IInv, HoldsRow, Ledger
    <3>2. \A j \in Id : /\ row'[j].time = row[j].time /\ row'[j].index = row[j].index
                        /\ Kept(j)' <=> Kept(j)
      BY <1>1, <3>1 DEF Row, Kept
    <3>3. req'[p].pc \in {"idle", "password"} /\ \A o \in Proc \ {p} : req'[o] = req[o]
      <4> DEFINE r == [q EXCEPT !.pc = "password"]
      <4>1. r.pc = "password" /\ (Step(p, r) \/ Step(p, Idle))
        BY <2>1, <2>6 DEF UseSmsCode, Finish, Request
      <4>. HIDE DEF r
      <4>. QED  BY <1>1, <4>1 DEF Step
    <3>4. LimitOK(p)'
      BY <3>3 DEF LimitOK
    <3>. QED  BY <1>1, <3>1, <3>2, <3>3, <3>4, LimitsSame
  <2>. QED  BY <1>8, <2>2, <2>3, <2>4, <2>5, <2>6 DEF Use
<1>. QED  BY <1>5, <1>6, <1>7, <1>8 DEF Next

\* If one request at a time sends to a number, its messages keep the distance and
\* the number of a day, although createSmsCode looks at the last row only and a row
\* that was not delivered does not count: the newest row that is left covers all
\* messages that were sent (smscode.go:146).
THEOREM LimitsStayKept ==
  ASSUME OneSender
  PROVE  Spec => []LimitsKept
<1>1. LimitsOK => LimitsKept
  BY DEF LimitsOK
<1>. QED  BY <1>1, Inductive, LimitsInit, LimitsStep, PTL DEF Spec
=============================================================================
