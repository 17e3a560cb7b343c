------------------------------- MODULE SmsCode -------------------------------
(***************************************************************************)
(* Verification codes sent by text message (internal/system/auth,          *)
(* smscode.go and sms_mysql.go), for one mobile number: every query of     *)
(* the code filters by the number, so numbers do not affect each other.    *)
(*                                                                         *)
(* A request is one HTTP or Feign call.  Each SQL statement, each reading  *)
(* of the clock and the call of the message channel is one step of it.     *)
(***************************************************************************)
EXTENDS Requests

CONSTANTS
  Sender,       \* the ones of them that may send a code
  Code,         \* values randomCode can return
  Scene,        \* login, reset and the others
  Reset,        \* the scene of ResetPassword
  Frequency,    \* smsFrequency: time between two messages
  Expire,       \* smsExpire: validity of a code
  DailyMax,     \* smsDailyMax: messages per day
  DayLength,
  Faults,       \* may a call fail, or the process crash?
  MaxRow,       \* bound: rows inserted
  MaxTime       \* bound: time that passes

ASSUME ConstantsAssumption ==
  /\ Sender \subseteq Proc
  /\ None \notin Code
  /\ Reset \in Scene
  /\ {Frequency, Expire, DailyMax, DayLength} \subseteq Nat \ {0}
  /\ Faults \in BOOLEAN
  /\ {MaxRow, MaxTime} \subseteq Nat

VARIABLES
  row,     \* system_sms_code, by auto-increment id
  last,    \* the last id given
  now,     \* the clock
  req,     \* progress and local variables of the requests
  told     \* history: what became of the codes

vars == <<row, last, now, req, told>>

Id   == 1 .. MaxRow
Time == 0 .. MaxTime

Row == [state : {"none", "unused", "used", "gone"},
        code : Code \union {None}, scene : Scene, time : Time, index : Nat]

Request == [pc : {"idle", "last", "limit", "insert", "deliver", "discard",
                  "find", "judge", "mark", "password"},
            op : {"none", "send", "use", "reset"},
            scene : Scene, code : Code \union {None},
            id : {0} \union Id,   \* the row it has read or inserted
            used : BOOLEAN,       \* that row's column used, when it was read
            time : Time, index : Nat]

Idle == [pc |-> "idle", op |-> "none", scene |-> Reset, code |-> None,
         id |-> 0, used |-> FALSE, time |-> 0, index |-> 0]

Ledger == [sent      : SUBSET Id,    \* the channel has accepted the message
           withdrawn : SUBSET Id,    \* the send failed and a row was discarded
          early     : SUBSET Id,    \* the same, but every row had been used by then
          stranded  : SUBSET Id,    \* the send failed and so did the discard, or
                                    \* it ended without knowing: the row is left
           burnt     : SUBSET Id,    \* spent by a reset that changed nothing
           grants    : [Id -> Nat]]  \* requests let through on the code

TypeOK ==
  /\ row \in [Id -> Row]
  /\ last \in {0} \union Id
  /\ now \in Time
  /\ req \in [Proc -> Request]
  /\ told \in Ledger

Init ==
  /\ row = [i \in Id |-> [state |-> "none", code |-> None, scene |-> Reset,
                          time |-> 0, index |-> 0]]
  /\ last = 0
  /\ now = 0
  /\ req = [p \in Proc |-> Idle]
  /\ told = [sent |-> {}, withdrawn |-> {}, early |-> {}, stranded |-> {},
             burnt |-> {}, grants |-> [i \in Id |-> 0]]

-----------------------------------------------------------------------------
(* Helpers.                                                                *)

At(p, pc) == req[p].pc = pc

Step(p, r) == req' = [req EXCEPT ![p] = r]

Finish(p) == Step(p, Idle)

Kept(i) == row[i].state \in {"unused", "used"}

\* The result of SELECT ... ORDER BY id DESC LIMIT 1; 0 if there is no row.
Newest(I) == IF I = {} THEN {0} ELSE {i \in I : \A j \in I : j <= i}

Matching(c, s) == {i \in Id : Kept(i) /\ row[i].code = c /\ row[i].scene = s}

Unused(c, s) == {i \in Matching(c, s) : row[i].state = "unused"}

Day(t) == t \div DayLength

-----------------------------------------------------------------------------
(* SendSmsCode and SendSmsCodeRPC.                                         *)

StartSend(p, s) ==
  /\ p \in Sender
  /\ At(p, "idle")
  /\ last < MaxRow   \* bound
  /\ Step(p, [Idle EXCEPT !.pc = "last", !.op = "send", !.scene = s])
  /\ UNCHANGED <<row, last, now, told>>

\* Mutant: the last code that is still unused, instead of the last one.
ReadLastUnused(p) ==
  /\ At(p, "last")
  /\ \E i \in Newest({j \in Id : row[j].state = "unused"}) :
       Step(p, [req[p] EXCEPT !.pc = "limit", !.id = i])
  /\ UNCHANGED <<row, last, now, told>>

\* createSmsCode: the last message to the number, whatever its scene.
ReadLast(p) ==
  /\ At(p, "last")
  /\ \E i \in Newest({j \in Id : Kept(j)}) :
       Step(p, [req[p] EXCEPT !.pc = "limit", !.id = i])
  /\ UNCHANGED <<row, last, now, told>>

TooFast(p) == /\ req[p].id # 0
              /\ now < row[req[p].id].time + Frequency

SameDay(p) == /\ req[p].id # 0
              /\ Day(row[req[p].id].time) = Day(now)

TooMany(p) == SameDay(p) /\ row[req[p].id].index >= DailyMax

RefuseSend(p) ==
  /\ At(p, "limit")
  /\ TooFast(p) \/ TooMany(p)
  /\ Finish(p)
  /\ UNCHANGED <<row, last, now, told>>

DrawCode(p, c) ==
  /\ At(p, "limit")
  /\ ~TooFast(p) /\ ~TooMany(p)
  /\ Step(p, [req[p] EXCEPT !.pc = "insert", !.code = c, !.time = now,
                !.index = IF SameDay(p) THEN row[req[p].id].index + 1 ELSE 1])
  /\ UNCHANGED <<row, last, now, told>>

InsertSmsCode(p) ==
  /\ At(p, "insert")
  /\ last < MaxRow   \* bound
  /\ last' = last + 1
  /\ row' = [row EXCEPT ![last'] =
               [state |-> "unused", code |-> req[p].code,
                scene |-> req[p].scene, time |-> req[p].time,
                index |-> req[p].index]]
  /\ Step(p, [req[p] EXCEPT !.pc = "deliver", !.id = last'])
  /\ UNCHANGED <<now, told>>

SendCode(p) ==
  /\ At(p, "deliver")
  /\ told' = [told EXCEPT !.sent = @ \union {req[p].id}]
  /\ Finish(p)
  /\ UNCHANGED <<row, last, now>>

SendCodeFails(p) ==
  /\ Faults
  /\ At(p, "deliver")
  /\ Step(p, [req[p] EXCEPT !.pc = "discard"])
  /\ UNCHANGED <<row, last, now, told>>

\* Mutant: the row of the undelivered code is kept.
DiscardSkipped(p) ==
  /\ At(p, "discard")
  /\ told' = [told EXCEPT !.withdrawn = @ \union {req[p].id}]
  /\ Finish(p)
  /\ UNCHANGED <<row, last, now>>

\* DELETE of the newest unused row of this code and scene, by value, not by id.
DiscardSmsCode(p) ==
  /\ At(p, "discard")
  /\ \E i \in Newest(Unused(req[p].code, req[p].scene)) :
       IF i = 0
       THEN row' = row /\ told' = [told EXCEPT !.early = @ \union {req[p].id}]
       ELSE /\ row' = [row EXCEPT ![i].state = "gone"]
            /\ told' = [told EXCEPT !.withdrawn = @ \union {req[p].id}]
  /\ Finish(p)
  /\ UNCHANGED <<last, now>>

-----------------------------------------------------------------------------
(* useSmsCode: UseSmsCodeRPC and SmsLogin ("use"), ResetPassword ("reset").*)

StartUse(p, o, c, s) ==
  /\ o = "reset" => s = Reset
  /\ At(p, "idle")
  /\ Step(p, [Idle EXCEPT !.pc = "find", !.op = o, !.code = c, !.scene = s])
  /\ UNCHANGED <<row, last, now, told>>

NoSuchCode(p) ==
  /\ At(p, "find")
  /\ Matching(req[p].code, req[p].scene) = {}
  /\ Finish(p)
  /\ UNCHANGED <<row, last, now, told>>

LastSmsCode(p) ==
  /\ At(p, "find")
  /\ \E i \in Newest(Matching(req[p].code, req[p].scene)) \ {0} :
       Step(p, [req[p] EXCEPT !.pc = "judge", !.id = i,
                              !.used = row[i].state = "used"])
  /\ UNCHANGED <<row, last, now, told>>

\* The check useSmsCode shares with ValidateSmsCodeRPC, which marks nothing.
Usable(p) == now < row[req[p].id].time + Expire /\ ~req[p].used

Judge(p) ==
  /\ At(p, "judge")
  /\ IF Usable(p) THEN Step(p, [req[p] EXCEPT !.pc = "mark"]) ELSE Finish(p)
  /\ UNCHANGED <<row, last, now, told>>

\* Mutant: the UPDATE relies on the column used as it was read before.
UseSmsCodeBlindly(p) ==
  /\ At(p, "mark")
  /\ row' = [row EXCEPT ![req[p].id].state = "used"]
  /\ told' = [told EXCEPT !.grants[req[p].id] = @ + 1]
  /\ Finish(p)
  /\ UNCHANGED <<last, now>>

\* UPDATE ... SET used = 1 WHERE id = ? AND used = 0, and its RowsAffected.
UseSmsCode(p) ==
  /\ At(p, "mark")
  /\ row[req[p].id].state = "unused"
  /\ row' = [row EXCEPT ![req[p].id].state = "used"]
  /\ told' = [told EXCEPT !.grants[req[p].id] = @ + 1]
  /\ IF req[p].op = "reset" THEN Step(p, [req[p] EXCEPT !.pc = "password"])
                            ELSE Finish(p)
  /\ UNCHANGED <<last, now>>

UseTooLate(p) ==
  /\ At(p, "mark")
  /\ row[req[p].id].state # "unused"
  /\ Finish(p)
  /\ UNCHANGED <<row, last, now, told>>

\* ResetPassword goes on with the new password, outside of any transaction.
UpdatePassword(p) ==
  /\ At(p, "password")
  /\ Finish(p)
  /\ UNCHANGED <<row, last, now, told>>

-----------------------------------------------------------------------------

\* A statement fails or the process dies: the request ends as it stands.
Abort(p) ==
  /\ Faults
  /\ ~At(p, "idle")
  /\ Finish(p)
  /\ told' = CASE At(p, "password") -> [told EXCEPT !.burnt = @ \union {req[p].id}]
               [] At(p, "deliver") \/ At(p, "discard") ->
                    [told EXCEPT !.stranded = @ \union {req[p].id}]
               [] OTHER -> told
  /\ UNCHANGED <<row, last, now>>

Tick ==
  /\ now < MaxTime
  /\ now' = now + 1
  /\ UNCHANGED <<row, last, req, told>>

Send(p) ==
  \/ \E s \in Scene : StartSend(p, s)
  \/ ReadLast(p) \/ RefuseSend(p) \/ \E c \in Code : DrawCode(p, c)
  \/ InsertSmsCode(p) \/ SendCode(p) \/ SendCodeFails(p) \/ DiscardSmsCode(p)

Use(p) ==
  \/ \E o \in {"use", "reset"}, c \in Code, s \in Scene : StartUse(p, o, c, s)
  \/ NoSuchCode(p) \/ LastSmsCode(p) \/ Judge(p) \/ UseSmsCode(p) \/ UseTooLate(p)
  \/ UpdatePassword(p)

Next == (\E p \in Proc : Send(p) \/ Use(p) \/ Abort(p)) \/ Tick

Spec == Init /\ [][Next]_vars

-----------------------------------------------------------------------------
(* The inductive invariant.                                                *)

\* Ids are given out in order, and no row loses its id.
RowsInOrder == \A i \in Id : row[i].state = "none" <=> i > last

\* A request that goes on with a row has one.
HoldsRow ==
  \A p \in Proc :
    req[p].pc \in {"deliver", "discard", "judge", "mark", "password"} =>
      req[p].id \in Id

IInv == TypeOK /\ RowsInOrder /\ HoldsRow

-----------------------------------------------------------------------------
(* Properties.                                                             *)

Ticket == [none |-> "unissued", unused |-> "valid", used |-> "spent",
           gone |-> "void"]

SU == INSTANCE SingleUse WITH
        Ticket <- Id,
        state  <- [i \in Id |-> Ticket[row[i].state]],
        grants <- told.grants

\* Each row of the table is a one-time credential: however requests that have
\* read it as unused overtake one another, the conditional UPDATE lets at most
\* one of them through, and none once the row has been discarded.
ImplementsSingleUse == SU!Spec

\* The codes that may be usable: delivered, or on their way; and the ones nobody
\* could withdraw: left behind by a send that crashed or whose discard failed
\* (smscode.go:138), or used before they were discarded.
OnTheWay == {req[p].id : p \in {q \in Proc : req[q].pc \in {"deliver", "discard"}}}
Accounted == told.sent \union OnTheWay \union told.stranded \union told.early

\* DiscardSmsCode deletes by value, so it may hit the row of another request; all
\* the same the rows that are left of a value are exactly as many as its codes of
\* the kinds above: a code whose send failed and was withdrawn cannot be used
\* (smscode.go:137), and none that was delivered is lost, not even with the fixed
\* code of test systems.
UndeliveredUnusable ==
  \A c \in Code, s \in Scene :
    Cardinality(Matching(c, s)) =
      Cardinality({i \in Accounted : row[i].code = c /\ row[i].scene = s})

Apart == \A i, j \in told.sent : i < j => row[j].time >= row[i].time + Frequency
Few == \A d \in {Day(t) : t \in Time} :
         Cardinality({i \in told.sent : Day(row[i].time) = d}) <= DailyMax

\* createSmsCode: messages that were sent are Frequency apart, and no more than
\* DailyMax of them were sent on one day, although only the last row is looked at,
\* discarded rows do not count, and the day changes (smscode.go:146).
LimitsKept == Apart /\ Few

\* auth/smscode.go:390: a reset spends the code and changes the password
\* together, or does neither.
ResetIsAtomic == told.burnt = {}
=============================================================================
