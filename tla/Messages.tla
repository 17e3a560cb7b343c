------------------------------ MODULE Messages ------------------------------
(***************************************************************************)
(* Text messages, mail and site messages.  A message is sent outside of    *)
(* every transaction: its log row is inserted, the vendor is called, and   *)
(* the row is finished with what the vendor replied.  Reports of delivery  *)
(* come later or earlier than that, once or more often, in any order.      *)
(* Channels do not interact, so each behaviour is about one.               *)
(***************************************************************************)
EXTENDS Requests

CONSTANTS MaxLog,    \* rows of system_sms_log or system_mail_log
          MaxInbox,  \* rows of system_notify_message
          Tenant, UserId

ASSUME MessagesAssumption ==
  MaxLog \in Nat /\ MaxInbox \in Nat /\ None \notin {"delivered", "undelivered"}

SmsChannel == {"ALIYUN", "TENCENT", "HUAWEI", "QINIU", "DEBUG_DING_TALK"}
Channel == SmsChannel \cup {"mail", "site"}

VARIABLES
  channel,   \* the channel of this behaviour; constant
  logs,      \* the log rows, in the order of their numbers
  accepted,  \* messages a vendor has accepted, by the number of their row
  inbox,     \* the site messages
  sender,    \* sender[p]: the progress of request p
  kept,      \* history: rows whose verification code the caller keeps
  answered,  \* history: reports that were answered with success
  early,     \* history: reports that came before the row had its serial
  abandoned  \* history: rows whose request died or could not finish them

messageVars == <<channel, logs, accepted, inbox, sender, kept, answered,
                 early, abandoned>>

Log == 1 .. MaxLog
Verdict == {"delivered", "undelivered"}

IdleSender == [at |-> "rest", forCode |-> FALSE, on |-> FALSE, row |-> 0,
               ok |-> FALSE, serial |-> FALSE, lost |-> FALSE, batch |-> <<>>, to |-> None]

SenderGoes(p, r) == sender' = [sender EXCEPT ![p] = r]
SenderRests(p) == SenderGoes(p, IdleSender)

-----------------------------------------------------------------------------
(* Sending.  A reply of a vendor has a code (none if it cannot be parsed)   *)
(* and may name the vendor's serial number of the message.                  *)

Reply(code, serial) == [code |-> code, serial |-> serial]
Result(ok, serial) == [ok |-> ok, serial |-> serial]

sendAliyun(r)  == Result(r.code = "good", r.serial)
sendTencent(r) == Result(r.code = "good", r.serial)
sendHuawei(r)  == Result(r.code = "good" /\ r.serial, r.serial)
sendQiniu(r)   == Result(r.code # "bad" /\ r.serial, r.serial)
\* What is not an error of the robot counts as sent, an unreadable reply too.
dingTalkSend(r) == Result(r.code # "bad", TRUE)
smtpSend(r)    == Result(r.code = "good", FALSE)

\* Mutant: what is not an error was sent, for every vendor.
SentUnlessRefused(c, r) == Result(r.code # "bad", r.serial)
sendVendorSMS(c, r) ==
  CASE c = "ALIYUN" -> sendAliyun(r)
    [] c = "TENCENT" -> sendTencent(r)
    [] c = "HUAWEI" -> sendHuawei(r)
    [] c = "QINIU" -> sendQiniu(r)
    [] c = "DEBUG_DING_TALK" -> dingTalkSend(r)
    [] OTHER -> smtpSend(r)

\* Template and channel are read: they may be enabled or disabled at any time.
\* A verification code goes by SMS.
SendSmsTo(p) ==
  /\ sender[p] = IdleSender /\ channel \in SmsChannel /\ Len(logs) < MaxLog
  /\ \E forCode \in BOOLEAN, on \in BOOLEAN :
       SenderGoes(p, [IdleSender EXCEPT !.at = "insert", !.forCode = forCode, !.on = on])
  /\ UNCHANGED <<channel, logs, accepted, inbox, kept, answered, early, abandoned>>

SendMail(p) ==
  /\ sender[p] = IdleSender /\ channel = "mail" /\ Len(logs) < MaxLog
  /\ \E on \in BOOLEAN : SenderGoes(p, [IdleSender EXCEPT !.at = "insert", !.on = on])
  /\ UNCHANGED <<channel, logs, accepted, inbox, kept, answered, early, abandoned>>

\* The reply is the number of the row; who sent a code looks at its status.
AfterSend(p, i) ==
  IF sender[p].forCode THEN SenderGoes(p, [sender[p] EXCEPT !.at = "status", !.row = i])
  ELSE SenderRests(p)

\* A disabled channel leaves a row of a failure and sends nothing.
InsertLog(p) ==
  LET i == Len(logs) + 1 IN
  /\ sender[p].at = "insert" /\ i <= MaxLog
  /\ logs' = Append(logs, [send |-> IF sender[p].on THEN "init" ELSE "failure",
                           serial |-> FALSE, receive |-> None])
  /\ IF sender[p].on THEN SenderGoes(p, [sender[p] EXCEPT !.at = "call", !.row = i])
     ELSE AfterSend(p, i)
  /\ UNCHANGED <<channel, accepted, inbox, kept, answered, early, abandoned>>

\* The vendor accepts the message or refuses it; either way its reply may be
\* unreadable or lost.
CallVendor(p) ==
  LET i == sender[p].row IN
  /\ sender[p].at = "call"
  /\ \E taken \in BOOLEAN, lost \in BOOLEAN,
        r \in {Reply("good", TRUE), Reply("bad", FALSE), Reply("none", FALSE)} :
       /\ r.code = "good" => taken
       /\ r.code = "bad" => ~ taken
       /\ accepted' = IF taken THEN accepted \cup {i} ELSE accepted
       /\ LET says == IF lost THEN Result(FALSE, FALSE) ELSE sendVendorSMS(channel, r)
          IN SenderGoes(p, [sender[p] EXCEPT !.at = "finish", !.ok = says.ok,
                                             !.serial = says.serial, !.lost = lost])
  /\ UNCHANGED <<channel, logs, inbox, kept, answered, early, abandoned>>

Finished(p, row) ==
  [row EXCEPT !.send = IF sender[p].ok THEN "success" ELSE "failure", !.serial = sender[p].serial]

\* Mutant: finishing a row sets all of its status columns.
FinishAllColumns(p) ==
  /\ sender[p].at = "finish" /\ channel # "mail"
  /\ logs' = [logs EXCEPT ![sender[p].row] = [Finished(p, @) EXCEPT !.receive = None]]
  /\ AfterSend(p, sender[p].row)
  /\ UNCHANGED <<channel, accepted, inbox, kept, answered, early, abandoned>>

FinishSmsLog(p) ==
  /\ sender[p].at = "finish" /\ channel # "mail"
  /\ logs' = [logs EXCEPT ![sender[p].row] = Finished(p, @)]
  /\ AfterSend(p, sender[p].row)
  /\ UNCHANGED <<channel, accepted, inbox, kept, answered, early, abandoned>>

FinishMailLog(p) ==
  /\ sender[p].at = "finish" /\ channel = "mail"
  /\ logs' = [logs EXCEPT ![sender[p].row] = Finished(p, @)]
  /\ SenderRests(p)
  /\ UNCHANGED <<channel, accepted, inbox, kept, answered, early, abandoned>>

\* The statement fails.  After an error of the call that is ignored, too.
FinishFails(p) ==
  /\ sender[p].at = "finish"
  /\ abandoned' = abandoned \cup {sender[p].row}
  /\ IF sender[p].lost THEN AfterSend(p, sender[p].row) ELSE SenderRests(p)
  /\ UNCHANGED <<channel, logs, accepted, inbox, kept, answered, early>>

\* The sender of a verification code discards it unless the row says success.
SendCode(p) ==
  /\ sender[p].at = "status"
  /\ kept' = IF logs[sender[p].row].send = "success" THEN kept \cup {sender[p].row} ELSE kept
  /\ SenderRests(p)
  /\ UNCHANGED <<channel, logs, accepted, inbox, answered, early, abandoned>>

-----------------------------------------------------------------------------
(* Reports of delivery.  Vendors repeat what was not answered with success, *)
(* and sometimes what was; one body may carry reports of several messages.  *)

\* Every vendor but the robot reports on what it has accepted.
Reports == IF channel \in SmsChannel \ {"DEBUG_DING_TALK"} THEN [row : accepted, verdict : Verdict] ELSE {}
\* Bound: a body has at most two, in the order of their rows.
Batches == {<<r>> : r \in Reports}
             \cup {b \in {<<r, s>> : r, s \in Reports} : channel # "HUAWEI" /\ b[1].row < b[2].row}

\* A body for a channel that is not enabled is refused.
ReceiveSms(p) ==
  /\ sender[p] = IdleSender
  /\ \E b \in Batches : SenderGoes(p, [IdleSender EXCEPT !.at = "apply", !.batch = b])
  /\ UNCHANGED <<channel, logs, accepted, inbox, kept, answered, early, abandoned>>

\* Three vendors echo the number of the row; the fourth knows its serial only.
parseAliyun(r)  == [id |-> r.row, serial |-> r.row]
parseHuawei(r)  == [id |-> r.row, serial |-> r.row]
parseQiniu(r)   == [id |-> r.row, serial |-> r.row]
parseTencent(r) == [id |-> 0, serial |-> r.row]

parseSmsReceipts(c, r) ==
  CASE c = "ALIYUN" -> parseAliyun(r)
    [] c = "TENCENT" -> parseTencent(r)
    [] c = "HUAWEI" -> parseHuawei(r)
    [] OTHER -> parseQiniu(r)

\* Serials are unique: a row has the serial of its own message or none.
RowOf(receipt) ==
  IF receipt.id # 0 THEN {receipt.id} \cap DOMAIN logs
  ELSE {i \in DOMAIN logs : logs[i].serial /\ i = receipt.serial}

\* One report after the other; a report without a row is passed over.  The SELECT
\* of a row by its serial number and the UPDATE of that row are one step: a row
\* gets its serial number once and is never deleted, so what comes between the
\* two could as well come before or after both.
applyReceipt(p) ==
  LET r == Head(sender[p].batch)
      rest == Tail(sender[p].batch)
      found == RowOf(parseSmsReceipts(channel, r))
  IN
  /\ sender[p].at = "apply"
  /\ logs' = [i \in DOMAIN logs |-> IF i \in found THEN [logs[i] EXCEPT !.receive = r.verdict]
                                    ELSE logs[i]]
  /\ early' = IF found = {} THEN early \cup {r} ELSE early
  /\ answered' = answered \cup {r}
  /\ IF rest = <<>> THEN SenderRests(p) ELSE SenderGoes(p, [sender[p] EXCEPT !.batch = rest])
  /\ UNCHANGED <<channel, accepted, inbox, kept, abandoned>>

-----------------------------------------------------------------------------
(* Site messages *)

SendNotify(p) ==
  /\ sender[p] = IdleSender /\ channel = "site"
  /\ \E t \in Tenant, u \in UserId, type \in {"admin", "member"} :
       SenderGoes(p, [IdleSender EXCEPT !.at = "notify", !.to = [tenant |-> t, user |-> u, type |-> type]])
  /\ UNCHANGED <<channel, logs, accepted, inbox, kept, answered, early, abandoned>>

InsertMessage(p) ==
  /\ sender[p].at = "notify" /\ Len(inbox) < MaxInbox
  /\ inbox' = Append(inbox, [to |-> sender[p].to, read |-> FALSE])
  /\ SenderRests(p)
  /\ UNCHANGED <<channel, logs, accepted, kept, answered, early, abandoned>>

\* The messages of a caller: administrators only, members use another service.
Own(t, u) == {i \in DOMAIN inbox : inbox[i].to = [tenant |-> t, user |-> u, type |-> "admin"]}

Read(I) ==
  /\ channel = "site"
  /\ inbox' = [i \in DOMAIN inbox |-> IF i \in I THEN [inbox[i] EXCEPT !.read = TRUE] ELSE inbox[i]]
  /\ UNCHANGED <<channel, logs, accepted, sender, kept, answered, early, abandoned>>

\* The ids come from the caller, who may name any message.
MarkRead == \E t \in Tenant, u \in UserId, ids \in SUBSET DOMAIN inbox : Read(Own(t, u) \cap ids)

MarkAllRead == \E t \in Tenant, u \in UserId : Read(Own(t, u))

-----------------------------------------------------------------------------
(* The rest of the world *)

\* A statement fails or the process dies.  What was inserted stays as it is.
SendAborts(p) ==
  /\ sender[p] # IdleSender
  /\ abandoned' = IF sender[p].at \in {"call", "finish"} THEN abandoned \cup {sender[p].row} ELSE abandoned
  /\ SenderRests(p)
  /\ UNCHANGED <<channel, logs, accepted, inbox, kept, answered, early>>

MessagesInit ==
  /\ channel \in Channel
  /\ logs = <<>> /\ accepted = {} /\ inbox = <<>>
  /\ sender = [p \in Proc |-> IdleSender]
  /\ kept = {} /\ answered = {} /\ early = {} /\ abandoned = {}

MessageStep(p) ==
  \/ SendSmsTo(p) \/ SendMail(p) \/ InsertLog(p) \/ CallVendor(p)
  \/ FinishSmsLog(p) \/ FinishMailLog(p) \/ FinishFails(p) \/ SendCode(p)
  \/ ReceiveSms(p) \/ applyReceipt(p)
  \/ SendNotify(p) \/ InsertMessage(p) \/ SendAborts(p)

MessagesNext == (\E p \in Proc : MessageStep(p)) \/ MarkRead \/ MarkAllRead

MessagesSpec == MessagesInit /\ [][MessagesNext]_messageVars

-----------------------------------------------------------------------------
(* Properties *)

Addressee == [tenant : Tenant, user : UserId, type : {"admin", "member"}]

\* Types; what was accepted or reported has a row.
MessagesTypeOK ==
  /\ channel \in Channel
  /\ Len(logs) <= MaxLog
  /\ \A i \in DOMAIN logs : logs[i] \in [send : {"init", "success", "failure"}, serial : BOOLEAN,
                                         receive : Verdict \cup {None}]
  /\ accepted \cup kept \cup abandoned \subseteq DOMAIN logs
  /\ early \subseteq answered /\ answered \subseteq Reports
  /\ \A i \in DOMAIN inbox : inbox[i] \in [to : Addressee, read : BOOLEAN]
  /\ \A p \in Proc : sender[p].to \in Addressee \cup {None} /\ sender[p].row \in {0} \cup DOMAIN logs

\* Whatever is lost on the way: a row says success, and a verification code is
\* kept, only if the vendor has the message (the debugging robot excepted, whose
\* unreadable replies count as success); and a row stays "init" only while its
\* request is under way, or if that died or could not write to the database
\* (service.go:316, sms_sender.go:19).
LogsTellTrue ==
  /\ \A i \in DOMAIN logs :
       channel # "DEBUG_DING_TALK" /\ (logs[i].send = "success" \/ i \in kept) => i \in accepted
  /\ \A i \in DOMAIN logs :
       logs[i].send = "init" => \/ i \in abandoned
                                \/ \E p \in Proc : sender[p].row = i /\ sender[p].at \in {"call", "finish"}

\* A report that was answered with success shows in the row of its message and
\* in no other, even if it came before the row was finished or came twice; only a
\* report by serial is lost, if no row had the serial yet (callback.go:65,
\* mysql.go:740).
ReportsKept ==
  \A i \in DOMAIN logs :
    /\ logs[i].receive # None => [row |-> i, verdict |-> logs[i].receive] \in answered
    /\ (\E r \in answered \ early : r.row = i) => logs[i].receive # None
    /\ channel # "TENCENT" => early = {}
=============================================================================
