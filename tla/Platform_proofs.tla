--------------------------- MODULE Platform_proofs ---------------------------
(***************************************************************************)
(* Proofs about what runs beside the requests: the daily cleanup, the      *)
(* discovery of other services, the life of the processes and the messages *)
(* between them, for any number of processes, sessions, tables, requests   *)
(* and configurations.                                                     *)
(***************************************************************************)
EXTENDS Cleanup, Discovery, Lifecycle, FiniteSetTheorems, TLAPS

-----------------------------------------------------------------------------
(* Cleanup.  A session is in one place only: with a cleaner, in a pool or   *)
(* on its way out; so whoever gives the lock away had it.                   *)

Cleaner == [at : {"rest", "lock", "delete", "release"}, sess : Sess \cup {None},
            table : 1 .. Tables, batch : 0 .. maxBatchCount - 1]

\* Types of the variables.
CleanTypes ==
  /\ cleaner \in [Process -> Cleaner]
  /\ pool \in [Process -> SUBSET Sess]
  /\ closing \subseteq Sess /\ lock \in Sess \cup {None} /\ shut \subseteq Process
  /\ expired \in [1 .. Tables -> 0 .. MaxExpired]

\* The session of a cleaner at work is his alone, and no pool has it; unless it
\* has ended, nobody is closing it.
OwnSession ==
  \A p \in Process : cleaner[p].at # "rest" =>
    /\ cleaner[p].sess # None
    /\ \A q \in Process : /\ q # p => cleaner[q].sess # cleaner[p].sess
                          /\ cleaner[p].sess \notin pool[q]
    /\ cleaner[p].sess \notin ended => cleaner[p].sess \notin closing

\* Who rests has no session; idle sessions are in one pool, and alive.
IdleSession ==
  /\ \A p \in Process : cleaner[p].at = "rest" => cleaner[p] = NoCleaner
  /\ \A p, q \in Process : p # q => pool[p] \cap pool[q] = {}
  /\ \A p \in Process : pool[p] \cap closing = {}

\* Only cleaners use ended sessions, and no ended session has the lock.
EndedSession ==
  /\ \A s \in ended : \E p \in Process : cleaner[p].sess = s /\ cleaner[p].at # "rest"
  /\ lock \notin ended

CleanInv == CleanTypes /\ OwnSession /\ IdleSession /\ EndedSession /\ OneCleaner

LEMMA CleanInitially == CleanInit => CleanInv
<1> SUFFICES ASSUME CleanInit PROVE CleanInv
  OBVIOUS
<1> USE CleanupAssumption, ProcessesAssumption
<1>1. CleanTypes
  BY DEF CleanInit, CleanTypes, Cleaner, NoCleaner
<1>2. OwnSession /\ IdleSession /\ EndedSession /\ OneCleaner
  BY DEF CleanInit, OwnSession, IdleSession, EndedSession, OneCleaner, NoCleaner
<1>. QED  BY <1>1, <1>2 DEF CleanInv

\* The session that is used for a cleanup was idle or is new: nobody has it.
LEMMA ConnStep ==
  ASSUME CleanInv, NEW p \in Process, Conn(p)
  PROVE  CleanInv'
<1> USE CleanupAssumption, ProcessesAssumption DEF Conn, CleanerGoes
<1>1. PICK s \in pool[p] \cup (Sess \ Used) :
         /\ cleaner' = [cleaner EXCEPT ![p] = [NoCleaner EXCEPT !.at = "lock", !.sess = s]]
         /\ pool' = [pool EXCEPT ![p] = @ \ {s}]
  OBVIOUS
<1>2. s \in Sess /\ s # None /\ s # lock
  BY <1>1 DEF CleanInv, CleanTypes, OwnSession, IdleSession, OneCleaner, Used
<1>3. s \notin closing /\ \A q \in Process : cleaner[q].sess # s /\ (q # p => s \notin pool[q])
  BY <1>1, <1>2 DEF CleanInv, CleanTypes, OwnSession, IdleSession, Used, NoCleaner, Cleaner
<1>4. CleanTypes'
  BY <1>1, <1>2 DEF CleanInv, CleanTypes, Cleaner, NoCleaner
<1>5. cleaner'[p].at = "lock" /\ cleaner'[p].sess = s
  BY <1>1 DEF CleanInv, CleanTypes, NoCleaner
<1>6. \A q \in Process : q # p => cleaner'[q] = cleaner[q] /\ pool'[q] = pool[q]
  BY <1>1 DEF CleanInv, CleanTypes
<1>7. pool'[p] = pool[p] \ {s}
  BY <1>1 DEF CleanInv, CleanTypes
<1>8. OwnSession'
  BY <1>2, <1>3, <1>5, <1>6, <1>7 DEF CleanInv, OwnSession
<1>9. IdleSession'
  BY <1>5, <1>6, <1>7 DEF CleanInv, IdleSession
<1>10. EndedSession'
  BY <1>5, <1>6 DEF CleanInv, EndedSession, NoCleaner
<1>11. OneCleaner'
  BY <1>5, <1>6 DEF CleanInv, OneCleaner, NoCleaner
<1>. QED  BY <1>4, <1>8, <1>9, <1>10, <1>11 DEF CleanInv

\* What holds of the session of a cleaner at work.
LEMMA SessionAtWork ==
  ASSUME CleanInv, NEW p \in Process, cleaner[p].at # "rest"
  PROVE  /\ cleaner[p].sess \in Sess /\ cleaner[p].sess # None
         /\ \A q \in Process : q # p => cleaner[q].sess # cleaner[p].sess
         /\ \A q \in Process : cleaner[p].sess \notin pool[q]
         /\ cleaner[p].sess \notin ended => cleaner[p].sess \notin closing
         /\ lock = cleaner[p].sess => cleaner[p].at \in {"delete", "release"}
BY DEF CleanInv, CleanTypes, Cleaner, OwnSession, EndedSession, OneCleaner

\* A session that goes back to the pool does not have the lock.
LEMMA CloseStep ==
  ASSUME CleanInv, NEW p \in Process, cleaner[p].at # "rest",
         CleanerGoes(p, NoCleaner), Close(p), UNCHANGED expired,
         \/ lock' = lock /\ lock # cleaner[p].sess
         \/ lock' = None /\ lock = cleaner[p].sess
  PROVE  CleanInv'
<1> USE CleanupAssumption, ProcessesAssumption DEF CleanerGoes
<1> DEFINE s == cleaner[p].sess
<1>1. /\ s \in Sess /\ s # None /\ \A q \in Process : s \notin pool[q]
      /\ \A q \in Process : q # p => cleaner[q].sess # s
      /\ s \notin ended => s \notin closing
  BY SessionAtWork
<1>2. CleanTypes'
  BY <1>1 DEF CleanInv, CleanTypes, Cleaner, NoCleaner, Close
<1>3. cleaner'[p] = NoCleaner /\ \A q \in Process : q # p => cleaner'[q] = cleaner[q]
  BY DEF CleanInv, CleanTypes
<1>4. /\ \/ pool'[p] = pool[p] \cup ({s} \ ended) /\ closing' = closing
         \/ pool'[p] = pool[p] /\ closing' = closing \cup ({s} \ ended)
      /\ \A q \in Process : q # p => pool'[q] = pool[q]
      /\ ended' = ended \ {s}
  BY DEF CleanInv, CleanTypes, Close
<1> HIDE DEF s
<1>5. OwnSession'
  BY <1>1, <1>3, <1>4 DEF CleanInv, OwnSession, NoCleaner
<1>6. IdleSession'
  <2>1. \A q \in Process : cleaner'[q].at = "rest" => cleaner'[q] = NoCleaner
    BY <1>3 DEF CleanInv, IdleSession
  <2>2. \A q, r \in Process : q # r => pool'[q] \cap pool'[r] = {}
    BY <1>1, <1>4 DEF CleanInv, IdleSession
  <2>3. \A q \in Process : pool'[q] \cap closing' = {}
    BY <1>1, <1>4 DEF CleanInv, IdleSession
  <2>. QED  BY <2>1, <2>2, <2>3 DEF IdleSession
<1>7. EndedSession'
  <2>1. \A e \in ended' : \E q \in Process : cleaner'[q].sess = e /\ cleaner'[q].at # "rest"
    BY <1>1, <1>3, <1>4 DEF CleanInv, EndedSession, s
  <2>2. lock' \notin ended'
    BY <1>1, <1>4 DEF CleanInv, EndedSession, OwnSession, s
  <2>. QED  BY <2>1, <2>2 DEF EndedSession
<1>8. OneCleaner'
  BY <1>1, <1>3, <1>4 DEF CleanInv, OneCleaner, OwnSession, NoCleaner, s
<1>. QED  BY <1>2, <1>5, <1>6, <1>7, <1>8 DEF CleanInv

\* A session that is closed may have the lock, until the server notices.
LEMMA DiscardStep ==
  ASSUME CleanInv, NEW p \in Process, cleaner[p].at # "rest",
         CleanerGoes(p, NoCleaner), discardConnection(p), UNCHANGED expired,
         \/ lock' = lock
         \/ lock' = None /\ lock = cleaner[p].sess
         \/ lock' = cleaner[p].sess /\ lock = None /\ cleaner[p].sess \notin ended
  PROVE  CleanInv'
<1> USE CleanupAssumption, ProcessesAssumption DEF CleanerGoes
<1> DEFINE s == cleaner[p].sess
<1>1. /\ s \in Sess /\ s # None /\ \A q \in Process : s \notin pool[q]
      /\ \A q \in Process : q # p => cleaner[q].sess # s
      /\ s \notin ended => s \notin closing
  BY SessionAtWork
<1>2. CleanTypes'
  BY <1>1 DEF CleanInv, CleanTypes, Cleaner, NoCleaner, discardConnection
<1>3. cleaner'[p] = NoCleaner /\ \A q \in Process : q # p => cleaner'[q] = cleaner[q]
  BY DEF CleanInv, CleanTypes
<1>4. ended' = ended \ {s} /\ closing' = closing \cup ({s} \ ended) /\ pool' = pool
  BY DEF discardConnection
<1> HIDE DEF s
<1>5. OwnSession'
  BY <1>1, <1>3, <1>4 DEF CleanInv, OwnSession, NoCleaner
<1>6. IdleSession'
  BY <1>1, <1>3, <1>4 DEF CleanInv, IdleSession
<1>7. EndedSession'
  <2>1. \A e \in ended' : \E q \in Process : cleaner'[q].sess = e /\ cleaner'[q].at # "rest"
    BY <1>1, <1>3, <1>4 DEF CleanInv, EndedSession, s
  <2>2. lock' \notin ended'
    BY <1>1, <1>4 DEF CleanInv, EndedSession, OwnSession, s
  <2>. QED  BY <2>1, <2>2 DEF EndedSession
<1>8. OneCleaner'
  BY <1>1, <1>3, <1>4 DEF CleanInv, OneCleaner, OwnSession, EndedSession, NoCleaner, s
<1>. QED  BY <1>2, <1>5, <1>6, <1>7, <1>8 DEF CleanInv

\* The lock is granted while nobody has it.
LEMMA LockedStep ==
  ASSUME CleanInv, NEW p \in Process, Locked(p)
  PROVE  CleanInv'
<1> USE CleanupAssumption, ProcessesAssumption DEF CleanerGoes, Locked
<1> DEFINE s == cleaner[p].sess
<1>1. /\ s \in Sess /\ s # None /\ \A q \in Process : q # p => cleaner[q].sess # s
      /\ s \notin ended /\ lock' = s /\ lock = None
  BY SessionAtWork
<1>2. CleanTypes'
  BY <1>1 DEF CleanInv, CleanTypes, Cleaner
<1>3. /\ cleaner'[p].sess = s /\ cleaner'[p].at = "delete"
      /\ \A q \in Process : q # p => cleaner'[q] = cleaner[q]
  BY DEF CleanInv, CleanTypes, Cleaner
<1>4. OwnSession' /\ IdleSession'
  BY <1>1, <1>3 DEF CleanInv, OwnSession, IdleSession
<1>5. EndedSession' /\ OneCleaner'
  BY <1>1, <1>3 DEF CleanInv, EndedSession, OneCleaner, OwnSession
<1>. QED  BY <1>2, <1>4, <1>5 DEF CleanInv

\* Where a cleaner is after a batch.
LEMMA AccumulateType ==
  ASSUME NEW c \in Cleaner, c.at = "delete", NEW n
  PROVE  /\ accumulate(c, n) \in Cleaner /\ accumulate(c, n).sess = c.sess
         /\ accumulate(c, n).at \in {"delete", "release"}
<1> USE CleanupAssumption DEF Cleaner
<1>1. /\ c.batch \in Nat /\ c.table \in 1 .. Tables /\ c.at = "delete" /\ c.sess \in Sess \cup {None}
      /\ c.batch \in 0 .. maxBatchCount - 1
  OBVIOUS
<1>2. CASE n = deleteLimit /\ c.batch + 1 < maxBatchCount
  <2>1. accumulate(c, n) = [c EXCEPT !.batch = c.batch + 1]
    BY <1>2 DEF accumulate
  <2>2. c.batch + 1 \in 0 .. maxBatchCount - 1
    BY <1>1, <1>2
  <2>. QED  BY <1>1, <2>1, <2>2
<1>3. CASE ~(n = deleteLimit /\ c.batch + 1 < maxBatchCount) /\ c.table < Tables
  <2>1. accumulate(c, n) = [c EXCEPT !.table = c.table + 1, !.batch = 0]
    BY <1>3 DEF accumulate
  <2>2. c.table + 1 \in 1 .. Tables /\ 0 \in 0 .. maxBatchCount - 1
    BY <1>1, <1>3
  <2>. QED  BY <1>1, <2>1, <2>2
<1>4. CASE ~(n = deleteLimit /\ c.batch + 1 < maxBatchCount) /\ ~(c.table < Tables)
  <2>1. accumulate(c, n) = [c EXCEPT !.at = "release"]
    BY <1>4 DEF accumulate
  <2>. QED  BY <1>1, <2>1
<1>. QED  BY <1>2, <1>3, <1>4

\* The batches: the lock stays where it is.
LEMMA DeleteStep ==
  ASSUME CleanInv, NEW p \in Process, DeleteBatch(p) \/ DeleteFails(p)
  PROVE  CleanInv'
<1> USE CleanupAssumption, ProcessesAssumption DEF CleanerGoes
<1>1. PICK c \in Cleaner : /\ cleaner' = [cleaner EXCEPT ![p] = c] /\ c.sess = cleaner[p].sess
                           /\ c.at \in {"delete", "release"}
  <2>1. cleaner[p] \in Cleaner /\ cleaner[p].at = "delete"
    BY DEF CleanInv, CleanTypes, DeleteBatch, DeleteFails
  <2>2. CASE DeleteBatch(p)
    <3> DEFINE t == cleaner[p].table
               n == IF expired[t] < deleteLimit THEN expired[t] ELSE deleteLimit
               c == accumulate(cleaner[p], n)
    <3>1. cleaner' = [cleaner EXCEPT ![p] = c]
      BY <2>2 DEF DeleteBatch
    <3>2. c \in Cleaner /\ c.sess = cleaner[p].sess /\ c.at \in {"delete", "release"}
      BY <2>1, AccumulateType
    <3> HIDE DEF c
    <3>. QED  BY <3>1, <3>2
  <2>3. CASE DeleteFails(p)
    <3> DEFINE c == [cleaner[p] EXCEPT !.at = "release"]
    <3>1. cleaner' = [cleaner EXCEPT ![p] = c]
      BY <2>3 DEF DeleteFails
    <3>2. c \in Cleaner /\ c.sess = cleaner[p].sess /\ c.at \in {"delete", "release"}
      BY <2>1 DEF Cleaner
    <3> HIDE DEF c
    <3>. QED  BY <3>1, <3>2
  <2>. QED  BY <2>2, <2>3
<1>2. UNCHANGED <<pool, shut, ended, closing, lock>> /\ cleaner[p].at = "delete"
  BY DEF DeleteBatch, DeleteFails
<1>3. expired' \in [1 .. Tables -> 0 .. MaxExpired]
  <2>1. cleaner[p].table \in 1 .. Tables /\ expired \in [1 .. Tables -> 0 .. MaxExpired]
    BY DEF CleanInv, CleanTypes, Cleaner
  <2>2. CASE DeleteFails(p)
    BY <2>1, <2>2 DEF DeleteFails
  <2>3. CASE DeleteBatch(p)
    <3> DEFINE t == cleaner[p].table
               n == IF expired[t] < deleteLimit THEN expired[t] ELSE deleteLimit
    <3>1. expired' = [expired EXCEPT ![t] = expired[t] - n]
      BY <2>3 DEF DeleteBatch
    <3>2. expired[t] - n \in 0 .. MaxExpired
      BY <2>1
    <3>. HIDE DEF t, n
    <3>. QED  BY <2>1, <3>1, <3>2
  <2>. QED  BY <2>2, <2>3
<1>4. CleanTypes'
  BY <1>1, <1>2, <1>3 DEF CleanInv, CleanTypes
<1>5. cleaner'[p] = c /\ \A q \in Process : q # p => cleaner'[q] = cleaner[q]
  BY <1>1 DEF CleanInv, CleanTypes
<1>6. OwnSession' /\ IdleSession'
  BY <1>1, <1>2, <1>5 DEF CleanInv, OwnSession, IdleSession
<1>7. EndedSession' /\ OneCleaner'
  BY <1>1, <1>2, <1>5 DEF CleanInv, EndedSession, OneCleaner
<1>. QED  BY <1>4, <1>6, <1>7 DEF CleanInv

\* The server ends a session: the lock of the session is free.
LEMMA NoticeStep ==
  ASSUME CleanInv, NEW s \in Sess, Notice(s) \/ Break(s)
  PROVE  CleanInv'
<1> USE CleanupAssumption, ProcessesAssumption
<1>1. UNCHANGED <<cleaner, pool, shut, expired>> /\ lock' = IF lock = s THEN None ELSE lock
  BY DEF Notice, Break
<1>2. CASE Notice(s)
  <2>1. s \in closing /\ closing' = closing \ {s} /\ ended' = ended
    BY <1>2 DEF Notice
  <2>2. \A p \in Process : cleaner[p].at = "delete" /\ cleaner[p].sess \notin ended => cleaner[p].sess # s
    BY <2>1 DEF CleanInv, OwnSession
  <2>3. CleanTypes' /\ OwnSession' /\ IdleSession' /\ EndedSession'
    BY <1>1, <2>1 DEF CleanInv, CleanTypes, OwnSession, IdleSession, EndedSession
  <2>4. OneCleaner'
    BY <1>1, <2>1, <2>2 DEF CleanInv, OneCleaner
  <2>. QED  BY <2>3, <2>4 DEF CleanInv
<1>3. CASE Break(s)
  <2>1. PICK p \in Process : cleaner[p].sess = s
    BY <1>3 DEF Break
  <2>2. ended' = ended \cup {s} /\ closing' = closing /\ s # None
    BY <1>3 DEF Break
  <2>3. cleaner[p].at # "rest"
    BY <2>1, <2>2 DEF CleanInv, IdleSession, NoCleaner
  <2>4. CleanTypes' /\ OwnSession' /\ IdleSession' /\ EndedSession'
    BY <1>1, <2>1, <2>2, <2>3 DEF CleanInv, CleanTypes, OwnSession, IdleSession, EndedSession
  <2>5. OneCleaner'
    BY <1>1, <2>2 DEF CleanInv, OneCleaner
  <2>. QED  BY <2>4, <2>5 DEF CleanInv
<1>. QED  BY <1>2, <1>3

\* The idle sessions of a pool that is closed do not have the lock.
LEMMA ShutStep ==
  ASSUME CleanInv, NEW p \in Process, CloseDB(p)
  PROVE  CleanInv'
<1>1. /\ pool'[p] = {} /\ \A q \in Process : q # p => pool'[q] = pool[q]
      /\ closing' = closing \cup pool[p] /\ shut' = shut \cup {p}
      /\ cleaner' = cleaner /\ ended' = ended /\ lock' = lock /\ expired' = expired
  BY DEF CleanInv, CleanTypes, CloseDB
<1>2. CleanTypes'
  BY <1>1 DEF CleanInv, CleanTypes, CloseDB
<1>3. OwnSession'
  BY <1>1, SessionAtWork DEF CleanInv, OwnSession
<1>4. IdleSession'
  BY <1>1 DEF CleanInv, IdleSession
<1>5. EndedSession' /\ OneCleaner'
  BY <1>1 DEF CleanInv, EndedSession, OneCleaner
<1>. QED  BY <1>2, <1>3, <1>4, <1>5 DEF CleanInv

\* A process that dies leaves its sessions to the server.
LEMMA DieStep ==
  ASSUME CleanInv, NEW p \in Process, Die(p)
  PROVE  CleanInv'
<1> USE CleanupAssumption, ProcessesAssumption DEF CleanerGoes
<1> DEFINE s == cleaner[p].sess
<1>1. /\ cleaner'[p] = NoCleaner /\ \A q \in Process : q # p => cleaner'[q] = cleaner[q]
      /\ pool'[p] = {} /\ \A q \in Process : q # p => pool'[q] = pool[q]
      /\ closing' = closing \cup pool[p] \cup ({s} \ (ended \cup {None})) /\ ended' = ended \ {s}
      /\ lock' = lock /\ expired' = expired
  BY DEF CleanInv, CleanTypes, Die
<1>2. s # None => cleaner[p].at # "rest"
  BY DEF CleanInv, IdleSession, NoCleaner
<1>3. s # None => \A q \in Process : s \notin pool[q] /\ (q # p => cleaner[q].sess # s)
  BY <1>2, SessionAtWork
<1>4. CleanTypes'
  BY DEF CleanInv, CleanTypes, Cleaner, NoCleaner, Die
<1>5. \A q \in Process : q # p /\ cleaner[q].at # "rest" => cleaner[q].sess # s
  BY <1>3, SessionAtWork
<1> HIDE DEF s
<1>6. OwnSession'
  BY <1>1, <1>3, <1>5 DEF CleanInv, OwnSession, NoCleaner
<1>7. IdleSession'
  BY <1>1, <1>3 DEF CleanInv, IdleSession
<1>8. EndedSession'
  BY <1>1 DEF CleanInv, EndedSession, s
<1>9. OneCleaner'
  BY <1>1, <1>5 DEF CleanInv, OneCleaner, EndedSession, NoCleaner, s
<1>. QED  BY <1>4, <1>6, <1>7, <1>8, <1>9 DEF CleanInv

LEMMA CleanStep == CleanInv /\ [CleanNext]_cleanVars => CleanInv'
<1> SUFFICES ASSUME CleanInv, [CleanNext]_cleanVars PROVE CleanInv'
  OBVIOUS
<1>1. ASSUME NEW p \in Process, GivesUp(p) PROVE CleanInv'
  BY <1>1, CloseStep, SessionAtWork DEF GivesUp
<1>2. ASSUME NEW p \in Process, Skips(p) PROVE CleanInv'
  BY <1>2, CloseStep DEF Skips
<1>3. ASSUME NEW p \in Process, Unlocked(p) PROVE CleanInv'
  BY <1>3, CloseStep DEF Unlocked
<1>4. ASSUME NEW p \in Process, LockFails(p) PROVE CleanInv'
  BY <1>4, DiscardStep DEF LockFails
<1>5. ASSUME NEW p \in Process, UnlockFails(p) PROVE CleanInv'
  BY <1>5, DiscardStep DEF UnlockFails
<1>6. ASSUME NEW t \in 1 .. Tables, Expires(t) PROVE CleanInv'
  BY <1>6, CleanupAssumption
  DEF Expires, CleanInv, CleanTypes, OwnSession, IdleSession, EndedSession, OneCleaner
<1>7. ASSUME NEW p \in Process, CloseDB(p) PROVE CleanInv'
  BY <1>7, ShutStep
<1>8. CASE UNCHANGED cleanVars
  BY <1>8 DEF cleanVars, CleanInv, CleanTypes, OwnSession, IdleSession, EndedSession, OneCleaner
<1>. QED  BY <1>1, <1>2, <1>3, <1>4, <1>5, <1>6, <1>7, <1>8, ConnStep, LockedStep, DeleteStep, NoticeStep, DieStep
          DEF CleanNext, CleanerStep

\* However many processes clean and whatever breaks: on living sessions only the
\* holder of the lock deletes, and no session has it that nobody would release
\* (clean.go:54,74,89,114).
THEOREM OneCleanerAtATime == CleanSpec => []OneCleaner
<1>1. CleanInv => OneCleaner
  BY DEF CleanInv
<1>. QED  BY CleanInitially, CleanStep, <1>1, PTL DEF CleanSpec

-----------------------------------------------------------------------------
(* Discovery.  A request keeps the table locked until it has the mutex of   *)
(* its client; so does the closer, from the first client to the last.       *)

Query == [at : {"rest", "table", "find", "client", "ask"}, key : Key \cup {None}, client : Nat]

\* Types of the variables; clients are numbered in the order they are made.
DiscoTypes ==
  /\ query \in [Proc -> Query]
  /\ closer \in [at : {"rest", "table", "close"}, seen : SUBSET Key]
  /\ mu \in Proc \cup {None, "closer"}
  /\ owner \in Seq(Proc \cup {None}) /\ open \subseteq 1 .. Len(owner)
  /\ clients \in [Key -> 0 .. Len(owner)]

\* Who uses the table has its mutex, and the client he found there is open.
TableLocked ==
  /\ closer.at = "close" => mu = "closer"
  /\ \A p \in Proc :
       /\ query[p].at \in {"find", "client"} => mu = p
       /\ query[p].at \in {"table", "find", "client", "ask"} => query[p].key \in Key
       /\ query[p].at = "client" => /\ clients[query[p].key] = query[p].client
                                    /\ query[p].client # 0

\* The clients of the table are open and different, and there are no others.
TableComplete ==
  /\ \A k \in Key : clients[k] # 0 => clients[k] \in open
  /\ \A j, k \in Key : clients[j] = clients[k] /\ clients[j] # 0 => j = k
  /\ \A c \in open : \E k \in Key : clients[k] = c

\* Who asks has an open client, and its mutex.
ClientLocked ==
  \A p \in Proc : query[p].at = "ask" =>
    query[p].client \in open /\ owner[query[p].client] = p

DiscoInv == DiscoTypes /\ TableLocked /\ TableComplete /\ ClientLocked

LEMMA DiscoInitially == DiscoInit => DiscoInv
<1> SUFFICES ASSUME DiscoInit PROVE DiscoInv
  OBVIOUS
<1>1. open = {} /\ owner = <<>> /\ Len(owner) = 0 /\ owner \in Seq(Proc \cup {None})
  BY DEF DiscoInit
<1>2. DiscoTypes
  BY <1>1 DEF DiscoInit, DiscoTypes, Query, NoQuery, NoCloser
<1>3. TableLocked /\ TableComplete /\ ClientLocked
  BY <1>1 DEF DiscoInit, TableLocked, TableComplete, ClientLocked, NoQuery, NoCloser
<1>. QED  BY <1>2, <1>3 DEF DiscoInv

\* The steps of a request that leave the clients alone.
LEMMA WalkStep ==
  ASSUME DiscoInv, NEW p \in Proc,
         selectHealthy(p) \/ LockTable(p) \/ Find(p) \/ createFails(p)
  PROVE  DiscoInv'
<1> USE RequestsAssumption, DiscoveryAssumption DEF QueryGoes
<1>1. UNCHANGED <<closer, clients, open, owner>>
  BY DEF selectHealthy, LockTable, Find, createFails
<1>2. PICK r \in Query : /\ query' = [query EXCEPT ![p] = r] /\ r.at # "ask"
                         /\ r.at # "rest" => r.key \in Key
                         /\ r.at \in {"find", "client"} => mu' = p
                         /\ r.at = "client" => clients[r.key] = r.client /\ r.client # 0
                         /\ mu' # mu => (mu = None /\ mu' = p) \/ (mu = p /\ mu' = None)
  <2>1. query[p] \in Query /\ clients \in [Key -> Nat]
    BY DEF DiscoInv, DiscoTypes
  <2>2. CASE selectHealthy(p)
    <3>1. PICK k \in Key : query' = [query EXCEPT ![p] = [NoQuery EXCEPT !.at = "table", !.key = k]]
      BY <2>2 DEF selectHealthy
    <3> DEFINE r == [NoQuery EXCEPT !.at = "table", !.key = k]
    <3>2. r \in Query /\ r.at = "table" /\ r.key \in Key
      BY DEF Query, NoQuery
    <3>3. query' = [query EXCEPT ![p] = r] /\ mu' = mu
      BY <2>2, <3>1 DEF selectHealthy
    <3> HIDE DEF r
    <3>. QED  BY <3>2, <3>3
  <2>3. CASE LockTable(p)
    <3> DEFINE r == [query[p] EXCEPT !.at = "find"]
    <3>1. r \in Query /\ r.at = "find" /\ r.key \in Key
      BY <2>1, <2>3 DEF Query, LockTable, DiscoInv, TableLocked
    <3>2. query' = [query EXCEPT ![p] = r] /\ mu' = p /\ mu = None
      BY <2>3 DEF LockTable
    <3> HIDE DEF r
    <3>. QED  BY <3>1, <3>2
  <2>4. CASE Find(p)
    <3> DEFINE r == [query[p] EXCEPT !.at = "client", !.client = clients[query[p].key]]
    <3>1. query[p].key \in Key /\ mu = p
      BY <2>4 DEF Find, DiscoInv, TableLocked
    <3>2. r \in Query /\ r.at = "client" /\ r.key \in Key /\ clients[r.key] = r.client /\ r.client # 0
      BY <2>1, <2>4, <3>1 DEF Query, Find
    <3>3. query' = [query EXCEPT ![p] = r] /\ mu' = mu
      BY <2>4 DEF Find
    <3> HIDE DEF r
    <3>. QED  BY <3>1, <3>2, <3>3
  <2>5. CASE createFails(p)
    <3>1. NoQuery \in Query /\ NoQuery.at = "rest"
      BY DEF Query, NoQuery
    <3>2. query' = [query EXCEPT ![p] = NoQuery] /\ mu' = None /\ mu = p
      BY <2>5 DEF createFails, DiscoInv, TableLocked
    <3>. QED  BY <3>1, <3>2
  <2>. QED  BY <2>2, <2>3, <2>4, <2>5
<1>3. query'[p] = r /\ \A q \in Proc : q # p => query'[q] = query[q]
  BY <1>2 DEF DiscoInv, DiscoTypes
<1>4. DiscoTypes'
  BY <1>1, <1>2 DEF DiscoInv, DiscoTypes
<1>5. TableLocked'
  BY <1>1, <1>2, <1>3 DEF DiscoInv, DiscoTypes, TableLocked, Query
<1>6. TableComplete' /\ ClientLocked'
  BY <1>1, <1>2, <1>3 DEF DiscoInv, TableComplete, ClientLocked
<1>. QED  BY <1>4, <1>5, <1>6 DEF DiscoInv

\* A new client has a number of its own.
LEMMA CreateStep ==
  ASSUME DiscoInv, NEW p \in Proc, create(p)
  PROVE  DiscoInv'
<1> USE RequestsAssumption, DiscoveryAssumption DEF QueryGoes, create
<1> DEFINE n == Len(owner) + 1
           k == query[p].key
           r == [query[p] EXCEPT !.at = "client", !.client = n]
<1>1. /\ n \in Nat \ {0} /\ k \in Key /\ mu = p /\ clients[k] = 0 /\ Len(owner) \in Nat
  BY DEF DiscoInv, DiscoTypes, TableLocked
<1>2. /\ open' = open \cup {n} /\ owner' = Append(owner, None) /\ closer' = closer /\ mu' = mu
      /\ clients' = [clients EXCEPT ![k] = n] /\ query' = [query EXCEPT ![p] = r]
  OBVIOUS
<1>3. /\ owner' \in Seq(Proc \cup {None}) /\ Len(owner') = n
      /\ \A c \in 1 .. Len(owner) : owner'[c] = owner[c]
  BY <1>2 DEF DiscoInv, DiscoTypes
<1>4. r \in Query /\ r.at = "client" /\ r.key = k /\ r.client = n
  BY <1>1 DEF DiscoInv, DiscoTypes, Query
<1>5. query'[p] = r /\ \A q \in Proc : q # p => query'[q] = query[q]
  BY <1>2 DEF DiscoInv, DiscoTypes
<1>6. clients'[k] = n /\ \A j \in Key : j # k => clients'[j] = clients[j]
  BY <1>1, <1>2 DEF DiscoInv, DiscoTypes
<1>7. /\ \A j \in Key : clients[j] \in 0 .. Len(owner) /\ clients[j] # n
      /\ open \subseteq 1 .. Len(owner) /\ n \notin open
  BY <1>1 DEF DiscoInv, DiscoTypes
<1>8. 1 .. Len(owner) \subseteq 1 .. n /\ n \in 1 .. n
  BY <1>1
<1> HIDE DEF n, k, r
<1>9. DiscoTypes'
  <2>1. query' \in [Proc -> Query]
    BY <1>2, <1>4 DEF DiscoInv, DiscoTypes
  <2>2. clients' \in [Key -> 0 .. n]
    BY <1>1, <1>2 DEF DiscoInv, DiscoTypes, n
  <2>3. open' \subseteq 1 .. n
    BY <1>2, <1>7, <1>8
  <2>. QED  BY <1>2, <1>3, <2>1, <2>2, <2>3 DEF DiscoInv, DiscoTypes
<1>10. TableLocked'
  <2>1. \A q \in Proc : q # p => query[q].at \notin {"find", "client"}
    BY <1>1 DEF DiscoInv, TableLocked
  <2>. QED  BY <1>1, <1>2, <1>4, <1>5, <1>6, <2>1 DEF DiscoInv, TableLocked
<1>11. TableComplete'
  BY <1>1, <1>2, <1>6, <1>7 DEF DiscoInv, TableComplete
<1>12. ClientLocked'
  BY <1>2, <1>3, <1>4, <1>5, <1>7 DEF DiscoInv, ClientLocked
<1>. QED  BY <1>9, <1>10, <1>11, <1>12 DEF DiscoInv

\* The client is locked while the table still is: the closer cannot come between.
LEMMA LockClientStep ==
  ASSUME DiscoInv, NEW p \in Proc, LockClient(p)
  PROVE  DiscoInv'
<1> USE RequestsAssumption, DiscoveryAssumption DEF QueryGoes, LockClient
<1> DEFINE c == query[p].client
           r == [query[p] EXCEPT !.at = "ask"]
<1>1. /\ mu = p /\ c # 0 /\ query[p].key \in Key /\ clients[query[p].key] = c /\ owner[c] = None
  BY DEF DiscoInv, TableLocked
<1>2. c \in open /\ c \in 1 .. Len(owner)
  BY <1>1 DEF DiscoInv, DiscoTypes, TableComplete
<1>3. /\ owner' = [owner EXCEPT ![c] = p] /\ mu' = None /\ query' = [query EXCEPT ![p] = r]
      /\ closer' = closer /\ clients' = clients /\ open' = open
  OBVIOUS
<1>4. /\ owner' \in Seq(Proc \cup {None}) /\ Len(owner') = Len(owner) /\ owner'[c] = p
      /\ \A d \in 1 .. Len(owner) : d # c => owner'[d] = owner[d]
  BY <1>2, <1>3 DEF DiscoInv, DiscoTypes
<1>5. r \in Query /\ r.at = "ask" /\ r.client = c /\ r.key \in Key
  BY <1>1 DEF DiscoInv, DiscoTypes, Query
<1>6. query'[p] = r /\ \A q \in Proc : q # p => query'[q] = query[q]
  BY <1>3 DEF DiscoInv, DiscoTypes
<1>7. open \subseteq 1 .. Len(owner)
  BY DEF DiscoInv, DiscoTypes
<1> HIDE DEF c, r
<1>8. DiscoTypes'
  <2>1. query' \in [Proc -> Query]
    BY <1>3, <1>5 DEF DiscoInv, DiscoTypes
  <2>2. mu' \in Proc \cup {None, "closer"}
    BY <1>3
  <2>. QED  BY <1>3, <1>4, <2>1, <2>2 DEF DiscoInv, DiscoTypes
<1>9. TableLocked'
  BY <1>1, <1>3, <1>5, <1>6 DEF DiscoInv, TableLocked
<1>10. TableComplete'
  BY <1>3 DEF DiscoInv, TableComplete
<1>11. ClientLocked'
  BY <1>1, <1>2, <1>3, <1>4, <1>5, <1>6, <1>7 DEF DiscoInv, ClientLocked
<1>. QED  BY <1>8, <1>9, <1>10, <1>11 DEF DiscoInv

LEMMA AnswerStep ==
  ASSUME DiscoInv, NEW p \in Proc, SelectInstances(p)
  PROVE  DiscoInv'
<1> USE RequestsAssumption, DiscoveryAssumption DEF QueryGoes, SelectInstances
<1> DEFINE c == query[p].client
<1>1. c \in 1 .. Len(owner) /\ owner[c] = p /\ open \subseteq 1 .. Len(owner)
  BY DEF DiscoInv, DiscoTypes, ClientLocked
<1>2. /\ owner' \in Seq(Proc \cup {None}) /\ Len(owner') = Len(owner)
      /\ \A d \in 1 .. Len(owner) : d # c => owner'[d] = owner[d]
  BY <1>1 DEF DiscoInv, DiscoTypes
<1>3. /\ query'[p] = NoQuery /\ \A q \in Proc : q # p => query'[q] = query[q]
      /\ closer' = closer /\ clients' = clients /\ open' = open /\ mu' = mu
  BY DEF DiscoInv, DiscoTypes
<1> HIDE DEF c
<1>4. DiscoTypes'
  BY <1>2, <1>3 DEF DiscoInv, DiscoTypes, Query, NoQuery
<1>5. TableLocked' /\ TableComplete'
  BY <1>3 DEF DiscoInv, TableLocked, TableComplete, NoQuery
<1>6. ClientLocked'
  BY <1>1, <1>2, <1>3 DEF DiscoInv, ClientLocked, NoQuery
<1>. QED  BY <1>4, <1>5, <1>6 DEF DiscoInv

\* No client is closed that somebody asks: its mutex is taken.
LEMMA CloseClientStep ==
  ASSUME DiscoInv, CloseClient
  PROVE  DiscoInv'
<1> USE RequestsAssumption, DiscoveryAssumption DEF CloseClient
<1>1. PICK k \in Key \ closer.seen :
        /\ clients[k] # 0 => owner[clients[k]] = None
        /\ closer' = [closer EXCEPT !.seen = @ \cup {k}]
        /\ clients' = [clients EXCEPT ![k] = 0]
        /\ open' = open \ {clients[k]}
  OBVIOUS
<1>2. mu = "closer" /\ closer'.at = "close" /\ UNCHANGED <<query, mu, owner>>
  BY <1>1 DEF DiscoInv, DiscoTypes, TableLocked
<1>3. clients[k] \in 0 .. Len(owner) /\ clients'[k] = 0 /\ \A j \in Key : j # k => clients'[j] = clients[j]
  BY <1>1 DEF DiscoInv, DiscoTypes
<1>4. open \subseteq 1 .. Len(owner) /\ Len(owner) \in Nat
  BY DEF DiscoInv, DiscoTypes
<1>5. DiscoTypes'
  <2>1. closer' \in [at : {"rest", "table", "close"}, seen : SUBSET Key]
    <3>1. closer.seen \cup {k} \in SUBSET Key
      BY DEF DiscoInv, DiscoTypes
    <3>. QED  BY <1>1, <3>1 DEF DiscoInv, DiscoTypes
  <2>2. clients' \in [Key -> 0 .. Len(owner)]
    BY <1>1, <1>4 DEF DiscoInv, DiscoTypes
  <2>3. open' \subseteq 1 .. Len(owner)
    BY <1>1, <1>4
  <2>. QED  BY <1>2, <2>1, <2>2, <2>3 DEF DiscoInv, DiscoTypes
<1>6. TableLocked'
  BY <1>2 DEF DiscoInv, TableLocked
<1>7. TableComplete'
  BY <1>1, <1>3 DEF DiscoInv, TableComplete
<1>8. ClientLocked'
  <2> SUFFICES ASSUME NEW p \in Proc, query'[p].at = "ask"
               PROVE  query'[p].client \in open' /\ owner'[query'[p].client] = p
    BY DEF ClientLocked
  <2>1. query[p].client \in open /\ owner[query[p].client] = p
    BY <1>2 DEF DiscoInv, ClientLocked
  <2>2. query[p].client # clients[k]
    BY <1>1, <1>4, <2>1
  <2>. QED  BY <1>1, <1>2, <2>1, <2>2
<1>. QED  BY <1>5, <1>6, <1>7, <1>8 DEF DiscoInv

LEMMA DiscoStep == DiscoInv /\ [DiscoNext]_discoVars => DiscoInv'
<1> SUFFICES ASSUME DiscoInv, [DiscoNext]_discoVars PROVE DiscoInv'
  OBVIOUS
<1> USE RequestsAssumption, DiscoveryAssumption
<1>1. CASE CloseDiscovery \/ CloserLocks \/ Closed
  <2>1. UNCHANGED <<query, clients, open, owner>>
    BY <1>1 DEF CloseDiscovery, CloserLocks, Closed
  <2>2. DiscoTypes'
    BY <1>1, <2>1 DEF CloseDiscovery, CloserLocks, Closed, DiscoInv, DiscoTypes
  <2>3. TableLocked'
    BY <1>1, <2>1 DEF CloseDiscovery, CloserLocks, Closed, DiscoInv, DiscoTypes, TableLocked
  <2>4. TableComplete' /\ ClientLocked'
    BY <2>1 DEF DiscoInv, TableComplete, ClientLocked
  <2>. QED  BY <2>2, <2>3, <2>4 DEF DiscoInv
<1>2. CASE UNCHANGED discoVars
  BY <1>2 DEF discoVars, DiscoInv, DiscoTypes, TableLocked, TableComplete, ClientLocked
<1>. QED  BY <1>1, <1>2, WalkStep, CreateStep, LockClientStep, AnswerStep, CloseClientStep
          DEF DiscoNext, Looks

\* Whatever the number of requests and configurations: who asks a client has its
\* mutex and the client is open, and no client is open that the table does not
\* hold (registry.go:184,215,235).
THEOREM NobodyAsksAClosedClient == DiscoSpec => []ClientsShared
<1>1. DiscoInv => ClientsShared
  BY DEF DiscoInv, DiscoTypes, ClientLocked, TableComplete, ClientsShared
<1>. QED  BY DiscoInitially, DiscoStep, <1>1, PTL DEF DiscoSpec

-----------------------------------------------------------------------------
(* The life of the processes.                                              *)

\* What a process holds open at each stage, while it starts one resource after
\* the other; that its listing is kept alive only from the registration to the
\* shutdown, which a signal alone begins; that it has given up a request that
\* outlasts the drain; and that it listens while it is subscribed and not cancelled.
FitsAt(p) ==
  /\ stage[p] = "off" => held[p] = {}
  /\ stage[p] = "starting" => \/ held[p] = {} \/ held[p] = {"db"} \/ held[p] = {"db", "redis"}
                              \/ held[p] = {"db", "redis", "port"} \/ held[p] = {"db", "redis", "port", "sub"}
  /\ stage[p] \in {"registering", "running", "abort", "deregister"} =>
       held[p] = All \/ (held[p] = All \ {"port"} /\ p \in deaf)
  /\ stage[p] = "drain" => held[p] = All \ {"port"}
  /\ stage[p] = "silence" => held[p] = {"db", "redis", "sub"}
  /\ stage[p] = "wait" => held[p] = {"db", "redis"}
  /\ stage[p] = "close" => held[p] = {} \/ held[p] = {"db", "redis"}
  /\ p \in beating => stage[p] \in {"registering", "running", "deregister"}
  /\ stage[p] = "deregister" => p \in cancelled
  /\ p \in busy => stage[p] \notin {"off", "starting"}
  /\ p \in busy /\ stage[p] \in {"silence", "wait", "close"} => p \in late
  /\ ear[p] # "off" => "sub" \in held[p] \/ stage[p] = "wait"
  /\ "sub" \in held[p] /\ p \notin cancelled => ear[p] # "off"

LifeTypes ==
  /\ stage \in [Process -> {"off", "starting", "registering", "running", "abort", "deregister",
                            "drain", "silence", "wait", "close"}]
  /\ held \in [Process -> SUBSET All]
  /\ ear \in [Process -> {"off", "waiting", "writing"}]

LifeOK == LifeTypes /\ \A p \in Process : FitsAt(p)

LEMMA LifeInitially == LifeInit => LifeOK
<1> SUFFICES ASSUME LifeInit PROVE LifeOK
  OBVIOUS
<1>1. LifeTypes
  BY DEF LifeInit, LifeTypes, All
<1>2. ASSUME NEW p \in Process PROVE FitsAt(p)
  BY DEF LifeInit, FitsAt, All
<1>. QED  BY <1>1, <1>2 DEF LifeOK

\* A step of p that leaves the other processes as they are.
LEMMA LifeMoves ==
  ASSUME LifeOK, NEW p \in Process, LifeTypes', FitsAt(p)',
         \A q \in Process \ {p} :
           /\ stage'[q] = stage[q] /\ held'[q] = held[q] /\ ear'[q] = ear[q]
           /\ (q \in cancelled' <=> q \in cancelled) /\ (q \in deaf => q \in deaf')
           /\ q \in beating' => q \in beating
           /\ q \in busy' => q \in busy
           /\ q \in late /\ q \in busy' => q \in late'
  PROVE  LifeOK'
<1>1. ASSUME NEW q \in Process, q # p PROVE FitsAt(q)'
  BY <1>1 DEF FitsAt, LifeOK
<1>. QED  BY <1>1 DEF LifeOK

LEMMA OpenedFact ==
  /\ Cardinality({}) = 0 /\ Cardinality({"db"}) = 1 /\ Cardinality({"db", "redis"}) = 2
  /\ Cardinality({"db", "redis", "port"}) = 3 /\ Cardinality({"db", "redis", "port", "sub"}) = 4
<1>1. IsFiniteSet({}) /\ Cardinality({}) = 0
  BY FS_EmptySet
<1>2. IsFiniteSet({"db"}) /\ Cardinality({"db"}) = 1
  BY FS_Singleton
<1>3. {"db", "redis"} = {"db"} \cup {"redis"} /\ "redis" \notin {"db"}
  OBVIOUS
<1>4. IsFiniteSet({"db", "redis"}) /\ Cardinality({"db", "redis"}) = 2
  BY <1>2, <1>3, FS_AddElement
<1>5. {"db", "redis", "port"} = {"db", "redis"} \cup {"port"} /\ "port" \notin {"db", "redis"}
  OBVIOUS
<1>6. IsFiniteSet({"db", "redis", "port"}) /\ Cardinality({"db", "redis", "port"}) = 3
  BY <1>4, <1>5, FS_AddElement
<1>7. {"db", "redis", "port", "sub"} = {"db", "redis", "port"} \cup {"sub"} /\ "sub" \notin {"db", "redis", "port"}
  OBVIOUS
<1>8. Cardinality({"db", "redis", "port", "sub"}) = 4
  BY <1>6, <1>7, FS_AddElement
<1>. QED  BY <1>1, <1>2, <1>4, <1>6, <1>8

LEMMA OpenStep ==
  ASSUME LifeOK, NEW p \in Process, Open(p)
  PROVE  LifeOK'
<1> DEFINE r == Order[1 + Cardinality(held[p])]
<1>1. /\ LifeTypes /\ FitsAt(p) /\ stage[p] = "starting"
      /\ held' = [held EXCEPT ![p] = @ \cup {r}]
      /\ ear' = IF r = "sub" THEN [ear EXCEPT ![p] = "waiting"] ELSE ear
      /\ IF held'[p] = All THEN Goes(p, "registering") \/ Goes(p, "running") ELSE UNCHANGED stage
      /\ UNCHANGED <<busy, beating, late, cancelled, deaf>>
  BY DEF Open, LifeOK, signVars
<1>2. \/ held[p] = {} /\ r = "db"
      \/ held[p] = {"db"} /\ r = "redis"
      \/ held[p] = {"db", "redis"} /\ r = "port"
      \/ held[p] = {"db", "redis", "port"} /\ r = "sub"
      \/ held[p] = {"db", "redis", "port", "sub"} /\ r = "http"
  <2>1. Order[1] = "db" /\ Order[2] = "redis" /\ Order[3] = "port" /\ Order[4] = "sub" /\ Order[5] = "http"
    BY DEF Order
  <2>. QED  BY <1>1, <2>1, OpenedFact DEF FitsAt
<1>. HIDE DEF r
<1>3. r \in All
  BY <1>2 DEF All
<1>4. /\ held' \in [Process -> SUBSET All] /\ held'[p] = held[p] \cup {r}
      /\ ear' \in [Process -> {"off", "waiting", "writing"}]
      /\ \A q \in Process \ {p} : held'[q] = held[q] /\ ear'[q] = ear[q]
      /\ IF r = "sub" THEN ear'[p] = "waiting" ELSE ear'[p] = ear[p]
  BY <1>1, <1>3 DEF LifeTypes
<1>5. /\ stage' \in [Process -> {"off", "starting", "registering", "running", "abort", "deregister",
                                 "drain", "silence", "wait", "close"}]
      /\ \A q \in Process \ {p} : stage'[q] = stage[q]
      /\ IF held'[p] = All THEN stage'[p] \in {"registering", "running"} ELSE stage'[p] = "starting"
  BY <1>1 DEF LifeTypes, Goes
<1>6. \/ held'[p] = {"db"} \/ held'[p] = {"db", "redis"} \/ held'[p] = {"db", "redis", "port"}
      \/ held'[p] = {"db", "redis", "port", "sub"} \/ held'[p] = All
  BY <1>2, <1>4 DEF All
<1>7. FitsAt(p)'
  <2>1. p \notin beating' /\ p \notin busy'
    BY <1>1 DEF FitsAt
  <2>2. /\ ear'[p] # "off" => "sub" \in held'[p]
        /\ "sub" \in held'[p] /\ p \notin cancelled' => ear'[p] # "off"
    BY <1>1, <1>4 DEF FitsAt
  <2>. QED  BY <1>5, <1>6, <2>1, <2>2 DEF FitsAt
<1>8. LifeTypes'
  BY <1>4, <1>5 DEF LifeTypes
<1>. QED  BY <1>1, <1>4, <1>5, <1>7, <1>8, LifeMoves

\* The other steps of a process.
LEMMA ProcessStep ==
  ASSUME LifeOK, NEW p \in Process,
         \/ Boot(p) \/ OpenFails(p) \/ Registered(p) \/ RegisterRetries(p) \/ RegisterFails(p)
         \/ Abort(p) \/ Signal(p) \/ Shutdown(p) \/ Deregister(p) \/ Drain(p) \/ DrainTimesOut(p)
         \/ CloseBroadcaster(p) \/ WaitForListener(p) \/ CloseStores(p) \/ Crash(p)
         \/ Quit(p) \/ QuitsEarly(p) \/ ServeFails(p) \/ Expire(p) \/ TakeRequest(p) \/ EndRequest(p)
         \/ publishRequest(p) \/ LoseFeed(p) \/ listen(p) \/ send(p) \/ Sent(p)
  PROVE  LifeOK'
<1> USE DEF Goes, signVars
<1>0. LifeTypes /\ FitsAt(p)
  BY DEF LifeOK
<1>1. CASE Boot(p)
  BY <1>0, <1>1, LifeMoves DEF Boot, LifeTypes, FitsAt
<1>2. CASE OpenFails(p)
  BY <1>0, <1>2, LifeMoves DEF OpenFails, LifeTypes, FitsAt
<1>3. CASE Registered(p)
  BY <1>0, <1>3, LifeMoves DEF Registered, LifeTypes, FitsAt
<1>4. CASE RegisterRetries(p)
  BY <1>0, <1>4, LifeMoves DEF RegisterRetries, LifeTypes, FitsAt
<1>5. CASE RegisterFails(p)
  BY <1>0, <1>5, LifeMoves DEF RegisterFails, LifeTypes, FitsAt
<1>6. CASE Abort(p)
  BY <1>0, <1>6, LifeMoves DEF Abort, LifeTypes, FitsAt, All
<1>7. CASE Signal(p)
  BY <1>0, <1>7, LifeMoves DEF Signal, LifeTypes, FitsAt
<1>8. CASE Deregister(p)
  BY <1>0, <1>8, LifeMoves DEF Deregister, LifeTypes, FitsAt, All
<1>9. CASE Drain(p)
  BY <1>0, <1>9, LifeMoves DEF Drain, LifeTypes, FitsAt, All
<1>10. CASE DrainTimesOut(p)
  BY <1>0, <1>10, LifeMoves DEF DrainTimesOut, LifeTypes, FitsAt, All
<1>11. CASE CloseBroadcaster(p) \/ WaitForListener(p)
  BY <1>0, <1>11, LifeMoves DEF CloseBroadcaster, WaitForListener, LifeTypes, FitsAt
<1>12. ASSUME Ends(p) PROVE LifeOK'
  BY <1>0, <1>12, LifeMoves DEF Ends, LifeTypes, FitsAt
<1>13. CASE CloseStores(p)
  <2>1. CASE "db" \in held[p]
    BY <1>0, <1>13, <2>1, LifeMoves DEF CloseStores, LifeTypes, FitsAt
  <2>2. CASE "db" \notin held[p]
    BY <1>12, <1>13, <2>2 DEF CloseStores
  <2>. QED  BY <2>1, <2>2
<1>14. CASE Quit(p) \/ QuitsEarly(p)
  BY <1>0, <1>14, LifeMoves DEF Quit, QuitsEarly, processVars, LifeTypes, FitsAt
<1>15. CASE Expire(p) \/ EndRequest(p)
  BY <1>0, <1>15, LifeMoves DEF Expire, EndRequest, LifeTypes, FitsAt
<1>16. CASE TakeRequest(p)
  BY <1>0, <1>16, LifeMoves DEF TakeRequest, Accepts, LifeTypes, FitsAt
<1>17. CASE publishRequest(p) \/ LoseFeed(p)
  BY <1>0, <1>17, LifeMoves DEF publishRequest, LoseFeed, processVars, LifeTypes, FitsAt
<1>18. CASE listen(p)
  BY <1>0, <1>18, LifeMoves DEF listen, processVars, LifeTypes, FitsAt
<1>19. CASE send(p) \/ Sent(p)
  BY <1>0, <1>19, LifeMoves DEF send, Sent, processVars, LifeTypes, FitsAt
<1>20. CASE Crash(p)
  BY <1>12, <1>20 DEF Crash
<1>21. CASE Shutdown(p)
  BY <1>0, <1>21, LifeMoves DEF Shutdown, LifeTypes, FitsAt
<1>22. CASE ServeFails(p)
  BY <1>0, <1>22, LifeMoves DEF ServeFails, LifeTypes, FitsAt, All
<1>. QED  BY <1>1, <1>2, <1>3, <1>4, <1>5, <1>6, <1>7, <1>8, <1>9, <1>10, <1>11, <1>13, <1>14,
             <1>15, <1>16, <1>17, <1>18, <1>19, <1>20, <1>21, <1>22

LEMMA LifeStep == LifeOK /\ [LifeNext]_lifeVars => LifeOK'
<1> SUFFICES ASSUME LifeOK, [LifeNext]_lifeVars PROVE LifeOK'
  OBVIOUS
<1>1. CASE UNCHANGED lifeVars \/ \E s \in Session : (\E p \in Process : Mount(p, s)) \/ Leave(s) \/ Stall(s)
  <2>1. /\ stage' = stage /\ held' = held /\ ear' = ear /\ beating' = beating /\ busy' = busy
        /\ late' = late /\ cancelled' = cancelled /\ deaf' = deaf
    BY <1>1 DEF lifeVars, processVars, signVars, Mount, Leave, Stall
  <2>. QED  BY <2>1 DEF LifeOK, LifeTypes, FitsAt
<1>2. ASSUME NEW p \in Process, Proceeds(p) \/ Listens(p) \/ Happens(p) PROVE LifeOK'
  BY <1>2, OpenStep, ProcessStep DEF Proceeds, Listens, Happens
<1>. QED  BY <1>1, <1>2 DEF LifeNext

\* For any number of processes, whatever fails while they start and stop, and
\* whenever they are told to: an instance that is listed and kept alive holds all it
\* serves with, except the port if Serve has failed, and listens unless it was told
\* to stop; and a request that has not been given up, and the listener, find their
\* stores open (app.go:67,329,340,383, broadcaster.go:134).
THEOREM LifeIsOrderly == LifeSpec => []OrderlyLife
<1>1. LifeOK => OrderlyLife
  BY DEF LifeOK, LifeTypes, FitsAt, OrderlyLife, All
<1>. QED  BY LifeInitially, LifeStep, <1>1, PTL DEF LifeSpec

-----------------------------------------------------------------------------
(* Messages between processes.                                             *)

Message == [tenant : Tenant, to : {None} \cup Session]
Serving == {"registering", "running", "abort"}

\* The messages on their way to p come in the order they were published; the one
\* it is writing was published before them, and goes to its own tenant.
LineOK(p) ==
  /\ \A j \in DOMAIN feed[p] : feed[p][j] \in 1 .. Len(sent)
  /\ \A i, j \in DOMAIN feed[p] : i < j => feed[p][i] < feed[p][j]
  /\ ear[p] # "writing" => aim[p].left = {}
  /\ aim[p].left # {} => /\ aim[p].message \in 1 .. Len(sent)
                         /\ \A j \in DOMAIN feed[p] : aim[p].message < feed[p][j]
  /\ \A s \in aim[p].left : Home[s] = sent[aim[p].message].tenant

\* What a session has got was published before all that is still to come to it.
BoxOK(s) ==
  /\ \A k \in DOMAIN inbox[s] : inbox[s][k] \in 1 .. Len(sent) /\ Home[s] = sent[inbox[s][k]].tenant
  /\ \A k \in DOMAIN inbox[s] : k > 1 => inbox[s][k - 1] < inbox[s][k]
  /\ conn[s] = None => inbox[s] = <<>>
  /\ conn[s] \in Process =>
       /\ stage[conn[s]] \notin {"off", "starting"}
       /\ \A k \in DOMAIN inbox[s] :
            /\ \A j \in DOMAIN feed[conn[s]] : inbox[s][k] < feed[conn[s]][j]
            /\ s \in aim[conn[s]].left => inbox[s][k] < aim[conn[s]].message

\* A message m that is due to session s.
DueOK(s, m) ==
  /\ conn[s] \in Process /\ stage[conn[s]] \in Serving /\ conn[s] \notin cancelled
  /\ m \in 1 .. Len(sent) /\ s \in Addressed(sent[m])
  /\ \/ \E k \in DOMAIN inbox[s] : inbox[s][k] = m
     \/ \E k \in DOMAIN feed[conn[s]] : feed[conn[s]][k] = m
     \/ aim[conn[s]].message = m /\ s \in aim[conn[s]].left

WsTypes ==
  /\ sent \in Seq(Message)
  /\ conn \in [Session -> Process \cup {None, "gone"}]
  /\ feed \in [Process -> Seq(Nat)]
  /\ aim \in [Process -> [message : Nat, left : SUBSET Session]]
  /\ inbox \in [Session -> Seq(Nat)]
  /\ due \subseteq Session \X Nat

WsOK ==
  /\ WsTypes
  /\ \A p \in Process : LineOK(p)
  /\ \A s \in Session : BoxOK(s)
  /\ \A s \in Session, m \in Nat : <<s, m>> \in due => DueOK(s, m)

LEMMA WsInitially == LifeInit => WsOK
<1> SUFFICES ASSUME LifeInit PROVE WsOK
  OBVIOUS
<1>1. /\ sent = <<>> /\ conn = [s \in Session |-> None] /\ feed = [p \in Process |-> <<>>]
      /\ aim = [p \in Process |-> NoAim] /\ inbox = [s \in Session |-> <<>>] /\ due = {}
  BY DEF LifeInit
<1>2. WsTypes
  BY <1>1 DEF WsTypes, NoAim
<1>3. \A p \in Process : LineOK(p)
  BY <1>1 DEF LineOK, NoAim
<1>4. \A s \in Session : BoxOK(s)
  BY <1>1, ProcessesAssumption DEF BoxOK
<1>. QED  BY <1>1, <1>2, <1>3, <1>4 DEF WsOK

\* A step that leaves messages and sessions alone, except that some messages may be
\* due no longer.
LEMMA WsRests ==
  ASSUME WsOK, UNCHANGED <<feed, aim, conn, sent, inbox>>, due' \subseteq due,
         \A q \in Process : /\ ear[q] = "writing" => ear'[q] = "writing"
                            /\ stage[q] \notin {"off", "starting"} => stage'[q] \notin {"off", "starting"},
         \A s \in Session, m \in Nat : <<s, m>> \in due' =>
           /\ stage[conn[s]] = stage'[conn[s]] \/ stage'[conn[s]] \in Serving
           /\ conn[s] \in cancelled' => conn[s] \in cancelled
  PROVE  WsOK'
<1>1. WsTypes' /\ \A p \in Process : LineOK(p)'
  BY DEF WsOK, WsTypes, LineOK
<1>2. \A s \in Session : BoxOK(s)'
  BY DEF WsOK, BoxOK
<1>3. ASSUME NEW s \in Session, NEW m \in Nat, <<s, m>> \in due' PROVE DueOK(s, m)'
  <2>1. /\ DueOK(s, m) /\ (stage[conn[s]] = stage'[conn[s]] \/ stage'[conn[s]] \in Serving)
        /\ conn[s] \in cancelled' => conn[s] \in cancelled
    BY <1>3 DEF WsOK
  <2>. QED  BY <2>1 DEF DueOK, Addressed
<1>. QED  BY <1>1, <1>2, <1>3 DEF WsOK

LEMMA WsProcess ==
  ASSUME LifeOK, WsOK, NEW p \in Process,
         \/ Boot(p) \/ Open(p) \/ OpenFails(p) \/ Registered(p) \/ RegisterRetries(p) \/ RegisterFails(p)
         \/ Abort(p) \/ Signal(p) \/ Shutdown(p) \/ Deregister(p) \/ Drain(p) \/ DrainTimesOut(p)
         \/ WaitForListener(p) \/ ServeFails(p) \/ Quit(p) \/ Expire(p) \/ TakeRequest(p) \/ EndRequest(p)
  PROVE  WsOK'
<1> USE DEF Goes, wsVars, processVars, signVars, Serving
<1>0. LifeTypes /\ FitsAt(p)
  BY DEF LifeOK
<1>1. ASSUME NEW s \in Session, NEW m \in Nat, <<s, m>> \in due
      PROVE  conn[s] \in Process /\ stage[conn[s]] \in Serving /\ conn[s] \notin cancelled
  BY <1>1 DEF WsOK, DueOK
<1>2. CASE Boot(p)
  BY <1>0, <1>1, <1>2, WsRests DEF Boot, LifeTypes
<1>3. CASE Open(p)
  <2>1. /\ stage[p] = "starting" /\ UNCHANGED <<feed, aim, conn, sent, inbox, cancelled>> /\ due' = due
    BY <1>3 DEF Open
  <2>2. \A q \in Process : stage'[q] # stage[q] => stage'[q] \in Serving
    BY <1>0, <1>3 DEF Open, LifeTypes
  <2>3. \A q \in Process : ear[q] = "writing" => ear'[q] = "writing"
    <3>1. Order[1 + Cardinality(held[p])] = "sub" => ear[p] # "writing"
      <4>1. \/ held[p] = {} \/ held[p] = {"db"} \/ held[p] = {"db", "redis"}
            \/ held[p] = {"db", "redis", "port"} \/ held[p] = {"db", "redis", "port", "sub"}
        BY <1>0, <2>1 DEF FitsAt
      <4>2. Order[1] = "db" /\ Order[2] = "redis" /\ Order[3] = "port" /\ Order[4] = "sub" /\ Order[5] = "http"
        BY DEF Order
      <4>3. Order[1 + Cardinality(held[p])] = "sub" => "sub" \notin held[p]
        BY <4>1, <4>2, OpenedFact
      <4>. QED  BY <1>0, <2>1, <4>3 DEF FitsAt
    <3>. QED  BY <1>0, <1>3, <3>1 DEF Open, LifeTypes
  <2>. QED  BY <1>1, <2>1, <2>2, <2>3, WsRests
<1>4. CASE OpenFails(p)
  <2>1. \A s \in Session, m \in Nat : <<s, m>> \in due => conn[s] # p
    BY <1>1, <1>4 DEF OpenFails
  <2>. QED  BY <1>0, <1>1, <1>4, <2>1, WsRests DEF OpenFails, LifeTypes
<1>5. CASE Registered(p) \/ RegisterRetries(p) \/ RegisterFails(p)
  BY <1>0, <1>1, <1>5, WsRests DEF Registered, RegisterRetries, RegisterFails, LifeTypes
<1>6. CASE Abort(p) \/ Signal(p)
  <2>1. /\ UNCHANGED <<feed, aim, conn, sent, inbox, ear>> /\ due' = {d \in due : conn[d[1]] # p}
    BY <1>6 DEF Abort, Signal
  <2>2. \A s \in Session, m \in Nat : <<s, m>> \in due' => conn[s] # p
    BY <2>1
  <2>3. /\ \A q \in Process \ {p} : stage'[q] = stage[q]
        /\ stage[p] \notin {"off", "starting"} => stage'[p] \notin {"off", "starting"}
        /\ \A q \in Process \ {p} : q \in cancelled' => q \in cancelled
    BY <1>0, <1>6 DEF Abort, Signal, LifeTypes
  <2>. QED  BY <1>1, <2>1, <2>2, <2>3, WsRests
<1>7. CASE Shutdown(p) \/ Deregister(p) \/ Drain(p) \/ DrainTimesOut(p) \/ WaitForListener(p)
  <2>1. /\ UNCHANGED <<feed, aim, conn, sent, inbox, ear, due, cancelled>>
        /\ stage[p] \notin Serving \/ p \in cancelled
    BY <1>7 DEF Shutdown, Deregister, Drain, DrainTimesOut, WaitForListener
  <2>2. /\ \A q \in Process \ {p} : stage'[q] = stage[q]
        /\ stage'[p] \notin {"off", "starting"}
    BY <1>0, <1>7 DEF Shutdown, Deregister, Drain, DrainTimesOut, WaitForListener, LifeTypes
  <2>. QED  BY <1>1, <2>1, <2>2, WsRests
<1>8. CASE Quit(p)
  BY <1>0, <1>8, WsRests DEF Quit, LifeTypes
<1>9. CASE Expire(p) \/ TakeRequest(p) \/ EndRequest(p) \/ ServeFails(p)
  <2>1. UNCHANGED <<feed, aim, conn, sent, inbox, ear, due, stage, cancelled>>
    BY <1>9 DEF Expire, TakeRequest, EndRequest, ServeFails
  <2>. QED  BY <2>1, WsRests
<1>. QED  BY <1>2, <1>3, <1>4, <1>5, <1>6, <1>7, <1>8, <1>9

LEMMA WsEnds ==
  ASSUME LifeOK, WsOK, NEW p \in Process, Ends(p)
  PROVE  WsOK'
<1>0. LifeTypes /\ WsTypes /\ p # None /\ "gone" \notin Process \cup {None}
  BY ProcessesAssumption, LifecycleAssumption DEF LifeOK, WsOK
<1>1. /\ feed' = [feed EXCEPT ![p] = <<>>] /\ aim' = [aim EXCEPT ![p] = NoAim]
      /\ conn' = [s \in Session |-> IF conn[s] = p THEN "gone" ELSE conn[s]]
      /\ due' = {d \in due : conn[d[1]] # p} /\ ear' = [ear EXCEPT ![p] = "off"]
      /\ stage' = [stage EXCEPT ![p] = "off"] /\ sent' = sent /\ inbox' = inbox
      /\ cancelled' = cancelled \ {p}
  BY DEF Ends, Goes
<1>2. /\ feed'[p] = <<>> /\ aim'[p] = NoAim /\ ear'[p] = "off"
      /\ \A q \in Process \ {p} : /\ feed'[q] = feed[q] /\ aim'[q] = aim[q] /\ ear'[q] = ear[q]
                                  /\ stage'[q] = stage[q]
  BY <1>0, <1>1 DEF WsTypes, LifeTypes
<1>3. \A s \in Session : conn'[s] = IF conn[s] = p THEN "gone" ELSE conn[s]
  BY <1>1
<1>4. WsTypes'
  BY <1>0, <1>1 DEF WsTypes, NoAim
<1>5. ASSUME NEW q \in Process PROVE LineOK(q)'
  <2>1. CASE q = p
    BY <1>2, <2>1 DEF LineOK, NoAim
  <2>2. CASE q # p
    BY <1>1, <1>2, <2>2 DEF WsOK, LineOK
  <2>. QED  BY <2>1, <2>2
<1>6. ASSUME NEW s \in Session PROVE BoxOK(s)'
  <2>1. BoxOK(s)
    BY DEF WsOK
  <2>2. CASE conn[s] = p
    BY <1>0, <1>1, <1>3, <2>1, <2>2 DEF BoxOK
  <2>3. CASE conn[s] # p
    BY <1>1, <1>2, <1>3, <2>1, <2>3 DEF BoxOK
  <2>. QED  BY <2>2, <2>3
<1>7. ASSUME NEW s \in Session, NEW m \in Nat, <<s, m>> \in due' PROVE DueOK(s, m)'
  <2>1. DueOK(s, m) /\ conn[s] # p
    BY <1>1, <1>7 DEF WsOK
  <2>. QED  BY <1>1, <1>2, <1>3, <2>1 DEF DueOK, Addressed
<1>. QED  BY <1>4, <1>5, <1>6, <1>7 DEF WsOK

\* What is on its way to p is lost; nothing of it is due any longer.
LEMMA WsDrops ==
  ASSUME WsOK, NEW p \in Process, feed' = [feed EXCEPT ![p] = <<>>],
         UNCHANGED <<aim, conn, sent, inbox, cancelled>>, due' \subseteq due,
         \A q \in Process : ear[q] = "writing" => ear'[q] = "writing",
         \A q \in Process : stage'[q] = stage[q] \/ {stage[q], stage'[q]} \subseteq {"silence", "wait"},
         \A s \in Session, m \in Nat : <<s, m>> \in due' /\ conn[s] = p =>
            \A k \in DOMAIN feed[p] : feed[p][k] # m
  PROVE  WsOK'
<1>0. WsTypes
  BY DEF WsOK
<1>2. feed'[p] = <<>> /\ \A q \in Process \ {p} : feed'[q] = feed[q]
  BY <1>0 DEF WsTypes
<1>4. WsTypes'
  BY <1>0 DEF WsTypes
<1>5. ASSUME NEW q \in Process PROVE LineOK(q)'
  BY <1>2 DEF WsOK, LineOK
<1>6. ASSUME NEW s \in Session PROVE BoxOK(s)'
  <2>1. BoxOK(s)
    BY DEF WsOK
  <2>. QED  BY <1>2, <2>1 DEF BoxOK
<1>7. ASSUME NEW s \in Session, NEW m \in Nat, <<s, m>> \in due' PROVE DueOK(s, m)'
  <2>1. DueOK(s, m)
    BY <1>7 DEF WsOK
  <2>2. stage'[conn[s]] \in Serving
    BY <2>1 DEF DueOK, Serving
  <2>3. CASE conn[s] = p
    BY <1>2, <1>7, <2>1, <2>2, <2>3 DEF DueOK, Addressed
  <2>4. CASE conn[s] # p
    BY <1>2, <2>1, <2>2, <2>4 DEF DueOK, Addressed
  <2>. QED  BY <2>3, <2>4
<1>. QED  BY <1>4, <1>5, <1>6, <1>7 DEF WsOK

LEMMA WsStops ==
  ASSUME LifeOK, WsOK, NEW p \in Process,
         CloseBroadcaster(p) \/ CloseStores(p) \/ Crash(p) \/ LoseFeed(p) \/ QuitsEarly(p)
  PROVE  WsOK'
<1>1. CASE Crash(p)
  BY <1>1, WsEnds DEF Crash
<1>2. CASE CloseStores(p)
  <2>1. CASE "db" \in held[p]
    BY <1>2, <2>1, WsRests DEF CloseStores, wsVars, signVars
  <2>2. CASE "db" \notin held[p]
    BY <1>2, <2>2, WsEnds DEF CloseStores
  <2>. QED  BY <2>1, <2>2
<1>3. CASE CloseBroadcaster(p)
  <2>1. /\ feed' = [feed EXCEPT ![p] = <<>>] /\ UNCHANGED <<aim, conn, sent, inbox, ear, due, cancelled>>
        /\ stage[p] = "silence" /\ stage' = [stage EXCEPT ![p] = "wait"]
    BY <1>3 DEF CloseBroadcaster, Goes, signVars
  <2>2. \A q \in Process : stage'[q] = stage[q] \/ {stage[q], stage'[q]} \subseteq {"silence", "wait"}
    BY <2>1 DEF LifeOK, LifeTypes
  <2>3. \A s \in Session, m \in Nat : <<s, m>> \in due' => conn[s] # p
    BY <2>1 DEF WsOK, DueOK, Serving
  <2>. QED  BY <2>1, <2>2, <2>3, WsDrops
<1>4. CASE LoseFeed(p)
  <2>1. /\ feed' = [feed EXCEPT ![p] = <<>>] /\ UNCHANGED <<aim, conn, sent, inbox, ear, stage, cancelled>>
        /\ due' = {d \in due : conn[d[1]] = p => \A k \in DOMAIN feed[p] : feed[p][k] # d[2]}
    BY <1>4 DEF LoseFeed, processVars, signVars
  <2>2. due' \subseteq due
    BY <2>1
  <2>3. \A s \in Session, m \in Nat : <<s, m>> \in due' /\ conn[s] = p => \A k \in DOMAIN feed[p] : feed[p][k] # m
    BY <2>1
  <2>. QED  BY <2>1, <2>2, <2>3, WsDrops
<1>5. CASE QuitsEarly(p)
  <2>1. /\ feed' = [feed EXCEPT ![p] = <<>>] /\ ear' = [ear EXCEPT ![p] = "off"]
        /\ UNCHANGED <<aim, conn, sent, inbox, stage, due, cancelled>>
        /\ p \in cancelled /\ ear[p] = "waiting"
    BY <1>5 DEF QuitsEarly, processVars, signVars
  <2>2. \A q \in Process : ear[q] = "writing" => ear'[q] = "writing"
    BY <2>1 DEF LifeOK, LifeTypes
  <2>3. \A s \in Session, m \in Nat : <<s, m>> \in due' => conn[s] # p
    BY <2>1 DEF WsOK, DueOK
  <2>. QED  BY <2>1, <2>2, <2>3, WsDrops
<1>. QED  BY <1>1, <1>2, <1>3, <1>4, <1>5

LEMMA WsSession ==
  ASSUME LifeOK, WsOK, NEW s \in Session, (\E p \in Process : Mount(p, s)) \/ Leave(s) \/ Stall(s)
  PROVE  WsOK'
<1>0. WsTypes /\ None \notin Process /\ "gone" \notin Process \cup {None}
  BY ProcessesAssumption, LifecycleAssumption DEF WsOK
<1>1. ASSUME NEW c \in Process \cup {"gone"}, conn' = [conn EXCEPT ![s] = c],
             UNCHANGED <<processVars, ear, feed, aim, sent, inbox>>, due' \subseteq due,
             \A m \in Nat : <<s, m>> \notin due',
             c \in Process => conn[s] = None /\ stage[c] \notin {"off", "starting"}
      PROVE  WsOK'
  <2>1. stage' = stage /\ cancelled' = cancelled /\ conn'[s] = c /\ \A r \in Session \ {s} : conn'[r] = conn[r]
    BY <1>0, <1>1 DEF processVars, signVars, WsTypes
  <2>2. WsTypes' /\ \A q \in Process : LineOK(q)'
    BY <1>0, <1>1 DEF WsTypes, WsOK, LineOK
  <2>3. ASSUME NEW r \in Session PROVE BoxOK(r)'
    <3>1. BoxOK(r)
      BY DEF WsOK
    <3>2. CASE r = s /\ c = "gone"
      BY <1>0, <1>1, <2>1, <3>1, <3>2 DEF BoxOK
    <3>3. CASE r = s /\ c # "gone"
      <4>1. inbox'[r] = <<>> /\ c \in Process
        BY <1>1, <3>1, <3>3 DEF BoxOK
      <4>. QED  BY <1>1, <2>1, <3>3, <4>1 DEF BoxOK
    <3>4. CASE r # s
      BY <1>1, <2>1, <3>1, <3>4 DEF BoxOK
    <3>. QED  BY <3>2, <3>3, <3>4
  <2>4. ASSUME NEW r \in Session, NEW m \in Nat, <<r, m>> \in due' PROVE DueOK(r, m)'
    <3>1. DueOK(r, m) /\ r # s
      BY <1>1, <2>4 DEF WsOK
    <3>. QED  BY <1>1, <2>1, <3>1 DEF DueOK, Addressed
  <2>. QED  BY <2>2, <2>3, <2>4 DEF WsOK
<1>2. ASSUME NEW p \in Process, Mount(p, s) PROVE WsOK'
  <2>1. \A m \in Nat : <<s, m>> \notin due
    BY <1>0, <1>2 DEF Mount, WsOK, DueOK
  <2>2. stage[p] \notin {"off", "starting"}
    <3>1. FitsAt(p) /\ "http" \in held[p]
      BY <1>2 DEF Mount, Accepts, LifeOK
    <3>. QED  BY <3>1 DEF FitsAt
  <2>. QED  BY <1>1, <1>2, <2>1, <2>2 DEF Mount
<1>3. CASE Leave(s)
  <2>1. /\ conn' = [conn EXCEPT ![s] = "gone"] /\ due' = {d \in due : d[1] # s}
        /\ UNCHANGED <<processVars, ear, feed, aim, sent, inbox>>
    BY <1>3 DEF Leave
  <2>2. due' \subseteq due /\ \A m \in Nat : <<s, m>> \notin due'
    BY <2>1
  <2>. QED  BY <1>0, <1>1, <2>1, <2>2
<1>4. CASE Stall(s)
  BY <1>4, WsRests DEF Stall, processVars, signVars
<1>. QED  BY <1>2, <1>3, <1>4

LEMMA AppendFact ==
  ASSUME NEW f \in Seq(Nat), NEW n \in Nat, NEW g, g = Append(f, n)
  PROVE  /\ g \in Seq(Nat)
         /\ \A j \in DOMAIN f : j \in DOMAIN g /\ g[j] = f[j]
         /\ \A j \in DOMAIN g : (j \in DOMAIN f /\ g[j] = f[j]) \/ g[j] = n
         /\ \A i, j \in DOMAIN g : i < j => i \in DOMAIN f /\ g[i] = f[i]
         /\ \E j \in DOMAIN g : g[j] = n
<1>1. /\ g \in Seq(Nat) /\ DOMAIN g = 1 .. Len(f) + 1 /\ DOMAIN f = 1 .. Len(f) /\ Len(f) \in Nat
      /\ g[Len(f) + 1] = n
  OBVIOUS
<1>2. \A j \in DOMAIN f : j \in DOMAIN g /\ g[j] = f[j]
  OBVIOUS
<1>3. \A j \in DOMAIN g : (j \in DOMAIN f /\ g[j] = f[j]) \/ g[j] = n
  BY <1>1, <1>2
<1>4. \A i, j \in DOMAIN g : i < j => i \in DOMAIN f /\ g[i] = f[i]
  BY <1>1, <1>2
<1>5. \E j \in DOMAIN g : g[j] = n
  BY <1>1
<1>. QED  BY <1>1, <1>2, <1>3, <1>4, <1>5

LEMMA WsPublishes ==
  ASSUME LifeOK, WsOK, NEW p \in Process, publishRequest(p)
  PROVE  WsOK'
<1> DEFINE n == Len(sent) + 1
<1>1. PICK m \in Message :
        /\ sent' = Append(sent, m)
        /\ due' = due \cup {<<s, Len(sent')>> : s \in {r \in Addressed(m) :
                    conn[r] \in Process /\ Serves(conn[r])}}
  <2>1. PICK t \in Tenant, to \in {None} \cup Session :
          LET m == [tenant |-> t, to |-> to] IN
          /\ sent' = Append(sent, m)
          /\ due' = due \cup {<<s, Len(sent')>> : s \in {r \in Addressed(m) :
                      conn[r] \in Process /\ Serves(conn[r])}}
    BY DEF publishRequest
  <2>2. [tenant |-> t, to |-> to] \in Message
    BY DEF Message
  <2>. QED  BY <2>1, <2>2
<1>0. WsTypes /\ LifeTypes
  BY DEF WsOK, LifeOK
<1>2. /\ sent' \in Seq(Message) /\ Len(sent') = n /\ sent'[n] = m /\ n \in Nat /\ Len(sent) \in Nat
      /\ \A i \in 1 .. Len(sent) : sent'[i] = sent[i] /\ i \in 1 .. n /\ i < n
      /\ n \in 1 .. n
  BY <1>0, <1>1 DEF WsTypes
<1>3. /\ feed' = [q \in Process |-> IF q \in Subscribers THEN Append(feed[q], Len(sent')) ELSE feed[q]]
      /\ stage' = stage /\ ear' = ear /\ aim' = aim /\ conn' = conn /\ inbox' = inbox
      /\ cancelled' = cancelled
  BY DEF publishRequest, processVars, signVars
<1>. HIDE DEF n
<1>4. ASSUME NEW q \in Process
      PROVE  /\ feed'[q] \in Seq(Nat)
             /\ \A j \in DOMAIN feed[q] : j \in DOMAIN feed'[q] /\ feed'[q][j] = feed[q][j]
             /\ \A j \in DOMAIN feed'[q] : (j \in DOMAIN feed[q] /\ feed'[q][j] = feed[q][j]) \/ feed'[q][j] = n
             /\ \A i, j \in DOMAIN feed'[q] : i < j => i \in DOMAIN feed[q] /\ feed'[q][i] = feed[q][i]
             /\ q \in Subscribers => \E j \in DOMAIN feed'[q] : feed'[q][j] = n
  <2>1. feed[q] \in Seq(Nat)
    BY <1>0 DEF WsTypes
  <2>2. CASE q \in Subscribers
    <3>1. feed'[q] = Append(feed[q], n)
      BY <1>2, <1>3, <2>2
    <3> DEFINE f == feed[q]
               g == feed'[q]
    <3>2. f \in Seq(Nat) /\ n \in Nat /\ g = Append(f, n)
      BY <1>2, <2>1, <3>1
    <3>. HIDE DEF f, g
    <3>3. /\ g \in Seq(Nat)
          /\ \A j \in DOMAIN f : j \in DOMAIN g /\ g[j] = f[j]
          /\ \A j \in DOMAIN g : (j \in DOMAIN f /\ g[j] = f[j]) \/ g[j] = n
          /\ \A i, j \in DOMAIN g : i < j => i \in DOMAIN f /\ g[i] = f[i]
          /\ \E j \in DOMAIN g : g[j] = n
      BY <3>2, AppendFact
    <3>. QED  BY <3>3 DEF f, g
  <2>3. CASE q \notin Subscribers
    <3>1. feed'[q] = feed[q]
      BY <1>3, <2>3
    <3>2. \A i, j \in DOMAIN feed[q] : i \in DOMAIN feed[q]
      OBVIOUS
    <3>. QED  BY <2>1, <2>3, <3>1, <3>2
  <2>. QED  BY <2>2, <2>3
<1>5. ASSUME NEW q \in Process PROVE LineOK(q)'
  <2>1. LineOK(q)
    BY DEF WsOK
  <2>2. \A j \in DOMAIN feed'[q] : feed'[q][j] \in 1 .. Len(sent')
    BY <1>2, <1>4, <2>1 DEF LineOK
  <2>3. \A i, j \in DOMAIN feed'[q] : i < j => feed'[q][i] < feed'[q][j]
    <3> SUFFICES ASSUME NEW i \in DOMAIN feed'[q], NEW j \in DOMAIN feed'[q], i < j
                 PROVE  feed'[q][i] < feed'[q][j]
      OBVIOUS
    <3>1. i \in DOMAIN feed[q] /\ feed'[q][i] = feed[q][i] /\ feed[q][i] \in 1 .. Len(sent)
      BY <1>4, <2>1 DEF LineOK
    <3>2. CASE feed'[q][j] = n
      BY <1>2, <3>1, <3>2
    <3>3. CASE j \in DOMAIN feed[q] /\ feed'[q][j] = feed[q][j]
      BY <2>1, <3>1, <3>3 DEF LineOK
    <3>. QED  BY <1>4, <3>2, <3>3
  <2>4. ASSUME aim[q].left # {}
        PROVE  aim[q].message \in 1 .. Len(sent') /\ \A j \in DOMAIN feed'[q] : aim[q].message < feed'[q][j]
    <3>1. aim[q].message \in 1 .. Len(sent) /\ \A j \in DOMAIN feed[q] : aim[q].message < feed[q][j]
      BY <2>1, <2>4 DEF LineOK
    <3>. QED  BY <1>2, <1>4, <3>1
  <2>5. \A s \in aim[q].left : Home[s] = sent'[aim[q].message].tenant
    BY <1>2, <2>1 DEF LineOK
  <2>. QED  BY <1>3, <2>1, <2>2, <2>3, <2>4, <2>5 DEF LineOK
<1>6. ASSUME NEW s \in Session PROVE BoxOK(s)'
  <2>1. BoxOK(s)
    BY DEF WsOK
  <2>2. \A k \in DOMAIN inbox[s] : inbox[s][k] \in 1 .. Len(sent') /\ Home[s] = sent'[inbox[s][k]].tenant
    BY <1>2, <2>1 DEF BoxOK
  <2>3. ASSUME conn[s] \in Process, NEW k \in DOMAIN inbox[s], NEW j \in DOMAIN feed'[conn[s]]
        PROVE  inbox[s][k] < feed'[conn[s]][j]
    <3>1. inbox[s][k] \in 1 .. Len(sent)
      BY <2>1 DEF BoxOK
    <3>2. CASE feed'[conn[s]][j] = n
      BY <1>2, <3>1, <3>2
    <3>3. CASE j \in DOMAIN feed[conn[s]] /\ feed'[conn[s]][j] = feed[conn[s]][j]
      BY <2>1, <2>3, <3>3 DEF BoxOK
    <3>. QED  BY <1>4, <2>3, <3>2, <3>3
  <2>. QED  BY <1>3, <2>1, <2>2, <2>3 DEF BoxOK
<1>7. ASSUME NEW s \in Session, NEW k \in Nat, <<s, k>> \in due' PROVE DueOK(s, k)'
  <2>1. CASE <<s, k>> \in due
    <3>1. DueOK(s, k)
      BY <2>1 DEF WsOK
    <3>2. k \in 1 .. Len(sent') /\ sent'[k] = sent[k] /\ s \in Addressed(sent[k])
      BY <1>2, <3>1 DEF DueOK
    <3>3. (\E j \in DOMAIN feed[conn[s]] : feed[conn[s]][j] = k) => \E j \in DOMAIN feed'[conn[s]] : feed'[conn[s]][j] = k
      BY <1>4, <3>1 DEF DueOK
    <3>. QED  BY <1>3, <3>1, <3>2, <3>3 DEF DueOK, Addressed
  <2>2. CASE <<s, k>> \notin due
    <3>1. /\ k = n /\ s \in Addressed(m) /\ conn[s] \in Process
          /\ stage[conn[s]] \in {"starting", "registering", "running", "abort"}
          /\ conn[s] \notin cancelled
      BY <1>1, <1>2, <1>7, <2>2 DEF Serves
    <3>2. stage[conn[s]] \in Serving
      BY <3>1 DEF WsOK, BoxOK, Serving
    <3>3. conn[s] \in Subscribers
      BY <3>1, <3>2 DEF LifeOK, FitsAt, Serving, Subscribers, All
    <3>4. k \in 1 .. Len(sent') /\ sent'[k] = m
      BY <1>2, <3>1
    <3>5. \E j \in DOMAIN feed'[conn[s]] : feed'[conn[s]][j] = k
      BY <1>4, <3>1, <3>3
    <3>. QED  BY <1>3, <3>1, <3>2, <3>4, <3>5 DEF DueOK, Addressed
  <2>. QED  BY <2>1, <2>2
<1>8. due' \subseteq Session \X Nat
  <2>1. Addressed(m) \subseteq Session
    BY DEF Addressed
  <2>. QED  BY <1>0, <1>1, <1>2, <2>1 DEF WsTypes
<1>9. feed' \in [Process -> Seq(Nat)]
  <2>1. \A q \in Process : feed'[q] \in Seq(Nat)
    BY <1>4
  <2>. QED  BY <1>3, <2>1
<1>10. WsTypes'
  BY <1>0, <1>2, <1>3, <1>8, <1>9 DEF WsTypes
<1>. QED  BY <1>5, <1>6, <1>7, <1>10 DEF WsOK

LEMMA WsListens ==
  ASSUME LifeOK, WsOK, NEW p \in Process, listen(p)
  PROVE  WsOK'
<1> DEFINE f == feed[p]
           m == Head(f)
           left == {s \in Addressed(sent[m]) : conn[s] = p}
<1>0. WsTypes /\ LineOK(p) /\ LifeTypes
  BY DEF WsOK, LifeOK
<1>1. /\ ear[p] = "waiting" /\ f # <<>> /\ aim' = [aim EXCEPT ![p] = [message |-> m, left |-> left]]
      /\ feed' = [feed EXCEPT ![p] = Tail(f)] /\ ear' = [ear EXCEPT ![p] = "writing"]
      /\ stage' = stage /\ conn' = conn /\ sent' = sent /\ inbox' = inbox /\ due' = due
      /\ cancelled' = cancelled
  BY DEF listen, processVars, signVars
<1>2. /\ f \in Seq(Nat) /\ 1 \in DOMAIN f /\ f[1] = m /\ Tail(f) \in Seq(Nat) /\ m \in Nat
      /\ \A j \in DOMAIN Tail(f) : j + 1 \in DOMAIN f /\ Tail(f)[j] = f[j + 1] /\ 1 < j + 1
      /\ \A i, j \in DOMAIN Tail(f) : i < j => i + 1 < j + 1
      /\ \A j \in DOMAIN f : j = 1 \/ (j - 1 \in DOMAIN Tail(f) /\ Tail(f)[j - 1] = f[j])
  <2>1. f \in Seq(Nat) /\ f # <<>>
    BY <1>0, <1>1 DEF WsTypes
  <2>. HIDE DEF f
  <2>. QED  BY <2>1
<1>3. left \subseteq Session /\ \A s \in left : Home[s] = sent[m].tenant
  BY DEF Addressed
<1>4. /\ aim'[p].message = m /\ aim'[p].left = left /\ feed'[p] = Tail(f)
      /\ \A q \in Process \ {p} : aim'[q] = aim[q] /\ feed'[q] = feed[q] /\ ear'[q] = ear[q]
      /\ ear'[p] = "writing"
  BY <1>0, <1>1 DEF WsTypes, LifeTypes
<1>5. aim[p].left = {}
  BY <1>0, <1>1 DEF LineOK
<1>. HIDE DEF f, m, left
<1>6. /\ m \in 1 .. Len(sent) /\ \A j \in DOMAIN Tail(f) : Tail(f)[j] \in 1 .. Len(sent) /\ m < Tail(f)[j]
      /\ \A i, j \in DOMAIN Tail(f) : i < j => Tail(f)[i] < Tail(f)[j]
  <2>1. /\ \A j \in DOMAIN f : f[j] \in 1 .. Len(sent)
        /\ \A i, j \in DOMAIN f : i < j => f[i] < f[j]
    BY <1>0 DEF LineOK, f
  <2>. QED  BY <1>2, <2>1
<1>7. WsTypes'
  BY <1>0, <1>1, <1>2, <1>3 DEF WsTypes
<1>8. ASSUME NEW q \in Process PROVE LineOK(q)'
  <2>1. CASE q = p
    BY <1>1, <1>3, <1>4, <1>6, <2>1 DEF LineOK
  <2>2. CASE q # p
    BY <1>1, <1>4, <2>2 DEF WsOK, LineOK
  <2>. QED  BY <2>1, <2>2
<1>9. ASSUME NEW s \in Session PROVE BoxOK(s)'
  <2>1. BoxOK(s)
    BY DEF WsOK
  <2>2. CASE conn[s] = p
    <3>1. \A k \in DOMAIN inbox[s], j \in DOMAIN f : inbox[s][k] < f[j]
      BY <2>1, <2>2 DEF BoxOK, f
    <3>2. \A k \in DOMAIN inbox[s] : inbox[s][k] < m /\ \A j \in DOMAIN Tail(f) : inbox[s][k] < Tail(f)[j]
      BY <1>2, <3>1
    <3>. QED  BY <1>1, <1>4, <2>1, <2>2, <3>2 DEF BoxOK
  <2>3. CASE conn[s] # p
    BY <1>1, <1>4, <2>1, <2>3 DEF BoxOK
  <2>. QED  BY <2>2, <2>3
<1>10. ASSUME NEW s \in Session, NEW k \in Nat, <<s, k>> \in due' PROVE DueOK(s, k)'
  <2>1. DueOK(s, k)
    BY <1>1, <1>10 DEF WsOK
  <2>2. CASE conn[s] = p
    <3>1. ASSUME \E j \in DOMAIN f : f[j] = k
          PROVE  (\E j \in DOMAIN feed'[p] : feed'[p][j] = k) \/ (aim'[p].message = k /\ s \in aim'[p].left)
      <4>1. PICK j \in DOMAIN f : f[j] = k
        BY <3>1
      <4>2. CASE j = 1
        BY <1>2, <1>4, <2>1, <2>2, <4>1, <4>2 DEF DueOK, left
      <4>3. CASE j # 1
        <5>1. j - 1 \in DOMAIN feed'[p] /\ feed'[p][j - 1] = k
          BY <1>2, <1>4, <4>1, <4>3
        <5>. QED  BY <5>1
      <4>. QED  BY <4>2, <4>3
    <3>2. (\E j \in DOMAIN inbox[s] : inbox[s][j] = k) \/ (\E j \in DOMAIN f : f[j] = k)
      BY <1>5, <2>1, <2>2 DEF DueOK, f
    <3>. QED  BY <1>1, <2>1, <2>2, <3>1, <3>2 DEF DueOK, Addressed
  <2>3. CASE conn[s] # p
    BY <1>1, <1>4, <2>1, <2>3 DEF DueOK, Addressed
  <2>. QED  BY <2>2, <2>3
<1>. QED  BY <1>7, <1>8, <1>9, <1>10 DEF WsOK

LEMMA WsWrites ==
  ASSUME LifeOK, WsOK, NEW p \in Process, send(p)
  PROVE  WsOK'
<1>0. WsTypes /\ LineOK(p)
  BY DEF WsOK
<1>1. PICK s \in aim[p].left :
        /\ aim' = [aim EXCEPT ![p].left = @ \ {s}]
        /\ inbox' = IF conn[s] = p THEN [inbox EXCEPT ![s] = Append(@, aim[p].message)] ELSE inbox
  BY DEF send
<1>2. /\ stage' = stage /\ ear' = ear /\ feed' = feed /\ conn' = conn /\ sent' = sent /\ due' = due
      /\ cancelled' = cancelled
  BY DEF send, processVars, signVars
<1> DEFINE m == aim[p].message
<1>3. /\ aim'[p].message = m /\ aim'[p].left = aim[p].left \ {s} /\ aim' \in [Process -> [message : Nat, left : SUBSET Session]]
      /\ \A q \in Process \ {p} : aim'[q] = aim[q]
      /\ s \in Session /\ m \in Nat
  <2>1. aim \in [Process -> [message : Nat, left : SUBSET Session]]
    BY <1>0 DEF WsTypes
  <2>. QED  BY <1>1, <2>1
<1>4. m \in 1 .. Len(sent) /\ Home[s] = sent[m].tenant /\ \A j \in DOMAIN feed[p] : m < feed[p][j]
  BY <1>0, <1>1 DEF LineOK
<1>. HIDE DEF m
<1>5. ASSUME NEW r \in Session
      PROVE  /\ inbox'[r] \in Seq(Nat)
             /\ inbox'[r] = IF r = s /\ conn[s] = p THEN Append(inbox[r], m) ELSE inbox[r]
  BY <1>0, <1>1, <1>3 DEF WsTypes, m
<1>6. WsTypes'
  <2>1. inbox' \in [Session -> Seq(Nat)]
    BY <1>0, <1>1, <1>3 DEF WsTypes, m
  <2>. QED  BY <1>0, <1>2, <1>3, <2>1 DEF WsTypes
<1>7. ASSUME NEW q \in Process PROVE LineOK(q)'
  <2>1. LineOK(q)
    BY DEF WsOK
  <2>2. CASE q = p
    BY <1>2, <1>3, <2>1, <2>2 DEF LineOK, m
  <2>3. CASE q # p
    BY <1>2, <1>3, <2>1, <2>3 DEF LineOK
  <2>. QED  BY <2>2, <2>3
<1>8. ASSUME NEW r \in Session PROVE BoxOK(r)'
  <2>1. BoxOK(r)
    BY DEF WsOK
  <2>2. CASE r = s /\ conn[s] = p
    <3> DEFINE b == inbox[r]
               c == inbox'[r]
    <3>1. b \in Seq(Nat) /\ c = Append(b, m)
      BY <1>0, <1>5, <2>2 DEF WsTypes
    <3>2. /\ \A k \in DOMAIN b : b[k] \in 1 .. Len(sent) /\ Home[r] = sent[b[k]].tenant /\ b[k] < m
          /\ \A k \in DOMAIN b : k > 1 => b[k - 1] < b[k]
          /\ \A k \in DOMAIN b, j \in DOMAIN feed[p] : b[k] < feed[p][j]
      BY <1>1, <2>1, <2>2 DEF BoxOK, m
    <3>. HIDE DEF b, c
    <3>3. \A k \in DOMAIN c : (k \in DOMAIN b /\ c[k] = b[k]) \/ (k = Len(b) + 1 /\ c[k] = m)
      BY <1>3, <3>1
    <3>4. \A k \in DOMAIN c : c[k] \in 1 .. Len(sent) /\ Home[r] = sent[c[k]].tenant
      BY <1>4, <2>2, <3>2, <3>3
    <3>5. \A k \in DOMAIN c : k > 1 => c[k - 1] < c[k]
      <4> SUFFICES ASSUME NEW k \in DOMAIN c, k > 1 PROVE c[k - 1] < c[k]
        OBVIOUS
      <4>1. k - 1 \in DOMAIN b /\ c[k - 1] = b[k - 1]
        BY <1>3, <3>1
      <4>. QED  BY <3>2, <3>3, <4>1
    <3>6. \A k \in DOMAIN c, j \in DOMAIN feed[p] : c[k] < feed[p][j]
      BY <1>4, <3>2, <3>3
    <3>7. s \notin aim'[p].left /\ conn'[r] = p /\ feed'[p] = feed[p] /\ stage' = stage /\ sent' = sent
      BY <1>2, <1>3, <2>2
    <3>8. p # None /\ stage[p] \notin {"off", "starting"}
      BY <2>1, <2>2, ProcessesAssumption DEF BoxOK
    <3>. QED  BY <2>2, <3>4, <3>5, <3>6, <3>7, <3>8 DEF BoxOK, c
  <2>3. CASE ~ (r = s /\ conn[s] = p)
    <3>1. inbox'[r] = inbox[r]
      BY <1>5, <2>3
    <3>2. conn[r] \in Process => /\ aim'[conn[r]].message = aim[conn[r]].message
                                 /\ r \in aim'[conn[r]].left => r \in aim[conn[r]].left
      BY <1>3 DEF m
    <3>. QED  BY <1>2, <2>1, <3>1, <3>2 DEF BoxOK
  <2>. QED  BY <2>2, <2>3
<1>9. ASSUME NEW r \in Session, NEW k \in Nat, <<r, k>> \in due' PROVE DueOK(r, k)'
  <2>1. DueOK(r, k)
    BY <1>2, <1>9 DEF WsOK
  <2>2. (\E j \in DOMAIN inbox[r] : inbox[r][j] = k) => \E j \in DOMAIN inbox'[r] : inbox'[r][j] = k
    <3>1. inbox[r] \in Seq(Nat)
      BY <1>0 DEF WsTypes
    <3>2. inbox'[r] = Append(inbox[r], m) \/ inbox'[r] = inbox[r]
      BY <1>5
    <3> DEFINE f == inbox[r]
               g == inbox'[r]
    <3>3. f \in Seq(Nat) /\ (g = f \/ g = Append(f, m))
      BY <3>1, <3>2
    <3>. HIDE DEF f, g
    <3>4. \A j \in DOMAIN f : j \in DOMAIN g /\ g[j] = f[j]
      <4>1. CASE g = f
        BY <4>1
      <4>2. CASE g = Append(f, m)
        <5>1. f \in Seq(Nat) /\ m \in Nat
          BY <1>3, <3>3
        <5>. QED  BY <4>2, <5>1, AppendFact
      <4>. QED  BY <3>3, <4>1, <4>2
    <3>. QED  BY <3>4 DEF f, g
  <2>3. ASSUME aim[conn[r]].message = k, r \in aim[conn[r]].left
        PROVE  \/ \E j \in DOMAIN inbox'[r] : inbox'[r][j] = k
               \/ aim'[conn[r]].message = k /\ r \in aim'[conn[r]].left
    <3>1. CASE r = s /\ conn[r] = p
      <4>1. inbox[r] \in Seq(Nat) /\ inbox'[r] = Append(inbox[r], m) /\ m = k
        BY <1>0, <1>5, <2>3, <3>1 DEF WsTypes, m
      <4>2. Len(inbox[r]) + 1 \in DOMAIN inbox'[r] /\ inbox'[r][Len(inbox[r]) + 1] = k
        BY <1>3, <4>1
      <4>. QED  BY <4>2
    <3>2. CASE r # s \/ conn[r] # p
      BY <1>3, <2>1, <2>3, <3>2 DEF DueOK, m
    <3>. QED  BY <3>1, <3>2
  <2>. QED  BY <1>2, <2>1, <2>2, <2>3 DEF DueOK, Addressed
<1>. QED  BY <1>6, <1>7, <1>8, <1>9 DEF WsOK

LEMMA WsSent ==
  ASSUME LifeOK, WsOK, NEW p \in Process, Sent(p)
  PROVE  WsOK'
<1>0. WsTypes /\ LifeTypes
  BY DEF WsOK, LifeOK
<1>1. /\ aim[p].left = {} /\ ear' = [ear EXCEPT ![p] = "waiting"] /\ aim' = [aim EXCEPT ![p] = NoAim]
      /\ stage' = stage /\ feed' = feed /\ conn' = conn /\ sent' = sent /\ inbox' = inbox /\ due' = due
      /\ cancelled' = cancelled
  BY DEF Sent, processVars, signVars
<1>2. /\ aim'[p].left = {} /\ \A q \in Process \ {p} : aim'[q] = aim[q] /\ ear'[q] = ear[q]
      /\ aim' \in [Process -> [message : Nat, left : SUBSET Session]]
  BY <1>0, <1>1 DEF WsTypes, LifeTypes, NoAim
<1>3. WsTypes'
  BY <1>0, <1>1, <1>2 DEF WsTypes
<1>4. ASSUME NEW q \in Process PROVE LineOK(q)'
  <2>1. CASE q = p
    BY <1>1, <1>2, <2>1 DEF WsOK, LineOK
  <2>2. CASE q # p
    BY <1>1, <1>2, <2>2 DEF WsOK, LineOK
  <2>. QED  BY <2>1, <2>2
<1>5. \A s \in Session : BoxOK(s)'
  BY <1>1, <1>2 DEF WsOK, BoxOK
<1>6. ASSUME NEW s \in Session, NEW m \in Nat, <<s, m>> \in due' PROVE DueOK(s, m)'
  <2>1. DueOK(s, m)
    BY <1>1, <1>6 DEF WsOK
  <2>. QED  BY <1>1, <1>2, <2>1 DEF DueOK, Addressed
<1>. QED  BY <1>3, <1>4, <1>5, <1>6 DEF WsOK

LEMMA WsStep == LifeOK /\ WsOK /\ [LifeNext]_lifeVars => WsOK'
<1> SUFFICES ASSUME LifeOK, WsOK, [LifeNext]_lifeVars PROVE WsOK'
  OBVIOUS
<1>1. CASE UNCHANGED lifeVars
  BY <1>1, WsRests DEF lifeVars, processVars, signVars, wsVars
<1>2. ASSUME NEW p \in Process, Proceeds(p) \/ Listens(p) \/ Happens(p) PROVE WsOK'
  BY <1>2, WsProcess, WsStops, WsPublishes, WsListens, WsWrites, WsSent DEF Proceeds, Listens, Happens
<1>3. ASSUME NEW s \in Session, (\E p \in Process : Mount(p, s)) \/ Leave(s) \/ Stall(s) PROVE WsOK'
  BY <1>3, WsSession
<1>. QED  BY <1>1, <1>2, <1>3 DEF LifeNext

\* For any number of processes, sessions, tenants and messages, and whatever they
\* overlap with: a session gets messages of its tenant only, in the order they
\* were published and none twice; and none that was published while its process
\* ran is lost on the way, unless with the connection, the session or the process
\* (broadcaster.go:75,107, hub.go:109).
THEOREM MessagesReachSessions == LifeSpec => []MessagesArrive
<1>1. WsOK => MessagesArrive
  <2> SUFFICES ASSUME WsOK PROVE MessagesArrive
    OBVIOUS
  <2>1. \A s \in Session : \A k \in DOMAIN inbox[s] :
          /\ Home[s] = sent[inbox[s][k]].tenant
          /\ k > 1 => inbox[s][k - 1] < inbox[s][k]
    BY DEF WsOK, BoxOK
  <2>2. ASSUME NEW d \in due
        PROVE  \/ \E k \in DOMAIN inbox[d[1]] : inbox[d[1]][k] = d[2]
               \/ \E k \in DOMAIN feed[conn[d[1]]] : feed[conn[d[1]]][k] = d[2]
               \/ aim[conn[d[1]]].message = d[2] /\ d[1] \in aim[conn[d[1]]].left
    <3>1. d[1] \in Session /\ d[2] \in Nat /\ d = <<d[1], d[2]>>
      BY DEF WsOK, WsTypes
    <3>2. DueOK(d[1], d[2])
      BY <3>1 DEF WsOK
    <3>. QED  BY <3>2 DEF DueOK
  <2>. QED  BY <2>1, <2>2 DEF MessagesArrive
<1>. QED  BY LifeInitially, LifeStep, WsInitially, WsStep, <1>1, PTL DEF LifeSpec
=============================================================================
