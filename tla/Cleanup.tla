------------------------------- MODULE Cleanup -------------------------------
(***************************************************************************)
(* The daily cleanup: every process tries, one deletes.  The lock belongs  *)
(* to a session of MySQL, which goes back to the pool of its process       *)
(* afterwards, where any request may get it.                               *)
(***************************************************************************)
EXTENDS Processes

CONSTANTS Sess,          \* sessions of MySQL
          Tables,        \* tables that are cleaned
          MaxExpired,    \* bound: expired rows of a table at one time
          deleteLimit, maxBatchCount

ASSUME CleanupAssumption ==
  /\ None \notin Sess /\ MaxExpired \in Nat /\ Tables \in Nat \ {0}
  /\ deleteLimit \in Nat \ {0} /\ maxBatchCount \in Nat \ {0}

VARIABLES
  cleaner,   \* cleaner[p]: the cleanup of process p
  pool,      \* pool[p]: its idle sessions
  shut,      \* processes that have closed their pool
  ended,     \* sessions a process uses although the server has ended them
  closing,   \* sessions a process has closed and the server has not
  lock,      \* the session that holds the lock
  expired    \* expired[t]: rows of table t to delete

cleanVars == <<cleaner, pool, shut, ended, closing, lock, expired>>

NoCleaner == [at |-> "rest", sess |-> None, table |-> 1, batch |-> 0]

Used == ({cleaner[p].sess : p \in Process} \ {None}) \cup (UNION {pool[p] : p \in Process}) \cup closing

CleanerGoes(p, c) == cleaner' = [cleaner EXCEPT ![p] = c]

\* The session goes back to the pool; a pool that is closed closes it.
Close(p) ==
  LET living == {cleaner[p].sess} \ ended IN
  /\ pool' = [pool EXCEPT ![p] = IF p \in shut THEN @ ELSE @ \cup living]
  /\ closing' = IF p \in shut THEN closing \cup living ELSE closing
  /\ ended' = ended \ {cleaner[p].sess}
  /\ UNCHANGED shut

\* The session is closed; the server notices later.
discardConnection(p) ==
  /\ closing' = closing \cup ({cleaner[p].sess} \ ended)
  /\ ended' = ended \ {cleaner[p].sess}
  /\ UNCHANGED <<pool, shut>>

\* A session of the pool or a new one.
Conn(p) ==
  /\ cleaner[p] = NoCleaner /\ p \notin shut
  /\ \E s \in pool[p] \cup (Sess \ Used) :
       /\ CleanerGoes(p, [NoCleaner EXCEPT !.at = "lock", !.sess = s])
       /\ pool' = [pool EXCEPT ![p] = @ \ {s}]
  /\ UNCHANGED <<shut, ended, closing, lock, expired>>

\* The name of the database cannot be read.
GivesUp(p) ==
  /\ cleaner[p].at = "lock"
  /\ CleanerGoes(p, NoCleaner)
  /\ Close(p)
  /\ UNCHANGED <<lock, expired>>

Locked(p) ==
  LET s == cleaner[p].sess IN
  /\ cleaner[p].at = "lock" /\ s \notin ended /\ lock \in {None, s}
  /\ lock' = s
  /\ CleanerGoes(p, [cleaner[p] EXCEPT !.at = "delete"])
  /\ UNCHANGED <<pool, shut, ended, closing, expired>>

\* Another session has the lock: not this time.
Skips(p) ==
  /\ cleaner[p].at = "lock" /\ cleaner[p].sess \notin ended
  /\ lock \notin {None, cleaner[p].sess}
  /\ CleanerGoes(p, NoCleaner)
  /\ Close(p)
  /\ UNCHANGED <<lock, expired>>

\* No answer, or none that says what happened: the server may have granted it.
LockFails(p) ==
  LET s == cleaner[p].sess IN
  /\ cleaner[p].at = "lock"
  /\ lock' \in {lock} \cup (IF lock = None /\ s \notin ended THEN {s} ELSE {})
  /\ CleanerGoes(p, NoCleaner)
  /\ discardConnection(p)
  /\ UNCHANGED expired

\* Mutant: batches are not counted.
Uncounted(c, n) ==
  IF n = deleteLimit THEN c
  ELSE IF c.table < Tables THEN [c EXCEPT !.table = @ + 1, !.batch = 0]
  ELSE [c EXCEPT !.at = "release"]
\* The next batch, the next table or the end, after n rows.
accumulate(c, n) ==
  IF n = deleteLimit /\ c.batch + 1 < maxBatchCount THEN [c EXCEPT !.batch = @ + 1]
  ELSE IF c.table < Tables THEN [c EXCEPT !.table = @ + 1, !.batch = 0]
  ELSE [c EXCEPT !.at = "release"]

DeleteBatch(p) ==
  LET t == cleaner[p].table
      n == IF expired[t] < deleteLimit THEN expired[t] ELSE deleteLimit
  IN
  /\ cleaner[p].at = "delete" /\ cleaner[p].sess \notin ended
  /\ expired' = [expired EXCEPT ![t] = @ - n]
  /\ CleanerGoes(p, accumulate(cleaner[p], n))
  /\ UNCHANGED <<pool, shut, ended, closing, lock>>

\* A statement fails, a session of the server has ended, or the process stops.
DeleteFails(p) ==
  /\ cleaner[p].at = "delete"
  /\ CleanerGoes(p, [cleaner[p] EXCEPT !.at = "release"])
  /\ UNCHANGED <<pool, shut, ended, closing, lock, expired>>

Unlocked(p) ==
  /\ cleaner[p].at = "release" /\ lock = cleaner[p].sess
  /\ lock' = None
  /\ CleanerGoes(p, NoCleaner)
  /\ Close(p)
  /\ UNCHANGED expired

\* Mutant: the session goes back to the pool in any case.
KeepsDoubtful(p) ==
  /\ cleaner[p].at = "release"
  /\ CleanerGoes(p, NoCleaner)
  /\ Close(p)
  /\ UNCHANGED <<lock, expired>>
\* The lock was not held any more, or the answer was lost after it was released
\* or before.
UnlockFails(p) ==
  LET s == cleaner[p].sess IN
  /\ cleaner[p].at = "release"
  /\ lock' \in {lock} \cup (IF lock = s THEN {None} ELSE {})
  /\ CleanerGoes(p, NoCleaner)
  /\ discardConnection(p)
  /\ UNCHANGED expired

\* The server ends a session: it was closed, or the connection broke.
Notice(s) ==
  /\ s \in closing
  /\ closing' = closing \ {s}
  /\ lock' = IF lock = s THEN None ELSE lock
  /\ UNCHANGED <<cleaner, pool, shut, ended, expired>>

Break(s) ==
  /\ \E p \in Process : cleaner[p].sess = s
  /\ s \notin ended
  /\ ended' = ended \cup {s}
  /\ lock' = IF lock = s THEN None ELSE lock
  /\ UNCHANGED <<cleaner, pool, shut, closing, expired>>

\* A start that fails and a shutdown close the pool while the loop of the jobs
\* goes on; what it is using stays open until it is given back.
CloseDB(p) ==
  /\ p \notin shut
  /\ shut' = shut \cup {p}
  /\ closing' = closing \cup pool[p]
  /\ pool' = [pool EXCEPT ![p] = {}]
  /\ UNCHANGED <<cleaner, ended, lock, expired>>

\* The process dies, and its sessions are closed.
Die(p) ==
  /\ cleaner[p] # NoCleaner \/ pool[p] # {} \/ p \in shut
  /\ shut' = shut \ {p}
  /\ closing' = closing \cup pool[p] \cup ({cleaner[p].sess} \ (ended \cup {None}))
  /\ ended' = ended \ {cleaner[p].sess}
  /\ pool' = [pool EXCEPT ![p] = {}]
  /\ CleanerGoes(p, NoCleaner)
  /\ UNCHANGED <<lock, expired>>

Expires(t) ==
  /\ expired[t] < MaxExpired
  /\ expired' = [expired EXCEPT ![t] = @ + 1]
  /\ UNCHANGED <<cleaner, pool, shut, ended, closing, lock>>

CleanInit ==
  /\ cleaner = [p \in Process |-> NoCleaner]
  /\ pool = [p \in Process |-> {}]
  /\ ended = {} /\ closing = {} /\ lock = None /\ shut = {}
  /\ expired = [t \in 1 .. Tables |-> 0]

CleanerStep(p) ==
  \/ GivesUp(p) \/ Locked(p) \/ Skips(p) \/ LockFails(p) \/ DeleteBatch(p) \/ DeleteFails(p)
  \/ Unlocked(p) \/ UnlockFails(p)

CleanNext ==
  \/ \E p \in Process : Conn(p) \/ CleanerStep(p) \/ CloseDB(p) \/ Die(p)
  \/ \E s \in Sess : Notice(s) \/ Break(s)
  \/ \E t \in 1 .. Tables : Expires(t)

\* A cleanup goes on: every statement ends, the release after five seconds at the
\* latest; and the server notices that a connection was closed.
CleanFairness ==
  /\ \A p \in Process : WF_cleanVars(CleanerStep(p))
  /\ \A s \in Sess : WF_cleanVars(Notice(s))

CleanSpec == CleanInit /\ [][CleanNext]_cleanVars /\ CleanFairness

-----------------------------------------------------------------------------
(* Properties *)

\* Types; no session is in two places.
CleanTypeOK ==
  /\ cleaner \in [Process -> [at : {"rest", "lock", "delete", "release"}, sess : Sess \cup {None},
                              table : 1 .. Tables, batch : 0 .. maxBatchCount - 1]]
  /\ pool \in [Process -> SUBSET Sess] /\ closing \subseteq Sess /\ shut \subseteq Process /\ lock \in Sess \cup {None}
  /\ ended \subseteq {cleaner[p].sess : p \in Process}
  /\ expired \in [1 .. Tables -> 0 .. MaxExpired]
  /\ \A p, q \in Process : p # q => /\ cleaner[p].sess # cleaner[q].sess \/ cleaner[p].sess = None
                                    /\ pool[p] \cap pool[q] = {}

\* Whatever breaks: who deletes on a living session has the lock, so that no two
\* processes do; and no session in a pool has it, nor one that nobody would
\* release (clean.go:54,74,89,114).
OneCleaner ==
  /\ \A p \in Process : cleaner[p].at = "delete" /\ cleaner[p].sess \notin ended => lock = cleaner[p].sess
  /\ lock # None => \/ lock \in closing
                    \/ \E p \in Process : cleaner[p].sess = lock /\ cleaner[p].at \in {"delete", "release"}

\* The lock is always given back, also when rows expire as fast as they are
\* deleted (clean.go:18,151).
LockIsGivenBack == lock # None ~> lock = None
=============================================================================
