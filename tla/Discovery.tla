------------------------------ MODULE Discovery ------------------------------
(***************************************************************************)
(* The clients a process looks up other services with: one for each Nacos  *)
(* configuration, made when it is first needed and closed when the process *)
(* ends.  A mutex guards the table of clients and another one each client. *)
(***************************************************************************)
EXTENDS Requests

CONSTANTS Key,       \* configurations
          MaxClient  \* bound: clients made

ASSUME DiscoveryAssumption ==
  /\ None \notin Key /\ MaxClient \in Nat
  /\ "closer" \notin Proc \cup {None}

VARIABLES
  query,    \* query[p]: the progress of request p
  closer,   \* the progress of CloseDiscovery and the keys it has seen
  mu,       \* who holds the mutex of the table: a request, "closer" or None
  clients,  \* clients[k]: the number of the client of key k; 0 for none
  open,     \* the clients that are open
  owner     \* owner[c]: who holds the mutex of client c

discoVars == <<query, closer, mu, clients, open, owner>>

NoQuery == [at |-> "rest", key |-> None, client |-> 0]
NoCloser == [at |-> "rest", seen |-> {}]

QueryGoes(p, r) == query' = [query EXCEPT ![p] = r]

selectHealthy(p) ==
  /\ query[p] = NoQuery
  /\ \E k \in Key : QueryGoes(p, [NoQuery EXCEPT !.at = "table", !.key = k])
  /\ UNCHANGED <<closer, mu, clients, open, owner>>

LockTable(p) ==
  /\ query[p].at = "table" /\ mu = None
  /\ mu' = p
  /\ QueryGoes(p, [query[p] EXCEPT !.at = "find"])
  /\ UNCHANGED <<closer, clients, open, owner>>

Find(p) ==
  LET k == query[p].key IN
  /\ query[p].at = "find" /\ clients[k] # 0
  /\ QueryGoes(p, [query[p] EXCEPT !.at = "client", !.client = clients[k]])
  /\ UNCHANGED <<closer, mu, clients, open, owner>>

\* A client is made while the table is locked.
create(p) ==
  LET c == Len(owner) + 1 IN
  /\ query[p].at = "find" /\ clients[query[p].key] = 0 /\ c <= MaxClient
  /\ clients' = [clients EXCEPT ![query[p].key] = c]
  /\ open' = open \cup {c} /\ owner' = Append(owner, None)
  /\ QueryGoes(p, [query[p] EXCEPT !.at = "client", !.client = c])
  /\ UNCHANGED <<closer, mu>>

\* Mutant: the table stays locked.
CreateFailsLocked(p) ==
  /\ query[p].at = "find" /\ clients[query[p].key] = 0
  /\ QueryGoes(p, NoQuery)
  /\ UNCHANGED <<closer, mu, clients, open, owner>>
createFails(p) ==
  /\ query[p].at = "find" /\ clients[query[p].key] = 0
  /\ mu' = None
  /\ QueryGoes(p, NoQuery)
  /\ UNCHANGED <<closer, clients, open, owner>>

\* Mutant: the table is released before the client is locked.
ReleaseThenLock(p) ==
  /\ query[p].at = "client"
  /\ IF mu = p THEN mu' = None /\ UNCHANGED <<query, owner>>
     ELSE /\ owner[query[p].client] = None
          /\ owner' = [owner EXCEPT ![query[p].client] = p]
          /\ QueryGoes(p, [query[p] EXCEPT !.at = "ask"])
          /\ UNCHANGED mu
  /\ UNCHANGED <<closer, clients, open>>
\* Only then is the table released.
LockClient(p) ==
  LET c == query[p].client IN
  /\ query[p].at = "client" /\ owner[c] = None
  /\ owner' = [owner EXCEPT ![c] = p]
  /\ mu' = None
  /\ QueryGoes(p, [query[p] EXCEPT !.at = "ask"])
  /\ UNCHANGED <<closer, clients, open>>

\* The server answers, or five seconds pass.
SelectInstances(p) ==
  /\ query[p].at = "ask"
  /\ owner' = [owner EXCEPT ![query[p].client] = None]
  /\ QueryGoes(p, NoQuery)
  /\ UNCHANGED <<closer, mu, clients, open>>

\* The process ends: one client after the other, in any order, under both
\* mutexes.
CloseDiscovery ==
  /\ closer.at = "rest" /\ closer.seen = {}
  /\ closer' = [closer EXCEPT !.at = "table"]
  /\ UNCHANGED <<query, mu, clients, open, owner>>

CloserLocks ==
  /\ closer.at = "table" /\ mu = None
  /\ mu' = "closer"
  /\ closer' = [closer EXCEPT !.at = "close"]
  /\ UNCHANGED <<query, clients, open, owner>>

CloseClient ==
  /\ closer.at = "close"
  /\ \E k \in Key \ closer.seen :
       /\ clients[k] # 0 => owner[clients[k]] = None
       /\ closer' = [closer EXCEPT !.seen = @ \cup {k}]
       /\ clients' = [clients EXCEPT ![k] = 0]
       /\ open' = open \ {clients[k]}
  /\ UNCHANGED <<query, mu, owner>>

Closed ==
  /\ closer.at = "close" /\ closer.seen = Key
  /\ mu' = None
  /\ closer' = [closer EXCEPT !.at = "rest"]
  /\ UNCHANGED <<query, clients, open, owner>>

DiscoInit ==
  /\ query = [p \in Proc |-> NoQuery] /\ closer = NoCloser /\ mu = None
  /\ clients = [k \in Key |-> 0] /\ open = {} /\ owner = <<>>

Looks(p) == Find(p) \/ create(p) \/ createFails(p) \/ SelectInstances(p)

DiscoNext ==
  \/ \E p \in Proc : selectHealthy(p) \/ LockTable(p) \/ LockClient(p) \/ Looks(p)
  \/ CloseDiscovery \/ CloserLocks \/ CloseClient \/ Closed

\* A query takes five seconds at most, and no goroutine waits for ever for a
\* mutex that is released again and again.
DiscoFairness ==
  /\ \A p \in Proc : WF_discoVars(Looks(p)) /\ SF_discoVars(LockTable(p)) /\ SF_discoVars(LockClient(p))
  /\ SF_discoVars(CloserLocks) /\ WF_discoVars(CloseClient \/ Closed)

DiscoSpec == DiscoInit /\ [][DiscoNext]_discoVars /\ DiscoFairness

-----------------------------------------------------------------------------
(* Properties *)

\* Types; a request that holds the mutex of the table is at a place where it does.
DiscoTypeOK ==
  /\ \A p \in Proc : query[p] \in [at : {"rest", "table", "find", "client", "ask"},
                                   key : Key \cup {None}, client : 0 .. Len(owner)]
  /\ clients \in [Key -> 0 .. Len(owner)] /\ open \subseteq 1 .. Len(owner)
  /\ mu \in Proc \cup {None, "closer"}
  /\ mu \in Proc => query[mu].at \in {"find", "client"}

\* Nobody asks a client that was closed or closes one that is asked, although
\* the table is released while a query runs; and all that share a configuration
\* share one client: no more are open than the table holds (registry.go:184,215,235).
ClientsShared ==
  /\ \A p \in Proc : query[p].at = "ask" => query[p].client \in open /\ owner[query[p].client] = p
  /\ \A c \in open : \E k \in Key : clients[k] = c

\* Every query comes to its end, and so does CloseDiscovery: two kinds of
\* mutexes, always taken in the same order (registry.go:202,235).
QueriesEnd ==
  /\ \A p \in Proc : query[p] # NoQuery ~> query[p] = NoQuery
  /\ closer.at # "rest" ~> closer.at = "rest"
=============================================================================
