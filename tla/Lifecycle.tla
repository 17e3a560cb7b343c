----------------------------- MODULE Lifecycle -----------------------------
(***************************************************************************)
(* The processes of the system: how one opens what it needs, serves, is    *)
(* listed by Nacos and stops; and how a message published through Redis    *)
(* reaches the WebSocket sessions of all of them.                          *)
(***************************************************************************)
EXTENDS Processes

CONSTANTS Steady,      \* bound: processes that run and take connections all the time
          Session, Tenant,
          Home,        \* the tenant of each session
          MaxMessage,  \* messages that are published
          registerMaxAttempts

ASSUME LifecycleAssumption ==
  /\ Steady \subseteq Process /\ None \notin Session
  /\ "gone" \notin Process \cup {None}
  /\ Home \in [Session -> Tenant] /\ MaxMessage \in Nat /\ registerMaxAttempts \in Nat \ {0}

VARIABLES
  stage,    \* stage[p]: how far process p has started or stopped
  held,     \* held[p]: what p holds open
  tries,    \* tries[p]: attempts to register in this start
  busy,     \* processes with a request under way
  listed,   \* processes that Nacos lists
  beating,  \* processes whose Nacos client keeps the listing alive
  ear,      \* ear[p]: the loop that listens to Redis
  feed,     \* feed[p]: messages on their way from Redis to p
  aim,      \* aim[p]: the message p is writing and the sessions still to be written
  conn,     \* conn[s]: the process session s is connected to, or "gone"
  stalled,  \* sessions whose client does not read
  sent,     \* the messages published
  inbox,    \* inbox[s]: the messages session s has got
  cancelled, \* processes told to stop: their context is cancelled
  deaf,     \* processes whose server takes no more connections, as Serve failed
  late,     \* history: processes that stopped before their last request ended
  due       \* history: <<s, m>>: session s has to get message m

wsVars == <<feed, aim, conn, stalled, sent, inbox, due>>
signVars == <<cancelled, deaf>>
processVars == <<stage, held, tries, busy, listed, beating, late, signVars>>
lifeVars == <<processVars, ear, wsVars>>

NoAim == [message |-> 0, left |-> {}]

Goes(p, s) == stage' = [stage EXCEPT ![p] = s]

-----------------------------------------------------------------------------
(* Starting *)

\* What Start opens, in this order; "port" takes connections once "http" serves.
Order == <<"db", "redis", "port", "sub", "http">>
All == {"db", "redis", "port", "sub", "http"}

Boot(p) ==
  /\ stage[p] = "off"
  /\ Goes(p, "starting")
  /\ UNCHANGED <<held, tries, busy, listed, beating, late, ear, wsVars, signVars>>

\* After HTTP, the registration with Nacos if it is configured.
Open(p) ==
  LET r == Order[1 + Cardinality(held[p])] IN
  /\ stage[p] = "starting"
  /\ held' = [held EXCEPT ![p] = @ \cup {r}]
  /\ ear' = IF r = "sub" THEN [ear EXCEPT ![p] = "waiting"] ELSE ear
  /\ IF held'[p] = All THEN Goes(p, "registering") \/ Goes(p, "running") ELSE UNCHANGED stage
  /\ UNCHANGED <<tries, busy, listed, beating, late, wsVars, signVars>>

\* Whatever was open is closed again and the process ends.  Once subscribed, Start
\* serves in the background and fails no more before it registers.
OpenFails(p) ==
  /\ stage[p] = "starting" /\ "sub" \notin held[p]
  /\ held' = [held EXCEPT ![p] = {}]
  /\ cancelled' = cancelled \ {p}
  /\ Goes(p, "off")
  /\ UNCHANGED <<tries, busy, listed, beating, late, deaf, ear, wsVars>>

\* Serve returns an error, which is only logged: the port is closed, the requests
\* and sessions of open connections go on, and so does the registration.
ServeFails(p) ==
  /\ {"port", "http"} \subseteq held[p] /\ p \notin Steady
  /\ held' = [held EXCEPT ![p] = @ \ {"port"}]
  /\ deaf' = deaf \cup {p}
  /\ UNCHANGED <<stage, tries, busy, listed, beating, late, cancelled, ear, wsVars>>

Registered(p) ==
  /\ stage[p] = "registering"
  /\ listed' = listed \cup {p} /\ beating' = beating \cup {p}
  /\ tries' = [tries EXCEPT ![p] = 0]
  /\ Goes(p, "running")
  /\ UNCHANGED <<held, busy, late, ear, wsVars, signVars>>

\* A transient failure is tried again.  The client of the library may get the
\* instance listed on its own, once it has reconnected.
RegisterRetries(p) ==
  /\ stage[p] = "registering" /\ tries[p] + 1 < registerMaxAttempts
  /\ tries' = [tries EXCEPT ![p] = @ + 1]
  /\ \E on \in SUBSET {p} : listed' = listed \cup on /\ beating' = beating \cup on
  /\ UNCHANGED <<stage, held, busy, late, ear, wsVars, signVars>>

\* Refused, another error, or the last attempt: the client is closed first.
RegisterFails(p) ==
  /\ stage[p] = "registering"
  /\ \E on \in SUBSET {p} : listed' = listed \cup on
  /\ beating' = beating \ {p}
  /\ tries' = [tries EXCEPT ![p] = 0]
  /\ Goes(p, "abort")
  /\ UNCHANGED <<held, busy, late, ear, wsVars, signVars>>

\* The HTTP server is closed without waiting for its requests.
Abort(p) ==
  /\ stage[p] = "abort"
  /\ held' = [held EXCEPT ![p] = @ \ {"port", "http"}]
  /\ late' = late \cup (busy \cap {p})
  /\ due' = {d \in due : conn[d[1]] # p}
  /\ Goes(p, "silence")
  /\ UNCHANGED <<tries, busy, listed, beating, ear, feed, aim, conn, stalled, sent, inbox, signVars>>

-----------------------------------------------------------------------------
(* Stopping: a signal cancels the context of the process. *)

\* At any stage.  From now on p may not hear what is published.
Signal(p) ==
  /\ stage[p] # "off" /\ p \notin Steady \cup cancelled
  /\ cancelled' = cancelled \cup {p}
  /\ due' = {d \in due : conn[d[1]] # p}
  /\ UNCHANGED <<stage, held, tries, busy, listed, beating, late, deaf, ear, feed, aim, conn,
                 stalled, sent, inbox>>

\* A start that has gone through all the same is stopped at once.
Shutdown(p) ==
  /\ stage[p] = "running" /\ p \in cancelled
  /\ Goes(p, "deregister")
  /\ UNCHANGED <<held, tries, busy, listed, beating, late, signVars, ear, wsVars>>

\* The client is closed whatever Nacos says, or the listing would come back.
Deregister(p) ==
  /\ stage[p] = "deregister"
  /\ \E gone \in SUBSET {p} : listed' = listed \ gone
  /\ beating' = beating \ {p}
  /\ held' = [held EXCEPT ![p] = @ \ {"port"}]
  /\ Goes(p, "drain")
  /\ UNCHANGED <<tries, busy, late, ear, wsVars, signVars>>

Drain(p) ==
  /\ stage[p] = "drain" /\ p \notin busy
  /\ held' = [held EXCEPT ![p] = @ \ {"http"}]
  /\ Goes(p, "silence")
  /\ UNCHANGED <<tries, busy, listed, beating, late, ear, wsVars, signVars>>

\* After five seconds it does not wait any longer.
DrainTimesOut(p) ==
  /\ stage[p] = "drain" /\ p \in busy
  /\ late' = late \cup {p}
  /\ held' = [held EXCEPT ![p] = @ \ {"http"}]
  /\ Goes(p, "silence")
  /\ UNCHANGED <<tries, busy, listed, beating, ear, wsVars, signVars>>

\* The subscription is closed first, then the listener is waited for.
CloseBroadcaster(p) ==
  /\ stage[p] = "silence"
  /\ held' = [held EXCEPT ![p] = @ \ {"sub"}]
  /\ feed' = [feed EXCEPT ![p] = <<>>]
  /\ Goes(p, "wait")
  /\ UNCHANGED <<tries, busy, listed, beating, late, ear, aim, conn, stalled, sent, inbox, due, signVars>>

\* Mutant: nobody waits for the listener.
WaitForNobody(p) ==
  /\ stage[p] = "wait"
  /\ Goes(p, "close")
  /\ UNCHANGED <<held, tries, busy, listed, beating, late, ear, wsVars, signVars>>
WaitForListener(p) ==
  /\ stage[p] = "wait" /\ ear[p] = "off"
  /\ Goes(p, "close")
  /\ UNCHANGED <<held, tries, busy, listed, beating, late, ear, wsVars, signVars>>

\* The listener ends when it next reads: its context is cancelled and its
\* subscription closed.
Quit(p) ==
  /\ stage[p] = "wait" /\ ear[p] = "waiting"
  /\ ear' = [ear EXCEPT ![p] = "off"]
  /\ UNCHANGED <<processVars, wsVars>>

\* Or before that, if the connection to Redis breaks once the context is cancelled.
QuitsEarly(p) ==
  /\ p \in cancelled /\ ear[p] = "waiting"
  /\ ear' = [ear EXCEPT ![p] = "off"]
  /\ feed' = [feed EXCEPT ![p] = <<>>]
  /\ UNCHANGED <<processVars, aim, conn, stalled, sent, inbox, due>>

\* Redis and MySQL are closed and the process ends, or it is killed: what it
\* did ends with it.
Ends(p) ==
  /\ Goes(p, "off")
  /\ held' = [held EXCEPT ![p] = {}]
  /\ tries' = [tries EXCEPT ![p] = 0]
  /\ busy' = busy \ {p} /\ beating' = beating \ {p} /\ late' = late \ {p}
  /\ cancelled' = cancelled \ {p} /\ deaf' = deaf \ {p}
  /\ ear' = [ear EXCEPT ![p] = "off"]
  /\ feed' = [feed EXCEPT ![p] = <<>>]
  /\ aim' = [aim EXCEPT ![p] = NoAim]
  /\ conn' = [s \in Session |-> IF conn[s] = p THEN "gone" ELSE conn[s]]
  /\ stalled' = {s \in stalled : conn[s] # p}
  /\ due' = {d \in due : conn[d[1]] # p}
  /\ UNCHANGED <<listed, sent, inbox>>

CloseStores(p) ==
  /\ stage[p] = "close"
  /\ IF "db" \in held[p]
     THEN /\ held' = [held EXCEPT ![p] = {}]
          /\ UNCHANGED <<stage, tries, busy, listed, beating, late, ear, wsVars, signVars>>
     ELSE Ends(p)

Crash(p) == stage[p] # "off" /\ p \notin Steady /\ Ends(p)

\* Nacos drops an instance that does not beat.
Expire(p) ==
  /\ p \in listed \ beating
  /\ listed' = listed \ {p}
  /\ UNCHANGED <<stage, held, tries, busy, beating, late, ear, wsVars, signVars>>

-----------------------------------------------------------------------------
(* Requests and sessions *)

\* Also on open connections, but not while the server shuts down.
Accepts(p) == "http" \in held[p] /\ stage[p] # "drain"

TakeRequest(p) ==
  /\ Accepts(p) /\ p \notin busy
  /\ busy' = busy \cup {p}
  /\ UNCHANGED <<stage, held, tries, listed, beating, late, ear, wsVars, signVars>>

EndRequest(p) ==
  /\ p \in busy
  /\ busy' = busy \ {p} /\ late' = late \ {p}
  /\ UNCHANGED <<stage, held, tries, listed, beating, ear, wsVars, signVars>>

\* Who connects again gets a new session.
Mount(p, s) ==
  /\ Accepts(p) /\ conn[s] = None
  /\ conn' = [conn EXCEPT ![s] = p]
  /\ UNCHANGED <<processVars, ear, feed, aim, stalled, sent, inbox, due>>

Leave(s) ==
  /\ conn[s] \in Process
  /\ conn' = [conn EXCEPT ![s] = "gone"]
  /\ stalled' = stalled \ {s}
  /\ due' = {d \in due : d[1] # s}
  /\ UNCHANGED <<processVars, ear, feed, aim, sent, inbox>>

\* The write to a client that does not read blocks, until it reads again.
Stall(s) ==
  /\ conn[s] \in Process /\ s \in aim[conn[s]].left
  /\ stalled' = IF s \in stalled THEN stalled \ {s} ELSE stalled \cup {s}
  /\ UNCHANGED <<processVars, ear, feed, aim, conn, sent, inbox, due>>

-----------------------------------------------------------------------------
(* Messages: to every session of a tenant or, if .to is one, to that. *)

\* Mutant: a message for a session goes to it, whatever its tenant.
AnySession(m) == IF m.to = None THEN {s \in Session : Home[s] = m.tenant} ELSE {m.to}
Addressed(m) == {s \in Session : Home[s] = m.tenant /\ m.to \in {None, s}}

Subscribers == {p \in Process : "sub" \in held[p] /\ ear[p] # "off"}

\* The processes that promise to hear what is published.
Serves(p) == stage[p] \in {"starting", "registering", "running", "abort"} /\ p \notin cancelled

\* A request publishes; without a subscriber its sender gets an error.  From
\* then on the message is due to the sessions of processes that run.
publishRequest(p) ==
  /\ p \in busy \ late /\ Len(sent) < MaxMessage /\ Subscribers # {}
  /\ \E t \in Tenant, to \in {None} \cup Session :
       LET m == [tenant |-> t, to |-> to] IN
       /\ sent' = Append(sent, m)
       /\ due' = due \cup {<<s, Len(sent')>> : s \in {r \in Addressed(m) :
                               conn[r] \in Process /\ Serves(conn[r])}}
  /\ feed' = [q \in Process |-> IF q \in Subscribers THEN Append(feed[q], Len(sent')) ELSE feed[q]]
  /\ UNCHANGED <<processVars, ear, aim, conn, stalled, inbox>>

\* The connection to Redis breaks and is made anew: what was on its way is lost.
LoseFeed(p) ==
  /\ feed[p] # <<>>
  /\ feed' = [feed EXCEPT ![p] = <<>>]
  /\ due' = {d \in due : conn[d[1]] = p => \A k \in DOMAIN feed[p] : feed[p][k] # d[2]}
  /\ UNCHANGED <<processVars, ear, aim, conn, stalled, sent, inbox>>

\* The sessions are chosen when a message arrives, and written one by one.
listen(p) ==
  /\ ear[p] = "waiting" /\ feed[p] # <<>>
  /\ LET m == Head(feed[p]) IN
     aim' = [aim EXCEPT ![p] = [message |-> m, left |-> {s \in Addressed(sent[m]) : conn[s] = p}]]
  /\ feed' = [feed EXCEPT ![p] = Tail(@)]
  /\ ear' = [ear EXCEPT ![p] = "writing"]
  /\ UNCHANGED <<processVars, conn, stalled, sent, inbox, due>>

\* A write to a session that has left is an error that is logged.
send(p) ==
  /\ ear[p] = "writing"
  /\ \E s \in aim[p].left \ stalled :
       /\ aim' = [aim EXCEPT ![p].left = @ \ {s}]
       /\ inbox' = IF conn[s] = p THEN [inbox EXCEPT ![s] = Append(@, aim[p].message)] ELSE inbox
  /\ UNCHANGED <<processVars, ear, feed, conn, stalled, sent, due>>

Sent(p) ==
  /\ ear[p] = "writing" /\ aim[p].left = {}
  /\ ear' = [ear EXCEPT ![p] = "waiting"]
  /\ aim' = [aim EXCEPT ![p] = NoAim]
  /\ UNCHANGED <<processVars, feed, conn, stalled, sent, inbox, due>>

-----------------------------------------------------------------------------
(* The specification *)

LifeInit ==
  /\ stage = [p \in Process |-> IF p \in Steady THEN "running" ELSE "off"]
  /\ held = [p \in Process |-> IF p \in Steady THEN All ELSE {}]
  /\ tries = [p \in Process |-> 0]
  /\ busy = {} /\ listed = {} /\ beating = {} /\ late = {} /\ cancelled = {} /\ deaf = {}
  /\ ear = [p \in Process |-> IF p \in Steady THEN "waiting" ELSE "off"]
  /\ feed = [p \in Process |-> <<>>]
  /\ aim = [p \in Process |-> NoAim]
  /\ conn = [s \in Session |-> None] /\ stalled = {}
  /\ sent = <<>> /\ inbox = [s \in Session |-> <<>>] /\ due = {}

\* What a process does of itself, unless it is killed.
Proceeds(p) ==
  \/ Open(p) \/ OpenFails(p) \/ Registered(p) \/ RegisterRetries(p) \/ RegisterFails(p)
  \/ Abort(p) \/ Shutdown(p) \/ Deregister(p) \/ Drain(p) \/ DrainTimesOut(p)
  \/ CloseBroadcaster(p) \/ WaitForListener(p) \/ CloseStores(p)
Listens(p) == Quit(p) \/ listen(p) \/ send(p) \/ Sent(p)
Happens(p) ==
  \/ Boot(p) \/ Signal(p) \/ Crash(p) \/ Expire(p) \/ ServeFails(p) \/ QuitsEarly(p)
  \/ TakeRequest(p) \/ EndRequest(p) \/ publishRequest(p) \/ LoseFeed(p)

LifeNext ==
  \/ \E p \in Process : Proceeds(p) \/ Listens(p) \/ Happens(p)
  \/ \E s \in Session : (\E p \in Process : Mount(p, s)) \/ Leave(s) \/ Stall(s)

\* Start and shutdown go on, the listener is scheduled and a blocked write goes on
\* when the client reads; nothing promises that a client reads, a request ends or a
\* message is published.
LifeFairness ==
  \A p \in Process : WF_lifeVars(Proceeds(p)) /\ WF_lifeVars(Listens(p)) /\ SF_lifeVars(send(p))

LifeSpec == LifeInit /\ [][LifeNext]_lifeVars /\ LifeFairness

-----------------------------------------------------------------------------
(* Properties *)

\* Types of the processes, the feeds and the sessions.
LifeTypeOK ==
  /\ stage \in [Process -> {"off", "starting", "registering", "running", "abort", "deregister",
                         "drain", "silence", "wait", "close"}]
  /\ held \in [Process -> SUBSET All] /\ tries \in [Process -> 0 .. registerMaxAttempts - 1]
  /\ late \subseteq busy /\ busy \cup listed \cup beating \cup deaf \subseteq Process
  /\ cancelled \subseteq {p \in Process \ Steady : stage[p] # "off"}
  /\ ear \in [Process -> {"off", "waiting", "writing"}]
  /\ conn \in [Session -> Process \cup {None, "gone"}] /\ stalled \subseteq Session
  /\ \A p \in Process : aim[p].left \subseteq Session /\ aim[p].message \in 0 .. Len(sent)

\* Whatever fails while processes start and stop, and whenever they are told to: an
\* instance that is listed and kept alive holds all it serves with, except the port
\* if Serve has failed (app.go:329), and listens to Redis, unless it was told to stop;
\* a request that Shutdown has not given up finds its stores open; and the listener
\* finds Redis open, also while Close waits for it (app.go:67,340,383,
\* broadcaster.go:134).
OrderlyLife ==
  \A p \in Process :
    /\ p \in listed \cap beating =>
         /\ All \subseteq held[p] \cup {r \in {"port"} : p \in deaf}
         /\ ear[p] # "off" \/ p \in cancelled
    /\ p \in busy \ late => {"db", "redis"} \subseteq held[p]
    /\ ear[p] # "off" => "redis" \in held[p]

\* A session gets only messages of its tenant, and none twice; and it gets every
\* one that was published while its process ran, unless the connection to Redis
\* broke, or the session or the process ended (broadcaster.go:75,107, hub.go:109).
MessagesArrive ==
  /\ \A s \in Session : \A k \in DOMAIN inbox[s] :
       /\ Home[s] = sent[inbox[s][k]].tenant
       /\ k > 1 => inbox[s][k - 1] < inbox[s][k]
  /\ \A d \in due : LET s == d[1] p == conn[s] IN
       \/ \E k \in DOMAIN inbox[s] : inbox[s][k] = d[2]
       \/ \E k \in DOMAIN feed[p] : feed[p][k] = d[2]
       \/ aim[p].message = d[2] /\ s \in aim[p].left

\* Every start succeeds or fails, also with a Nacos that never answers well; and
\* every process that is told to stop ends, also with requests that hang, unless the
\* listener writes to a client that does not read (nacos/registry.go:49, app.go:383).
StartsAndStopsEnd ==
  \A p \in Process :
    stage[p] \notin {"off", "running"} \/ p \in cancelled ~>
      \/ stage[p] \in {"off", "running"} /\ p \notin cancelled
      \/ aim[p].left \cap stalled # {}
=============================================================================
