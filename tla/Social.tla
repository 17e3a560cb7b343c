------------------------------- MODULE Social -------------------------------
(***************************************************************************)
(* Login by a social platform, of one tenant and one platform.  A state is *)
(* a one-time key in Redis that comes back from the platform together with *)
(* a code; the platform exchanges the code for an openid.  A social user   *)
(* is saved by a SELECT and then an UPDATE or INSERT, a binding by a       *)
(* transaction of three statements; neither table has a unique key.        *)
(***************************************************************************)
EXTENDS Requests

CONSTANTS OpenId, Account, UserType,
          MaxState,   \* states given out; a code of the platform goes with each
          MaxSocial,  \* rows of system_social_user
          MaxBind     \* rows of system_social_user_bind

ASSUME SocialAssumption == {MaxState, MaxSocial, MaxBind} \subseteq Nat /\ None \notin OpenId

StateId == 1 .. MaxState
SocialId == 1 .. MaxSocial
BindId == 1 .. MaxBind

VARIABLES
  stateKey,   \* stateKey[k], as a ticket: the key is there while it is "valid"
  socials,    \* the social users: openid, and the state stored with them or 0
  binds,      \* the bindings, deleted ones included
  soc,        \* soc[p]: the progress of request p
  consumed,   \* history: how many requests took each state
  racedSoc,   \* history: rows of socials inserted while others wrote
  racedBind   \* history: rows of binds inserted while others wrote

socialVars == <<stateKey, socials, binds, soc, consumed, racedSoc, racedBind>>

IdleSoc == [at |-> "rest", op |-> None, key |-> 0, openid |-> None, user |-> None, type |-> None,
            social |-> 0, drops |-> {}, disturbed |-> FALSE]

SocGoes(p, r) == soc' = [soc EXCEPT ![p] = r]
SocRests(p) == SocGoes(p, IdleSoc)

-----------------------------------------------------------------------------
(* States and the exchange of codes *)

Redirect ==
  /\ \E k \in StateId : /\ \A j \in 1 .. k : stateKey[j] = "unissued" <=> j = k
                        /\ stateKey' = [stateKey EXCEPT ![k] = "valid"]
  /\ UNCHANGED <<socials, binds, soc, consumed, racedSoc, racedBind>>

\* A state lives five minutes.
StateExpires ==
  /\ \E k \in StateId : stateKey[k] = "valid" /\ stateKey' = [stateKey EXCEPT ![k] = "void"]
  /\ UNCHANGED <<socials, binds, soc, consumed, racedSoc, racedBind>>

\* A row with this state; only a bind or a look-up stores it.
SocialUserByCodeState(k) == {i \in DOMAIN socials : socials[i].key = k}

LoginUser(p) ==
  /\ soc[p] = IdleSoc
  /\ \E k \in StateId : SocGoes(p, [IdleSoc EXCEPT !.at = "consume", !.op = "login", !.key = k])
  /\ UNCHANGED <<stateKey, socials, binds, consumed, racedSoc, racedBind>>

\* The request goes on to bind social user i.
Binding(r, i) == [IdleSoc EXCEPT !.at = "drop", !.op = "bind", !.user = r.user, !.type = r.type, !.social = i]

\* The code and state of an earlier exchange are used again without one.
Reusing(p, r) ==
  LET known == SocialUserByCodeState(r.key) IN
  IF known = {} THEN SocGoes(p, [r EXCEPT !.at = "consume"])
  ELSE \E i \in known : IF r.op = "bind" THEN SocGoes(p, Binding(r, i)) ELSE SocRests(p)

BindUser(p) ==
  /\ soc[p] = IdleSoc
  /\ \E k \in StateId, u \in Account, t \in UserType :
       Reusing(p, [IdleSoc EXCEPT !.op = "bind", !.key = k, !.user = u, !.type = t])
  /\ UNCHANGED <<stateKey, socials, binds, consumed, racedSoc, racedBind>>

SocialByCode(p) ==
  /\ soc[p] = IdleSoc
  /\ \E k \in StateId : Reusing(p, [IdleSoc EXCEPT !.op = "look", !.key = k])
  /\ UNCHANGED <<stateKey, socials, binds, consumed, racedSoc, racedBind>>

\* The platform knows who it is, or the request ends.
ExchangeCode(p) ==
  \/ SocRests(p)
  \/ \E o \in OpenId :
       SocGoes(p, [soc[p] EXCEPT !.openid = o, !.at = IF soc[p].op = "login" THEN "lookup" ELSE "find"])

\* GETDEL, then the comparison with tenant, platform and user type, then the
\* exchange.  An absent key and a wrong one are refused alike.
consumeState(p) ==
  LET k == soc[p].key IN
  /\ soc[p].at = "consume"
  /\ \/ stateKey[k] # "valid" /\ SocRests(p) /\ UNCHANGED <<stateKey, consumed>>
     \/ /\ stateKey[k] = "valid"
        /\ stateKey' = [stateKey EXCEPT ![k] = "spent"]
        /\ consumed' = [consumed EXCEPT ![k] = @ + 1]
        /\ ExchangeCode(p)
  /\ UNCHANGED <<socials, binds, racedSoc, racedBind>>

\* A binding of any user type counts.
BindUserID(p) ==
  LET bound == \E b \in DOMAIN binds : binds[b].live /\ socials[binds[b].social].openid = soc[p].openid IN
  /\ soc[p].at = "lookup"
  /\ IF bound THEN SocRests(p) ELSE SocGoes(p, [soc[p] EXCEPT !.at = "find"])
  /\ UNCHANGED <<stateKey, socials, binds, consumed, racedSoc, racedBind>>

-----------------------------------------------------------------------------
(* The social user *)

FindSocialUser(p) ==
  LET known == {i \in DOMAIN socials : socials[i].openid = soc[p].openid} IN
  /\ soc[p].at = "find"
  /\ IF known = {} THEN SocGoes(p, [soc[p] EXCEPT !.at = "save", !.social = 0])
     ELSE \E i \in known : SocGoes(p, [soc[p] EXCEPT !.at = "save", !.social = i])
  /\ UNCHANGED <<stateKey, socials, binds, consumed, racedSoc, racedBind>>

\* What comes after the social user i was saved.
Saved(p, r, i) ==
  CASE r.op = "login" -> IdleSoc
    [] r.op = "bind"  -> Binding(r, i)
    [] OTHER          -> IdleSoc

\* The other requests, of which some were saving the same social user.
Inserted(p, r, i) ==
  soc' = [q \in Proc |-> IF q = p THEN Saved(p, r, i)
                         ELSE IF soc[q].at = "save" THEN [soc[q] EXCEPT !.disturbed = TRUE]
                         ELSE soc[q]]

\* A login stores neither code nor state, a bind or look-up does.
SaveSocialUser(p) ==
  LET r == soc[p]
      key == IF r.op = "login" THEN 0 ELSE r.key
      i == Len(socials) + 1
  IN
  /\ r.at = "save"
  /\ \/ /\ r.social # 0
        /\ socials' = [socials EXCEPT ![r.social].key = IF key = 0 THEN @ ELSE key]
        /\ SocGoes(p, Saved(p, [r EXCEPT !.disturbed = FALSE], r.social))
        /\ UNCHANGED racedSoc
     \/ /\ r.social = 0 /\ i <= MaxSocial
        /\ socials' = Append(socials, [openid |-> r.openid, key |-> key])
        /\ racedSoc' = IF r.disturbed THEN racedSoc \cup {i} ELSE racedSoc
        /\ Inserted(p, [r EXCEPT !.disturbed = FALSE], i)
  /\ UNCHANGED <<stateKey, binds, consumed, racedBind>>

-----------------------------------------------------------------------------
(* Bindings.  A statement waits for rows another transaction has deleted and *)
(* not committed.                                                            *)

SameSocial(b, r) == b.live /\ b.type = r.type /\ b.social = r.social
SameUser(b, r) == b.live /\ b.type = r.type /\ b.user = r.user

\* Does another transaction hold a row that matches?
Held(p, Matches(_)) ==
  \E q \in Proc \ {p} : \E b \in soc[q].drops : Matches(binds[b])

DropBySocial(p) ==
  LET r == soc[p]
      Mine(b) == SameSocial(b, r)
  IN
  /\ r.at = "drop" /\ ~ Held(p, Mine)
  /\ SocGoes(p, [r EXCEPT !.at = "drop2", !.drops = {b \in DOMAIN binds : Mine(binds[b])}])
  /\ UNCHANGED <<stateKey, socials, binds, consumed, racedSoc, racedBind>>

\* Mutant: the account keeps its other binding.
DropNothing(p) ==
  /\ soc[p].at = "drop2"
  /\ SocGoes(p, [soc[p] EXCEPT !.at = "insert"])
  /\ UNCHANGED <<stateKey, socials, binds, consumed, racedSoc, racedBind>>

DropByUser(p) ==
  LET r == soc[p]
      Mine(b) == SameUser(b, r)
  IN
  /\ r.at = "drop2" /\ ~ Held(p, Mine)
  /\ SocGoes(p, [r EXCEPT !.at = "insert", !.drops = @ \cup {b \in DOMAIN binds : Mine(binds[b])}])
  /\ UNCHANGED <<stateKey, socials, binds, consumed, racedSoc, racedBind>>

\* The INSERT and the commit, which ends all waiting.
Rebind(p) ==
  LET r == soc[p] IN
  /\ r.at = "insert" /\ Len(binds) < MaxBind
  /\ binds' = Append([b \in DOMAIN binds |-> IF b \in r.drops THEN [binds[b] EXCEPT !.live = FALSE]
                                             ELSE binds[b]],
                   [user |-> r.user, type |-> r.type, social |-> r.social, live |-> TRUE])
  /\ racedBind' = IF r.disturbed THEN racedBind \cup {Len(binds) + 1} ELSE racedBind
  /\ soc' = [q \in Proc |-> IF q = p THEN IdleSoc
                            ELSE IF soc[q].at \in {"drop2", "insert"}
                                 THEN [soc[q] EXCEPT !.disturbed = TRUE]
                            ELSE soc[q]]
  /\ UNCHANGED <<stateKey, socials, consumed, racedSoc>>

\* The social user is looked up by openid, then the account's bindings go.
UnbindUser(p) ==
  /\ soc[p] = IdleSoc /\ socials # <<>>
  /\ \E u \in Account, t \in UserType :
       LET r == [IdleSoc EXCEPT !.user = u, !.type = t]
           Mine(b) == SameUser(b, r)
       IN /\ ~ Held(p, Mine)
          /\ binds' = [b \in DOMAIN binds |-> IF Mine(binds[b]) THEN [binds[b] EXCEPT !.live = FALSE]
                                              ELSE binds[b]]
  /\ UNCHANGED <<stateKey, socials, soc, consumed, racedSoc, racedBind>>

\* An error, the victim of a deadlock, or the end of the process.
SocAborts(p) ==
  /\ soc[p] # IdleSoc
  /\ SocRests(p)
  /\ UNCHANGED <<stateKey, socials, binds, consumed, racedSoc, racedBind>>

SocialInit ==
  /\ stateKey = [k \in StateId |-> "unissued"]
  /\ socials = <<>> /\ binds = <<>>
  /\ soc = [p \in Proc |-> IdleSoc]
  /\ consumed = [k \in StateId |-> 0]
  /\ racedSoc = {} /\ racedBind = {}

SocialNext == Redirect \/ StateExpires \/ \E p \in Proc :
  \/ LoginUser(p) \/ BindUser(p) \/ SocialByCode(p) \/ consumeState(p)
  \/ BindUserID(p) \/ FindSocialUser(p) \/ SaveSocialUser(p)
  \/ DropBySocial(p) \/ DropByUser(p) \/ Rebind(p)
  \/ UnbindUser(p) \/ SocAborts(p)

SocialSpec == SocialInit /\ [][SocialNext]_socialVars

-----------------------------------------------------------------------------
(* Properties *)

\* Types; bindings name social users.
SocialTypeOK ==
  /\ stateKey \in [StateId -> {"unissued", "valid", "spent", "void"}]
  /\ Len(socials) <= MaxSocial /\ Len(binds) <= MaxBind
  /\ \A i \in DOMAIN socials : socials[i] \in [openid : OpenId, key : {0} \cup StateId]
  /\ \A b \in DOMAIN binds : binds[b] \in [user : Account, type : UserType, social : DOMAIN socials,
                                           live : BOOLEAN]
  /\ \A p \in Proc : soc[p].drops \subseteq DOMAIN binds /\ soc[p].social \in {0} \cup DOMAIN socials

\* A social user is bound to one account of a type, and an account to one social
\* user, and an openid has one social user, however binds, unbinds and logins
\* follow one another; only a request that another has overtaken between its
\* reads and its write can leave a second row (mysql.go:322,353).
OneBindingUnlessRaced ==
  /\ \A i, j \in DOMAIN socials \ racedSoc : i # j => socials[i].openid # socials[j].openid
  /\ \A a, b \in DOMAIN binds \ racedBind :
       a # b /\ binds[a].live => ~ SameSocial(binds[b], binds[a]) /\ ~ SameUser(binds[b], binds[a])

\* A social user is stored with the code and state he came with, so that who was
\* told "not bound" at his login can bind without another exchange
\* (service.go:262).
LoginCanBeBound == \A i \in DOMAIN socials : socials[i].key # 0

\* A state is a ticket for one exchange.
StateSU == INSTANCE SingleUse WITH Ticket <- StateId, state <- stateKey, grants <- consumed
=============================================================================
