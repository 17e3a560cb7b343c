------------------------------- MODULE OAuth2 -------------------------------
(***************************************************************************)
(* The authorization server: what a user allows one client, and the codes  *)
(* by which the client comes to its token.  Approvals are rows without a   *)
(* unique key, saved by an UPDATE and, unless that changed one row, an     *)
(* INSERT.  The tokens themselves are in module AuthTokens.                *)
(***************************************************************************)
EXTENDS Requests

CONSTANTS Scope,
          MaxApprove,  \* approval rows of a scope
          MaxCode      \* rows of system_oauth2_code

ASSUME OAuth2Assumption == IsFiniteSet(Scope) /\ MaxApprove \in Nat /\ MaxCode \in Nat

VARIABLES
  autoScopes,  \* scopes the client need not ask for; constant
  approvals,   \* approvals[s]: the flags of the live rows of scope s
  codes,       \* codes[k], as a ticket: the row is live while it is "valid"
  oauth,       \* oauth[p]: the progress of request p
  said,        \* history: the last choice that was written for a scope
  contested,   \* history: scopes that two requests were saving at once
  letIn        \* history: how many requests each code has let through

oauthVars == <<autoScopes, approvals, codes, oauth, said, contested, letIn>>

CodeId == 1 .. MaxCode
Choice == [scope : Scope, value : BOOLEAN]

IdleOAuth == [at |-> "rest", saves |-> <<>>, then |-> "rest", keys |-> {}, code |-> 0]

OAuthGoes(p, r) == oauth' = [oauth EXCEPT ![p] = r]
OAuthRests(p) == OAuthGoes(p, IdleOAuth)

\* The scopes of a request and what the user chose, in its order.  The JSON may
\* name a scope twice; bound: as many names as there are scopes.
ScopeLists == UNION {[1 .. n -> Choice] : n \in 0 .. Cardinality(Scope)}

-----------------------------------------------------------------------------
(* Authorization *)

\* Save the choices one by one, then go on.
Saving(saves, then) ==
  [IdleOAuth EXCEPT !.at = IF saves = <<>> THEN then ELSE "update", !.saves = saves, !.then = then]

saveChoices(list) ==
  Saving(list, IF list # <<>> /\ \A i \in DOMAIN list : ~ list[i].value THEN "rest" ELSE "grant")

\* Scopes the client need not ask for are recorded as approved.
preApprove(list) ==
  LET keys == {list[i].scope : i \in DOMAIN list} IN
  IF keys \subseteq autoScopes
  THEN Saving([i \in DOMAIN list |-> [scope |-> list[i].scope, value |-> TRUE]], "grant")
  ELSE [IdleOAuth EXCEPT !.at = "read", !.keys = keys]

\* The user's page asks without him (auto), or he has chosen.
Approve(p) ==
  /\ oauth[p] = IdleOAuth
  /\ \E list \in ScopeLists : OAuthGoes(p, preApprove(list)) \/ OAuthGoes(p, saveChoices(list))
  /\ UNCHANGED <<autoScopes, approvals, codes, said, contested, letIn>>

Approved(s) == \E i \in DOMAIN approvals[s] : approvals[s][i]

\* Approvals may have expired.
Approves(p) ==
  /\ oauth[p].at = "read"
  /\ \/ OAuthRests(p)
     \/ (\A s \in oauth[p].keys : Approved(s)) /\ OAuthGoes(p, [oauth[p] EXCEPT !.at = "grant"])
  /\ UNCHANGED <<autoScopes, approvals, codes, said, contested, letIn>>

\* Mutant: the loop is not left after the last choice.
NextSaveOn(r) == [r EXCEPT !.at = "update", !.saves = Tail(@)]
NextSave(r) == Saving(Tail(r.saves), r.then)

Inserting(q, s) == oauth[q].at = "insert" /\ Head(oauth[q].saves).scope = s

\* Mutant: one of the rows is updated.
UpdatedFirst(rows, v) == [i \in DOMAIN rows |-> IF i = 1 THEN v ELSE rows[i]]
Updated(rows, v) == [i \in DOMAIN rows |-> v]

\* The UPDATE.  MySQL counts the rows it changes: those with another flag, and
\* the others unless they were saved within the same second.
SaveApprove(p) ==
  LET c == Head(oauth[p].saves)
      rows == approvals[c.scope]
      others == Cardinality({i \in DOMAIN rows : rows[i] # c.value})
  IN
  /\ oauth[p].at = "update"
  /\ approvals' = [approvals EXCEPT ![c.scope] = Updated(@, c.value)]
  /\ said' = IF rows = <<>> THEN said ELSE [said EXCEPT ![c.scope] = c.value]
  /\ contested' = IF \E q \in Proc \ {p} : Inserting(q, c.scope) THEN contested \cup {c.scope}
                  ELSE contested \ {c.scope}
  /\ \E n \in others .. Len(rows) :
       OAuthGoes(p, IF n = 1 THEN NextSave(oauth[p]) ELSE [oauth[p] EXCEPT !.at = "insert"])
  /\ UNCHANGED <<autoScopes, codes, letIn>>

InsertApprove(p) ==
  LET c == Head(oauth[p].saves) IN
  /\ oauth[p].at = "insert" /\ Len(approvals[c.scope]) < MaxApprove
  /\ approvals' = [approvals EXCEPT ![c.scope] = Append(@, c.value)]
  /\ said' = [said EXCEPT ![c.scope] = c.value]
  /\ contested' = IF \E q \in Proc \ {p} : Inserting(q, c.scope) THEN contested \cup {c.scope}
                  ELSE contested
  /\ OAuthGoes(p, NextSave(oauth[p]))
  /\ UNCHANGED <<autoScopes, codes, letIn>>

\* The reply carries a code, or (response type "token") a token at once.
InsertCode(p) ==
  /\ oauth[p].at = "grant"
  /\ \/ codes' = codes
     \/ \E k \in CodeId : /\ \A j \in 1 .. k : codes[j] = "unissued" <=> j = k
                          /\ codes' = [codes EXCEPT ![k] = "valid"]
  /\ OAuthRests(p)
  /\ UNCHANGED <<autoScopes, approvals, said, contested, letIn>>

-----------------------------------------------------------------------------
(* The token endpoint *)

\* The client, its secret and its address have been checked; the code is any.
IssueToken(p) ==
  /\ oauth[p] = IdleOAuth
  /\ \E k \in CodeId : OAuthGoes(p, [IdleOAuth EXCEPT !.at = "lock", !.code = k])
  /\ UNCHANGED <<autoScopes, approvals, codes, said, contested, letIn>>

\* Mutant: the code is read without a lock.
ReadCode(p) ==
  /\ oauth[p].at = "lock"
  /\ OAuthGoes(p, IF codes[oauth[p].code] = "valid" THEN [oauth[p] EXCEPT !.at = "delete"] ELSE IdleOAuth)
  /\ UNCHANGED <<autoScopes, approvals, codes, said, contested, letIn>>

\* SELECT ... FOR UPDATE; a code that is gone or has expired is refused.
ConsumeCode(p) ==
  /\ oauth[p].at = "lock"
  /\ \A q \in Proc \ {p} : oauth[q].at = "delete" => oauth[q].code # oauth[p].code
  /\ \/ OAuthRests(p)
     \/ /\ codes[oauth[p].code] = "valid"
        /\ OAuthGoes(p, [oauth[p] EXCEPT !.at = "delete"])
  /\ UNCHANGED <<autoScopes, approvals, codes, said, contested, letIn>>

\* The row is deleted and the transaction commits.  Client, address and state are
\* compared, and the token is issued, after that: refused or not, the code is gone.
DeleteCode(p) ==
  LET k == oauth[p].code IN
  /\ oauth[p].at = "delete"
  /\ codes' = [codes EXCEPT ![k] = "spent"]
  /\ letIn' = [letIn EXCEPT ![k] = @ + 1]
  /\ OAuthRests(p)
  /\ UNCHANGED <<autoScopes, approvals, said, contested>>

\* A statement fails or the process dies; an open transaction is rolled back.
OAuthAborts(p) ==
  /\ oauth[p] # IdleOAuth
  /\ OAuthRests(p)
  /\ UNCHANGED <<autoScopes, approvals, codes, said, contested, letIn>>

OAuthInit ==
  /\ autoScopes \in SUBSET Scope
  /\ approvals = [s \in Scope |-> <<>>]
  /\ codes = [k \in CodeId |-> "unissued"]
  /\ oauth = [p \in Proc |-> IdleOAuth]
  /\ said = [s \in Scope |-> None]
  /\ contested = {}
  /\ letIn = [k \in CodeId |-> 0]

OAuthNext == \E p \in Proc :
  \/ Approve(p) \/ Approves(p) \/ SaveApprove(p) \/ InsertApprove(p) \/ InsertCode(p)
  \/ IssueToken(p) \/ ConsumeCode(p) \/ DeleteCode(p) \/ OAuthAborts(p)

OAuthSpec == OAuthInit /\ [][OAuthNext]_oauthVars

-----------------------------------------------------------------------------
(* Properties *)

\* Types of the rows and of the requests.
OAuthTypeOK ==
  /\ autoScopes \cup contested \subseteq Scope
  /\ \A s \in Scope : /\ approvals[s] \in Seq(BOOLEAN) /\ Len(approvals[s]) <= MaxApprove
                      /\ said[s] \in BOOLEAN \cup {None}
  /\ codes \in [CodeId -> {"unissued", "valid", "spent"}]
  /\ \A p \in Proc : /\ oauth[p].saves \in Seq(Choice)
                     /\ oauth[p].at \in {"update", "insert"} <=> oauth[p].saves # <<>>

\* Saving a choice twice within a second leaves two rows, and every further save
\* one more.  All the same, unless two requests were saving one scope at once, an
\* automatic approval finds the scope approved only if the last choice written
\* was to approve it: a withdrawn consent does not come back from another row
\* (mysql.go:477, authorize.go:113).
ConsentIsLastChoice ==
  \A s \in Scope \ contested : \A i \in DOMAIN approvals[s] : approvals[s][i] = said[s]

\* An authorization code is a ticket for one token.
CodeSU == INSTANCE SingleUse WITH Ticket <- CodeId, state <- codes, grants <- letIn
=============================================================================
