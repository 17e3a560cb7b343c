-------------------------------- MODULE Crud --------------------------------
(***************************************************************************)
(* How the back office edits a table.  A request is a program of steps:    *)
(* SELECTs that may refuse it, row locks where the code takes them, and    *)
(* one write at the end.  Every step is a statement of its own, so other   *)
(* requests commit between a check and the write it was made for.  The     *)
(* programs of the tables are in module Tables.                            *)
(***************************************************************************)
EXTENDS Requests

CONSTANTS MaxId,     \* rows of all tables together are numbered 1 .. MaxId
          Name, Code \* values of the columns that are to be unique; None: a name or
             \* code that no other row has

ASSUME CrudAssumption == MaxId \in Nat \ {0, 1} /\ None \notin Name \cup Code

VARIABLES
  topic,     \* the tables this behaviour is about; constant
  rows,      \* rows[i]: its table and columns; Dead before and after its life
  nextId,    \* how many ids were given out
  crud,      \* crud[p]: the progress of request p
  tainted    \* history: rows that were written by a request, or whose parent
             \* was renamed or deleted by one, while other requests committed

\* Data of a dictionary name their type by its code, other rows their parent
\* by its id; parents are of table Parent[kind].
Parent == [menu |-> "menu", category |-> "category", dictData |-> "dictType",
           tenant |-> "package", mail |-> "account", sms |-> "channel"]
\* Tables without references are checked with one row less.
Id == 1 .. (IF topic \cap DOMAIN Parent = {} THEN MaxId - 1 ELSE MaxId)

crudVars == <<topic, rows, nextId, crud, tainted>>

Dead == [kind |-> None, name |-> None, code |-> None, up |-> 0, builtin |-> FALSE]

NoForm == [id |-> 0, name |-> None, code |-> None, up |-> 0]

Resting == [kind |-> None, form |-> NoForm, ids |-> <<>>, todo |-> <<>>, was |-> None,
            locked |-> {}, disturbed |-> FALSE]

Live(kind) == {i \in Id : rows[i].kind = kind}

\* Rows that refer to the live row j, or to code c of a dictionary type.
ChildrenOf(kind, j, c) ==
  {i \in Id : /\ rows[i].kind \in DOMAIN Parent /\ Parent[rows[i].kind] = kind
              /\ rows[i].up = IF kind = "dictType" THEN c ELSE j}

HasParent(kind, up) ==
  IF Parent[kind] = "dictType" THEN \E j \in Live("dictType") : rows[j].code = up
  ELSE up \in Live(Parent[kind]) \cup (IF Parent[kind] = kind THEN {0} ELSE {})

-----------------------------------------------------------------------------
(* Programs *)

\* A form that a handler has accepted: id 0 creates.
Forms(names, codes, ups) == [id : {0} \cup Id, name : names, code : codes, up : ups]

IsNew(f) == f.id = 0

Step(do, i) == [do |-> do, id |-> i]

\* The steps of a program for row i; the steps for each row of a list.
Steps(i, dos) == [k \in DOMAIN dos |-> Step(dos[k], i)]
ForEach(ids, dos) ==
  [k \in 1 .. Len(ids) * Len(dos) |->
     Step(dos[((k - 1) % Len(dos)) + 1], ids[((k - 1) \div Len(dos)) + 1])]

\* A program that creates or changes the row of form f.
Saving(f, checks) == Steps(f.id, checks) \o <<Step(IF IsNew(f) THEN "insert" ELSE "update", f.id)>>

\* A list deleted by one statement or in one transaction, after the checks.
AllOf(ids, dos) == ForEach(ids, dos) \o <<Step("dropAll", 0)>>

\* What a SELECT looks for; the request is refused if it does not hold.
Found(r, s) ==
  LET same(i) == rows[i].kind = r.kind /\ i # r.form.id
      holders == {i \in Id : rows[i].kind = r.kind /\ rows[i].code = r.form.code}
  IN
  CASE s.do = "exists"     -> rows[s.id].kind = r.kind
    [] s.do = "changeable" -> rows[s.id].kind = r.kind /\ ~ rows[s.id].builtin
    [] s.do = "name"       -> r.form.name = None \/ \A i \in Id : same(i) => rows[i].name # r.form.name
    [] s.do = "key"        -> holders = {} \/ r.form.id \in holders
    [] s.do = "nameIn"     -> \/ r.form.name = None
                              \/ \A i \in Id : same(i) /\ rows[i].up = r.form.up => rows[i].name # r.form.name
    [] s.do = "code"       -> r.form.code = None \/ \A i \in Id : same(i) => rows[i].code # r.form.code
    [] s.do = "parent"     -> HasParent(r.kind, r.form.up)
    [] s.do = "above"      -> r.was # r.form.id
    [] s.do = "unused"     -> ChildrenOf(r.kind, s.id, r.was) = {}
    [] s.do = "unusedAll"  -> \A k \in DOMAIN r.ids :
                                LET i == r.ids[k] IN
                                (r.kind = "dictType" => i \in r.locked) => ChildrenOf(r.kind, i, rows[i].code) = {}
    [] s.do = "allExist"   -> \A k \in DOMAIN r.ids : rows[r.ids[k]].kind = r.kind
    [] OTHER               -> FALSE

Selects == {"exists", "changeable", "name", "nameIn", "code", "key", "parent",
            "above", "unused", "unusedAll", "allExist"}

NextDo(p) == IF crud[p].todo = <<>> THEN "done" ELSE Head(crud[p].todo).do

\* Dictionary types and categories keep a column of the row they have read.  A
\* category climbs from its new parent to the root, or to a row that is gone, one
\* SELECT for each row.
Passed(r, s) ==
  LET climbs == s.do = "above" /\ r.was \in Live(r.kind) IN
  [r EXCEPT !.todo = IF climbs THEN @ ELSE Tail(@),
            !.was = IF r.kind = "dictType" /\ s.do = "exists" THEN rows[s.id].code
                    ELSE IF r.kind = "category" /\ s.do = "parent" THEN rows[r.form.up].up
                    ELSE IF climbs THEN rows[r.was].up ELSE @]

\* Bound: once an overlap has left its mark, no further request is served.
Free(p, kind) == tainted = {} /\ kind \in topic /\ crud[p] = Resting

\* A request for rows the user has seen arrives and, if its program begins with
\* a SELECT, passes it or is refused: what comes before a request's first access
\* is not seen by others.  None starts that would overrun MaxId.
Begin(p, kind, f, ids, program) ==
  /\ program # <<>>
  /\ program[Len(program)].do = "insert" => nextId < Cardinality(Id)
  /\ {program[k].id : k \in DOMAIN program} \cup {ids[k] : k \in DOMAIN ids}
       \subseteq {0} \cup {i \in 1 .. nextId : rows[i].kind \in {kind, None}}
  /\ LET r == [Resting EXCEPT !.kind = kind, !.form = f, !.ids = ids, !.todo = program]
         s == Head(program)
     IN crud' = [crud EXCEPT ![p] = IF s.do \notin Selects THEN r
                                    ELSE IF Found(r, s) THEN Passed(r, s) ELSE Resting]
  /\ UNCHANGED <<topic, rows, nextId, tainted>>

Submit(p, kind, f, program) == Begin(p, kind, f, <<>>, program)

Remove(p, kind, ids, program) == Begin(p, kind, NoForm, ids, program)

Select(p) ==
  LET r == crud[p]
      s == Head(r.todo)
  IN
  /\ NextDo(p) \in Selects
  /\ crud' = [crud EXCEPT ![p] = IF Found(r, s) THEN Passed(r, s) ELSE Resting]
  /\ UNCHANGED <<topic, rows, nextId, tainted>>

LockedByOther(i, p) == \E q \in Proc \ {p} : i \in crud[q].locked

\* SELECT ... FOR UPDATE of one row.  What others have committed before does
\* not disturb the request: its checks follow.
Lock(p) ==
  LET r == crud[p]
      s == Head(r.todo)
  IN
  /\ NextDo(p) \in {"lock", "lockChangeable"}
  /\ ~ LockedByOther(s.id, p)
  /\ crud' = [crud EXCEPT ![p] =
       IF s.do = "lockChangeable" /\ (rows[s.id].kind # r.kind \/ rows[s.id].builtin) THEN Resting
       ELSE [r EXCEPT !.todo = Tail(r.todo), !.disturbed = FALSE,
                      !.locked = IF rows[s.id].kind = r.kind THEN r.locked \cup {s.id} ELSE r.locked]]
  /\ UNCHANGED <<topic, rows, nextId, tainted>>

\* A check of columns the model leaves out (a status, the type of a parent
\* menu, the connection to a data source) or a failed statement ends a request.
Refuse(p) ==
  /\ NextDo(p) # "done"
  /\ crud' = [crud EXCEPT ![p] = Resting]
  /\ UNCHANGED <<topic, rows, nextId, tainted>>

\* The reply to p, or its next item of a list; every other request that is
\* under way has made its checks before this commit.
Committed(p) ==
  crud' = [q \in Proc |->
    IF q = p
    THEN IF Len(crud[p].todo) = 1 THEN Resting
         ELSE [crud[p] EXCEPT !.todo = Tail(@), !.disturbed = FALSE]
    ELSE IF crud[q].kind = None THEN crud[q] ELSE [crud[q] EXCEPT !.disturbed = TRUE]]

Row(r) == [kind |-> r.kind, name |-> r.form.name, code |-> r.form.code, up |-> r.form.up,
           builtin |-> FALSE]

Insert(p) ==
  /\ NextDo(p) = "insert" /\ nextId < Cardinality(Id)
  /\ nextId' = nextId + 1
  /\ rows' = [rows EXCEPT ![nextId'] = Row(crud[p])]
  /\ tainted' = IF crud[p].disturbed THEN tainted \cup {nextId'} ELSE tainted
  /\ Committed(p)
  /\ UNCHANGED topic

\* Rows that refer to one of I before the write of a disturbed request.
Fallout(p, I) ==
  IF crud[p].disturbed
  THEN I \cup UNION {ChildrenOf(rows[i].kind, i, rows[i].code) : i \in I}
  ELSE {}

\* UPDATE by id: nothing happens to a row that is gone.  A dictionary type takes
\* its data along, found by the code that was read at the beginning.
Update(p) ==
  LET r == crud[p]
      i == r.form.id
      new == IF rows[i].kind = r.kind THEN [Row(r) EXCEPT !.builtin = rows[i].builtin] ELSE rows[i]
      moved == IF r.kind = "dictType" /\ r.was # r.form.code THEN ChildrenOf(r.kind, i, r.was) ELSE {}
  IN
  /\ NextDo(p) = "update" /\ ~ LockedByOther(i, p)
  /\ rows' = [j \in Id |-> IF j = i THEN new
                           ELSE IF j \in moved THEN [rows[j] EXCEPT !.up = r.form.code]
                           ELSE rows[j]]
  /\ tainted' = tainted \cup (Fallout(p, {i}) \cap {j \in Id : rows[j] # Dead})
                  \cup (IF r.disturbed THEN moved ELSE {})
  /\ Committed(p)
  /\ UNCHANGED <<topic, nextId>>

\* The rows a deletion marks: one, or all of the list in one statement or
\* transaction.  Ids that are missing are passed over.
Doomed(p) ==
  IF NextDo(p) = "drop" THEN {Head(crud[p].todo).id} \cap Live(crud[p].kind)
  ELSE {crud[p].ids[k] : k \in DOMAIN crud[p].ids} \cap Live(crud[p].kind)

Delete(p) ==
  LET gone == Doomed(p) IN
  /\ NextDo(p) \in {"drop", "dropAll"}
  /\ \A i \in gone : ~ LockedByOther(i, p)
  /\ rows' = [j \in Id |-> IF j \in gone THEN Dead ELSE rows[j]]
  /\ tainted' = (tainted \cup Fallout(p, gone)) \ gone
  /\ Committed(p)
  /\ UNCHANGED <<topic, nextId>>

CrudStep(p) == Select(p) \/ Lock(p) \/ Refuse(p) \/ Insert(p) \/ Update(p) \/ Delete(p)
=============================================================================
