------------------------------ MODULE Codegen -------------------------------
(***************************************************************************)
(* The definitions the code generator keeps of physical tables (codegen).  *)
(* Importing a table copies its columns, synchronising a definition        *)
(* replaces the columns that differ; both read first, from MySQL's catalog *)
(* and their own tables, and write one transaction in the end.             *)
(***************************************************************************)
EXTENDS Requests, Functions

CONSTANTS TableName, Physical, \* names; those of physical tables of one data source
          Field,               \* names of columns
          MaxTable, MaxColumn  \* bounds: definitions ever, columns at a time

ASSUME CodegenAssumption == Physical \subseteq TableName /\ None \notin TableName \cup Field

TableId == 1 .. MaxTable
ColumnId == 1 .. MaxColumn

VARIABLES
  catalog, \* catalog[n]: the columns of physical table n; <<>>: there is none
  tables,  \* tables[t]: the name definition t is of, while t is there
  given,   \* how many definitions were imported
  columns, \* columns[c]: a column of a definition, while c is there
  gen,     \* gen[p]: the progress of request p, while it is served
  behind,  \* history: the requests that have read what another has replaced
  asOf,    \* history: what the last import or synchronisation of t has read
  mixed    \* history: definitions written by requests that have overlapped, and
           \* names given without a look at the others

codegenVars == <<catalog, tables, given, columns, gen, behind, asOf, mixed>>

Request(do, names, schemas, id, old, fresh) ==
  [do |-> do, names |-> names, schemas |-> schemas, id |-> id, old |-> old, fresh |-> fresh]

Schema(name) == IF name \in Physical THEN catalog[name] ELSE <<>>

ColumnsOf(t) == {c \in DOMAIN columns : columns[c].table = t}

Defined == DOMAIN tables

\* Bound: an overlap that has left its mark is not followed by new requests.
Accepts(p) == p \notin DOMAIN gen /\ mixed = {}

Runs(p, do) == p \in DOMAIN gen /\ gen[p].do = do

Rank(S, x) == Cardinality({y \in S : y < x})

\* The ids of n new columns.  Bound: ids no other request remembers are given
\* again, at once when the request itself deletes their rows.
Unused(p, n) ==
  LET free == {c \in ColumnId : /\ c \in DOMAIN columns => Runs(p, "syncing") /\ c \in gen[p].old
                                /\ \A q \in DOMAIN gen \ {p} : c \notin gen[q].old}
  IN {c \in free : Rank(free, c) < n}

\* Columns are inserted in the order of their places: the definition's on the
\* list, then the field's.
Placements(places, ids) ==
  {at \in Bijection(ids, places) : \A c, d \in ids : c < d =>
     at[c][1] < at[d][1] \/ (at[c][1] = at[d][1] /\ at[c][2] < at[d][2])}

\* The columns of the definitions after base, numbered from 1 in each.
BuildColumns(at, base, schemas) ==
  [c \in DOMAIN at |->
     [table |-> base + at[c][1], name |-> schemas[at[c][1]][at[c][2]],
      ordinal |-> 1 + Rank({d \in DOMAIN at : at[d][1] = at[c][1]}, c)]]

Begins(p, r) == gen' = Over([q \in {p} |-> r], gen)

\* The reply to p; the requests of Q have read what it replaced.
Done(p, Q) == gen' = Without(gen, {p}) /\ behind' = (behind \cup Q) \ {p}

Serving(do) == {q \in DOMAIN gen : gen[q].do \in do}

Refused(p) == Done(p, {})

-----------------------------------------------------------------------------
(* Import *)

\* For each name in turn the catalog is read, and then the definitions: a table
\* without columns or comments, or one that was imported, refuses the request.
\* Nothing writes both, so the two reads are one step.
CheckName(p, names, schemas) ==
  LET name == names[Len(schemas) + 1]
      fields == Schema(name)
  IN
  /\ IF fields = <<>> \/ name \in Range(tables) THEN Refused(p)
     ELSE /\ Begins(p, Request("import", names, Append(schemas, fields), 0, {}, {}))
          /\ UNCHANGED behind
  /\ UNCHANGED <<catalog, tables, given, columns, asOf, mixed>>

StartImport(p) ==
  \E names \in UNION {[1 .. n -> TableName] : n \in 1 .. 2} :
    Accepts(p) /\ CheckName(p, names, <<>>)

CheckNext(p) ==
  /\ Runs(p, "import") /\ Len(gen[p].schemas) < Len(gen[p].names)
  /\ CheckName(p, gen[p].names, gen[p].schemas)

\* One transaction for all of them.  A name may be twice on the list.
CommitImport(p) ==
  LET r == gen[p]
      n == Len(r.names)
      ids == given + 1 .. given + n
      places == UNION {{k} \X DOMAIN r.schemas[k] : k \in 1 .. n}
      twice == {given + k : k \in {k \in 1 .. n : \E j \in 1 .. n : j # k /\ r.names[j] = r.names[k]}}
  IN
  /\ Runs(p, "import") /\ Len(r.schemas) = n /\ given + n <= MaxTable
  /\ \E at \in Placements(places, Unused(p, Cardinality(places))) :
       columns' = Over(BuildColumns(at, given, r.schemas), columns)
  /\ given' = given + n
  /\ tables' = Over([t \in ids |-> r.names[t - given]], tables)
  /\ asOf' = Over([t \in ids |-> r.schemas[t - given]], asOf)
  /\ mixed' = mixed \cup twice \cup (IF p \in behind THEN ids ELSE {})
  /\ Done(p, {q \in Serving({"import"}) : Range(gen[q].names) \cap Range(r.names) # {}})
  /\ UNCHANGED catalog

-----------------------------------------------------------------------------
(* Synchronise *)

\* The definition and the catalog are read.
StartSync(p) ==
  \E t \in Defined :
    /\ Accepts(p) /\ Schema(tables[t]) # <<>>
    /\ Begins(p, Request("sync", <<>>, <<Schema(tables[t])>>, t, {}, {}))
    /\ UNCHANGED <<catalog, tables, given, columns, behind, asOf, mixed>>

\* A saved column that has the place of its field is the same; places count
\* from 0 here.
Same(c, fields) ==
  \E i \in DOMAIN fields : columns[c].name = fields[i] /\ columns[c].ordinal = i - 1

\* Which columns go and which fields come, given the saved ones.
Deletes(saved, fields) ==
  {c \in saved : \A d \in saved : columns[d].name = columns[c].name => ~ Same(d, fields)}
\* Mutant: a field that has moved is deleted and not inserted again.
InsertsUnknown(saved, fields) ==
  {i \in DOMAIN fields : fields[i] \notin {columns[c].name : c \in saved}}
Inserts(saved, fields) ==
  {i \in DOMAIN fields : \A c \in saved :
     columns[c].name = fields[i] => columns[c].ordinal # i - 1}

SyncPlan(p) ==
  LET r == gen[p]
      saved == ColumnsOf(r.id)
      old == Deletes(saved, r.schemas[1])
      fresh == Inserts(saved, r.schemas[1])
  IN
  /\ Runs(p, "sync")
  /\ IF old = {} /\ fresh = {} THEN Refused(p)
     ELSE /\ Begins(p, Request("syncing", <<>>, r.schemas, r.id, old, fresh))
          /\ UNCHANGED behind
  /\ UNCHANGED <<catalog, tables, given, columns, asOf, mixed>>

\* The fresh columns are inserted whether or not the definition is still there.
CommitSync(p) ==
  LET r == gen[p]
      places == {1} \X r.fresh
  IN
  /\ Runs(p, "syncing")
  /\ \E at \in Placements(places, Unused(p, Cardinality(places))) :
       columns' = Over(BuildColumns(at, r.id - 1, r.schemas), Without(columns, r.old))
  /\ asOf' = [t \in Defined |-> IF t = r.id THEN r.schemas[1] ELSE asOf[t]]
  /\ mixed' = mixed \cup (IF p \in behind THEN {r.id} ELSE {})
  /\ Done(p, {q \in Serving({"syncing"}) : gen[q].id = r.id})
  /\ UNCHANGED <<catalog, tables, given>>

-----------------------------------------------------------------------------
(* Edit and delete *)

\* The definition is looked for, and the master of a sub-table.  Bound: the
\* form sends back the columns as they were, one perhaps with the place 0, though
\* mysql.go:276 would write another definition or name from it as well; the
\* definition may get another name, which no other is asked about.
StartUpdate(p) ==
  \E t \in Defined, name \in TableName : \E C \in SUBSET ColumnsOf(t) :
    /\ Accepts(p) /\ Cardinality(C) <= 1
    /\ Begins(p, Request("update", <<name>>, <<>>, t, C, {}))
    /\ UNCHANGED <<catalog, tables, given, columns, behind, asOf, mixed>>

\* Rows that are gone stay so.
CommitUpdate(p) ==
  LET r == gen[p] IN
  /\ Runs(p, "update")
  /\ tables' = [t \in Defined |-> IF t = r.id THEN r.names[1] ELSE tables[t]]
  /\ columns' = [c \in DOMAIN columns |->
       IF c \in r.old THEN [columns[c] EXCEPT !.ordinal = 0] ELSE columns[c]]
  /\ mixed' = mixed \cup {t \in {r.id} \cap Defined : tables[t] # r.names[1]}
  /\ Refused(p)
  /\ UNCHANGED <<catalog, given, asOf>>

\* One definition is looked for before it is deleted, a list is not.
StartDelete(p) ==
  \E t \in Defined :
    /\ Accepts(p)
    /\ Begins(p, Request("delete", <<>>, <<>>, t, {}, {}))
    /\ UNCHANGED <<catalog, tables, given, columns, behind, asOf, mixed>>

SoftDelete(p, T) ==
  /\ tables' = Without(tables, T)
  /\ columns' = Without(columns, {c \in DOMAIN columns : columns[c].table \in T})
  /\ asOf' = Without(asOf, T)
  /\ mixed' = mixed \ T
  /\ Done(p, {q \in Serving({"sync", "syncing"}) : gen[q].id \in T})
  /\ UNCHANGED <<catalog, given>>

CommitDelete(p) == Runs(p, "delete") /\ SoftDelete(p, {gen[p].id})

DeleteList(p) == \E T \in SUBSET (1 .. given) \ {{}} : Accepts(p) /\ SoftDelete(p, T)

\* A read, a connection or a statement fails; transactions are rolled back.
GenFails(p) ==
  /\ p \in DOMAIN gen
  /\ Refused(p)
  /\ UNCHANGED <<catalog, tables, given, columns, asOf, mixed>>

\* Somebody changes a physical table.  Bound: it has one or two fields.
Layouts == {f \in UNION {[1 .. k -> Field] : k \in 1 .. 2} : IsInjective(f)}

Alter ==
  \E n \in Physical, fields \in Layouts :
    /\ fields # catalog[n] /\ mixed = {}
    /\ catalog' = [catalog EXCEPT ![n] = fields]
    /\ UNCHANGED <<tables, given, columns, gen, behind, asOf, mixed>>

CodegenInit ==
  /\ catalog \in [Physical -> Layouts]
  /\ tables = <<>> /\ columns = <<>> /\ gen = <<>> /\ asOf = <<>>
  /\ given = 0
  /\ behind = {} /\ mixed = {}

CodegenStep(p) ==
  \/ StartImport(p) \/ CheckNext(p) \/ CommitImport(p)
  \/ StartSync(p) \/ SyncPlan(p) \/ CommitSync(p)
  \/ StartUpdate(p) \/ CommitUpdate(p)
  \/ StartDelete(p) \/ CommitDelete(p) \/ DeleteList(p) \/ GenFails(p)

CodegenNext == Alter \/ \E p \in Proc : CodegenStep(p)

CodegenSpec == CodegenInit /\ [][CodegenNext]_codegenVars

-----------------------------------------------------------------------------
(* Properties *)

CodegenTypeOK ==
  /\ \A n \in Physical : Range(catalog[n]) \subseteq Field
  /\ given \in 0 .. MaxTable
  /\ tables \in [Defined -> TableName] /\ Defined \subseteq 1 .. given
  /\ columns \in [DOMAIN columns -> [table : 1 .. given, name : Field, ordinal : 0 .. 2]]
  /\ DOMAIN columns \subseteq ColumnId /\ DOMAIN gen \subseteq Proc /\ behind \subseteq DOMAIN gen
  /\ DOMAIN asOf = Defined /\ mixed \subseteq TableId

\* As long as imports, synchronisations and deletions of a definition do not
\* overlap and nobody renames one or lists a name twice, a physical table has one
\* definition, the definition lists each field its last import or synchronisation
\* has read exactly once, and no column stays behind when it is deleted
\* (codegen/service.go:43,149, mysql.go:286).
DefinitionsWhole ==
  /\ \A c \in DOMAIN columns : columns[c].table \in Defined \cup mixed
  /\ \A t \in Defined \ mixed :
       /\ \A u \in Defined \ {t} : tables[u] = tables[t] => u \in mixed
       /\ Range(asOf[t]) = {columns[c].name : c \in ColumnsOf(t)}
       /\ \A c, d \in ColumnsOf(t) : c # d => columns[c].name # columns[d].name
=============================================================================
