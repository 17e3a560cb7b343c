------------------------------ MODULE Requests ------------------------------
(***************************************************************************)
(* What the modules of the administration share: the HTTP requests in      *)
(* flight.  The server runs every request in a goroutine of its own; a     *)
(* step of a module is one statement, one command or one call of one of    *)
(* them.                                                                   *)
(***************************************************************************)
EXTENDS Naturals, Sequences, FiniteSets

CONSTANTS Proc,    \* requests in flight
          None     \* no request, no value

ASSUME RequestsAssumption == None \notin Proc

\* The members of a set of numbers in the order of an SQL "ORDER BY id".
Ascending(S) == CHOOSE s \in [1 .. Cardinality(S) -> S] :
                  \A i, j \in DOMAIN s : i < j => s[i] < s[j]

\* A table without the rows of S.
Without(f, S) == [x \in DOMAIN f \ S |-> f[x]]

\* A table with the rows of g, new ones or written over old ones.
Over(g, f) == [x \in DOMAIN g \cup DOMAIN f |-> IF x \in DOMAIN g THEN g[x] ELSE f[x]]
=============================================================================
