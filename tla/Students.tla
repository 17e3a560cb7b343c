------------------------------ MODULE Students ------------------------------
(***************************************************************************)
(* Students with their courses and their grade (demo03).  A student is     *)
(* saved with its children in one transaction, or the children are saved   *)
(* one by one without a look at the student.  The checks come before the   *)
(* transaction; a transaction is seen by others when it commits, and holds *)
(* the lock of its student's row from its first statement on.              *)
(***************************************************************************)
EXTENDS Requests

CONSTANTS MaxStudent, MaxChild \* bounds: students ever, children at a time

ASSUME StudentsAssumption == MaxStudent \in Nat \ {0} /\ MaxChild \in Nat \ {0}

StudentId == 1 .. MaxStudent
ChildId == 1 .. MaxChild

VARIABLES
  student,   \* student[s], once it is given out: is its row live
  child,     \* child[c]: a row of the tables of courses and grades, while it is there
  save,      \* save[p]: the progress of request p, while it is served
  late,      \* history: children written when their student was not live
  extra      \* history: grades written without looking for another one

studentVars == <<student, child, save, late, extra>>

\* A form: whose children; the courses listed by their ids and how many without;
\* the grade, 0 without id; or the one child that is written alone.
Form == [do |-> None, of |-> {}, listed |-> {}, new |-> 0, grade |-> None, id |-> 0,
         seen |-> {}, overtaken |-> FALSE]

Rows(kind) == {c \in DOMAIN child : child[c].kind = kind}

Of(kind, s) == {c \in Rows(kind) : child[c].of = s}

\* Bound: requests name students whose ids were given out.
Born == DOMAIN student

\* Bound: once an overlap or a form has left its mark, no further request comes.
Ready(p) == p \notin DOMAIN save /\ late = {} /\ extra = {}

Starts(p, r) == save' = Over([q \in {p} |-> r], save)

Serves(p, do) == p \in DOMAIN save /\ save[p].do = do

\* Another transaction has written the row of one of these students.
Held(S, p) == \E q \in Proc \ {p} : Serves(q, "updating") /\ save[q].of \cap S # {}

Answer(p) == save' = Without(save, {p})

\* A grade is committed: a request that has looked for one of the same student
\* looked too early.
AnswerGrade(p, s) ==
  save' = [q \in DOMAIN save \ {p} |->
    [save[q] EXCEPT !.overtaken = @ \/ (save[q].do = "gradeInsert" /\ save[q].of = {s})]]

\* The ids of n new rows.  Bound: ids no request remembers are given out again.
Fresh(n) ==
  LET remembered == UNION {save[q].listed \cup save[q].seen \cup {save[q].id, save[q].grade} : q \in DOMAIN save}
      free == ChildId \ (DOMAIN child \cup remembered)
  IN {c \in free : Cardinality({d \in free : d < c}) < n}

\* New rows of student s: n courses and g grades.
Inserted(s, n, g) ==
  [c \in Fresh(n + g) |-> [kind |-> IF c \in Fresh(n) THEN "course" ELSE "grade", of |-> s]]

Room(n) == Cardinality(Fresh(n)) = n

\* The children after a transaction that deleted gone and wrote the rows of new,
\* and which of them are of students that are not there.
Rewritten(gone, new) ==
  /\ child' = Over(new, Without(child, gone))
  /\ late' = (late \ (gone \cup DOMAIN new)) \cup {c \in DOMAIN new : ~ student[new[c].of]}

-----------------------------------------------------------------------------
(* Students with their children *)

CreateStudent(p) ==
  \E s \in StudentId, n \in 0 .. 1, g \in 0 .. 1 :
    /\ Ready(p)
    /\ s = 1 + Cardinality(Born)
    /\ Room(n + g)
    /\ student' = Over([t \in {s} |-> TRUE], student)
    /\ child' = Over(Inserted(s, n, g), child)
    /\ UNCHANGED <<save, late, extra>>

\* The form lists courses by ids, whoever they belong to, and perhaps one
\* without; an id that is gone is as good as none.
StartSave(p) ==
  \E s \in Born, listed \in SUBSET Rows("course"), new \in 0 .. 1,
     grade \in {None, 0} \cup Rows("grade") :
    /\ Ready(p) /\ student[s]
    /\ Starts(p, [Form EXCEPT !.do = "update", !.of = {s}, !.listed = listed, !.new = new,
                              !.grade = grade])
    /\ UNCHANGED <<student, child, late, extra>>

\* The transaction has changed the student's row, were it still live, and reads
\* the courses.
BeginSave(p) ==
  LET s == CHOOSE s \in save[p].of : TRUE IN
  /\ Serves(p, "update") /\ ~ Held(save[p].of, p)
  /\ save' = [save EXCEPT ![p] = [@ EXCEPT !.do = "updating", !.seen = Of("course", s)]]
  /\ UNCHANGED <<student, child, late, extra>>

\* Courses that were seen are rewritten if they are still there, those that are
\* not listed deleted by their ids, and all other listed ones inserted.
CommitSave(p) ==
  LET r == save[p]
      s == CHOOSE s \in r.of : TRUE
      n == Cardinality(r.listed \ r.seen) + r.new
      g == IF r.grade = 0 THEN 1 ELSE 0
      kept == r.seen \cap r.listed \cap DOMAIN child
      moved == {r.grade} \cap DOMAIN child
      added == Inserted(s, n, g)
  IN
  /\ Serves(p, "updating") /\ Room(n + g)
  /\ Rewritten(r.seen \ r.listed,
               Over(added, [c \in kept \cup moved |-> [child[c] EXCEPT !.of = s]]))
  /\ extra' = (extra \ (r.seen \ r.listed)) \cup moved
               \cup {c \in DOMAIN added : added[c].kind = "grade"}
  /\ IF moved = {} /\ g = 0 THEN Answer(p) ELSE AnswerGrade(p, s)
  /\ UNCHANGED student

StartRemoval(p) ==
  \E S \in (SUBSET Born) \ {{}} :
    /\ Ready(p) /\ \A s \in S : student[s]
    /\ Starts(p, [Form EXCEPT !.do = "delete", !.of = S])
    /\ UNCHANGED <<student, child, late, extra>>

\* The rows that go with students S.
\* Mutant: grades are forgotten.
CoursesGoWith(S) == {c \in Rows("course") : child[c].of \in S}
GoWith(S) == {c \in DOMAIN child : child[c].of \in S}

CommitRemoval(p) ==
  LET S == save[p].of IN
  /\ Serves(p, "delete") /\ ~ Held(S, p)
  /\ student' = [s \in Born |-> student[s] /\ s \notin S]
  /\ child' = Without(child, GoWith(S))
  /\ late' = late \ GoWith(S)
  /\ extra' = extra \ GoWith(S)
  /\ Answer(p)

-----------------------------------------------------------------------------
(* Courses and grades by themselves *)

CreateCourse(p) ==
  \E s \in Born :
    /\ Ready(p) /\ Room(1)
    /\ Rewritten({}, Inserted(s, 1, 0))
    /\ UNCHANGED <<student, save, extra>>

\* The row of a course or a grade is looked for, then written with its student.
StartWrite(p) ==
  \E c \in DOMAIN child, s \in Born :
    /\ Ready(p)
    /\ Starts(p, [Form EXCEPT !.do = child[c].kind, !.of = {s}, !.id = c])
    /\ UNCHANGED <<student, child, late, extra>>

UpdateCourse(p) ==
  LET r == save[p] IN
  /\ Serves(p, "course")
  /\ Rewritten({}, [c \in {r.id} \cap DOMAIN child |->
                      [kind |-> "course", of |-> CHOOSE s \in r.of : TRUE]])
  /\ Answer(p)
  /\ UNCHANGED <<student, extra>>

UpdateGrade(p) ==
  LET r == save[p]
      s == CHOOSE s \in r.of : TRUE
      I == {r.id} \cap DOMAIN child
  IN
  /\ Serves(p, "grade")
  /\ Rewritten({}, [c \in I |-> [kind |-> "grade", of |-> s]])
  /\ extra' = extra \cup I
  /\ AnswerGrade(p, s)
  /\ UNCHANGED student

StartGrade(p) ==
  \E s \in Born :
    /\ Ready(p) /\ Of("grade", s) = {}
    /\ Starts(p, [Form EXCEPT !.do = "gradeInsert", !.of = {s}])
    /\ UNCHANGED <<student, child, late, extra>>

CreateGrade(p) ==
  LET s == CHOOSE s \in save[p].of : TRUE IN
  /\ Serves(p, "gradeInsert") /\ Room(1)
  /\ Rewritten({}, Inserted(s, 0, 1))
  /\ extra' = IF save[p].overtaken THEN extra \cup Fresh(1) ELSE extra
  /\ AnswerGrade(p, s)
  /\ UNCHANGED student

\* One statement for all ids of a request, whoever they belong to.
DeleteChildren(p) ==
  \E I \in ((SUBSET Rows("course")) \cup (SUBSET Rows("grade"))) \ {{}} :
    /\ Ready(p)
    /\ child' = Without(child, I)
    /\ late' = late \ I
    /\ extra' = extra \ I
    /\ UNCHANGED <<student, save>>

\* A statement fails: the transaction is rolled back.
SaveFails(p) ==
  /\ p \in DOMAIN save
  /\ Answer(p)
  /\ UNCHANGED <<student, child, late, extra>>

StudentsInit ==
  /\ student = <<>> /\ child = <<>> /\ save = <<>>
  /\ late = {} /\ extra = {}

StudentsStep(p) ==
  \/ CreateStudent(p) \/ StartSave(p) \/ BeginSave(p) \/ CommitSave(p)
  \/ StartRemoval(p) \/ CommitRemoval(p)
  \/ CreateCourse(p) \/ StartWrite(p) \/ UpdateCourse(p) \/ UpdateGrade(p)
  \/ StartGrade(p) \/ CreateGrade(p) \/ DeleteChildren(p) \/ SaveFails(p)

StudentsNext == \E p \in Proc : StudentsStep(p)

StudentsSpec == StudentsInit /\ [][StudentsNext]_studentVars

-----------------------------------------------------------------------------
(* Properties *)

StudentsTypeOK ==
  /\ student \in [Born -> BOOLEAN] /\ Born \subseteq StudentId
  /\ child \in [DOMAIN child -> [kind : {"course", "grade"}, of : Born]]
  /\ DOMAIN child \subseteq ChildId /\ DOMAIN save \subseteq Proc
  /\ late \subseteq DOMAIN child /\ extra \subseteq Rows("grade")

\* However saves and deletions overlap, a course or a grade outlives its student
\* only when it was written after the deletion (demo03/service.go:104, "the
\* courses and the grade are deleted together with the student"), and a student
\* has a second grade only when a request that does not look for the first one
\* wrote it, or looked before it was there (demo03/service.go:241).
StudentsWhole ==
  /\ \A c \in DOMAIN child \ late : student[child[c].of]
  /\ \A c, d \in Rows("grade") \ extra : c # d => child[c].of # child[d].of
=============================================================================
