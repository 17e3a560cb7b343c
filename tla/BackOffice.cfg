\* Two overlapping requests: on three rows with two names and codes of every family
\* of tables; on two log rows and two site messages in two tenants; on two
\* configurations of one kind of storage and two files of one path; on two students
\* with two children; on two definitions of a physical table with two fields.
CONSTANTS
  Proc = {p1, p2}
  None = None
  MaxId = 3
  Name = {n1, n2}
  Code = {c1, c2}
  MaxLog = 2
  MaxInbox = 2
  Tenant = {n1, n2}
  UserId = {u1}
  Path = {f1}
  MaxConfig = 2
  MaxFile = 2
  MaxStudent = 2
  MaxChild = 2
  TableName = {t1, t2}
  Physical = {t1}
  Field = {c1, c2}
  MaxTable = 2
  MaxColumn = 3
SPECIFICATION MCSpec
CHECK_DEADLOCK FALSE
SYMMETRY MCSymmetry
INVARIANT UniqueUnlessRaced
INVARIANT RefsUnlessRaced
INVARIANT LogsTellTrue
INVARIANT ReportsKept
INVARIANT MasterKept
INVARIANT FilesKept
INVARIANT StudentsWhole
INVARIANT DefinitionsWhole
