-------------------------------- MODULE Files --------------------------------
(***************************************************************************)
(* Uploaded files: configurations of storages, one of which is the master  *)
(* that new files go to; rows of infra_file; and the objects themselves in *)
(* a database table, a bucket, or on a local, FTP or SFTP disk.  A step is *)
(* one statement or one operation of a storage.                            *)
(***************************************************************************)
EXTENDS Requests

CONSTANTS Path,       \* paths of objects: directory, day and name of a file
          MaxConfig, MaxFile   \* bounds: rows of the two tables

Storages == {"db", "s3", "local", "ftp", "sftp"}

ASSUME FilesAssumption == MaxConfig \in Nat \ {0} /\ MaxFile \in Nat

VARIABLES
  storage,   \* bound: all configurations are of one kind; constant
  config,    \* infra_file_config by id; deleted rows are not .live
  file,      \* infra_file by id
  object,    \* object[<<k, path>>]: what a storage has at a path
  op,        \* op[p]: the progress of request p
  overtaken, \* history: a change of the master or a deletion of a configuration was
             \* overtaken by another request between its check and its write
  moved,     \* history: configurations that were changed or deleted
  lost       \* history: places whose object was deleted, or not written to its end

fileVars == <<storage, config, file, object, op, overtaken, moved, lost>>

ConfigId == DOMAIN config
LiveConfigs == {k \in ConfigId : config[k].live}
Masters == {k \in LiveConfigs : config[k].master}

\* The database keeps objects by configuration; disks and buckets by path, here
\* one for all configurations that were not changed.
Place(k, path) == <<IF storage = "db" THEN k ELSE 1, path>>
Places == (1 .. MaxConfig) \X Path

NoOp == [at |-> "rest", config |-> 0, path |-> None, file |-> 0,
         row |-> FALSE, late |-> FALSE, mixed |-> FALSE]

\* Where p writes or deletes an object.
Aim(p) == Place(op[p].config, op[p].path)

OpGoes(p, r) == op' = [op EXCEPT ![p] = r]

\* A commit of p on the configurations comes between check and write of others.
OpCommits(p, r) ==
  op' = [q \in Proc |-> IF q = p THEN r
                        ELSE IF op[q].at \in {"switch", "drop"} THEN [op[q] EXCEPT !.late = TRUE] ELSE op[q]]

-----------------------------------------------------------------------------
(* Uploads *)

\* The master that was made last.
Master == IF Masters = {} THEN {} ELSE {CHOOSE k \in Masters : \A j \in Masters : j <= k}

\* Bound: once a configuration was changed or deleted, no further request.
Arrives(p) == op[p] = NoOp /\ moved = {} /\ ~ overtaken

Unmoved == UNCHANGED <<storage, config, file, object, overtaken, moved, lost>>

Puts(p, k, path, row) == OpGoes(p, [NoOp EXCEPT !.at = "put", !.config = k, !.path = path, !.row = row])

\* The server is sent the object; or a browser asks for an address in a bucket
\* (PresignPut), puts the object there and reports it.
Upload(p) ==
  /\ Arrives(p)
  /\ \E k \in Master, path \in Path : Puts(p, k, path, TRUE)
  /\ Unmoved

\* An administrator tries a configuration: an object, but no row.
Test(p) ==
  /\ Arrives(p)
  /\ \E k \in LiveConfigs, path \in Path : Puts(p, k, path, FALSE)
  /\ Unmoved

Stored(p) == OpGoes(p, IF op[p].row THEN [op[p] EXCEPT !.at = "insert"] ELSE NoOp)

\* The object is there at once, whatever was there before.
PutWhole(p) ==
  /\ op[p].at = "put"
  /\ object' = [object EXCEPT ![Aim(p)] = "whole"]
  /\ lost' = lost \ {Aim(p)}
  /\ Stored(p)
  /\ UNCHANGED <<storage, config, file, overtaken, moved>>

\* The file is emptied first.  Two that write one file may mix.
PutOpens(p) ==
  LET others == {q \in Proc \ {p} : op[q].at = "write" /\ Aim(q) = Aim(p)} IN
  /\ op[p].at = "put"
  /\ object' = [object EXCEPT ![Aim(p)] = "torn"]
  /\ lost' = lost \cup {Aim(p)}
  /\ op' = [q \in Proc |-> IF q = p THEN [op[p] EXCEPT !.at = "write", !.mixed = others # {}]
                           ELSE IF q \in others THEN [op[q] EXCEPT !.mixed = TRUE] ELSE op[q]]
  /\ UNCHANGED <<storage, config, file, overtaken, moved>>

dbUpload(p) == storage = "db" /\ PutWhole(p)
s3Upload(p) == storage = "s3" /\ PutWhole(p)
localUpload(p) == storage = "local" /\ PutOpens(p)
ftpUpload(p) == storage = "ftp" /\ PutOpens(p)
sftpUpload(p) == storage = "sftp" /\ PutOpens(p)

\* Who writes a file that was deleted meanwhile writes nothing.
Written(p) ==
  LET whole == object[Aim(p)] = "torn" /\ ~ op[p].mixed IN
  /\ op[p].at = "write"
  /\ object' = IF whole THEN [object EXCEPT ![Aim(p)] = "whole"] ELSE object
  /\ lost' = IF whole THEN lost \ {Aim(p)} ELSE lost
  /\ Stored(p)
  /\ UNCHANGED <<storage, config, file, overtaken, moved>>

\* InsertFile of an upload, or CreateRecord by the browser.
InsertFile(p) ==
  /\ op[p].at = "insert" /\ Len(file) < MaxFile
  /\ file' = Append(file, [config |-> op[p].config, path |-> op[p].path, live |-> TRUE])
  /\ OpGoes(p, NoOp)
  /\ UNCHANGED <<storage, config, object, overtaken, moved, lost>>

-----------------------------------------------------------------------------
(* Deletion of files *)

\* The ids of a list are worked off one by one, like as many requests.
FindFile(p) ==
  /\ Arrives(p)
  /\ \E i \in DOMAIN file :
       /\ file[i].live
       /\ OpGoes(p, [NoOp EXCEPT !.at = "open", !.file = i, !.config = file[i].config, !.path = file[i].path])
  /\ Unmoved

\* Mutant: the storage of the master.
OpensMaster(p) ==
  /\ op[p].at = "open"
  /\ \E k \in Master : OpGoes(p, [op[p] EXCEPT !.at = "remove", !.config = k])
  /\ Unmoved
\* The storage of the configuration of the file.
clientByID(p) ==
  /\ op[p].at = "open" /\ op[p].config \in LiveConfigs
  /\ OpGoes(p, [op[p] EXCEPT !.at = "remove"])
  /\ Unmoved

Removed(p) ==
  /\ op[p].at = "remove"
  /\ object' = [object EXCEPT ![Aim(p)] = "none"]
  /\ lost' = lost \cup {Place(file[op[p].file].config, op[p].path)}
  /\ OpGoes(p, [op[p] EXCEPT !.at = "row"])
  /\ UNCHANGED <<storage, config, file, overtaken, moved>>

dbDelete(p) == storage = "db" /\ Removed(p)
s3Delete(p) == storage = "s3" /\ Removed(p)
localDelete(p) == storage = "local" /\ Removed(p)
sftpDelete(p) == storage = "sftp" /\ Removed(p)
\* The server refuses to delete what is not there.
ftpDelete(p) ==
  storage = "ftp" /\ op[p].at = "remove" /\ object[Aim(p)] # "none" /\ Removed(p)

DeleteFile(p) ==
  /\ op[p].at = "row"
  /\ file' = [file EXCEPT ![op[p].file].live = FALSE]
  /\ OpGoes(p, NoOp)
  /\ UNCHANGED <<storage, config, object, overtaken, moved, lost>>

-----------------------------------------------------------------------------
(* Configurations *)

CreateConfig(p) ==
  /\ Arrives(p) /\ Len(config) < MaxConfig
  /\ config' = Append(config, [live |-> TRUE, master |-> FALSE])
  /\ UNCHANGED <<storage, file, object, op, overtaken, moved, lost>>

\* A request looks at a configuration first.
Checks(p, at, K) ==
  /\ Arrives(p)
  /\ \E k \in K : OpGoes(p, [NoOp EXCEPT !.at = at, !.config = k])
  /\ Unmoved

SaveConfig(p) == Checks(p, "update", LiveConfigs)
configMaster(p) == Checks(p, "switch", LiveConfigs)

\* Another disk or bucket, unless it is gone.
UpdateConfig(p) ==
  /\ op[p].at = "update"
  /\ moved' = moved \cup {op[p].config}
  /\ OpGoes(p, NoOp)
  /\ UNCHANGED <<storage, config, file, object, overtaken, lost>>

\* One transaction: all rows that are not deleted, then the one.
UpdateMaster(p) ==
  /\ op[p].at = "switch"
  /\ config' = [k \in ConfigId |-> IF k \in LiveConfigs THEN [config[k] EXCEPT !.master = (k = op[p].config)]
                                   ELSE config[k]]
  /\ overtaken' = (overtaken \/ op[p].late)
  /\ OpCommits(p, NoOp)
  /\ UNCHANGED <<storage, file, object, moved, lost>>

\* Mutant: the master is not asked for.
ChecksAny(p) == Checks(p, "drop", LiveConfigs)
configDelete(p) == Checks(p, "drop", LiveConfigs \ Masters)

DeleteConfig(p) ==
  LET k == op[p].config IN
  /\ op[p].at = "drop"
  /\ config' = [config EXCEPT ![k].live = FALSE]
  /\ moved' = moved \cup {k}
  /\ overtaken' = (overtaken \/ op[p].late)
  /\ OpCommits(p, NoOp)
  /\ UNCHANGED <<storage, file, object, lost>>

\* A check fails, a storage or the database does not answer, the process dies.
FileFails(p) ==
  /\ op[p] # NoOp
  /\ OpGoes(p, NoOp)
  /\ Unmoved

-----------------------------------------------------------------------------
\* The system comes with a master.
FilesInit ==
  /\ storage \in Storages
  /\ config = <<[live |-> TRUE, master |-> TRUE]>>
  /\ file = <<>>
  /\ object = [o \in Places |-> "none"]
  /\ op = [p \in Proc |-> NoOp]
  /\ overtaken = FALSE /\ moved = {} /\ lost = {}

FileRequest(p) ==
  \/ Upload(p) \/ Test(p) \/ FindFile(p) \/ CreateConfig(p)
  \/ SaveConfig(p) \/ configMaster(p) \/ configDelete(p)
FileStep(p) ==
  \/ dbUpload(p) \/ s3Upload(p) \/ localUpload(p) \/ ftpUpload(p) \/ sftpUpload(p)
  \/ Written(p) \/ InsertFile(p) \/ clientByID(p)
  \/ dbDelete(p) \/ s3Delete(p) \/ localDelete(p) \/ ftpDelete(p) \/ sftpDelete(p) \/ DeleteFile(p)
  \/ UpdateConfig(p) \/ UpdateMaster(p) \/ DeleteConfig(p) \/ FileFails(p)

FilesNext == \E p \in Proc : FileRequest(p) \/ FileStep(p)

FilesSpec == FilesInit /\ [][FilesNext]_fileVars

-----------------------------------------------------------------------------
(* Properties *)

\* Types of the tables, the objects and the requests.
FilesTypeOK ==
  /\ \A k \in ConfigId : config[k] \in [live : BOOLEAN, master : BOOLEAN]
  /\ \A i \in DOMAIN file : file[i] \in [config : ConfigId, path : Path, live : BOOLEAN]
  /\ object \in [Places -> {"none", "torn", "whole"}] /\ lost \subseteq Places /\ moved \subseteq ConfigId
  /\ \A p \in Proc : op[p] # NoOp => op[p].config \in {0} \cup ConfigId /\ op[p].file \in {0} \cup DOMAIN file

\* There is never more than one master, and always one, for new files to go to,
\* unless the change of the master or the deletion of a configuration was
\* overtaken by another one after its check (service.go:200, mysql.go:93).
MasterKept ==
  /\ Cardinality(Masters) <= 1
  /\ Masters = {} => overtaken

\* The object of a file is in the storage of its configuration, whole, unless that
\* configuration was changed or deleted, or the object at this place was deleted,
\* as every file of the same name and day has the same, or a later write of it did
\* not come to its end (service.go:54,140, path.go:11).
FilesKept ==
  \A i \in DOMAIN file :
    LET f == file[i] IN
    f.live /\ f.config \notin moved =>
      LET o == Place(f.config, f.path) IN
      object[o] = "whole" \/ o \in lost
=============================================================================
