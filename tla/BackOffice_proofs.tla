-------------------------- MODULE BackOffice_proofs --------------------------
(***************************************************************************)
(* Proofs about the back office: files and their configurations, messages  *)
(* and their log rows, students with their children, the tables, and the   *)
(* definitions of the code generator.                                      *)
(***************************************************************************)
EXTENDS Files, Messages, Students, Tables, Codegen, SequenceTheorems, FiniteSetTheorems, TLAPS

-----------------------------------------------------------------------------
(* Files *)

FileStage == {"rest", "put", "write", "insert", "open", "remove", "row", "update", "switch", "drop"}
FileOp == [at : FileStage, config : Nat, path : Path \cup {None}, file : Nat,
           row : BOOLEAN, late : BOOLEAN, mixed : BOOLEAN]
ConfigRow == [live : BOOLEAN, master : BOOLEAN]
FileRow == [config : Nat, path : Path, live : BOOLEAN]

FileTypes ==
  /\ storage \in Storages
  /\ config \in Seq(ConfigRow) /\ Len(config) <= MaxConfig
  /\ file \in Seq(FileRow)
  /\ object \in [Places -> {"none", "torn", "whole"}]
  /\ op \in [Proc -> FileOp]
  /\ overtaken \in BOOLEAN

\* An object is whole, or on record as lost.
Kept(o) == object[o] = "whole" \/ o \in lost

\* What request p holds about configurations, files and objects.
FileReqOK(p) ==
  LET r == op[p] IN
  /\ r.at # "rest" => r.config \in 1 .. Len(config)
  /\ r.at \in {"put", "write", "insert", "open", "remove", "row"} => r.path \in Path
  /\ r.at \in {"open", "remove", "row"} =>
       /\ r.file \in 1 .. Len(file)
       /\ r.config = file[r.file].config /\ r.path = file[r.file].path
  /\ r.at \in {"write", "insert"} => Kept(Place(r.config, r.path))

\* What an administrator has seen of a configuration is still so, unless overtaken.
SwitchOK(p) ==
  LET r == op[p] IN
  /\ r.at = "switch" /\ ~ r.late => config[r.config].live
  /\ r.at = "drop" /\ ~ r.late => config[r.config].live /\ ~ config[r.config].master

FileRowOK(i) ==
  /\ file[i].config \in 1 .. Len(config)
  /\ file[i].live => Kept(Place(file[i].config, file[i].path))

OneMaster ==
  /\ \A j, k \in 1 .. Len(config) :
       config[j].live /\ config[j].master /\ config[k].live /\ config[k].master => j = k
  /\ overtaken \/ \E k \in 1 .. Len(config) : config[k].live /\ config[k].master

FilesOK ==
  /\ FileTypes
  /\ \A p \in Proc : FileReqOK(p)
  /\ \A p \in Proc : SwitchOK(p)
  /\ \A i \in 1 .. Len(file) : FileRowOK(i)
  /\ OneMaster

LEMMA PlaceIn ==
  ASSUME NEW k \in 1 .. Len(config), NEW path \in Path, FileTypes
  PROVE  Place(k, path) \in Places
<1>1. Len(config) \in Nat /\ MaxConfig \in Nat \ {0}
  BY FilesAssumption DEF FileTypes
<1> QED  BY <1>1 DEF Place, Places, FileTypes

LEMMA FilesStart == FilesInit => FilesOK
<1> SUFFICES ASSUME FilesInit PROVE FilesOK  OBVIOUS
<1> USE DEF FilesInit
<1>1. config \in Seq(ConfigRow) /\ Len(config) = 1 /\ config[1] = [live |-> TRUE, master |-> TRUE]
  BY DEF ConfigRow
<1>2. NoOp \in FileOp
  BY DEF NoOp, FileOp, FileStage
<1>3. FileTypes
  <2>1. file \in Seq(FileRow) /\ op \in [Proc -> FileOp]
    BY <1>2
  <2>2. object \in [Places -> {"none", "torn", "whole"}]
    OBVIOUS
  <2>4. Len(config) <= MaxConfig
    BY ONLY <1>1, FilesAssumption
  <2>3. Len(config) <= MaxConfig /\ storage \in Storages /\ overtaken \in BOOLEAN
    BY <2>4
  <2> QED  BY ONLY <1>1, <2>1, <2>2, <2>3 DEF FileTypes
<1>4. \A p \in Proc : FileReqOK(p) /\ SwitchOK(p)
  BY DEF FileReqOK, SwitchOK, NoOp
<1>5. OneMaster
  BY <1>1 DEF OneMaster
<1> QED  BY <1>3, <1>4, <1>5 DEF FilesOK

\* A step that keeps the tables and the objects, and takes request p to r.
LEMMA FileGoes ==
  ASSUME FilesOK, NEW p \in Proc, NEW r \in FileOp, op' = [op EXCEPT ![p] = r],
         UNCHANGED <<storage, config, file, object, overtaken, lost>>,
         FileReqOK(p)', SwitchOK(p)'
  PROVE  FilesOK'
<1>1. FileTypes'
  BY DEF FilesOK, FileTypes, Places
<1>2. \A q \in Proc : q # p => op'[q] = op[q]
  BY DEF FilesOK, FileTypes
<1>3. \A q \in Proc : FileReqOK(q)'
  BY <1>2 DEF FilesOK, FileReqOK, Kept, Place
<1>4. \A q \in Proc : SwitchOK(q)'
  BY <1>2 DEF FilesOK, SwitchOK
<1>5. OneMaster' /\ \A i \in 1 .. Len(file') : FileRowOK(i)'
  BY DEF FilesOK, OneMaster, FileRowOK, Kept, Place
<1> QED  BY <1>1, <1>3, <1>4, <1>5 DEF FilesOK

\* A step on the objects: what was kept stays so.
LEMMA FileStores ==
  ASSUME FilesOK, NEW p \in Proc,
         op' \in [Proc -> FileOp], object' \in [Places -> {"none", "torn", "whole"}],
         UNCHANGED <<storage, config, file, overtaken>>,
         \A o \in Places : Kept(o) => (object'[o] = "whole" \/ o \in lost'),
         \A q \in Proc \ {p} : op'[q] = [op[q] EXCEPT !.mixed = op'[q].mixed],
         FileReqOK(p)', SwitchOK(p)'
  PROVE  FilesOK'
<1>0. FileTypes /\ \A q \in Proc : op[q] \in FileOp
  BY DEF FilesOK, FileTypes
<1>1. FileTypes'
  BY DEF FilesOK, FileTypes, Places
<1>2. \A q \in Proc \ {p} : /\ op'[q].at = op[q].at /\ op'[q].config = op[q].config
                            /\ op'[q].path = op[q].path /\ op'[q].file = op[q].file
                            /\ op'[q].late = op[q].late
  BY <1>0 DEF FileOp
<1>3. ASSUME NEW q \in Proc \ {p} PROVE FileReqOK(q)' /\ SwitchOK(q)'
  <2> DEFINE o == Place(op[q].config, op[q].path)
  <2>1. FileReqOK(q) /\ SwitchOK(q)
    BY DEF FilesOK
  <2>2. op[q].at \in {"write", "insert"} => o \in Places /\ Kept(o)
    BY <2>1, <1>0, PlaceIn DEF FileReqOK
  <2>4. Place(op'[q].config, op'[q].path) = o
    BY <1>2 DEF Place
  <2>5. op[q].at \in {"write", "insert"} => (object'[o] = "whole" \/ o \in lost')
    BY <2>2
  <2> HIDE DEF o
  <2>6. FileReqOK(q)'
    BY <1>2, <2>1, <2>4, <2>5 DEF FileReqOK, Kept, Place
  <2> QED  BY <1>2, <2>1, <2>6 DEF SwitchOK
<1>4. ASSUME NEW i \in 1 .. Len(file) PROVE FileRowOK(i)'
  <2> DEFINE o == Place(file[i].config, file[i].path)
  <2>1. FileRowOK(i) /\ file[i] \in FileRow
    BY DEF FilesOK, FileTypes
  <2>2. o \in Places
    BY <2>1, <1>0, PlaceIn DEF FileRowOK, FileRow
  <2>3. file[i].live => (object'[o] = "whole" \/ o \in lost')
    BY <2>1, <2>2 DEF FileRowOK, Kept
  <2>4. o = Place(file'[i].config, file'[i].path)
    BY DEF Place
  <2> QED  BY <2>1, <2>3, <2>4 DEF FileRowOK, Kept, Place
<1>5. OneMaster'
  BY DEF FilesOK, OneMaster
<1> QED  BY <1>1, <1>3, <1>4, <1>5 DEF FilesOK

LEMMA UploadSteps ==
  ASSUME FilesOK, NEW p \in Proc,
         Upload(p) \/ Test(p) \/ FindFile(p) \/ clientByID(p) \/ SaveConfig(p)
           \/ configMaster(p) \/ configDelete(p) \/ FileFails(p)
  PROVE  FilesOK'
<1>0. /\ config \in Seq(ConfigRow) /\ file \in Seq(FileRow) /\ op[p] \in FileOp
      /\ DOMAIN config = 1 .. Len(config) /\ DOMAIN file = 1 .. Len(file)
  BY DEF FilesOK, FileTypes
<1>1. LiveConfigs \subseteq 1 .. Len(config) /\ LiveConfigs \subseteq Nat
  BY <1>0 DEF LiveConfigs, ConfigId
<1>2. NoOp \in FileOp
  BY DEF NoOp, FileOp, FileStage
<1>a. CASE \E k \in LiveConfigs, path \in Path, row \in BOOLEAN : Puts(p, k, path, row) /\ Unmoved
  <2>1. PICK k \in LiveConfigs, path \in Path, row \in BOOLEAN : Puts(p, k, path, row) /\ Unmoved
    BY <1>a
  <2> DEFINE r == [NoOp EXCEPT !.at = "put", !.config = k, !.path = path, !.row = row]
  <2>2. /\ r \in FileOp /\ r.at = "put" /\ r.config = k /\ r.path = path
    BY <1>1 DEF NoOp, FileOp, FileStage
  <2>3. op' = [op EXCEPT ![p] = r] /\ Unmoved
    BY <2>1 DEF Puts, OpGoes
  <2> HIDE DEF r
  <2>4. op'[p] = r /\ UNCHANGED <<config, file, storage, object, overtaken, lost>>
    BY <2>3 DEF FilesOK, FileTypes, Unmoved
  <2>5. FileReqOK(p)' /\ SwitchOK(p)'
    BY <1>1, <2>2, <2>4 DEF FileReqOK, SwitchOK
  <2> QED  BY <2>2, <2>3, <2>4, <2>5, FileGoes
<1>b. CASE FindFile(p)
  <2>1. PICK i \in DOMAIN file : op' = [op EXCEPT ![p] = [NoOp EXCEPT !.at = "open", !.file = i, !.config = file[i].config, !.path = file[i].path]]
    BY <1>b DEF FindFile, OpGoes
  <2>9. file[i] \in FileRow /\ FileRowOK(i) /\ i \in 1 .. Len(file)
    BY <1>0, <2>1 DEF FilesOK
  <2>0. file[i].config \in Nat /\ file[i].path \in Path /\ i \in Nat
    BY <2>9, <1>0 DEF FileRow
  <2> DEFINE r == [NoOp EXCEPT !.at = "open", !.file = i, !.config = file[i].config, !.path = file[i].path]
  <2>2. /\ r \in FileOp /\ r.at = "open" /\ r.config = file[i].config /\ r.path = file[i].path /\ r.file = i
    BY <2>0 DEF NoOp, FileOp, FileStage
  <2>3. op' = [op EXCEPT ![p] = r] /\ Unmoved
    BY <2>1, <1>b DEF FindFile
  <2> HIDE DEF r
  <2>4. op'[p] = r /\ UNCHANGED <<config, file, storage, object, overtaken, lost>>
    BY <2>3 DEF FilesOK, FileTypes, Unmoved
  <2>5. FileReqOK(p)' /\ SwitchOK(p)'
    BY <2>0, <2>9, <2>2, <2>4 DEF FileReqOK, SwitchOK, FileRowOK
  <2> QED  BY <2>2, <2>3, <2>4, <2>5, FileGoes
<1>c. CASE clientByID(p)
  <2> DEFINE r == [op[p] EXCEPT !.at = "remove"]
  <2>2. /\ r \in FileOp /\ r.at = "remove" /\ r.config = op[p].config /\ r.path = op[p].path /\ r.file = op[p].file
    BY <1>0 DEF FileOp, FileStage
  <2>3. op' = [op EXCEPT ![p] = r] /\ Unmoved /\ op[p].at = "open"
    BY <1>c DEF clientByID, OpGoes
  <2> HIDE DEF r
  <2>4. op'[p] = r /\ UNCHANGED <<config, file, storage, object, overtaken, lost>>
    BY <2>3 DEF FilesOK, FileTypes, Unmoved
  <2>6. FileReqOK(p)
    BY DEF FilesOK
  <2>5. FileReqOK(p)' /\ SwitchOK(p)'
    BY <2>2, <2>3, <2>4, <2>6 DEF FileReqOK, SwitchOK
  <2> QED  BY <2>2, <2>3, <2>4, <2>5, FileGoes
<1>d. ASSUME NEW at \in {"update", "switch", "drop"}, NEW k \in LiveConfigs,
             at = "drop" => k \notin Masters,
             OpGoes(p, [NoOp EXCEPT !.at = at, !.config = k]), Unmoved
      PROVE  FilesOK'
  <2> DEFINE r == [NoOp EXCEPT !.at = at, !.config = k]
  <2>2. /\ r \in FileOp /\ r.at = at /\ r.config = k
    BY <1>1 DEF NoOp, FileOp, FileStage
  <2>3. op' = [op EXCEPT ![p] = r]
    BY <1>d DEF OpGoes
  <2> HIDE DEF r
  <2>4. op'[p] = r /\ UNCHANGED <<config, file, storage, object, overtaken, lost>>
    BY <2>3, <1>d DEF FilesOK, FileTypes, Unmoved
  <2>5. FileReqOK(p)'
    BY <1>1, <2>2, <2>4 DEF FileReqOK
  <2>6. SwitchOK(p)'
    BY <1>0, <1>1, <1>d, <2>2, <2>4 DEF SwitchOK, LiveConfigs, Masters, ConfigRow
  <2> QED  BY <2>2, <2>3, <2>4, <2>5, <2>6, FileGoes
<1>e. CASE FileFails(p)
  <2>1. op' = [op EXCEPT ![p] = NoOp] /\ Unmoved
    BY <1>e DEF FileFails, OpGoes
  <2>2. op'[p] = NoOp /\ UNCHANGED <<config, file, storage, object, overtaken, lost>>
    BY <2>1 DEF FilesOK, FileTypes, Unmoved
  <2>3. FileReqOK(p)' /\ SwitchOK(p)'
    BY <2>2 DEF FileReqOK, SwitchOK, NoOp
  <2> QED  BY <1>2, <2>1, <2>2, <2>3, FileGoes
<1>3. Master \subseteq LiveConfigs
  <2>1. \A k \in Masters : k \in LiveConfigs /\ k \in Nat
    BY <1>1 DEF Masters
  <2>2. \A j, k \in Masters : j = k
    BY <1>0, <2>1 DEF FilesOK, OneMaster, Masters, LiveConfigs, ConfigId
  <2>3. Masters # {} => \E k \in Masters : \A j \in Masters : j <= k
    BY <2>1, <2>2
  <2>4. Masters # {} => (CHOOSE k \in Masters : \A j \in Masters : j <= k) \in Masters
    BY <2>3
  <2> QED  BY <2>1, <2>4 DEF Master
<1>f. Upload(p) \/ Test(p) => FilesOK'
  BY <1>3, <1>a DEF Upload, Test
<1>g. SaveConfig(p) \/ configMaster(p) => FilesOK'
  BY <1>d DEF SaveConfig, configMaster, Checks
<1>h. configDelete(p) => FilesOK'
  BY <1>d DEF configDelete, Checks
<1> QED  BY <1>b, <1>c, <1>e, <1>f, <1>g, <1>h
\* What an upload puts into a storage, and what a deletion takes out of it.
LEMMA StoreSteps ==
  ASSUME FilesOK, NEW p \in Proc,
         PutWhole(p) \/ PutOpens(p) \/ Written(p) \/ Removed(p)
  PROVE  FilesOK'
<1>0. /\ op \in [Proc -> FileOp] /\ op[p] \in FileOp /\ FileReqOK(p) /\ FileTypes
      /\ DOMAIN file = 1 .. Len(file) /\ \A i \in 1 .. Len(file) : FileRowOK(i)
      /\ object \in [Places -> {"none", "torn", "whole"}]
  BY DEF FilesOK, FileTypes
<1>1. NoOp \in FileOp
  BY DEF NoOp, FileOp, FileStage
<1>2. op[p].at \in {"put", "write", "remove"} => Aim(p) \in Places
  BY <1>0, PlaceIn DEF Aim, FileReqOK
<1> DEFINE o == Aim(p)
<1>3. op[p].at \in {"put", "write", "remove"} => o \in Places
  BY <1>2
<1>s. ASSUME Stored(p), UNCHANGED <<storage, config, file>>, op[p].at \in {"put", "write"},
             object'[o] = "whole" \/ o \in lost'
      PROVE  /\ op' \in [Proc -> FileOp] /\ FileReqOK(p)' /\ SwitchOK(p)'
             /\ \A q \in Proc \ {p} : op'[q] = [op[q] EXCEPT !.mixed = op'[q].mixed]
  <2> DEFINE r == IF op[p].row THEN [op[p] EXCEPT !.at = "insert"] ELSE NoOp
  <2>1. r \in FileOp
    BY <1>0, <1>1 DEF FileOp, FileStage
  <2>2. r.at \in {"rest", "insert"} /\ (r.at = "insert" => r.config = op[p].config /\ r.path = op[p].path)
    BY <1>0 DEF FileOp, NoOp
  <2>3. op' = [op EXCEPT ![p] = r]
    BY <1>s DEF Stored, OpGoes
  <2> HIDE DEF r
  <2>4. op'[p] = r /\ op' \in [Proc -> FileOp] /\ \A q \in Proc \ {p} : op'[q] = op[q]
    BY <1>0, <2>1, <2>3
  <2>5. \A q \in Proc \ {p} : op'[q] = [op[q] EXCEPT !.mixed = op'[q].mixed]
    BY <1>0, <2>4 DEF FileOp
  <2>6. Aim(p)' = o \/ r.at # "insert"
    BY <1>s, <2>2, <2>4 DEF Aim, Place
  <2> HIDE DEF o
  <2>7. SwitchOK(p)' /\ FileReqOK(p)'
    BY <1>s, <1>0, <2>2, <2>4, <2>6 DEF SwitchOK, FileReqOK, Kept, Aim
  <2> QED  BY <2>4, <2>5, <2>7
<1>a. CASE PutWhole(p)
  <2>1. /\ op[p].at = "put" /\ object' = [object EXCEPT ![o] = "whole"] /\ lost' = lost \ {o}
        /\ Stored(p) /\ UNCHANGED <<storage, config, file, overtaken>>
    BY <1>a DEF PutWhole
  <2> HIDE DEF o
  <2>2. object' \in [Places -> {"none", "torn", "whole"}] /\ object'[o] = "whole"
    BY <1>0, <1>3, <2>1
  <2>3. \A x \in Places : Kept(x) => (object'[x] = "whole" \/ x \in lost')
    BY <1>0, <1>3, <2>1 DEF Kept
  <2> QED  BY <1>s, <2>1, <2>2, <2>3, FileStores
<1>b. CASE Written(p)
  <2> DEFINE whole == object[o] = "torn" /\ ~ op[p].mixed
  <2>1. /\ op[p].at = "write"
        /\ object' = IF whole THEN [object EXCEPT ![o] = "whole"] ELSE object
        /\ lost' = IF whole THEN lost \ {o} ELSE lost
        /\ Stored(p) /\ UNCHANGED <<storage, config, file, overtaken>>
    BY <1>b DEF Written
  <2>4. Kept(o)
    BY <1>0, <2>1 DEF FileReqOK, Aim
  <2> HIDE DEF o, whole
  <2>2. object' \in [Places -> {"none", "torn", "whole"}]
    BY <1>0, <1>3, <2>1
  <2>3. \A x \in Places : Kept(x) => (object'[x] = "whole" \/ x \in lost')
    BY <1>0, <1>3, <2>1 DEF Kept
  <2>5. object'[o] = "whole" \/ o \in lost'
    BY <1>3, <2>1, <2>3, <2>4
  <2> QED  BY <1>s, <2>1, <2>2, <2>3, <2>5, FileStores
<1>c. CASE PutOpens(p)
  <2> DEFINE others == {q \in Proc \ {p} : op[q].at = "write" /\ Aim(q) = Aim(p)}
  <2>1. /\ op[p].at = "put" /\ object' = [object EXCEPT ![o] = "torn"] /\ lost' = lost \cup {o}
        /\ op' = [q \in Proc |-> IF q = p THEN [op[p] EXCEPT !.at = "write", !.mixed = others # {}]
                                 ELSE IF q \in others THEN [op[q] EXCEPT !.mixed = TRUE] ELSE op[q]]
        /\ UNCHANGED <<storage, config, file, overtaken>>
    BY <1>c DEF PutOpens
  <2> DEFINE r == [op[p] EXCEPT !.at = "write", !.mixed = others # {}]
  <2>2. r \in FileOp /\ r.at = "write" /\ r.config = op[p].config /\ r.path = op[p].path
    BY <1>0 DEF FileOp, FileStage
  <2>3. op'[p] = r
    BY <2>1
  <2>9. Aim(p)' = o
    BY <2>1, <2>2, <2>3 DEF Aim, Place
  <2> HIDE DEF o, others
  <2>4. \A q \in Proc \ {p} : op'[q] = IF q \in others THEN [op[q] EXCEPT !.mixed = TRUE] ELSE op[q]
    BY <2>1
  <2> HIDE DEF r
  <2>5. ASSUME NEW q \in Proc \ {p}
        PROVE  op'[q] = [op[q] EXCEPT !.mixed = op'[q].mixed] /\ op'[q] \in FileOp
    <3>1. op[q] \in FileOp
      BY <1>0
    <3>2. CASE q \in others
      <4>1. op'[q] = [op[q] EXCEPT !.mixed = TRUE]
        BY <2>4, <3>2
      <4> QED  BY <3>1, <4>1 DEF FileOp
    <3>3. CASE q \notin others
      <4>1. op'[q] = op[q]
        BY <2>4, <3>3
      <4> QED  BY <3>1, <4>1 DEF FileOp
    <3> QED  BY <3>2, <3>3
  <2>10. op' = [q \in Proc |-> op'[q]]
    BY <2>1
  <2>6. op' \in [Proc -> FileOp]
    BY <2>2, <2>3, <2>5, <2>10
  <2>7. object' \in [Places -> {"none", "torn", "whole"}] /\ o \in lost'
    BY <1>0, <2>1
  <2>8. \A x \in Places : Kept(x) => (object'[x] = "whole" \/ x \in lost')
    BY <1>0, <1>3, <2>1 DEF Kept
  <2>11. SwitchOK(p)' /\ FileReqOK(p)'
    BY <1>0, <2>1, <2>2, <2>3, <2>7, <2>9 DEF SwitchOK, FileReqOK, Kept, Aim
  <2> QED  BY <2>1, <2>5, <2>6, <2>7, <2>8, <2>11, FileStores
<1>d. CASE Removed(p)
  <2>1. /\ op[p].at = "remove" /\ object' = [object EXCEPT ![o] = "none"]
        /\ lost' = lost \cup {Place(file[op[p].file].config, op[p].path)}
        /\ op' = [op EXCEPT ![p] = [op[p] EXCEPT !.at = "row"]]
        /\ UNCHANGED <<storage, config, file, overtaken>>
    BY <1>d DEF Removed, OpGoes
  <2>2. lost' = lost \cup {o}
    BY <1>0, <2>1 DEF FileReqOK, Aim
  <2> DEFINE r == [op[p] EXCEPT !.at = "row"]
  <2>3. r \in FileOp /\ r.at = "row" /\ r.config = op[p].config /\ r.path = op[p].path /\ r.file = op[p].file
    BY <1>0 DEF FileOp, FileStage
  <2>4. op' = [op EXCEPT ![p] = r]
    BY <2>1
  <2> HIDE DEF r, o
  <2>5. op'[p] = r /\ op' \in [Proc -> FileOp] /\ \A q \in Proc \ {p} : op'[q] = op[q]
    BY <1>0, <2>3, <2>4
  <2>6. \A q \in Proc \ {p} : op'[q] = [op[q] EXCEPT !.mixed = op'[q].mixed]
    BY <1>0, <2>5 DEF FileOp
  <2>7. object' \in [Places -> {"none", "torn", "whole"}]
    BY <1>0, <2>1
  <2>8. \A x \in Places : Kept(x) => (object'[x] = "whole" \/ x \in lost')
    BY <1>0, <1>3, <2>1, <2>2 DEF Kept
  <2>9. SwitchOK(p)' /\ FileReqOK(p)'
    BY <1>0, <2>1, <2>3, <2>5 DEF SwitchOK, FileReqOK
  <2> QED  BY <2>1, <2>5, <2>6, <2>7, <2>8, <2>9, FileStores
<1> QED  BY <1>a, <1>b, <1>c, <1>d
LEMMA InsertStep == ASSUME FilesOK, NEW p \in Proc, InsertFile(p) PROVE FilesOK'
<1> DEFINE n == [config |-> op[p].config, path |-> op[p].path, live |-> TRUE]
<1>0. /\ file \in Seq(FileRow) /\ op[p] \in FileOp /\ FileReqOK(p) /\ FileTypes
      /\ op \in [Proc -> FileOp]
  BY DEF FilesOK, FileTypes
<1>1. /\ op[p].at = "insert" /\ file' = Append(file, n) /\ op' = [op EXCEPT ![p] = NoOp]
      /\ UNCHANGED <<storage, config, object, overtaken, lost>>
  BY DEF InsertFile, OpGoes
<1>2. /\ n \in FileRow /\ n.config \in 1 .. Len(config) /\ Kept(Place(n.config, n.path))
  BY <1>0, <1>1 DEF FileReqOK, FileRow, FileOp
<1> HIDE DEF n
<1>3. /\ file' \in Seq(FileRow) /\ Len(file') = Len(file) + 1 /\ file'[Len(file) + 1] = n
      /\ \A i \in 1 .. Len(file) : file'[i] = file[i]
  BY <1>0, <1>1, <1>2
<1>4. NoOp \in FileOp
  BY DEF NoOp, FileOp, FileStage
<1>5. op' \in [Proc -> FileOp] /\ op'[p] = NoOp /\ \A q \in Proc \ {p} : op'[q] = op[q]
  BY <1>0, <1>1, <1>4
<1>6. FileTypes'
  BY <1>0, <1>1, <1>3, <1>5 DEF FileTypes, Places
<1>7. Len(file) \in Nat
  BY <1>0
<1>8. ASSUME NEW q \in Proc PROVE FileReqOK(q)' /\ SwitchOK(q)'
  <2>1. CASE q = p
    BY <1>5, <2>1 DEF FileReqOK, SwitchOK, NoOp
  <2>2. CASE q # p
    <3>1. FileReqOK(q) /\ SwitchOK(q) /\ op'[q] = op[q]
      BY <1>5, <2>2 DEF FilesOK
    <3>2. op[q].at \in {"open", "remove", "row"} =>
            /\ op[q].file \in 1 .. Len(file')
            /\ op[q].config = file'[op[q].file].config /\ op[q].path = file'[op[q].file].path
      BY <1>3, <1>7, <3>1 DEF FileReqOK
    <3>3. FileReqOK(q)'
      BY <1>1, <3>1, <3>2 DEF FileReqOK, Kept, Place
    <3> QED  BY <1>1, <3>1, <3>3 DEF SwitchOK
  <2> QED  BY <2>1, <2>2
<1>9. ASSUME NEW i \in 1 .. Len(file') PROVE FileRowOK(i)'
  <2>1. CASE i = Len(file) + 1
    BY <1>1, <1>2, <1>3, <2>1 DEF FileRowOK, Kept, Place
  <2>2. CASE i \in 1 .. Len(file)
    BY <1>1, <1>3, <2>2 DEF FilesOK, FileRowOK, Kept, Place
  <2> QED  BY <1>3, <1>7, <2>1, <2>2
<1>10. OneMaster'
  BY <1>1 DEF FilesOK, OneMaster
<1> QED  BY <1>6, <1>8, <1>9, <1>10 DEF FilesOK

LEMMA FileRowGoes == ASSUME FilesOK, NEW p \in Proc, DeleteFile(p) PROVE FilesOK'
<1> DEFINE k == op[p].file
<1>0. /\ file \in Seq(FileRow) /\ op[p] \in FileOp /\ FileReqOK(p) /\ FileTypes
      /\ op \in [Proc -> FileOp]
  BY DEF FilesOK, FileTypes
<1>1. /\ op[p].at = "row" /\ file' = [file EXCEPT ![k].live = FALSE] /\ op' = [op EXCEPT ![p] = NoOp]
      /\ UNCHANGED <<storage, config, object, overtaken, lost>>
  BY DEF DeleteFile, OpGoes
<1>2. k \in 1 .. Len(file)
  BY <1>0, <1>1 DEF FileReqOK
<1> HIDE DEF k
<1> DEFINE n == [file[k] EXCEPT !.live = FALSE]
<1>a. n \in FileRow /\ n.config = file[k].config /\ n.path = file[k].path /\ n.live = FALSE
  <2>1. file[k] \in FileRow
    BY <1>0, <1>2
  <2> QED  BY <2>1 DEF FileRow
<1>c. file' = [file EXCEPT ![k] = n]
  BY <1>1
<1> HIDE DEF n
<1>3. /\ file' \in Seq(FileRow) /\ Len(file') = Len(file) /\ file'[k] = n
      /\ \A i \in 1 .. Len(file) : i # k => file'[i] = file[i]
  BY <1>0, <1>2, <1>a, <1>c
<1>b. \A i \in 1 .. Len(file) : file'[i].config = file[i].config /\ file'[i].path = file[i].path
                                /\ (file'[i].live => file[i].live)
  BY <1>3, <1>a
<1>4. NoOp \in FileOp
  BY DEF NoOp, FileOp, FileStage
<1>5. op' \in [Proc -> FileOp] /\ op'[p] = NoOp /\ \A q \in Proc \ {p} : op'[q] = op[q]
  BY <1>0, <1>1, <1>4
<1>6. FileTypes'
  BY <1>0, <1>1, <1>3, <1>5 DEF FileTypes, Places
<1>8. ASSUME NEW q \in Proc PROVE FileReqOK(q)' /\ SwitchOK(q)'
  <2>1. CASE q = p
    BY <1>5, <2>1 DEF FileReqOK, SwitchOK, NoOp
  <2>2. CASE q # p
    <3>1. FileReqOK(q) /\ SwitchOK(q) /\ op'[q] = op[q]
      BY <1>5, <2>2 DEF FilesOK
    <3>2. op[q].at \in {"open", "remove", "row"} =>
            /\ op[q].file \in 1 .. Len(file')
            /\ op[q].config = file'[op[q].file].config /\ op[q].path = file'[op[q].file].path
      BY <1>3, <1>b, <3>1 DEF FileReqOK
    <3>3. FileReqOK(q)'
      BY <1>1, <3>1, <3>2 DEF FileReqOK, Kept, Place
    <3> QED  BY <1>1, <3>1, <3>3 DEF SwitchOK
  <2> QED  BY <2>1, <2>2
<1>9. \A i \in 1 .. Len(file') : FileRowOK(i)'
  BY <1>1, <1>3, <1>b DEF FilesOK, FileRowOK, Kept, Place
<1>10. OneMaster'
  BY <1>1 DEF FilesOK, OneMaster
<1> QED  BY <1>6, <1>8, <1>9, <1>10 DEF FilesOK

\* What a commit of p on the configurations leaves of the requests of others.
LEMMA OthersLate ==
  ASSUME FilesOK, NEW p \in Proc, NEW r \in FileOp, OpCommits(p, r)
  PROVE  /\ op' \in [Proc -> FileOp] /\ op'[p] = r
         /\ \A q \in Proc \ {p} : /\ op'[q].at = op[q].at /\ op'[q].config = op[q].config
                                  /\ op'[q].path = op[q].path /\ op'[q].file = op[q].file
                                  /\ op[q].at \in {"switch", "drop"} => op'[q].late
<1>1. op \in [Proc -> FileOp]
  BY DEF FilesOK, FileTypes
<1>2. op' = [q \in Proc |-> IF q = p THEN r
                        ELSE IF op[q].at \in {"switch", "drop"} THEN [op[q] EXCEPT !.late = TRUE] ELSE op[q]]
  BY DEF OpCommits
<1>3. ASSUME NEW q \in Proc \ {p}
      PROVE  /\ op'[q] \in FileOp
             /\ op'[q].at = op[q].at /\ op'[q].config = op[q].config
             /\ op'[q].path = op[q].path /\ op'[q].file = op[q].file
             /\ op[q].at \in {"switch", "drop"} => op'[q].late
  <2>1. op[q] \in FileOp
    BY <1>1
  <2>2. CASE op[q].at \in {"switch", "drop"}
    <3>1. op'[q] = [op[q] EXCEPT !.late = TRUE]
      BY <1>2, <2>2
    <3> QED  BY <2>1, <3>1 DEF FileOp
  <2>3. CASE op[q].at \notin {"switch", "drop"}
    <3>1. op'[q] = op[q]
      BY <1>2, <2>3
    <3> QED  BY <2>1, <2>3, <3>1
  <2> QED  BY <2>2, <2>3
<1>4. op'[p] = r
  BY <1>2
<1>5. op' = [q \in Proc |-> op'[q]]
  BY <1>2
<1>6. op' \in [Proc -> FileOp]
  BY <1>3, <1>4, <1>5
<1> QED  BY <1>3, <1>4, <1>6

\* A commit on the configurations keeps what was said of files and of requests.
LEMMA ConfigWritten ==
  ASSUME FilesOK, NEW p \in Proc, OpCommits(p, NoOp),
         UNCHANGED <<storage, file, object, lost>>,
         config' \in Seq(ConfigRow), Len(config') = Len(config), overtaken' \in BOOLEAN,
         OneMaster'
  PROVE  FilesOK'
<1>1. NoOp \in FileOp
  BY DEF NoOp, FileOp, FileStage
<1>2. /\ op' \in [Proc -> FileOp] /\ op'[p] = NoOp
      /\ \A q \in Proc \ {p} : /\ op'[q].at = op[q].at /\ op'[q].config = op[q].config
                               /\ op'[q].path = op[q].path /\ op'[q].file = op[q].file
                               /\ op[q].at \in {"switch", "drop"} => op'[q].late
  BY <1>1, OthersLate
<1>3. FileTypes'
  BY <1>2 DEF FilesOK, FileTypes, Places
<1>4. ASSUME NEW q \in Proc PROVE FileReqOK(q)' /\ SwitchOK(q)'
  <2>1. CASE q = p
    BY <1>2, <2>1 DEF FileReqOK, SwitchOK, NoOp
  <2>2. CASE q # p
    <3>1. FileReqOK(q) /\ SwitchOK(q)
      BY DEF FilesOK
    <3> QED  BY <1>2, <2>2, <3>1 DEF FileReqOK, SwitchOK, Kept, Place
  <2> QED  BY <2>1, <2>2
<1>5. \A i \in 1 .. Len(file') : FileRowOK(i)'
  BY DEF FilesOK, FileRowOK, Kept, Place
<1> QED  BY <1>3, <1>4, <1>5 DEF FilesOK

LEMMA MasterStep == ASSUME FilesOK, NEW p \in Proc, UpdateMaster(p) PROVE FilesOK'
<1> DEFINE c == op[p].config
           row(k) == IF k \in LiveConfigs THEN [config[k] EXCEPT !.master = (k = c)] ELSE config[k]
<1>0. /\ config \in Seq(ConfigRow) /\ DOMAIN config = 1 .. Len(config) /\ op[p] \in FileOp
      /\ Len(config) \in Nat /\ overtaken \in BOOLEAN
  BY DEF FilesOK, FileTypes
<1>1. /\ op[p].at = "switch" /\ config' = [k \in 1 .. Len(config) |-> row(k)]
      /\ overtaken' = (overtaken \/ op[p].late) /\ OpCommits(p, NoOp)
      /\ UNCHANGED <<storage, file, object, lost>>
  BY <1>0 DEF UpdateMaster, ConfigId
<1>2. c \in 1 .. Len(config) /\ (op[p].late \/ config[c].live)
  BY <1>1 DEF FilesOK, FileReqOK, SwitchOK
<1>3. ASSUME NEW k \in 1 .. Len(config)
      PROVE  row(k) \in ConfigRow /\ row(k).live = config[k].live
             /\ (config[k].live => row(k).master = (k = c))
  <2>1. config[k] \in ConfigRow /\ (k \in LiveConfigs <=> config[k].live)
    BY <1>0 DEF LiveConfigs, ConfigId
  <2> QED  BY <2>1 DEF ConfigRow
<1> HIDE DEF row, c
<1>4. config' \in Seq(ConfigRow) /\ Len(config') = Len(config)
  <2>1. config' \in [1 .. Len(config) -> ConfigRow]
    BY <1>1, <1>3
  <2> QED  BY <1>0, <2>1
<1>5. \A k \in 1 .. Len(config) : config'[k].live = config[k].live
                                  /\ (config[k].live => config'[k].master = (k = c))
  BY <1>1, <1>3
<1>6. op[p].late \in BOOLEAN
  BY <1>0 DEF FileOp
<1>7. OneMaster'
  BY <1>1, <1>2, <1>4, <1>5 DEF OneMaster
<1>8. overtaken' \in BOOLEAN
  BY <1>0, <1>1, <1>6
<1> QED  BY <1>1, <1>4, <1>7, <1>8, ConfigWritten

LEMMA ConfigGoes == ASSUME FilesOK, NEW p \in Proc, DeleteConfig(p) PROVE FilesOK'
<1> DEFINE c == op[p].config
<1>0. /\ config \in Seq(ConfigRow) /\ DOMAIN config = 1 .. Len(config) /\ op[p] \in FileOp
      /\ Len(config) \in Nat /\ overtaken \in BOOLEAN
  BY DEF FilesOK, FileTypes
<1>1. /\ op[p].at = "drop" /\ config' = [config EXCEPT ![c].live = FALSE]
      /\ overtaken' = (overtaken \/ op[p].late) /\ OpCommits(p, NoOp)
      /\ UNCHANGED <<storage, file, object, lost>>
  BY DEF DeleteConfig
<1>2. c \in 1 .. Len(config) /\ (op[p].late \/ (config[c].live /\ ~ config[c].master))
  BY <1>1 DEF FilesOK, FileReqOK, SwitchOK
<1> HIDE DEF c
<1>3. config[c] \in ConfigRow /\ [config[c] EXCEPT !.live = FALSE] \in ConfigRow
      /\ [config[c] EXCEPT !.live = FALSE].live = FALSE
  <2>1. config[c] \in ConfigRow
    BY <1>0, <1>2
  <2> QED  BY <2>1 DEF ConfigRow
<1>4. config' \in Seq(ConfigRow) /\ Len(config') = Len(config)
  BY <1>0, <1>1, <1>2, <1>3
<1>5. config'[c].live = FALSE /\ \A k \in 1 .. Len(config) : k # c => config'[k] = config[k]
  BY <1>0, <1>1, <1>2, <1>3
<1>6. op[p].late \in BOOLEAN
  BY <1>0 DEF FileOp
<1>7. OneMaster
  BY DEF FilesOK
<1>8. OneMaster'
  <2>1. \A k \in 1 .. Len(config) : config'[k].live /\ config'[k].master =>
                                     config[k].live /\ config[k].master
    BY <1>5
  <2>2. ~ op[p].late => \A k \in 1 .. Len(config) : config[k].live /\ config[k].master =>
                                                    config'[k].live /\ config'[k].master
    BY <1>2, <1>5
  <2> QED  BY <1>1, <1>4, <1>7, <2>1, <2>2 DEF OneMaster
<1>9. overtaken' \in BOOLEAN
  BY <1>0, <1>1, <1>6
<1> QED  BY <1>1, <1>4, <1>8, <1>9, ConfigWritten

LEMMA ConfigComes == ASSUME FilesOK, NEW p \in Proc, CreateConfig(p) PROVE FilesOK'
<1> DEFINE n == [live |-> TRUE, master |-> FALSE]
<1>0. /\ config \in Seq(ConfigRow) /\ Len(config) \in Nat /\ MaxConfig \in Nat
      /\ FileTypes /\ op \in [Proc -> FileOp]
  BY FilesAssumption DEF FilesOK, FileTypes
<1>1. /\ Len(config) < MaxConfig /\ config' = Append(config, n)
      /\ UNCHANGED <<storage, file, object, op, overtaken, lost>>
  BY DEF CreateConfig
<1>2. n \in ConfigRow /\ n.live /\ ~ n.master
  BY DEF ConfigRow
<1> HIDE DEF n
<1>3. /\ config' \in Seq(ConfigRow) /\ Len(config') = Len(config) + 1 /\ config'[Len(config) + 1] = n
      /\ \A i \in 1 .. Len(config) : config'[i] = config[i]
  BY <1>0, <1>1, <1>2
<1>4. FileTypes'
  BY <1>0, <1>1, <1>3 DEF FileTypes, Places
<1>5. \A i \in 1 .. Len(config) : i \in 1 .. Len(config')
  BY <1>0, <1>3
<1>6. ASSUME NEW q \in Proc PROVE FileReqOK(q)' /\ SwitchOK(q)'
  <2>1. FileReqOK(q) /\ SwitchOK(q)
    BY DEF FilesOK
  <2>2. FileReqOK(q)'
    BY <1>1, <1>5, <2>1 DEF FileReqOK, Kept, Place
  <2>3. op[q].at \in {"switch", "drop"} => op[q].config \in 1 .. Len(config)
    BY <2>1 DEF FileReqOK
  <2>4. SwitchOK(q)'
    BY <1>1, <1>3, <2>1, <2>3 DEF SwitchOK
  <2> QED  BY <2>2, <2>4
<1>7. \A i \in 1 .. Len(file') : FileRowOK(i)'
  BY <1>1, <1>5 DEF FilesOK, FileRowOK, Kept, Place
<1>8. OneMaster
  BY DEF FilesOK
<1>9. \A j \in 1 .. Len(config') : j \in 1 .. Len(config) \/ (j = Len(config) + 1 /\ config'[j] = n)
  BY <1>0, <1>3
<1>10. OneMaster'
  BY <1>1, <1>2, <1>3, <1>5, <1>8, <1>9 DEF OneMaster
<1> QED  BY <1>4, <1>6, <1>7, <1>10 DEF FilesOK

LEMMA ConfigMoves == ASSUME FilesOK, NEW p \in Proc, UpdateConfig(p) PROVE FilesOK'
<1>1. NoOp \in FileOp
  BY DEF NoOp, FileOp, FileStage
<1>2. op' = [op EXCEPT ![p] = NoOp] /\ UNCHANGED <<storage, config, file, object, overtaken, lost>>
  BY DEF UpdateConfig, OpGoes
<1>3. op'[p] = NoOp
  BY <1>2 DEF FilesOK, FileTypes
<1>4. FileReqOK(p)' /\ SwitchOK(p)'
  BY <1>3 DEF FileReqOK, SwitchOK, NoOp
<1> QED  BY <1>1, <1>2, <1>4, FileGoes

LEMMA FilesStep == ASSUME FilesOK, FilesNext PROVE FilesOK'
<1>1. PICK p \in Proc : FileRequest(p) \/ FileStep(p)
  BY DEF FilesNext
<1>2. \/ Upload(p) \/ Test(p) \/ FindFile(p) \/ clientByID(p) \/ SaveConfig(p)
      \/ configMaster(p) \/ configDelete(p) \/ FileFails(p)
      \/ PutWhole(p) \/ PutOpens(p) \/ Written(p) \/ Removed(p)
      \/ InsertFile(p) \/ DeleteFile(p)
      \/ CreateConfig(p) \/ UpdateConfig(p) \/ UpdateMaster(p) \/ DeleteConfig(p)
  BY <1>1 DEF FileRequest, FileStep, dbUpload, s3Upload, localUpload, ftpUpload, sftpUpload,
              dbDelete, s3Delete, localDelete, ftpDelete, sftpDelete
<1> QED  BY <1>2, UploadSteps, StoreSteps, InsertStep, FileRowGoes, MasterStep, ConfigGoes,
            ConfigComes, ConfigMoves

LEMMA FilesStutter == ASSUME FilesOK, UNCHANGED fileVars PROVE FilesOK'
<1>1. /\ UNCHANGED <<storage, config, file, object, op, overtaken, lost>>
  BY DEF fileVars
<1>2. FileTypes' /\ OneMaster'
  BY <1>1 DEF FilesOK, FileTypes, Places, OneMaster
<1>3. \A p \in Proc : FileReqOK(p)' /\ SwitchOK(p)'
  BY <1>1 DEF FilesOK, FileReqOK, SwitchOK, Kept, Place
<1>4. \A i \in 1 .. Len(file') : FileRowOK(i)'
  BY <1>1 DEF FilesOK, FileRowOK, Kept, Place
<1> QED  BY <1>2, <1>3, <1>4 DEF FilesOK

LEMMA FilesInvariant == FilesSpec => []FilesOK
<1>1. FilesOK /\ [FilesNext]_fileVars => FilesOK'
  BY FilesStep, FilesStutter
<1> QED  BY <1>1, FilesStart, PTL DEF FilesSpec

\* There is never more than one master among the configurations of file storages,
\* and always one unless a change of the master or the deletion of a configuration
\* was overtaken by another one between its check and its write (service.go:200,
\* mysql.go:93).  What an administrator has seen of a configuration, that it is
\* there, or that it is not the master, is still so when he writes, unless he was
\* overtaken: this keeps the one master, and the one transaction that changes it
\* touches all other rows.
THEOREM MasterStays == FilesSpec => []MasterKept
<1>1. ASSUME FilesOK PROVE MasterKept
  <2>0. DOMAIN config = 1 .. Len(config) /\ OneMaster
    BY <1>1 DEF FilesOK, FileTypes
  <2>1. \A k : k \in Masters <=> k \in 1 .. Len(config) /\ config[k].live /\ config[k].master
    BY <2>0 DEF Masters, LiveConfigs, ConfigId
  <2>2. CASE Masters = {}
    <3>1. Cardinality(Masters) = 0
      BY <2>2, FS_EmptySet
    <3>2. overtaken
      BY <2>0, <2>1, <2>2 DEF OneMaster
    <3> QED  BY <3>1, <3>2 DEF MasterKept
  <2>3. CASE Masters # {}
    <3>1. PICK k \in Masters : TRUE
      BY <2>3
    <3>2. Masters = {k}
      BY <2>0, <2>1, <3>1 DEF OneMaster
    <3>3. Cardinality(Masters) = 1
      BY <3>2, FS_Singleton
    <3> QED  BY <2>3, <3>3 DEF MasterKept
  <2> QED  BY <2>2, <2>3
<1> QED  BY <1>1, FilesInvariant, PTL

\* The object of every file that is not deleted is whole in the storage of its
\* configuration, or it is on record that it was deleted or written over there
\* (service.go:54,140, path.go:11): a row is inserted only after its object is
\* whole or was written over, and only a deletion, which takes the storage from the
\* row of the file, and a write that opens the file again take an object away.
THEOREM FilesStay == FilesSpec => []FilesKept
<1>1. ASSUME FilesOK PROVE FilesKept
  <2>1. DOMAIN file = 1 .. Len(file) /\ \A i \in 1 .. Len(file) : FileRowOK(i)
    BY <1>1 DEF FilesOK, FileTypes
  <2> QED  BY <2>1 DEF FilesKept, FileRowOK, Kept
<1> QED  BY <1>1, FilesInvariant, PTL

-----------------------------------------------------------------------------
(* Messages *)

SendStage == {"rest", "insert", "call", "finish", "status", "apply", "notify"}
LogRow == [send : {"init", "success", "failure"}, serial : BOOLEAN, receive : Verdict \cup {None}]
Report == [row : Nat, verdict : Verdict]
Sender == [at : SendStage, forCode : BOOLEAN, on : BOOLEAN, row : Nat, ok : BOOLEAN,
           serial : BOOLEAN, lost : BOOLEAN, batch : Seq(Report), to : Addressee \cup {None}]

\* Every vendor but the debugging robot tells of a message it does not have.
Honest == channel # "DEBUG_DING_TALK"

LogTypes ==
  /\ channel \in Channel
  /\ logs \in Seq(LogRow)
  /\ accepted \subseteq 1 .. Len(logs) /\ kept \subseteq 1 .. Len(logs)
  /\ sender \in [Proc -> Sender]

\* What request p knows of its row, or of the reports it has still to apply.
SenderOK(p) ==
  LET s == sender[p] IN
  /\ s.at \in {"call", "finish", "status"} => s.row \in 1 .. Len(logs)
  /\ s.at = "finish" /\ s.ok /\ Honest => s.row \in accepted
  /\ s.at = "apply" => s.batch # <<>>
  /\ \A k \in 1 .. Len(s.batch) : s.batch[k].row \in 1 .. Len(logs)

\* Row i says of the vendor and of the reports what is so.
LogRowOK(i) ==
  /\ Honest /\ (logs[i].send = "success" \/ i \in kept) => i \in accepted
  /\ logs[i].send = "init" => \/ i \in abandoned
                              \/ \E p \in Proc : sender[p].row = i /\ sender[p].at \in {"call", "finish"}
  /\ logs[i].receive # None => [row |-> i, verdict |-> logs[i].receive] \in answered
  /\ (\E r \in answered \ early : r.row = i) => logs[i].receive # None

MessagesOK ==
  /\ LogTypes
  /\ \A p \in Proc : SenderOK(p)
  /\ \A i \in 1 .. Len(logs) : LogRowOK(i)
  /\ \A r \in answered : r.row \in 1 .. Len(logs)
  /\ channel # "TENCENT" => early = {}

LEMMA VendorHas ==
  ASSUME NEW c \in Channel, NEW r \in {Reply("good", TRUE), Reply("bad", FALSE), Reply("none", FALSE)}
  PROVE  /\ sendVendorSMS(c, r).ok \in BOOLEAN /\ sendVendorSMS(c, r).serial \in BOOLEAN
         /\ c # "DEBUG_DING_TALK" /\ sendVendorSMS(c, r).ok => r.code = "good"
<1> USE DEF Reply, Result, Channel, SmsChannel
<1>1. /\ r.code = "good" \/ r.code = "bad" \/ r.code = "none"
      /\ r.serial = TRUE \/ r.serial = FALSE
      /\ r.serial = TRUE => r.code = "good"
  <2>1. CASE r = [code |-> "good", serial |-> TRUE]
    BY <2>1
  <2>2. CASE r = [code |-> "bad", serial |-> FALSE]
    BY <2>2
  <2>3. CASE r = [code |-> "none", serial |-> FALSE]
    BY <2>3
  <2> QED  BY <2>1, <2>2, <2>3
<1>2. CASE c = "ALIYUN"
  BY <1>1, <1>2 DEF sendVendorSMS, sendAliyun
<1>3. CASE c = "TENCENT"
  BY <1>1, <1>3 DEF sendVendorSMS, sendTencent
<1>4. CASE c = "HUAWEI"
  BY <1>1, <1>4 DEF sendVendorSMS, sendHuawei
<1>5. CASE c = "QINIU"
  BY <1>1, <1>5 DEF sendVendorSMS, sendQiniu
<1>6. CASE c = "DEBUG_DING_TALK"
  BY <1>1, <1>6 DEF sendVendorSMS, dingTalkSend
<1>7. CASE c \in {"mail", "site"}
  BY <1>1, <1>7 DEF sendVendorSMS, smtpSend
<1> QED  BY <1>2, <1>3, <1>4, <1>5, <1>6, <1>7

LEMMA RowFound ==
  ASSUME LogTypes, NEW r \in Report, r.row \in 1 .. Len(logs)
  PROVE  /\ RowOf(parseSmsReceipts(channel, r)) \subseteq {r.row}
         /\ channel # "TENCENT" => RowOf(parseSmsReceipts(channel, r)) = {r.row}
<1>1. DOMAIN logs = 1 .. Len(logs) /\ r.row # 0
  BY DEF LogTypes
<1> DEFINE f == parseSmsReceipts(channel, r)
<1>2. channel = "TENCENT" => f.id = 0 /\ f.serial = r.row
  BY DEF parseSmsReceipts, parseTencent
<1>3. channel # "TENCENT" => f.id = r.row
  BY DEF parseSmsReceipts, parseAliyun, parseHuawei, parseQiniu
<1>4. channel # "TENCENT" => RowOf(f) = {r.row}
  BY <1>1, <1>3 DEF RowOf
<1>5. channel = "TENCENT" => RowOf(f) \subseteq {r.row}
  BY <1>1, <1>2 DEF RowOf
<1> QED  BY <1>4, <1>5

LEMMA IdleFits == IdleSender \in Sender /\ IdleSender.at = "rest" /\ IdleSender.batch = <<>>
BY DEF IdleSender, Sender, SendStage

LEMMA MessagesStart == MessagesInit => MessagesOK
<1> SUFFICES ASSUME MessagesInit PROVE MessagesOK  OBVIOUS
<1> USE DEF MessagesInit
<1>1. LogTypes
  BY IdleFits DEF LogTypes
<1>2. \A p \in Proc : SenderOK(p)
  BY IdleFits DEF SenderOK
<1> QED  BY <1>1, <1>2 DEF MessagesOK

\* Request p goes on to s; the rows stay.
LEMMA SenderMoves ==
  ASSUME MessagesOK, NEW p \in Proc, NEW s \in Sender, SenderGoes(p, s),
         UNCHANGED <<channel, logs>>, answered' = answered, early' = early,
         accepted \subseteq accepted', accepted' \subseteq 1 .. Len(logs),
         SenderOK(p)',
         \A i \in kept' \ kept : i \in 1 .. Len(logs) /\ (Honest => i \in accepted),
         abandoned \subseteq abandoned',
         \/ sender[p].at \notin {"call", "finish"} \/ sender[p].row \in abandoned'
         \/ sender[p].row = s.row /\ s.at \in {"call", "finish"}
  PROVE  MessagesOK'
<1>1. sender' = [sender EXCEPT ![p] = s] /\ sender \in [Proc -> Sender]
  BY DEF SenderGoes, MessagesOK, LogTypes
<1>2. sender' \in [Proc -> Sender] /\ sender'[p] = s /\ \A q \in Proc : q # p => sender'[q] = sender[q]
  BY <1>1
<1>3. LogTypes'
  BY <1>2 DEF MessagesOK, LogTypes
<1>4. ASSUME NEW q \in Proc PROVE SenderOK(q)'
  <2>1. CASE q = p
    BY <2>1
  <2>2. CASE q # p
    <3>1. SenderOK(q) /\ sender'[q] = sender[q]
      BY <1>2, <2>2 DEF MessagesOK
    <3> QED  BY <3>1 DEF SenderOK, Honest
  <2> QED  BY <2>1, <2>2
<1>5. ASSUME NEW i \in 1 .. Len(logs) PROVE LogRowOK(i)'
  <2>1. LogRowOK(i)
    BY DEF MessagesOK
  <2>2. Honest' /\ (logs'[i].send = "success" \/ i \in kept') => i \in accepted'
    BY <2>1 DEF LogRowOK, Honest
  <2>3. ASSUME logs[i].send = "init", i \notin abandoned'
        PROVE  \E q \in Proc : sender'[q].row = i /\ sender'[q].at \in {"call", "finish"}
    <3>1. PICK q \in Proc : sender[q].row = i /\ sender[q].at \in {"call", "finish"}
      BY <2>1, <2>3 DEF LogRowOK
    <3>2. sender'[q].row = i /\ sender'[q].at \in {"call", "finish"}
      BY <1>2, <2>3, <3>1
    <3> QED  BY <3>2
  <2> QED  BY <2>1, <2>2, <2>3 DEF LogRowOK
<1> QED  BY <1>3, <1>4, <1>5 DEF MessagesOK

LEMMA SenderSteps ==
  ASSUME MessagesOK, NEW p \in Proc,
         SendSmsTo(p) \/ SendMail(p) \/ ReceiveSms(p) \/ SendNotify(p) \/ SendAborts(p)
  PROVE  MessagesOK'
<1>0. /\ sender \in [Proc -> Sender] /\ sender[p] \in Sender /\ SenderOK(p)
      /\ DOMAIN logs = 1 .. Len(logs) /\ accepted \subseteq 1 .. Len(logs)
  BY DEF MessagesOK, LogTypes
<1>1. ASSUME NEW s \in Sender, SenderGoes(p, s), s.at \notin {"call", "finish", "status"},
             s.at = "apply" => s.batch # <<>>,
             \A k \in 1 .. Len(s.batch) : s.batch[k].row \in 1 .. Len(logs),
             UNCHANGED <<channel, logs, accepted, kept, answered, early>>,
             abandoned \subseteq abandoned',
             sender[p].at \notin {"call", "finish"} \/ sender[p].row \in abandoned'
      PROVE  MessagesOK'
  <2>1. sender'[p] = s
    BY <1>0, <1>1 DEF SenderGoes
  <2>2. SenderOK(p)'
    BY <1>1, <2>1 DEF SenderOK, Honest
  <2>3. \A i \in kept' \ kept : i \in 1 .. Len(logs) /\ (Honest => i \in accepted)
    BY <1>1
  <2>4. accepted \subseteq accepted' /\ accepted' \subseteq 1 .. Len(logs)
    BY <1>0, <1>1
  <2> QED  BY <1>1, <2>2, <2>3, <2>4, SenderMoves
<1>2. ASSUME NEW s \in Sender, SenderGoes(p, s), s.at \in {"insert", "notify"}, s.batch = <<>>,
             sender[p] = IdleSender,
             UNCHANGED <<channel, logs, accepted, kept, answered, early, abandoned>>
      PROVE  MessagesOK'
  BY <1>1, <1>2, IdleFits
<1>a. CASE SendSmsTo(p)
  <2>1. PICK forCode \in BOOLEAN, on \in BOOLEAN :
           SenderGoes(p, [IdleSender EXCEPT !.at = "insert", !.forCode = forCode, !.on = on])
    BY <1>a DEF SendSmsTo
  <2> DEFINE s == [IdleSender EXCEPT !.at = "insert", !.forCode = forCode, !.on = on]
  <2>2. s \in Sender /\ s.at = "insert" /\ s.batch = <<>>
    BY IdleFits DEF Sender, SendStage, IdleSender
  <2> QED  BY <1>2, <1>a, <2>1, <2>2 DEF SendSmsTo
<1>b. CASE SendMail(p)
  <2>1. PICK on \in BOOLEAN : SenderGoes(p, [IdleSender EXCEPT !.at = "insert", !.on = on])
    BY <1>b DEF SendMail
  <2> DEFINE s == [IdleSender EXCEPT !.at = "insert", !.on = on]
  <2>2. s \in Sender /\ s.at = "insert" /\ s.batch = <<>>
    BY IdleFits DEF Sender, SendStage, IdleSender
  <2> QED  BY <1>2, <1>b, <2>1, <2>2 DEF SendMail
<1>c. CASE SendNotify(p)
  <2>1. PICK to \in Addressee : SenderGoes(p, [IdleSender EXCEPT !.at = "notify", !.to = to])
    BY <1>c DEF SendNotify, Addressee
  <2> DEFINE s == [IdleSender EXCEPT !.at = "notify", !.to = to]
  <2>2. s \in Sender /\ s.at = "notify" /\ s.batch = <<>>
    BY IdleFits DEF Sender, SendStage, IdleSender
  <2> QED  BY <1>2, <1>c, <2>1, <2>2 DEF SendNotify
<1>d. CASE ReceiveSms(p)
  <2>1. PICK b \in Batches : SenderGoes(p, [IdleSender EXCEPT !.at = "apply", !.batch = b])
    BY <1>d DEF ReceiveSms
  <2>2. \A r \in Reports : r \in Report /\ r.row \in 1 .. Len(logs)
    <3>1. Len(logs) \in Nat /\ accepted \subseteq Nat
      BY <1>0 DEF MessagesOK, LogTypes
    <3>2. Reports \subseteq [row : accepted, verdict : Verdict]
      BY DEF Reports
    <3> QED  BY <1>0, <3>1, <3>2 DEF Report
  <2>3. (\E r \in Reports : b = <<r>>) \/ (\E r, t \in Reports : b = <<r, t>>)
    BY <2>1 DEF Batches
  <2>4. b \in Seq(Report) /\ b # <<>> /\ \A k \in 1 .. Len(b) : b[k].row \in 1 .. Len(logs)
    <3>1. ASSUME NEW r \in Reports, b = <<r>> PROVE b \in Seq(Report) /\ b # <<>> /\ \A k \in 1 .. Len(b) : b[k].row \in 1 .. Len(logs)
      BY <2>2, <3>1
    <3>2. ASSUME NEW r \in Reports, NEW t \in Reports, b = <<r, t>> PROVE b \in Seq(Report) /\ b # <<>> /\ \A k \in 1 .. Len(b) : b[k].row \in 1 .. Len(logs)
      <4>1. Len(b) = 2 /\ b[1] = r /\ b[2] = t /\ b \in Seq(Report) /\ b # <<>>
        BY <2>2, <3>2
      <4> QED  BY <2>2, <4>1
    <3> QED  BY <2>3, <3>1, <3>2
  <2> DEFINE s == [IdleSender EXCEPT !.at = "apply", !.batch = b]
  <2>5. s \in Sender /\ s.at = "apply" /\ s.batch = b
    BY <2>4, IdleFits DEF Sender, SendStage, IdleSender
  <2>6. SenderGoes(p, s)
    BY <2>1
  <2> HIDE DEF s
  <2> QED  BY <1>1, <1>d, <2>4, <2>5, <2>6, IdleFits DEF ReceiveSms
<1>e. CASE SendAborts(p)
  <2>1. SenderGoes(p, IdleSender) /\ UNCHANGED <<channel, logs, accepted, kept, answered, early>>
    BY <1>e DEF SendAborts, SenderRests
  <2>2. abandoned \subseteq abandoned' /\ (sender[p].at \notin {"call", "finish"} \/ sender[p].row \in abandoned')
    BY <1>e DEF SendAborts
  <2> QED  BY <1>1, <2>1, <2>2, IdleFits
<1> QED  BY <1>a, <1>b, <1>c, <1>d, <1>e

LEMMA CallStep == ASSUME MessagesOK, NEW p \in Proc, CallVendor(p) PROVE MessagesOK'
<1> DEFINE i == sender[p].row
<1>0. /\ sender \in [Proc -> Sender] /\ sender[p] \in Sender /\ SenderOK(p)
      /\ channel \in Channel /\ accepted \subseteq 1 .. Len(logs)
  BY DEF MessagesOK, LogTypes
<1>1. PICK taken \in BOOLEAN, fails \in BOOLEAN,
           r \in {Reply("good", TRUE), Reply("bad", FALSE), Reply("none", FALSE)} :
       /\ r.code = "good" => taken
       /\ accepted' = IF taken THEN accepted \cup {i} ELSE accepted
       /\ LET says == IF fails THEN Result(FALSE, FALSE) ELSE sendVendorSMS(channel, r)
          IN SenderGoes(p, [sender[p] EXCEPT !.at = "finish", !.ok = says.ok,
                                             !.serial = says.serial, !.lost = fails])
  BY DEF CallVendor
<1> DEFINE says == IF fails THEN Result(FALSE, FALSE) ELSE sendVendorSMS(channel, r)
           s == [sender[p] EXCEPT !.at = "finish", !.ok = says.ok, !.serial = says.serial, !.lost = fails]
<1>2. /\ sender[p].at = "call" /\ SenderGoes(p, s)
      /\ UNCHANGED <<channel, logs, inbox, kept, answered, early, abandoned>>
  BY <1>1 DEF CallVendor
<1>3. i \in 1 .. Len(logs)
  BY <1>0, <1>2 DEF SenderOK
<1>4. says.ok \in BOOLEAN /\ says.serial \in BOOLEAN /\ (says.ok /\ Honest => taken)
  <2>1. CASE fails
    BY <2>1 DEF Result
  <2>2. CASE ~ fails
    BY <1>0, <1>1, <2>2, VendorHas DEF Honest
  <2> QED  BY <2>1, <2>2
<1> HIDE DEF says
<1>5. /\ s \in Sender /\ s.at = "finish" /\ s.ok = says.ok /\ s.row = i /\ s.batch = sender[p].batch
  BY <1>0, <1>4 DEF Sender, SendStage
<1> HIDE DEF s
<1>6. accepted \subseteq accepted' /\ accepted' \subseteq 1 .. Len(logs) /\ (taken => i \in accepted')
  BY <1>0, <1>1, <1>3
<1>7. sender'[p] = s
  BY <1>0, <1>2 DEF SenderGoes
<1>8. SenderOK(p)'
  BY <1>0, <1>2, <1>3, <1>4, <1>5, <1>6, <1>7 DEF SenderOK, Honest
<1>9. \A j \in kept' \ kept : j \in 1 .. Len(logs) /\ (Honest => j \in accepted)
  BY <1>2
<1> QED  BY <1>2, <1>5, <1>6, <1>8, <1>9, SenderMoves

\* Where a request goes after it is done with row i.
LEMMA After ==
  ASSUME MessagesOK, NEW p \in Proc, NEW i \in 1 .. Len(logs), AfterSend(p, i)
  PROVE  \E s \in Sender : /\ SenderGoes(p, s) /\ s.at \in {"rest", "status"}
                           /\ s.at = "status" => s.row = i
                           /\ s.batch = <<>> \/ s.batch = sender[p].batch
<1>0. sender[p] \in Sender /\ Len(logs) \in Nat
  BY DEF MessagesOK, LogTypes
<1>1. CASE sender[p].forCode
  <2> DEFINE s == [sender[p] EXCEPT !.at = "status", !.row = i]
  <2>0. i \in Nat
    BY <1>0
  <2>1. s \in Sender /\ s.at = "status" /\ s.row = i /\ s.batch = sender[p].batch
    BY <1>0, <2>0 DEF Sender, SendStage
  <2>2. SenderGoes(p, s)
    BY <1>1 DEF AfterSend
  <2> QED  BY <2>1, <2>2
<1>2. CASE ~ sender[p].forCode
  BY <1>2, IdleFits DEF AfterSend, SenderRests
<1> QED  BY <1>1, <1>2
\* The row of p is inserted.
LEMMA InsertLogStep == ASSUME MessagesOK, NEW p \in Proc, InsertLog(p) PROVE MessagesOK'
<1> DEFINE i == Len(logs) + 1
           n == [send |-> IF sender[p].on THEN "init" ELSE "failure", serial |-> FALSE, receive |-> None]
<1>0. /\ sender \in [Proc -> Sender] /\ sender[p] \in Sender /\ SenderOK(p) /\ logs \in Seq(LogRow)
      /\ Len(logs) \in Nat /\ accepted \subseteq 1 .. Len(logs) /\ channel \in Channel
      /\ kept \subseteq 1 .. Len(logs)
  BY DEF MessagesOK, LogTypes
<1>1. /\ sender[p].at = "insert" /\ logs' = Append(logs, n)
      /\ IF sender[p].on THEN SenderGoes(p, [sender[p] EXCEPT !.at = "call", !.row = i]) ELSE AfterSend(p, i)
      /\ UNCHANGED <<channel, accepted, kept, answered, early, abandoned>>
  BY DEF InsertLog
<1>2. n \in LogRow /\ n.send # "success" /\ n.receive = None
      /\ (n.send = "init" => sender[p].on)
  BY DEF LogRow
<1> HIDE DEF n
<1>3. /\ logs' \in Seq(LogRow) /\ Len(logs') = i /\ logs'[i] = n
      /\ \A j \in 1 .. Len(logs) : logs'[j] = logs[j]
  BY <1>0, <1>1, <1>2
<1>4. \E s \in Sender : /\ SenderGoes(p, s) /\ s.at \in {"rest", "status", "call"}
                        /\ s.at \in {"call", "status"} => s.row = i
                        /\ s.batch = <<>> \/ s.batch = sender[p].batch
                        /\ sender[p].on => s.at = "call"
  <2>0. i \in Nat
    BY <1>0
  <2>1. CASE sender[p].on
    <3> DEFINE s == [sender[p] EXCEPT !.at = "call", !.row = i]
    <3>1. s \in Sender /\ s.at = "call" /\ s.row = i /\ s.batch = sender[p].batch
      BY <1>0, <2>0 DEF Sender, SendStage
    <3>2. SenderGoes(p, s)
      BY <1>1, <2>1
    <3> QED  BY <3>1, <3>2
  <2>2. CASE ~ sender[p].on /\ sender[p].forCode
    <3> DEFINE s == [sender[p] EXCEPT !.at = "status", !.row = i]
    <3>1. s \in Sender /\ s.at = "status" /\ s.row = i /\ s.batch = sender[p].batch
      BY <1>0, <2>0 DEF Sender, SendStage
    <3>2. SenderGoes(p, s)
      BY <1>1, <2>2 DEF AfterSend
    <3> QED  BY <2>2, <3>1, <3>2
  <2>3. CASE ~ sender[p].on /\ ~ sender[p].forCode
    BY <1>1, <2>3, IdleFits DEF AfterSend, SenderRests
  <2> QED  BY <2>1, <2>2, <2>3
<1>5. PICK s \in Sender : /\ SenderGoes(p, s) /\ s.at \in {"rest", "status", "call"}
                          /\ s.at \in {"call", "status"} => s.row = i
                          /\ s.batch = <<>> \/ s.batch = sender[p].batch
                          /\ sender[p].on => s.at = "call"
  BY <1>4
<1>6. sender' \in [Proc -> Sender] /\ sender'[p] = s /\ \A q \in Proc : q # p => sender'[q] = sender[q]
  BY <1>0, <1>5 DEF SenderGoes
<1>7. \A j \in 1 .. Len(logs) : j \in 1 .. i
  BY <1>0
<1>13. i \in 1 .. i
  BY <1>0
<1> HIDE DEF i
<1>8. LogTypes'
  BY <1>0, <1>1, <1>3, <1>6, <1>7 DEF LogTypes
<1>9. ASSUME NEW q \in Proc PROVE SenderOK(q)'
  <2>1. CASE q = p
    <3>1. \A k \in 1 .. Len(s.batch) : s.batch[k].row \in 1 .. Len(logs)
      BY <1>0, <1>5 DEF SenderOK
    <3> QED  BY <1>3, <1>5, <1>6, <1>7, <1>13, <2>1, <3>1 DEF SenderOK
  <2>2. CASE q # p
    <3>1. SenderOK(q) /\ sender'[q] = sender[q]
      BY <1>6, <2>2 DEF MessagesOK
    <3> QED  BY <1>1, <1>3, <1>7, <3>1 DEF SenderOK, Honest
  <2> QED  BY <2>1, <2>2
<1>10. ASSUME NEW j \in 1 .. Len(logs) PROVE LogRowOK(j)'
  <2>1. LogRowOK(j) /\ logs'[j] = logs[j]
    BY <1>3 DEF MessagesOK
  <2>2. \A q \in Proc : sender[q].at \in {"call", "finish"} => sender'[q] = sender[q]
    BY <1>1, <1>6
  <2>3. logs'[j].send = "init" /\ j \notin abandoned' =>
          \E q \in Proc : sender'[q].row = j /\ sender'[q].at \in {"call", "finish"}
    BY <1>1, <2>1, <2>2 DEF LogRowOK
  <2> QED  BY <1>1, <2>1, <2>3 DEF LogRowOK, Honest
<1>11. ASSUME NEW j \in 1 .. Len(logs'), j = i PROVE LogRowOK(j)'
  <2>1. i \notin 1 .. Len(logs)
    BY <1>0 DEF i
  <2>2. \A r \in answered' \ early' : r.row # j
    BY <1>1, <1>11, <2>1 DEF MessagesOK
  <2>3. logs'[j].send = "init" => sender'[p].row = j /\ sender'[p].at \in {"call", "finish"}
    BY <1>2, <1>3, <1>5, <1>6, <1>11
  <2>4. j \notin kept'
    BY <1>0, <1>1, <1>11, <2>1
  <2>5. logs'[j].send # "success" /\ logs'[j].receive = None
    BY <1>2, <1>3, <1>11
  <2> QED  BY <2>2, <2>3, <2>4, <2>5 DEF LogRowOK
<1>12. \A r \in answered' : r.row \in 1 .. Len(logs')
  BY <1>1, <1>3, <1>7 DEF MessagesOK
<1>14. \A j \in 1 .. Len(logs') : j \in 1 .. Len(logs) \/ j = i
  BY <1>0, <1>3 DEF i
<1>15. channel' # "TENCENT" => early' = {}
  BY <1>1 DEF MessagesOK
<1>16. \A j \in 1 .. Len(logs') : LogRowOK(j)'
  BY <1>10, <1>11, <1>14
<1> QED  BY <1>8, <1>9, <1>12, <1>15, <1>16 DEF MessagesOK
LEMMA FinishSteps ==
  ASSUME MessagesOK, NEW p \in Proc, FinishSmsLog(p) \/ FinishMailLog(p)
  PROVE  MessagesOK'
<1> DEFINE i == sender[p].row
           n == Finished(p, logs[i])
<1>0. /\ sender \in [Proc -> Sender] /\ sender[p] \in Sender /\ SenderOK(p) /\ logs \in Seq(LogRow)
      /\ Len(logs) \in Nat /\ accepted \subseteq 1 .. Len(logs) /\ channel \in Channel
      /\ kept \subseteq 1 .. Len(logs)
  BY DEF MessagesOK, LogTypes
<1>1. /\ sender[p].at = "finish" /\ logs' = [logs EXCEPT ![i] = n]
      /\ AfterSend(p, i) \/ SenderRests(p)
      /\ UNCHANGED <<channel, accepted, kept, answered, early, abandoned>>
  BY DEF FinishSmsLog, FinishMailLog
<1>2. i \in 1 .. Len(logs) /\ (sender[p].ok /\ Honest => i \in accepted)
  BY <1>0, <1>1 DEF SenderOK
<1>3. /\ n \in LogRow /\ n.receive = logs[i].receive /\ n.send \in {"success", "failure"}
      /\ n.send = "success" => sender[p].ok
  <2>1. logs[i] \in LogRow /\ sender[p].ok \in BOOLEAN /\ sender[p].serial \in BOOLEAN
    BY <1>0, <1>2 DEF Sender
  <2> QED  BY <2>1 DEF Finished, LogRow
<1>4. PICK s \in Sender : /\ SenderGoes(p, s) /\ s.at \in {"rest", "status"}
                          /\ s.at = "status" => s.row = i
                          /\ s.batch = <<>> \/ s.batch = sender[p].batch
  <2>1. CASE AfterSend(p, i)
    BY <1>2, <2>1, After
  <2>2. CASE SenderRests(p)
    BY <2>2, IdleFits DEF SenderRests
  <2> QED  BY <1>1, <2>1, <2>2
<1>5. sender' \in [Proc -> Sender] /\ sender'[p] = s /\ \A q \in Proc : q # p => sender'[q] = sender[q]
  BY <1>0, <1>4 DEF SenderGoes
<1> HIDE DEF n, i
<1>6. /\ logs' \in Seq(LogRow) /\ Len(logs') = Len(logs) /\ logs'[i] = n
      /\ \A j \in 1 .. Len(logs) : j # i => logs'[j] = logs[j]
  BY <1>0, <1>1, <1>2, <1>3
<1>7. LogTypes'
  BY <1>0, <1>1, <1>5, <1>6 DEF LogTypes
<1>8. ASSUME NEW q \in Proc PROVE SenderOK(q)'
  <2>1. CASE q = p
    <3>1. \A k \in 1 .. Len(s.batch) : s.batch[k].row \in 1 .. Len(logs)
      BY <1>0, <1>4 DEF SenderOK
    <3> QED  BY <1>2, <1>4, <1>5, <1>6, <2>1, <3>1 DEF SenderOK
  <2>2. CASE q # p
    <3>1. SenderOK(q) /\ sender'[q] = sender[q]
      BY <1>5, <2>2 DEF MessagesOK
    <3> QED  BY <1>1, <1>6, <3>1 DEF SenderOK, Honest
  <2> QED  BY <2>1, <2>2
<1>9. ASSUME NEW j \in 1 .. Len(logs) PROVE LogRowOK(j)'
  <2>1. LogRowOK(j)
    BY DEF MessagesOK
  <2>2. logs'[j].receive = logs[j].receive
    BY <1>3, <1>6
  <2>3. Honest' /\ (logs'[j].send = "success" \/ j \in kept') => j \in accepted'
    BY <1>1, <1>2, <1>3, <1>6, <2>1 DEF LogRowOK, Honest
  <2>4. ASSUME logs'[j].send = "init", j \notin abandoned'
        PROVE  \E q \in Proc : sender'[q].row = j /\ sender'[q].at \in {"call", "finish"}
    <3>1. j # i
      BY <1>3, <1>6, <2>4
    <3>2. PICK q \in Proc : sender[q].row = j /\ sender[q].at \in {"call", "finish"}
      BY <1>1, <1>6, <2>1, <2>4, <3>1 DEF LogRowOK
    <3>3. q # p
      BY <3>1, <3>2 DEF i
    <3> QED  BY <1>5, <3>2, <3>3
  <2> QED  BY <1>1, <2>1, <2>2, <2>3, <2>4 DEF LogRowOK
<1> QED  BY <1>1, <1>6, <1>7, <1>8, <1>9 DEF MessagesOK

LEMMA FinishFailsStep == ASSUME MessagesOK, NEW p \in Proc, FinishFails(p) PROVE MessagesOK'
<1> DEFINE i == sender[p].row
<1>0. /\ sender \in [Proc -> Sender] /\ SenderOK(p) /\ accepted \subseteq 1 .. Len(logs)
  BY DEF MessagesOK, LogTypes
<1>1. /\ sender[p].at = "finish" /\ (AfterSend(p, i) \/ SenderRests(p))
      /\ abandoned' = abandoned \cup {i}
      /\ UNCHANGED <<channel, logs, accepted, kept, answered, early>>
  BY DEF FinishFails
<1>2. i \in 1 .. Len(logs)
  BY <1>0, <1>1 DEF SenderOK
<1>3. PICK s \in Sender : /\ SenderGoes(p, s) /\ s.at \in {"rest", "status"}
                          /\ s.at = "status" => s.row = i
                          /\ s.batch = <<>> \/ s.batch = sender[p].batch
  <2>1. CASE AfterSend(p, i)
    BY <1>2, <2>1, After
  <2>2. CASE SenderRests(p)
    BY <2>2, IdleFits DEF SenderRests
  <2> QED  BY <1>1, <2>1, <2>2
<1>4. sender'[p] = s
  BY <1>0, <1>3 DEF SenderGoes
<1>5. SenderOK(p)'
  <2>1. \A k \in 1 .. Len(s.batch) : s.batch[k].row \in 1 .. Len(logs)
    BY <1>0, <1>3 DEF SenderOK
  <2> QED  BY <1>1, <1>2, <1>3, <1>4, <2>1 DEF SenderOK
<1>6. \A j \in kept' \ kept : j \in 1 .. Len(logs) /\ (Honest => j \in accepted)
  BY <1>1
<1>7. accepted \subseteq accepted' /\ accepted' \subseteq 1 .. Len(logs) /\ abandoned \subseteq abandoned'
      /\ sender[p].row \in abandoned'
  BY <1>0, <1>1
<1> QED  BY <1>1, <1>3, <1>5, <1>6, <1>7, SenderMoves

LEMMA KeepStep == ASSUME MessagesOK, NEW p \in Proc, SendCode(p) PROVE MessagesOK'
<1> DEFINE i == sender[p].row
<1>0. /\ sender \in [Proc -> Sender] /\ SenderOK(p) /\ accepted \subseteq 1 .. Len(logs)
  BY DEF MessagesOK, LogTypes
<1>1. /\ sender[p].at = "status" /\ SenderGoes(p, IdleSender)
      /\ kept' = IF logs[i].send = "success" THEN kept \cup {i} ELSE kept
      /\ UNCHANGED <<channel, logs, accepted, abandoned, answered, early>>
  BY DEF SendCode, SenderRests
<1>2. i \in 1 .. Len(logs)
  BY <1>0, <1>1 DEF SenderOK
<1>3. Honest /\ logs[i].send = "success" => i \in accepted
  BY <1>2 DEF MessagesOK, LogRowOK
<1>4. sender'[p] = IdleSender
  BY <1>0, <1>1 DEF SenderGoes
<1>5. SenderOK(p)'
  BY <1>4, IdleFits DEF SenderOK
<1>6. \A j \in kept' \ kept : j \in 1 .. Len(logs) /\ (Honest => j \in accepted)
  BY <1>1, <1>2, <1>3
<1>7. accepted \subseteq accepted' /\ accepted' \subseteq 1 .. Len(logs) /\ abandoned \subseteq abandoned'
      /\ sender[p].at \notin {"call", "finish"}
  BY <1>0, <1>1
<1> QED  BY <1>1, <1>5, <1>6, <1>7, IdleFits, SenderMoves

\* One report after the other.
LEMMA ApplyStep == ASSUME MessagesOK, NEW p \in Proc, applyReceipt(p) PROVE MessagesOK'
<1> DEFINE b == sender[p].batch
           r == Head(b)
           rest == Tail(b)
           found == RowOf(parseSmsReceipts(channel, r))
<1>0. /\ sender \in [Proc -> Sender] /\ sender[p] \in Sender /\ SenderOK(p) /\ logs \in Seq(LogRow)
      /\ Len(logs) \in Nat /\ accepted \subseteq 1 .. Len(logs) /\ channel \in Channel
      /\ kept \subseteq 1 .. Len(logs) /\ LogTypes /\ DOMAIN logs = 1 .. Len(logs)
  BY DEF MessagesOK, LogTypes
<1>1. /\ sender[p].at = "apply"
      /\ logs' = [i \in 1 .. Len(logs) |-> IF i \in found THEN [logs[i] EXCEPT !.receive = r.verdict] ELSE logs[i]]
      /\ early' = IF found = {} THEN early \cup {r} ELSE early
      /\ answered' = answered \cup {r}
      /\ IF rest = <<>> THEN SenderRests(p) ELSE SenderGoes(p, [sender[p] EXCEPT !.batch = rest])
      /\ UNCHANGED <<channel, accepted, kept, abandoned>>
  BY <1>0 DEF applyReceipt
<1>2. b \in Seq(Report) /\ b # <<>> /\ \A k \in 1 .. Len(b) : b[k].row \in 1 .. Len(logs)
  BY <1>0, <1>1 DEF Sender, SenderOK
<1> HIDE DEF b
<1>3. /\ r \in Report /\ rest \in Seq(Report) /\ r.row \in 1 .. Len(logs)
      /\ \A k \in 1 .. Len(rest) : rest[k].row \in 1 .. Len(logs)
  <2>1. r = b[1] /\ 1 \in 1 .. Len(b) /\ r \in Report
    BY <1>2
  <2>2. rest \in Seq(Report) /\ \A k \in 1 .. Len(rest) : rest[k] = b[k + 1] /\ k + 1 \in 1 .. Len(b)
    BY <1>2
  <2> QED  BY <1>2, <2>1, <2>2
<1>4. found \subseteq {r.row} /\ (channel # "TENCENT" => found = {r.row})
  BY <1>0, <1>3, RowFound
<1> HIDE DEF r, found
<1>5. PICK s \in Sender : /\ SenderGoes(p, s) /\ s.at \in {"rest", "apply"}
                          /\ s.at = "apply" => s.batch # <<>>
                          /\ \A k \in 1 .. Len(s.batch) : s.batch[k].row \in 1 .. Len(logs)
  <2>1. CASE rest = <<>>
    BY <1>1, <2>1, IdleFits DEF SenderRests
  <2>2. CASE rest # <<>>
    <3> DEFINE s == [sender[p] EXCEPT !.batch = rest]
    <3> HIDE DEF rest
    <3>1. s \in Sender /\ s.at = "apply" /\ s.batch = rest
      BY <1>0, <1>1, <1>3 DEF Sender
    <3>2. SenderGoes(p, s)
      BY <1>1, <2>2
    <3> QED  BY <1>3, <2>2, <3>1, <3>2
  <2> QED  BY <2>1, <2>2
<1>6. sender' \in [Proc -> Sender] /\ sender'[p] = s /\ \A q \in Proc : q # p => sender'[q] = sender[q]
  BY <1>0, <1>5 DEF SenderGoes
<1>7. ASSUME NEW i \in 1 .. Len(logs)
      PROVE  /\ logs'[i] \in LogRow /\ logs'[i].send = logs[i].send
             /\ i \in found => logs'[i].receive = r.verdict
             /\ i \notin found => logs'[i].receive = logs[i].receive
  <2>1. logs[i] \in LogRow /\ r.verdict \in Verdict
    BY <1>0, <1>3 DEF Report
  <2>2. CASE i \in found
    <3>1. logs'[i] = [logs[i] EXCEPT !.receive = r.verdict]
      BY <1>1, <2>2
    <3> QED  BY <2>1, <2>2, <3>1 DEF LogRow
  <2>3. CASE i \notin found
    <3>1. logs'[i] = logs[i]
      BY <1>1, <2>3
    <3> QED  BY <2>1, <2>3, <3>1
  <2> QED  BY <2>2, <2>3
<1>8. logs' \in Seq(LogRow) /\ Len(logs') = Len(logs)
  <2>1. logs' = [i \in 1 .. Len(logs) |-> logs'[i]]
    BY <1>1
  <2>2. logs' \in [1 .. Len(logs) -> LogRow]
    BY <1>7, <2>1
  <2> QED  BY <1>0, <2>2
<1>9. LogTypes'
  BY <1>0, <1>1, <1>6, <1>8 DEF LogTypes
<1>10. ASSUME NEW q \in Proc PROVE SenderOK(q)'
  <2>1. CASE q = p
    BY <1>5, <1>6, <1>8, <2>1 DEF SenderOK
  <2>2. CASE q # p
    <3>1. SenderOK(q) /\ sender'[q] = sender[q]
      BY <1>6, <2>2 DEF MessagesOK
    <3> QED  BY <1>1, <1>8, <3>1 DEF SenderOK, Honest
  <2> QED  BY <2>1, <2>2
<1>11. ASSUME NEW i \in 1 .. Len(logs) PROVE LogRowOK(i)'
  <2>1. LogRowOK(i) /\ logs'[i].send = logs[i].send
    BY <1>7 DEF MessagesOK
  <2>2. Honest' /\ (logs'[i].send = "success" \/ i \in kept') => i \in accepted'
    BY <1>1, <2>1 DEF LogRowOK, Honest
  <2>3. \A q \in Proc : sender[q].at \in {"call", "finish"} => sender'[q] = sender[q]
    BY <1>1, <1>6
  <2>4. logs'[i].send = "init" /\ i \notin abandoned' =>
          \E q \in Proc : sender'[q].row = i /\ sender'[q].at \in {"call", "finish"}
    BY <1>1, <2>1, <2>3 DEF LogRowOK
  <2>5. logs'[i].receive # None => [row |-> i, verdict |-> logs'[i].receive] \in answered'
    <3>1. CASE i \in found
      <4>1. i = r.row /\ logs'[i].receive = r.verdict
        BY <1>4, <1>7, <3>1
      <4>2. r = [row |-> r.row, verdict |-> r.verdict]
        BY <1>3 DEF Report
      <4> QED  BY <1>1, <4>1, <4>2
    <3>2. CASE i \notin found
      BY <1>1, <1>7, <2>1, <3>2 DEF LogRowOK
    <3> QED  BY <3>1, <3>2
  <2>6. ASSUME NEW t \in answered' \ early', t.row = i PROVE logs'[i].receive # None
    <3>1. CASE i \in found
      <4>1. logs'[i].receive = r.verdict /\ r.verdict \in Verdict
        BY <1>3, <1>7, <3>1 DEF Report
      <4> QED  BY <4>1, MessagesAssumption DEF Verdict
    <3>2. CASE i \notin found
      <4>1. t # r
        <5>1. t = r => found = {}
          BY <1>4, <2>6, <3>2
        <5> QED  BY <1>1, <2>6, <5>1
      <4>2. t \in answered \ early
        BY <1>1, <4>1
      <4> QED  BY <1>7, <2>1, <2>6, <3>2, <4>2 DEF LogRowOK
    <3> QED  BY <3>1, <3>2
  <2> QED  BY <2>2, <2>4, <2>5, <2>6 DEF LogRowOK
<1>12. \A t \in answered' : t.row \in 1 .. Len(logs')
  BY <1>1, <1>3, <1>8 DEF MessagesOK
<1>13. channel' # "TENCENT" => early' = {}
  BY <1>1, <1>4 DEF MessagesOK
<1> QED  BY <1>8, <1>9, <1>10, <1>11, <1>12, <1>13 DEF MessagesOK

\* Site messages have a table of their own.
LEMMA NotifyStep == ASSUME MessagesOK, NEW p \in Proc, InsertMessage(p) PROVE MessagesOK'
<1>0. sender \in [Proc -> Sender] /\ accepted \subseteq 1 .. Len(logs)
  BY DEF MessagesOK, LogTypes
<1>1. /\ sender[p].at = "notify" /\ SenderGoes(p, IdleSender)
      /\ UNCHANGED <<channel, logs, accepted, kept, answered, early, abandoned>>
  BY DEF InsertMessage, SenderRests
<1>2. sender'[p] = IdleSender
  BY <1>0, <1>1 DEF SenderGoes
<1>3. SenderOK(p)'
  BY <1>2, IdleFits DEF SenderOK
<1>4. \A j \in kept' \ kept : j \in 1 .. Len(logs) /\ (Honest => j \in accepted)
  BY <1>1
<1>5. accepted \subseteq accepted' /\ accepted' \subseteq 1 .. Len(logs) /\ abandoned \subseteq abandoned'
      /\ sender[p].at \notin {"call", "finish"}
  BY <1>0, <1>1
<1> QED  BY <1>1, <1>3, <1>4, <1>5, IdleFits, SenderMoves

LEMMA MessagesStutter ==
  ASSUME MessagesOK, UNCHANGED <<channel, logs, accepted, sender, kept, answered, early, abandoned>>
  PROVE  MessagesOK'
<1>1. LogTypes'
  BY DEF MessagesOK, LogTypes
<1>2. \A p \in Proc : SenderOK(p)'
  BY DEF MessagesOK, SenderOK, Honest
<1>3. \A i \in 1 .. Len(logs) : LogRowOK(i)'
  BY DEF MessagesOK, LogRowOK, Honest
<1> QED  BY <1>1, <1>2, <1>3 DEF MessagesOK

LEMMA MessagesStep == ASSUME MessagesOK, [MessagesNext]_messageVars PROVE MessagesOK'
<1>1. ASSUME NEW p \in Proc, MessageStep(p) PROVE MessagesOK'
  BY <1>1, SenderSteps, InsertLogStep, CallStep, FinishSteps, FinishFailsStep, KeepStep, ApplyStep,
     NotifyStep DEF MessageStep
<1>2. MarkRead \/ MarkAllRead => MessagesOK'
  BY MessagesStutter DEF MarkRead, MarkAllRead, Read
<1>3. UNCHANGED messageVars => MessagesOK'
  BY MessagesStutter DEF messageVars
<1> QED  BY <1>1, <1>2, <1>3 DEF MessagesNext

LEMMA MessagesInvariant == MessagesSpec => []MessagesOK
<1> QED  BY MessagesStart, MessagesStep, PTL DEF MessagesSpec

\* Whatever is lost on the way, a log row says success and a verification code is
\* kept only if the vendor has the message (the debugging robot excepted), and a row
\* stays "init" only while its request is under way or was abandoned
\* (service.go:316, sms_sender.go:19): a request that says the vendor took the
\* message has a row among the accepted ones when it finishes the row.
THEOREM LogsSayWhatIs == MessagesSpec => []LogsTellTrue
<1>1. ASSUME MessagesOK PROVE LogsTellTrue
  <2>1. DOMAIN logs = 1 .. Len(logs) /\ \A i \in 1 .. Len(logs) : LogRowOK(i)
    BY <1>1 DEF MessagesOK, LogTypes
  <2> QED  BY <2>1 DEF LogsTellTrue, LogRowOK, Honest
<1> QED  BY <1>1, MessagesInvariant, PTL

\* A report that was answered with success shows in the row of its message and in
\* no other, however often and early it comes, and only a report by serial is passed
\* over (callback.go:65, mysql.go:740): a batch names only rows that are there, no
\* step but a report writes the column, and none empties it.
THEOREM ReportsShow == MessagesSpec => []ReportsKept
<1>1. ASSUME MessagesOK PROVE ReportsKept
  <2>1. /\ DOMAIN logs = 1 .. Len(logs) /\ \A i \in 1 .. Len(logs) : LogRowOK(i)
        /\ channel # "TENCENT" => early = {}
    BY <1>1 DEF MessagesOK, LogTypes
  <2> QED  BY <2>1 DEF ReportsKept, LogRowOK
<1> QED  BY <1>1, MessagesInvariant, PTL

-----------------------------------------------------------------------------
(* Students *)

ChildRow == [kind : {"course", "grade"}, of : Born]
SaveForm == [do : {"update", "updating", "delete", "course", "grade", "gradeInsert"},
             of : SUBSET Nat, listed : SUBSET ChildId, new : 0 .. 1, grade : ChildId \cup {0, None},
             id : ChildId \cup {0}, seen : SUBSET ChildId, overtaken : BOOLEAN]

StudentTypes ==
  /\ student \in [Born -> BOOLEAN] /\ \E n \in Nat : Born = 1 .. n
  /\ child \in [DOMAIN child -> ChildRow] /\ DOMAIN child \subseteq ChildId
  /\ save \in [DOMAIN save -> SaveForm]

\* The ids request q remembers.
Remembers(q) == save[q].listed \cup save[q].seen \cup {save[q].id, save[q].grade}

\* What request q remembers of the children is still so, while they are there.
SaveOK(q) ==
  LET r == save[q] IN
  /\ r.of \subseteq Born
  /\ r.do # "delete" => \E s \in Born : r.of = {s}
  /\ \A c \in (r.listed \cup r.seen) \cap DOMAIN child : child[c].kind = "course"
  /\ r.do \in {"course", "grade"} /\ r.id \in DOMAIN child => child[r.id].kind = r.do
  /\ r.do = "gradeInsert" /\ ~ r.overtaken =>
       \A c \in DOMAIN child : child[c].kind = "grade" => child[c].of \notin r.of

ChildrenLive == \A c \in DOMAIN child \ late : student[child[c].of]

OneGrade ==
  \A c, d \in DOMAIN child \ extra :
    child[c].kind = "grade" /\ child[d].kind = "grade" /\ child[c].of = child[d].of => c = d

StudentsOK ==
  /\ StudentTypes
  /\ \A q \in DOMAIN save : SaveOK(q)
  /\ ChildrenLive
  /\ OneGrade

\* Fresh ids are of no row and no request remembers them.
LEMMA FreshIds ==
  ASSUME NEW n
  PROVE  /\ Fresh(n) \subseteq ChildId
         /\ \A c \in Fresh(n) : c \notin DOMAIN child /\ \A q \in DOMAIN save : c \notin Remembers(q)
<1>1. UNION {save[q].listed \cup save[q].seen \cup {save[q].id, save[q].grade} : q \in DOMAIN save}
        = UNION {Remembers(q) : q \in DOMAIN save}
  BY DEF Remembers
<1> QED  BY <1>1 DEF Fresh

\* At most one id is fresh among n + 1 and not among n.
LEMMA FreshStep ==
  ASSUME NEW n \in Nat, NEW c \in Fresh(n + 1) \ Fresh(n), NEW d \in Fresh(n + 1) \ Fresh(n)
  PROVE  c = d
<1> DEFINE remembered == UNION {save[q].listed \cup save[q].seen \cup {save[q].id, save[q].grade} : q \in DOMAIN save}
           free == ChildId \ (DOMAIN child \cup remembered)
           below(x) == {y \in free : y < x}
<1>1. IsFiniteSet(ChildId) /\ ChildId \subseteq Nat
  BY FS_Interval, StudentsAssumption DEF ChildId
<1>2. IsFiniteSet(free) /\ free \subseteq Nat
  BY <1>1, FS_Subset
<1>3. \A m : Fresh(m) = {x \in free : Cardinality(below(x)) < m}
  BY DEF Fresh
<1> HIDE DEF free
<1>4. \A x \in free : IsFiniteSet(below(x)) /\ Cardinality(below(x)) \in Nat
  <2> TAKE x \in free
  <2>1. below(x) \subseteq free
    OBVIOUS
  <2>2. IsFiniteSet(below(x))
    BY <1>2, <2>1, FS_Subset
  <2> QED  BY <2>2, FS_CardinalityType
<1>5. c \in free /\ d \in free
  BY <1>3
<1>9. \A x, z : z \in below(x) <=> z \in free /\ z < x
  OBVIOUS
<1> HIDE DEF below
<1>6. Cardinality(below(c)) = n /\ Cardinality(below(d)) = n
  <2>1. \A x \in free : Cardinality(below(x)) < n + 1 /\ ~ (Cardinality(below(x)) < n) => Cardinality(below(x)) = n
    BY <1>4
  <2> QED  BY <1>3, <1>5, <2>1
<1>7. ASSUME NEW x \in free, NEW y \in free, x < y, Cardinality(below(x)) = Cardinality(below(y))
      PROVE  FALSE
  <2>3. x \in Nat /\ y \in Nat /\ \A z \in free : z \in Nat
    BY <1>2
  <2>4. ASSUME NEW z \in below(x) PROVE z \in below(y)
    <3>1. z \in free /\ z < x /\ z \in Nat
      BY <1>9, <2>3
    <3>2. z < y
      BY <1>7, <2>3, <3>1
    <3> QED  BY <1>9, <3>1, <3>2
  <2>5. ~ (x < x)
    BY <2>3
  <2>1. below(x) \subseteq below(y) /\ x \in below(y) /\ x \notin below(x)
    BY <1>7, <1>9, <2>4, <2>5
  <2>2. below(x) = below(y)
    BY <1>4, <1>7, <2>1, FS_Subset
  <2> QED  BY <2>1, <2>2
<1>8. c < d \/ d < c \/ c = d
  BY <1>2, <1>5
<1> QED  BY <1>5, <1>6, <1>7, <1>8

\* The rows a form inserts for student s.
LEMMA InsertedRows ==
  ASSUME NEW s \in Born, NEW n \in Nat, NEW g \in 0 .. 1
  PROVE  /\ DOMAIN Inserted(s, n, g) = Fresh(n + g)
         /\ \A c \in Fresh(n + g) : Inserted(s, n, g)[c] \in ChildRow /\ Inserted(s, n, g)[c].of = s
         /\ g = 0 => \A c \in Fresh(n + g) : Inserted(s, n, g)[c].kind = "course"
         /\ \A c, d \in Fresh(n + g) :
              Inserted(s, n, g)[c].kind = "grade" /\ Inserted(s, n, g)[d].kind = "grade" => c = d
<1> DEFINE new == Inserted(s, n, g)
<1>1. new = [c \in Fresh(n + g) |-> [kind |-> IF c \in Fresh(n) THEN "course" ELSE "grade", of |-> s]]
  BY DEF Inserted
<1>2. DOMAIN new = Fresh(n + g)
  BY <1>1
<1>3. \A c \in Fresh(n + g) : new[c] \in ChildRow /\ new[c].of = s
                              /\ new[c].kind = IF c \in Fresh(n) THEN "course" ELSE "grade"
  BY <1>1 DEF ChildRow
<1> HIDE DEF new
<1>4. g = 0 => n + g = n
  OBVIOUS
<1>5. g = 0 => \A c \in Fresh(n + g) : new[c].kind = "course"
  BY <1>3, <1>4
<1>6. ASSUME NEW c \in Fresh(n + g), NEW d \in Fresh(n + g), new[c].kind = "grade", new[d].kind = "grade"
      PROVE  c = d
  <2>1. g = 1 /\ c \notin Fresh(n) /\ d \notin Fresh(n)
    BY <1>3, <1>5, <1>6
  <2> QED  BY <1>6, <2>1, FreshStep
<1>7. new = Inserted(s, n, g)
  BY DEF new
<1> QED  BY <1>2, <1>3, <1>5, <1>6, <1>7

LEMMA StudentsStart == StudentsInit => StudentsOK
<1> SUFFICES ASSUME StudentsInit PROVE StudentsOK  OBVIOUS
<1>1. DOMAIN student = {} /\ DOMAIN child = {} /\ DOMAIN save = {} /\ student = <<>> /\ child = <<>> /\ save = <<>>
  BY DEF StudentsInit
<1>2. 1 .. 0 = {} /\ 0 \in Nat
  OBVIOUS
<1>3. StudentTypes
  BY <1>1, <1>2 DEF StudentTypes, Born
<1> QED  BY <1>1, <1>3 DEF StudentsOK, ChildrenLive, OneGrade

\* A request begins; the tables stay.
LEMMA SaveStarts ==
  ASSUME StudentsOK, NEW p \in Proc, NEW r \in SaveForm, Ready(p), Starts(p, r),
         UNCHANGED <<student, child, late, extra>>,
         r.of \subseteq Born, r.do # "delete" => \E s \in Born : r.of = {s},
         \A c \in (r.listed \cup r.seen) \cap DOMAIN child : child[c].kind = "course",
         r.do \in {"course", "grade"} /\ r.id \in DOMAIN child => child[r.id].kind = r.do,
         r.do = "gradeInsert" =>
           \A c \in DOMAIN child : child[c].kind = "grade" => child[c].of \notin r.of
  PROVE  StudentsOK'
<1>1. p \notin DOMAIN save /\ save' = Over([q \in {p} |-> r], save)
  BY DEF Ready, Starts
<1>2. /\ DOMAIN save' = DOMAIN save \cup {p} /\ save'[p] = r
      /\ \A q \in DOMAIN save : save'[q] = save[q]
      /\ save' = [q \in DOMAIN save' |-> save'[q]]
  BY <1>1 DEF Over
<1>3. \A q \in DOMAIN save : save[q] \in SaveForm
  BY DEF StudentsOK, StudentTypes
<1>4. save' \in [DOMAIN save' -> SaveForm]
  BY <1>2, <1>3
<1>5. Born' = Born
  BY DEF Born
<1>6. StudentTypes'
  BY <1>4, <1>5 DEF StudentsOK, StudentTypes, ChildRow
<1>7. SaveOK(p)'
  BY <1>2, <1>5 DEF SaveOK
<1>8. \A q \in DOMAIN save : SaveOK(q)'
  BY <1>2, <1>5 DEF StudentsOK, SaveOK
<1>9. ChildrenLive' /\ OneGrade'
  BY DEF StudentsOK, ChildrenLive, OneGrade
<1> QED  BY <1>2, <1>6, <1>7, <1>8, <1>9 DEF StudentsOK

\* A commit on the tables; requests that go on remember what they did.
LEMMA TablesWritten ==
  ASSUME StudentsOK,
         student' \in [Born' -> BOOLEAN], Born \subseteq Born', \E n \in Nat : Born' = 1 .. n,
         child' = [c \in DOMAIN child' |-> child'[c]], DOMAIN child' \subseteq ChildId,
         \A c \in DOMAIN child' : child'[c].kind \in {"course", "grade"} /\ child'[c].of \in Born'
                                  /\ child'[c] = [kind |-> child'[c].kind, of |-> child'[c].of],
         save' = [q \in DOMAIN save' |-> save'[q]], DOMAIN save' \subseteq DOMAIN save,
         \A q \in DOMAIN save' : \/ save'[q] = save[q]
                                 \/ save'[q] = [save[q] EXCEPT !.overtaken = TRUE],
         \A c \in DOMAIN child' :
           \/ c \in DOMAIN child /\ child'[c].kind = child[c].kind
           \/ \A q \in DOMAIN save' : c \notin Remembers(q),
         \A q \in DOMAIN save' :
           save[q].do = "gradeInsert" /\ ~ save'[q].overtaken =>
             \A c \in DOMAIN child' : child'[c].kind = "grade" => child'[c].of \notin save[q].of,
         ChildrenLive', OneGrade'
  PROVE  StudentsOK'
<1>1. \A q \in DOMAIN save' : save[q] \in SaveForm /\ SaveOK(q)
  BY DEF StudentsOK, StudentTypes
<1>2. ASSUME NEW q \in DOMAIN save'
      PROVE  /\ save'[q] \in SaveForm /\ save'[q].do = save[q].do /\ save'[q].of = save[q].of
             /\ save'[q].listed = save[q].listed /\ save'[q].seen = save[q].seen
             /\ save'[q].id = save[q].id
  <2>1. CASE save'[q] = save[q]
    BY <1>1, <2>1
  <2>2. CASE save'[q] = [save[q] EXCEPT !.overtaken = TRUE]
    <3>1. save[q] \in SaveForm
      BY <1>1
    <3> QED  BY <2>2, <3>1 DEF SaveForm
  <2> QED  BY <2>1, <2>2
<1>3. save' \in [DOMAIN save' -> SaveForm]
  BY <1>2
<1>4. child' \in [DOMAIN child' -> ChildRow']
  BY DEF ChildRow
<1>5. StudentTypes'
  BY <1>3, <1>4 DEF StudentTypes
<1>6. ASSUME NEW q \in DOMAIN save' PROVE SaveOK(q)'
  <2>1. SaveOK(q)
    BY <1>1
  <2>2. \A c \in (save[q].listed \cup save[q].seen) \cap DOMAIN child' : child'[c].kind = "course"
    BY <2>1 DEF SaveOK, Remembers
  <2>3. save[q].do \in {"course", "grade"} /\ save[q].id \in DOMAIN child' => child'[save[q].id].kind = save[q].do
    BY <2>1 DEF SaveOK, Remembers
  <2>4. save[q].of \subseteq Born' /\ (save[q].do # "delete" => \E s \in Born' : save[q].of = {s})
    BY <2>1 DEF SaveOK
  <2> QED  BY <1>2, <2>2, <2>3, <2>4 DEF SaveOK
<1> QED  BY <1>5, <1>6 DEF StudentsOK

LEMMA SaveReads ==
  ASSUME StudentsOK, NEW p \in Proc,
         StartSave(p) \/ StartRemoval(p) \/ StartWrite(p) \/ StartGrade(p)
  PROVE  StudentsOK'
<1>0. /\ DOMAIN child \subseteq ChildId /\ child \in [DOMAIN child -> ChildRow]
      /\ Born \subseteq Nat
  <2>1. PICK n \in Nat : Born = 1 .. n
    BY DEF StudentsOK, StudentTypes
  <2> QED  BY <2>1 DEF StudentsOK, StudentTypes
<1>1. CASE StartSave(p)
  <2>1. PICK s \in Born, listed \in SUBSET Rows("course"), new \in 0 .. 1,
             grade \in {None, 0} \cup Rows("grade") :
           /\ Ready(p)
           /\ Starts(p, [Form EXCEPT !.do = "update", !.of = {s}, !.listed = listed, !.new = new,
                              !.grade = grade])
           /\ UNCHANGED <<student, child, late, extra>>
    BY <1>1 DEF StartSave
  <2> DEFINE r == [Form EXCEPT !.do = "update", !.of = {s}, !.listed = listed, !.new = new, !.grade = grade]
  <2>2. {s} \in SUBSET Nat /\ listed \in SUBSET ChildId /\ grade \in ChildId \cup {0, None}
    BY <1>0 DEF Rows
  <2>3. /\ r \in SaveForm /\ r.of = {s} /\ r.do = "update" /\ r.listed = listed /\ r.seen = {}
    BY <2>2 DEF Form, SaveForm
  <2>4. Starts(p, r)
    BY <2>1
  <2> HIDE DEF r
  <2>5. \A c \in (r.listed \cup r.seen) \cap DOMAIN child : child[c].kind = "course"
    BY <2>3 DEF Rows
  <2> QED  BY <2>1, <2>3, <2>4, <2>5, SaveStarts
<1>2. CASE StartRemoval(p)
  <2>1. PICK S \in (SUBSET Born) \ {{}} :
           /\ Ready(p) /\ Starts(p, [Form EXCEPT !.do = "delete", !.of = S])
           /\ UNCHANGED <<student, child, late, extra>>
    BY <1>2 DEF StartRemoval
  <2> DEFINE r == [Form EXCEPT !.do = "delete", !.of = S]
  <2>2. S \in SUBSET Nat /\ {} \in SUBSET ChildId /\ 0 \in 0 .. 1
    BY <1>0
  <2>3. /\ r \in SaveForm /\ r.of = S /\ r.do = "delete" /\ r.listed = {} /\ r.seen = {}
    BY <2>2 DEF Form, SaveForm
  <2>4. Starts(p, r)
    BY <2>1
  <2> HIDE DEF r
  <2> QED  BY <2>1, <2>3, <2>4, SaveStarts
<1>3. CASE StartWrite(p)
  <2>1. PICK c \in DOMAIN child, s \in Born :
           /\ Ready(p) /\ Starts(p, [Form EXCEPT !.do = child[c].kind, !.of = {s}, !.id = c])
           /\ UNCHANGED <<student, child, late, extra>>
    BY <1>3 DEF StartWrite
  <2> DEFINE r == [Form EXCEPT !.do = child[c].kind, !.of = {s}, !.id = c]
  <2>2. {s} \in SUBSET Nat /\ c \in ChildId /\ child[c].kind \in {"course", "grade"}
    <3>1. child[c] \in ChildRow
      BY <1>0
    <3> QED  BY <1>0, <3>1 DEF ChildRow
  <2>9. {} \in SUBSET ChildId /\ 0 \in 0 .. 1
    OBVIOUS
  <2>3. /\ r \in SaveForm /\ r.of = {s} /\ r.do = child[c].kind /\ r.listed = {} /\ r.seen = {} /\ r.id = c
    BY <2>2, <2>9 DEF Form, SaveForm
  <2>4. Starts(p, r)
    BY <2>1
  <2> HIDE DEF r
  <2> QED  BY <2>1, <2>2, <2>3, <2>4, SaveStarts
<1>4. CASE StartGrade(p)
  <2>1. PICK s \in Born :
           /\ Ready(p) /\ Of("grade", s) = {} /\ Starts(p, [Form EXCEPT !.do = "gradeInsert", !.of = {s}])
           /\ UNCHANGED <<student, child, late, extra>>
    BY <1>4 DEF StartGrade
  <2> DEFINE r == [Form EXCEPT !.do = "gradeInsert", !.of = {s}]
  <2>2. {s} \in SUBSET Nat /\ {} \in SUBSET ChildId /\ 0 \in 0 .. 1
    BY <1>0
  <2>3. /\ r \in SaveForm /\ r.of = {s} /\ r.do = "gradeInsert" /\ r.listed = {} /\ r.seen = {}
    BY <2>2 DEF Form, SaveForm
  <2>4. Starts(p, r)
    BY <2>1
  <2> HIDE DEF r
  <2>5. \A c \in DOMAIN child : child[c].kind = "grade" => child[c].of # s
    BY <2>1 DEF Of, Rows
  <2> QED  BY <2>1, <2>3, <2>4, <2>5, SaveStarts
<1> QED  BY <1>1, <1>2, <1>3, <1>4
\* Request p is answered.
LEMMA Answered ==
  ASSUME NEW p, Answer(p)
  PROVE  /\ save' = [q \in DOMAIN save' |-> save'[q]] /\ DOMAIN save' = DOMAIN save \ {p}
         /\ \A q \in DOMAIN save' : save'[q] = save[q]
BY DEF Answer, Without

\* Request p is answered with a grade of student s.
LEMMA GradeAnswered ==
  ASSUME StudentsOK, NEW p, NEW s, AnswerGrade(p, s)
  PROVE  /\ save' = [q \in DOMAIN save' |-> save'[q]] /\ DOMAIN save' = DOMAIN save \ {p}
         /\ \A q \in DOMAIN save' : /\ \/ save'[q] = save[q]
                                       \/ save'[q] = [save[q] EXCEPT !.overtaken = TRUE]
                                    /\ ~ save'[q].overtaken => ~ save[q].overtaken
                                    /\ save[q].do = "gradeInsert" /\ save[q].of = {s} => save'[q].overtaken
<1>1. save' = [q \in DOMAIN save \ {p} |->
                [save[q] EXCEPT !.overtaken = @ \/ (save[q].do = "gradeInsert" /\ save[q].of = {s})]]
  BY DEF AnswerGrade
<1>2. DOMAIN save' = DOMAIN save \ {p} /\ save' = [q \in DOMAIN save' |-> save'[q]]
  BY <1>1
<1>3. ASSUME NEW q \in DOMAIN save'
      PROVE  /\ \/ save'[q] = save[q]
                \/ save'[q] = [save[q] EXCEPT !.overtaken = TRUE]
             /\ ~ save'[q].overtaken => ~ save[q].overtaken
             /\ save[q].do = "gradeInsert" /\ save[q].of = {s} => save'[q].overtaken
  <2> DEFINE looked == save[q].do = "gradeInsert" /\ save[q].of = {s}
  <2>1. save[q] \in SaveForm
    BY <1>2 DEF StudentsOK, StudentTypes
  <2>2. save'[q] = [save[q] EXCEPT !.overtaken = @ \/ looked]
    BY <1>1, <1>2
  <2> HIDE DEF looked
  <2>3. CASE looked
    <3>1. save'[q] = [save[q] EXCEPT !.overtaken = TRUE]
      BY <2>1, <2>2, <2>3 DEF SaveForm
    <3>2. save'[q].overtaken
      BY <2>1, <3>1 DEF SaveForm
    <3> QED  BY <3>1, <3>2
  <2>4. CASE ~ looked /\ save[q].overtaken
    <3>1. save'[q] = [save[q] EXCEPT !.overtaken = TRUE]
      BY <2>1, <2>2, <2>4 DEF SaveForm
    <3>2. save'[q].overtaken
      BY <2>1, <3>1 DEF SaveForm
    <3> QED  BY <3>1, <3>2
  <2>5. CASE ~ looked /\ ~ save[q].overtaken
    <3>1. save[q].overtaken = FALSE
      BY <2>1, <2>5 DEF SaveForm
    <3>2. save'[q] = save[q]
      BY <2>1, <2>2, <2>5, <3>1 DEF SaveForm
    <3> QED  BY <2>5, <3>2 DEF looked
  <2> QED  BY <2>3, <2>4, <2>5
<1> QED  BY <1>2, <1>3

LEMMA BeginStep == ASSUME StudentsOK, NEW p \in Proc, BeginSave(p) PROVE StudentsOK'
<1> DEFINE s == CHOOSE s \in save[p].of : TRUE
           r == [save[p] EXCEPT !.do = "updating", !.seen = Of("course", s)]
<1>1. /\ p \in DOMAIN save /\ save[p].do = "update"
      /\ save' = [save EXCEPT ![p] = r]
      /\ UNCHANGED <<student, child, late, extra>>
  BY DEF BeginSave, Serves
<1>2. save[p] \in SaveForm /\ SaveOK(p) /\ save \in [DOMAIN save -> SaveForm] /\ DOMAIN child \subseteq ChildId
  BY <1>1 DEF StudentsOK, StudentTypes
<1>3. Of("course", s) \in SUBSET ChildId /\ \A c \in Of("course", s) : child[c].kind = "course"
  BY <1>2 DEF Of, Rows
<1> HIDE DEF s
<1>4. /\ r \in SaveForm /\ r.do = "updating" /\ r.of = save[p].of /\ r.listed = save[p].listed
      /\ r.seen = Of("course", s)
  BY <1>2, <1>3 DEF SaveForm
<1> HIDE DEF r
<1>5. /\ DOMAIN save' = DOMAIN save /\ save'[p] = r /\ save' \in [DOMAIN save -> SaveForm]
      /\ \A q \in DOMAIN save : q # p => save'[q] = save[q]
  BY <1>1, <1>2, <1>4
<1>6. Born' = Born
  BY <1>1 DEF Born
<1>7. StudentTypes'
  BY <1>1, <1>5, <1>6 DEF StudentsOK, StudentTypes, ChildRow
<1>8. SaveOK(p)'
  BY <1>1, <1>2, <1>3, <1>4, <1>5, <1>6 DEF SaveOK
<1>9. \A q \in DOMAIN save : q # p => SaveOK(q)'
  BY <1>1, <1>5, <1>6 DEF StudentsOK, SaveOK
<1>10. ChildrenLive' /\ OneGrade'
  BY <1>1 DEF StudentsOK, ChildrenLive, OneGrade
<1> QED  BY <1>5, <1>7, <1>8, <1>9, <1>10 DEF StudentsOK

\* Some rows of children go, or none, and request p with them.
LEMMA RowsGo ==
  ASSUME StudentsOK, NEW p, NEW I, child' = Without(child, I),
         late' = late \ I, extra' = extra \ I,
         student' \in [Born -> BOOLEAN], Answer(p) \/ save' = save,
         \A c \in DOMAIN child \ I : student[child[c].of] => student'[child[c].of]
  PROVE  StudentsOK'
<1>1. /\ DOMAIN child' = DOMAIN child \ I /\ \A c \in DOMAIN child' : child'[c] = child[c]
      /\ child' = [c \in DOMAIN child' |-> child'[c]]
  BY DEF Without
<1>2. Born' = Born /\ student' \in [Born' -> BOOLEAN] /\ \E n \in Nat : Born' = 1 .. n
  BY DEF StudentsOK, StudentTypes, Born
<1>3. \A c \in DOMAIN child : child[c] \in ChildRow
  BY DEF StudentsOK, StudentTypes
<1>4. \A c \in DOMAIN child' : child'[c].kind \in {"course", "grade"} /\ child'[c].of \in Born'
                               /\ child'[c] = [kind |-> child'[c].kind, of |-> child'[c].of]
  BY <1>1, <1>2, <1>3 DEF ChildRow
<1>5. /\ save' = [q \in DOMAIN save' |-> save'[q]] /\ DOMAIN save' \subseteq DOMAIN save
      /\ \A q \in DOMAIN save' : save'[q] = save[q]
  BY Answered DEF StudentsOK, StudentTypes
<1>6. ChildrenLive'
  BY <1>1 DEF StudentsOK, ChildrenLive
<1>7. OneGrade'
  BY <1>1 DEF StudentsOK, OneGrade
<1>8. \A q \in DOMAIN save' :
        save[q].do = "gradeInsert" /\ ~ save'[q].overtaken =>
          \A c \in DOMAIN child' : child'[c].kind = "grade" => child'[c].of \notin save[q].of
  BY <1>1, <1>5 DEF StudentsOK, SaveOK
<1>9. Born \subseteq Born' /\ DOMAIN child' \subseteq ChildId
  BY <1>1, <1>2 DEF StudentsOK, StudentTypes
<1>10. \A c \in DOMAIN child' :
           \/ c \in DOMAIN child /\ child'[c].kind = child[c].kind
           \/ \A q \in DOMAIN save' : c \notin Remembers(q)
  BY <1>1
<1>11. \A q \in DOMAIN save' : \/ save'[q] = save[q]
                               \/ save'[q] = [save[q] EXCEPT !.overtaken = TRUE]
  BY <1>5
<1>12. DOMAIN save' \subseteq DOMAIN save /\ save' = [q \in DOMAIN save' |-> save'[q]]
  BY <1>5
<1> QED  BY <1>1, <1>2, <1>4, <1>6, <1>7, <1>8, <1>9, <1>10, <1>11, <1>12, TablesWritten

LEMMA RemovalSteps ==
  ASSUME StudentsOK, NEW p \in Proc, CommitRemoval(p) \/ DeleteChildren(p) \/ SaveFails(p)
  PROVE  StudentsOK'
<1>0. student \in [Born -> BOOLEAN] /\ child = [c \in DOMAIN child |-> child[c]]
  BY DEF StudentsOK, StudentTypes
<1>1. CASE CommitRemoval(p)
  <2> DEFINE S == save[p].of
  <2>1. /\ student' = [s \in Born |-> student[s] /\ s \notin S]
        /\ child' = Without(child, GoWith(S)) /\ late' = late \ GoWith(S) /\ extra' = extra \ GoWith(S)
        /\ Answer(p)
    BY <1>1 DEF CommitRemoval
  <2>2. \A c \in DOMAIN child \ GoWith(S) : child[c].of \notin S
    BY DEF GoWith
  <2>3. \A c \in DOMAIN child : child[c].of \in Born
    BY DEF StudentsOK, StudentTypes, ChildRow
  <2> HIDE DEF S
  <2>4. student' \in [Born -> BOOLEAN]
    BY <1>0, <2>1
  <2>5. \A c \in DOMAIN child \ GoWith(S) : student[child[c].of] => student'[child[c].of]
    BY <2>1, <2>2, <2>3
  <2> QED  BY <2>1, <2>4, <2>5, RowsGo
<1>2. CASE DeleteChildren(p)
  <2>1. PICK I : child' = Without(child, I) /\ late' = late \ I /\ extra' = extra \ I
                 /\ UNCHANGED <<student, save>>
    BY <1>2 DEF DeleteChildren
  <2>2. \A c \in DOMAIN child \ I : student[child[c].of] => student'[child[c].of]
    BY <2>1
  <2> QED  BY <1>0, <2>1, <2>2, RowsGo
<1>3. CASE SaveFails(p)
  <2>1. Answer(p) /\ UNCHANGED <<student, child, late, extra>>
    BY <1>3 DEF SaveFails
  <2>2. child' = Without(child, {}) /\ late' = late \ {} /\ extra' = extra \ {}
    BY <1>0, <2>1 DEF Without
  <2>3. \A c \in DOMAIN child \ {} : student[child[c].of] => student'[child[c].of]
    BY <2>1
  <2> QED  BY <1>0, <2>1, <2>2, <2>3, RowsGo
<1> QED  BY <1>1, <1>2, <1>3
\* The rows of new are written and those of gone deleted; students stay.
LEMMA Rewrites ==
  ASSUME StudentsOK, NEW gone, NEW new, Rewritten(gone, new), student' = student,
         DOMAIN new \subseteq ChildId, \A c \in DOMAIN new : new[c] \in ChildRow,
         \A c \in DOMAIN new : \/ c \in DOMAIN child /\ new[c].kind = child[c].kind
                               \/ \A q \in DOMAIN save : c \notin Remembers(q),
         save' = [q \in DOMAIN save' |-> save'[q]], DOMAIN save' \subseteq DOMAIN save,
         \A q \in DOMAIN save' : /\ \/ save'[q] = save[q]
                                    \/ save'[q] = [save[q] EXCEPT !.overtaken = TRUE]
                                 /\ ~ save'[q].overtaken => ~ save[q].overtaken,
         \A q \in DOMAIN save' :
           save[q].do = "gradeInsert" /\ ~ save'[q].overtaken =>
             \A c \in DOMAIN new : new[c].kind = "grade" => new[c].of \notin save[q].of,
         \A c \in DOMAIN new \ extra' : new[c].kind = "grade" =>
           \A d \in (DOMAIN new \cup (DOMAIN child \ gone)) \ extra' :
             IF d \in DOMAIN new THEN new[d].kind = "grade" /\ new[d].of = new[c].of => c = d
             ELSE child[d].kind = "grade" => child[d].of # new[c].of,
         extra \ (gone \cup DOMAIN new) \subseteq extra'
  PROVE  StudentsOK'
<1>1. child' = Over(new, Without(child, gone))
      /\ late' = (late \ (gone \cup DOMAIN new)) \cup {c \in DOMAIN new : ~ student[new[c].of]}
  BY DEF Rewritten
<1>2. /\ DOMAIN child' = DOMAIN new \cup (DOMAIN child \ gone)
      /\ child' = [c \in DOMAIN child' |-> child'[c]]
      /\ \A c \in DOMAIN new : child'[c] = new[c]
      /\ \A c \in DOMAIN child' \ DOMAIN new : child'[c] = child[c] /\ c \in DOMAIN child \ gone
  BY <1>1 DEF Over, Without
<1>3. Born' = Born
  BY DEF Born
<1>4. student' \in [Born' -> BOOLEAN] /\ Born \subseteq Born' /\ \E n \in Nat : Born' = 1 .. n
  BY <1>3 DEF StudentsOK, StudentTypes
<1>5. \A c \in DOMAIN child : child[c] \in ChildRow /\ c \in ChildId
  BY DEF StudentsOK, StudentTypes
<1>6. DOMAIN child' \subseteq ChildId
  BY <1>2, <1>5
<1>7. \A c \in DOMAIN child' : child'[c] \in ChildRow
  BY <1>2, <1>5
<1>8. \A c \in DOMAIN child' : child'[c].kind \in {"course", "grade"} /\ child'[c].of \in Born'
                               /\ child'[c] = [kind |-> child'[c].kind, of |-> child'[c].of]
  BY <1>3, <1>7 DEF ChildRow
<1>9. \A c \in DOMAIN child' :
           \/ c \in DOMAIN child /\ child'[c].kind = child[c].kind
           \/ \A q \in DOMAIN save' : c \notin Remembers(q)
  BY <1>2
<1>10. ASSUME NEW q \in DOMAIN save', save[q].do = "gradeInsert", ~ save'[q].overtaken,
              NEW c \in DOMAIN child', child'[c].kind = "grade"
       PROVE  child'[c].of \notin save[q].of
  <2>1. SaveOK(q) /\ ~ save[q].overtaken
    BY <1>10 DEF StudentsOK
  <2>2. CASE c \in DOMAIN new
    BY <1>2, <1>10, <2>2
  <2>3. CASE c \notin DOMAIN new
    BY <1>2, <1>10, <2>1, <2>3 DEF SaveOK
  <2> QED  BY <2>2, <2>3
<1>11. ChildrenLive'
  <2>1. ASSUME NEW c \in DOMAIN child' \ late' PROVE student'[child'[c].of]
    <3>1. CASE c \in DOMAIN new
      BY <1>1, <1>2, <2>1, <3>1
    <3>2. CASE c \notin DOMAIN new
      BY <1>1, <1>2, <2>1, <3>2 DEF StudentsOK, ChildrenLive
    <3> QED  BY <3>1, <3>2
  <2> QED  BY <2>1 DEF ChildrenLive
<1>12. OneGrade'
  <2>1. ASSUME NEW c \in DOMAIN child' \ extra', NEW d \in DOMAIN child' \ extra',
               child'[c].kind = "grade", child'[d].kind = "grade", child'[c].of = child'[d].of
        PROVE  c = d
    <3>1. CASE c \in DOMAIN new
      BY <1>2, <2>1, <3>1
    <3>2. CASE d \in DOMAIN new
      BY <1>2, <2>1, <3>2
    <3>3. CASE c \notin DOMAIN new /\ d \notin DOMAIN new
      <4>1. c \in DOMAIN child \ extra /\ d \in DOMAIN child \ extra
        BY <1>2, <2>1, <3>3
      <4> QED  BY <1>2, <2>1, <3>3, <4>1 DEF StudentsOK, OneGrade
    <3> QED  BY <3>1, <3>2, <3>3
  <2> QED  BY <2>1 DEF OneGrade
<1>13. \A q \in DOMAIN save' :
           save[q].do = "gradeInsert" /\ ~ save'[q].overtaken =>
             \A c \in DOMAIN child' : child'[c].kind = "grade" => child'[c].of \notin save[q].of
  BY <1>10
<1>14. \A q \in DOMAIN save' : \/ save'[q] = save[q]
                               \/ save'[q] = [save[q] EXCEPT !.overtaken = TRUE]
  OBVIOUS
<1> QED  BY <1>2, <1>4, <1>6, <1>8, <1>9, <1>11, <1>12, <1>13, <1>14, TablesWritten

\* The one student a request is about.
LEMMA TheStudent ==
  ASSUME StudentsOK, NEW q \in DOMAIN save, save[q].do # "delete"
  PROVE  /\ (CHOOSE s \in save[q].of : TRUE) \in Born
         /\ save[q].of = {CHOOSE s \in save[q].of : TRUE}
<1>1. PICK t \in Born : save[q].of = {t}
  BY DEF StudentsOK, SaveOK
<1>2. (CHOOSE s \in save[q].of : TRUE) = t
  BY <1>1
<1> QED  BY <1>1, <1>2

\* What a grade of student s leaves of those who look for one.
LEMMA GradeSeen ==
  ASSUME StudentsOK, NEW p, NEW s \in Born, AnswerGrade(p, s)
  PROVE  \A q \in DOMAIN save' :
           save[q].do = "gradeInsert" /\ ~ save'[q].overtaken => s \notin save[q].of
<1> SUFFICES ASSUME NEW q \in DOMAIN save', save[q].do = "gradeInsert", ~ save'[q].overtaken
             PROVE  s \notin save[q].of
  OBVIOUS
<1>3. /\ DOMAIN save' = DOMAIN save \ {p}
      /\ \A t \in DOMAIN save' : save[t].do = "gradeInsert" /\ save[t].of = {s} => save'[t].overtaken
  BY GradeAnswered
<1>1. q \in DOMAIN save /\ ~ (save[q].of = {s})
  BY <1>3
<1>2. \E t \in Born : save[q].of = {t}
  BY <1>1 DEF StudentsOK, SaveOK
<1> QED  BY <1>1, <1>2

LEMMA CourseSteps ==
  ASSUME StudentsOK, NEW p \in Proc, CreateCourse(p) \/ UpdateCourse(p)
  PROVE  StudentsOK'
<1>0. save = [q \in DOMAIN save |-> save[q]] /\ DOMAIN child \subseteq ChildId
  BY DEF StudentsOK, StudentTypes
<1>1. ASSUME NEW new, Rewritten({}, new), student' = student, extra' = extra,
             DOMAIN new \subseteq ChildId, \A c \in DOMAIN new : new[c] \in ChildRow /\ new[c].kind = "course",
             \A c \in DOMAIN new : \/ c \in DOMAIN child /\ child[c].kind = "course"
                                   \/ \A q \in DOMAIN save : c \notin Remembers(q),
             Answer(p) \/ save' = save
      PROVE  StudentsOK'
  <2>1. /\ save' = [q \in DOMAIN save' |-> save'[q]] /\ DOMAIN save' \subseteq DOMAIN save
        /\ \A q \in DOMAIN save' : save'[q] = save[q]
    BY <1>0, <1>1, Answered
  <2>2. \A q \in DOMAIN save' : /\ \/ save'[q] = save[q]
                                   \/ save'[q] = [save[q] EXCEPT !.overtaken = TRUE]
                                /\ ~ save'[q].overtaken => ~ save[q].overtaken
    BY <2>1
  <2>3. DOMAIN save' \subseteq DOMAIN save /\ save' = [q \in DOMAIN save' |-> save'[q]]
    BY <2>1
  <2>4. \A c \in DOMAIN new : new[c].kind # "grade"
    BY <1>1
  <2>5. \A c \in DOMAIN new : \/ c \in DOMAIN child /\ new[c].kind = child[c].kind
                              \/ \A q \in DOMAIN save : c \notin Remembers(q)
    BY <1>1
  <2>6. \A c \in DOMAIN new : new[c] \in ChildRow
    BY <1>1
  <2> QED  BY <1>1, <2>2, <2>3, <2>4, <2>5, <2>6, Rewrites
<1>2. CASE CreateCourse(p)
  <2>1. PICK s \in Born : Rewritten({}, Inserted(s, 1, 0)) /\ UNCHANGED <<student, save, extra>>
    BY <1>2 DEF CreateCourse
  <2> DEFINE new == Inserted(s, 1, 0)
  <2>2. /\ DOMAIN new = Fresh(1 + 0) /\ \A c \in DOMAIN new : new[c] \in ChildRow /\ new[c].kind = "course"
    BY InsertedRows
  <2>3. Rewritten({}, new)
    BY <2>1
  <2> HIDE DEF new
  <2>4. DOMAIN new \subseteq ChildId /\ \A c \in DOMAIN new : \A q \in DOMAIN save : c \notin Remembers(q)
    BY <2>2, FreshIds
  <2> QED  BY <1>1, <2>1, <2>2, <2>3, <2>4
<1>3. CASE UpdateCourse(p)
  <2> DEFINE s == CHOOSE s \in save[p].of : TRUE
             new == [c \in {save[p].id} \cap DOMAIN child |-> [kind |-> "course", of |-> s]]
  <2>1. /\ p \in DOMAIN save /\ save[p].do = "course" /\ Rewritten({}, new) /\ Answer(p)
        /\ UNCHANGED <<student, extra>>
    BY <1>3 DEF UpdateCourse, Serves
  <2>2. s \in Born
    BY <2>1, TheStudent
  <2> HIDE DEF s
  <2>3. /\ DOMAIN new \subseteq DOMAIN child
        /\ \A c \in DOMAIN new : new[c] \in ChildRow /\ new[c].kind = "course" /\ c = save[p].id
    BY <2>2 DEF ChildRow
  <2>4. save[p].id \in DOMAIN child => child[save[p].id].kind = "course"
    BY <2>1 DEF StudentsOK, SaveOK
  <2> HIDE DEF new
  <2>5. DOMAIN new \subseteq ChildId /\ \A c \in DOMAIN new : c \in DOMAIN child /\ child[c].kind = "course"
    BY <1>0, <2>3, <2>4
  <2> QED  BY <1>1, <2>1, <2>3, <2>5
<1> QED  BY <1>2, <1>3
LEMMA UpdateGradeStep == ASSUME StudentsOK, NEW p \in Proc, UpdateGrade(p) PROVE StudentsOK'
<1> DEFINE s == CHOOSE s \in save[p].of : TRUE
           I == {save[p].id} \cap DOMAIN child
           new == [c \in I |-> [kind |-> "grade", of |-> s]]
<1>0. DOMAIN child \subseteq ChildId
  BY DEF StudentsOK, StudentTypes
<1>1. /\ p \in DOMAIN save /\ save[p].do = "grade" /\ Rewritten({}, new)
      /\ extra' = extra \cup I /\ AnswerGrade(p, s) /\ student' = student
  BY DEF UpdateGrade, Serves
<1>2. s \in Born
  BY <1>1, TheStudent
<1> HIDE DEF s
<1>3. /\ DOMAIN new = I /\ I \subseteq DOMAIN child
      /\ \A c \in DOMAIN new : new[c] \in ChildRow /\ new[c].kind = "grade" /\ new[c].of = s
  BY <1>2 DEF ChildRow
<1>4. \A c \in I : child[c].kind = "grade"
  BY <1>1 DEF StudentsOK, SaveOK
<1> HIDE DEF new, I
<1>5. DOMAIN new \subseteq ChildId /\ \A c \in DOMAIN new : c \in DOMAIN child /\ new[c].kind = child[c].kind
  BY <1>0, <1>3, <1>4
<1>6. /\ save' = [q \in DOMAIN save' |-> save'[q]] /\ DOMAIN save' \subseteq DOMAIN save
      /\ \A q \in DOMAIN save' : /\ \/ save'[q] = save[q]
                                    \/ save'[q] = [save[q] EXCEPT !.overtaken = TRUE]
                                 /\ ~ save'[q].overtaken => ~ save[q].overtaken
  BY <1>1, GradeAnswered
<1>7. \A q \in DOMAIN save' :
           save[q].do = "gradeInsert" /\ ~ save'[q].overtaken => s \notin save[q].of
  BY <1>1, <1>2, GradeSeen
<1>8. \A q \in DOMAIN save' :
           save[q].do = "gradeInsert" /\ ~ save'[q].overtaken =>
             \A c \in DOMAIN new : new[c].kind = "grade" => new[c].of \notin save[q].of
  BY <1>3, <1>7
<1>9. DOMAIN new \subseteq extra' /\ extra \subseteq extra'
  BY <1>1, <1>3
<1> QED  BY <1>1, <1>3, <1>5, <1>6, <1>8, <1>9, Rewrites

LEMMA CreateGradeStep == ASSUME StudentsOK, NEW p \in Proc, CreateGrade(p) PROVE StudentsOK'
<1> DEFINE s == CHOOSE s \in save[p].of : TRUE
           new == Inserted(s, 0, 1)
<1>1. /\ p \in DOMAIN save /\ save[p].do = "gradeInsert" /\ Rewritten({}, new)
      /\ extra' = IF save[p].overtaken THEN extra \cup Fresh(1) ELSE extra
      /\ AnswerGrade(p, s) /\ student' = student
  BY DEF CreateGrade, Serves
<1>2. s \in Born /\ save[p].of = {s}
  BY <1>1, TheStudent
<1> HIDE DEF s
<1>3. /\ DOMAIN new = Fresh(1)
      /\ \A c \in DOMAIN new : new[c] \in ChildRow /\ new[c].of = s
      /\ \A c, d \in DOMAIN new : new[c].kind = "grade" /\ new[d].kind = "grade" => c = d
  <2>1. 0 + 1 = 1 /\ 0 \in Nat /\ 1 \in 0 .. 1
    OBVIOUS
  <2> QED  BY <1>2, <2>1, InsertedRows
<1> HIDE DEF new
<1>4. DOMAIN new \subseteq ChildId /\ \A c \in DOMAIN new : \A q \in DOMAIN save : c \notin Remembers(q)
  BY <1>3, FreshIds
<1>6. /\ save' = [q \in DOMAIN save' |-> save'[q]] /\ DOMAIN save' \subseteq DOMAIN save
      /\ \A q \in DOMAIN save' : /\ \/ save'[q] = save[q]
                                    \/ save'[q] = [save[q] EXCEPT !.overtaken = TRUE]
                                 /\ ~ save'[q].overtaken => ~ save[q].overtaken
  BY <1>1, GradeAnswered
<1>7. \A q \in DOMAIN save' :
           save[q].do = "gradeInsert" /\ ~ save'[q].overtaken => s \notin save[q].of
  BY <1>1, <1>2, GradeSeen
<1>8. \A q \in DOMAIN save' :
           save[q].do = "gradeInsert" /\ ~ save'[q].overtaken =>
             \A c \in DOMAIN new : new[c].kind = "grade" => new[c].of \notin save[q].of
  BY <1>3, <1>7
<1>9. ASSUME NEW c \in DOMAIN new \ extra', new[c].kind = "grade",
             NEW d \in (DOMAIN new \cup (DOMAIN child \ {})) \ extra'
      PROVE  IF d \in DOMAIN new THEN new[d].kind = "grade" /\ new[d].of = new[c].of => c = d
             ELSE child[d].kind = "grade" => child[d].of # new[c].of
  <2>1. ~ save[p].overtaken
    BY <1>1, <1>3, <1>9
  <2>2. \A x \in DOMAIN child : child[x].kind = "grade" => child[x].of # s
    BY <1>1, <1>2, <2>1 DEF StudentsOK, SaveOK
  <2> QED  BY <1>3, <1>9, <2>2
<1>10. extra \subseteq extra'
  BY <1>1
<1> QED  BY <1>1, <1>3, <1>4, <1>6, <1>8, <1>9, <1>10, Rewrites

LEMMA CommitSaveStep == ASSUME StudentsOK, NEW p \in Proc, CommitSave(p) PROVE StudentsOK'
<1> DEFINE r == save[p]
           s == CHOOSE s \in r.of : TRUE
           n == Cardinality(r.listed \ r.seen) + r.new
           g == IF r.grade = 0 THEN 1 ELSE 0
           gone == r.seen \ r.listed
           stay == r.seen \cap r.listed \cap DOMAIN child
           shifted == {r.grade} \cap DOMAIN child
           added == Inserted(s, n, g)
           old == [c \in stay \cup shifted |-> [child[c] EXCEPT !.of = s]]
           new == Over(added, old)
<1>1. /\ p \in DOMAIN save /\ r.do = "updating" /\ Rewritten(gone, new)
      /\ extra' = (extra \ gone) \cup shifted \cup {c \in DOMAIN added : added[c].kind = "grade"}
      /\ IF shifted = {} /\ g = 0 THEN Answer(p) ELSE AnswerGrade(p, s)
      /\ student' = student
  BY DEF CommitSave, Serves
<1>2. /\ r \in SaveForm /\ SaveOK(p) /\ DOMAIN child \subseteq ChildId
      /\ \A c \in DOMAIN child : child[c] \in ChildRow
  BY <1>1 DEF StudentsOK, StudentTypes
<1>3. s \in Born /\ r.of = {s}
  BY <1>1, TheStudent
<1>4. n \in Nat /\ g \in 0 .. 1
  <2>1. IsFiniteSet(ChildId)
    BY FS_Interval, StudentsAssumption DEF ChildId
  <2>2. (r.listed \ r.seen) \in SUBSET ChildId /\ r.new \in 0 .. 1
    BY <1>2 DEF SaveForm
  <2>3. Cardinality(r.listed \ r.seen) \in Nat
    BY <2>1, <2>2, FS_Subset, FS_CardinalityType
  <2>4. r.new \in Nat
    BY <2>2
  <2> QED  BY <2>3, <2>4
<1>5. /\ DOMAIN added = Fresh(n + g)
      /\ \A c \in DOMAIN added : added[c] \in ChildRow /\ added[c].of = s
      /\ g = 0 => \A c \in DOMAIN added : added[c].kind = "course"
  <2> HIDE DEF s, n, g, added
  <2>1. /\ DOMAIN Inserted(s, n, g) = Fresh(n + g)
        /\ \A c \in Fresh(n + g) : Inserted(s, n, g)[c] \in ChildRow /\ Inserted(s, n, g)[c].of = s
        /\ g = 0 => \A c \in Fresh(n + g) : Inserted(s, n, g)[c].kind = "course"
    BY <1>3, <1>4, InsertedRows
  <2> QED  BY <2>1 DEF added
<1>6. /\ DOMAIN added \subseteq ChildId
      /\ \A c \in DOMAIN added : c \notin DOMAIN child /\ \A q \in DOMAIN save : c \notin Remembers(q)
  <2> HIDE DEF added, n, g
  <2> QED  BY <1>5, FreshIds
<1>7. \A c \in stay \cup shifted : /\ c \in DOMAIN child /\ [child[c] EXCEPT !.of = s] \in ChildRow
                                 /\ [child[c] EXCEPT !.of = s].of = s
                                 /\ [child[c] EXCEPT !.of = s].kind = child[c].kind
  <2> HIDE DEF s
  <2> QED  BY <1>2, <1>3 DEF ChildRow
<1>8. \A c \in stay : child[c].kind = "course"
  BY <1>2 DEF SaveOK
<1> HIDE DEF s, n, g, added, stay, shifted
<1>9. /\ DOMAIN new = DOMAIN added \cup stay \cup shifted
      /\ \A c \in DOMAIN added : new[c] = added[c]
      /\ \A c \in stay \cup shifted : new[c] = [child[c] EXCEPT !.of = s]
  BY <1>6, <1>7 DEF Over
<1>10. new = Over(added, old)
  OBVIOUS
<1> HIDE DEF new
<1>11. /\ DOMAIN new \subseteq ChildId /\ \A c \in DOMAIN new : new[c] \in ChildRow /\ new[c].of = s
       /\ \A c \in stay \cup shifted : new[c].kind = child[c].kind /\ c \in DOMAIN child
  <2>1. \A c \in stay \cup shifted : new[c] \in ChildRow /\ new[c].of = s /\ new[c].kind = child[c].kind
                                    /\ c \in DOMAIN child /\ c \in ChildId
    BY <1>2, <1>7, <1>9
  <2>2. \A c \in DOMAIN added : new[c] \in ChildRow /\ new[c].of = s /\ c \in ChildId
    BY <1>5, <1>6, <1>9
  <2> HIDE DEF old
  <2> QED  BY <1>9, <2>1, <2>2
<1>12. \A c \in DOMAIN new : \/ c \in DOMAIN child /\ new[c].kind = child[c].kind
                             \/ \A q \in DOMAIN save : c \notin Remembers(q)
  BY <1>6, <1>9, <1>11
<1>13. \A c \in DOMAIN new : new[c].kind = "grade" => c \in extra'
  BY <1>1, <1>8, <1>9, <1>11
<1>14. extra \ (gone \cup DOMAIN new) \subseteq extra'
  BY <1>1
<1>15. /\ save' = [q \in DOMAIN save' |-> save'[q]] /\ DOMAIN save' \subseteq DOMAIN save
       /\ \A q \in DOMAIN save' : /\ \/ save'[q] = save[q]
                                     \/ save'[q] = [save[q] EXCEPT !.overtaken = TRUE]
                                  /\ ~ save'[q].overtaken => ~ save[q].overtaken
  <2>1. CASE shifted = {} /\ g = 0
    BY <1>1, <2>1, Answered
  <2>2. CASE ~ (shifted = {} /\ g = 0)
    BY <1>1, <2>2, GradeAnswered
  <2> QED  BY <2>1, <2>2
<1>16. ASSUME NEW q \in DOMAIN save', save[q].do = "gradeInsert", ~ save'[q].overtaken,
              NEW c \in DOMAIN new, new[c].kind = "grade"
       PROVE  new[c].of \notin save[q].of
  <2>1. CASE shifted = {} /\ g = 0
    <3>1. c \notin DOMAIN added /\ c \notin stay
      BY <1>5, <1>8, <1>9, <1>11, <1>16, <2>1
    <3> QED  BY <1>9, <2>1, <3>1
  <2>2. CASE ~ (shifted = {} /\ g = 0)
    BY <1>1, <1>3, <1>11, <1>16, <2>2, GradeSeen
  <2> QED  BY <2>1, <2>2
<1>17. Rewritten(gone, new) /\ student' = student
  BY <1>1, <1>10
<1> HIDE DEF gone
<1> QED  BY <1>11, <1>12, <1>13, <1>14, <1>15, <1>16, <1>17, Rewrites

LEMMA CreateStudentStep == ASSUME StudentsOK, NEW p \in Proc, CreateStudent(p) PROVE StudentsOK'
<1>1. PICK s \in StudentId, n \in 0 .. 1, g \in 0 .. 1 :
        /\ s = 1 + Cardinality(Born)
        /\ student' = Over([t \in {s} |-> TRUE], student)
        /\ child' = Over(Inserted(s, n, g), child)
        /\ UNCHANGED <<save, late, extra>>
  BY DEF CreateStudent
<1>2. PICK k \in Nat : Born = 1 .. k
  BY DEF StudentsOK, StudentTypes
<1>3. s = k + 1
  <2>1. Cardinality(1 .. k) = IF 1 > k THEN 0 ELSE k - 1 + 1
    BY FS_Interval
  <2>2. Cardinality(Born) = k
    BY <1>2, <2>1
  <2> QED  BY <1>1, <2>2
<1>4. Born' = 1 .. (k + 1) /\ s \in Born' /\ s \notin Born /\ Born \subseteq Born'
  <2>1. DOMAIN student' = {s} \cup DOMAIN student
    BY <1>1 DEF Over
  <2>2. DOMAIN student = 1 .. k /\ Born' = DOMAIN student'
    BY <1>2 DEF Born
  <2>3. {s} \cup (1 .. k) = 1 .. (k + 1)
    BY <1>3
  <2> QED  BY <1>2, <1>3, <2>1, <2>2, <2>3
<1>5. student' \in [Born' -> BOOLEAN] /\ student'[s] = TRUE /\ \A t \in Born : student'[t] = student[t]
  <2>1. student \in [Born -> BOOLEAN] /\ DOMAIN student = Born
    BY DEF StudentsOK, StudentTypes
  <2>2. student' = [t \in {s} \cup Born |-> IF t = s THEN TRUE ELSE student[t]]
    BY <1>1, <2>1 DEF Over
  <2>3. DOMAIN student' = {s} \cup Born /\ Born' = DOMAIN student'
    BY <2>2 DEF Born
  <2> QED  BY <1>4, <2>1, <2>2, <2>3
<1> DEFINE new == Inserted(s, n, g)
<1>6. /\ DOMAIN new = Fresh(n + g)
      /\ \A c \in DOMAIN new : new[c].kind \in {"course", "grade"} /\ new[c].of = s
                               /\ new[c] = [kind |-> new[c].kind, of |-> new[c].of]
      /\ \A c, d \in DOMAIN new : new[c].kind = "grade" /\ new[d].kind = "grade" => c = d
  <2>1. n \in Nat /\ g \in {0, 1} /\ (g = 0 => n + g = n)
    OBVIOUS
  <2>2. new = [c \in Fresh(n + g) |-> [kind |-> IF c \in Fresh(n) THEN "course" ELSE "grade", of |-> s]]
    BY DEF Inserted
  <2>3. \A c \in Fresh(n + g) : new[c] = [kind |-> IF c \in Fresh(n) THEN "course" ELSE "grade", of |-> s]
    BY <2>2
  <2>4. DOMAIN new = Fresh(n + g)
    BY <2>2
  <2> HIDE DEF new
  <2>5. \A c, d \in DOMAIN new : new[c].kind = "grade" /\ new[d].kind = "grade" => c = d
    BY <2>1, <2>3, <2>4, FreshStep
  <2> QED  BY <2>3, <2>4, <2>5
<1>7. child' = Over(new, child)
  BY <1>1
<1> HIDE DEF new
<1>8. /\ DOMAIN new \subseteq ChildId
      /\ \A c \in DOMAIN new : c \notin DOMAIN child /\ \A q \in DOMAIN save : c \notin Remembers(q)
  BY <1>6, FreshIds
<1>9. /\ DOMAIN child' = DOMAIN new \cup DOMAIN child
      /\ child' = [c \in DOMAIN child' |-> child'[c]]
      /\ \A c \in DOMAIN new : child'[c] = new[c]
      /\ \A c \in DOMAIN child : child'[c] = child[c]
  BY <1>7, <1>8 DEF Over
<1>10. \A c \in DOMAIN child : child[c] \in ChildRow /\ c \in ChildId
  BY DEF StudentsOK, StudentTypes
<1>11. DOMAIN child' \subseteq ChildId
  BY <1>8, <1>9, <1>10
<1>12. \A c \in DOMAIN child' : child'[c].kind \in {"course", "grade"} /\ child'[c].of \in Born'
                                /\ child'[c] = [kind |-> child'[c].kind, of |-> child'[c].of]
  <2>1. \A c \in DOMAIN child : child'[c].kind \in {"course", "grade"} /\ child'[c].of \in Born'
                                /\ child'[c] = [kind |-> child'[c].kind, of |-> child'[c].of]
    BY <1>4, <1>9, <1>10 DEF ChildRow
  <2>2. \A c \in DOMAIN new : child'[c].kind \in {"course", "grade"} /\ child'[c].of \in Born'
                                /\ child'[c] = [kind |-> child'[c].kind, of |-> child'[c].of]
    BY <1>4, <1>6, <1>9
  <2> QED  BY <1>9, <2>1, <2>2
<1>13. save' = save /\ save = [q \in DOMAIN save |-> save[q]]
  BY <1>1 DEF StudentsOK, StudentTypes
<1>14. /\ save' = [q \in DOMAIN save' |-> save'[q]] /\ DOMAIN save' \subseteq DOMAIN save
       /\ \A q \in DOMAIN save' : \/ save'[q] = save[q]
                                  \/ save'[q] = [save[q] EXCEPT !.overtaken = TRUE]
  BY <1>13
<1>15. \A c \in DOMAIN child' :
           \/ c \in DOMAIN child /\ child'[c].kind = child[c].kind
           \/ \A q \in DOMAIN save' : c \notin Remembers(q)
  BY <1>8, <1>9, <1>13
<1>16. ASSUME NEW q \in DOMAIN save', save[q].do = "gradeInsert", ~ save'[q].overtaken,
              NEW c \in DOMAIN child', child'[c].kind = "grade"
       PROVE  child'[c].of \notin save[q].of
  <2>1. SaveOK(q) /\ save[q].of \subseteq Born
    BY <1>13 DEF StudentsOK, SaveOK
  <2>2. CASE c \in DOMAIN new
    BY <1>4, <1>6, <1>9, <2>1, <2>2
  <2>3. CASE c \in DOMAIN child
    BY <1>9, <1>13, <1>16, <2>1, <2>3 DEF SaveOK
  <2> QED  BY <1>9, <2>2, <2>3
<1>17. \A c \in DOMAIN child : child[c].of \in Born
  BY <1>10 DEF ChildRow
<1>18. ChildrenLive'
  <2>1. ASSUME NEW c \in DOMAIN child' \ late' PROVE student'[child'[c].of]
    <3>1. CASE c \in DOMAIN new
      BY <1>5, <1>6, <1>9, <3>1
    <3>2. CASE c \in DOMAIN child
      BY <1>1, <1>5, <1>9, <1>17, <2>1, <3>2 DEF StudentsOK, ChildrenLive
    <3> QED  BY <1>9, <3>1, <3>2
  <2> QED  BY <2>1 DEF ChildrenLive
<1>19. OneGrade'
  <2>1. ASSUME NEW c \in DOMAIN child' \ extra', NEW d \in DOMAIN child' \ extra',
               child'[c].kind = "grade", child'[d].kind = "grade", child'[c].of = child'[d].of
        PROVE  c = d
    <3>1. CASE c \in DOMAIN new /\ d \in DOMAIN new
      BY <1>6, <1>9, <2>1, <3>1
    <3>2. CASE c \in DOMAIN child /\ d \in DOMAIN child
      BY <1>1, <1>9, <2>1, <3>2 DEF StudentsOK, OneGrade
    <3>3. ASSUME NEW x \in DOMAIN new, NEW y \in DOMAIN child PROVE child'[x].of # child'[y].of
      BY <1>4, <1>6, <1>9, <1>17
    <3> QED  BY <1>9, <2>1, <3>1, <3>2, <3>3
  <2> QED  BY <2>1 DEF OneGrade
<1>20. \A q \in DOMAIN save' :
           save[q].do = "gradeInsert" /\ ~ save'[q].overtaken =>
             \A c \in DOMAIN child' : child'[c].kind = "grade" => child'[c].of \notin save[q].of
  BY <1>16
<1>21. k + 1 \in Nat /\ \E m \in Nat : Born' = 1 .. m
  BY <1>4
<1>22. child' = [c \in DOMAIN child' |-> child'[c]]
  BY <1>9
<1> QED  BY <1>4, <1>5, <1>11, <1>12, <1>14, <1>15, <1>18, <1>19, <1>20, <1>21, <1>22, TablesWritten

LEMMA StudentsInvariant == StudentsSpec => []StudentsOK
<1>1. ASSUME StudentsOK, [StudentsNext]_studentVars PROVE StudentsOK'
  <2>1. ASSUME NEW p \in Proc, StudentsStep(p) PROVE StudentsOK'
    BY <1>1, <2>1, CreateStudentStep, SaveReads, BeginStep, CommitSaveStep, RemovalSteps, CourseSteps,
       UpdateGradeStep, CreateGradeStep DEF StudentsStep
  <2>2. CASE UNCHANGED studentVars
    <3>1. UNCHANGED <<student, child, save, late, extra>>
      BY <2>2 DEF studentVars
    <3>2. Born' = Born
      BY <3>1 DEF Born
    <3>3. StudentTypes'
      BY <1>1, <3>1, <3>2 DEF StudentsOK, StudentTypes, ChildRow
    <3>4. \A q \in DOMAIN save' : SaveOK(q)'
      BY <1>1, <3>1, <3>2 DEF StudentsOK, SaveOK
    <3>5. ChildrenLive' /\ OneGrade'
      BY <1>1, <3>1 DEF StudentsOK, ChildrenLive, OneGrade
    <3> QED  BY <3>3, <3>4, <3>5 DEF StudentsOK
  <2> QED  BY <1>1, <2>1, <2>2 DEF StudentsNext
<1> QED  BY <1>1, StudentsStart, PTL DEF StudentsSpec

\* However saves and deletions of students overlap, a course or a grade outlives its
\* student only when it was written after the deletion, and a student has a second
\* grade only when a request wrote it that does not look for the first one, or
\* looked before it was there (demo03/service.go:104,241): the deletion takes all
\* children along, and a request that has found no grade is marked by everyone who
\* writes one for the same student.
THEOREM StudentsStayWhole == StudentsSpec => []StudentsWhole
<1>1. ASSUME StudentsOK PROVE StudentsWhole
  BY <1>1 DEF StudentsOK, ChildrenLive, OneGrade, StudentsWhole, Rows
<1> QED  BY <1>1, StudentsInvariant, PTL

-----------------------------------------------------------------------------
(* Tables *)

Tabs == {"role", "menu", "post", "dictType", "dictData", "tenant", "package", "notify", "mail",
         "sms", "client", "social", "config", "category", "notice", "account", "channel",
         "source", "contact"}
Parents == {"menu", "category", "dictType", "package", "account", "channel"}

Dos == Selects \cup {"lock", "lockChangeable", "insert", "update", "drop", "dropAll"}
Program == Seq([do : Dos, id : Nat])
TableForm == [id : Nat, name : Name \cup {None}, code : Code \cup {None}, up : Nat \cup Code]
TableRow == [kind : Tabs \cup {None}, name : Name \cup {None}, code : Code \cup {None},
             up : Nat \cup Code, builtin : BOOLEAN]

IsRequest(r) ==
  /\ r = [kind |-> r.kind, form |-> r.form, ids |-> r.ids, todo |-> r.todo, was |-> r.was,
          locked |-> r.locked, disturbed |-> r.disturbed]
  /\ r.form \in TableForm /\ r.todo \in Program /\ r.ids \in Seq(Nat)
  /\ r.disturbed \in BOOLEAN

TableTypes ==
  /\ rows \in [Id -> TableRow]
  /\ nextId \in 0 .. Cardinality(Id)
  /\ crud = [p \in Proc |-> crud[p]]
  /\ \A p \in Proc : IsRequest(crud[p])
  /\ \A i \in Id : i > nextId \/ rows[i].kind = None => rows[i] = Dead
  /\ \A i \in Id : rows[i].builtin => rows[i].kind \in {"role", "tenant", "config"}

\* A step that is still ahead of a request.
Ahead(todo, d) == \E k \in DOMAIN todo : todo[k].do = d

\* The checks that must come before the write of a form.
Needs(kind, f) ==
  (IF kind = "config" THEN {"key"} ELSE Keys[kind])
    \cup (IF kind \in DOMAIN Parent /\ ~ (kind \in {"menu", "category"} /\ f.up = 0)
          THEN {"parent"} ELSE {})
    \cup (IF kind = "dictType" /\ ~ IsNew(f) THEN {"exists"} ELSE {})

\* The rows C from the new parent upwards, as far as the request has climbed, are
\* not the one to be moved.
Climbed(r, C) ==
  /\ r.form.up \in C /\ r.form.id \notin C
  /\ \A c \in C : rows[c].up \in C
                  \/ IF Ahead(r.todo, "above") THEN rows[c].up = r.was
                                               ELSE rows[c].up \notin Live("category")

ClimbOK(r) ==
  r.kind = "category" /\ ~ IsNew(r.form) /\ r.form.up # 0 =>
    /\ r.form.up # r.form.id
    /\ \/ \E j, k \in DOMAIN r.todo : j < k /\ r.todo[j].do = "parent" /\ r.todo[k].do = "above"
       \/ ~ r.disturbed => \E C \in SUBSET Id : Climbed(r, C)

\* A request that creates or changes a row: what it has checked still holds, unless
\* another one has committed since.
Saves(r) ==
  /\ r.kind \in Tabs
  /\ r.form.id \in 0 .. nextId
  /\ Len(r.todo) > 0
  /\ \A k \in DOMAIN r.todo :
       /\ r.todo[k].id = r.form.id
       /\ IF k < Len(r.todo) THEN r.todo[k].do \in Selects
          ELSE r.todo[k].do = IF IsNew(r.form) THEN "insert" ELSE "update"
  /\ \A d \in Needs(r.kind, r.form) :
       Ahead(r.todo, d) \/ (~ r.disturbed => Found(r, Step(d, r.form.id)))
  /\ r.kind = "dictType" /\ ~ IsNew(r.form) =>
       Ahead(r.todo, "exists") \/ (~ r.disturbed => r.was = rows[r.form.id].code)
  /\ r.kind = "dictType" => r.form.code \in Code
  /\ Ahead(r.todo, "above") => r.kind = "category"
  /\ ClimbOK(r)

Childless(kind, i) == rows[i].kind = kind => ChildrenOf(kind, i, rows[i].code) = {}

\* Before a row is deleted, its children are looked for.
DropOK(r) ==
  \A k \in DOMAIN r.todo : r.todo[k].do = "drop" =>
    \/ \E m \in 1 .. k - 1 : /\ r.todo[m] = Step("unused", r.todo[k].id)
                             /\ \A l \in m + 1 .. k - 1 : r.todo[l].do # "drop"
    \/ /\ \A m \in 1 .. k - 1 : r.todo[m].do # "drop"
       /\ ~ r.disturbed => Childless(r.kind, r.todo[k].id)

\* The same for a list that is deleted at once.
DropAllOK(r) ==
  \A k \in DOMAIN r.todo : r.todo[k].do = "dropAll" =>
    /\ k = Len(r.todo) /\ ~ Ahead(r.todo, "drop")
    /\ \A n \in DOMAIN r.ids :
         \/ \E m \in DOMAIN r.todo : \/ r.todo[m] = Step("unused", r.ids[n])
                                     \/ r.todo[m].do = "unusedAll"
         \/ ~ r.disturbed => Childless(r.kind, r.ids[n])

\* Types of dictionaries are locked before their data are looked for.
LocksFirst(r) ==
  \A k \in DOMAIN r.todo : r.todo[k].do \in {"lock", "lockChangeable"} =>
    /\ \E m \in DOMAIN r.todo : k < m /\ r.todo[m].do = "unusedAll"
    /\ ~ Ahead(r.todo, "drop") /\ ~ Ahead(r.todo, "unused")

\* The code by which the data of a type are looked for is that of the row.
DictOK(r) ==
  r.kind = "dictType" =>
    /\ \A k \in DOMAIN r.todo : r.todo[k].do = "unused" =>
         /\ \/ \E m \in 1 .. k - 1 : r.todo[m].do = "exists"
            \/ ~ r.disturbed => r.was = rows[r.todo[k].id].code
         /\ \A m \in DOMAIN r.todo : r.todo[m].do = "exists" => r.todo[m].id = r.todo[k].id
    /\ \A k \in DOMAIN r.todo : r.todo[k].do = "drop" => k = Len(r.todo)
    /\ Ahead(r.todo, "dropAll") => \A n \in DOMAIN r.ids :
         /\ r.ids[n] \in 1 .. nextId
         /\ \/ \E m \in DOMAIN r.todo : r.todo[m] = Step("lock", r.ids[n])
            \/ r.ids[n] \in r.locked
            \/ rows[r.ids[n]].kind # "dictType"

Removes(r) ==
  /\ r.kind \in Tabs
  /\ Len(r.todo) > 0
  /\ \A k \in DOMAIN r.todo : r.todo[k].do \notin {"insert", "update", "parent", "above"}
  /\ r.todo[Len(r.todo)].do \in {"drop", "dropAll"}
  /\ r.kind \in Parents => DropOK(r) /\ DropAllOK(r) /\ LocksFirst(r) /\ DictOK(r)

TablesOK ==
  /\ TableTypes
  /\ \A p \in Proc : crud[p] = Resting \/ Saves(crud[p]) \/ Removes(crud[p])
  /\ UniqueUnlessRaced
  /\ RefsUnlessRaced


-----------------------------------------------------------------------------

LEMMA TabsFact ==
  /\ None \notin Tabs /\ Parents \subseteq Tabs /\ DOMAIN Parent \subseteq Tabs
  /\ \A kind \in DOMAIN Parent : Parent[kind] \in Parents
<1>1. Tabs = Kinds
  BY DEF Tabs, Kinds, Families
<1>2. DOMAIN Parent = {"menu", "category", "dictData", "tenant", "mail", "sms"}
  BY DEF Parent
<1>3. \A kind \in DOMAIN Parent : Parent[kind] \in Parents
  BY DEF Parent, Parents
<1>. QED  BY <1>1, <1>2, <1>3, TablesAssumption DEF Tabs, Parents

LEMMA KeysFact ==
  /\ \A kind \in Tabs : Keys[kind] \subseteq {"name", "code", "nameIn"}
  /\ Keys["config"] = {"code"}
  /\ Keys["dictType"] = {"name", "code"} /\ Keys["dictData"] = {"nameIn"}
BY DEF Keys, Tabs, RoleKeys, MenuKeys, PostKeys, DictTypeKeys, DictDataKeys, TenantKeys, PackageKeys, TemplateKeys, ClientKeys, ParameterKeys, CategoryKeys

LEMMA IdFact ==
  \E N \in Nat : Id = 1 .. N /\ Cardinality(Id) = N
<1> DEFINE N == IF topic \cap DOMAIN Parent = {} THEN MaxId - 1 ELSE MaxId
<1>1. N \in Nat /\ Id = 1 .. N
  BY CrudAssumption DEF Id
<1>2. Cardinality(1 .. N) = N
  <2>1. Cardinality(1 .. N) = IF 1 > N THEN 0 ELSE N - 1 + 1
    <3>. HIDE DEF N
    <3>. QED  BY <1>1, FS_Interval
  <2>. QED  BY <1>1, <2>1
<1>. QED  BY <1>1, <1>2

\* What each check has found out.
LEMMA FoundFact ==
  ASSUME NEW r, NEW i
  PROVE  /\ Found(r, Step("exists", i)) <=> rows[i].kind = r.kind
         /\ Found(r, Step("name", i)) <=>
              (r.form.name = None \/ \A j \in Id : rows[j].kind = r.kind /\ j # r.form.id =>
                                                    rows[j].name # r.form.name)
         /\ Found(r, Step("nameIn", i)) <=>
              (r.form.name = None \/ \A j \in Id : rows[j].kind = r.kind /\ j # r.form.id
                                                    /\ rows[j].up = r.form.up =>
                                                    rows[j].name # r.form.name)
         /\ Found(r, Step("code", i)) <=>
              (r.form.code = None \/ \A j \in Id : rows[j].kind = r.kind /\ j # r.form.id =>
                                                    rows[j].code # r.form.code)
         /\ Found(r, Step("key", i)) <=>
              LET holders == {j \in Id : rows[j].kind = r.kind /\ rows[j].code = r.form.code} IN
              holders = {} \/ r.form.id \in holders
         /\ Found(r, Step("parent", i)) <=> HasParent(r.kind, r.form.up)
         /\ Found(r, Step("above", i)) <=> r.was # r.form.id
         /\ Found(r, Step("unused", i)) <=> ChildrenOf(r.kind, i, r.was) = {}
         /\ Found(r, Step("unusedAll", i)) <=>
              \A k \in DOMAIN r.ids : (r.kind = "dictType" => r.ids[k] \in r.locked) =>
                ChildrenOf(r.kind, r.ids[k], rows[r.ids[k]].code) = {}
BY DEF Found, Step

\* A form that passes its checks clashes with no row, unless its own had the same
\* key before.
LEMMA NoClash ==
  ASSUME NEW r, r.kind \in Tabs, NEW j \in Id, rows[j].kind = r.kind, j # r.form.id,
         NEW key \in Keys[r.kind],
         \A d \in Needs(r.kind, r.form) : Found(r, Step(d, r.form.id))
  PROVE  \/ key = "code" /\ r.kind = "config" /\ rows[r.form.id].kind = r.kind
              /\ r.form.id \in Id
              /\ rows[r.form.id].code = r.form.code
         \/ /\ key = "name" => rows[j].name # r.form.name \/ rows[j].name = None
            /\ key = "code" => rows[j].code # r.form.code \/ rows[j].code = None
            /\ key = "nameIn" => \/ rows[j].name # r.form.name \/ rows[j].name = None
                                 \/ rows[j].up # r.form.up
<1>1. key \in {"name", "code", "nameIn"}
  BY KeysFact
<1>2. CASE r.kind # "config"
  <2>1. Found(r, Step(key, r.form.id))
    BY <1>2 DEF Needs
  <2>. QED  BY <1>1, <2>1, FoundFact
<1>3. CASE r.kind = "config"
  <2>1. Found(r, Step("key", r.form.id)) /\ key = "code"
    BY <1>3, KeysFact DEF Needs
  <2>2. LET holders == {i \in Id : rows[i].kind = r.kind /\ rows[i].code = r.form.code} IN
        holders = {} \/ r.form.id \in holders
    BY <2>1, FoundFact
  <2>. QED  BY <1>3, <2>1, <2>2
<1>. QED  BY <1>2, <1>3

\* Clash and HasParent, of any rows R.
Collide(R, i, j, key) ==
  \/ key = "name" /\ R[i].name = R[j].name /\ R[i].name # None
  \/ key = "code" /\ R[i].code = R[j].code /\ R[i].code # None
  \/ key = "nameIn" /\ R[i].name = R[j].name /\ R[i].up = R[j].up /\ R[i].name # None

Linked(R, I, kind, up) ==
  \/ Parent[kind] = "dictType" /\ \E j \in I : R[j].kind = "dictType" /\ R[j].code = up
  \/ Parent[kind] # "dictType" /\ up \in I /\ R[up].kind = Parent[kind]
  \/ Parent[kind] = kind /\ up = 0

\* The two properties, of any rows R of which T are tainted.
AllApart(R, I, T) ==
  \A i, j \in I \ T : i # j /\ R[i].kind \in Tabs /\ R[i].kind = R[j].kind =>
    \A key \in Keys[R[i].kind] : ~ Collide(R, i, j, key)

AllLinked(R, I, T) ==
  \A i \in I \ T : R[i].kind \in DOMAIN Parent /\ ~ R[i].builtin =>
    Linked(R, I, R[i].kind, R[i].up)

Acyclic(R, I, T) ==
  \A S \in SUBSET {i \in I \ T : R[i].kind = "category"} :
    S # {} => \E i \in S : R[i].up \notin S

LEMMA LinkedFact ==
  \A kind \in DOMAIN Parent : \A up : HasParent(kind, up) <=> Linked(rows, Id, kind, up)
<1>1. \A kind \in DOMAIN Parent : Parent[kind] = kind => Parent[kind] # "dictType"
  BY DEF Parent
<1>. QED  BY <1>1 DEF HasParent, Linked, Live

LEMMA RefsFact == RefsUnlessRaced <=> AllLinked(rows, Id, tainted) /\ Acyclic(rows, Id, tainted)
<1>1. Live("category") \ tainted = {i \in Id \ tainted : rows[i].kind = "category"}
  BY DEF Live
<1>2. NoCycle <=> Acyclic(rows, Id, tainted)
  BY <1>1 DEF NoCycle, Acyclic
<1>. QED  BY <1>2, LinkedFact DEF RefsUnlessRaced, AllLinked

LEMMA CollideFact ==
  \A i, j, key : key \in {"name", "code", "nameIn"} => (Clash(i, j, key) <=> Collide(rows, i, j, key))
<1>1. \A i, j : Clash(i, j, "name") <=> Collide(rows, i, j, "name")
  BY DEF Clash, Collide
<1>2. \A i, j : Clash(i, j, "code") <=> Collide(rows, i, j, "code")
  BY DEF Clash, Collide
<1>3. \A i, j : Clash(i, j, "nameIn") <=> Collide(rows, i, j, "nameIn")
  BY DEF Clash, Collide
<1>. QED  BY <1>1, <1>2, <1>3

LEMMA ApartFact ==
  ASSUME TableTypes
  PROVE  UniqueUnlessRaced <=> AllApart(rows, Id, tainted)
<1>1. \A i, j, key : Collide(rows, i, j, key) => Collide(rows, j, i, key)
  BY DEF Collide
<1>2. \A i, j \in Id : (i # j => i < j \/ j < i) /\ (i < j => i # j)
  BY IdFact
<1>3. \A i \in Id : rows[i] # Dead <=> rows[i].kind \in Tabs
  BY TabsFact DEF TableTypes, TableRow, Dead
<1>4. ASSUME AllApart(rows, Id, tainted) PROVE UniqueUnlessRaced
  BY <1>2, <1>3, <1>4, CollideFact, KeysFact DEF UniqueUnlessRaced, AllApart
<1>5. ASSUME UniqueUnlessRaced, NEW i \in Id \ tainted, NEW j \in Id \ tainted,
             i # j, rows[i].kind \in Tabs, rows[i].kind = rows[j].kind,
             NEW key \in Keys[rows[i].kind]
      PROVE  ~ Collide(rows, i, j, key)
  <2>1. key \in {"name", "code", "nameIn"}
    BY <1>5, KeysFact
  <2>2. CASE i < j
    BY <1>3, <1>5, <2>1, <2>2, CollideFact DEF UniqueUnlessRaced
  <2>3. CASE j < i
    <3>1. ~ Clash(j, i, key)
      BY <1>3, <1>5, <2>3 DEF UniqueUnlessRaced
    <3>. QED  BY <1>1, <2>1, <3>1, CollideFact
  <2>. QED  BY <1>2, <1>5, <2>2, <2>3
<1>. QED  BY <1>4, <1>5 DEF AllApart

-----------------------------------------------------------------------------
(* The three writes. *)

LEMMA AtWrite ==
  ASSUME TablesOK, NEW p \in Proc, NextDo(p) \in {"insert", "update"}
  PROVE  LET r == crud[p] IN
         /\ Saves(r) /\ IsRequest(r) /\ Len(r.todo) = 1
         /\ IsNew(r.form) <=> NextDo(p) = "insert"
         /\ ~ r.disturbed => \A d \in Needs(r.kind, r.form) : Found(r, Step(d, r.form.id))
         /\ r.kind = "dictType" /\ ~ IsNew(r.form) /\ ~ r.disturbed =>
              r.was = rows[r.form.id].code
         /\ r.kind = "category" /\ ~ IsNew(r.form) /\ r.form.up # 0 /\ ~ r.disturbed =>
              \E C \in SUBSET Id :
                /\ r.form.up \in C /\ r.form.id \notin C
                /\ \A c \in C : rows[c].up \in C \/ rows[c].up \notin Live("category")
<1> DEFINE r == crud[p]
           t == r.todo
<1>1. IsRequest(r) /\ (r = Resting \/ Saves(r) \/ Removes(r))
  BY DEF TablesOK, TableTypes
<1>2. t \in Program /\ t # <<>> /\ t[1].do = NextDo(p) /\ 1 \in DOMAIN t
      /\ Len(t) \in Nat /\ DOMAIN t = 1 .. Len(t)
  <2>1. t \in Program
    BY <1>1 DEF IsRequest
  <2>2. t # <<>> /\ NextDo(p) = Head(t).do
    BY DEF NextDo
  <2>. QED  BY <2>1, <2>2 DEF Program
<1>3. r # Resting /\ ~ Removes(r)
  BY <1>2 DEF Resting, Removes
<1>4. Saves(r)
  BY <1>1, <1>3
<1>5. Len(t) = 1
  <2>1. NextDo(p) \notin Selects
    BY DEF Selects
  <2>2. 1 < Len(t) => t[1].do \in Selects
    BY <1>2, <1>4 DEF Saves
  <2>3. Len(t) \in Nat /\ Len(t) >= 1 /\ t[1].do = NextDo(p)
    BY <1>2
  <2>4. ~ (1 < Len(t))
    BY <2>1, <2>2, <2>3
  <2>. HIDE DEF t
  <2>. QED  BY <2>3, <2>4
<1>6. IsNew(r.form) <=> NextDo(p) = "insert"
  BY <1>2, <1>4, <1>5 DEF Saves
<1>7. \A d : d \notin {"insert", "update"} => ~ Ahead(t, d)
  BY <1>2, <1>5 DEF Ahead
<1>8. \A d \in Needs(r.kind, r.form) : d \notin {"insert", "update"}
  BY <1>4, KeysFact DEF Needs, Saves
<1>9. ~ \E j, k \in DOMAIN t : j < k /\ t[j].do = "parent" /\ t[k].do = "above"
  BY <1>2, <1>5
<1>10. ASSUME r.kind = "category", ~ IsNew(r.form), r.form.up # 0, ~ r.disturbed
       PROVE  \E C \in SUBSET Id :
                /\ r.form.up \in C /\ r.form.id \notin C
                /\ \A c \in C : rows[c].up \in C \/ rows[c].up \notin Live("category")
  <2>1. PICK C \in SUBSET Id : Climbed(r, C)
    BY <1>4, <1>9, <1>10 DEF Saves, ClimbOK
  <2>. QED  BY <1>7, <2>1 DEF Climbed
<1>. QED  BY <1>1, <1>4, <1>5, <1>6, <1>7, <1>8, <1>10 DEF Saves

\* A new row is apart from the others, has its parent, and is nobody's parent.
LEMMA InsertKeeps ==
  ASSUME TablesOK, NEW p \in Proc, Insert(p)
  PROVE  /\ AllApart(rows', Id, tainted') /\ AllLinked(rows', Id, tainted')
         /\ Acyclic(rows', Id, tainted')
<1> DEFINE r == crud[p]
           j == nextId + 1
<1>1. /\ Saves(r) /\ IsRequest(r) /\ r.form.id = 0
      /\ ~ r.disturbed => \A d \in Needs(r.kind, r.form) : Found(r, Step(d, 0))
  BY AtWrite DEF Insert, IsNew
<1>2. /\ j \in Id /\ 0 \notin Id /\ rows[j] = Dead
      /\ rows \in [Id -> TableRow] /\ topic' = topic /\ Id' = Id
      /\ rows' = [rows EXCEPT ![j] = Row(r)]
      /\ tainted' = IF r.disturbed THEN tainted \cup {j} ELSE tainted
  <2>1. PICK N \in Nat : Id = 1 .. N /\ Cardinality(Id) = N
    BY IdFact
  <2>2. nextId \in 0 .. N /\ nextId < N
    BY <2>1 DEF Insert, TablesOK, TableTypes
  <2>3. j \in Id /\ 0 \notin Id
    BY <2>1, <2>2
  <2>4. j > nextId
    BY <2>2
  <2>. QED  BY <2>3, <2>4 DEF Insert, TablesOK, TableTypes, Id
<1>3. /\ r.kind \in Tabs /\ None \notin Tabs
      /\ \A i \in Id : i # j => rows'[i] = rows[i]
      /\ rows'[j].kind = r.kind /\ rows'[j].name = r.form.name
      /\ rows'[j].code = r.form.code /\ rows'[j].up = r.form.up
      /\ ~ rows'[j].builtin
      /\ rows[j].kind = None
  BY <1>1, <1>2, TabsFact DEF Saves, Row, Dead
<1> DEFINE R == rows'
           T == tainted'
<1>4. \A i \in Id \ T : i \notin tainted /\ (i = j => ~ r.disturbed)
  BY <1>2
<1>5. AllApart(rows, Id, tainted) /\ AllLinked(rows, Id, tainted) /\ Acyclic(rows, Id, tainted)
  BY ApartFact, RefsFact DEF TablesOK
<1>6. AllApart(rows, Id, tainted) /\ AllLinked(rows, Id, tainted) /\ Acyclic(rows, Id, tainted)
      /\ \A i \in Id : rows[i].builtin => rows[i].kind # "category"
  BY <1>5 DEF TablesOK, TableTypes
<1>. HIDE DEF j, r, R, T
<1>7. ASSUME NEW i \in Id, i # j, ~ r.disturbed, rows[i].kind = r.kind,
             NEW key \in Keys[r.kind]
      PROVE  ~ Collide(R, i, j, key) /\ ~ Collide(R, j, i, key)
  <2>1. \A d \in Needs(r.kind, r.form) : Found(r, Step(d, r.form.id))
    BY <1>1, <1>7
  <2>2. i # r.form.id
    BY <1>1, <1>2
  <2>3. /\ key = "name" => rows[i].name # r.form.name \/ rows[i].name = None
        /\ key = "code" => rows[i].code # r.form.code \/ rows[i].code = None
        /\ key = "nameIn" => \/ rows[i].name # r.form.name \/ rows[i].name = None
                             \/ rows[i].up # r.form.up
    BY <1>1, <1>2, <1>3, <1>7, <2>1, <2>2, NoClash
  <2>. QED  BY <1>3, <1>7, <2>3 DEF Collide, R
<1>8. AllApart(R, Id, T)
  <2>1. ASSUME NEW a \in Id \ T, NEW b \in Id \ T,
               a # b, R[a].kind \in Tabs, R[a].kind = R[b].kind,
               NEW key \in Keys[R[a].kind]
        PROVE  ~ Collide(R, a, b, key)
    <3>1. CASE a = j
      BY <1>3, <1>4, <1>7, <2>1, <3>1 DEF R
    <3>2. CASE b = j
      BY <1>3, <1>4, <1>7, <2>1, <3>2 DEF R
    <3>3. CASE a # j /\ b # j
      <4>1. ~ Collide(rows, a, b, key)
        BY <1>3, <1>4, <1>6, <2>1, <3>3 DEF AllApart, R
      <4>. QED  BY <1>3, <3>3, <4>1 DEF Collide, R
    <3>. QED  BY <3>1, <3>2, <3>3
  <2>. QED  BY <2>1 DEF AllApart
<1>9. ASSUME NEW kind \in DOMAIN Parent, NEW up, Linked(rows, Id, kind, up)
      PROVE  Linked(R, Id, kind, up)
  <2>1. Parent[kind] # None
    BY TabsFact
  <2>. QED  BY <1>2, <1>3, <1>9, <2>1, TabsFact DEF Linked, R, Tabs
<1>10. ~ r.disturbed /\ r.kind \in DOMAIN Parent => Linked(rows, Id, r.kind, r.form.up)
  <2>1. CASE r.kind \in {"menu", "category"} /\ r.form.up = 0
    BY <2>1 DEF Linked, Parent
  <2>2. CASE ~ (r.kind \in {"menu", "category"} /\ r.form.up = 0)
    BY <1>1, <2>2, FoundFact, LinkedFact DEF Needs
  <2>. QED  BY <2>1, <2>2
<1>11. AllLinked(R, Id, T)
  <2>1. ASSUME NEW i \in Id \ T, R[i].kind \in DOMAIN Parent, ~ R[i].builtin
        PROVE  Linked(R, Id, R[i].kind, R[i].up)
    <3>1. CASE i # j
      BY <1>3, <1>4, <1>6, <1>9, <2>1, <3>1 DEF AllLinked, R
    <3>2. CASE i = j
      BY <1>3, <1>4, <1>9, <1>10, <2>1, <3>2 DEF R
    <3>. QED  BY <3>1, <3>2
  <2>. QED  BY <2>1 DEF AllLinked
<1>12. Acyclic(R, Id, T)
  <2>1. ASSUME NEW S \in SUBSET {i \in Id \ T : R[i].kind = "category"}, S # {},
               \A i \in S : R[i].up \in S
        PROVE  FALSE
    <3> DEFINE Q == S \ {j}
    <3>1. "category" \in Tabs /\ S \subseteq Id /\ rows[j].kind # "category"
          /\ "category" \in DOMAIN Parent /\ Parent["category"] = "category"
      BY <1>2, <1>3, <2>1 DEF Tabs, Parent
    <3>2. Q \subseteq {i \in Id \ tainted : rows[i].kind = "category"}
      BY <1>3, <1>4, <2>1 DEF R
    <3>3. \A i \in Q : rows[i].up \in Q
      <4>1. ASSUME NEW i \in Q PROVE rows[i].up # j
        BY <1>2, <1>6, <3>1, <3>2 DEF AllLinked, Linked
      <4>. QED  BY <1>3, <2>1, <3>1, <4>1 DEF R
    <3>4. Q # {}
      <4>1. CASE j \in S
        <5>1. r.kind = "category" /\ r.form.up \in S /\ ~ r.disturbed
          BY <1>2, <1>3, <1>4, <2>1, <3>1, <4>1 DEF R
        <5>2. Linked(rows, Id, "category", r.form.up)
          BY <1>10, <3>1, <5>1
        <5>3. rows[r.form.up].kind = "category"
          BY <1>2, <3>1, <5>1, <5>2 DEF Linked
        <5>. QED  BY <3>1, <5>1, <5>3
      <4>. QED  BY <2>1, <4>1
    <3>. QED  BY <1>6, <3>2, <3>3, <3>4 DEF Acyclic
  <2>. QED  BY <2>1 DEF Acyclic
<1>. QED  BY <1>2, <1>8, <1>11, <1>12 DEF R, T

\* A changed row is apart from the others and has its parent; the data of a type
\* that gets another code are moved to it, and no others are there.
LEMMA UpdateKeeps ==
  ASSUME TablesOK, NEW p \in Proc, Update(p)
  PROVE  /\ AllApart(rows', Id, tainted') /\ AllLinked(rows', Id, tainted')
         /\ Acyclic(rows', Id, tainted')
<1> DEFINE r == crud[p]
           i == r.form.id
           R == rows'
           T == tainted'
           kin(x) == rows[x].kind = "dictData" /\ rows[x].up = r.was
           renamed == {x \in Id : r.kind = "dictType" /\ r.was # r.form.code /\ kin(x)}
<1>1. /\ Saves(r) /\ IsRequest(r) /\ ~ IsNew(r.form)
      /\ ~ r.disturbed => \A d \in Needs(r.kind, r.form) : Found(r, Step(d, i))
      /\ r.kind = "dictType" /\ ~ r.disturbed => r.was = rows[i].code
      /\ r.kind = "category" /\ r.form.up # 0 /\ ~ r.disturbed =>
           \E C \in SUBSET Id :
             /\ r.form.up \in C /\ i \notin C
             /\ \A c \in C : rows[c].up \in C \/ rows[c].up \notin Live("category")
  BY AtWrite DEF Update
<1>2. i \in Id /\ 0 \notin Id /\ rows \in [Id -> TableRow] /\ r.kind \in Tabs /\ None \notin Tabs
  <2>1. PICK N \in Nat : Id = 1 .. N /\ Cardinality(Id) = N
    BY IdFact
  <2>2. nextId \in 0 .. N /\ i \in 0 .. nextId /\ i # 0
    BY <1>1, <2>1 DEF TablesOK, TableTypes, Saves, IsNew
  <2>. QED  BY <1>1, <2>1, <2>2, TabsFact DEF TablesOK, TableTypes, Saves
<1>3. \A x \in Id : x \in ChildrenOf("dictType", i, r.was) <=> kin(x)
  BY DEF ChildrenOf, Parent
<1>4. renamed = IF r.kind = "dictType" /\ r.was # r.form.code
              THEN ChildrenOf(r.kind, i, r.was) ELSE {}
  BY <1>3 DEF ChildrenOf
<1>5. \A x \in Id :
        /\ R[x].kind = rows[x].kind /\ R[x].builtin = rows[x].builtin
        /\ x # i /\ x \notin renamed => R[x] = rows[x]
        /\ x # i => R[x].name = rows[x].name /\ R[x].code = rows[x].code
        /\ x # i /\ x \in renamed => R[x].up = r.form.code
        /\ x = i /\ rows[i].kind # r.kind => R[x] = rows[x]
        /\ x = i /\ rows[i].kind = r.kind =>
             R[x].name = r.form.name /\ R[x].code = r.form.code /\ R[x].up = r.form.up
  <2>1. rows' = [x \in Id |->
                   IF x = i
                   THEN IF rows[i].kind = r.kind THEN [Row(r) EXCEPT !.builtin = rows[i].builtin]
                                                 ELSE rows[i]
                   ELSE IF x \in renamed THEN [rows[x] EXCEPT !.up = r.form.code] ELSE rows[x]]
    BY <1>4 DEF Update
  <2>2. [Row(r) EXCEPT !.builtin = rows[i].builtin] =
          [kind |-> r.kind, name |-> r.form.name, code |-> r.form.code, up |-> r.form.up,
           builtin |-> rows[i].builtin]
    BY DEF Row
  <2>3. ASSUME NEW x \in Id
        PROVE  LET n == [rows[x] EXCEPT !.up = r.form.code] IN
               /\ n.kind = rows[x].kind /\ n.name = rows[x].name /\ n.code = rows[x].code
               /\ n.builtin = rows[x].builtin /\ n.up = r.form.code
    BY <1>2 DEF TableRow
  <2>. HIDE DEF renamed
  <2>. QED  BY <1>2, <2>1, <2>2, <2>3
<1>6. \A x \in Id \ T :
        /\ x \notin tainted
        /\ r.disturbed => /\ x \notin renamed
                          /\ x = i => rows[x] = Dead
                          /\ rows[x] = Dead \/ x \notin ChildrenOf(rows[i].kind, i, rows[i].code)
  <2>1. T = tainted \cup (Fallout(p, {i}) \cap {x \in Id : rows[x] # Dead})
                    \cup (IF r.disturbed THEN renamed ELSE {})
    BY <1>4 DEF Update
  <2>2. r.disturbed => Fallout(p, {i}) = {i} \cup ChildrenOf(rows[i].kind, i, rows[i].code)
    BY DEF Fallout
  <2>. HIDE DEF renamed
  <2>. QED  BY <2>1, <2>2
<1>7. /\ AllApart(rows, Id, tainted) /\ AllLinked(rows, Id, tainted) /\ Acyclic(rows, Id, tainted)
      /\ \A x \in Id : rows[x].builtin => rows[x].kind \in {"role", "tenant", "config"}
  BY ApartFact, RefsFact DEF TablesOK, TableTypes
<1>8. ASSUME NEW x \in Id \ tainted, rows[x].kind \in DOMAIN Parent,
             NEW up, Linked(rows, Id, rows[x].kind, up),
             \/ Parent[rows[x].kind] # "dictType" \/ rows[i].kind # "dictType"
             \/ rows[i].code # up \/ R[i].code = up
      PROVE  Linked(R, Id, R[x].kind, up)
  <2>1. R[x].kind = rows[x].kind /\ None \notin Parents /\ Parent[rows[x].kind] \in Parents
    BY <1>5, <1>8, TabsFact
  <2>2. CASE Parent[rows[x].kind] = "dictType" /\ rows[i].kind = "dictType" /\ rows[i].code = up
    BY <1>2, <1>5, <1>8, <2>1, <2>2 DEF Linked
  <2>3. CASE Parent[rows[x].kind] = "dictType" /\ ~ (rows[i].kind = "dictType" /\ rows[i].code = up)
    <3>1. PICK j \in Id : rows[j].kind = "dictType" /\ rows[j].code = up
      BY <1>8, <2>1, <2>3 DEF Linked, Parent
    <3>2. R[j].kind = "dictType" /\ R[j].code = up
      BY <1>5, <2>3, <3>1
    <3>. QED  BY <2>1, <2>3, <3>2 DEF Linked
  <2>4. CASE Parent[rows[x].kind] # "dictType"
    BY <1>5, <1>8, <2>1, <2>4 DEF Linked
  <2>. QED  BY <2>2, <2>3, <2>4
<1>9. CASE r.disturbed
  <2>1. \A x \in Id \ T : R[x] = rows[x] /\ x \in Id \ tainted
    <3>. HIDE DEF renamed
    <3>. QED  BY <1>2, <1>5, <1>6, <1>9 DEF Dead
  <2>. HIDE DEF R, T, r, i, renamed
  <2>2. AllApart(R, Id, T)
    BY <1>7, <2>1 DEF AllApart, Collide
  <2>3. Acyclic(R, Id, T)
    <3>1. {x \in Id \ T : R[x].kind = "category"} \subseteq {x \in Id \ tainted : rows[x].kind = "category"}
      BY <2>1
    <3>. QED  BY <1>7, <2>1, <3>1 DEF Acyclic
  <2>4. ASSUME NEW x \in Id \ T, R[x].kind \in DOMAIN Parent, ~ R[x].builtin
        PROVE  Linked(R, Id, R[x].kind, R[x].up)
    <3>1. R[x] = rows[x] /\ x \in Id \ tainted /\ x \notin ChildrenOf(rows[i].kind, i, rows[i].code)
      BY <1>6, <1>9, <2>1, <2>4, TabsFact DEF Dead
    <3>2. Linked(rows, Id, rows[x].kind, R[x].up)
      BY <1>7, <2>4, <3>1 DEF AllLinked
    <3>3. \/ Parent[rows[x].kind] # "dictType" \/ rows[i].kind # "dictType"
          \/ rows[i].code # R[x].up
      BY <2>4, <3>1 DEF ChildrenOf
    <3>. QED  BY <1>8, <2>4, <3>1, <3>2, <3>3
  <2>. QED  BY <2>2, <2>3, <2>4 DEF AllLinked, R, T
<1>10. CASE ~ r.disturbed /\ rows[i].kind # r.kind
  <2>1. r.kind # "dictType"
    <3>1. r.kind = "dictType" => Found(r, Step("exists", i))
      BY <1>1, <1>10 DEF Needs
    <3>. QED  BY <1>10, <3>1, FoundFact
  <2>2. \A x \in Id : R[x] = rows[x]
    BY <1>5, <1>10, <2>1
  <2>3. \A x \in Id \ T : x \in Id \ tainted
    BY <1>6
  <2>. HIDE DEF R, T, r, i, renamed
  <2>4. AllApart(R, Id, T)
    BY <1>7, <2>2, <2>3 DEF AllApart, Collide
  <2>5. Acyclic(R, Id, T)
    <3>1. {x \in Id \ T : R[x].kind = "category"} \subseteq {x \in Id \ tainted : rows[x].kind = "category"}
      BY <2>2, <2>3
    <3>. QED  BY <1>7, <2>2, <3>1 DEF Acyclic
  <2>6. AllLinked(R, Id, T)
    BY <1>7, <2>2, <2>3, <1>2 DEF AllLinked, Linked
  <2>. QED  BY <2>4, <2>5, <2>6 DEF R, T
<1>11. CASE ~ r.disturbed /\ rows[i].kind = r.kind
  <2>1. \A d \in Needs(r.kind, r.form) : Found(r, Step(d, i))
    BY <1>1, <1>11
  <2>2. r.kind = "dictType" =>
          /\ r.was = rows[i].code /\ r.form.code \in Code /\ r.form.code # None
          /\ \A x \in Id : rows[x].kind = "dictType" /\ x # i => rows[x].code # r.form.code
    <3>1. r.kind = "dictType" => Found(r, Step("code", i))
      BY <2>1, KeysFact DEF Needs
    <3>2. r.kind = "dictType" => r.form.code \in Code /\ r.form.code # None
      BY <1>1, CrudAssumption DEF Saves
    <3>. QED  BY <1>1, <1>11, <3>1, <3>2, FoundFact
  <2>3. \A x \in Id \ T : x \in Id \ tainted
    BY <1>6
  <2>4. r.kind # "dictType" => renamed = {}
    OBVIOUS
  <2>5. \A x \in renamed : rows[x].kind = "dictData" /\ rows[x].up = r.was /\ r.was # r.form.code
                         /\ r.kind = "dictType" /\ x # i /\ x \in Id
    BY <1>11
  <2>6. \A x \in Id : x \notin renamed /\ rows[x].kind = "dictData" /\ rows[x].up = r.was
                      /\ r.kind = "dictType" => r.was = r.form.code
    OBVIOUS
  <2>7. "dictData" \in Tabs /\ Parent["dictData"] = "dictType" /\ "dictData" \in DOMAIN Parent
    BY DEF Tabs, Parent
  <2>. HIDE DEF renamed, r, i, R, T
  <2>8. ASSUME NEW b \in Id \ T, b # i, rows[b].kind = r.kind, i \notin T, NEW key \in Keys[r.kind]
        PROVE  ~ Collide(R, i, b, key) /\ ~ Collide(R, b, i, key)
    <3>1. R[b] = rows[b]
      BY <1>5, <2>5, <2>8
    <3>2. \/ key = "code" /\ r.kind = "config" /\ rows[i].code = r.form.code
          \/ /\ key = "name" => rows[b].name # r.form.name \/ rows[b].name = None
             /\ key = "code" => rows[b].code # r.form.code \/ rows[b].code = None
             /\ key = "nameIn" => \/ rows[b].name # r.form.name \/ rows[b].name = None
                                  \/ rows[b].up # r.form.up
      BY <1>2, <2>1, <2>8, NoClash DEF i
    <3>3. /\ R[i].name = r.form.name /\ R[i].code = r.form.code /\ R[i].up = r.form.up
      BY <1>2, <1>5, <1>11
    <3>4. CASE key = "code" /\ r.kind = "config" /\ rows[i].code = r.form.code
      <4>1. ~ Collide(rows, i, b, key)
        BY <1>2, <1>7, <1>11, <2>3, <2>8 DEF AllApart
      <4>. QED  BY <3>1, <3>3, <3>4, <4>1 DEF Collide
    <3>. QED  BY <3>1, <3>2, <3>3, <3>4 DEF Collide
  <2>9. ASSUME NEW a \in Id \ T, NEW b \in Id \ T, a \in renamed, b \notin renamed,
               rows[b].kind = "dictData"
        PROVE  rows[b].up # r.form.code
    <3>1. ~ rows[b].builtin
      BY <1>7, <2>9
    <3>2. Linked(rows, Id, "dictData", rows[b].up)
      BY <1>7, <2>3, <2>7, <2>9, <3>1 DEF AllLinked
    <3>3. \E x \in Id : rows[x].kind = "dictType" /\ rows[x].code = rows[b].up
      BY <2>7, <3>2 DEF Linked
    <3>. QED  BY <2>2, <2>5, <2>9, <3>3
  <2>10. AllApart(R, Id, T)
    <3>1. ASSUME NEW a \in Id \ T, NEW b \in Id \ T, a # b, R[a].kind \in Tabs,
                 R[a].kind = R[b].kind, NEW key \in Keys[R[a].kind]
          PROVE  ~ Collide(R, a, b, key)
      <4>1. /\ rows[a].kind = R[a].kind /\ rows[b].kind = R[b].kind
            /\ ~ Collide(rows, a, b, key)
        BY <1>5, <1>7, <2>3, <3>1 DEF AllApart
      <4>2. CASE a = i \/ b = i
        BY <1>11, <2>8, <3>1, <4>1, <4>2
      <4>3. CASE a # i /\ b # i /\ a \notin renamed /\ b \notin renamed
        BY <1>5, <4>1, <4>3 DEF Collide
      <4>4. CASE a # i /\ b # i /\ (a \in renamed \/ b \in renamed)
        <5>1. rows[a].kind = "dictData" /\ rows[b].kind = "dictData" /\ key = "nameIn"
          BY <2>5, <3>1, <4>1, <4>4, KeysFact
        <5>2. /\ R[a].name = rows[a].name /\ R[b].name = rows[b].name
          BY <1>5, <4>4
        <5>3. CASE a \in renamed /\ b \in renamed
          BY <2>5, <4>1, <5>1, <5>2, <5>3 DEF Collide
        <5>4. CASE a \in renamed /\ b \notin renamed
          <6>1. R[a].up = r.form.code /\ R[b].up = rows[b].up /\ rows[b].up # r.form.code
            BY <1>5, <2>9, <4>4, <5>1, <5>4
          <6>. QED  BY <5>1, <6>1 DEF Collide
        <5>5. CASE a \notin renamed /\ b \in renamed
          <6>1. R[b].up = r.form.code /\ R[a].up = rows[a].up /\ rows[a].up # r.form.code
            BY <1>5, <2>9, <4>4, <5>1, <5>5
          <6>. QED  BY <5>1, <6>1 DEF Collide
        <5>. QED  BY <4>4, <5>3, <5>4, <5>5
      <4>. QED  BY <4>2, <4>3, <4>4
    <3>. QED  BY <3>1 DEF AllApart
  <2>11. AllLinked(R, Id, T)
    <3>1. ASSUME NEW x \in Id \ T, R[x].kind \in DOMAIN Parent, ~ R[x].builtin
          PROVE  Linked(R, Id, R[x].kind, R[x].up)
      <4>1. /\ rows[x].kind = R[x].kind /\ x \in Id \ tainted
            /\ Linked(rows, Id, rows[x].kind, rows[x].up)
        BY <1>5, <1>7, <2>3, <3>1 DEF AllLinked
      <4>2. CASE x = i
        <5>1. Linked(rows, Id, r.kind, r.form.up)
          <6>1. CASE r.kind \in {"menu", "category"} /\ r.form.up = 0
            BY <6>1 DEF Linked, Parent
          <6>2. CASE ~ (r.kind \in {"menu", "category"} /\ r.form.up = 0)
            <7>1. "parent" \in Needs(r.kind, r.form)
              BY <1>11, <3>1, <4>1, <4>2, <6>2 DEF Needs
            <7>. QED  BY <1>11, <2>1, <3>1, <4>1, <4>2, <7>1, FoundFact, LinkedFact
          <6>. QED  BY <6>1, <6>2
        <5>2. R[x].up = r.form.up /\ rows[x].kind = r.kind
          BY <1>5, <1>11, <4>2
        <5>3. rows[i].kind = "dictType" => rows[x].kind \notin DOMAIN Parent
          BY <4>2 DEF Parent
        <5>. QED  BY <1>8, <3>1, <4>1, <5>1, <5>2, <5>3
      <4>3. CASE x # i /\ x \in renamed
        <5>1. R[x].kind = "dictData" /\ R[x].up = r.form.code /\ r.kind = "dictType"
          BY <1>5, <2>5, <4>3
        <5>2. R[i].kind = "dictType" /\ R[i].code = r.form.code
          BY <1>2, <1>5, <1>11, <5>1
        <5>. QED  BY <1>2, <2>7, <5>1, <5>2 DEF Linked
      <4>4. CASE x # i /\ x \notin renamed
        <5>1. R[x].up = rows[x].up
          BY <1>5, <4>4
        <5>2. ASSUME Parent[rows[x].kind] = "dictType", rows[i].kind = "dictType",
                     rows[i].code = rows[x].up
              PROVE  R[i].code = rows[x].up
          <6>1. rows[x].kind = "dictData" /\ r.kind = "dictType"
            BY <1>11, <3>1, <4>1, <5>2 DEF Parent
          <6>2. r.was = r.form.code
            BY <2>2, <2>6, <4>4, <5>2, <6>1
          <6>. QED  BY <1>2, <1>5, <1>11, <2>2, <5>2, <6>1, <6>2
        <5>. QED  BY <1>8, <3>1, <4>1, <5>1, <5>2
      <4>. QED  BY <4>2, <4>3, <4>4
    <3>. QED  BY <3>1 DEF AllLinked
  <2>12. Acyclic(R, Id, T)
    <3>1. ASSUME NEW S \in SUBSET {x \in Id \ T : R[x].kind = "category"}, S # {},
                 \A x \in S : R[x].up \in S
          PROVE  FALSE
      <4>1. S \subseteq {x \in Id \ tainted : rows[x].kind = "category"}
        BY <1>5, <2>3, <3>1
      <4>2. \A x \in S : x # i => R[x].up = rows[x].up
        BY <1>5, <2>5, <4>1
      <4>3. CASE i \notin S
        BY <1>7, <3>1, <4>1, <4>2, <4>3 DEF Acyclic
      <4>4. CASE i \in S
        <5>1. r.kind = "category" /\ r.form.up \in S /\ r.form.up # 0
          BY <1>2, <1>5, <1>11, <3>1, <4>1, <4>4
        <5>2. PICK C \in SUBSET Id :
                /\ r.form.up \in C /\ i \notin C
                /\ \A c \in C : rows[c].up \in C \/ rows[c].up \notin Live("category")
          BY <1>1, <1>11, <5>1
        <5> DEFINE Q == S \cap C
        <5>3. \A x \in Q : rows[x].up \in Q
          <6>1. ASSUME NEW x \in Q PROVE rows[x].up \in S /\ rows[x].up \in Live("category")
            BY <3>1, <4>1, <4>2, <5>2 DEF Live
          <6>. QED  BY <5>2, <6>1
        <5>4. Q # {} /\ Q \subseteq {x \in Id \ tainted : rows[x].kind = "category"}
          BY <4>1, <5>1, <5>2
        <5>. QED  BY <1>7, <5>3, <5>4 DEF Acyclic
      <4>. QED  BY <4>3, <4>4
    <3>. QED  BY <3>1 DEF Acyclic
  <2>. QED  BY <2>10, <2>11, <2>12 DEF R, T
<1>. QED  BY <1>9, <1>10, <1>11

\* No row refers to the rows that a request is about to delete, unless another one
\* has committed since it looked.
LEMMA AtDelete ==
  ASSUME TablesOK, NEW p \in Proc, NextDo(p) \in {"drop", "dropAll"}
  PROVE  LET r == crud[p] IN
         /\ Removes(r) /\ IsRequest(r)
         /\ Doomed(p) \subseteq {i \in Id : rows[i].kind = r.kind}
         /\ ~ r.disturbed => \A j \in Doomed(p) : ChildrenOf(r.kind, j, rows[j].code) = {}
<1> DEFINE r == crud[p]
           t == r.todo
<1>1. IsRequest(r) /\ (r = Resting \/ Saves(r) \/ Removes(r))
  BY DEF TablesOK, TableTypes
<1>2. t \in Program /\ t # <<>> /\ t[1] = Head(t) /\ t[1].do = NextDo(p) /\ 1 \in DOMAIN t
      /\ Len(t) \in Nat /\ DOMAIN t = 1 .. Len(t)
  <2>1. t \in Program
    BY <1>1 DEF IsRequest
  <2>2. t # <<>> /\ NextDo(p) = Head(t).do
    BY DEF NextDo
  <2>. QED  BY <2>1, <2>2 DEF Program
<1>3. r # Resting /\ ~ Saves(r)
  <2>1. ASSUME Saves(r) PROVE FALSE
    <3>1. NextDo(p) \in Selects \cup {"insert", "update"}
      BY <1>2, <2>1 DEF Saves
    <3>. QED  BY <3>1 DEF Selects
  <2>. QED  BY <1>2, <2>1 DEF Resting
<1>4. Removes(r)
  BY <1>1, <1>3
<1>5. Doomed(p) \subseteq {i \in Id : rows[i].kind = r.kind}
  BY DEF Doomed, Live
<1>6. ASSUME ~ r.disturbed, NEW j \in Doomed(p), r.kind \in Parents
      PROVE  ChildrenOf(r.kind, j, rows[j].code) = {}
  <2>1. DropOK(r) /\ DropAllOK(r)
    BY <1>4, <1>6 DEF Removes
  <2>2. CASE NextDo(p) = "drop"
    <3>1. j = t[1].id
      BY <1>2, <1>6, <2>2 DEF Doomed
    <3>2. Childless(r.kind, t[1].id)
      <4>1. ~ \E m \in 1 .. 1 - 1 : t[m] = Step("unused", t[1].id)
        OBVIOUS
      <4>. HIDE DEF r, t
      <4>2. t[1].do = "drop"
        BY <1>2, <2>2
      <4>. QED  BY <1>2, <1>6, <2>1, <4>1, <4>2 DEF DropOK, r, t
    <3>. QED  BY <1>5, <1>6, <3>1, <3>2 DEF Childless
  <2>3. CASE NextDo(p) = "dropAll"
    <3>1. PICK n \in DOMAIN r.ids : j = r.ids[n]
      BY <1>6, <2>3 DEF Doomed
    <3>2. t[1].do = "dropAll" /\ 1 = Len(t)
      BY <1>2, <2>1, <2>3 DEF DropAllOK
    <3>3. \A m \in DOMAIN t : m = 1
      <4>1. \A m \in 1 .. 1 : m = 1
        OBVIOUS
      <4>. QED  BY <1>2, <3>2, <4>1
    <3>4. ~ \E m \in DOMAIN t : t[m] = Step("unused", r.ids[n]) \/ t[m].do = "unusedAll"
      BY <3>2, <3>3 DEF Step
    <3>5. Childless(r.kind, r.ids[n])
      BY <1>2, <1>6, <2>1, <3>2, <3>4 DEF DropAllOK
    <3>. QED  BY <1>5, <1>6, <3>1, <3>5 DEF Childless
  <2>. QED  BY <2>2, <2>3
<1>7. ASSUME NEW j, r.kind \notin Parents
      PROVE  ChildrenOf(r.kind, j, rows[j].code) = {}
  BY <1>7, TabsFact DEF ChildrenOf
<1>. QED  BY <1>1, <1>4, <1>5, <1>6, <1>7

\* What is left when rows are deleted is apart as before, and has its parents.
LEMMA DeleteKeeps ==
  ASSUME TablesOK, NEW p \in Proc, Delete(p)
  PROVE  /\ AllApart(rows', Id, tainted') /\ AllLinked(rows', Id, tainted')
         /\ Acyclic(rows', Id, tainted')
<1> DEFINE r == crud[p]
           gone == Doomed(p)
           R == rows'
           T == tainted'
<1>1. /\ gone \subseteq {i \in Id : rows[i].kind = r.kind}
      /\ ~ r.disturbed => \A j \in gone : ChildrenOf(r.kind, j, rows[j].code) = {}
  BY AtDelete DEF Delete
<1>2. /\ R = [j \in Id |-> IF j \in gone THEN Dead ELSE rows[j]]
      /\ T = (tainted \cup Fallout(p, gone)) \ gone
  BY DEF Delete
<1>3. \A x \in Id \ T : x \in gone => R[x].kind = None
  BY <1>2 DEF Dead
<1>4. \A x \in Id \ T : x \notin gone =>
        /\ R[x] = rows[x] /\ x \in Id \ tainted
        /\ \A j \in gone : x \notin ChildrenOf(r.kind, j, rows[j].code)
  <2>1. r.disturbed => Fallout(p, gone) = gone \cup UNION {ChildrenOf(rows[i].kind, i, rows[i].code) : i \in gone}
    BY DEF Fallout
  <2>2. r.disturbed => \A j \in gone : \A x \in ChildrenOf(r.kind, j, rows[j].code) : x \in Fallout(p, gone)
    <3>. HIDE DEF gone
    <3>. QED  BY <1>1, <2>1
  <2>. HIDE DEF gone, T
  <2>. QED  BY <1>1, <1>2, <2>2
<1>5. AllApart(rows, Id, tainted) /\ AllLinked(rows, Id, tainted) /\ Acyclic(rows, Id, tainted)
  BY ApartFact, RefsFact DEF TablesOK
<1>. HIDE DEF gone, r, R, T
<1>6. AllApart(R, Id, T)
  <2>1. ASSUME NEW a \in Id \ T, NEW b \in Id \ T, a # b, R[a].kind \in Tabs,
               R[a].kind = R[b].kind, NEW key \in Keys[R[a].kind]
        PROVE  ~ Collide(R, a, b, key)
    <3>1. R[a] = rows[a] /\ R[b] = rows[b] /\ a \in Id \ tainted /\ b \in Id \ tainted
      BY <1>3, <1>4, <2>1, TabsFact
    <3>. QED  BY <1>5, <2>1, <3>1 DEF AllApart, Collide
  <2>. QED  BY <2>1 DEF AllApart
<1>7. AllLinked(R, Id, T)
  <2>1. ASSUME NEW x \in Id \ T, R[x].kind \in DOMAIN Parent, ~ R[x].builtin
        PROVE  Linked(R, Id, R[x].kind, R[x].up)
    <3>1. /\ R[x] = rows[x] /\ x \in Id \ tainted
          /\ \A j \in gone : x \notin ChildrenOf(r.kind, j, rows[j].code)
      BY <1>3, <1>4, <2>1, TabsFact
    <3>2. Linked(rows, Id, rows[x].kind, rows[x].up)
      BY <1>5, <2>1, <3>1 DEF AllLinked
    <3>3. \A j \in Id : j \notin gone => R[j] = rows[j]
      BY <1>2
    <3>6. \A kind \in DOMAIN Parent : Parent[kind] = kind => Parent[kind] # "dictType"
      BY DEF Parent
    <3>4. ASSUME Parent[rows[x].kind] = "dictType"
          PROVE  \E j \in Id : R[j].kind = "dictType" /\ R[j].code = rows[x].up
      <4>1. PICK j \in Id : rows[j].kind = "dictType" /\ rows[j].code = rows[x].up
        BY <2>1, <3>1, <3>2, <3>4, <3>6 DEF Linked
      <4>2. j \notin gone
        BY <1>1, <2>1, <3>1, <3>4, <4>1 DEF ChildrenOf
      <4>. QED  BY <3>3, <4>1, <4>2
    <3>5. ASSUME Parent[rows[x].kind] # "dictType", rows[x].up \in Id,
                 rows[rows[x].up].kind = Parent[rows[x].kind]
          PROVE  R[rows[x].up].kind = Parent[rows[x].kind]
      <4>1. rows[x].up \notin gone
        BY <1>1, <2>1, <3>1, <3>5 DEF ChildrenOf
      <4>. QED  BY <3>3, <3>5, <4>1
    <3>. QED  BY <3>1, <3>2, <3>4, <3>5 DEF Linked
  <2>. QED  BY <2>1 DEF AllLinked
<1>8. Acyclic(R, Id, T)
  <2>1. ASSUME NEW S \in SUBSET {i \in Id \ T : R[i].kind = "category"}, S # {},
               \A i \in S : R[i].up \in S
        PROVE  FALSE
    <3>1. \A i \in S : R[i] = rows[i] /\ i \in Id \ tainted
      BY <1>3, <1>4, <2>1, TabsFact DEF Tabs
    <3>2. S \subseteq {i \in Id \ tainted : rows[i].kind = "category"}
      BY <2>1, <3>1
    <3>. QED  BY <1>5, <2>1, <3>1, <3>2 DEF Acyclic
  <2>. QED  BY <2>1 DEF Acyclic
<1>. QED  BY <1>6, <1>7, <1>8 DEF R, T

-----------------------------------------------------------------------------
(* The steps of one request. *)

LEMMA TailFact ==
  ASSUME NEW t \in Program, t # <<>>
  PROVE  /\ Tail(t) \in Program /\ Head(t) = t[1] /\ Len(t) \in Nat /\ Len(t) >= 1
         /\ 1 \in DOMAIN t /\ DOMAIN t = 1 .. Len(t) /\ Len(Tail(t)) = Len(t) - 1
         /\ DOMAIN Tail(t) = 1 .. Len(t) - 1
         /\ \A k \in 1 .. Len(t) - 1 : Tail(t)[k] = t[k + 1] /\ k + 1 \in DOMAIN t
         /\ \A k \in DOMAIN t : k # 1 => k - 1 \in DOMAIN Tail(t) /\ Tail(t)[k - 1] = t[k]
         /\ \A k \in DOMAIN t : t[k] = Step(t[k].do, t[k].id) /\ t[k].id \in Nat
<1>1. /\ Tail(t) \in Program /\ Head(t) = t[1] /\ Len(t) \in Nat /\ Len(t) >= 1
      /\ 1 \in DOMAIN t /\ DOMAIN t = 1 .. Len(t) /\ Len(Tail(t)) = Len(t) - 1
      /\ DOMAIN Tail(t) = 1 .. Len(t) - 1
  BY DEF Program
<1>2. \A k \in 1 .. Len(t) - 1 : Tail(t)[k] = t[k + 1] /\ k + 1 \in DOMAIN t
  BY <1>1 DEF Program
<1>3. \A k \in DOMAIN t : k # 1 => k - 1 \in 1 .. Len(t) - 1 /\ (k - 1) + 1 = k
  BY <1>1
<1>4. \A k \in DOMAIN t : k # 1 => k - 1 \in DOMAIN Tail(t) /\ Tail(t)[k - 1] = t[k]
  BY <1>1, <1>2, <1>3
<1>5. \A k \in DOMAIN t : t[k] = Step(t[k].do, t[k].id) /\ t[k].id \in Nat
  <2>1. \A k \in DOMAIN t : t[k] \in [do : Dos, id : Nat]
    BY <1>1, ElementOfSeq DEF Program
  <2>2. \A x \in [do : Dos, id : Nat] : x = [do |-> x.do, id |-> x.id] /\ x.id \in Nat
    OBVIOUS
  <2>. QED  BY <2>1, <2>2 DEF Step
<1>. QED  BY <1>1, <1>2, <1>4, <1>5

\* Every step is either the first or one of the rest.
LEMMA AheadFact ==
  ASSUME NEW t \in Program, t # <<>>
  PROVE  \A d : Ahead(t, d) <=> d = Head(t).do \/ Ahead(Tail(t), d)
<1> DEFINE u == Tail(t)
<1>0. /\ Head(t) = t[1] /\ 1 \in DOMAIN t /\ DOMAIN u = 1 .. Len(t) - 1
      /\ \A k \in 1 .. Len(t) - 1 : u[k] = t[k + 1] /\ k + 1 \in DOMAIN t
      /\ \A k \in DOMAIN t : k # 1 => k - 1 \in DOMAIN u /\ u[k - 1] = t[k]
  BY TailFact
<1>. HIDE DEF u
<1>1. ASSUME NEW d, Ahead(t, d), d # Head(t).do PROVE Ahead(u, d)
  BY <1>0, <1>1 DEF Ahead
<1>2. ASSUME NEW d, Ahead(u, d) PROVE Ahead(t, d)
  BY <1>0, <1>2 DEF Ahead
<1>3. Ahead(t, Head(t).do)
  BY <1>0 DEF Ahead
<1>. USE DEF u
<1>. QED  BY <1>1, <1>2, <1>3

\* What a check leaves of a request.
LEMMA PassedFact ==
  ASSUME NEW r, IsRequest(r), NEW s
  PROVE  LET n == Passed(r, s)
             climbs == s.do = "above" /\ r.was \in Live(r.kind) IN
         /\ n = [kind |-> n.kind, form |-> n.form, ids |-> n.ids, todo |-> n.todo, was |-> n.was,
                 locked |-> n.locked, disturbed |-> n.disturbed]
         /\ n.kind = r.kind /\ n.form = r.form /\ n.ids = r.ids /\ n.locked = r.locked
         /\ n.disturbed = r.disturbed
         /\ n.todo = IF climbs THEN r.todo ELSE Tail(r.todo)
         /\ n.was = IF r.kind = "dictType" /\ s.do = "exists" THEN rows[s.id].code
                    ELSE IF r.kind = "category" /\ s.do = "parent" THEN rows[r.form.up].up
                    ELSE IF climbs THEN rows[r.was].up ELSE r.was
<1> DEFINE climbs == s.do = "above" /\ r.was \in Live(r.kind)
           td == IF climbs THEN r.todo ELSE Tail(r.todo)
           ws == IF r.kind = "dictType" /\ s.do = "exists" THEN rows[s.id].code
                 ELSE IF r.kind = "category" /\ s.do = "parent" THEN rows[r.form.up].up
                 ELSE IF climbs THEN rows[r.was].up ELSE r.was
<1>1. Passed(r, s) = [r EXCEPT !.todo = td, !.was = ws]
  BY DEF Passed
<1>. HIDE DEF td, ws
<1>2. Passed(r, s) = [kind |-> r.kind, form |-> r.form, ids |-> r.ids, todo |-> td, was |-> ws,
                      locked |-> r.locked, disturbed |-> r.disturbed]
  BY <1>1 DEF IsRequest
<1>. QED  BY <1>2 DEF td, ws

LEMMA PassSaves ==
  ASSUME NEW r, IsRequest(r), Saves(r), r.todo # <<>>, Head(r.todo).do \in Selects,
         Found(r, Head(r.todo))
  PROVE  Saves(Passed(r, Head(r.todo)))
<1> DEFINE t == r.todo
           s == Head(t)
           f == r.form
           n == Passed(r, s)
           climbs == s.do = "above" /\ r.was \in Live(r.kind)
<1>1. t \in Program /\ f \in TableForm
  BY DEF IsRequest
<1>2. s = t[1] /\ s = Step(s.do, f.id) /\ 1 \in DOMAIN t
  BY <1>1, TailFact DEF Saves
<1>3. Len(t) > 1 /\ Len(t) \in Nat
  <2>1. Len(t) = 1 => t[1].do \in {"insert", "update"}
    BY <1>2 DEF Saves
  <2>2. t[1].do \notin {"insert", "update"}
    BY <1>2 DEF Selects
  <2>3. Len(t) \in Nat /\ Len(t) >= 1
    BY <1>1, TailFact
  <2>4. Len(t) # 1
    BY <2>1, <2>2
  <2>. HIDE DEF t
  <2>. QED  BY <2>3, <2>4
<1>4. /\ n.kind = r.kind /\ n.form = f /\ n.ids = r.ids /\ n.locked = r.locked
      /\ n.disturbed = r.disturbed
      /\ n.todo = IF climbs THEN t ELSE Tail(t)
      /\ n.was = IF r.kind = "dictType" /\ s.do = "exists" THEN rows[s.id].code
                 ELSE IF r.kind = "category" /\ s.do = "parent" THEN rows[r.form.up].up
                 ELSE IF climbs THEN rows[r.was].up ELSE r.was
  BY PassedFact
<1>5. Found(r, Step(s.do, f.id))
  BY <1>2
<1>6. Ahead(t, "above") => r.kind = "category"
  BY DEF Saves
<1>7. climbs => r.kind = "category" /\ Ahead(t, "above")
  BY <1>1, <1>6, AheadFact
<1>8. \A d : Ahead(t, d) <=> d = s.do \/ Ahead(Tail(t), d)
  BY <1>1, AheadFact
<1>9. \A d : Ahead(n.todo, d) => Ahead(t, d)
  BY <1>4, <1>8
<1>10. \A d : Ahead(t, d) /\ d # s.do => Ahead(n.todo, d)
  BY <1>4, <1>8
<1>11. /\ Len(n.todo) > 0
       /\ \A k \in DOMAIN n.todo :
            /\ n.todo[k].id = f.id
            /\ IF k < Len(n.todo) THEN n.todo[k].do \in Selects
               ELSE n.todo[k].do = IF IsNew(f) THEN "insert" ELSE "update"
  <2>1. CASE climbs
    BY <1>4, <2>1 DEF Saves
  <2>2. CASE ~ climbs
    <3>1. /\ n.todo = Tail(t) /\ Len(Tail(t)) = Len(t) - 1 /\ DOMAIN Tail(t) = 1 .. Len(t) - 1
          /\ \A k \in 1 .. Len(t) - 1 : Tail(t)[k] = t[k + 1] /\ k + 1 \in DOMAIN t
      BY <1>1, <1>4, <2>2, TailFact
    <3>2. \A k \in DOMAIN t :
            /\ t[k].id = f.id
            /\ IF k < Len(t) THEN t[k].do \in Selects
               ELSE t[k].do = IF IsNew(f) THEN "insert" ELSE "update"
      BY DEF Saves
    <3>. HIDE DEF t, n, f
    <3>3. \A k \in 1 .. Len(t) - 1 : k < Len(t) - 1 <=> k + 1 < Len(t)
      BY <1>3
    <3>4. Len(t) - 1 > 0
      BY <1>3
    <3>. QED  BY <3>1, <3>2, <3>3, <3>4
  <2>. QED  BY <2>1, <2>2
<1>12. ASSUME NEW d \in Needs(r.kind, f)
       PROVE  Ahead(n.todo, d) \/ (~ r.disturbed => Found(n, Step(d, f.id)))
  <2>1. Ahead(t, d) \/ (~ r.disturbed => Found(r, Step(d, f.id)))
    BY <1>12 DEF Saves
  <2>2. CASE Ahead(t, d) /\ d # s.do
    BY <1>10, <2>2
  <2>3. CASE Found(r, Step(d, f.id))
    <3>1. d \in {"exists", "name", "nameIn", "code", "key", "parent"}
      BY <1>12, KeysFact DEF Needs, Saves
    <3>. HIDE DEF n, t, f, s, climbs
    <3>2. CASE d \in {"exists", "name", "nameIn"}
      BY <1>4, <2>3, <3>2, FoundFact DEF f
    <3>3. CASE d \in {"code", "key", "parent"}
      BY <1>4, <2>3, <3>3, FoundFact DEF f
    <3>. QED  BY <3>1, <3>2, <3>3
  <2>. QED  BY <1>5, <2>1, <2>2, <2>3
<1>13. r.kind = "dictType" /\ ~ IsNew(f) =>
         Ahead(n.todo, "exists") \/ (~ r.disturbed => n.was = rows[f.id].code)
  <2>1. ASSUME r.kind = "dictType", ~ IsNew(f), ~ r.disturbed, ~ Ahead(n.todo, "exists")
        PROVE  n.was = rows[f.id].code
    <3>1. CASE s.do = "exists"
      BY <1>2, <1>4, <2>1, <3>1 DEF Step
    <3>2. CASE s.do # "exists"
      <4>1. ~ Ahead(t, "exists")
        BY <1>10, <2>1, <3>2
      <4>2. r.was = rows[f.id].code
        BY <2>1, <4>1 DEF Saves
      <4>3. ~ climbs
        BY <1>7, <2>1
      <4>. QED  BY <1>4, <2>1, <3>2, <4>2, <4>3
    <3>. QED  BY <3>1, <3>2
  <2>. QED  BY <2>1
<1>14. ASSUME r.kind = "category", ~ IsNew(f), f.up # 0
       PROVE  \/ \E j, k \in DOMAIN n.todo : j < k /\ n.todo[j].do = "parent" /\ n.todo[k].do = "above"
              \/ ~ r.disturbed => \E C \in SUBSET Id : Climbed(n, C)
  <2>1. ClimbOK(r) /\ f.up # f.id
    BY <1>14 DEF Saves, ClimbOK
  <2>2. CASE \E j, k \in DOMAIN t : j < k /\ t[j].do = "parent" /\ t[k].do = "above"
    <3>1. PICK j, k \in DOMAIN t : j < k /\ t[j].do = "parent" /\ t[k].do = "above"
      BY <2>2
    <3>2. CASE climbs
      BY <1>4, <3>1, <3>2
    <3>3. CASE ~ climbs /\ j # 1
      <4>1. j \in Nat /\ k \in Nat /\ k # 1 /\ j - 1 < k - 1
        BY <1>1, <3>1, <3>3, TailFact
      <4>2. /\ j - 1 \in DOMAIN Tail(t) /\ Tail(t)[j - 1] = t[j]
            /\ k - 1 \in DOMAIN Tail(t) /\ Tail(t)[k - 1] = t[k]
        BY <1>1, <3>1, <3>3, <4>1, TailFact
      <4>3. n.todo = Tail(t)
        BY <1>4, <3>3
      <4>. HIDE DEF n, t
      <4>. QED  BY <3>1, <4>1, <4>2, <4>3
    <3>4. CASE ~ climbs /\ j = 1
      <4>1. s.do = "parent" /\ Ahead(n.todo, "above")
        BY <1>2, <1>10, <3>1, <3>4 DEF Ahead
      <4>2. HasParent("category", f.up) /\ n.was = rows[f.up].up
        BY <1>4, <1>5, <1>14, <4>1, FoundFact
      <4>3. f.up \in Id
        BY <1>14, <4>2 DEF HasParent, Parent, Live
      <4>4. Climbed(n, {f.up})
        BY <1>4, <2>1, <4>1, <4>2 DEF Climbed
      <4>. QED  BY <4>3, <4>4
    <3>. QED  BY <3>2, <3>3, <3>4
  <2>3. CASE ~ \E j, k \in DOMAIN t : j < k /\ t[j].do = "parent" /\ t[k].do = "above"
    <3>1. SUFFICES ASSUME ~ r.disturbed PROVE \E C \in SUBSET Id : Climbed(n, C)
      OBVIOUS
    <3>2. PICK C \in SUBSET Id : Climbed(r, C)
      BY <1>14, <2>1, <2>3, <3>1 DEF ClimbOK
    <3>3. CASE climbs
      <4>1. Ahead(t, "above") /\ n.todo = t /\ n.was = rows[r.was].up
        BY <1>4, <1>7, <1>14, <3>3
      <4>2. r.was # f.id /\ r.was \in Id
        BY <1>5, <3>3, FoundFact DEF Live
      <4>3. Climbed(n, C \cup {r.was})
        BY <1>4, <3>2, <4>1, <4>2 DEF Climbed
      <4>. QED  BY <4>2, <4>3
    <3>4. CASE s.do = "above" /\ ~ climbs
      <4>1. r.was \notin Live("category") /\ n.was = r.was /\ Ahead(t, "above")
        BY <1>4, <1>8, <1>14, <3>4
      <4>2. Climbed(n, C)
        BY <1>4, <3>2, <4>1 DEF Climbed
      <4>. QED  BY <4>2
    <3>5. CASE s.do = "parent"
      <4>1. ~ Ahead(t, "above")
        <5>1. \A k \in DOMAIN t : t[k].do = "above" => 1 < k
          BY <1>1, <1>2, <3>5, TailFact
        <5>. QED  BY <1>2, <2>3, <3>5, <5>1 DEF Ahead
      <4>2. ~ Ahead(n.todo, "above")
        BY <1>9, <4>1
      <4>3. Climbed(n, C)
        BY <1>4, <3>2, <4>1, <4>2 DEF Climbed
      <4>. QED  BY <4>3
    <3>6. CASE s.do \notin {"above", "parent"}
      <4>1. n.was = r.was /\ (Ahead(n.todo, "above") <=> Ahead(t, "above"))
        BY <1>4, <1>9, <1>10, <1>14, <3>6
      <4>2. Climbed(n, C)
        BY <1>4, <3>2, <4>1 DEF Climbed
      <4>. QED  BY <4>2
    <3>. QED  BY <3>3, <3>4, <3>5, <3>6
  <2>. QED  BY <2>2, <2>3
<1>15. r.kind \in Tabs /\ f.id \in 0 .. nextId /\ (r.kind = "dictType" => f.code \in Code)
  BY DEF Saves
<1>16. ClimbOK(n)
  <2>1. r.kind = "category" /\ ~ IsNew(f) /\ f.up # 0 => f.up # f.id
    BY DEF Saves, ClimbOK
  <2>. HIDE DEF n, f
  <2>. QED  BY <1>4, <1>14, <2>1 DEF ClimbOK
<1>17. Saves(n)
  <2>. HIDE DEF n, climbs, t, f
  <2>. QED  BY <1>4, <1>6, <1>9, <1>11, <1>12, <1>13, <1>15, <1>16 DEF Saves
<1>. QED  BY <1>17

\* Nobody refers to a row for which "unused" has found nothing.
LEMMA UnusedFact ==
  ASSUME NEW r, NEW i, Found(r, Step("unused", i)), r.kind = "dictType" => r.was = rows[i].code
  PROVE  Childless(r.kind, i)
<1>1. ChildrenOf(r.kind, i, r.was) = {}
  BY FoundFact
<1>2. CASE r.kind = "dictType"
  BY <1>1, <1>2 DEF Childless
<1>3. CASE r.kind # "dictType"
  BY <1>1, <1>3 DEF Childless, ChildrenOf
<1>. QED  BY <1>2, <1>3

LEMMA PassRemoves ==
  ASSUME NEW r, IsRequest(r), Removes(r), r.todo # <<>>, Head(r.todo).do \in Selects,
         Found(r, Head(r.todo))
  PROVE  Removes(Passed(r, Head(r.todo)))
<1> DEFINE t == r.todo
           u == Tail(t)
           s == Head(t)
           n == Passed(r, s)
<1>1. t \in Program /\ s = t[1] /\ 1 \in DOMAIN t /\ s = Step(s.do, s.id)
  <2>1. t \in Program
    BY DEF IsRequest
  <2>. QED  BY <2>1, TailFact
<1>2. /\ Len(t) \in Nat /\ DOMAIN t = 1 .. Len(t) /\ Len(u) = Len(t) - 1
      /\ DOMAIN u = 1 .. Len(t) - 1
      /\ \A k \in 1 .. Len(t) - 1 : u[k] = t[k + 1] /\ k + 1 \in DOMAIN t
      /\ \A k \in DOMAIN t : k # 1 => k - 1 \in DOMAIN u /\ u[k - 1] = t[k]
  BY <1>1, TailFact
<1>3. s.do \notin {"insert", "update", "parent", "above", "lock", "lockChangeable", "drop", "dropAll"}
      /\ t[Len(t)].do \in {"drop", "dropAll"} /\ r.kind \in Tabs
      /\ \A k \in DOMAIN t : t[k].do \notin {"insert", "update", "parent", "above"}
  BY <1>1 DEF Removes, Selects
<1>4. /\ n.kind = r.kind /\ n.form = r.form /\ n.ids = r.ids /\ n.locked = r.locked
      /\ n.disturbed = r.disturbed /\ n.todo = u
      /\ n.was = IF r.kind = "dictType" /\ s.do = "exists" THEN rows[s.id].code ELSE r.was
  BY <1>3, PassedFact
<1>5. Len(t) > 1
  <2>1. Len(t) # 1
    BY <1>1, <1>3
  <2>. HIDE DEF t, u
  <2>. QED  BY <1>1, <1>2, <2>1
<1>6. \A d : Ahead(t, d) <=> d = s.do \/ Ahead(u, d)
  BY <1>1, AheadFact
<1>. HIDE DEF n, u, t, s
<1>7. /\ Len(u) > 0
      /\ \A k \in DOMAIN u : u[k].do \notin {"insert", "update", "parent", "above"}
      /\ u[Len(u)].do \in {"drop", "dropAll"}
  <2>1. Len(t) - 1 \in 1 .. Len(t) - 1 /\ (Len(t) - 1) + 1 = Len(t)
    BY <1>2, <1>5
  <2>2. u[Len(u)] = t[Len(t)] /\ Len(u) > 0
    <3>1. u[Len(t) - 1] = t[(Len(t) - 1) + 1]
      BY <1>2, <2>1
    <3>2. Len(t) - 1 > 0
      BY <1>2, <1>5
    <3>. QED  BY <1>2, <2>1, <3>1, <3>2
  <2>3. \A k \in DOMAIN u : u[k].do \notin {"insert", "update", "parent", "above"}
    BY <1>2, <1>3
  <2>. QED  BY <1>3, <2>2, <2>3
<1>8. CASE r.kind \in Parents
  <2>1. DropOK(r) /\ DropAllOK(r) /\ LocksFirst(r) /\ DictOK(r)
    BY <1>8 DEF Removes
  <2>2. ASSUME NEW i, s = Step("unused", i), ~ r.disturbed
        PROVE  Childless(r.kind, i)
    <3>1. r.kind = "dictType" => r.was = rows[i].code
      <4>1. t[1].do = "unused"
        BY <1>1, <2>2 DEF Step
      <4>2. r.kind = "dictType" =>
              \/ \E m \in 1 .. 1 - 1 : t[m].do = "exists"
              \/ ~ r.disturbed => r.was = rows[t[1].id].code
        BY <1>1, <2>1, <4>1 DEF DictOK, t
      <4>. QED  BY <1>1, <2>2, <4>2 DEF Step
    <3>. QED  BY <2>2, <3>1, UnusedFact DEF s, t
  <2>3. DropOK(n)
    <3>1. ASSUME NEW k \in DOMAIN u, u[k].do = "drop"
          PROVE  \/ \E m \in 1 .. k - 1 : /\ u[m] = Step("unused", u[k].id)
                                          /\ \A l \in m + 1 .. k - 1 : u[l].do # "drop"
                 \/ /\ \A m \in 1 .. k - 1 : u[m].do # "drop"
                    /\ ~ r.disturbed => Childless(r.kind, u[k].id)
      <4>1. /\ k \in Nat /\ k + 1 \in DOMAIN t /\ t[k + 1] = u[k]
            /\ \A l \in 1 .. k - 1 : u[l] = t[l + 1] /\ l + 1 \in 1 .. (k + 1) - 1
        BY <1>2
      <4>2. \/ \E m \in 1 .. (k + 1) - 1 :
                  /\ t[m] = Step("unused", t[k + 1].id)
                  /\ \A l \in m + 1 .. (k + 1) - 1 : t[l].do # "drop"
            \/ /\ \A m \in 1 .. (k + 1) - 1 : t[m].do # "drop"
               /\ ~ r.disturbed => Childless(r.kind, t[k + 1].id)
        BY <2>1, <3>1, <4>1 DEF DropOK, t
      <4>3. CASE \E m \in 1 .. (k + 1) - 1 :
                   /\ t[m] = Step("unused", t[k + 1].id)
                   /\ \A l \in m + 1 .. (k + 1) - 1 : t[l].do # "drop"
        <5>1. PICK m \in 1 .. (k + 1) - 1 :
                   /\ t[m] = Step("unused", u[k].id)
                   /\ \A l \in m + 1 .. (k + 1) - 1 : t[l].do # "drop"
          BY <4>1, <4>3
        <5>2. CASE m = 1
          <6>1. ~ r.disturbed => Childless(r.kind, u[k].id)
            BY <1>1, <2>2, <5>1, <5>2
          <6>2. \A l \in 1 .. k - 1 : l + 1 \in m + 1 .. (k + 1) - 1
            BY <4>1, <5>2
          <6>3. \A l \in 1 .. k - 1 : u[l].do # "drop"
            BY <4>1, <5>1, <6>2
          <6>. QED  BY <6>1, <6>3
        <5>3. CASE m # 1
          <6>1. /\ m - 1 \in 1 .. k - 1 /\ m \in DOMAIN t
                /\ \A l \in (m - 1) + 1 .. k - 1 : l \in 1 .. k - 1 /\ l + 1 \in m + 1 .. (k + 1) - 1
            BY <1>2, <4>1, <5>3
          <6>2. u[m - 1] = Step("unused", u[k].id)
            BY <1>2, <5>1, <5>3, <6>1
          <6>3. \A l \in (m - 1) + 1 .. k - 1 : u[l].do # "drop"
            BY <4>1, <5>1, <6>1
          <6>. QED  BY <6>1, <6>2, <6>3
        <5>. QED  BY <5>2, <5>3
      <4>4. CASE /\ \A m \in 1 .. (k + 1) - 1 : t[m].do # "drop"
                 /\ ~ r.disturbed => Childless(r.kind, t[k + 1].id)
        BY <4>1, <4>4
      <4>. QED  BY <4>2, <4>3, <4>4
    <3>. QED  BY <1>4, <3>1 DEF DropOK
  <2>4. DropAllOK(n)
    <3>1. ASSUME NEW k \in DOMAIN u, u[k].do = "dropAll"
          PROVE  /\ k = Len(u) /\ ~ Ahead(u, "drop")
                 /\ \A x \in DOMAIN r.ids :
                      \/ \E m \in DOMAIN u : \/ u[m] = Step("unused", r.ids[x])
                                             \/ u[m].do = "unusedAll"
                      \/ ~ r.disturbed => Childless(r.kind, r.ids[x])
      <4>1. k \in Nat /\ k + 1 \in DOMAIN t /\ t[k + 1].do = "dropAll"
        BY <1>2, <3>1
      <4>2. /\ k + 1 = Len(t) /\ ~ Ahead(t, "drop")
            /\ \A x \in DOMAIN r.ids :
                 \/ \E m \in DOMAIN t : \/ t[m] = Step("unused", r.ids[x])
                                        \/ t[m].do = "unusedAll"
                 \/ ~ r.disturbed => Childless(r.kind, r.ids[x])
        BY <2>1, <4>1 DEF DropAllOK, t
      <4>3. k = Len(u) /\ ~ Ahead(u, "drop")
        BY <1>2, <1>6, <4>1, <4>2
      <4>4. ASSUME NEW x \in DOMAIN r.ids, ~ r.disturbed, ~ Childless(r.kind, r.ids[x])
            PROVE  \E m \in DOMAIN u : \/ u[m] = Step("unused", r.ids[x])
                                       \/ u[m].do = "unusedAll"
        <5>1. PICK m \in DOMAIN t : t[m] = Step("unused", r.ids[x]) \/ t[m].do = "unusedAll"
          BY <4>2, <4>4
        <5>2. CASE m # 1
          BY <1>2, <5>1, <5>2
        <5>3. CASE m = 1 /\ t[m] = Step("unused", r.ids[x])
          BY <1>1, <2>2, <4>4, <5>3
        <5>4. CASE m = 1 /\ t[m].do = "unusedAll"
          <6>1. Found(r, Step("unusedAll", s.id))
            BY <1>1, <5>4 DEF s, t
          <6>2. (r.kind = "dictType" => r.ids[x] \in r.locked) =>
                  ChildrenOf(r.kind, r.ids[x], rows[r.ids[x]].code) = {}
            BY <6>1, FoundFact
          <6>3. r.kind = "dictType" /\ r.ids[x] \notin r.locked
            BY <4>4, <6>2 DEF Childless
          <6>4. Ahead(t, "dropAll")
            BY <4>1 DEF Ahead
          <6>5. \/ \E l \in DOMAIN t : t[l] = Step("lock", r.ids[x])
                \/ r.ids[x] \in r.locked
                \/ rows[r.ids[x]].kind # "dictType"
            BY <2>1, <6>3, <6>4 DEF DictOK, t
          <6>6. rows[r.ids[x]].kind = "dictType"
            BY <4>4, <6>3 DEF Childless
          <6>7. PICK l \in DOMAIN t : t[l].do = "lock"
            BY <6>3, <6>5, <6>6 DEF Step
          <6>8. PICK y \in DOMAIN t : l < y /\ t[y].do = "unusedAll"
            BY <2>1, <6>7 DEF LocksFirst, t
          <6>9. y # 1
            BY <1>2, <6>7, <6>8
          <6>. QED  BY <1>2, <6>8, <6>9
        <5>. QED  BY <5>1, <5>2, <5>3, <5>4
      <4>. QED  BY <4>3, <4>4
    <3>. QED  BY <1>4, <3>1 DEF DropAllOK
  <2>5. LocksFirst(n)
    <3>1. ASSUME NEW k \in DOMAIN u, u[k].do \in {"lock", "lockChangeable"}
          PROVE  /\ \E m \in DOMAIN u : k < m /\ u[m].do = "unusedAll"
                 /\ ~ Ahead(u, "drop") /\ ~ Ahead(u, "unused")
      <4>1. k \in Nat /\ k + 1 \in DOMAIN t /\ t[k + 1].do \in {"lock", "lockChangeable"}
        BY <1>2, <3>1
      <4>2. ~ Ahead(t, "drop") /\ ~ Ahead(t, "unused")
        BY <2>1, <4>1 DEF LocksFirst, t
      <4>3. PICK m \in DOMAIN t : k + 1 < m /\ t[m].do = "unusedAll"
        BY <2>1, <4>1 DEF LocksFirst, t
      <4>4. m # 1 /\ k < m - 1
        BY <1>2, <4>1, <4>3
      <4>. QED  BY <1>2, <1>6, <4>2, <4>3, <4>4
    <3>. QED  BY <1>4, <3>1 DEF LocksFirst
  <2>6. DictOK(n)
    <3>1. SUFFICES ASSUME r.kind = "dictType" PROVE DictOK(n)
      BY <1>4 DEF DictOK
    <3>2. ASSUME NEW k \in DOMAIN u, u[k].do = "unused"
          PROVE  /\ \/ \E m \in 1 .. k - 1 : u[m].do = "exists"
                    \/ ~ r.disturbed => n.was = rows[u[k].id].code
                 /\ \A m \in DOMAIN u : u[m].do = "exists" => u[m].id = u[k].id
      <4>1. k \in Nat /\ k + 1 \in DOMAIN t /\ t[k + 1] = u[k]
        BY <1>2
      <4>2. \A m \in DOMAIN t : t[m].do = "exists" => t[m].id = u[k].id
        BY <2>1, <3>1, <3>2, <4>1 DEF DictOK, t
      <4>3. \/ \E m \in 1 .. (k + 1) - 1 : t[m].do = "exists"
            \/ ~ r.disturbed => r.was = rows[u[k].id].code
        BY <2>1, <3>1, <3>2, <4>1 DEF DictOK, t
      <4>0. \A m \in DOMAIN u : u[m].do = "exists" => u[m].id = u[k].id
        BY <1>2, <4>2
      <4>4. CASE s.do = "exists"
        <5>1. s.id = u[k].id
          BY <1>1, <4>2, <4>4
        <5>2. n.was = rows[u[k].id].code
          BY <1>4, <3>1, <4>4, <5>1
        <5>. QED  BY <4>0, <5>2
      <4>5. CASE s.do # "exists"
        <5>0. n.was = r.was
          BY <1>4, <4>5
        <5>1. \A m \in 1 .. (k + 1) - 1 : t[m].do = "exists" =>
                m # 1 /\ m - 1 \in 1 .. k - 1 /\ m \in DOMAIN t
          BY <1>1, <1>2, <4>1, <4>5
        <5>2. (\E m \in 1 .. (k + 1) - 1 : t[m].do = "exists") => \E m \in 1 .. k - 1 : u[m].do = "exists"
          BY <1>2, <5>1
        <5>. QED  BY <4>0, <4>3, <5>0, <5>2
      <4>. QED  BY <4>4, <4>5
    <3>3. \A k \in DOMAIN u : u[k].do = "drop" => k = Len(u)
      <4>1. \A k \in DOMAIN t : t[k].do = "drop" => k = Len(t)
        BY <2>1, <3>1 DEF DictOK, t
      <4>2. \A k \in DOMAIN u : k \in Nat /\ (k + 1 = Len(t) => k = Len(t) - 1)
        BY <1>2
      <4>. QED  BY <1>2, <4>1, <4>2
    <3>4. ASSUME Ahead(u, "dropAll"), NEW x \in DOMAIN r.ids
          PROVE  /\ r.ids[x] \in 1 .. nextId
                 /\ \/ \E m \in DOMAIN u : u[m] = Step("lock", r.ids[x])
                    \/ r.ids[x] \in r.locked
                    \/ rows[r.ids[x]].kind # "dictType"
      <4>1. Ahead(t, "dropAll")
        BY <1>6, <3>4
      <4>2. /\ r.ids[x] \in 1 .. nextId
            /\ \/ \E m \in DOMAIN t : t[m] = Step("lock", r.ids[x])
               \/ r.ids[x] \in r.locked
               \/ rows[r.ids[x]].kind # "dictType"
        BY <2>1, <3>1, <4>1 DEF DictOK, t
      <4>3. \A m \in DOMAIN t : t[m] = Step("lock", r.ids[x]) => m # 1
        BY <1>1, <1>3 DEF Step
      <4>. QED  BY <1>2, <4>2, <4>3
    <3>. QED  BY <1>4, <3>2, <3>3, <3>4 DEF DictOK
  <2>7. Removes(n)
    BY <1>3, <1>4, <1>7, <2>3, <2>4, <2>5, <2>6 DEF Removes
  <2>. QED  BY <2>7 DEF n, s, t
<1>9. CASE r.kind \notin Parents
  <2>1. Removes(n)
    BY <1>3, <1>4, <1>7, <1>9 DEF Removes
  <2>. QED  BY <2>1 DEF n, s, t
<1>. QED  BY <1>8, <1>9

\* A request that is not under way, or whose checks are as they should be.
Good(r) == IsRequest(r) /\ (r = Resting \/ Saves(r) \/ Removes(r))

LEMMA GoodFact ==
  TablesOK => \A p \in Proc : Good(crud[p])
BY DEF TablesOK, TableTypes, Good

LEMMA RestingGood == Good(Resting)
<1>1. Resting.kind = None /\ Resting.form = NoForm /\ Resting.ids = <<>> /\ Resting.todo = <<>>
      /\ Resting.was = None /\ Resting.locked = {} /\ Resting.disturbed = FALSE
  BY DEF Resting
<1>2. NoForm \in TableForm
  BY DEF NoForm, TableForm
<1>3. <<>> \in Program /\ <<>> \in Seq(Nat)
  BY DEF Program
<1>4. Resting = [kind |-> Resting.kind, form |-> Resting.form, ids |-> Resting.ids, todo |-> Resting.todo,
                 was |-> Resting.was, locked |-> Resting.locked, disturbed |-> Resting.disturbed]
  BY <1>1 DEF Resting
<1>. QED  BY <1>1, <1>2, <1>3, <1>4 DEF Good, IsRequest

LEMMA PassGood ==
  ASSUME NEW r, Good(r), r.todo # <<>>, Head(r.todo).do \in Selects, Found(r, Head(r.todo))
  PROVE  Good(Passed(r, Head(r.todo)))
<1> DEFINE n == Passed(r, Head(r.todo))
<1>1. IsRequest(r) /\ r # Resting
  BY DEF Good, Resting
<1>2. Saves(n) \/ Removes(n)
  BY <1>1, PassSaves, PassRemoves DEF Good
<1>3. /\ n = [kind |-> n.kind, form |-> n.form, ids |-> n.ids, todo |-> n.todo, was |-> n.was,
              locked |-> n.locked, disturbed |-> n.disturbed]
      /\ n.form = r.form /\ n.ids = r.ids /\ n.disturbed = r.disturbed
      /\ n.todo = r.todo \/ n.todo = Tail(r.todo)
  BY <1>1, PassedFact
<1>4. Tail(r.todo) \in Program
  BY <1>1, TailFact DEF IsRequest
<1>5. IsRequest(n)
  <2>. HIDE DEF n
  <2>. QED  BY <1>1, <1>3, <1>4 DEF IsRequest
<1>. QED  BY <1>2, <1>5 DEF Good

\* The ways in which a step leaves a request under way.
Locking(r, u, d, l) == [r EXCEPT !.todo = u, !.disturbed = d, !.locked = l]
Going(r, u, d) == [r EXCEPT !.todo = u, !.disturbed = d]
Marked(r, d) == [r EXCEPT !.disturbed = d]
Recast(r, u, d, l) == [kind |-> r.kind, form |-> r.form, ids |-> r.ids, todo |-> u, was |-> r.was,
                       locked |-> l, disturbed |-> d]

LEMMA RecordFact ==
  ASSUME NEW r, IsRequest(r), NEW u, NEW d, NEW l, NEW n, n = Recast(r, u, d, l)
  PROVE  /\ u \in Program /\ d \in BOOLEAN => IsRequest(n)
         /\ n.kind = r.kind /\ n.form = r.form /\ n.ids = r.ids /\ n.todo = u
         /\ n.was = r.was /\ n.locked = l /\ n.disturbed = d
<1>1. n.kind = r.kind /\ n.form = r.form /\ n.ids = r.ids /\ n.todo = u /\ n.was = r.was
      /\ n.locked = l /\ n.disturbed = d
  BY DEF Recast
<1>2. n = [kind |-> n.kind, form |-> n.form, ids |-> n.ids, todo |-> n.todo, was |-> n.was,
           locked |-> n.locked, disturbed |-> n.disturbed]
  BY <1>1, Zenon DEF Recast
<1>3. ASSUME u \in Program, d \in BOOLEAN PROVE IsRequest(n)
  <2>1. r.form \in TableForm /\ r.ids \in Seq(Nat)
    BY DEF IsRequest
  <2>. QED  BY <1>1, <1>2, <1>3, <2>1, Zenon DEF IsRequest
<1>. QED  BY <1>1, <1>3, Zenon

LEMMA LockingFact ==
  ASSUME NEW r, IsRequest(r), NEW u, NEW d, NEW l, NEW n, n = Locking(r, u, d, l)
  PROVE  /\ u \in Program /\ d \in BOOLEAN => IsRequest(n)
         /\ n.kind = r.kind /\ n.form = r.form /\ n.ids = r.ids /\ n.todo = u
         /\ n.was = r.was /\ n.locked = l /\ n.disturbed = d
<1>1. PICK k, f, i, t, w, x, y :
        r = [kind |-> k, form |-> f, ids |-> i, todo |-> t, was |-> w, locked |-> x, disturbed |-> y]
  BY Zenon DEF IsRequest
<1>2. r.kind = k /\ r.form = f /\ r.ids = i /\ r.was = w
  BY <1>1
<1> DEFINE r1 == [kind |-> k, form |-> f, ids |-> i, todo |-> u, was |-> w, locked |-> x, disturbed |-> y]
           r2 == [kind |-> k, form |-> f, ids |-> i, todo |-> u, was |-> w, locked |-> x, disturbed |-> d]
           r3 == [kind |-> k, form |-> f, ids |-> i, todo |-> u, was |-> w, locked |-> l, disturbed |-> d]
<1>3. [r EXCEPT !.todo = u] = r1
  BY <1>1
<1>4. [r1 EXCEPT !.disturbed = d] = r2
  OBVIOUS
<1>5. [r2 EXCEPT !.locked = l] = r3
  OBVIOUS
<1>6. n = [[[r EXCEPT !.todo = u] EXCEPT !.disturbed = d] EXCEPT !.locked = l]
  BY DEF Locking
<1>7. n = r3
  <2>. HIDE DEF r1, r2, r3
  <2>. QED  BY <1>3, <1>4, <1>5, <1>6
<1>8. n = Recast(r, u, d, l)
  BY <1>2, <1>7, Zenon DEF Recast
<1>. QED  BY <1>8, RecordFact

LEMMA GoingFact ==
  ASSUME NEW r, IsRequest(r), NEW u, NEW d, NEW n, n = Going(r, u, d)
  PROVE  /\ u \in Program /\ d \in BOOLEAN => IsRequest(n)
         /\ n.kind = r.kind /\ n.form = r.form /\ n.ids = r.ids /\ n.todo = u
         /\ n.was = r.was /\ n.locked = r.locked /\ n.disturbed = d
<1>1. PICK k, f, i, t, w, x, y :
        r = [kind |-> k, form |-> f, ids |-> i, todo |-> t, was |-> w, locked |-> x, disturbed |-> y]
  BY Zenon DEF IsRequest
<1>2. r.kind = k /\ r.form = f /\ r.ids = i /\ r.was = w /\ r.locked = x
  BY <1>1
<1> DEFINE r1 == [kind |-> k, form |-> f, ids |-> i, todo |-> u, was |-> w, locked |-> x, disturbed |-> y]
           r2 == [kind |-> k, form |-> f, ids |-> i, todo |-> u, was |-> w, locked |-> x, disturbed |-> d]
<1>3. n = [[r EXCEPT !.todo = u] EXCEPT !.disturbed = d]
  BY DEF Going
<1>4. [r EXCEPT !.todo = u] = r1
  BY <1>1
<1>5. [r1 EXCEPT !.disturbed = d] = r2
  OBVIOUS
<1>6. n = r2
  <2>. HIDE DEF r1, r2
  <2>. QED  BY <1>3, <1>4, <1>5
<1>7. n = Recast(r, u, d, r.locked)
  BY <1>2, <1>6, Zenon DEF Recast
<1>. QED  BY <1>7, RecordFact

LEMMA MarkedFact ==
  ASSUME NEW r, IsRequest(r), NEW d, NEW n, n = Marked(r, d)
  PROVE  /\ d \in BOOLEAN => IsRequest(n)
         /\ n.kind = r.kind /\ n.form = r.form /\ n.ids = r.ids /\ n.todo = r.todo
         /\ n.was = r.was /\ n.locked = r.locked /\ n.disturbed = d
<1>1. PICK k, f, i, t, w, x, y :
        r = [kind |-> k, form |-> f, ids |-> i, todo |-> t, was |-> w, locked |-> x, disturbed |-> y]
  BY Zenon DEF IsRequest
<1>2. r.kind = k /\ r.form = f /\ r.ids = i /\ r.todo = t /\ r.was = w /\ r.locked = x
  BY <1>1
<1>3. n = [kind |-> k, form |-> f, ids |-> i, todo |-> t, was |-> w, locked |-> x, disturbed |-> d]
  BY <1>1 DEF Marked
<1>4. n = Recast(r, r.todo, d, r.locked)
  BY <1>2, <1>3, Zenon DEF Recast
<1>5. r.todo \in Program
  BY Zenon DEF IsRequest
<1>. QED  BY <1>4, <1>5, RecordFact

\* A request that has locked a row and starts anew.
LEMMA LockGood ==
  ASSUME NEW r, Good(r), r.todo # <<>>, Head(r.todo).do \in {"lock", "lockChangeable"},
         NEW lk, lk = IF rows[Head(r.todo).id].kind = r.kind
                      THEN r.locked \cup {Head(r.todo).id} ELSE r.locked,
         NEW n, IsRequest(n), n.kind = r.kind, n.ids = r.ids, n.todo = Tail(r.todo), n.locked = lk
  PROVE  Good(n)
<1> DEFINE t == r.todo
           u == Tail(t)
           s == Head(t)
<1>1. t \in Program /\ s = t[1] /\ 1 \in DOMAIN t /\ s = Step(s.do, s.id) /\ u \in Program
      /\ IsRequest(r)
  <2>1. t \in Program
    BY DEF Good, IsRequest
  <2>. QED  BY <2>1, TailFact DEF Good
<1>2. /\ Len(t) \in Nat /\ DOMAIN t = 1 .. Len(t) /\ Len(u) = Len(t) - 1
      /\ DOMAIN u = 1 .. Len(t) - 1
      /\ \A k \in 1 .. Len(t) - 1 : u[k] = t[k + 1] /\ k + 1 \in DOMAIN t
      /\ \A k \in DOMAIN t : k # 1 => k - 1 \in DOMAIN u /\ u[k - 1] = t[k]
  BY <1>1, TailFact
<1>4. Removes(r)
  <2>1. ~ Saves(r)
    <3>1. Saves(r) => t[1].do \in Selects \cup {"insert", "update"}
      BY <1>1 DEF Saves
    <3>. QED  BY <1>1, <3>1 DEF Selects
  <2>2. r # Resting
    BY DEF Resting
  <2>. QED  BY <2>1, <2>2 DEF Good
<1>6. /\ n.kind = r.kind /\ n.ids = r.ids /\ n.todo = u /\ n.locked = lk
  OBVIOUS
<1>7. /\ t[Len(t)].do \in {"drop", "dropAll"} /\ r.kind \in Tabs
      /\ \A k \in DOMAIN t : t[k].do \notin {"insert", "update", "parent", "above"}
  BY <1>4 DEF Removes
<1>8. Len(t) > 1
  <2>1. Len(t) # 1
    BY <1>1, <1>7
  <2>. HIDE DEF t, u
  <2>. QED  BY <1>1, <1>2, <2>1
<1>9. \A d : Ahead(t, d) <=> d = s.do \/ Ahead(u, d)
  BY <1>1, AheadFact
<1>. HIDE DEF u, t, s
<1>10. /\ Len(u) > 0
       /\ \A k \in DOMAIN u : u[k].do \notin {"insert", "update", "parent", "above"}
       /\ u[Len(u)].do \in {"drop", "dropAll"}
  <2>1. Len(t) - 1 \in 1 .. Len(t) - 1 /\ (Len(t) - 1) + 1 = Len(t)
    BY <1>2, <1>8
  <2>2. u[Len(u)] = t[Len(t)] /\ Len(u) > 0
    <3>1. u[Len(t) - 1] = t[(Len(t) - 1) + 1]
      BY <1>2, <2>1
    <3>2. Len(t) - 1 > 0
      BY <1>2, <1>8
    <3>. QED  BY <1>2, <2>1, <3>1, <3>2
  <2>3. \A k \in DOMAIN u : u[k].do \notin {"insert", "update", "parent", "above"}
    BY <1>2, <1>7
  <2>. QED  BY <1>7, <2>2, <2>3
<1>11. ASSUME r.kind \in Parents
       PROVE  DropOK(n) /\ DropAllOK(n) /\ LocksFirst(n) /\ DictOK(n)
  <2>1. DropOK(r) /\ DropAllOK(r) /\ LocksFirst(r) /\ DictOK(r)
    BY <1>4, <1>11 DEF Removes
  <2>2. s.do \in {"lock", "lockChangeable"}
    BY DEF s, t
  <2>3. /\ ~ Ahead(t, "drop") /\ ~ Ahead(t, "unused")
        /\ \E m \in DOMAIN t : 1 < m /\ t[m].do = "unusedAll"
    BY <1>1, <2>1, <2>2 DEF LocksFirst, t
  <2>4. /\ \A k \in DOMAIN u : u[k].do # "drop" /\ u[k].do # "unused"
        /\ \E m \in DOMAIN u : u[m].do = "unusedAll"
    <3>1. PICK m \in DOMAIN t : 1 < m /\ t[m].do = "unusedAll"
      BY <2>3
    <3>2. m # 1
      BY <3>1
    <3>3. ~ Ahead(u, "drop") /\ ~ Ahead(u, "unused")
      BY <1>9, <2>3
    <3>. QED  BY <1>2, <3>1, <3>2, <3>3 DEF Ahead
  <2>5. DropOK(n)
    BY <1>6, <2>4 DEF DropOK
  <2>6. DropAllOK(n)
    <3>1. ASSUME NEW k \in DOMAIN u, u[k].do = "dropAll" PROVE k = Len(u)
      <4>1. k \in Nat /\ k + 1 \in DOMAIN t /\ t[k + 1].do = "dropAll"
        BY <1>2, <3>1
      <4>2. k + 1 = Len(t)
        BY <2>1, <4>1 DEF DropAllOK, t
      <4>. QED  BY <1>2, <4>1, <4>2
    <3>. QED  BY <1>6, <2>4, <3>1 DEF DropAllOK, Ahead
  <2>7. LocksFirst(n)
    <3>1. ASSUME NEW k \in DOMAIN u, u[k].do \in {"lock", "lockChangeable"}
          PROVE  \E m \in DOMAIN u : k < m /\ u[m].do = "unusedAll"
      <4>1. k \in Nat /\ k + 1 \in DOMAIN t /\ t[k + 1].do \in {"lock", "lockChangeable"}
        BY <1>2, <3>1
      <4>2. PICK m \in DOMAIN t : k + 1 < m /\ t[m].do = "unusedAll"
        BY <2>1, <4>1 DEF LocksFirst, t
      <4>3. m # 1 /\ k < m - 1
        BY <1>2, <4>1, <4>2
      <4>. QED  BY <1>2, <4>2, <4>3
    <3>2. ~ Ahead(u, "drop") /\ ~ Ahead(u, "unused")
      BY <2>4 DEF Ahead
    <3>. QED  BY <1>6, <3>1, <3>2 DEF LocksFirst
  <2>8. DictOK(n)
    <3>1. ASSUME r.kind = "dictType", Ahead(u, "dropAll"), NEW x \in DOMAIN r.ids
          PROVE  /\ r.ids[x] \in 1 .. nextId
                 /\ \/ \E m \in DOMAIN u : u[m] = Step("lock", r.ids[x])
                    \/ r.ids[x] \in lk
                    \/ rows[r.ids[x]].kind # "dictType"
      <4>1. Ahead(t, "dropAll")
        BY <1>9, <3>1
      <4>2. /\ r.ids[x] \in 1 .. nextId
            /\ \/ \E m \in DOMAIN t : t[m] = Step("lock", r.ids[x])
               \/ r.ids[x] \in r.locked
               \/ rows[r.ids[x]].kind # "dictType"
        BY <2>1, <3>1, <4>1 DEF DictOK, t
      <4>3. CASE \E m \in DOMAIN t : t[m] = Step("lock", r.ids[x])
        <5>1. PICK m \in DOMAIN t : t[m] = Step("lock", r.ids[x])
          BY <4>3
        <5>2. m = 1 => s.id = r.ids[x]
          BY <1>1, <5>1 DEF Step
        <5>3. m = 1 => r.ids[x] \in lk \/ rows[r.ids[x]].kind # "dictType"
          BY <3>1, <5>2 DEF s, t
        <5>. QED  BY <1>2, <4>2, <5>1, <5>3
      <4>. QED  BY <4>2, <4>3 DEF s, t
    <3>. QED  BY <1>6, <2>4, <3>1 DEF DictOK
  <2>. QED  BY <2>5, <2>6, <2>7, <2>8
<1>12. Removes(n)
  BY <1>6, <1>7, <1>10, <1>11 DEF Removes
<1>. QED  BY <1>12 DEF Good

-----------------------------------------------------------------------------
(* The steps of all requests. *)

LEMMA MarkedTrue ==
  ASSUME NEW r, IsRequest(r)
  PROVE  LET n == Marked(r, TRUE) IN
         /\ IsRequest(n)
         /\ n.kind = r.kind /\ n.form = r.form /\ n.ids = r.ids /\ n.todo = r.todo
         /\ n.was = r.was /\ n.locked = r.locked /\ n.disturbed
<1>1. PICK d : d = TRUE
  BY Zenon
<1>2. LET n == Marked(r, d) IN
      /\ d \in BOOLEAN => IsRequest(n)
      /\ n.kind = r.kind /\ n.form = r.form /\ n.ids = r.ids /\ n.todo = r.todo
      /\ n.was = r.was /\ n.locked = r.locked /\ n.disturbed = d
  <2>. HIDE <1>1
  <2>. QED  BY MarkedFact
<1>. QED  BY <1>1, <1>2, Zenon

LEMMA GoingFalse ==
  ASSUME NEW r, IsRequest(r), r.todo # <<>>
  PROVE  LET n == Going(r, Tail(r.todo), FALSE) IN
         /\ IsRequest(n)
         /\ n.kind = r.kind /\ n.form = r.form /\ n.ids = r.ids /\ n.todo = Tail(r.todo)
         /\ n.was = r.was /\ n.locked = r.locked
<1>1. PICK d : d = FALSE
  BY Zenon
<1>2. LET n == Going(r, Tail(r.todo), d) IN
      /\ Tail(r.todo) \in Program /\ d \in BOOLEAN => IsRequest(n)
      /\ n.kind = r.kind /\ n.form = r.form /\ n.ids = r.ids /\ n.todo = Tail(r.todo)
      /\ n.was = r.was /\ n.locked = r.locked
  <2>. HIDE <1>1
  <2>. QED  BY GoingFact
<1>3. Tail(r.todo) \in Program
  BY TailFact DEF IsRequest
<1>. QED  BY <1>1, <1>2, <1>3, Zenon

LEMMA LockingFalse ==
  ASSUME NEW r, IsRequest(r), r.todo # <<>>, NEW l
  PROVE  LET n == Locking(r, Tail(r.todo), FALSE, l) IN
         /\ IsRequest(n)
         /\ n.kind = r.kind /\ n.form = r.form /\ n.ids = r.ids /\ n.todo = Tail(r.todo)
         /\ n.was = r.was /\ n.locked = l
<1>1. PICK d : d = FALSE
  BY Zenon
<1>2. LET n == Locking(r, Tail(r.todo), d, l) IN
      /\ Tail(r.todo) \in Program /\ d \in BOOLEAN => IsRequest(n)
      /\ n.kind = r.kind /\ n.form = r.form /\ n.ids = r.ids /\ n.todo = Tail(r.todo)
      /\ n.was = r.was /\ n.locked = l
  <2>. HIDE <1>1
  <2>. QED  BY LockingFact
<1>3. Tail(r.todo) \in Program
  BY TailFact DEF IsRequest
<1>. QED  BY <1>1, <1>2, <1>3, Zenon

\* A request that is overtaken by the commit of another one has nothing left to
\* rely on.
LEMMA MarkedGood ==
  ASSUME NEW r, Good(r), r.kind # None,
         NEW n, IsRequest(n), n.kind = r.kind, n.form = r.form, n.ids = r.ids, n.todo = r.todo,
         n.locked = r.locked, n.disturbed,
         nextId \in Nat, nextId' \in Nat, nextId <= nextId',
         \A i \in 1 .. nextId : rows'[i].kind = rows[i].kind \/ rows'[i].kind = None
  PROVE  Good(n)'
<1>1. IsRequest(r) /\ (Saves(r) \/ Removes(r))
  <2>1. r # Resting
    BY DEF Resting
  <2>. QED  BY <2>1 DEF Good
<1>2. /\ IsRequest(n)
      /\ n.kind = r.kind /\ n.form = r.form /\ n.ids = r.ids /\ n.todo = r.todo
      /\ n.locked = r.locked /\ n.disturbed
  OBVIOUS
<1>3. ASSUME Saves(r) PROVE Saves(n)'
  <2>1. r.form.id \in 0 .. nextId'
    BY <1>3 DEF Saves
  <2>2. ClimbOK(n)'
    BY <1>2, <1>3 DEF Saves, ClimbOK
  <2>. QED  BY <1>2, <1>3, <2>1, <2>2 DEF Saves
<1>4. ASSUME Removes(r), r.kind \in Parents
      PROVE  DropOK(n)' /\ DropAllOK(n)' /\ LocksFirst(n)' /\ DictOK(n)'
  <2>1. DropOK(r) /\ DropAllOK(r) /\ LocksFirst(r) /\ DictOK(r)
    BY <1>4 DEF Removes
  <2>2. DropOK(n)'
    BY <1>2, <2>1 DEF DropOK
  <2>3. DropAllOK(n)'
    BY <1>2, <2>1 DEF DropAllOK
  <2>4. LocksFirst(n)'
    BY <1>2, <2>1 DEF LocksFirst
  <2>5. DictOK(n)'
    <3>1. ASSUME r.kind = "dictType", Ahead(r.todo, "dropAll"), NEW x \in DOMAIN r.ids
          PROVE  /\ r.ids[x] \in 1 .. nextId'
                 /\ \/ \E m \in DOMAIN r.todo : r.todo[m] = Step("lock", r.ids[x])
                    \/ r.ids[x] \in r.locked
                    \/ rows'[r.ids[x]].kind # "dictType"
      <4>1. /\ r.ids[x] \in 1 .. nextId
            /\ \/ \E m \in DOMAIN r.todo : r.todo[m] = Step("lock", r.ids[x])
               \/ r.ids[x] \in r.locked
               \/ rows[r.ids[x]].kind # "dictType"
        BY <2>1, <3>1 DEF DictOK
      <4>2. r.ids[x] \in 1 .. nextId'
        BY <4>1
      <4>3. None # "dictType"
        BY TabsFact DEF Tabs
      <4>. QED  BY <4>1, <4>2, <4>3
    <3>. QED  BY <1>2, <2>1, <3>1 DEF DictOK
  <2>. QED  BY <2>2, <2>3, <2>4, <2>5
<1>5. ASSUME Removes(r) PROVE Removes(n)'
  BY <1>2, <1>4, <1>5 DEF Removes
<1>. QED  BY <1>1, <1>2, <1>3, <1>5 DEF Good

\* The next item of a list is looked at before it is deleted.
LEMMA GoingGood ==
  ASSUME NEW r, Good(r), r.todo # <<>>, Head(r.todo).do \in {"drop", "dropAll"}, Len(r.todo) # 1,
         NEW n, IsRequest(n), n.kind = r.kind, n.ids = r.ids, n.todo = Tail(r.todo)
  PROVE  Good(n)'
<1> DEFINE t == r.todo
           u == Tail(t)
           s == Head(t)
<1>1. t \in Program /\ s = t[1] /\ 1 \in DOMAIN t /\ u \in Program /\ IsRequest(r)
  <2>1. t \in Program
    BY DEF Good, IsRequest
  <2>. QED  BY <2>1, TailFact DEF Good
<1>2. /\ Len(t) \in Nat /\ DOMAIN t = 1 .. Len(t) /\ Len(u) = Len(t) - 1 /\ Len(t) >= 1
      /\ DOMAIN u = 1 .. Len(t) - 1
      /\ \A k \in 1 .. Len(t) - 1 : u[k] = t[k + 1] /\ k + 1 \in DOMAIN t
      /\ \A k \in DOMAIN t : k # 1 => k - 1 \in DOMAIN u /\ u[k - 1] = t[k]
  BY <1>1, TailFact
<1>3. /\ IsRequest(n)
      /\ n.kind = r.kind /\ n.ids = r.ids /\ n.todo = u
  OBVIOUS
<1>4. Removes(r)
  <2>1. ~ Saves(r)
    <3>1. Saves(r) => t[1].do \in Selects \cup {"insert", "update"}
      BY <1>1 DEF Saves
    <3>. QED  BY <1>1, <3>1 DEF Selects
  <2>2. r # Resting
    BY DEF Resting
  <2>. QED  BY <2>1, <2>2 DEF Good
<1>5. s.do \in {"drop", "dropAll"} /\ Len(t) # 1
  OBVIOUS
<1>. HIDE DEF u, t, s
<1>6. Len(t) > 1
  BY <1>2, <1>5
<1>7. /\ Len(u) > 0
      /\ \A k \in DOMAIN u : u[k].do \notin {"insert", "update", "parent", "above"}
      /\ u[Len(u)].do \in {"drop", "dropAll"}
  <2>0. /\ t[Len(t)].do \in {"drop", "dropAll"}
        /\ \A k \in DOMAIN t : t[k].do \notin {"insert", "update", "parent", "above"}
    BY <1>4 DEF Removes, t
  <2>1. Len(t) - 1 \in 1 .. Len(t) - 1 /\ (Len(t) - 1) + 1 = Len(t)
    BY <1>2, <1>6
  <2>2. u[Len(u)] = t[Len(t)] /\ Len(u) > 0
    <3>1. u[Len(t) - 1] = t[(Len(t) - 1) + 1]
      BY <1>2, <2>1
    <3>2. Len(t) - 1 > 0
      BY <1>2, <1>6
    <3>. QED  BY <1>2, <2>1, <3>1, <3>2
  <2>3. \A k \in DOMAIN u : u[k].do \notin {"insert", "update", "parent", "above"}
    BY <1>2, <2>0
  <2>. QED  BY <2>0, <2>2, <2>3
<1>8. ASSUME r.kind \in Parents
      PROVE  DropOK(n)' /\ DropAllOK(n)' /\ LocksFirst(n)' /\ DictOK(n)'
  <2>1. DropOK(r) /\ DropAllOK(r) /\ LocksFirst(r) /\ DictOK(r)
    BY <1>4, <1>8 DEF Removes
  <2>2. t[1].do = "drop" /\ Ahead(t, "drop")
    <3>1. t[1].do # "dropAll"
      BY <1>1, <1>5, <2>1 DEF DropAllOK, t
    <3>. QED  BY <1>1, <1>5, <3>1 DEF Ahead
  <2>3. r.kind # "dictType"
    <3>1. r.kind = "dictType" => 1 = Len(t)
      BY <1>1, <2>1, <2>2 DEF DictOK, t
    <3>. QED  BY <1>5, <3>1
  <2>4. \A k \in DOMAIN u : u[k].do \notin {"lock", "lockChangeable", "dropAll"}
    <3>1. \A k \in DOMAIN t : t[k].do # "dropAll"
      BY <2>1, <2>2 DEF DropAllOK, t
    <3>2. \A k \in DOMAIN t : t[k].do \notin {"lock", "lockChangeable"}
      BY <2>1, <2>2 DEF LocksFirst, t
    <3>. QED  BY <1>2, <3>1, <3>2
  <2>5. ASSUME NEW k \in DOMAIN u, u[k].do = "drop"
        PROVE  \E m \in 1 .. k - 1 : /\ u[m] = Step("unused", u[k].id)
                                     /\ \A l \in m + 1 .. k - 1 : u[l].do # "drop"
    <3>1. /\ k \in Nat /\ k + 1 \in DOMAIN t /\ t[k + 1] = u[k] /\ 1 \in 1 .. (k + 1) - 1
          /\ \A l \in 1 .. k - 1 : u[l] = t[l + 1]
      BY <1>2
    <3>2. PICK m \in 1 .. (k + 1) - 1 : /\ t[m] = Step("unused", u[k].id)
                                        /\ \A l \in m + 1 .. (k + 1) - 1 : t[l].do # "drop"
      BY <2>1, <2>2, <2>5, <3>1 DEF DropOK, t
    <3>3. m # 1
      BY <2>2, <3>2 DEF Step
    <3>4. /\ m - 1 \in 1 .. k - 1 /\ m \in DOMAIN t
          /\ \A l \in (m - 1) + 1 .. k - 1 : l \in 1 .. k - 1 /\ l + 1 \in m + 1 .. (k + 1) - 1
      BY <1>2, <3>1, <3>3
    <3>5. u[m - 1] = Step("unused", u[k].id)
      BY <1>2, <3>2, <3>3, <3>4
    <3>6. \A l \in (m - 1) + 1 .. k - 1 : u[l].do # "drop"
      BY <3>1, <3>2, <3>4
    <3>. QED  BY <3>4, <3>5, <3>6
  <2>6. DropOK(n)'
    BY <1>3, <2>5 DEF DropOK
  <2>7. DropAllOK(n)' /\ LocksFirst(n)'
    BY <1>3, <2>4 DEF DropAllOK, LocksFirst
  <2>8. DictOK(n)'
    BY <1>3, <2>3 DEF DictOK
  <2>. QED  BY <2>6, <2>7, <2>8
<1>9. Removes(n)'
  <2>1. r.kind \in Tabs
    BY <1>4 DEF Removes
  <2>. QED  BY <1>3, <1>7, <1>8, <2>1 DEF Removes
<1>. QED  BY <1>3, <1>9 DEF Good

LEMMA Renamed ==
  ASSUME NEW q \in Proc, NEW n, crud'[q] = n, Good(n)'
  PROVE  Good(crud[q])'
<1>1. ASSUME Saves(n)' PROVE Saves(crud[q])'
  <2>1. \A s : Found(n, s)' => Found(crud[q], s)'
    BY DEF Found, ChildrenOf, HasParent, Live, Id
  <2>2. ClimbOK(n)' => ClimbOK(crud[q])'
    BY DEF ClimbOK, Climbed, Ahead, Live, Id, IsNew
  <2>. QED  BY <1>1, <2>1, <2>2 DEF Saves, Needs, Ahead, Step, IsNew
<1>2. ASSUME Removes(n)' PROVE Removes(crud[q])'
  BY <1>2 DEF Removes, DropOK, DropAllOK, LocksFirst, DictOK, Ahead, Childless, ChildrenOf, Id
<1>. QED  BY <1>1, <1>2 DEF Good, IsRequest

\* A step that writes no row leaves every check as it was.
LEMMA SameGood ==
  ASSUME UNCHANGED <<topic, rows, nextId>>
  PROVE  \A n : Good(n)' <=> Good(n)
BY DEF Good, Removes, DropOK, DropAllOK, LocksFirst, DictOK, Ahead, Childless, ChildrenOf, Id,
       Saves, ClimbOK, Climbed, Needs, Ahead, Found, Step, ChildrenOf, HasParent, Live, Id

LEMMA ApartNext ==
  ASSUME TableTypes', AllApart(rows', Id', tainted')
  PROVE  UniqueUnlessRaced'
<1>1. \A i, j, key : key \in {"name", "code", "nameIn"} => (Clash(i, j, key)' => Collide(rows', i, j, key))
  <2>1. \A i, j : Clash(i, j, "name")' => Collide(rows', i, j, "name")
    BY DEF Clash, Collide
  <2>2. \A i, j : Clash(i, j, "code")' => Collide(rows', i, j, "code")
    BY DEF Clash, Collide
  <2>3. \A i, j : Clash(i, j, "nameIn")' => Collide(rows', i, j, "nameIn")
    BY DEF Clash, Collide
  <2>. QED  BY <2>1, <2>2, <2>3
<1>2. Id' \subseteq Int
  BY CrudAssumption DEF Id
<1>3. \A i \in Id' : rows'[i] # Dead => rows'[i].kind \in Tabs
  BY DEF TableTypes, TableRow
<1>4. \A i, j \in Id' : i < j => i # j
  BY <1>2
<1>. QED  BY <1>1, <1>3, <1>4, KeysFact DEF UniqueUnlessRaced, AllApart

LEMMA RefsNext ==
  ASSUME AllLinked(rows', Id', tainted'), Acyclic(rows', Id', tainted')
  PROVE  RefsUnlessRaced'
<1>1. \A kind \in DOMAIN Parent : Parent[kind] = kind => Parent[kind] # "dictType"
  BY DEF Parent
<1>2. (\A i \in Id \ tainted :
         rows[i].kind \in DOMAIN Parent /\ ~ rows[i].builtin => HasParent(rows[i].kind, rows[i].up))'
  BY <1>1 DEF AllLinked, Linked, HasParent, Live
<1>3. NoCycle'
  BY DEF NoCycle, Acyclic, Live
<1>. QED  BY <1>2, <1>3 DEF RefsUnlessRaced

\* A step of p that writes no row and leaves it with a good request n.
LEMMA QuietStep ==
  ASSUME TablesOK, NEW p \in Proc, NEW n, Good(n), crud' = [crud EXCEPT ![p] = n],
         UNCHANGED <<topic, rows, nextId, tainted>>
  PROVE  TablesOK'
<1>1. Id' = Id
  BY DEF Id
<1>2. crud = [q \in Proc |-> crud[q]] /\ \A q \in Proc : Good(crud[q])
  BY GoodFact DEF TablesOK, TableTypes
<1>3. \A q \in Proc : crud'[q] = IF q = p THEN n ELSE crud[q]
  BY <1>2
<1>4. crud' = [q \in Proc |-> crud'[q]]
  BY <1>2
<1>5. \A q \in Proc : Good(crud[q])'
  <2>1. ASSUME NEW q \in Proc, NEW m, m = (IF q = p THEN n ELSE crud[q]) PROVE Good(crud[q])'
    <3>1. Good(m)
      BY <1>2, <2>1
    <3>2. Good(m)'
      BY <3>1, SameGood
    <3>3. crud'[q] = m
      BY <1>3, <2>1
    <3>. QED  BY <3>2, <3>3, Renamed
  <2>. QED  BY <2>1
<1>6. TableTypes'
  <2>1. \A q \in Proc : IsRequest(crud[q])'
    BY <1>5 DEF Good
  <2>2. /\ rows' \in [Id' -> TableRow] /\ nextId' \in 0 .. Cardinality(Id')
        /\ \A i \in Id' : i > nextId' \/ rows'[i].kind = None => rows'[i] = Dead
        /\ \A i \in Id' : rows'[i].builtin => rows'[i].kind \in {"role", "tenant", "config"}
    BY <1>1 DEF TablesOK, TableTypes
  <2>. QED  BY <1>4, <2>1, <2>2 DEF TableTypes
<1>7. AllApart(rows', Id', tainted') /\ AllLinked(rows', Id', tainted') /\ Acyclic(rows', Id', tainted')
  <2>1. AllApart(rows, Id, tainted) /\ AllLinked(rows, Id, tainted) /\ Acyclic(rows, Id, tainted)
    BY ApartFact, RefsFact DEF TablesOK
  <2>. QED  BY <1>1, <2>1
<1>8. UniqueUnlessRaced' /\ RefsUnlessRaced'
  BY <1>6, <1>7, ApartNext, RefsNext
<1>9. (\A q \in Proc : crud[q] = Resting \/ Saves(crud[q]) \/ Removes(crud[q]))'
  BY <1>5 DEF Good
<1>. QED  BY <1>6, <1>8, <1>9 DEF TablesOK

LEMMA SelectStep ==
  ASSUME TablesOK, NEW p \in Proc, Select(p)
  PROVE  TablesOK'
<1> DEFINE r == crud[p]
           s == Head(r.todo)
           n == IF Found(r, s) THEN Passed(r, s) ELSE Resting
<1>1. Good(r)
  BY GoodFact
<1>2. r.todo # <<>> /\ s.do \in Selects
  BY DEF Select, NextDo, Selects
<1>3. Good(n)
  BY <1>1, <1>2, PassGood, RestingGood
<1>4. crud' = [crud EXCEPT ![p] = n] /\ UNCHANGED <<topic, rows, nextId, tainted>>
  BY DEF Select
<1>. HIDE DEF n
<1>. QED  BY <1>3, <1>4, QuietStep

LEMMA RefuseStep ==
  ASSUME TablesOK, NEW p \in Proc, Refuse(p)
  PROVE  TablesOK'
BY RestingGood, QuietStep DEF Refuse

LEMMA LockStep ==
  ASSUME TablesOK, NEW p \in Proc, Lock(p)
  PROVE  TablesOK'
<1> DEFINE r == crud[p]
           s == Head(r.todo)
           l == IF rows[s.id].kind = r.kind THEN r.locked \cup {s.id} ELSE r.locked
           m == Locking(r, Tail(r.todo), FALSE, l)
           n == IF s.do = "lockChangeable" /\ (rows[s.id].kind # r.kind \/ rows[s.id].builtin)
                THEN Resting ELSE m
<1>1. Good(r) /\ IsRequest(r)
  BY GoodFact DEF Good
<1>2. r.todo # <<>> /\ s.do \in {"lock", "lockChangeable"}
  BY DEF Lock, NextDo
<1>3. Good(m)
  <2>1. l = IF rows[Head(r.todo).id].kind = r.kind
            THEN r.locked \cup {Head(r.todo).id} ELSE r.locked
    OBVIOUS
  <2>2. Head(r.todo).do \in {"lock", "lockChangeable"}
    BY <1>2
  <2>. HIDE DEF l, r, s
  <2>4. /\ IsRequest(m) /\ m.kind = r.kind /\ m.ids = r.ids /\ m.todo = Tail(r.todo)
        /\ m.locked = l
    BY <1>1, <1>2, LockingFalse
  <2>. HIDE DEF m
  <2>5. r.todo # <<>>
    BY <1>2
  <2>. QED  BY <1>1, <2>1, <2>2, <2>4, <2>5, LockGood, ZenonT(30)
<1>4. crud' = [crud EXCEPT ![p] = n] /\ UNCHANGED <<topic, rows, nextId, tainted>>
  BY DEF Lock, Locking
<1>5. Good(n)
  <2>. HIDE DEF m
  <2>. QED  BY <1>3, RestingGood
<1>. HIDE DEF n
<1>. QED  BY <1>4, <1>5, QuietStep

\* What a write leaves of the rows.
LEMMA Persist ==
  ASSUME TablesOK, NEW p \in Proc, Insert(p) \/ Update(p) \/ Delete(p)
  PROVE  /\ Id' = Id
         /\ nextId \in Nat /\ nextId' \in Nat /\ nextId <= nextId' /\ nextId' <= Cardinality(Id)
         /\ rows' \in [Id -> TableRow]
         /\ \A i \in 1 .. nextId : rows'[i].kind = rows[i].kind \/ rows'[i].kind = None
         /\ \A i \in Id : i > nextId' \/ rows'[i].kind = None => rows'[i] = Dead
         /\ \A i \in Id : rows'[i].builtin => rows'[i].kind \in {"role", "tenant", "config"}
         /\ NextDo(p) \in {"insert", "update", "drop", "dropAll"} /\ Committed(p)
<1> DEFINE r == crud[p]
<1>1. PICK N \in Nat : Id = 1 .. N /\ Cardinality(Id) = N
  BY IdFact
<1>2. /\ Id' = Id /\ rows \in [Id -> TableRow] /\ nextId \in 0 .. N
      /\ \A i \in Id : i > nextId \/ rows[i].kind = None => rows[i] = Dead
      /\ \A i \in Id : rows[i].builtin => rows[i].kind \in {"role", "tenant", "config"}
      /\ NextDo(p) \in {"insert", "update", "drop", "dropAll"} /\ Committed(p)
  BY <1>1 DEF TablesOK, TableTypes, Insert, Update, Delete, Id
<1>3. None \notin Tabs /\ Dead \in TableRow /\ Dead.kind = None /\ ~ Dead.builtin
  BY TabsFact DEF Dead, TableRow
<1>4. ASSUME NextDo(p) \in {"insert", "update"}
      PROVE  /\ r.kind \in Tabs /\ r.form \in TableForm /\ Row(r) \in TableRow
             /\ Row(r).kind = r.kind /\ ~ Row(r).builtin
             /\ r.kind = "dictType" => r.form.code \in Code
             /\ IsNew(r.form) <=> NextDo(p) = "insert"
             /\ r.form.id \in 0 .. nextId
  <2>1. Saves(r) /\ IsRequest(r) /\ (IsNew(r.form) <=> NextDo(p) = "insert")
    BY <1>4, AtWrite
  <2>2. r.kind \in Tabs /\ r.form \in TableForm /\ (r.kind = "dictType" => r.form.code \in Code)
        /\ r.form.id \in 0 .. nextId
    BY <2>1 DEF Saves, IsRequest
  <2>. QED  BY <2>1, <2>2 DEF Row, TableRow, TableForm
<1>5. CASE Insert(p)
  <2>1. nextId < N /\ nextId' = nextId + 1 /\ rows' = [rows EXCEPT ![nextId + 1] = Row(r)]
    BY <1>1, <1>5 DEF Insert
  <2>2. nextId + 1 \in Id /\ Row(r) \in TableRow /\ Row(r).kind \in Tabs /\ ~ Row(r).builtin
    BY <1>1, <1>2, <1>4, <1>5, <2>1 DEF Insert
  <2>3. \A i \in Id : i # nextId + 1 => rows'[i] = rows[i]
    BY <1>2, <2>1
  <2>4. rows'[nextId + 1] = Row(r)
    BY <1>2, <2>1, <2>2
  <2>. HIDE DEF r
  <2>5. rows' \in [Id -> TableRow]
    BY <1>2, <2>1, <2>2
  <2>6. \A i \in 1 .. nextId : rows'[i].kind = rows[i].kind
    BY <1>1, <1>2, <2>1, <2>3
  <2>7. \A i \in Id : i > nextId' \/ rows'[i].kind = None => rows'[i] = Dead
    <3>1. \A i \in Id : i > nextId' => i > nextId /\ i # nextId + 1
      BY <1>1, <1>2, <2>1
    <3>. QED  BY <1>2, <1>3, <2>2, <2>3, <2>4, <3>1
  <2>8. \A i \in Id : rows'[i].builtin => rows'[i].kind \in {"role", "tenant", "config"}
    BY <1>2, <2>2, <2>3, <2>4
  <2>. QED  BY <1>1, <1>2, <2>1, <2>5, <2>6, <2>7, <2>8
<1>6. CASE Update(p)
  <2> DEFINE i == r.form.id
             renamed == IF r.kind = "dictType" /\ r.was # r.form.code THEN ChildrenOf(r.kind, i, r.was) ELSE {}
  <2>1. /\ nextId' = nextId
        /\ rows' = [j \in Id |-> IF j = i
                                 THEN IF rows[i].kind = r.kind THEN [Row(r) EXCEPT !.builtin = rows[i].builtin]
                                                               ELSE rows[i]
                                 ELSE IF j \in renamed THEN [rows[j] EXCEPT !.up = r.form.code]
                                 ELSE rows[j]]
    BY <1>6 DEF Update
  <2>2. /\ r.kind \in Tabs /\ Row(r) \in TableRow /\ Row(r).kind = r.kind
        /\ r.kind = "dictType" => r.form.code \in Code
    BY <1>4, <1>6 DEF Update
  <2>3. \A j \in renamed : r.kind = "dictType"
    OBVIOUS
  <2>. HIDE DEF r, i, renamed
  <2>4. ASSUME NEW j \in Id
        PROVE  /\ rows'[j] \in TableRow /\ rows'[j].kind = rows[j].kind
               /\ rows'[j].builtin = rows[j].builtin
               /\ rows[j].kind = None => rows'[j] = rows[j] \/ j \in renamed
    <3>1. CASE j = i /\ rows[i].kind = r.kind
      <4>1. rows'[j] = [Row(r) EXCEPT !.builtin = rows[i].builtin]
        BY <2>1, <3>1
      <4>2. rows[i] \in TableRow
        BY <1>2, <3>1
      <4>. QED  BY <1>3, <2>2, <3>1, <4>1, <4>2 DEF TableRow
    <3>2. CASE j # i /\ j \in renamed
      <4>1. rows'[j] = [rows[j] EXCEPT !.up = r.form.code]
        BY <2>1, <3>2
      <4>2. rows[j] \in TableRow /\ r.form.code \in Code
        BY <1>2, <2>2, <2>3, <3>2
      <4>. QED  BY <3>2, <4>1, <4>2 DEF TableRow
    <3>3. CASE (j = i /\ rows[i].kind # r.kind) \/ (j # i /\ j \notin renamed)
      BY <1>2, <2>1, <3>3
    <3>. QED  BY <3>1, <3>2, <3>3
  <2>5. \A j \in renamed : rows[j].kind # None
    BY <1>3, TabsFact DEF renamed, ChildrenOf
  <2>6. rows' \in [Id -> TableRow]
    BY <2>1, <2>4
  <2>7. \A j \in Id : j > nextId' \/ rows'[j].kind = None => rows'[j] = Dead
    BY <1>2, <1>3, <2>1, <2>4, <2>5
  <2>8. \A j \in Id : rows'[j].builtin => rows'[j].kind \in {"role", "tenant", "config"}
    BY <1>2, <2>4
  <2>9. \A j \in 1 .. nextId : rows'[j].kind = rows[j].kind
    BY <1>1, <1>2, <2>4
  <2>10. nextId \in Nat /\ nextId' \in Nat /\ nextId <= nextId' /\ nextId' <= Cardinality(Id)
    BY <1>1, <1>2, <2>1
  <2>11. \A j \in 1 .. nextId : rows'[j].kind = rows[j].kind \/ rows'[j].kind = None
    BY <2>9
  <2>. QED  BY <1>2, <2>6, <2>7, <2>8, <2>10, <2>11
<1>7. CASE Delete(p)
  <2>1. nextId' = nextId /\ rows' = [j \in Id |-> IF j \in Doomed(p) THEN Dead ELSE rows[j]]
    BY <1>7 DEF Delete
  <2>2. \A j \in Id : rows'[j] = Dead \/ rows'[j] = rows[j]
    BY <2>1
  <2>3. rows' \in [Id -> TableRow]
    BY <1>2, <1>3, <2>1
  <2>4. \A j \in Id : j > nextId' \/ rows'[j].kind = None => rows'[j] = Dead
    BY <1>2, <2>1, <2>2
  <2>5. \A j \in Id : rows'[j].builtin => rows'[j].kind \in {"role", "tenant", "config"}
    BY <1>2, <1>3, <2>2
  <2>6. \A j \in 1 .. nextId : rows'[j].kind = rows[j].kind \/ rows'[j].kind = None
    BY <1>1, <1>2, <1>3, <2>2
  <2>. QED  BY <1>1, <1>2, <2>1, <2>3, <2>4, <2>5, <2>6
<1>. QED  BY <1>5, <1>6, <1>7

LEMMA WriteStep ==
  ASSUME TablesOK, NEW p \in Proc, Insert(p) \/ Update(p) \/ Delete(p)
  PROVE  TablesOK'
<1> DEFINE r == crud[p]
<1>1. /\ Id' = Id
      /\ nextId \in Nat /\ nextId' \in Nat /\ nextId <= nextId' /\ nextId' <= Cardinality(Id)
      /\ rows' \in [Id -> TableRow]
      /\ \A i \in 1 .. nextId : rows'[i].kind = rows[i].kind \/ rows'[i].kind = None
      /\ \A i \in Id : i > nextId' \/ rows'[i].kind = None => rows'[i] = Dead
      /\ \A i \in Id : rows'[i].builtin => rows'[i].kind \in {"role", "tenant", "config"}
      /\ NextDo(p) \in {"insert", "update", "drop", "dropAll"} /\ Committed(p)
  BY Persist
<1>2. \A q \in Proc : Good(crud[q]) /\ IsRequest(crud[q])
  BY GoodFact DEF Good
<1>3. crud' = [q \in Proc |-> IF q = p THEN IF Len(r.todo) = 1 THEN Resting ELSE Going(r, Tail(r.todo), FALSE)
                              ELSE IF crud[q].kind = None THEN crud[q] ELSE Marked(crud[q], TRUE)]
  BY <1>1 DEF Committed, Going, Marked
<1>4. r.todo # <<>> /\ Head(r.todo).do = NextDo(p)
  BY <1>1 DEF NextDo
<1>5. Good(Resting)'
  <2>1. /\ IsRequest(Resting)
    BY RestingGood DEF Good
  <2>. QED  BY <2>1 DEF Good
<1>6. ASSUME NEW n, n = Going(r, Tail(r.todo), FALSE), Len(r.todo) # 1
      PROVE  Good(n)'
  <2>1. IsRequest(n) /\ n.kind = r.kind /\ n.ids = r.ids /\ n.todo = Tail(r.todo)
    BY <1>2, <1>4, <1>6, GoingFalse
  <2>2. Head(r.todo).do \in {"drop", "dropAll"}
    <3>1. NextDo(p) \in {"insert", "update"} => Len(r.todo) = 1
      BY AtWrite
    <3>. QED  BY <1>1, <1>4, <1>6, <3>1
  <2>. QED  BY <1>2, <1>4, <1>6, <2>1, <2>2, GoingGood
<1>7. ASSUME NEW q \in Proc, crud[q].kind # None, NEW n, n = Marked(crud[q], TRUE)
      PROVE  Good(n)'
  <2>1. /\ IsRequest(n) /\ n.kind = crud[q].kind /\ n.form = crud[q].form /\ n.ids = crud[q].ids
        /\ n.todo = crud[q].todo /\ n.locked = crud[q].locked /\ n.disturbed
    BY <1>2, <1>7, MarkedTrue
  <2>. QED  BY <1>1, <1>2, <1>7, <2>1, MarkedGood
<1>8. ASSUME NEW q \in Proc, crud[q].kind = None PROVE crud[q] = Resting
  BY <1>2, <1>8, TabsFact DEF Good, Saves, Removes
<1>9. ASSUME NEW q \in Proc PROVE Good(crud[q])'
  <2>1. CASE q = p /\ Len(r.todo) = 1
    <3>1. crud'[q] = Resting
      BY <1>3, <2>1
    <3>. QED  BY <1>5, <3>1, Renamed
  <2>2. CASE q = p /\ Len(r.todo) # 1
    <3>1. PICK n : n = Going(r, Tail(r.todo), FALSE)
      OBVIOUS
    <3>2. crud'[q] = n
      BY <1>3, <2>2, <3>1
    <3>3. Good(n)'
      BY <1>6, <2>2, <3>1
    <3>. QED  BY <3>2, <3>3, Renamed
  <2>3. CASE q # p /\ crud[q].kind = None
    <3>1. crud'[q] = Resting
      BY <1>3, <1>8, <2>3
    <3>. QED  BY <1>5, <3>1, Renamed
  <2>4. CASE q # p /\ crud[q].kind # None
    <3>1. PICK n : n = Marked(crud[q], TRUE)
      OBVIOUS
    <3>2. crud'[q] = n
      BY <1>3, <2>4, <3>1
    <3>3. Good(n)'
      BY <1>7, <2>4, <3>1
    <3>. QED  BY <3>2, <3>3, Renamed
  <2>. QED  BY <2>1, <2>2, <2>3, <2>4
<1>10. TableTypes'
  <2>1. \A q \in Proc : IsRequest(crud[q])'
    BY <1>9 DEF Good
  <2>2. crud' = [q \in Proc |-> crud'[q]]
    BY <1>3
  <2>3. nextId' \in 0 .. Cardinality(Id')
    <3>1. Cardinality(Id) \in Nat
      BY IdFact
    <3>. QED  BY <1>1, <3>1
  <2>. QED  BY <1>1, <2>1, <2>2, <2>3 DEF TableTypes
<1>11. AllApart(rows', Id', tainted') /\ AllLinked(rows', Id', tainted') /\ Acyclic(rows', Id', tainted')
  BY <1>1, InsertKeeps, UpdateKeeps, DeleteKeeps
<1>12. UniqueUnlessRaced' /\ RefsUnlessRaced'
  BY <1>10, <1>11, ApartNext, RefsNext
<1>13. (\A q \in Proc : crud[q] = Resting \/ Saves(crud[q]) \/ Removes(crud[q]))'
  BY <1>9 DEF Good
<1>. QED  BY <1>10, <1>12, <1>13 DEF TablesOK

-----------------------------------------------------------------------------
(* The programs of the requests. *)

LEMMA StepsFact ==
  /\ \A i : Steps(i, <<>>) = <<>>
  /\ \A i, d : Steps(i, <<d>>) = <<Step(d, i)>>
  /\ \A i, d, e : Steps(i, <<d, e>>) = <<Step(d, i), Step(e, i)>>
  /\ \A i, d, e, g : Steps(i, <<d, e, g>>) = <<Step(d, i), Step(e, i), Step(g, i)>>
  /\ \A i, d, e, g, h : Steps(i, <<d, e, g, h>>) = <<Step(d, i), Step(e, i), Step(g, i), Step(h, i)>>
<1>1. ASSUME NEW i PROVE Steps(i, <<>>) = <<>>
  BY DEF Steps
<1>2. ASSUME NEW i, NEW d PROVE Steps(i, <<d>>) = <<Step(d, i)>>
  BY DEF Steps
<1>3. ASSUME NEW i, NEW d, NEW e PROVE Steps(i, <<d, e>>) = <<Step(d, i), Step(e, i)>>
  BY DEF Steps
<1>4. ASSUME NEW i, NEW d, NEW e, NEW g
      PROVE  Steps(i, <<d, e, g>>) = <<Step(d, i), Step(e, i), Step(g, i)>>
  BY DEF Steps
<1>5. ASSUME NEW i, NEW d, NEW e, NEW g, NEW h
      PROVE  Steps(i, <<d, e, g, h>>) = <<Step(d, i), Step(e, i), Step(g, i), Step(h, i)>>
  BY DEF Steps
<1>. QED  BY <1>1, <1>2, <1>3, <1>4, <1>5

LEMMA EachNone ==
  ASSUME NEW ids, Len(ids) \in Nat
  PROVE  ForEach(ids, <<>>) = <<>>
<1>1. 1 .. Len(ids) * Len(<<>>) = {}
  OBVIOUS
<1>. QED  BY <1>1 DEF ForEach

LEMMA EachOfOne ==
  ASSUME NEW i, NEW d
  PROVE  ForEach(<<i>>, <<d>>) = <<Step(d, i)>>
BY DEF ForEach

LEMMA EachOne ==
  ASSUME NEW i, NEW j, NEW d
  PROVE  ForEach(<<i, j>>, <<d>>) = <<Step(d, i), Step(d, j)>>
BY DEF ForEach

LEMMA EachTwo ==
  ASSUME NEW i, NEW j, NEW d, NEW e
  PROVE  ForEach(<<i, j>>, <<d, e>>) = <<Step(d, i), Step(e, i), Step(d, j), Step(e, j)>>
BY DEF ForEach

LEMMA EachThree ==
  ASSUME NEW i, NEW j, NEW d, NEW e, NEW g
  PROVE  ForEach(<<i, j>>, <<d, e, g>>) = <<Step(d, i), Step(e, i), Step(g, i),
                                            Step(d, j), Step(e, j), Step(g, j)>>
BY DEF ForEach

\* A sequence one longer.
LEMMA EndFact ==
  ASSUME NEW S, NEW s \in Seq(S), NEW x \in S
  PROVE  /\ s \o <<x>> \in Seq(S) /\ Len(s \o <<x>>) = Len(s) + 1
         /\ \A k \in 1 .. Len(s) : (s \o <<x>>)[k] = s[k]
         /\ (s \o <<x>>)[Len(s) + 1] = x
BY ConcatProperties

LEMMA PairEnd ==
  ASSUME NEW a, NEW b
  PROVE  <<a>> \o <<b>> = <<a, b>>
<1> DEFINE S == {a, b}
           s == <<a>>
           t == s \o <<b>>
           u == <<a, b>>
<1>1. s \in Seq(S) /\ Len(s) = 1 /\ s[1] = a /\ b \in S
  OBVIOUS
<1>2. u \in Seq(S) /\ Len(u) = 2 /\ u[1] = a /\ u[2] = b
  OBVIOUS
<1>3. /\ t \in Seq(S) /\ Len(t) = Len(s) + 1
      /\ \A k \in 1 .. Len(s) : t[k] = s[k]
      /\ t[Len(s) + 1] = b
  <2>. HIDE DEF s, S
  <2>. QED  BY <1>1, EndFact
<1>. HIDE DEF S, s, t, u
<1>4. Len(t) = 2 /\ t[1] = a /\ t[2] = b
  BY <1>1, <1>3
<1>5. Len(t) = Len(u) /\ \A k \in 1 .. Len(t) : t[k] = u[k]
  BY <1>2, <1>4
<1>6. t = u
  BY <1>2, <1>3, <1>5, SeqEqual
<1>. QED  BY <1>6 DEF t, u, s

LEMMA TripleEnd ==
  ASSUME NEW a, NEW b, NEW c
  PROVE  <<a, b>> \o <<c>> = <<a, b, c>>
<1> DEFINE S == {a, b, c}
           s == <<a, b>>
           t == s \o <<c>>
           u == <<a, b, c>>
<1>1. s \in Seq(S) /\ Len(s) = 2 /\ s[1] = a /\ s[2] = b /\ c \in S
  OBVIOUS
<1>2. u \in Seq(S) /\ Len(u) = 3 /\ u[1] = a /\ u[2] = b /\ u[3] = c
  OBVIOUS
<1>3. /\ t \in Seq(S) /\ Len(t) = Len(s) + 1
      /\ \A k \in 1 .. Len(s) : t[k] = s[k]
      /\ t[Len(s) + 1] = c
  <2>. HIDE DEF s, S
  <2>. QED  BY <1>1, EndFact
<1>. HIDE DEF S, s, t, u
<1>4. Len(t) = 3 /\ t[1] = a /\ t[2] = b /\ t[3] = c
  BY <1>1, <1>3
<1>5. Len(t) = Len(u) /\ \A k \in 1 .. Len(t) : t[k] = u[k]
  BY <1>2, <1>4
<1>6. t = u
  BY <1>2, <1>3, <1>5, SeqEqual
<1>. QED  BY <1>6 DEF t, u, s

LEMMA QuadEnd ==
  ASSUME NEW a, NEW b, NEW c, NEW d
  PROVE  <<a, b, c>> \o <<d>> = <<a, b, c, d>>
<1> DEFINE S == {a, b, c, d}
           s == <<a, b, c>>
           t == s \o <<d>>
           u == <<a, b, c, d>>
<1>1. s \in Seq(S) /\ Len(s) = 3 /\ s[1] = a /\ s[2] = b /\ s[3] = c /\ d \in S
  OBVIOUS
<1>2. u \in Seq(S) /\ Len(u) = 4 /\ u[1] = a /\ u[2] = b /\ u[3] = c /\ u[4] = d
  OBVIOUS
<1>3. /\ t \in Seq(S) /\ Len(t) = Len(s) + 1
      /\ \A k \in 1 .. Len(s) : t[k] = s[k]
      /\ t[Len(s) + 1] = d
  <2>. HIDE DEF s, S
  <2>. QED  BY <1>1, EndFact
<1>. HIDE DEF S, s, t, u
<1>4. Len(t) = 4 /\ t[1] = a /\ t[2] = b /\ t[3] = c /\ t[4] = d
  BY <1>1, <1>3
<1>5. Len(t) = Len(u) /\ \A k \in 1 .. Len(t) : t[k] = u[k]
  BY <1>2, <1>4
<1>6. t = u
  BY <1>2, <1>3, <1>5, SeqEqual
<1>. QED  BY <1>6 DEF t, u, s

\* Checks a program makes.
Holds(c, d) == \E k \in DOMAIN c : c[k] = d
Before(c, d, e) == \E j, k \in DOMAIN c : j < k /\ c[j] = d /\ c[k] = e

LEMMA JoinFact ==
  ASSUME NEW S, NEW a \in Seq(S), NEW b \in Seq(S), NEW c, c = a \o b
  PROVE  /\ c \in Seq(S)
         /\ \A d : Holds(c, d) <=> Holds(a, d) \/ Holds(b, d)
         /\ \A d, e : Before(a, d, e) \/ Before(b, d, e) => Before(c, d, e)
<1>1. /\ c \in Seq(S) /\ Len(a) \in Nat /\ Len(b) \in Nat /\ Len(c) = Len(a) + Len(b)
      /\ DOMAIN a = 1 .. Len(a) /\ DOMAIN b = 1 .. Len(b) /\ DOMAIN c = 1 .. Len(a) + Len(b)
      /\ \A k \in 1 .. Len(a) + Len(b) : c[k] = IF k <= Len(a) THEN a[k] ELSE b[k - Len(a)]
  BY ConcatProperties
<1>2. /\ \A k \in 1 .. Len(a) : k \in DOMAIN c /\ c[k] = a[k]
      /\ \A k \in 1 .. Len(b) : k + Len(a) \in DOMAIN c /\ c[k + Len(a)] = b[k]
      /\ \A k \in DOMAIN c : k \in 1 .. Len(a) \/ k - Len(a) \in 1 .. Len(b)
      /\ \A k \in DOMAIN c : c[k] = IF k <= Len(a) THEN a[k] ELSE b[k - Len(a)]
      /\ \A k \in DOMAIN c : k \in Int
  BY <1>1
<1>3. ASSUME NEW d PROVE Holds(c, d) <=> Holds(a, d) \/ Holds(b, d)
  <2>1. Holds(a, d) => Holds(c, d)
    BY <1>1, <1>2 DEF Holds
  <2>2. ASSUME NEW k \in 1 .. Len(b), b[k] = d PROVE Holds(c, d)
    BY <1>2, <2>2 DEF Holds
  <2>3. ASSUME NEW k \in DOMAIN c, c[k] = d PROVE Holds(a, d) \/ Holds(b, d)
    <3>1. CASE k <= Len(a)
      <4>1. k \in 1 .. Len(a) /\ a[k] = d
        BY <1>1, <2>3, <3>1
      <4>. QED  BY <1>1, <4>1 DEF Holds
    <3>2. CASE ~ (k <= Len(a))
      <4>1. k - Len(a) \in 1 .. Len(b) /\ b[k - Len(a)] = d
        BY <1>1, <2>3, <3>2
      <4>. QED  BY <1>1, <4>1 DEF Holds
    <3>. QED  BY <3>1, <3>2
  <2>4. Holds(b, d) => Holds(c, d)
    BY <1>1, <2>2 DEF Holds
  <2>. QED  BY <2>1, <2>3, <2>4 DEF Holds
<1>4. ASSUME NEW d, NEW e, Before(a, d, e) PROVE Before(c, d, e)
  BY <1>1, <1>2, <1>4 DEF Before
<1>5. ASSUME NEW d, NEW e, Before(b, d, e) PROVE Before(c, d, e)
  <2>1. PICK j, k \in 1 .. Len(b) : j < k /\ b[j] = d /\ b[k] = e
    BY <1>1, <1>5 DEF Before
  <2>2. j + Len(a) < k + Len(a)
    BY <1>1, <2>1
  <2>. QED  BY <1>2, <2>1, <2>2 DEF Before
<1>. QED  BY <1>1, <1>3, <1>4, <1>5

\* A request that has just arrived.
Arrival(kind, f, ids, t) == [Resting EXCEPT !.kind = kind, !.form = f, !.ids = ids, !.todo = t]

LEMMA ArrivalFact ==
  ASSUME NEW kind, NEW f \in TableForm, NEW ids \in Seq(Nat), NEW t \in Program
  PROVE  LET n == Arrival(kind, f, ids, t) IN
         /\ IsRequest(n)
         /\ n.kind = kind /\ n.form = f /\ n.ids = ids /\ n.todo = t /\ n.locked = {}
<1> DEFINE n == Arrival(kind, f, ids, t)
<1>1. IsRequest(Resting) /\ Resting.locked = {}
  BY RestingGood DEF Good, Resting
<1>2. PICK k, g, i, u, w, l, d :
        Resting = [kind |-> k, form |-> g, ids |-> i, todo |-> u, was |-> w, locked |-> l, disturbed |-> d]
  BY <1>1, Zenon DEF IsRequest
<1>3. Resting.was = w /\ Resting.locked = l /\ Resting.disturbed = d
  BY <1>2
<1> DEFINE r1 == [kind |-> kind, form |-> g, ids |-> i, todo |-> u, was |-> w, locked |-> l, disturbed |-> d]
           r2 == [kind |-> kind, form |-> f, ids |-> i, todo |-> u, was |-> w, locked |-> l, disturbed |-> d]
           r3 == [kind |-> kind, form |-> f, ids |-> ids, todo |-> u, was |-> w, locked |-> l, disturbed |-> d]
           r4 == [kind |-> kind, form |-> f, ids |-> ids, todo |-> t, was |-> w, locked |-> l, disturbed |-> d]
<1>4. n = [[[[Resting EXCEPT !.kind = kind] EXCEPT !.form = f] EXCEPT !.ids = ids] EXCEPT !.todo = t]
  BY DEF Arrival
<1>5. [Resting EXCEPT !.kind = kind] = r1
  BY <1>2
<1>6. [r1 EXCEPT !.form = f] = r2
  OBVIOUS
<1>7. [r2 EXCEPT !.ids = ids] = r3
  OBVIOUS
<1>8. [r3 EXCEPT !.todo = t] = r4
  OBVIOUS
<1>9. n = r4
  <2>. HIDE DEF r1, r2, r3, r4, n
  <2>. QED  BY <1>4, <1>5, <1>6, <1>7, <1>8
<1>10. n.kind = kind /\ n.form = f /\ n.ids = ids /\ n.todo = t /\ n.was = w /\ n.locked = l
       /\ n.disturbed = d
  <2>. HIDE DEF n
  <2>. QED  BY <1>9
<1>11. n = [kind |-> n.kind, form |-> n.form, ids |-> n.ids, todo |-> n.todo, was |-> n.was,
            locked |-> n.locked, disturbed |-> n.disturbed]
  <2>. HIDE DEF n
  <2>. QED  BY <1>9, <1>10, Zenon
<1>12. d \in BOOLEAN
  BY <1>1, <1>3, Zenon DEF IsRequest
<1>13. IsRequest(n)
  <2>. HIDE DEF n
  <2>. QED  BY <1>10, <1>11, <1>12, Zenon DEF IsRequest
<1>. QED  BY <1>1, <1>3, <1>10, <1>13

LEMMA ArriveStep ==
  ASSUME TablesOK, NEW p \in Proc, NEW kind, NEW f, NEW ids, NEW t, Begin(p, kind, f, ids, t),
         Good(Arrival(kind, f, ids, t)), Arrival(kind, f, ids, t).todo = t
  PROVE  TablesOK'
<1> DEFINE r == Arrival(kind, f, ids, t)
           s == Head(t)
           n == IF s.do \notin Selects THEN r
                ELSE IF Found(r, s) THEN Passed(r, s) ELSE Resting
<1>1. crud' = [crud EXCEPT ![p] = n] /\ UNCHANGED <<topic, rows, nextId, tainted>> /\ t # <<>>
  BY DEF Begin, Arrival
<1>2. r.todo = t /\ Good(r)
  OBVIOUS
<1>3. Good(n)
  <2>1. ASSUME s.do \in Selects, Found(r, s) PROVE Good(Passed(r, s))
    <3>1. r.todo # <<>> /\ s = Head(r.todo)
      BY <1>1, <1>2
    <3>. HIDE DEF r, s
    <3>. QED  BY <1>2, <2>1, <3>1, PassGood
  <2>. HIDE DEF r, s
  <2>. QED  BY <1>2, <2>1, RestingGood
<1>. HIDE DEF n
<1>. QED  BY <1>1, <1>3, QuietStep

\* Creating and changing rows.
LEMMA StepFact == \A d, i : Step(d, i).do = d /\ Step(d, i).id = i
BY DEF Step

LEMMA SavingFact ==
  ASSUME NEW f \in TableForm, NEW c \in Seq(Selects), NEW t, t = Saving(f, c)
  PROVE  /\ t \in Program /\ Len(c) \in Nat /\ DOMAIN c = 1 .. Len(c)
         /\ Len(t) = Len(c) + 1 /\ DOMAIN t = 1 .. Len(c) + 1
         /\ \A k \in 1 .. Len(c) : t[k] = Step(c[k], f.id) /\ c[k] \in Selects
         /\ t[Len(c) + 1] = Step(IF IsNew(f) THEN "insert" ELSE "update", f.id)
<1> DEFINE S == [do : Dos, id : Nat]
           s == Steps(f.id, c)
           x == Step(IF IsNew(f) THEN "insert" ELSE "update", f.id)
<1>1. f.id \in Nat /\ Selects \subseteq Dos /\ "insert" \in Dos /\ "update" \in Dos
  BY DEF TableForm, Dos
<1>2. Len(c) \in Nat /\ DOMAIN c = 1 .. Len(c) /\ \A k \in 1 .. Len(c) : c[k] \in Selects
  OBVIOUS
<1>3. s \in Seq(S) /\ Len(s) = Len(c) /\ \A k \in 1 .. Len(c) : s[k] = Step(c[k], f.id)
  <2>1. s = [k \in 1 .. Len(c) |-> Step(c[k], f.id)]
    BY <1>2 DEF Steps
  <2>2. \A k \in 1 .. Len(c) : Step(c[k], f.id) \in S
    BY <1>1, <1>2 DEF Step
  <2>. HIDE DEF S, s
  <2>. QED  BY <1>2, <2>1, <2>2
<1>4. x \in S
  BY <1>1 DEF Step
<1>5. t = s \o <<x>>
  BY DEF Saving
<1>6. /\ t \in Seq(S) /\ Len(t) = Len(s) + 1
      /\ \A k \in 1 .. Len(s) : t[k] = s[k]
      /\ t[Len(s) + 1] = x
  <2>. HIDE DEF S, s, x
  <2>1. /\ s \o <<x>> \in Seq(S) /\ Len(s \o <<x>>) = Len(s) + 1
        /\ \A k \in 1 .. Len(s) : (s \o <<x>>)[k] = s[k]
        /\ (s \o <<x>>)[Len(s) + 1] = x
    BY <1>3, <1>4, EndFact
  <2>. QED  BY <1>5, <2>1
<1>7. DOMAIN t = 1 .. Len(c) + 1
  <2>. HIDE DEF S, s, x
  <2>. QED  BY <1>3, <1>6
<1>. QED  BY <1>2, <1>3, <1>6, <1>7 DEF Program

LEMMA SavingGood ==
  ASSUME NEW r, IsRequest(r), r.kind \in Tabs, r.form.id \in 0 .. nextId,
         NEW c \in Seq(Selects), r.todo = Saving(r.form, c),
         \A d \in Needs(r.kind, r.form) : Holds(c, d),
         r.kind = "dictType" => r.form.code \in Code,
         Holds(c, "above") => r.kind = "category",
         r.kind = "category" /\ ~ IsNew(r.form) /\ r.form.up # 0 =>
           r.form.up # r.form.id /\ Before(c, "parent", "above")
  PROVE  Good(r)
<1> DEFINE t == r.todo
<1>1. /\ t \in Program /\ Len(c) \in Nat /\ DOMAIN c = 1 .. Len(c)
      /\ Len(t) = Len(c) + 1 /\ DOMAIN t = 1 .. Len(c) + 1
      /\ \A k \in 1 .. Len(c) : t[k] = Step(c[k], r.form.id) /\ c[k] \in Selects
      /\ t[Len(c) + 1] = Step(IF IsNew(r.form) THEN "insert" ELSE "update", r.form.id)
  <2>1. r.form \in TableForm
    BY DEF IsRequest
  <2>. QED  BY <2>1, SavingFact
<1>2. /\ \A k \in 1 .. Len(c) : t[k].do = c[k] /\ t[k].id = r.form.id /\ k \in DOMAIN t
      /\ t[Len(t)].do = (IF IsNew(r.form) THEN "insert" ELSE "update")
      /\ t[Len(t)].id = r.form.id
  <2>. HIDE DEF t
  <2>1. \A k \in 1 .. Len(c) : t[k].do = c[k] /\ t[k].id = r.form.id /\ k \in DOMAIN t
    BY <1>1, StepFact
  <2>2. t[Len(t)] = Step(IF IsNew(r.form) THEN "insert" ELSE "update", r.form.id)
    BY <1>1
  <2>. QED  BY <2>1, <2>2, StepFact
<1>. HIDE DEF t
<1>3. \A k \in DOMAIN t : (k < Len(t) => k \in 1 .. Len(c)) /\ (~ (k < Len(t)) => k = Len(t))
  BY <1>1
<1>4. \A d : Holds(c, d) => Ahead(t, d)
  BY <1>1, <1>2 DEF Holds, Ahead
<1>5. "above" # "insert" /\ "above" # "update" /\ (Ahead(t, "above") => Holds(c, "above"))
  BY <1>1, <1>2, <1>3 DEF Holds, Ahead
<1>6. Before(c, "parent", "above") =>
        \E j, k \in DOMAIN t : j < k /\ t[j].do = "parent" /\ t[k].do = "above"
  BY <1>1, <1>2 DEF Before
<1>7. \A k \in DOMAIN t :
        /\ t[k].id = r.form.id
        /\ IF k < Len(t) THEN t[k].do \in Selects
           ELSE t[k].do = IF IsNew(r.form) THEN "insert" ELSE "update"
  BY <1>1, <1>2, <1>3
<1>8. Len(t) > 0
  BY <1>1
<1>9. r.kind = "dictType" /\ ~ IsNew(r.form) => Ahead(t, "exists")
  BY <1>4 DEF Needs
<1>10. ClimbOK(r)
  BY <1>6 DEF ClimbOK, t
<1>11. Saves(r)
  BY <1>4, <1>5, <1>7, <1>8, <1>9, <1>10 DEF Saves, t
<1>. QED  BY <1>11 DEF Good

LEMMA SaveStep ==
  ASSUME TablesOK, NEW p \in Proc, NEW kind \in Tabs, NEW f \in TableForm, NEW c \in Seq(Selects),
         Submit(p, kind, f, Saving(f, c)),
         \A d \in Needs(kind, f) : Holds(c, d),
         kind = "dictType" => f.code \in Code,
         Holds(c, "above") => kind = "category",
         kind = "category" /\ ~ IsNew(f) /\ f.up # 0 => f.up # f.id /\ Before(c, "parent", "above")
  PROVE  TablesOK'
<1> DEFINE t == Saving(f, c)
           e == <<>>
           r == Arrival(kind, f, e, t)
<1>1. /\ t \in Program /\ Len(c) \in Nat
      /\ DOMAIN t = 1 .. Len(c) + 1
      /\ t[Len(c) + 1] = Step(IF IsNew(f) THEN "insert" ELSE "update", f.id)
  BY SavingFact
<1>2. e \in Seq(Nat)
  OBVIOUS
<1>3. Begin(p, kind, f, e, t)
  BY DEF Submit
<1>. HIDE DEF t, e
<1>4. f.id \in 0 .. nextId
  <2>1. {t[k].id : k \in DOMAIN t} \subseteq {0} \cup 1 .. nextId
    BY <1>3 DEF Begin
  <2>2. t[Len(c) + 1].id = f.id /\ Len(c) + 1 \in DOMAIN t
    BY <1>1 DEF Step
  <2>3. f.id \in {0} \cup 1 .. nextId /\ nextId \in Nat
    <3>1. nextId \in Nat
      BY IdFact DEF TablesOK, TableTypes
    <3>. QED  BY <2>1, <2>2, <3>1
  <2>. QED  BY <2>3
<1>5. IsRequest(r) /\ r.kind = kind /\ r.form = f /\ r.todo = t
  <2>0. f \in TableForm /\ e \in Seq(Nat) /\ t \in Program
    BY <1>1, <1>2
  <2>1. LET n == Arrival(kind, f, e, t) IN
        /\ IsRequest(n)
        /\ n.kind = kind /\ n.form = f /\ n.ids = e /\ n.todo = t /\ n.locked = {}
    BY <2>0, ArrivalFact
  <2>. QED BY <2>1
<1>6. Good(r)
  <2>1. r.todo = Saving(f, c)
    BY <1>5 DEF t
  <2>. HIDE DEF r
  <2>. QED  BY <1>4, <1>5, <2>1, SavingGood
<1>. QED  BY <1>3, <1>5, <1>6, ArriveStep

\* Deleting rows.
LEMMA RemoveStep ==
  ASSUME TablesOK, NEW p \in Proc, NEW kind, NEW ids \in Seq(Nat), NEW t \in Program,
         Remove(p, kind, ids, t),
         \A r : IsRequest(r) /\ r.kind = kind /\ r.ids = ids /\ r.todo = t => Removes(r)
  PROVE  TablesOK'
<1> DEFINE r == Arrival(kind, NoForm, ids, t)
<1>1. NoForm \in TableForm
  BY DEF NoForm, TableForm
<1>2. LET n == Arrival(kind, NoForm, ids, t) IN
      /\ IsRequest(n)
      /\ n.kind = kind /\ n.form = NoForm /\ n.ids = ids /\ n.todo = t /\ n.locked = {}
  BY <1>1, ArrivalFact
<1>3. IsRequest(r) /\ r.kind = kind /\ r.ids = ids /\ r.todo = t
  BY <1>2
<1>4. Good(r)
  <2>. HIDE DEF r
  <2>. QED  BY <1>3 DEF Good
<1>. QED  BY <1>3, <1>4, ArriveStep DEF Remove

\* Programs that need not see to children.
Plain(t) ==
  /\ t \in Program /\ Len(t) > 0
  /\ \A k \in DOMAIN t : t[k].do \in {"exists", "changeable", "lockChangeable", "allExist", "drop", "dropAll"}
  /\ t[Len(t)].do \in {"drop", "dropAll"}

LEMMA PlainStep ==
  ASSUME TablesOK, NEW p \in Proc, NEW kind \in Tabs \ Parents, NEW ids \in Seq(Nat), NEW t, Plain(t),
         Remove(p, kind, ids, t)
  PROVE  TablesOK'
<1>1. t \in Program
  BY DEF Plain
<1>2. \A r : IsRequest(r) /\ r.kind = kind /\ r.ids = ids /\ r.todo = t => Removes(r)
  BY DEF Plain, Removes
<1>. QED  BY <1>1, <1>2, RemoveStep

LEMMA StepIn == \A d \in Dos : \A i \in Nat : Step(d, i) \in [do : Dos, id : Nat]
BY DEF Step

LEMMA IdNat == Id \subseteq Nat /\ 0 \notin Id
BY IdFact

LEMMA ListFact ==
  ASSUME NEW ids \in Lists
  PROVE  /\ ids \in Seq(Nat) /\ Len(ids) = 2 /\ DOMAIN ids = {1, 2} /\ ids = <<ids[1], ids[2]>>
         /\ ids[1] \in Id /\ ids[2] \in Id
<1>1. PICK i, j \in Id : ids = <<i, j>>
  BY DEF Lists
<1>2. i \in Nat /\ j \in Nat
  BY IdNat
<1>. QED  BY <1>1, <1>2

LEMMA DosFact ==
  /\ {"exists", "changeable", "lockChangeable", "allExist", "drop", "dropAll"} \subseteq Dos
  /\ {"unused", "unusedAll", "lock"} \subseteq Dos
BY DEF Dos, Selects

LEMMA Plain1 ==
  ASSUME NEW a \in {"drop", "dropAll"}, NEW i \in Nat
  PROVE  Plain(<<Step(a, i)>>)
<1> DEFINE x == Step(a, i)
           t == <<x>>
<1>1. x \in [do : Dos, id : Nat] /\ x.do = a
  BY DosFact, StepIn, StepFact
<1>. HIDE DEF x
<1>2. t \in Program /\ Len(t) = 1 /\ DOMAIN t = {1} /\ t[1] = x
  BY <1>1 DEF Program
<1>. HIDE DEF t
<1>3. Plain(t)
  BY <1>1, <1>2 DEF Plain
<1>. QED  BY <1>3 DEF t, x

LEMMA Plain2 ==
  ASSUME NEW a \in {"exists", "changeable", "allExist", "drop"}, NEW i \in Nat,
         NEW b \in {"drop", "dropAll"}, NEW j \in Nat
  PROVE  Plain(<<Step(a, i), Step(b, j)>>)
<1> DEFINE x == Step(a, i)
           y == Step(b, j)
           t == <<x, y>>
<1>1. x \in [do : Dos, id : Nat] /\ x.do = a /\ y \in [do : Dos, id : Nat] /\ y.do = b
  BY DosFact, StepIn, StepFact
<1>. HIDE DEF x, y
<1>2. t \in Program /\ Len(t) = 2 /\ DOMAIN t = {1, 2} /\ t[1] = x /\ t[2] = y
  BY <1>1 DEF Program
<1>. HIDE DEF t
<1>3. Plain(t)
  BY <1>1, <1>2 DEF Plain
<1>. QED  BY <1>3 DEF t, x, y

LEMMA Plain3 ==
  ASSUME NEW a \in {"changeable", "lockChangeable"}, NEW i \in Nat,
         NEW j \in Nat,
         NEW c \in {"drop", "dropAll"}, NEW k \in Nat
  PROVE  Plain(<<Step(a, i), Step("lockChangeable", j), Step(c, k)>>)
<1> DEFINE x == Step(a, i)
           y == Step("lockChangeable", j)
           z == Step(c, k)
           t == <<x, y, z>>
<1>1. /\ x \in [do : Dos, id : Nat] /\ x.do = a
      /\ y \in [do : Dos, id : Nat] /\ y.do = "lockChangeable"
      /\ z \in [do : Dos, id : Nat] /\ z.do = c
  BY DosFact, StepIn, StepFact
<1>. HIDE DEF x, y, z
<1>2. t \in Program /\ Len(t) = 3 /\ DOMAIN t = {1, 2, 3} /\ t[1] = x /\ t[2] = y /\ t[3] = z
  BY <1>1 DEF Program
<1>. HIDE DEF t
<1>3. Plain(t)
  BY <1>1, <1>2 DEF Plain
<1>. QED  BY <1>3 DEF t, x, y, z

LEMMA Plain4 ==
  ASSUME NEW i \in Nat, NEW j \in Nat
  PROVE  Plain(<<Step("changeable", i), Step("drop", i), Step("changeable", j), Step("drop", j)>>)
<1> DEFINE x == Step("changeable", i)
           y == Step("drop", i)
           z == Step("changeable", j)
           w == Step("drop", j)
           t == <<x, y, z, w>>
<1>1. /\ x \in [do : Dos, id : Nat] /\ x.do = "changeable"
      /\ y \in [do : Dos, id : Nat] /\ y.do = "drop"
      /\ z \in [do : Dos, id : Nat] /\ z.do = "changeable"
      /\ w \in [do : Dos, id : Nat] /\ w.do = "drop"
  BY DosFact, StepIn, StepFact
<1>. HIDE DEF x, y, z, w
<1>2. /\ t \in Program /\ Len(t) = 4 /\ DOMAIN t = {1, 2, 3, 4}
      /\ t[1] = x /\ t[2] = y /\ t[3] = z /\ t[4] = w
  BY <1>1 DEF Program
<1>. HIDE DEF t
<1>3. Plain(t)
  BY <1>1, <1>2 DEF Plain
<1>. QED  BY <1>3 DEF t, x, y, z, w

LEMMA AllOfNone == \A ids : Len(ids) \in Nat => AllOf(ids, <<>>) = <<Step("dropAll", 0)>>
<1>1. <<>> \o <<Step("dropAll", 0)>> = <<Step("dropAll", 0)>>
  BY ConcatEmptySeq
<1>. QED  BY <1>1, EachNone DEF AllOf

LEMMA PlainOne ==
  ASSUME NEW i \in Id
  PROVE  /\ Plain(Steps(i, <<"changeable", "lockChangeable", "drop">>))
         /\ Plain(Steps(i, <<"exists", "drop">>)) /\ Plain(Steps(i, <<"changeable", "drop">>))
         /\ Plain(Steps(i, <<"drop">>)) /\ Plain(ForEach(<<i>>, <<"drop">>))
         /\ Plain(<<Step("allExist", 0)>> \o AllOf(<<i>>, <<>>))
<1>1. i \in Nat /\ 0 \in Nat
  BY IdNat
<1>2. Plain(Steps(i, <<"changeable", "lockChangeable", "drop">>))
  <2>1. Plain(<<Step("changeable", i), Step("lockChangeable", i), Step("drop", i)>>)
    BY <1>1, Plain3
  <2>. QED  BY <2>1, StepsFact
<1>3. Plain(Steps(i, <<"exists", "drop">>)) /\ Plain(Steps(i, <<"changeable", "drop">>))
  <2>1. Plain(<<Step("exists", i), Step("drop", i)>>) /\ Plain(<<Step("changeable", i), Step("drop", i)>>)
    BY <1>1, Plain2
  <2>. QED  BY <2>1, StepsFact
<1>4. Plain(Steps(i, <<"drop">>)) /\ Plain(ForEach(<<i>>, <<"drop">>))
  BY <1>1, StepsFact, EachOfOne, Plain1
<1>5. Plain(<<Step("allExist", 0)>> \o AllOf(<<i>>, <<>>))
  <2>1. Len(<<i>>) \in Nat
    OBVIOUS
  <2>2. Plain(<<Step("allExist", 0), Step("dropAll", 0)>>)
    BY <1>1, Plain2
  <2>3. Plain(<<Step("allExist", 0)>> \o <<Step("dropAll", 0)>>)
    BY <2>2, PairEnd
  <2>. QED  BY <2>1, <2>3, AllOfNone
<1>. QED  BY <1>2, <1>3, <1>4, <1>5

LEMMA PlainList ==
  ASSUME NEW ids \in Lists
  PROVE  /\ Plain(AllOf(ids, <<"lockChangeable">>)) /\ Plain(AllOf(ids, <<>>))
         /\ Plain(ForEach(ids, <<"changeable", "drop">>)) /\ Plain(ForEach(ids, <<"drop">>))
         /\ Plain(<<Step("allExist", 0)>> \o AllOf(ids, <<>>))
<1> DEFINE a == ids[1]
           b == ids[2]
<1>1. a \in Nat /\ b \in Nat /\ ids = <<a, b>> /\ Len(ids) \in Nat /\ 0 \in Nat
  BY ListFact, IdNat
<1>. HIDE DEF a, b
<1>2. AllOf(ids, <<"lockChangeable">>) =
        <<Step("lockChangeable", a), Step("lockChangeable", b), Step("dropAll", 0)>>
  BY <1>1, EachOne, TripleEnd DEF AllOf
<1>3. Plain(AllOf(ids, <<"lockChangeable">>)) /\ Plain(AllOf(ids, <<>>))
  BY <1>1, <1>2, AllOfNone, Plain1, Plain3
<1>4. Plain(ForEach(ids, <<"changeable", "drop">>)) /\ Plain(ForEach(ids, <<"drop">>))
  BY <1>1, EachOne, EachTwo, Plain2, Plain4
<1>5. Plain(<<Step("allExist", 0)>> \o AllOf(ids, <<>>))
  <2>1. Plain(<<Step("allExist", 0), Step("dropAll", 0)>>)
    BY <1>1, Plain2
  <2>2. Plain(<<Step("allExist", 0)>> \o <<Step("dropAll", 0)>>)
    BY <2>1, PairEnd
  <2>. QED  BY <1>1, <2>2, AllOfNone
<1>. QED  BY <1>3, <1>4, <1>5

\* Deleting rows that may have children.
LEMMA DropOne ==
  ASSUME NEW r, r.kind \in Tabs, NEW i, r.todo = <<Step("exists", i), Step("unused", i), Step("drop", i)>>
  PROVE  Removes(r)
<1> DEFINE t == r.todo
           x == Step("exists", i)
           y == Step("unused", i)
           z == Step("drop", i)
<1>1. x.do = "exists" /\ x.id = i /\ y.do = "unused" /\ y.id = i /\ z.do = "drop" /\ z.id = i
  BY StepFact
<1>2. t = <<x, y, z>>
  OBVIOUS
<1>3. y = Step("unused", z.id)
  BY <1>1
<1>. HIDE DEF x, y, z
<1>4. Len(t) = 3 /\ DOMAIN t = {1, 2, 3} /\ t[1] = x /\ t[2] = y /\ t[3] = z
  BY <1>2
<1>. HIDE DEF t
<1>5. \A k \in DOMAIN t : (t[k].do = "drop" <=> k = 3) /\ (t[k].do = "unused" <=> k = 2)
                          /\ t[k].do \notin {"insert", "update", "parent", "above", "lock", "lockChangeable", "dropAll"}
                          /\ t[k].id = i
  BY <1>1, <1>4
<1>6. DropOK(r)
  <2>1. 2 \in 1 .. 3 - 1 /\ \A l \in 2 + 1 .. 3 - 1 : FALSE
    OBVIOUS
  <2>. QED  BY <1>3, <1>4, <1>5, <2>1 DEF DropOK, t
<1>7. DropAllOK(r) /\ LocksFirst(r)
  BY <1>5 DEF DropAllOK, LocksFirst, t
<1>8. DictOK(r)
  <2>1. 1 \in 1 .. 2 - 1
    OBVIOUS
  <2>. QED  BY <1>1, <1>4, <1>5, <2>1 DEF DictOK, Ahead, t
<1>9. Len(t) > 0 /\ t[Len(t)].do = "drop"
  BY <1>1, <1>4
<1>. QED  BY <1>5, <1>6, <1>7, <1>8, <1>9 DEF Removes, t

LEMMA DropMenu ==
  ASSUME NEW r, r.kind = "menu", NEW i,
         r.todo = <<Step("exists", i), Step("unused", i), Step("unusedAll", i), Step("drop", i)>>
  PROVE  Removes(r)
<1> DEFINE t == r.todo
           x == Step("exists", i)
           y == Step("unused", i)
           z == Step("unusedAll", i)
           w == Step("drop", i)
<1>1. x.do = "exists" /\ y.do = "unused" /\ z.do = "unusedAll" /\ w.do = "drop" /\ w.id = i
  BY StepFact
<1>2. t = <<x, y, z, w>>
  OBVIOUS
<1>3. y = Step("unused", w.id)
  BY <1>1
<1>. HIDE DEF x, y, z, w
<1>4. /\ Len(t) = 4 /\ DOMAIN t = {1, 2, 3, 4}
      /\ t[1] = x /\ t[2] = y /\ t[3] = z /\ t[4] = w
  BY <1>2
<1>. HIDE DEF t
<1>5. \A k \in DOMAIN t : (t[k].do = "drop" <=> k = 4)
                          /\ t[k].do \notin {"insert", "update", "parent", "above", "lock", "lockChangeable", "dropAll"}
  BY <1>1, <1>4
<1>6. DropOK(r)
  <2>1. 2 \in 1 .. 4 - 1 /\ \A l \in 2 + 1 .. 4 - 1 : l = 3
    OBVIOUS
  <2>. QED  BY <1>1, <1>3, <1>4, <1>5, <2>1 DEF DropOK, t
<1>7. DropAllOK(r) /\ LocksFirst(r) /\ DictOK(r)
  BY <1>5 DEF DropAllOK, LocksFirst, DictOK, t
<1>8. Len(t) > 0 /\ t[Len(t)].do = "drop" /\ r.kind \in Tabs
  BY <1>1, <1>4 DEF Tabs
<1>. QED  BY <1>5, <1>6, <1>7, <1>8 DEF Removes, t

LEMMA DropMenus ==
  ASSUME NEW r, r.kind = "menu", r.todo = <<Step("unusedAll", 0), Step("dropAll", 0)>>
  PROVE  Removes(r)
<1> DEFINE t == r.todo
           x == Step("unusedAll", 0)
           y == Step("dropAll", 0)
<1>1. x.do = "unusedAll" /\ y.do = "dropAll"
  BY StepFact
<1>2. t = <<x, y>>
  OBVIOUS
<1>. HIDE DEF x, y
<1>3. Len(t) = 2 /\ DOMAIN t = {1, 2} /\ t[1] = x /\ t[2] = y
  BY <1>2
<1>. HIDE DEF t
<1>4. \A k \in DOMAIN t : (t[k].do = "dropAll" <=> k = 2)
                          /\ t[k].do \notin {"insert", "update", "parent", "above", "lock", "lockChangeable", "drop"}
  BY <1>1, <1>3
<1>5. DropOK(r) /\ LocksFirst(r) /\ DictOK(r)
  BY <1>4 DEF DropOK, LocksFirst, DictOK, t
<1>6. DropAllOK(r)
  BY <1>1, <1>3, <1>4 DEF DropAllOK, Ahead, t
<1>7. Len(t) > 0 /\ t[Len(t)].do = "dropAll" /\ r.kind \in Tabs
  BY <1>1, <1>3 DEF Tabs
<1>. QED  BY <1>4, <1>5, <1>6, <1>7 DEF Removes, t

LEMMA DropTypes ==
  ASSUME NEW r, r.kind = "dictType", NEW a \in 1 .. nextId, NEW b \in 1 .. nextId, r.ids = <<a, b>>,
         r.todo = <<Step("lock", a), Step("lock", b), Step("unusedAll", 0), Step("dropAll", 0)>>
  PROVE  Removes(r)
<1> DEFINE t == r.todo
           x == Step("lock", a)
           y == Step("lock", b)
           z == Step("unusedAll", 0)
           w == Step("dropAll", 0)
<1>1. x.do = "lock" /\ y.do = "lock" /\ z.do = "unusedAll" /\ w.do = "dropAll"
  BY StepFact
<1>2. t = <<x, y, z, w>>
  OBVIOUS
<1>3. x = Step("lock", a) /\ y = Step("lock", b)
  OBVIOUS
<1>. HIDE DEF x, y, z, w
<1>4. /\ Len(t) = 4 /\ DOMAIN t = {1, 2, 3, 4}
      /\ t[1] = x /\ t[2] = y /\ t[3] = z /\ t[4] = w
  BY <1>2
<1>5. DOMAIN r.ids = {1, 2} /\ r.ids[1] = a /\ r.ids[2] = b
  OBVIOUS
<1>. HIDE DEF t
<1>6. \A k \in DOMAIN t : /\ t[k].do = "dropAll" <=> k = 4
                          /\ t[k].do = "lock" => k < 3
                          /\ t[k].do \notin {"insert", "update", "parent", "above", "lockChangeable", "drop",
                                             "unused", "exists"}
  BY <1>1, <1>4
<1>7. DropOK(r)
  BY <1>6 DEF DropOK, t
<1>8. DropAllOK(r)
  BY <1>1, <1>4, <1>6 DEF DropAllOK, Ahead, t
<1>9. LocksFirst(r)
  BY <1>1, <1>4, <1>6 DEF LocksFirst, Ahead, t
<1>10. DictOK(r)
  BY <1>3, <1>4, <1>5, <1>6 DEF DictOK, t
<1>11. Len(t) > 0 /\ t[Len(t)].do = "dropAll" /\ r.kind \in Tabs
  BY <1>1, <1>4 DEF Tabs
<1>. QED  BY <1>6, <1>7, <1>8, <1>9, <1>10, <1>11 DEF Removes, t

LEMMA DropUsers ==
  ASSUME NEW r, r.kind \in {"account", "channel"}, NEW a, NEW b, r.ids = <<a, b>>,
         r.todo = <<Step("unused", a), Step("unused", b), Step("dropAll", 0)>>
  PROVE  Removes(r)
<1> DEFINE t == r.todo
           x == Step("unused", a)
           y == Step("unused", b)
           z == Step("dropAll", 0)
<1>1. x.do = "unused" /\ y.do = "unused" /\ z.do = "dropAll"
  BY StepFact
<1>2. t = <<x, y, z>>
  OBVIOUS
<1>3. x = Step("unused", a) /\ y = Step("unused", b)
  OBVIOUS
<1>. HIDE DEF x, y, z
<1>4. Len(t) = 3 /\ DOMAIN t = {1, 2, 3} /\ t[1] = x /\ t[2] = y /\ t[3] = z
  BY <1>2
<1>5. DOMAIN r.ids = {1, 2} /\ r.ids[1] = a /\ r.ids[2] = b
  OBVIOUS
<1>. HIDE DEF t
<1>6. \A k \in DOMAIN t : /\ t[k].do = "dropAll" <=> k = 3
                          /\ t[k].do \notin {"insert", "update", "parent", "above", "lock", "lockChangeable", "drop"}
  BY <1>1, <1>4
<1>7. DropOK(r) /\ LocksFirst(r) /\ DictOK(r)
  BY <1>6 DEF DropOK, LocksFirst, DictOK, t
<1>8. DropAllOK(r)
  BY <1>3, <1>4, <1>5, <1>6 DEF DropAllOK, Ahead, t
<1>9. Len(t) > 0 /\ t[Len(t)].do = "dropAll" /\ r.kind \in Tabs
  BY <1>1, <1>4 DEF Tabs
<1>. QED  BY <1>6, <1>7, <1>8, <1>9 DEF Removes, t

LEMMA DropPackages ==
  ASSUME NEW r, r.kind = "package", NEW a, NEW b,
         r.todo = <<Step("exists", a), Step("unused", a), Step("drop", a),
                    Step("exists", b), Step("unused", b), Step("drop", b)>>
  PROVE  Removes(r)
<1> DEFINE t == r.todo
           x == Step("exists", a)
           y == Step("unused", a)
           z == Step("drop", a)
           u == Step("exists", b)
           v == Step("unused", b)
           w == Step("drop", b)
<1>1. /\ x.do = "exists" /\ y.do = "unused" /\ z.do = "drop" /\ z.id = a
      /\ u.do = "exists" /\ v.do = "unused" /\ w.do = "drop" /\ w.id = b
  BY StepFact
<1>2. t = <<x, y, z, u, v, w>>
  OBVIOUS
<1>3. y = Step("unused", z.id) /\ v = Step("unused", w.id)
  BY <1>1
<1>. HIDE DEF x, y, z, u, v, w
<1>4. /\ Len(t) = 6 /\ DOMAIN t = {1, 2, 3, 4, 5, 6}
      /\ t[1] = x /\ t[2] = y /\ t[3] = z /\ t[4] = u /\ t[5] = v /\ t[6] = w
  BY <1>2
<1>. HIDE DEF t
<1>5. \A k \in DOMAIN t : /\ t[k].do = "drop" <=> k \in {3, 6}
                          /\ t[k].do \notin {"insert", "update", "parent", "above", "lock", "lockChangeable", "dropAll"}
  BY <1>1, <1>4
<1>6. DropOK(r)
  <2>1. /\ 2 \in 1 .. 3 - 1 /\ \A l \in 2 + 1 .. 3 - 1 : FALSE
        /\ 5 \in 1 .. 6 - 1 /\ \A l \in 5 + 1 .. 6 - 1 : FALSE
    OBVIOUS
  <2>. QED  BY <1>3, <1>4, <1>5, <2>1 DEF DropOK, t
<1>7. DropAllOK(r) /\ LocksFirst(r) /\ DictOK(r)
  BY <1>5 DEF DropAllOK, LocksFirst, DictOK, t
<1>8. Len(t) > 0 /\ t[Len(t)].do = "drop" /\ r.kind \in Tabs
  BY <1>1, <1>4 DEF Tabs
<1>. QED  BY <1>5, <1>6, <1>7, <1>8 DEF Removes, t

-----------------------------------------------------------------------------
(* One request after the other. *)

LEMMA FormsFact ==
  ASSUME NEW names \in SUBSET (Name \cup {None}), NEW codes \in SUBSET (Code \cup {None}),
         NEW ups \in SUBSET (Nat \cup Code), NEW f \in Forms(names, codes, ups)
  PROVE  f \in TableForm /\ f.code \in codes /\ f.up \in ups
<1>1. {0} \cup Id \subseteq Nat
  BY IdNat
<1>2. f \in [id : {0} \cup Id, name : names, code : codes, up : ups]
  BY DEF Forms
<1>3. f \in [id : Nat, name : Name \cup {None}, code : Code \cup {None}, up : Nat \cup Code]
  BY <1>1, <1>2
<1>. QED  BY <1>2, <1>3 DEF TableForm

LEMMA NeedsFact ==
  ASSUME NEW f
  PROVE  /\ \A kind \in {"role", "post"} : Needs(kind, f) = {"name", "code"}
         /\ Needs("menu", f) \subseteq {"nameIn", "code", "parent"}
         /\ f.up = 0 => Needs("menu", f) \subseteq {"nameIn", "code"}
         /\ Needs("dictType", f) \subseteq {"name", "code", "exists"}
         /\ IsNew(f) => Needs("dictType", f) \subseteq {"name", "code"}
         /\ Needs("dictData", f) = {"nameIn", "parent"}
         /\ Needs("tenant", f) = {"name", "code", "parent"}
         /\ Needs("package", f) = {"name"}
         /\ \A kind \in {"notify", "client", "social"} : Needs(kind, f) = {"code"}
         /\ \A kind \in {"mail", "sms"} : Needs(kind, f) = {"code", "parent"}
         /\ Needs("config", f) = {"key"}
         /\ \A kind \in {"notice", "account", "channel", "source", "contact"} : Needs(kind, f) = {}
         /\ Needs("category", f) \subseteq {"nameIn", "parent"}
         /\ f.up = 0 => Needs("category", f) \subseteq {"nameIn"}
<1> USE DEF Needs, Keys, Parent, RoleKeys, MenuKeys, PostKeys, DictTypeKeys, DictDataKeys, TenantKeys,
            PackageKeys, TemplateKeys, ClientKeys, ParameterKeys, CategoryKeys
<1>1. \A kind \in {"role", "post"} : Needs(kind, f) = {"name", "code"}
  OBVIOUS
<1>2. /\ Needs("menu", f) \subseteq {"nameIn", "code", "parent"}
      /\ f.up = 0 => Needs("menu", f) \subseteq {"nameIn", "code"}
  OBVIOUS
<1>3. /\ Needs("dictType", f) \subseteq {"name", "code", "exists"}
      /\ IsNew(f) => Needs("dictType", f) \subseteq {"name", "code"}
  OBVIOUS
<1>4. Needs("dictData", f) = {"nameIn", "parent"}
  OBVIOUS
<1>5. Needs("tenant", f) = {"name", "code", "parent"} /\ Needs("package", f) = {"name"}
  OBVIOUS
<1>6. \A kind \in {"notify", "client", "social"} : Needs(kind, f) = {"code"}
  OBVIOUS
<1>7. \A kind \in {"mail", "sms"} : Needs(kind, f) = {"code", "parent"}
  OBVIOUS
<1>8. Needs("config", f) = {"key"}
  OBVIOUS
<1>9. \A kind \in {"notice", "account", "channel", "source", "contact"} : Needs(kind, f) = {}
  OBVIOUS
<1>10. /\ Needs("category", f) \subseteq {"nameIn", "parent"}
       /\ f.up = 0 => Needs("category", f) \subseteq {"nameIn"}
  OBVIOUS
<1>. QED  BY <1>1, <1>2, <1>3, <1>4, <1>5, <1>6, <1>7, <1>8, <1>9, <1>10

\* Checks that are made one after the other; none of them climbs.
Flat(c) == c \in Seq(Selects) /\ ~ Holds(c, "above")

LEMMA ChecksFact ==
  /\ Flat(<<>>) /\ \A d : ~ Holds(<<>>, d)
  /\ \A a \in Selects \ {"above"} : Flat(<<a>>) /\ Holds(<<a>>, a)
  /\ \A a, b \in Selects \ {"above"} : Flat(<<a, b>>) /\ Holds(<<a, b>>, a) /\ Holds(<<a, b>>, b)
  /\ \A a, b, c \in Selects \ {"above"} :
       Flat(<<a, b, c>>) /\ Holds(<<a, b, c>>, a) /\ Holds(<<a, b, c>>, b) /\ Holds(<<a, b, c>>, c)
<1>1. Flat(<<>>) /\ \A d : ~ Holds(<<>>, d)
  BY DEF Flat, Holds
<1>2. ASSUME NEW a \in Selects \ {"above"} PROVE Flat(<<a>>) /\ Holds(<<a>>, a)
  BY DEF Flat, Holds
<1>3. ASSUME NEW a \in Selects \ {"above"}, NEW b \in Selects \ {"above"}
      PROVE  Flat(<<a, b>>) /\ Holds(<<a, b>>, a) /\ Holds(<<a, b>>, b)
  <2>1. DOMAIN <<a, b>> = {1, 2}
    OBVIOUS
  <2>. QED  BY <2>1 DEF Flat, Holds
<1>4. ASSUME NEW a \in Selects \ {"above"}, NEW b \in Selects \ {"above"}, NEW c \in Selects \ {"above"}
      PROVE  Flat(<<a, b, c>>) /\ Holds(<<a, b, c>>, a) /\ Holds(<<a, b, c>>, b) /\ Holds(<<a, b, c>>, c)
  <2>1. DOMAIN <<a, b, c>> = {1, 2, 3}
    OBVIOUS
  <2>. QED  BY <2>1 DEF Flat, Holds
<1>. QED  BY <1>1, <1>2, <1>3, <1>4

LEMMA FlatJoin ==
  ASSUME NEW a, NEW b, Flat(a), Flat(b)
  PROVE  Flat(a \o b) /\ \A d : Holds(a \o b, d) <=> Holds(a, d) \/ Holds(b, d)
<1>1. a \in Seq(Selects) /\ b \in Seq(Selects)
  BY DEF Flat
<1>2. a \o b \in Seq(Selects) /\ \A d : Holds(a \o b, d) <=> Holds(a, d) \/ Holds(b, d)
  BY <1>1, JoinFact
<1>. QED  BY <1>2 DEF Flat

LEMMA FlatSave ==
  ASSUME TablesOK, NEW p \in Proc, NEW kind \in Tabs \ {"category"}, NEW f \in TableForm, NEW c, Flat(c),
         Submit(p, kind, f, Saving(f, c)),
         \A d \in Needs(kind, f) : Holds(c, d),
         kind = "dictType" => f.code \in Code
  PROVE  TablesOK'
<1>1. c \in Seq(Selects) /\ ~ Holds(c, "above") /\ kind \in Tabs /\ kind # "category"
  BY DEF Flat
<1>. QED  BY <1>1, SaveStep


LEMMA RoleStep ==
  ASSUME TablesOK, NEW p \in Proc, RoleRequest(p)
  PROVE  TablesOK'
<1>1. "role" \in Tabs /\ "role" # "category" /\ "role" \notin Parents
  BY DEF Tabs, Parents
<1>2. ASSUME NEW f \in RoleForm, Submit(p, "role", f, SaveRole(f)) PROVE TablesOK'
  <2> DEFINE a == IF IsNew(f) THEN <<>> ELSE <<"changeable">>
             b == <<"name", "code">>
             c == a \o b
  <2>1. Flat(a) /\ Flat(b) /\ Holds(b, "name") /\ Holds(b, "code")
    BY ChecksFact DEF Selects
  <2>2. f \in TableForm
    BY FormsFact DEF RoleForm
  <2>3. Submit(p, "role", f, Saving(f, c))
    BY <1>2 DEF SaveRole
  <2>. HIDE DEF a, b
  <2>4. Flat(c) /\ Holds(c, "name") /\ Holds(c, "code")
    BY <2>1, FlatJoin
  <2>. HIDE DEF c
  <2>. QED  BY <1>1, <2>2, <2>3, <2>4, NeedsFact, FlatSave
<1>3. ASSUME NEW i \in Id, Remove(p, "role", <<i>>, DeleteRole(i)) PROVE TablesOK'
  <2>1. <<i>> \in Seq(Nat)
    BY IdNat
  <2>2. Plain(DeleteRole(i))
    BY PlainOne DEF DeleteRole
  <2>. QED  BY <1>1, <1>3, <2>1, <2>2, PlainStep
<1>4. ASSUME NEW ids \in SortedLists, Remove(p, "role", ids, DeleteRoleList(ids)) PROVE TablesOK'
  <2>1. ids \in Lists /\ ids \in Seq(Nat)
    BY ListFact DEF SortedLists
  <2>2. Plain(DeleteRoleList(ids))
    BY <2>1, PlainList DEF DeleteRoleList
  <2>. QED  BY <1>1, <1>4, <2>1, <2>2, PlainStep
<1>. QED  BY <1>2, <1>3, <1>4 DEF RoleRequest

LEMMA PostStep ==
  ASSUME TablesOK, NEW p \in Proc, PostRequest(p)
  PROVE  TablesOK'
<1>1. "post" \in Tabs /\ "post" # "category" /\ "post" \notin Parents
  BY DEF Tabs, Parents
<1>2. ASSUME NEW f \in PostForm, Submit(p, "post", f, SavePost(f)) PROVE TablesOK'
  <2> DEFINE a == IF IsNew(f) THEN <<>> ELSE <<"exists">>
             b == <<"name", "code">>
             c == a \o b
  <2>1. Flat(a) /\ Flat(b) /\ Holds(b, "name") /\ Holds(b, "code")
    BY ChecksFact DEF Selects
  <2>2. f \in TableForm
    BY FormsFact DEF PostForm
  <2>3. Submit(p, "post", f, Saving(f, c))
    BY <1>2 DEF SavePost
  <2>. HIDE DEF a, b
  <2>4. Flat(c) /\ Holds(c, "name") /\ Holds(c, "code")
    BY <2>1, FlatJoin
  <2>. HIDE DEF c
  <2>. QED  BY <1>1, <2>2, <2>3, <2>4, NeedsFact, FlatSave
<1>3. ASSUME NEW i \in Id, Remove(p, "post", <<i>>, DeletePost(i)) PROVE TablesOK'
  <2>1. <<i>> \in Seq(Nat)
    BY IdNat
  <2>2. Plain(DeletePost(i))
    BY PlainOne DEF DeletePost
  <2>. QED  BY <1>1, <1>3, <2>1, <2>2, PlainStep
<1>4. ASSUME NEW ids \in SortedLists, Remove(p, "post", ids, DeletePostList(ids)) PROVE TablesOK'
  <2>1. ids \in Lists /\ ids \in Seq(Nat)
    BY ListFact DEF SortedLists
  <2>2. Plain(DeletePostList(ids))
    BY <2>1, PlainList DEF DeletePostList
  <2>. QED  BY <1>1, <1>4, <2>1, <2>2, PlainStep
<1>. QED  BY <1>2, <1>3, <1>4 DEF PostRequest

LEMMA TenantStep ==
  ASSUME TablesOK, NEW p \in Proc, TenantRequest(p)
  PROVE  TablesOK'
<1>1. "tenant" \in Tabs /\ "tenant" # "category" /\ "tenant" \notin Parents
  BY DEF Tabs, Parents
<1>2. ASSUME NEW f \in TenantForm, Submit(p, "tenant", f, SaveTenant(f)) PROVE TablesOK'
  <2> DEFINE a == IF IsNew(f) THEN <<>> ELSE <<"changeable">>
             b == <<"name", "code", "parent">>
             c == a \o b
  <2>1. Flat(a) /\ Flat(b) /\ Holds(b, "name") /\ Holds(b, "code") /\ Holds(b, "parent")
    BY ChecksFact DEF Selects
  <2>2. f \in TableForm
    BY FormsFact DEF TenantForm
  <2>3. Submit(p, "tenant", f, Saving(f, c))
    BY <1>2 DEF SaveTenant
  <2>. HIDE DEF a, b
  <2>4. Flat(c) /\ Holds(c, "name") /\ Holds(c, "code") /\ Holds(c, "parent")
    BY <2>1, FlatJoin
  <2>. HIDE DEF c
  <2>. QED  BY <1>1, <2>2, <2>3, <2>4, NeedsFact, FlatSave
<1>3. ASSUME NEW i \in Id, Remove(p, "tenant", <<i>>, DeleteTenant(i)) PROVE TablesOK'
  <2>1. <<i>> \in Seq(Nat)
    BY IdNat
  <2>2. Plain(DeleteTenant(i))
    BY PlainOne DEF DeleteTenant
  <2>. QED  BY <1>1, <1>3, <2>1, <2>2, PlainStep
<1>4. ASSUME NEW ids \in Lists, Remove(p, "tenant", ids, DeleteTenantList(ids)) PROVE TablesOK'
  <2>1. ids \in Lists /\ ids \in Seq(Nat)
    BY ListFact
  <2>2. Plain(DeleteTenantList(ids))
    BY <2>1, PlainList DEF DeleteTenantList
  <2>. QED  BY <1>1, <1>4, <2>1, <2>2, PlainStep
<1>. QED  BY <1>2, <1>3, <1>4 DEF TenantRequest

LEMMA NoticeStep ==
  ASSUME TablesOK, NEW p \in Proc, NoticeRequest(p)
  PROVE  TablesOK'
<1>1. "notice" \in Tabs /\ "notice" # "category" /\ "notice" \notin Parents
  BY DEF Tabs, Parents
<1>2. ASSUME NEW f \in NoticeForm, Submit(p, "notice", f, SaveNotice(f)) PROVE TablesOK'
  <2> DEFINE c == IF IsNew(f) THEN <<>> ELSE <<"exists">>
  <2>1. Flat(c)
    BY ChecksFact DEF Selects
  <2>2. f \in TableForm
    BY FormsFact DEF NoticeForm
  <2>3. Submit(p, "notice", f, Saving(f, c))
    BY <1>2 DEF SaveNotice
  <2>. HIDE DEF c
  <2>. QED  BY <1>1, <2>1, <2>2, <2>3, NeedsFact, FlatSave
<1>3. ASSUME NEW i \in Id, Remove(p, "notice", <<i>>, DeleteNotices(<<i>>)) PROVE TablesOK'
  <2>1. <<i>> \in Seq(Nat)
    BY IdNat
  <2>2. Plain(DeleteNotices(<<i>>))
    BY PlainOne DEF DeleteNotices
  <2>. QED  BY <1>1, <1>3, <2>1, <2>2, PlainStep
<1>4. ASSUME NEW ids \in Lists, Remove(p, "notice", ids, DeleteNotices(ids)) PROVE TablesOK'
  <2>1. ids \in Lists /\ ids \in Seq(Nat)
    BY ListFact
  <2>2. Plain(DeleteNotices(ids))
    BY <2>1, PlainList DEF DeleteNotices
  <2>. QED  BY <1>1, <1>4, <2>1, <2>2, PlainStep
<1>. QED  BY <1>2, <1>3, <1>4 DEF NoticeRequest

LEMMA NotifyTableStep ==
  ASSUME TablesOK, NEW p \in Proc, NotifyRequest(p)
  PROVE  TablesOK'
<1>1. "notify" \in Tabs /\ "notify" # "category" /\ "notify" \notin Parents
  BY DEF Tabs, Parents
<1>2. ASSUME NEW f \in Forms({None}, Code, {0}), Submit(p, "notify", f, SaveNotify(f)) PROVE TablesOK'
  <2> DEFINE a == <<"code">>
             b == IF IsNew(f) THEN <<>> ELSE <<"exists">>
             c == a \o b
  <2>1. Flat(a) /\ Flat(b) /\ Holds(a, "code")
    BY ChecksFact DEF Selects
  <2>2. f \in TableForm
    BY FormsFact
  <2>3. Submit(p, "notify", f, Saving(f, c))
    BY <1>2 DEF SaveNotify
  <2>. HIDE DEF a, b
  <2>4. Flat(c) /\ Holds(c, "code")
    BY <2>1, FlatJoin
  <2>. HIDE DEF c
  <2>. QED  BY <1>1, <2>2, <2>3, <2>4, NeedsFact, FlatSave
<1>3. ASSUME NEW i \in Id, Remove(p, "notify", <<i>>, DeleteTemplate(i)) PROVE TablesOK'
  <2>1. <<i>> \in Seq(Nat)
    BY IdNat
  <2>2. Plain(DeleteTemplate(i))
    BY PlainOne DEF DeleteTemplate
  <2>. QED  BY <1>1, <1>3, <2>1, <2>2, PlainStep
<1>4. ASSUME NEW ids \in SortedLists, Remove(p, "notify", ids, DeleteTemplates(ids)) PROVE TablesOK'
  <2>1. ids \in Lists /\ ids \in Seq(Nat)
    BY ListFact DEF SortedLists
  <2>2. Plain(DeleteTemplates(ids))
    BY <2>1, PlainList DEF DeleteTemplates
  <2>. QED  BY <1>1, <1>4, <2>1, <2>2, PlainStep
<1>. QED  BY <1>2, <1>3, <1>4 DEF NotifyRequest

LEMMA MailStep ==
  ASSUME TablesOK, NEW p \in Proc, MailRequest(p)
  PROVE  TablesOK'
<1>1. "mail" \in Tabs /\ "mail" # "category" /\ "mail" \notin Parents
  BY DEF Tabs, Parents
<1>2. ASSUME NEW f \in TemplateForm, Submit(p, "mail", f, SaveMail(f)) PROVE TablesOK'
  <2> DEFINE a == <<"parent", "code">>
             b == IF IsNew(f) THEN <<>> ELSE <<"exists">>
             c == a \o b
  <2>1. Flat(a) /\ Flat(b) /\ Holds(a, "code") /\ Holds(a, "parent")
    BY ChecksFact DEF Selects
  <2>2. f \in TableForm
    BY FormsFact, IdNat DEF TemplateForm
  <2>3. Submit(p, "mail", f, Saving(f, c))
    BY <1>2 DEF SaveMail
  <2>. HIDE DEF a, b
  <2>4. Flat(c) /\ Holds(c, "code") /\ Holds(c, "parent")
    BY <2>1, FlatJoin
  <2>. HIDE DEF c
  <2>. QED  BY <1>1, <2>2, <2>3, <2>4, NeedsFact, FlatSave
<1>3. ASSUME NEW i \in Id, Remove(p, "mail", <<i>>, DeleteTemplate(i)) PROVE TablesOK'
  <2>1. <<i>> \in Seq(Nat)
    BY IdNat
  <2>2. Plain(DeleteTemplate(i))
    BY PlainOne DEF DeleteTemplate
  <2>. QED  BY <1>1, <1>3, <2>1, <2>2, PlainStep
<1>4. ASSUME NEW ids \in SortedLists, Remove(p, "mail", ids, DeleteTemplates(ids)) PROVE TablesOK'
  <2>1. ids \in Lists /\ ids \in Seq(Nat)
    BY ListFact DEF SortedLists
  <2>2. Plain(DeleteTemplates(ids))
    BY <2>1, PlainList DEF DeleteTemplates
  <2>. QED  BY <1>1, <1>4, <2>1, <2>2, PlainStep
<1>. QED  BY <1>2, <1>3, <1>4 DEF MailRequest

LEMMA SmsStep ==
  ASSUME TablesOK, NEW p \in Proc, SmsRequest(p)
  PROVE  TablesOK'
<1>1. "sms" \in Tabs /\ "sms" # "category" /\ "sms" \notin Parents
  BY DEF Tabs, Parents
<1>2. ASSUME NEW f \in TemplateForm, Submit(p, "sms", f, SaveSms(f)) PROVE TablesOK'
  <2> DEFINE a == <<"parent", "code">>
             b == IF IsNew(f) THEN <<>> ELSE <<"exists">>
             c == a \o b
  <2>1. Flat(a) /\ Flat(b) /\ Holds(a, "code") /\ Holds(a, "parent")
    BY ChecksFact DEF Selects
  <2>2. f \in TableForm
    BY FormsFact, IdNat DEF TemplateForm
  <2>3. Submit(p, "sms", f, Saving(f, c))
    BY <1>2 DEF SaveSms
  <2>. HIDE DEF a, b
  <2>4. Flat(c) /\ Holds(c, "code") /\ Holds(c, "parent")
    BY <2>1, FlatJoin
  <2>. HIDE DEF c
  <2>. QED  BY <1>1, <2>2, <2>3, <2>4, NeedsFact, FlatSave
<1>3. ASSUME NEW i \in Id, Remove(p, "sms", <<i>>, DeleteTemplate(i)) PROVE TablesOK'
  <2>1. <<i>> \in Seq(Nat)
    BY IdNat
  <2>2. Plain(DeleteTemplate(i))
    BY PlainOne DEF DeleteTemplate
  <2>. QED  BY <1>1, <1>3, <2>1, <2>2, PlainStep
<1>4. ASSUME NEW ids \in SortedLists, Remove(p, "sms", ids, DeleteTemplates(ids)) PROVE TablesOK'
  <2>1. ids \in Lists /\ ids \in Seq(Nat)
    BY ListFact DEF SortedLists
  <2>2. Plain(DeleteTemplates(ids))
    BY <2>1, PlainList DEF DeleteTemplates
  <2>. QED  BY <1>1, <1>4, <2>1, <2>2, PlainStep
<1>. QED  BY <1>2, <1>3, <1>4 DEF SmsRequest

LEMMA ClientStep ==
  ASSUME TablesOK, NEW p \in Proc, ClientRequest(p)
  PROVE  TablesOK'
<1>1. "client" \in Tabs /\ "client" # "category" /\ "client" \notin Parents
  BY DEF Tabs, Parents
<1>2. ASSUME NEW f \in ClientForm, Submit(p, "client", f, SaveClient(f)) PROVE TablesOK'
  <2> DEFINE a == <<"code">>
             b == IF IsNew(f) THEN <<>> ELSE <<"exists">>
             c == a \o b
  <2>1. Flat(a) /\ Flat(b) /\ Holds(a, "code")
    BY ChecksFact DEF Selects
  <2>2. f \in TableForm
    BY FormsFact DEF ClientForm
  <2>3. Submit(p, "client", f, Saving(f, c))
    BY <1>2 DEF SaveClient
  <2>. HIDE DEF a, b
  <2>4. Flat(c) /\ Holds(c, "code")
    BY <2>1, FlatJoin
  <2>. HIDE DEF c
  <2>. QED  BY <1>1, <2>2, <2>3, <2>4, NeedsFact, FlatSave
<1>3. ASSUME NEW i \in Id, Remove(p, "client", <<i>>, DeleteClient(i)) PROVE TablesOK'
  <2>1. <<i>> \in Seq(Nat)
    BY IdNat
  <2>2. Plain(DeleteClient(i))
    BY PlainOne DEF DeleteClient
  <2>. QED  BY <1>1, <1>3, <2>1, <2>2, PlainStep
<1>4. ASSUME NEW ids \in SortedLists, Remove(p, "client", ids, DeleteClientList(ids)) PROVE TablesOK'
  <2>1. ids \in Lists /\ ids \in Seq(Nat)
    BY ListFact DEF SortedLists
  <2>2. Plain(DeleteClientList(ids))
    BY <2>1, PlainList DEF DeleteClientList
  <2>. QED  BY <1>1, <1>4, <2>1, <2>2, PlainStep
<1>. QED  BY <1>2, <1>3, <1>4 DEF ClientRequest

LEMMA SocialStep ==
  ASSUME TablesOK, NEW p \in Proc, SocialRequest(p)
  PROVE  TablesOK'
<1>1. "social" \in Tabs /\ "social" # "category" /\ "social" \notin Parents
  BY DEF Tabs, Parents
<1>2. ASSUME NEW f \in ClientForm, Submit(p, "social", f, SaveSocial(f)) PROVE TablesOK'
  <2> DEFINE a == <<"code">>
             b == IF IsNew(f) THEN <<>> ELSE <<"exists">>
             c == a \o b
  <2>1. Flat(a) /\ Flat(b) /\ Holds(a, "code")
    BY ChecksFact DEF Selects
  <2>2. f \in TableForm
    BY FormsFact DEF ClientForm
  <2>3. Submit(p, "social", f, Saving(f, c))
    BY <1>2 DEF SaveSocial
  <2>. HIDE DEF a, b
  <2>4. Flat(c) /\ Holds(c, "code")
    BY <2>1, FlatJoin
  <2>. HIDE DEF c
  <2>. QED  BY <1>1, <2>2, <2>3, <2>4, NeedsFact, FlatSave
<1>3. ASSUME NEW i \in Id, Remove(p, "social", <<i>>, DeleteSocial(i)) PROVE TablesOK'
  <2>1. <<i>> \in Seq(Nat)
    BY IdNat
  <2>2. Plain(DeleteSocial(i))
    BY PlainOne DEF DeleteSocial
  <2>. QED  BY <1>1, <1>3, <2>1, <2>2, PlainStep
<1>4. ASSUME NEW ids \in SortedLists, Remove(p, "social", ids, DeleteSocialList(ids)) PROVE TablesOK'
  <2>1. ids \in Lists /\ ids \in Seq(Nat)
    BY ListFact DEF SortedLists
  <2>2. Plain(DeleteSocialList(ids))
    BY <2>1, PlainList DEF DeleteSocialList
  <2>. QED  BY <1>1, <1>4, <2>1, <2>2, PlainStep
<1>. QED  BY <1>2, <1>3, <1>4 DEF SocialRequest

LEMMA ParameterStep ==
  ASSUME TablesOK, NEW p \in Proc, ParameterRequest(p)
  PROVE  TablesOK'
<1>1. "config" \in Tabs /\ "config" # "category" /\ "config" \notin Parents
  BY DEF Tabs, Parents
<1>2. ASSUME NEW f \in ParameterForm, Submit(p, "config", f, SaveParameter(f)) PROVE TablesOK'
  <2> DEFINE a == <<"key">>
             b == IF IsNew(f) THEN <<>> ELSE <<"exists">>
             c == a \o b
  <2>1. Flat(a) /\ Flat(b) /\ Holds(a, "key")
    BY ChecksFact DEF Selects
  <2>2. f \in TableForm
    BY FormsFact DEF ParameterForm
  <2>3. Submit(p, "config", f, Saving(f, c))
    BY <1>2 DEF SaveParameter
  <2>. HIDE DEF a, b
  <2>4. Flat(c) /\ Holds(c, "key")
    BY <2>1, FlatJoin
  <2>. HIDE DEF c
  <2>. QED  BY <1>1, <2>2, <2>3, <2>4, NeedsFact, FlatSave
<1>3. ASSUME NEW i \in Id, Remove(p, "config", <<i>>, DeleteParameter(i)) PROVE TablesOK'
  <2>1. <<i>> \in Seq(Nat)
    BY IdNat
  <2>2. Plain(DeleteParameter(i))
    BY PlainOne DEF DeleteParameter
  <2>. QED  BY <1>1, <1>3, <2>1, <2>2, PlainStep
<1>4. ASSUME NEW ids \in Lists, Remove(p, "config", ids, DeleteParameters(ids)) PROVE TablesOK'
  <2>1. ids \in Lists /\ ids \in Seq(Nat)
    BY ListFact
  <2>2. Plain(DeleteParameters(ids))
    BY <2>1, PlainList DEF DeleteParameters
  <2>. QED  BY <1>1, <1>4, <2>1, <2>2, PlainStep
<1>. QED  BY <1>2, <1>3, <1>4 DEF ParameterRequest

LEMMA SourceStep ==
  ASSUME TablesOK, NEW p \in Proc, SourceRequest(p)
  PROVE  TablesOK'
<1>1. "source" \in Tabs /\ "source" # "category" /\ "source" \notin Parents
  BY DEF Tabs, Parents
<1>2. ASSUME NEW f \in SourceForm, Submit(p, "source", f, SaveSource(f)) PROVE TablesOK'
  <2> DEFINE c == IF IsNew(f) THEN <<>> ELSE <<"exists">>
  <2>1. Flat(c)
    BY ChecksFact DEF Selects
  <2>2. f \in TableForm
    BY FormsFact DEF SourceForm
  <2>3. Submit(p, "source", f, Saving(f, c))
    BY <1>2 DEF SaveSource
  <2>. HIDE DEF c
  <2>. QED  BY <1>1, <2>1, <2>2, <2>3, NeedsFact, FlatSave
<1>3. ASSUME NEW i \in Id, Remove(p, "source", <<i>>, DeleteSource(i)) PROVE TablesOK'
  <2>1. <<i>> \in Seq(Nat)
    BY IdNat
  <2>2. Plain(DeleteSource(i))
    BY PlainOne DEF DeleteSource
  <2>. QED  BY <1>1, <1>3, <2>1, <2>2, PlainStep
<1>4. ASSUME NEW ids \in SortedLists, Remove(p, "source", ids, DeleteSourceList(ids)) PROVE TablesOK'
  <2>1. ids \in Lists /\ ids \in Seq(Nat)
    BY ListFact DEF SortedLists
  <2>2. Plain(DeleteSourceList(ids))
    BY <2>1, PlainList DEF DeleteSourceList
  <2>. QED  BY <1>1, <1>4, <2>1, <2>2, PlainStep
<1>. QED  BY <1>2, <1>3, <1>4 DEF SourceRequest

LEMMA ContactStep ==
  ASSUME TablesOK, NEW p \in Proc, ContactRequest(p)
  PROVE  TablesOK'
<1>1. "contact" \in Tabs /\ "contact" # "category" /\ "contact" \notin Parents
  BY DEF Tabs, Parents
<1>2. ASSUME NEW f \in SourceForm, Submit(p, "contact", f, SaveContact(f)) PROVE TablesOK'
  <2> DEFINE c == IF IsNew(f) THEN <<>> ELSE <<"exists">>
  <2>1. Flat(c)
    BY ChecksFact DEF Selects
  <2>2. f \in TableForm
    BY FormsFact DEF SourceForm
  <2>3. Submit(p, "contact", f, Saving(f, c))
    BY <1>2 DEF SaveContact
  <2>. HIDE DEF c
  <2>. QED  BY <1>1, <2>1, <2>2, <2>3, NeedsFact, FlatSave
<1>3. ASSUME NEW i \in Id, Remove(p, "contact", <<i>>, DeleteContacts(<<i>>)) PROVE TablesOK'
  <2>1. <<i>> \in Seq(Nat)
    BY IdNat
  <2>2. Plain(DeleteContacts(<<i>>))
    BY PlainOne DEF DeleteContacts
  <2>. QED  BY <1>1, <1>3, <2>1, <2>2, PlainStep
<1>4. ASSUME NEW ids \in SortedLists, Remove(p, "contact", ids, DeleteContacts(ids)) PROVE TablesOK'
  <2>1. ids \in Lists /\ ids \in Seq(Nat)
    BY ListFact DEF SortedLists
  <2>2. Plain(DeleteContacts(ids))
    BY <2>1, PlainList DEF DeleteContacts
  <2>. QED  BY <1>1, <1>4, <2>1, <2>2, PlainStep
<1>. QED  BY <1>2, <1>3, <1>4 DEF ContactRequest

LEMMA DictDataStep ==
  ASSUME TablesOK, NEW p \in Proc, DictDataRequest(p)
  PROVE  TablesOK'
<1>1. "dictData" \in Tabs /\ "dictData" # "category" /\ "dictData" \notin Parents
  BY DEF Tabs, Parents
<1>2. ASSUME NEW f \in DictDataForm, Submit(p, "dictData", f, SaveDictData(f)) PROVE TablesOK'
  <2> DEFINE a == <<"parent">>
             b == IF IsNew(f) THEN <<>> ELSE <<"exists">>
             d == <<"nameIn">>
             c == (a \o b) \o d
  <2>1. Flat(a) /\ Flat(b) /\ Flat(d) /\ Holds(a, "parent") /\ Holds(d, "nameIn")
    BY ChecksFact DEF Selects
  <2>2. f \in TableForm
    BY FormsFact DEF DictDataForm
  <2>3. Submit(p, "dictData", f, Saving(f, c))
    BY <1>2 DEF SaveDictData
  <2>. HIDE DEF a, b, d
  <2>4. Flat(a \o b) /\ Holds(a \o b, "parent")
    BY <2>1, FlatJoin
  <2>5. Flat(c) /\ Holds(c, "parent") /\ Holds(c, "nameIn")
    BY <2>1, <2>4, FlatJoin
  <2>. HIDE DEF c
  <2>. QED  BY <1>1, <2>2, <2>3, <2>5, NeedsFact, FlatSave
<1>3. ASSUME NEW i \in Id, Remove(p, "dictData", <<i>>, DeleteDictData(i)) PROVE TablesOK'
  <2>1. <<i>> \in Seq(Nat)
    BY IdNat
  <2>2. Plain(DeleteDictData(i))
    BY PlainOne DEF DeleteDictData
  <2>. QED  BY <1>1, <1>3, <2>1, <2>2, PlainStep
<1>4. ASSUME NEW ids \in SortedLists, Remove(p, "dictData", ids, DeleteDictDataList(ids)) PROVE TablesOK'
  <2>1. ids \in Lists /\ ids \in Seq(Nat)
    BY ListFact DEF SortedLists
  <2>2. Plain(DeleteDictDataList(ids))
    BY <2>1, PlainList DEF DeleteDictDataList
  <2>. QED  BY <1>1, <1>4, <2>1, <2>2, PlainStep
<1>. QED  BY <1>2, <1>3, <1>4 DEF DictDataRequest

LEMMA ParentList ==
  ASSUME NEW p \in Proc, NEW kind, NEW ids \in Lists, NEW t, Remove(p, kind, ids, t)
  PROVE  ids[1] \in 1 .. nextId /\ ids[2] \in 1 .. nextId
<1>1. DOMAIN ids = {1, 2} /\ ids[1] # 0 /\ ids[2] # 0
  BY ListFact, IdNat
<1>2. {ids[k] : k \in DOMAIN ids} \subseteq {0} \cup 1 .. nextId
  BY DEF Remove, Begin
<1>. QED  BY <1>1, <1>2

LEMMA ProgramFact ==
  LET S == [do : Dos, id : Nat] IN
  /\ \A a, b \in S : <<a, b>> \in Program
  /\ \A a, b, c \in S : <<a, b, c>> \in Program
  /\ \A a, b, c, d \in S : <<a, b, c, d>> \in Program
  /\ \A a, b, c, d, e, f \in S : <<a, b, c, d, e, f>> \in Program
BY DEF Program

LEMMA DropOneStep ==
  ASSUME TablesOK, NEW p \in Proc, NEW kind \in Tabs, NEW i \in Id,
         Remove(p, kind, <<i>>, Steps(i, <<"exists", "unused", "drop">>))
  PROVE  TablesOK'
<1> DEFINE t == <<Step("exists", i), Step("unused", i), Step("drop", i)>>
           ids == <<i>>
<1>1. t \in Program /\ ids \in Seq(Nat)
  <2>1. i \in Nat
    BY IdNat
  <2>2. t \in Program
    BY <2>1, DosFact, StepIn, ProgramFact
  <2>. QED  BY <2>1, <2>2
<1>2. Remove(p, kind, ids, t)
  BY StepsFact
<1>3. \A r : IsRequest(r) /\ r.kind = kind /\ r.ids = ids /\ r.todo = t => Removes(r)
  BY DropOne
<1>. HIDE DEF t, ids
<1>. QED  BY <1>1, <1>2, <1>3, RemoveStep

LEMMA MenuStep ==
  ASSUME TablesOK, NEW p \in Proc, MenuRequest(p)
  PROVE  TablesOK'
<1>1. "menu" \in Tabs /\ "menu" # "category"
  BY DEF Tabs
<1>2. ASSUME NEW f \in MenuForm, Submit(p, "menu", f, SaveMenu(f)) PROVE TablesOK'
  <2> DEFINE a == IF f.up = 0 THEN <<>> ELSE <<"parent">>
             b == <<"nameIn", "code">>
             d == IF IsNew(f) THEN <<>> ELSE <<"exists">>
             c == (a \o b) \o d
  <2>1. Flat(a) /\ Flat(b) /\ Flat(d) /\ Holds(b, "nameIn") /\ Holds(b, "code")
        /\ (f.up # 0 => Holds(a, "parent"))
    BY ChecksFact DEF Selects
  <2>2. f \in TableForm
    BY FormsFact DEF MenuForm
  <2>3. Submit(p, "menu", f, Saving(f, c))
    <3>1. SaveMenu(f) # <<>>
      BY <1>2 DEF Submit, Begin
    <3>. QED  BY <1>2, <3>1 DEF SaveMenu
  <2>. HIDE DEF a, b, d
  <2>4. Flat(a \o b) /\ Holds(a \o b, "nameIn") /\ Holds(a \o b, "code")
        /\ (f.up # 0 => Holds(a \o b, "parent"))
    BY <2>1, FlatJoin
  <2>5. Flat(c) /\ Holds(c, "nameIn") /\ Holds(c, "code") /\ (f.up # 0 => Holds(c, "parent"))
    BY <2>1, <2>4, FlatJoin
  <2>6. \A x \in Needs("menu", f) : Holds(c, x)
    <3>. HIDE DEF c
    <3>. QED  BY <2>5, NeedsFact
  <2>. HIDE DEF c
  <2>. QED  BY <1>1, <2>2, <2>3, <2>5, <2>6, FlatSave
<1>3. ASSUME NEW i \in Id, Remove(p, "menu", <<i>>, DeleteMenu(i)) PROVE TablesOK'
  <2> DEFINE t == <<Step("exists", i), Step("unused", i), Step("unusedAll", i), Step("drop", i)>>
             ids == <<i>>
  <2>1. t \in Program /\ ids \in Seq(Nat)
    <3>1. i \in Nat
      BY IdNat
    <3>2. t \in Program
      BY <3>1, DosFact, StepIn, ProgramFact
    <3>. QED  BY <3>1, <3>2
  <2>2. Remove(p, "menu", ids, t)
    BY <1>3, StepsFact DEF DeleteMenu
  <2>3. \A r : IsRequest(r) /\ r.kind = "menu" /\ r.ids = ids /\ r.todo = t => Removes(r)
    BY DropMenu
  <2>. HIDE DEF t, ids
  <2>. QED  BY <2>1, <2>2, <2>3, RemoveStep
<1>4. ASSUME NEW ids \in SortedLists, Remove(p, "menu", ids, DeleteMenuList(ids)) PROVE TablesOK'
  <2> DEFINE t == <<Step("unusedAll", 0), Step("dropAll", 0)>>
  <2>1. ids \in Seq(Nat) /\ Len(ids) \in Nat
    BY ListFact DEF SortedLists
  <2>2. t \in Program
    BY DosFact, StepIn, ProgramFact
  <2>3. DeleteMenuList(ids) = t
    BY <2>1, AllOfNone, PairEnd DEF DeleteMenuList
  <2>4. Remove(p, "menu", ids, t)
    BY <1>4, <2>3
  <2>5. \A r : IsRequest(r) /\ r.kind = "menu" /\ r.ids = ids /\ r.todo = t => Removes(r)
    BY DropMenus
  <2>. HIDE DEF t
  <2>. QED  BY <2>1, <2>2, <2>4, <2>5, RemoveStep
<1>. QED  BY <1>2, <1>3, <1>4 DEF MenuRequest

LEMMA DictTypeStep ==
  ASSUME TablesOK, NEW p \in Proc, DictTypeRequest(p)
  PROVE  TablesOK'
<1>1. "dictType" \in Tabs /\ "dictType" # "category"
  BY DEF Tabs
<1>2. ASSUME NEW f \in DictTypeForm, Submit(p, "dictType", f, SaveDictType(f)) PROVE TablesOK'
  <2> DEFINE a == IF IsNew(f) THEN <<>> ELSE <<"exists">>
             b == <<"name", "code">>
             c == a \o b
  <2>1. Flat(a) /\ Flat(b) /\ Holds(b, "name") /\ Holds(b, "code")
        /\ (~ IsNew(f) => Holds(a, "exists"))
    BY ChecksFact DEF Selects
  <2>2. f \in TableForm /\ f.code \in Code
    BY FormsFact DEF DictTypeForm
  <2>3. Submit(p, "dictType", f, Saving(f, c))
    BY <1>2 DEF SaveDictType
  <2>. HIDE DEF a, b
  <2>4. Flat(c) /\ Holds(c, "name") /\ Holds(c, "code") /\ (~ IsNew(f) => Holds(c, "exists"))
    BY <2>1, FlatJoin
  <2>5. \A x \in Needs("dictType", f) : Holds(c, x)
    <3>. HIDE DEF c
    <3>. QED  BY <2>4, NeedsFact
  <2>. HIDE DEF c
  <2>. QED  BY <1>1, <2>2, <2>3, <2>4, <2>5, FlatSave
<1>3. ASSUME NEW i \in Id, Remove(p, "dictType", <<i>>, DeleteDictType(i)) PROVE TablesOK'
  BY <1>1, <1>3, DropOneStep DEF DeleteDictType
<1>4. ASSUME NEW ids \in SortedLists, Remove(p, "dictType", ids, DeleteDictTypeList(ids)) PROVE TablesOK'
  <2> DEFINE a == ids[1]
             b == ids[2]
             t == <<Step("lock", a), Step("lock", b), Step("unusedAll", 0), Step("dropAll", 0)>>
  <2>1. ids \in Lists /\ ids \in Seq(Nat) /\ Len(ids) \in Nat /\ ids = <<a, b>> /\ a \in Nat /\ b \in Nat
    BY ListFact, IdNat DEF SortedLists
  <2>2. a \in 1 .. nextId /\ b \in 1 .. nextId
    BY <1>4, <2>1, ParentList
  <2>. HIDE DEF a, b
  <2>3. t \in Program
    BY <2>1, DosFact, StepIn, ProgramFact
  <2>4. DeleteDictTypeList(ids) = t
    <3>1. ForEach(ids, <<"lock">>) = <<Step("lock", a), Step("lock", b)>>
      BY <2>1, EachOne
    <3>2. ForEach(ids, <<"lock">>) \o <<Step("unusedAll", 0)>> =
            <<Step("lock", a), Step("lock", b), Step("unusedAll", 0)>>
      BY <3>1, TripleEnd
    <3>. QED  BY <2>1, <3>2, AllOfNone, QuadEnd DEF DeleteDictTypeList
  <2>5. Remove(p, "dictType", ids, t)
    BY <1>4, <2>4
  <2>6. \A r : IsRequest(r) /\ r.kind = "dictType" /\ r.ids = ids /\ r.todo = t => Removes(r)
    BY <2>1, <2>2, DropTypes
  <2>. HIDE DEF t
  <2>. QED  BY <2>1, <2>3, <2>5, <2>6, RemoveStep
<1>. QED  BY <1>2, <1>3, <1>4 DEF DictTypeRequest

LEMMA PackageStep ==
  ASSUME TablesOK, NEW p \in Proc, PackageRequest(p)
  PROVE  TablesOK'
<1>1. "package" \in Tabs /\ "package" # "category"
  BY DEF Tabs
<1>2. ASSUME NEW f \in PackageForm, Submit(p, "package", f, SavePackage(f)) PROVE TablesOK'
  <2> DEFINE a == IF IsNew(f) THEN <<>> ELSE <<"exists">>
             b == <<"name">>
             c == a \o b
  <2>1. Flat(a) /\ Flat(b) /\ Holds(b, "name")
    BY ChecksFact DEF Selects
  <2>2. f \in TableForm
    BY FormsFact DEF PackageForm
  <2>3. Submit(p, "package", f, Saving(f, c))
    BY <1>2 DEF SavePackage
  <2>. HIDE DEF a, b
  <2>4. Flat(c) /\ Holds(c, "name")
    BY <2>1, FlatJoin
  <2>. HIDE DEF c
  <2>. QED  BY <1>1, <2>2, <2>3, <2>4, NeedsFact, FlatSave
<1>3. ASSUME NEW i \in Id, Remove(p, "package", <<i>>, DeletePackage(i)) PROVE TablesOK'
  BY <1>1, <1>3, DropOneStep DEF DeletePackage
<1>4. ASSUME NEW ids \in Lists, Remove(p, "package", ids, DeletePackageList(ids)) PROVE TablesOK'
  <2> DEFINE a == ids[1]
             b == ids[2]
             t == <<Step("exists", a), Step("unused", a), Step("drop", a),
                    Step("exists", b), Step("unused", b), Step("drop", b)>>
  <2>1. ids \in Seq(Nat) /\ ids = <<a, b>> /\ a \in Nat /\ b \in Nat
    BY ListFact, IdNat
  <2>. HIDE DEF a, b
  <2>2. t \in Program
    BY <2>1, DosFact, StepIn, ProgramFact
  <2>3. DeletePackageList(ids) = t
    BY <2>1, EachThree DEF DeletePackageList
  <2>4. Remove(p, "package", ids, t)
    BY <1>4, <2>3
  <2>5. \A r : IsRequest(r) /\ r.kind = "package" /\ r.ids = ids /\ r.todo = t => Removes(r)
    BY DropPackages
  <2>. HIDE DEF t
  <2>. QED  BY <2>1, <2>2, <2>4, <2>5, RemoveStep
<1>. QED  BY <1>2, <1>3, <1>4 DEF PackageRequest

LEMMA UsedStep ==
  ASSUME TablesOK, NEW p \in Proc, NEW kind \in {"account", "channel"}, NEW ids \in SortedLists,
         Remove(p, kind, ids, AllOf(ids, <<"unused">>))
  PROVE  TablesOK'
<1> DEFINE a == ids[1]
           b == ids[2]
           t == <<Step("unused", a), Step("unused", b), Step("dropAll", 0)>>
<1>1. ids \in Seq(Nat) /\ ids = <<a, b>> /\ a \in Nat /\ b \in Nat
  BY ListFact, IdNat DEF SortedLists
<1>. HIDE DEF a, b
<1>2. t \in Program
  BY <1>1, DosFact, StepIn, ProgramFact
<1>3. AllOf(ids, <<"unused">>) = t
  BY <1>1, EachOne, TripleEnd DEF AllOf
<1>4. Remove(p, kind, ids, t)
  BY <1>3
<1>5. \A r : IsRequest(r) /\ r.kind = kind /\ r.ids = ids /\ r.todo = t => Removes(r)
  BY <1>1, DropUsers
<1>. HIDE DEF t
<1>. QED  BY <1>1, <1>2, <1>4, <1>5, RemoveStep

LEMMA AccountStep ==
  ASSUME TablesOK, NEW p \in Proc, AccountRequest(p)
  PROVE  TablesOK'
<1>1. "account" \in Tabs /\ "account" # "category"
  BY DEF Tabs
<1>2. ASSUME NEW f \in AccountForm, Submit(p, "account", f, SaveAccount(f)) PROVE TablesOK'
  <2>1. Flat(<<>>)
    BY ChecksFact
  <2>2. f \in TableForm
    BY FormsFact DEF AccountForm
  <2>. QED  BY <1>1, <1>2, <2>1, <2>2, NeedsFact, FlatSave DEF SaveAccount
<1>3. ASSUME NEW i \in Id, Remove(p, "account", <<i>>, DeleteAccount(i)) PROVE TablesOK'
  BY <1>1, <1>3, DropOneStep DEF DeleteAccount
<1>4. ASSUME NEW ids \in SortedLists, Remove(p, "account", ids, DeleteAccountList(ids)) PROVE TablesOK'
  BY <1>4, UsedStep DEF DeleteAccountList
<1>. QED  BY <1>2, <1>3, <1>4 DEF AccountRequest

LEMMA ChannelStep ==
  ASSUME TablesOK, NEW p \in Proc, ChannelRequest(p)
  PROVE  TablesOK'
<1>1. "channel" \in Tabs /\ "channel" # "category"
  BY DEF Tabs
<1>2. ASSUME NEW f \in AccountForm, Submit(p, "channel", f, SaveChannel(f)) PROVE TablesOK'
  <2>1. Flat(<<>>)
    BY ChecksFact
  <2>2. f \in TableForm
    BY FormsFact DEF AccountForm
  <2>. QED  BY <1>1, <1>2, <2>1, <2>2, NeedsFact, FlatSave DEF SaveChannel
<1>3. ASSUME NEW i \in Id, Remove(p, "channel", <<i>>, DeleteChannel(i)) PROVE TablesOK'
  BY <1>1, <1>3, DropOneStep DEF DeleteChannel
<1>4. ASSUME NEW ids \in SortedLists, Remove(p, "channel", ids, DeleteChannelList(ids)) PROVE TablesOK'
  BY <1>4, UsedStep DEF DeleteChannelList
<1>. QED  BY <1>2, <1>3, <1>4 DEF ChannelRequest

LEMMA CategoryStep ==
  ASSUME TablesOK, NEW p \in Proc, CategoryRequest(p)
  PROVE  TablesOK'
<1>1. "category" \in Tabs
  BY DEF Tabs
<1>2. ASSUME NEW f \in CategoryForm, Submit(p, "category", f, SaveCategory(f)) PROVE TablesOK'
  <2> DEFINE a == IF IsNew(f) THEN <<>> ELSE <<"exists">>
             b == IF f.up = 0 THEN <<>> ELSE IF IsNew(f) THEN <<"parent">> ELSE <<"parent", "above">>
             d == <<"nameIn">>
             c == (a \o b) \o d
  <2>1. /\ a \in Seq(Selects) /\ b \in Seq(Selects) /\ d \in Seq(Selects) /\ Holds(d, "nameIn")
        /\ f.up # 0 => Holds(b, "parent")
        /\ ~ IsNew(f) /\ f.up # 0 => Before(b, "parent", "above")
    <3>1. /\ a \in Seq(Selects) /\ b \in Seq(Selects) /\ d \in Seq(Selects)
      <4>1. /\ <<>> \in Seq(Selects) /\ <<"exists">> \in Seq(Selects) /\ <<"parent">> \in Seq(Selects)
            /\ <<"nameIn">> \in Seq(Selects)
        BY DEF Selects
      <4>2. <<"parent", "above">> \in Seq(Selects)
        BY DEF Selects
      <4>. QED  BY <4>1, <4>2
    <3>2. Holds(d, "nameIn") /\ Holds(<<"parent">>, "parent") /\ Holds(<<"parent", "above">>, "parent")
      <4>1. DOMAIN <<"parent", "above">> = {1, 2}
        OBVIOUS
      <4>. QED  BY <4>1 DEF Holds
    <3>3. Before(<<"parent", "above">>, "parent", "above")
      <4>1. DOMAIN <<"parent", "above">> = {1, 2} /\ 1 < 2
        OBVIOUS
      <4>. QED  BY <4>1 DEF Before
    <3>. QED  BY <3>1, <3>2, <3>3
  <2>2. f \in TableForm
    <3>1. 1 .. MaxId - 1 \subseteq Nat
      BY CrudAssumption
    <3>2. f \in Forms({None}, {None}, {0}) \/ f \in Forms(Name, {None}, 1 .. MaxId - 1)
      BY DEF CategoryForm
    <3>3. CASE f \in Forms({None}, {None}, {0})
      BY <3>3, FormsFact
    <3>4. CASE f \in Forms(Name, {None}, 1 .. MaxId - 1)
      <4> DEFINE ups == 1 .. MaxId - 1
      <4>1. ups \in SUBSET (Nat \cup Code) /\ f \in Forms(Name, {None}, ups)
        BY <3>1, <3>4
      <4>. HIDE DEF ups
      <4>. QED  BY <4>1, FormsFact
    <3>. QED  BY <3>2, <3>3, <3>4
  <2>3. Submit(p, "category", f, Saving(f, c)) /\ ~ (f.id # 0 /\ f.up = f.id)
    <3>1. SaveCategory(f) # <<>>
      BY <1>2 DEF Submit, Begin
    <3>. QED  BY <1>2, <3>1 DEF SaveCategory
  <2>. HIDE DEF a, b, d
  <2> DEFINE e == a \o b
  <2>4. /\ e \in Seq(Selects)
        /\ f.up # 0 => Holds(e, "parent")
        /\ ~ IsNew(f) /\ f.up # 0 => Before(e, "parent", "above")
    BY <2>1, JoinFact
  <2>. HIDE DEF e
  <2>5. /\ c \in Seq(Selects) /\ Holds(c, "nameIn")
        /\ f.up # 0 => Holds(c, "parent")
        /\ ~ IsNew(f) /\ f.up # 0 => Before(c, "parent", "above")
    <3>1. c = e \o d
      BY DEF e
    <3>. HIDE DEF c
    <3>. QED  BY <2>1, <2>4, <3>1, JoinFact
  <2>6. \A x \in Needs("category", f) : Holds(c, x)
    <3>. HIDE DEF c
    <3>. QED  BY <2>5, NeedsFact
  <2>. HIDE DEF c
  <2>. QED  BY <1>1, <2>2, <2>3, <2>5, <2>6, SaveStep DEF IsNew
<1>3. ASSUME NEW i \in Id, Remove(p, "category", <<i>>, DeleteCategory(i)) PROVE TablesOK'
  BY <1>1, <1>3, DropOneStep DEF DeleteCategory
<1>. QED  BY <1>2, <1>3 DEF CategoryRequest

-----------------------------------------------------------------------------
(* The invariant. *)

LEMMA TablesInitOK ==
  ASSUME TablesInit
  PROVE  TablesOK
<1>1. PICK N \in Nat : Id = 1 .. N /\ Cardinality(Id) = N
  BY IdFact
<1>2. N >= 1
  <2>1. Id = 1 .. MaxId - 1 \/ Id = 1 .. MaxId
    BY DEF Id
  <2>2. 1 \in Id
    BY <2>1, CrudAssumption
  <2>. QED  BY <1>1, <2>2
<1>3. Dead \in TableRow /\ Dead.kind = None /\ ~ Dead.builtin
  BY DEF Dead, TableRow
<1>4. ASSUME NEW kind \in {"role", "tenant", "config"}, NEW n \in Name, NEW c \in Code
      PROVE  Seed(kind, n, c) \in TableRow /\ Seed(kind, n, c).kind = kind
             /\ Seed(kind, n, c).builtin
  <2>1. kind \in Tabs
    BY DEF Tabs
  <2>2. Seed(kind, n, c).builtin
    BY DEF Seed
  <2> DEFINE m == IF kind = "config" THEN None ELSE n
  <2>3. m \in Name \cup {None} /\ c \in Code \cup {None} /\ kind \in Tabs \cup {None}
    BY <2>1
  <2>4. Seed(kind, n, c) = [kind |-> kind, name |-> m, code |-> c, up |-> 0, builtin |-> TRUE]
    BY Zenon DEF Seed
  <2>. HIDE DEF m
  <2>5. [kind |-> kind, name |-> m, code |-> c, up |-> 0, builtin |-> TRUE] \in TableRow
    BY <2>3 DEF TableRow
  <2>6. Seed(kind, n, c).kind = kind
    BY <2>4
  <2>. QED  BY <2>2, <2>4, <2>5, <2>6
<1> DEFINE Grown(i) == /\ i = 1 /\ nextId = 1 /\ rows[i].kind \in {"role", "tenant", "config"}
                       /\ rows[i].builtin
<1>5. rows \in [Id -> TableRow] /\ nextId \in 0 .. N /\ \A i \in Id : rows[i] = Dead \/ Grown(i)
  <2>1. CASE nextId = 0 /\ rows = [i \in Id |-> Dead]
    BY <1>1, <1>3, <2>1
  <2>2. ASSUME nextId = 1,
               NEW kind \in topic \cap {"role", "tenant", "config"}, NEW n \in Name, NEW c \in Code,
               rows = [i \in Id |-> IF i = 1 THEN Seed(kind, n, c) ELSE Dead]
        PROVE  rows \in [Id -> TableRow] /\ \A i \in Id : rows[i] = Dead \/ Grown(i)
    <3> DEFINE x == Seed(kind, n, c)
    <3>1. x \in TableRow /\ x.kind \in {"role", "tenant", "config"} /\ x.builtin
      BY <1>4
    <3>2. rows = [i \in Id |-> IF i = 1 THEN x ELSE Dead]
      BY <2>2
    <3>. HIDE DEF x
    <3>3. \A i \in Id : rows[i] = (IF i = 1 THEN x ELSE Dead)
      BY <3>2
    <3>4. rows \in [Id -> TableRow]
      BY <1>3, <3>1, <3>2
    <3>. QED  BY <2>2, <3>1, <3>3, <3>4
  <2>3. nextId = 1 => nextId \in 0 .. N
    BY <1>2
  <2>. QED  BY <2>1, <2>2, <2>3 DEF TablesInit
<1>6. /\ crud = [p \in Proc |-> crud[p]] /\ \A p \in Proc : crud[p] = Resting
  BY DEF TablesInit
<1>7. None \notin {"role", "tenant", "config"}
  BY TabsFact DEF Tabs
<1>8. TableTypes
  <2>1. IsRequest(Resting)
    BY RestingGood DEF Good
  <2>2. \A i \in Id : i > nextId \/ rows[i].kind = None => rows[i] = Dead
    BY <1>5, <1>7
  <2>3. \A i \in Id : rows[i].builtin => rows[i].kind \in {"role", "tenant", "config"}
    BY <1>3, <1>5
  <2>. QED  BY <1>1, <1>5, <1>6, <2>1, <2>2, <2>3 DEF TableTypes
<1>9. AllApart(rows, Id, tainted)
  BY <1>3, <1>5, TabsFact DEF AllApart
<1>10. DOMAIN Parent \subseteq Tabs
  BY TabsFact
<1>11. AllLinked(rows, Id, tainted)
  BY <1>3, <1>5, <1>10, TabsFact DEF AllLinked
<1>12. Acyclic(rows, Id, tainted)
  <2>1. \A i \in Id : rows[i].kind # "category"
    BY <1>3, <1>5, TabsFact DEF Tabs
  <2>. QED  BY <2>1 DEF Acyclic
<1>. QED  BY <1>6, <1>8, <1>9, <1>11, <1>12, ApartFact, RefsFact DEF TablesOK

LEMMA TablesStepOK ==
  ASSUME TablesOK, [TablesNext]_crudVars
  PROVE  TablesOK'
<1>1. ASSUME NEW p \in Proc, TablesStep(p) PROVE TablesOK'
  <2>1. CASE CrudStep(p)
    BY <2>1, SelectStep, LockStep, RefuseStep, WriteStep DEF CrudStep
  <2>2. CASE RoleRequest(p) \/ MenuRequest(p) \/ PostRequest(p)
    BY <2>2, RoleStep, MenuStep, PostStep
  <2>3. CASE DictTypeRequest(p) \/ DictDataRequest(p)
    BY <2>3, DictTypeStep, DictDataStep
  <2>4. CASE TenantRequest(p) \/ PackageRequest(p) \/ NoticeRequest(p)
    BY <2>4, TenantStep, PackageStep, NoticeStep
  <2>5. CASE NotifyRequest(p) \/ MailRequest(p) \/ SmsRequest(p)
    BY <2>5, NotifyTableStep, MailStep, SmsStep
  <2>6. CASE AccountRequest(p) \/ ChannelRequest(p)
    BY <2>6, AccountStep, ChannelStep
  <2>7. CASE ClientRequest(p) \/ SocialRequest(p)
    BY <2>7, ClientStep, SocialStep
  <2>8. CASE ParameterRequest(p) \/ SourceRequest(p) \/ ContactRequest(p) \/ CategoryRequest(p)
    BY <2>8, ParameterStep, SourceStep, ContactStep, CategoryStep
  <2>. QED  BY <1>1, <2>1, <2>2, <2>3, <2>4, <2>5, <2>6, <2>7, <2>8 DEF TablesStep
<1>2. ASSUME UNCHANGED crudVars PROVE TablesOK'
  <2>1. /\ topic' = topic /\ rows' = rows /\ nextId' = nextId /\ crud' = crud /\ tainted' = tainted
    BY <1>2 DEF crudVars
  <2>2. \A q \in Proc : Good(crud[q])
    BY GoodFact
  <2>3. CASE \E p \in Proc : TRUE
    <3>1. PICK p \in Proc : TRUE
      BY <2>3
    <3> DEFINE n == crud[p]
    <3>2. crud' = [crud EXCEPT ![p] = n] /\ Good(n)
      BY <2>1, <2>2 DEF TablesOK, TableTypes
    <3>. HIDE DEF n
    <3>. QED  BY <2>1, <3>2, QuietStep
  <2>4. CASE ~ \E p \in Proc : TRUE
    <3>1. Id' = Id
      BY <2>1 DEF Id
    <3>2. TableTypes'
      <4>1. \A q \in Proc : FALSE
        BY <2>4
      <4>. QED  BY <2>1, <3>1, <4>1 DEF TablesOK, TableTypes
    <3>3. AllApart(rows', Id', tainted') /\ AllLinked(rows', Id', tainted') /\ Acyclic(rows', Id', tainted')
      <4>1. AllApart(rows, Id, tainted) /\ AllLinked(rows, Id, tainted) /\ Acyclic(rows, Id, tainted)
        BY ApartFact, RefsFact DEF TablesOK
      <4>. QED  BY <2>1, <3>1, <4>1
    <3>4. UniqueUnlessRaced' /\ RefsUnlessRaced'
      BY <3>2, <3>3, ApartNext, RefsNext
    <3>. QED  BY <2>4, <3>2, <3>4 DEF TablesOK
  <2>. QED  BY <2>3, <2>4
<1>. QED  BY <1>1, <1>2 DEF TablesNext

LEMMA TablesInvariant == TablesSpec => []TablesOK
<1>. QED  BY TablesInitOK, TablesStepOK, PTL DEF TablesSpec

\* Names and codes of every table stay unique, whatever requests overlap, except
\* for rows a request wrote while another had committed since its checks: the checks
\* of every program are enough for the keys of its table (access.go:93, dict.go:65,
\* tenant.go:87, message/service.go:76, identity/service.go:130, config/service.go:16).
THEOREM KeysStayUnique == TablesSpec => []UniqueUnlessRaced
<1>1. TablesOK => UniqueUnlessRaced
  BY DEF TablesOK
<1>. QED  BY <1>1, TablesInvariant, PTL

\* Whatever a row refers to is there, and no category is below itself, unless a
\* request was overtaken between its checks and its write: the checks before a
\* deletion cover every table that refers to the row, renaming a type of a dictionary
\* takes its data along, and climbing to the root before a category is moved leaves no
\* cycle (dict.go:65,127, mysql_dict.go:58,83, demo02/service.go:66).
THEOREM ReferencesStay == TablesSpec => []RefsUnlessRaced
<1>1. TablesOK => RefsUnlessRaced
  BY DEF TablesOK
<1>. QED  BY <1>1, TablesInvariant, PTL

-----------------------------------------------------------------------------
(* The definitions of the code generator *)

ColumnRow(x) == x = [table |-> x.table, name |-> x.name, ordinal |-> x.ordinal]

GenData ==
  /\ \A n \in Physical : catalog[n] \in Layouts
  /\ given \in Nat /\ Defined \subseteq 1 .. given /\ mixed \subseteq 1 .. given
  /\ DOMAIN asOf = Defined
  /\ \A c \in DOMAIN columns : ColumnRow(columns[c])

\* No definition one can rely on has the name.
NotTaken(name) == \A u \in Defined : tables[u] = name => u \in mixed

\* An import nobody has passed: the names checked are not taken.
ImportOK(q) ==
  /\ gen[q].names \in Seq(TableName) /\ gen[q].schemas \in Seq(Layouts)
  /\ Len(gen[q].schemas) <= Len(gen[q].names)
  /\ q \notin behind => \A k \in 1 .. Len(gen[q].schemas) : NotTaken(gen[q].names[k])

\* A synchronisation nobody has passed: the definition is still there.
SyncOK(q) ==
  /\ gen[q].id \in 1 .. given /\ gen[q].schemas[1] \in Layouts
  /\ q \notin behind => gen[q].id \in Defined

\* Its plan: the columns that stay are those of the fields that are not inserted.
PlanOK(q) ==
  /\ \A c \in DOMAIN columns : c \in gen[q].old => columns[c].table = gen[q].id
  /\ gen[q].fresh \subseteq DOMAIN gen[q].schemas[1]
  /\ q \notin behind /\ gen[q].id \notin mixed =>
       /\ \A c \in ColumnsOf(gen[q].id) \ gen[q].old :
            \E i \in DOMAIN gen[q].schemas[1] \ gen[q].fresh : columns[c].name = gen[q].schemas[1][i]
       /\ \A i \in DOMAIN gen[q].schemas[1] \ gen[q].fresh :
            \E c \in ColumnsOf(gen[q].id) \ gen[q].old : columns[c].name = gen[q].schemas[1][i]

GenRequestOK(q) ==
  /\ gen[q].do = "import" => ImportOK(q)
  /\ gen[q].do \in {"sync", "syncing"} => SyncOK(q)
  /\ gen[q].do = "syncing" => PlanOK(q)

OneDefinition ==
  \A t \in Defined \ mixed : \A u \in Defined \ {t} : tables[u] = tables[t] => u \in mixed

NoneBehind == \A c \in DOMAIN columns : columns[c].table \in Defined \cup mixed

AsRead(t) ==
  /\ Range(asOf[t]) = {columns[c].name : c \in ColumnsOf(t)}
  /\ \A c, d \in ColumnsOf(t) : c # d => columns[c].name # columns[d].name

\* The inductive invariant.
CodegenOK ==
  /\ GenData
  /\ \A q \in DOMAIN gen : GenRequestOK(q)
  /\ OneDefinition /\ NoneBehind
  /\ \A t \in Defined \ mixed : AsRead(t)

LEMMA WholeFact == CodegenOK => DefinitionsWhole
BY DEF CodegenOK, OneDefinition, NoneBehind, AsRead, DefinitionsWhole

\* The fields of a physical table are a list without repetition.
LEMMA LayoutFact ==
  ASSUME NEW f \in Layouts
  PROVE  /\ \E k \in 1 .. 2 : DOMAIN f = 1 .. k
         /\ \A i, j \in DOMAIN f : f[i] = f[j] => i = j
<1>1. PICK k \in 1 .. 2 : f \in [1 .. k -> Field]  BY DEF Layouts
<1>2. \A i, j \in DOMAIN f : f[i] = f[j] => i = j  BY DEF Layouts, IsInjective, Injection
<1> QED  BY <1>1, <1>2

\* A table without some rows.
LEMMA WithoutFact ==
  ASSUME NEW f, NEW S
  PROVE  /\ DOMAIN Without(f, S) = DOMAIN f \ S
         /\ \A x \in DOMAIN f \ S : Without(f, S)[x] = f[x]
BY DEF Without

\* What is known of the columns of a definition that no step touches.
LEMMA ColumnsStay ==
  ASSUME NEW t, asOf'[t] = asOf[t], ColumnsOf(t)' = ColumnsOf(t),
         \A c \in ColumnsOf(t) : columns'[c].name = columns[c].name,
         AsRead(t)
  PROVE  AsRead(t)'
<1>1. {columns'[c].name : c \in ColumnsOf(t)} = {columns[c].name : c \in ColumnsOf(t)}  OBVIOUS
<1>2. Range(asOf'[t]) = Range(asOf[t])  OBVIOUS
<1> QED  BY <1>1, <1>2 DEF AsRead

\* The request of another is as it was, when the definition it is about is.
LEMMA PlanStays ==
  ASSUME NEW q, gen'[q] = gen[q], PlanOK(q),
         q \in behind => q \in behind',
         q \notin behind' /\ gen[q].id \in mixed => gen[q].id \in mixed',
         \A c \in DOMAIN columns' : c \in gen[q].old => c \in DOMAIN columns /\ columns'[c].table = columns[c].table,
         q \notin behind' => /\ ColumnsOf(gen[q].id)' = ColumnsOf(gen[q].id)
                             /\ \A c \in ColumnsOf(gen[q].id) : columns'[c].name = columns[c].name
  PROVE  PlanOK(q)'
<1>1. \A c \in DOMAIN columns' : c \in gen'[q].old => columns'[c].table = gen'[q].id  BY DEF PlanOK
<1>2. gen'[q].fresh \subseteq DOMAIN gen'[q].schemas[1]  BY DEF PlanOK
<1>3. ASSUME q \notin behind', gen'[q].id \notin mixed'
      PROVE  /\ \A c \in ColumnsOf(gen[q].id)' \ gen[q].old :
                  \E i \in DOMAIN gen[q].schemas[1] \ gen[q].fresh : columns'[c].name = gen[q].schemas[1][i]
             /\ \A i \in DOMAIN gen[q].schemas[1] \ gen[q].fresh :
                  \E c \in ColumnsOf(gen[q].id)' \ gen[q].old : columns'[c].name = gen[q].schemas[1][i]
  BY <1>3 DEF PlanOK
<1>4. ASSUME NEW t PROVE ColumnsOf(t)' = {c \in DOMAIN columns' : columns'[c].table = t}  BY DEF ColumnsOf
<1> QED  BY <1>1, <1>2, <1>3, <1>4 DEF PlanOK, ColumnsOf

-----------------------------------------------------------------------------
(* Steps that only read *)

\* A step of p that writes no table keeps the invariant, when it keeps it of p.
LEMMA ReadOnly ==
  ASSUME CodegenOK, NEW p,
         UNCHANGED <<catalog, tables, given, columns, asOf, mixed>>,
         \A q \in DOMAIN gen' \ {p} : /\ q \in DOMAIN gen /\ gen'[q] = gen[q]
                                      /\ q \in behind => q \in behind',
         p \in DOMAIN gen' => GenRequestOK(p)'
  PROVE  CodegenOK'
<1>1. GenData' /\ OneDefinition' /\ NoneBehind' /\ \A t \in Defined' \ mixed' : AsRead(t)'
  BY DEF CodegenOK, GenData, OneDefinition, NoneBehind, AsRead, Defined, ColumnsOf, ColumnRow
<1>2. ASSUME NEW q \in DOMAIN gen', q # p PROVE GenRequestOK(q)'
  <2>1. q \in DOMAIN gen /\ gen'[q] = gen[q] /\ (q \in behind => q \in behind') /\ GenRequestOK(q)
    BY <1>2 DEF CodegenOK
  <2>2. gen[q].do = "import" => ImportOK(q)'
    BY <2>1 DEF GenRequestOK, ImportOK, NotTaken, Defined
  <2>3. gen[q].do \in {"sync", "syncing"} => SyncOK(q)'
    BY <2>1 DEF GenRequestOK, SyncOK, Defined
  <2>4. gen[q].do = "syncing" => PlanOK(q)'
    BY <2>1, PlanStays DEF GenRequestOK, ColumnsOf
  <2> QED  BY <2>1, <2>2, <2>3, <2>4 DEF GenRequestOK
<1> QED  BY <1>1, <1>2 DEF CodegenOK

\* What the start and the end of a request leave of the others.
LEMMA BeginsFact ==
  ASSUME NEW p, NEW r, Begins(p, r)
  PROVE  /\ DOMAIN gen' = DOMAIN gen \cup {p} /\ gen'[p] = r
         /\ \A q \in DOMAIN gen \ {p} : gen'[q] = gen[q]
BY DEF Begins, Over

LEMMA DoneFact ==
  ASSUME NEW p, NEW Q, Done(p, Q)
  PROVE  /\ DOMAIN gen' = DOMAIN gen \ {p}
         /\ \A q \in DOMAIN gen' : /\ q \in DOMAIN gen /\ q # p /\ gen'[q] = gen[q]
                                   /\ q \in behind' <=> q \in behind \/ q \in Q
<1>1. gen' = [x \in DOMAIN gen \ {p} |-> gen[x]] /\ behind' = (behind \cup Q) \ {p}  BY DEF Done, Without
<1> QED  BY <1>1

LEMMA RefusedStep ==
  ASSUME CodegenOK, NEW p, Refused(p),
         UNCHANGED <<catalog, tables, given, columns, asOf, mixed>>
  PROVE  CodegenOK'
<1>1. Done(p, {})  BY DEF Refused
<1> QED  BY <1>1, DoneFact, ReadOnly

LEMMA BeginsStep ==
  ASSUME CodegenOK, NEW p, NEW r, Begins(p, r),
         UNCHANGED <<catalog, tables, given, columns, behind, asOf, mixed>>,
         GenRequestOK(p)'
  PROVE  CodegenOK'
BY BeginsFact, ReadOnly

LEMMA RequestFact ==
  ASSUME NEW do, NEW names, NEW schemas, NEW id, NEW old, NEW fresh
  PROVE  LET r == Request(do, names, schemas, id, old, fresh)
         IN /\ r.do = do /\ r.names = names /\ r.schemas = schemas
            /\ r.id = id /\ r.old = old /\ r.fresh = fresh
BY DEF Request

\* The next name of a list is checked.
LEMMA CheckNameStep ==
  ASSUME CodegenOK, NEW p, NEW names \in Seq(TableName), NEW schemas \in Seq(Layouts),
         Len(schemas) < Len(names),
         p \notin behind => \A k \in 1 .. Len(schemas) : NotTaken(names[k]),
         CheckName(p, names, schemas)
  PROVE  CodegenOK'
<1> DEFINE name == names[Len(schemas) + 1]
           fields == Schema(name)
<1>1. CASE fields = <<>> \/ name \in Range(tables)
  BY <1>1, RefusedStep DEF CheckName
<1>2. CASE fields # <<>> /\ name \notin Range(tables)
  <2> DEFINE more == Append(schemas, fields)
             r == Request("import", names, more, 0, {}, {})
  <2>1. Begins(p, r) /\ UNCHANGED <<catalog, tables, given, columns, behind, asOf, mixed>>
    BY <1>2 DEF CheckName
  <2>2. fields \in Layouts
    BY <1>2 DEF Schema, CodegenOK, GenData
  <2>3. more \in Seq(Layouts) /\ Len(more) = Len(schemas) + 1
    BY <2>2
  <2>4. gen'[p] = r  BY <2>1, BeginsFact
  <2>5. r.do = "import" /\ r.names = names /\ r.schemas = more  BY DEF Request
  <2> HIDE DEF r, more
  <2>6. NotTaken(name)
    BY <1>2 DEF NotTaken, Defined, Range
  <2>7. ASSUME p \notin behind', NEW k \in 1 .. Len(more) PROVE NotTaken(names[k])'
    <3>1. p \notin behind  BY <2>1, <2>7
    <3>2. Len(schemas) \in Nat /\ (k \in 1 .. Len(schemas) \/ k = Len(schemas) + 1)  BY <2>3
    <3>3. NotTaken(names[k])  BY <2>6, <3>1, <3>2
    <3> QED  BY <2>1, <3>3 DEF NotTaken, Defined
  <2>8. Len(more) <= Len(names)  BY <2>3
  <2>9. ImportOK(p)'
    BY <2>3, <2>4, <2>5, <2>7, <2>8 DEF ImportOK
  <2>10. GenRequestOK(p)'
    BY <2>4, <2>5, <2>9 DEF GenRequestOK
  <2> QED  BY <2>1, <2>10, BeginsStep
<1> QED  BY <1>1, <1>2

LEMMA StartImportStep == ASSUME CodegenOK, NEW p \in Proc, StartImport(p) PROVE CodegenOK'
<1>1. PICK names \in UNION {[1 .. n -> TableName] : n \in 1 .. 2} : CheckName(p, names, <<>>)
  BY DEF StartImport
<1>2. names \in Seq(TableName) /\ 0 < Len(names)
  <2>1. PICK n \in 1 .. 2 : names \in [1 .. n -> TableName]  OBVIOUS
  <2> QED  BY <2>1
<1>3. <<>> \in Seq(Layouts) /\ Len(<<>>) = 0  OBVIOUS
<1>4. \A k \in 1 .. Len(<<>>) : NotTaken(names[k])  BY <1>3
<1>5. Len(<<>>) < Len(names)  BY <1>2, <1>3
<1> QED  BY <1>1, <1>2, <1>3, <1>4, <1>5, CheckNameStep

LEMMA CheckNextStep == ASSUME CodegenOK, NEW p \in Proc, CheckNext(p) PROVE CodegenOK'
<1>1. p \in DOMAIN gen /\ gen[p].do = "import"  BY DEF CheckNext, Runs
<1>2. ImportOK(p)  BY <1>1 DEF CodegenOK, GenRequestOK
<1>3. Len(gen[p].schemas) < Len(gen[p].names) /\ CheckName(p, gen[p].names, gen[p].schemas)
  BY DEF CheckNext
<1> QED  BY <1>2, <1>3, CheckNameStep DEF ImportOK

LEMMA StartSyncStep == ASSUME CodegenOK, NEW p \in Proc, StartSync(p) PROVE CodegenOK'
<1>1. PICK t \in Defined :
        /\ Schema(tables[t]) # <<>>
        /\ Begins(p, Request("sync", <<>>, <<Schema(tables[t])>>, t, {}, {}))
        /\ UNCHANGED <<catalog, tables, given, columns, behind, asOf, mixed>>
  BY DEF StartSync
<1> DEFINE fields == Schema(tables[t])
           r == Request("sync", <<>>, <<fields>>, t, {}, {})
<1>2. fields \in Layouts  BY <1>1 DEF Schema, CodegenOK, GenData
<1>3. r.do = "sync" /\ r.schemas = <<fields>> /\ r.id = t  BY RequestFact
<1>4. gen'[p] = r  BY <1>1, BeginsFact
<1>5. t \in 1 .. given  BY DEF CodegenOK, GenData
<1> HIDE DEF r, fields
<1>6. SyncOK(p)'  BY <1>1, <1>2, <1>3, <1>4, <1>5 DEF SyncOK, Defined
<1>7. GenRequestOK(p)'  BY <1>3, <1>4, <1>6 DEF GenRequestOK
<1> QED  BY <1>1, <1>7, BeginsStep DEF r, fields

\* What the plan leaves are the fields that are where they were.
LEMMA SyncPlanStep == ASSUME CodegenOK, NEW p \in Proc, SyncPlan(p) PROVE CodegenOK'
<1> DEFINE id == gen[p].id
           saved == ColumnsOf(id)
           fields == gen[p].schemas[1]
           old == Deletes(saved, fields)
           fresh == Inserts(saved, fields)
<1>1. p \in DOMAIN gen /\ gen[p].do = "sync" /\ UNCHANGED <<catalog, tables, given, columns, asOf, mixed>>
  BY DEF SyncPlan, Runs
<1>2. SyncOK(p)  BY <1>1 DEF CodegenOK, GenRequestOK
<1>3. CASE old = {} /\ fresh = {}
  <2>1. Refused(p)  BY <1>3 DEF SyncPlan
  <2> QED  BY <1>1, <2>1, RefusedStep
<1>4. CASE ~ (old = {} /\ fresh = {})
  <2> DEFINE r == Request("syncing", <<>>, gen[p].schemas, id, old, fresh)
  <2>1. Begins(p, r) /\ UNCHANGED behind  BY <1>4 DEF SyncPlan
  <2>2. r.do = "syncing" /\ r.schemas = gen[p].schemas /\ r.id = id /\ r.old = old /\ r.fresh = fresh
    BY RequestFact
  <2>3. gen'[p] = r  BY <2>1, BeginsFact
  <2> HIDE DEF r
  <2>4. SyncOK(p)'  BY <1>1, <1>2, <2>1, <2>2, <2>3 DEF SyncOK, Defined
  <2>5. \A i, j \in DOMAIN fields : fields[i] = fields[j] => i = j  BY <1>2, LayoutFact DEF SyncOK
  <2>6. ASSUME p \notin behind, id \notin mixed
        PROVE  /\ \A c \in saved \ old : \E i \in DOMAIN fields \ fresh : columns[c].name = fields[i]
               /\ \A i \in DOMAIN fields \ fresh : \E c \in saved \ old : columns[c].name = fields[i]
    <3>1. \A c, d \in saved : columns[c].name = columns[d].name => c = d
      BY <1>2, <2>6 DEF CodegenOK, SyncOK, AsRead
    <3>2. \A c \in saved : c \notin old <=> Same(c, fields)
      BY <3>1 DEF Deletes
    <3>3. \A i \in DOMAIN fields : i \notin fresh <=>
            \E c \in saved : columns[c].name = fields[i] /\ columns[c].ordinal = i - 1
      BY DEF Inserts
    <3>4. ASSUME NEW c \in saved \ old PROVE \E i \in DOMAIN fields \ fresh : columns[c].name = fields[i]
      <4>1. PICK i \in DOMAIN fields : columns[c].name = fields[i] /\ columns[c].ordinal = i - 1
        BY <3>2 DEF Same
      <4> QED  BY <3>3, <4>1
    <3>5. ASSUME NEW i \in DOMAIN fields \ fresh PROVE \E c \in saved \ old : columns[c].name = fields[i]
      <4>1. PICK c \in saved : columns[c].name = fields[i] /\ columns[c].ordinal = i - 1
        BY <3>3
      <4>2. Same(c, fields)  BY <4>1 DEF Same
      <4> QED  BY <3>2, <4>1, <4>2
    <3> QED  BY <3>4, <3>5
  <2>7. old \subseteq saved /\ fresh \subseteq DOMAIN fields  BY DEF Deletes, Inserts
  <2>8. \A c \in saved : c \in DOMAIN columns /\ columns[c].table = id  BY DEF ColumnsOf
  <2>9. saved = ColumnsOf(id)  OBVIOUS
  <2> HIDE DEF saved, old, fresh
  <2>10. \A c \in DOMAIN columns : c \in old => columns[c].table = id  BY <2>7, <2>8
  <2>12. gen'[p].id = id /\ gen'[p].old = old /\ gen'[p].fresh = fresh /\ gen'[p].schemas[1] = fields
    BY <2>2, <2>3
  <2> HIDE DEF id, fields
  <2>13. PlanOK(p)'
    <3>1. {c \in DOMAIN columns' : columns'[c].table = gen'[p].id} = saved
      BY <1>1, <2>9, <2>12 DEF ColumnsOf
    <3> QED  BY <1>1, <2>1, <2>6, <2>7, <2>10, <2>12, <3>1 DEF PlanOK, ColumnsOf
  <2>14. GenRequestOK(p)'
    BY <2>2, <2>3, <2>4, <2>13 DEF GenRequestOK
  <2> QED  BY <1>1, <2>1, <2>14, BeginsStep
<1> QED  BY <1>3, <1>4

LEMMA StartUpdateStep == ASSUME CodegenOK, NEW p \in Proc, StartUpdate(p) PROVE CodegenOK'
<1>1. PICK t \in Defined, name \in TableName, C \in SUBSET DOMAIN columns :
        /\ Begins(p, Request("update", <<name>>, <<>>, t, C, {}))
        /\ UNCHANGED <<catalog, tables, given, columns, behind, asOf, mixed>>
  BY DEF StartUpdate, ColumnsOf
<1>2. gen'[p] = Request("update", <<name>>, <<>>, t, C, {})  BY <1>1, BeginsFact
<1>3. gen'[p].do = "update"  BY <1>2 DEF Request
<1>4. GenRequestOK(p)'  BY <1>3 DEF GenRequestOK
<1> QED  BY <1>1, <1>4, BeginsStep

LEMMA StartDeleteStep == ASSUME CodegenOK, NEW p \in Proc, StartDelete(p) PROVE CodegenOK'
<1>1. PICK t \in Defined :
        /\ Begins(p, Request("delete", <<>>, <<>>, t, {}, {}))
        /\ UNCHANGED <<catalog, tables, given, columns, behind, asOf, mixed>>
  BY DEF StartDelete
<1>2. gen'[p] = Request("delete", <<>>, <<>>, t, {}, {})  BY <1>1, BeginsFact
<1>3. gen'[p].do = "delete"  BY <1>2 DEF Request
<1>4. GenRequestOK(p)'  BY <1>3 DEF GenRequestOK
<1> QED  BY <1>1, <1>4, BeginsStep

LEMMA AlterStep == ASSUME CodegenOK, Alter PROVE CodegenOK'
<1>1. PICK n \in Physical, fields \in Layouts : catalog' = [catalog EXCEPT ![n] = fields]
  BY DEF Alter
<1>2. UNCHANGED <<tables, given, columns, gen, behind, asOf, mixed>>  BY DEF Alter
<1>3. ASSUME NEW m \in Physical PROVE catalog'[m] \in Layouts
  <2>1. m \in DOMAIN catalog' => catalog'[m] = fields \/ catalog'[m] = catalog[m]  BY <1>1
  <2> QED  BY <1>1, <2>1 DEF CodegenOK, GenData
<1>4. GenData'  BY <1>2, <1>3 DEF CodegenOK, GenData, Defined, ColumnRow
<1>5. OneDefinition' /\ NoneBehind' /\ \A t \in Defined' \ mixed' : AsRead(t)'
  BY <1>2 DEF CodegenOK, OneDefinition, NoneBehind, AsRead, Defined, ColumnsOf
<1>6. ASSUME NEW q \in DOMAIN gen PROVE GenRequestOK(q)'
  BY <1>2 DEF CodegenOK, GenRequestOK, ImportOK, NotTaken, SyncOK, PlanOK, Defined, ColumnsOf
<1> QED  BY <1>2, <1>4, <1>5, <1>6 DEF CodegenOK

-----------------------------------------------------------------------------
(* An import is committed *)

\* The new columns: each at the place of one field, and no two at one place.
LEMMA PlacementFact ==
  ASSUME NEW ids, NEW places, NEW at \in Placements(places, ids)
  PROVE  /\ DOMAIN at = ids
         /\ \A c \in ids : at[c] \in places
         /\ \A x \in places : \E c \in ids : at[c] = x
         /\ \A c, d \in ids : at[c] = at[d] => c = d
<1>1. at \in Bijection(ids, places)  BY DEF Placements
<1>2. at \in [ids -> places] /\ DOMAIN at = ids  BY <1>1 DEF Bijection, Injection
<1>3. \A x \in places : \E c \in ids : at[c] = x  BY <1>1 DEF Bijection, Surjection
<1>4. \A c, d \in ids : at[c] = at[d] => c = d  BY <1>1 DEF Bijection, Injection, IsInjective
<1> QED  BY <1>2, <1>3, <1>4

LEMMA BuildFact ==
  ASSUME NEW at, NEW base, NEW schemas
  PROVE  /\ DOMAIN BuildColumns(at, base, schemas) = DOMAIN at
         /\ \A c \in DOMAIN at :
              /\ ColumnRow(BuildColumns(at, base, schemas)[c])
              /\ BuildColumns(at, base, schemas)[c].table = base + at[c][1]
              /\ BuildColumns(at, base, schemas)[c].name = schemas[at[c][1]][at[c][2]]
<1>1. DOMAIN BuildColumns(at, base, schemas) = DOMAIN at  BY DEF BuildColumns
<1>2. ASSUME NEW c \in DOMAIN at
      PROVE  /\ ColumnRow(BuildColumns(at, base, schemas)[c])
             /\ BuildColumns(at, base, schemas)[c].table = base + at[c][1]
             /\ BuildColumns(at, base, schemas)[c].name = schemas[at[c][1]][at[c][2]]
  <2> DEFINE place == 1 + Rank({d \in DOMAIN at : at[d][1] = at[c][1]}, c)
  <2>1. BuildColumns(at, base, schemas)[c] =
          [table |-> base + at[c][1], name |-> schemas[at[c][1]][at[c][2]], ordinal |-> place]
    BY DEF BuildColumns
  <2> HIDE DEF place
  <2> QED  BY <2>1 DEF ColumnRow
<1> QED  BY <1>1, <1>2

\* Ids for new columns: nobody else remembers them, and only rows that the request
\* itself deletes have them.
LEMMA UnusedIds ==
  ASSUME NEW p, NEW n
  PROVE  \A c \in Unused(p, n) :
           /\ c \in DOMAIN columns => gen[p].do = "syncing" /\ c \in gen[p].old
           /\ \A q \in DOMAIN gen \ {p} : c \notin gen[q].old
BY DEF Unused, Runs

\* The rows an import writes: below the ids of the definitions there were, and for
\* each new one its fields.
LEMMA ImportRows ==
  ASSUME CodegenOK, NEW p \in Proc, CommitImport(p)
  PROVE  /\ DOMAIN columns \subseteq DOMAIN columns'
         /\ \A c \in DOMAIN columns : columns'[c] = columns[c]
         /\ \A c \in DOMAIN columns' \ DOMAIN columns :
              /\ ColumnRow(columns'[c])
              /\ \A q \in DOMAIN gen \ {p} : c \notin gen[q].old
              /\ \E k \in 1 .. Len(gen[p].names) : \E i \in DOMAIN gen[p].schemas[k] :
                   columns'[c].table = given + k /\ columns'[c].name = gen[p].schemas[k][i]
         /\ \A k \in 1 .. Len(gen[p].names) : \A i \in DOMAIN gen[p].schemas[k] :
              \E c \in DOMAIN columns' \ DOMAIN columns :
                columns'[c].table = given + k /\ columns'[c].name = gen[p].schemas[k][i]
         /\ \A c, d \in DOMAIN columns' \ DOMAIN columns :
              columns'[c].table = columns'[d].table /\ columns'[c].name = columns'[d].name => c = d
<1> DEFINE n == Len(gen[p].names)
           schemas == gen[p].schemas
           places == UNION {{k} \X DOMAIN schemas[k] : k \in 1 .. n}
           ids == Unused(p, Cardinality(places))
<1>1. PICK at \in Placements(places, ids) : columns' = Over(BuildColumns(at, given, schemas), columns)
  BY DEF CommitImport
<1> DEFINE new == BuildColumns(at, given, schemas)
<1>2. p \in DOMAIN gen /\ gen[p].do = "import" /\ Len(schemas) = n  BY DEF CommitImport, Runs
<1>3. ImportOK(p)  BY <1>2 DEF CodegenOK, GenRequestOK
<1>4. given \in Nat /\ n \in Nat  BY <1>3 DEF CodegenOK, GenData, ImportOK
<1>5. \A k \in 1 .. n : schemas[k] \in Layouts  BY <1>2, <1>3, <1>4 DEF ImportOK
<1>6. \A c \in ids : c \notin DOMAIN columns /\ \A q \in DOMAIN gen \ {p} : c \notin gen[q].old
  BY <1>2, UnusedIds
<1>7. /\ DOMAIN new = ids
      /\ \A c \in ids : at[c] \in places /\ ColumnRow(new[c]) /\ new[c].table = given + at[c][1]
                        /\ new[c].name = schemas[at[c][1]][at[c][2]]
      /\ \A x \in places : \E c \in ids : at[c] = x
      /\ \A c, d \in ids : at[c] = at[d] => c = d
  <2> HIDE DEF ids, places
  <2>1. /\ DOMAIN at = ids
        /\ \A c \in ids : at[c] \in places
        /\ \A x \in places : \E c \in ids : at[c] = x
        /\ \A c, d \in ids : at[c] = at[d] => c = d
    BY <1>1, PlacementFact
  <2>2. /\ DOMAIN new = DOMAIN at
        /\ \A c \in DOMAIN at :
             ColumnRow(new[c]) /\ new[c].table = given + at[c][1] /\ new[c].name = schemas[at[c][1]][at[c][2]]
    BY BuildFact
  <2> HIDE DEF new
  <2> QED  BY <2>1, <2>2
<1>8. \A x \in places : \E k \in 1 .. n : \E i \in DOMAIN schemas[k] : x = <<k, i>>  OBVIOUS
<1>9. \A k \in 1 .. n : \A i \in DOMAIN schemas[k] : <<k, i>> \in places
  <2> TAKE k \in 1 .. n
  <2> TAKE i \in DOMAIN schemas[k]
  <2>1. <<k, i>> \in {k} \X DOMAIN schemas[k]  OBVIOUS
  <2> QED  BY <2>1
<1> HIDE DEF new, ids, places, schemas, n
<1>10. /\ DOMAIN columns' = ids \cup DOMAIN columns
       /\ \A c \in ids : columns'[c] = new[c]
       /\ \A c \in DOMAIN columns : columns'[c] = columns[c]
  BY <1>1, <1>6, <1>7 DEF new, Over
<1>11. DOMAIN columns' \ DOMAIN columns = ids  BY <1>6, <1>10
<1>12. ASSUME NEW c \in ids
       PROVE  \E k \in 1 .. n : \E i \in DOMAIN schemas[k] :
                at[c] = <<k, i>> /\ columns'[c].table = given + k /\ columns'[c].name = schemas[k][i]
  <2>1. PICK k \in 1 .. n : \E i \in DOMAIN schemas[k] : at[c] = <<k, i>>  BY <1>7, <1>8
  <2>2. PICK i \in DOMAIN schemas[k] : at[c] = <<k, i>>  BY <2>1
  <2>3. at[c][1] = k /\ at[c][2] = i  BY <2>2
  <2> QED  BY <1>7, <1>10, <2>2, <2>3
<1>13. ASSUME NEW k \in 1 .. n, NEW i \in DOMAIN schemas[k]
       PROVE  \E c \in ids : columns'[c].table = given + k /\ columns'[c].name = schemas[k][i]
  <2>1. PICK c \in ids : at[c] = <<k, i>>  BY <1>7, <1>9
  <2>2. at[c][1] = k /\ at[c][2] = i  BY <2>1
  <2> QED  BY <1>7, <1>10, <2>2
<1>14. ASSUME NEW c \in ids, NEW d \in ids,
              columns'[c].table = columns'[d].table, columns'[c].name = columns'[d].name
       PROVE  c = d
  <2>1. PICK k \in 1 .. n : \E i \in DOMAIN schemas[k] :
          at[c] = <<k, i>> /\ columns'[c].table = given + k /\ columns'[c].name = schemas[k][i]
    BY <1>12
  <2>2. PICK i \in DOMAIN schemas[k] :
          at[c] = <<k, i>> /\ columns'[c].table = given + k /\ columns'[c].name = schemas[k][i]
    BY <2>1
  <2>3. PICK m \in 1 .. n : \E j \in DOMAIN schemas[m] :
          at[d] = <<m, j>> /\ columns'[d].table = given + m /\ columns'[d].name = schemas[m][j]
    BY <1>12
  <2>4. PICK j \in DOMAIN schemas[m] :
          at[d] = <<m, j>> /\ columns'[d].table = given + m /\ columns'[d].name = schemas[m][j]
    BY <2>3
  <2>5. k = m
    <3>1. given + k = given + m  BY <1>14, <2>2, <2>4
    <3> QED  BY <1>4, <3>1
  <2>6. schemas[k][i] = schemas[k][j] /\ j \in DOMAIN schemas[k]  BY <1>14, <2>2, <2>4, <2>5
  <2>7. i = j  BY <1>5, <2>6, LayoutFact
  <2> QED  BY <1>7, <2>2, <2>4, <2>5, <2>7
<1>15. \A c \in ids : ColumnRow(columns'[c])  BY <1>7, <1>10
<1> QED  BY <1>6, <1>10, <1>11, <1>12, <1>13, <1>14, <1>15 DEF n, schemas

LEMMA CommitImportStep == ASSUME CodegenOK, NEW p \in Proc, CommitImport(p) PROVE CodegenOK'
<1> DEFINE n == Len(gen[p].names)
           names == gen[p].names
           schemas == gen[p].schemas
           ids == given + 1 .. given + n
           twice == {given + k : k \in {k \in 1 .. n : \E j \in 1 .. n : j # k /\ names[j] = names[k]}}
           new == DOMAIN columns' \ DOMAIN columns
<1>1. p \in DOMAIN gen /\ gen[p].do = "import" /\ Len(schemas) = n  BY DEF CommitImport, Runs
<1>2. ImportOK(p)  BY <1>1 DEF CodegenOK, GenRequestOK
<1>3. given \in Nat /\ n \in Nat /\ names \in Seq(TableName)  BY <1>2 DEF CodegenOK, GenData, ImportOK
<1>4. \A k \in 1 .. n : schemas[k] \in Layouts  BY <1>1, <1>2, <1>3 DEF ImportOK
<1>5. p \notin behind => \A k \in 1 .. n : NotTaken(names[k])  BY <1>1, <1>2 DEF ImportOK
<1>6. given' = given + n /\ catalog' = catalog
  BY DEF CommitImport
<1>7. mixed' = mixed \cup twice \cup (IF p \in behind THEN ids ELSE {})  BY DEF CommitImport
<1>8. Defined \subseteq 1 .. given /\ mixed \subseteq 1 .. given /\ DOMAIN asOf = Defined
  BY DEF CodegenOK, GenData
<1>9. /\ Defined' = ids \cup Defined
      /\ \A k \in 1 .. n : given + k \in ids /\ tables'[given + k] = names[k]
      /\ \A t \in Defined : tables'[t] = tables[t]
  <2> DEFINE g == [t \in ids |-> names[t - given]]
  <2>1. tables' = Over(g, tables)  BY DEF CommitImport
  <2>2. \A k \in 1 .. n : given + k \in ids /\ g[given + k] = names[k]  BY <1>3
  <2>3. DOMAIN g = ids /\ \A t \in Defined : t \notin ids  BY <1>3, <1>8
  <2> HIDE DEF g, ids
  <2> QED  BY <2>1, <2>2, <2>3 DEF Defined, Over
<1>10. /\ DOMAIN asOf' = Defined'
       /\ \A k \in 1 .. n : asOf'[given + k] = schemas[k]
       /\ \A t \in Defined : asOf'[t] = asOf[t]
  <2> DEFINE g == [t \in ids |-> schemas[t - given]]
  <2>1. asOf' = Over(g, asOf)  BY DEF CommitImport
  <2>2. \A k \in 1 .. n : given + k \in ids /\ g[given + k] = schemas[k]  BY <1>3
  <2>3. DOMAIN g = ids /\ \A t \in Defined : t \notin ids  BY <1>3, <1>8
  <2> HIDE DEF g, ids
  <2> QED  BY <1>8, <1>9, <2>1, <2>2, <2>3 DEF Over
<1>11. /\ DOMAIN gen' = DOMAIN gen \ {p}
       /\ \A q \in DOMAIN gen' : /\ q \in DOMAIN gen /\ q # p /\ gen'[q] = gen[q]
                                 /\ q \in behind => q \in behind'
                                 /\ gen[q].do = "import" /\ Range(gen[q].names) \cap Range(names) # {} => q \in behind'
  <2> DEFINE Q == {q \in Serving({"import"}) : Range(gen[q].names) \cap Range(names) # {}}
  <2>1. Done(p, Q)  BY DEF CommitImport
  <2>2. \A q \in DOMAIN gen : gen[q].do = "import" /\ Range(gen[q].names) \cap Range(names) # {} => q \in Q
    BY DEF Serving
  <2> HIDE DEF Q
  <2> QED  BY <2>1, <2>2, DoneFact
<1>12. /\ DOMAIN columns \subseteq DOMAIN columns'
       /\ \A c \in DOMAIN columns : columns'[c] = columns[c]
       /\ \A c \in new :
              /\ ColumnRow(columns'[c])
              /\ \A q \in DOMAIN gen \ {p} : c \notin gen[q].old
              /\ \E k \in 1 .. n : \E i \in DOMAIN schemas[k] :
                   columns'[c].table = given + k /\ columns'[c].name = schemas[k][i]
       /\ \A k \in 1 .. n : \A i \in DOMAIN schemas[k] :
              \E c \in new : columns'[c].table = given + k /\ columns'[c].name = schemas[k][i]
       /\ \A c, d \in new :
              columns'[c].table = columns'[d].table /\ columns'[c].name = columns'[d].name => c = d
  BY ImportRows
<1>13. \A k \in 1 .. n : \A j \in 1 .. n : j # k /\ names[j] = names[k] => given + k \in twice  OBVIOUS
<1>14. twice \subseteq ids  BY <1>3
<1>15. ids \subseteq 1 .. given' /\ (\A t \in ids : t \notin 1 .. given) /\ 1 .. given \subseteq 1 .. given'
  BY <1>3, <1>6
<1>16. \A t \in ids : \E k \in 1 .. n : t = given + k
  <2> TAKE t \in ids
  <2>1. t - given \in 1 .. n /\ t = given + (t - given)  BY <1>3
  <2> QED  BY <2>1
<1>17. \A k \in 1 .. n : given + k \in ids  BY <1>9
<1> HIDE DEF n, names, schemas, ids, twice, new
<1>18. \A c \in DOMAIN columns : columns[c].table \in 1 .. given
  BY <1>8 DEF CodegenOK, NoneBehind
<1>19. \A t \in 1 .. given : ColumnsOf(t)' = ColumnsOf(t)
  <2> TAKE t \in 1 .. given
  <2>1. \A c \in new : columns'[c].table # t  BY <1>12, <1>15, <1>17
  <2>2. \A c \in DOMAIN columns' : c \in new \/ c \in DOMAIN columns  BY DEF new
  <2> QED  BY <1>12, <2>1, <2>2 DEF ColumnsOf
<1>20. GenData'
  <2>1. \A c \in DOMAIN columns' : ColumnRow(columns'[c])
    <3>1. \A c \in DOMAIN columns' : c \in new \/ c \in DOMAIN columns  BY DEF new
    <3> QED  BY <1>12, <3>1 DEF CodegenOK, GenData
  <2>2. Defined' \subseteq 1 .. given' /\ mixed' \subseteq 1 .. given' /\ given' \in Nat
    BY <1>3, <1>6, <1>7, <1>8, <1>9, <1>14, <1>15
  <2> QED  BY <1>6, <1>10, <2>1, <2>2 DEF CodegenOK, GenData, ColumnRow
<1>21. OneDefinition'
  <2> SUFFICES ASSUME NEW t \in Defined' \ mixed', NEW u \in Defined' \ {t}, tables'[u] = tables'[t]
               PROVE  u \in mixed'
    BY DEF OneDefinition
  <2>1. t \notin mixed  BY <1>7
  <2>2. CASE t \in Defined /\ u \in Defined
    BY <1>7, <1>9, <2>1, <2>2 DEF CodegenOK, OneDefinition
  <2>3. CASE t \in Defined /\ u \in ids
    <3>1. PICK k \in 1 .. n : u = given + k  BY <1>16, <2>3
    <3>2. tables[t] = names[k]  BY <1>9, <2>3, <3>1
    <3>3. p \in behind  BY <1>5, <2>1, <2>3, <3>2 DEF NotTaken
    <3> QED  BY <1>7, <2>3, <3>3
  <2>4. CASE t \in ids /\ u \in Defined
    <3>1. PICK k \in 1 .. n : t = given + k  BY <1>16, <2>4
    <3>2. tables[u] = names[k]  BY <1>9, <2>4, <3>1
    <3>3. p \notin behind  BY <1>7, <2>4
    <3>4. u \in mixed  BY <1>5, <2>4, <3>2, <3>3 DEF NotTaken
    <3> QED  BY <1>7, <3>4
  <2>5. CASE t \in ids /\ u \in ids
    <3>1. PICK k \in 1 .. n : t = given + k  BY <1>16, <2>5
    <3>2. PICK j \in 1 .. n : u = given + j  BY <1>16, <2>5
    <3>3. names[j] = names[k] /\ j # k  BY <1>9, <3>1, <3>2
    <3> QED  BY <1>7, <1>13, <3>2, <3>3
  <2> QED  BY <1>9, <2>2, <2>3, <2>4, <2>5
<1>22. NoneBehind'
  <2> SUFFICES ASSUME NEW c \in DOMAIN columns' PROVE columns'[c].table \in Defined' \cup mixed'
    BY DEF NoneBehind
  <2>1. CASE c \in DOMAIN columns
    BY <1>7, <1>9, <1>12, <2>1 DEF CodegenOK, NoneBehind
  <2>2. CASE c \in new
    BY <1>9, <1>12, <1>17, <2>2
  <2> QED  BY <2>1, <2>2 DEF new
<1>23. ASSUME NEW t \in Defined' \ mixed' PROVE AsRead(t)'
  <2>1. CASE t \in Defined
    <3>1. t \in 1 .. given /\ t \notin mixed  BY <1>7, <1>8, <2>1
    <3>2. AsRead(t) /\ asOf'[t] = asOf[t]  BY <1>10, <2>1, <3>1 DEF CodegenOK
    <3>3. \A c \in ColumnsOf(t) : columns'[c].name = columns[c].name  BY <1>12 DEF ColumnsOf
    <3> QED  BY <1>19, <3>1, <3>2, <3>3, ColumnsStay
  <2>2. CASE t \in ids
    <3>1. PICK k \in 1 .. n : t = given + k  BY <1>16, <2>2
    <3>2. asOf'[t] = schemas[k]  BY <1>10, <3>1
    <3>3. \A c \in DOMAIN columns' : columns'[c].table = t => c \in new
      <4>1. \A c \in DOMAIN columns : columns'[c].table \in 1 .. given  BY <1>12, <1>18
      <4> QED  BY <1>15, <2>2, <4>1 DEF new
    <3>4. \A c \in new : columns'[c].table = t =>
            \E i \in DOMAIN schemas[k] : columns'[c].name = schemas[k][i]
      <4> SUFFICES ASSUME NEW c \in new, columns'[c].table = t
                   PROVE  \E i \in DOMAIN schemas[k] : columns'[c].name = schemas[k][i]
        OBVIOUS
      <4>1. PICK j \in 1 .. n : \E i \in DOMAIN schemas[j] :
              columns'[c].table = given + j /\ columns'[c].name = schemas[j][i]
        BY <1>12
      <4>2. j = k  BY <1>3, <3>1, <4>1
      <4> QED  BY <4>1, <4>2
    <3>5. \A i \in DOMAIN schemas[k] :
            \E c \in DOMAIN columns' : columns'[c].table = t /\ columns'[c].name = schemas[k][i]
      BY <1>12, <3>1 DEF new
    <3>6. \A c, d \in DOMAIN columns' : columns'[c].table = t /\ columns'[d].table = t /\ c # d =>
            columns'[c].name # columns'[d].name
      BY <1>12, <3>3
    <3>7. ColumnsOf(t)' = {c \in DOMAIN columns' : columns'[c].table = t}  BY DEF ColumnsOf
    <3>8. Range(schemas[k]) = {columns'[c].name : c \in {c \in DOMAIN columns' : columns'[c].table = t}}
      BY <3>3, <3>4, <3>5 DEF Range
    <3> QED  BY <3>2, <3>6, <3>7, <3>8 DEF AsRead
  <2> QED  BY <1>9, <2>1, <2>2
<1>24. ASSUME NEW q \in DOMAIN gen' PROVE GenRequestOK(q)'
  <2>1. q \in DOMAIN gen /\ q # p /\ gen'[q] = gen[q] /\ GenRequestOK(q)  BY <1>11 DEF CodegenOK
  <2>2. ASSUME gen[q].do = "import" PROVE ImportOK(q)'
    <3>1. ImportOK(q)  BY <2>1, <2>2 DEF GenRequestOK
    <3>2. ASSUME q \notin behind', NEW k \in 1 .. Len(gen[q].schemas) PROVE NotTaken(gen[q].names[k])'
      <4>1. NotTaken(gen[q].names[k]) /\ k \in 1 .. Len(gen[q].names)
        BY <1>11, <3>1, <3>2 DEF ImportOK
      <4>2. gen[q].names[k] \in Range(gen[q].names)  BY <3>1, <4>1 DEF ImportOK, Range
      <4>3. Range(gen[q].names) \cap Range(names) = {}  BY <1>11, <2>2, <3>2
      <4>4. ASSUME NEW j \in 1 .. n PROVE names[j] # gen[q].names[k]
        <5>1. names[j] \in Range(names)  BY <1>3 DEF Range, n, names
        <5> QED  BY <4>2, <4>3, <5>1
      <4>5. ASSUME NEW u \in Defined', tables'[u] = gen[q].names[k] PROVE u \in mixed'
        <5>1. u \notin ids
          <6>1. SUFFICES ASSUME u \in ids PROVE FALSE  OBVIOUS
          <6>2. PICK j \in 1 .. n : u = given + j  BY <1>16, <6>1
          <6> QED  BY <1>9, <4>4, <4>5, <6>2
        <5>2. u \in Defined /\ tables[u] = gen[q].names[k]  BY <1>9, <4>5, <5>1
        <5> QED  BY <1>7, <4>1, <5>2 DEF NotTaken
      <4>6. gen'[q].names[k] = gen[q].names[k]  BY <2>1
      <4> QED  BY <4>5, <2>1 DEF NotTaken, Defined
    <3> QED  BY <2>1, <3>1, <3>2 DEF ImportOK, NotTaken, Defined
  <2>3. ASSUME gen[q].do \in {"sync", "syncing"} PROVE SyncOK(q)'
    BY <1>9, <1>11, <1>15, <2>1, <2>3 DEF GenRequestOK, SyncOK
  <2>4. ASSUME gen[q].do = "syncing" PROVE PlanOK(q)'
    <3>1. PlanOK(q) /\ gen[q].id \in 1 .. given  BY <2>1, <2>4 DEF GenRequestOK, SyncOK
    <3>2. ColumnsOf(gen[q].id)' = ColumnsOf(gen[q].id)  BY <1>19, <2>1, <3>1 DEF ColumnsOf
    <3>3. \A c \in ColumnsOf(gen[q].id) : columns'[c].name = columns[c].name  BY <1>12 DEF ColumnsOf
    <3>4. \A c \in DOMAIN columns' : c \in gen[q].old => c \in DOMAIN columns /\ columns'[c].table = columns[c].table
      BY <1>12, <2>1 DEF new
    <3>5. gen[q].id \in mixed => gen[q].id \in mixed'  BY <1>7
    <3> QED  BY <1>11, <2>1, <3>1, <3>2, <3>3, <3>4, <3>5, PlanStays
  <2> QED  BY <2>1, <2>2, <2>3, <2>4 DEF GenRequestOK
<1> QED  BY <1>20, <1>21, <1>22, <1>23, <1>24 DEF CodegenOK

-----------------------------------------------------------------------------
(* A synchronisation is committed *)

\* The rows it leaves: those it does not delete, and one for each fresh field.
LEMMA SyncRows ==
  ASSUME CodegenOK, NEW p \in Proc, CommitSync(p)
  PROVE  LET stay == DOMAIN columns \ gen[p].old
             new == DOMAIN columns' \ stay
         IN /\ stay \subseteq DOMAIN columns'
            /\ \A c \in stay : columns'[c] = columns[c]
            /\ \A c \in new :
                 /\ ColumnRow(columns'[c]) /\ columns'[c].table = gen[p].id
                 /\ \A q \in DOMAIN gen \ {p} : c \notin gen[q].old
                 /\ \E i \in gen[p].fresh : columns'[c].name = gen[p].schemas[1][i]
            /\ \A i \in gen[p].fresh : \E c \in new : columns'[c].name = gen[p].schemas[1][i]
            /\ \A c, d \in new : columns'[c].name = columns'[d].name => c = d
<1> DEFINE id == gen[p].id
           schemas == gen[p].schemas
           fresh == gen[p].fresh
           places == {1} \X fresh
           ids == Unused(p, Cardinality(places))
           old == gen[p].old
           stay == DOMAIN columns \ old
<1>1. PICK at \in Placements(places, ids) : columns' = Over(BuildColumns(at, id - 1, schemas), Without(columns, old))
  BY DEF CommitSync
<1> DEFINE made == BuildColumns(at, id - 1, schemas)
<1>2. p \in DOMAIN gen /\ gen[p].do = "syncing"  BY DEF CommitSync, Runs
<1>3. SyncOK(p) /\ PlanOK(p)  BY <1>2 DEF CodegenOK, GenRequestOK
<1>4. id \in Nat /\ schemas[1] \in Layouts /\ fresh \subseteq DOMAIN schemas[1]
  BY <1>3 DEF SyncOK, PlanOK, CodegenOK, GenData
<1>5. \A c \in ids : (c \in DOMAIN columns => c \in old) /\ \A q \in DOMAIN gen \ {p} : c \notin gen[q].old
  BY <1>2, UnusedIds
<1>6. /\ DOMAIN made = ids
      /\ \A c \in ids : at[c] \in places /\ ColumnRow(made[c]) /\ made[c].table = id - 1 + at[c][1]
                        /\ made[c].name = schemas[at[c][1]][at[c][2]]
      /\ \A x \in places : \E c \in ids : at[c] = x
      /\ \A c, d \in ids : at[c] = at[d] => c = d
  <2> HIDE DEF ids, places
  <2>1. /\ DOMAIN at = ids
        /\ \A c \in ids : at[c] \in places
        /\ \A x \in places : \E c \in ids : at[c] = x
        /\ \A c, d \in ids : at[c] = at[d] => c = d
    BY <1>1, PlacementFact
  <2>2. /\ DOMAIN made = DOMAIN at
        /\ \A c \in DOMAIN at :
             ColumnRow(made[c]) /\ made[c].table = id - 1 + at[c][1] /\ made[c].name = schemas[at[c][1]][at[c][2]]
    BY BuildFact
  <2> HIDE DEF made
  <2> QED  BY <2>1, <2>2
<1>7. \A x \in places : \E i \in fresh : x = <<1, i>>  OBVIOUS
<1>8. \A i \in fresh : <<1, i>> \in places  OBVIOUS
<1> HIDE DEF made, ids, places
<1>9. /\ DOMAIN columns' = ids \cup stay
      /\ \A c \in ids : columns'[c] = made[c]
      /\ \A c \in stay : columns'[c] = columns[c]
  <2>1. DOMAIN Without(columns, old) = stay /\ \A c \in stay : Without(columns, old)[c] = columns[c]
    BY WithoutFact
  <2>2. \A c \in stay : c \notin ids  BY <1>5
  <2> HIDE DEF stay
  <2> QED  BY <1>1, <1>6, <2>1, <2>2 DEF made, Over
<1>10. DOMAIN columns' \ stay = ids  BY <1>5, <1>9
<1> HIDE DEF id, schemas, fresh, old, stay
<1>11. ASSUME NEW c \in ids
       PROVE  \E i \in fresh : at[c] = <<1, i>> /\ columns'[c].table = id /\ columns'[c].name = schemas[1][i]
  <2>1. PICK i \in fresh : at[c] = <<1, i>>  BY <1>6, <1>7
  <2>2. at[c][1] = 1 /\ at[c][2] = i  BY <2>1
  <2>3. id - 1 + 1 = id  BY <1>4
  <2>4. made[c].table = id /\ made[c].name = schemas[1][i]  BY <1>6, <2>2, <2>3
  <2> QED  BY <1>9, <2>1, <2>4
<1>12. ASSUME NEW i \in fresh PROVE \E c \in ids : columns'[c].name = schemas[1][i]
  <2>1. PICK c \in ids : at[c] = <<1, i>>  BY <1>6, <1>8
  <2>2. at[c][1] = 1 /\ at[c][2] = i  BY <2>1
  <2> QED  BY <1>6, <1>9, <2>2
<1>13. ASSUME NEW c \in ids, NEW d \in ids, columns'[c].name = columns'[d].name PROVE c = d
  <2>1. PICK i \in fresh : at[c] = <<1, i>> /\ columns'[c].name = schemas[1][i]  BY <1>11
  <2>2. PICK j \in fresh : at[d] = <<1, j>> /\ columns'[d].name = schemas[1][j]  BY <1>11
  <2>3. i = j  BY <1>4, <1>13, <2>1, <2>2, LayoutFact
  <2> QED  BY <1>6, <2>1, <2>2, <2>3
<1>14. \A c \in ids : ColumnRow(columns'[c])  BY <1>6, <1>9
<1> QED  BY <1>5, <1>9, <1>10, <1>11, <1>12, <1>13, <1>14 DEF id, schemas, fresh, old, stay

LEMMA CommitSyncStep == ASSUME CodegenOK, NEW p \in Proc, CommitSync(p) PROVE CodegenOK'
<1> DEFINE id == gen[p].id
           fields == gen[p].schemas[1]
           fresh == gen[p].fresh
           old == gen[p].old
           stay == DOMAIN columns \ old
           new == DOMAIN columns' \ stay
<1>1. p \in DOMAIN gen /\ gen[p].do = "syncing"  BY DEF CommitSync, Runs
<1>2. SyncOK(p) /\ PlanOK(p)  BY <1>1 DEF CodegenOK, GenRequestOK
<1>3. /\ tables' = tables /\ given' = given /\ catalog' = catalog
      /\ asOf' = [t \in Defined |-> IF t = id THEN fields ELSE asOf[t]]
      /\ mixed' = mixed \cup (IF p \in behind THEN {id} ELSE {})
  BY DEF CommitSync
<1>4. /\ DOMAIN gen' = DOMAIN gen \ {p}
      /\ \A q \in DOMAIN gen' : /\ q \in DOMAIN gen /\ q # p /\ gen'[q] = gen[q]
                                /\ q \in behind => q \in behind'
                                /\ gen[q].do = "syncing" /\ gen[q].id = id => q \in behind'
  <2> DEFINE Q == {q \in Serving({"syncing"}) : gen[q].id = id}
  <2>1. Done(p, Q)  BY DEF CommitSync
  <2>2. \A q \in DOMAIN gen : gen[q].do = "syncing" /\ gen[q].id = id => q \in Q  BY DEF Serving
  <2> HIDE DEF Q
  <2> QED  BY <2>1, <2>2, DoneFact
<1>5. /\ stay \subseteq DOMAIN columns'
      /\ \A c \in stay : columns'[c] = columns[c]
      /\ \A c \in new :
           /\ ColumnRow(columns'[c]) /\ columns'[c].table = id
           /\ \A q \in DOMAIN gen \ {p} : c \notin gen[q].old
           /\ \E i \in fresh : columns'[c].name = fields[i]
      /\ \A i \in fresh : \E c \in new : columns'[c].name = fields[i]
      /\ \A c, d \in new : columns'[c].name = columns'[d].name => c = d
  BY SyncRows
<1>6. \A c \in DOMAIN columns : c \in old => columns[c].table = id  BY <1>2 DEF PlanOK
<1>7. id \in 1 .. given /\ fields \in Layouts /\ fresh \subseteq DOMAIN fields
      /\ (p \notin behind => id \in Defined)
  BY <1>2 DEF SyncOK, PlanOK
<1>8. p \notin behind /\ id \notin mixed =>
       /\ \A c \in ColumnsOf(id) \ old : \E i \in DOMAIN fields \ fresh : columns[c].name = fields[i]
       /\ \A i \in DOMAIN fields \ fresh : \E c \in ColumnsOf(id) \ old : columns[c].name = fields[i]
  BY <1>2 DEF PlanOK
<1>9. \A c \in DOMAIN columns' : c \in stay \/ c \in new  OBVIOUS
<1>10. \A c \in stay : c \in DOMAIN columns /\ c \notin old  OBVIOUS
<1>11. \A c \in DOMAIN columns : c \in stay \/ c \in old  OBVIOUS
<1>12. stay \cap new = {}  OBVIOUS
<1> HIDE DEF id, fields, fresh, old, stay, new
<1>13. \A t : t # id => ColumnsOf(t)' = ColumnsOf(t) /\ \A c \in ColumnsOf(t) : columns'[c].name = columns[c].name
  <2> SUFFICES ASSUME NEW t, t # id
               PROVE  ColumnsOf(t)' = ColumnsOf(t) /\ \A c \in ColumnsOf(t) : columns'[c].name = columns[c].name
    OBVIOUS
  <2>1. \A c \in ColumnsOf(t) : c \in stay  BY <1>6, <1>11 DEF ColumnsOf
  <2>2. \A c \in DOMAIN columns' : columns'[c].table = t => c \in stay  BY <1>5, <1>9
  <2> QED  BY <1>5, <1>10, <2>1, <2>2 DEF ColumnsOf
<1>14. GenData'
  <2>1. \A c \in DOMAIN columns' : ColumnRow(columns'[c])
    BY <1>5, <1>9, <1>10 DEF CodegenOK, GenData
  <2>2. mixed' \subseteq 1 .. given'  BY <1>3, <1>7 DEF CodegenOK, GenData
  <2>3. DOMAIN asOf' = Defined'  BY <1>3 DEF Defined
  <2> QED  BY <1>3, <2>1, <2>2, <2>3 DEF CodegenOK, GenData, Defined, ColumnRow
<1>15. OneDefinition'
  BY <1>3 DEF CodegenOK, OneDefinition, Defined
<1>16. NoneBehind'
  <2> SUFFICES ASSUME NEW c \in DOMAIN columns' PROVE columns'[c].table \in Defined' \cup mixed'
    BY DEF NoneBehind
  <2>1. CASE c \in stay
    BY <1>3, <1>5, <1>10, <2>1 DEF CodegenOK, NoneBehind, Defined
  <2>2. CASE c \in new
    BY <1>3, <1>5, <1>7, <2>2 DEF Defined
  <2> QED  BY <1>9, <2>1, <2>2
<1>17. ASSUME NEW t \in Defined' \ mixed' PROVE AsRead(t)'
  <2>1. t \in Defined /\ t \notin mixed  BY <1>3 DEF Defined
  <2>2. AsRead(t)  BY <2>1 DEF CodegenOK
  <2>3. CASE t # id
    <3>1. asOf'[t] = asOf[t]  BY <1>3, <2>1, <2>3
    <3> QED  BY <1>13, <2>2, <2>3, <3>1, ColumnsStay
  <2>4. CASE t = id
    <3>1. asOf'[t] = fields  BY <1>3, <2>1, <2>4
    <3>2. p \notin behind /\ id \notin mixed  BY <1>3, <2>1, <2>4
    <3>3. \A c \in DOMAIN columns' : columns'[c].table = id =>
            c \in new \/ (c \in ColumnsOf(id) \ old /\ columns'[c] = columns[c])
      BY <1>5, <1>9, <1>10 DEF ColumnsOf
    <3>4. \A c \in ColumnsOf(id) \ old : c \in DOMAIN columns' /\ columns'[c].table = id /\ columns'[c] = columns[c]
      BY <1>5, <1>11 DEF ColumnsOf
    <3>5. \A c \in new : c \in DOMAIN columns' /\ columns'[c].table = id  BY <1>5 DEF new
    <3>6. \A c \in DOMAIN columns' : columns'[c].table = id => \E i \in DOMAIN fields : columns'[c].name = fields[i]
      BY <1>5, <1>7, <1>8, <3>2, <3>3
    <3>7. ASSUME NEW i \in DOMAIN fields
          PROVE  \E c \in DOMAIN columns' : columns'[c].table = id /\ columns'[c].name = fields[i]
      <4>1. CASE i \in fresh  BY <1>5, <3>5, <4>1
      <4>2. CASE i \notin fresh
        <5>1. PICK c \in ColumnsOf(id) \ old : columns[c].name = fields[i]  BY <1>8, <3>2, <4>2
        <5> QED  BY <3>4, <5>1
      <4> QED  BY <4>1, <4>2
    <3>8. \A i, j \in DOMAIN fields : fields[i] = fields[j] => i = j  BY <1>7, LayoutFact
    <3>9. ASSUME NEW c \in DOMAIN columns', NEW d \in DOMAIN columns',
                 columns'[c].table = id, columns'[d].table = id, c # d
          PROVE  columns'[c].name # columns'[d].name
      <4>1. CASE c \in new /\ d \in new  BY <1>5, <3>9, <4>1
      <4>2. ASSUME NEW x \in new, NEW y \in ColumnsOf(id) \ old PROVE columns'[x].name # columns[y].name
        <5>1. PICK i \in fresh : columns'[x].name = fields[i]  BY <1>5
        <5>2. PICK j \in DOMAIN fields \ fresh : columns[y].name = fields[j]  BY <1>8, <3>2
        <5>3. i \in DOMAIN fields /\ j \in DOMAIN fields /\ i # j  BY <1>7
        <5> QED  BY <3>8, <5>1, <5>2, <5>3
      <4>3. CASE c \in new /\ d \notin new
        <5>1. d \in ColumnsOf(id) \ old /\ columns'[d] = columns[d]  BY <3>3, <3>9, <4>3
        <5> QED  BY <4>2, <4>3, <5>1
      <4>4. CASE c \notin new /\ d \in new
        <5>1. c \in ColumnsOf(id) \ old /\ columns'[c] = columns[c]  BY <3>3, <3>9, <4>4
        <5> QED  BY <4>2, <4>4, <5>1
      <4>5. CASE c \notin new /\ d \notin new
        <5>1. c \in ColumnsOf(id) /\ columns'[c] = columns[c]  BY <3>3, <3>9, <4>5
        <5>2. d \in ColumnsOf(id) /\ columns'[d] = columns[d]  BY <3>3, <3>9, <4>5
        <5> QED  BY <2>2, <2>4, <3>9, <5>1, <5>2 DEF AsRead
      <4> QED  BY <4>1, <4>3, <4>4, <4>5
    <3>10. Range(fields) = {columns'[c].name : c \in {c \in DOMAIN columns' : columns'[c].table = id}}
      BY <3>6, <3>7 DEF Range
    <3>11. ColumnsOf(t)' = {c \in DOMAIN columns' : columns'[c].table = id}  BY <2>4 DEF ColumnsOf
    <3> QED  BY <3>1, <3>9, <3>10, <3>11 DEF AsRead
  <2> QED  BY <2>3, <2>4
<1>18. ASSUME NEW q \in DOMAIN gen' PROVE GenRequestOK(q)'
  <2>1. q \in DOMAIN gen /\ q # p /\ gen'[q] = gen[q] /\ GenRequestOK(q)  BY <1>4 DEF CodegenOK
  <2>2. ASSUME gen[q].do = "import" PROVE ImportOK(q)'
    BY <1>3, <1>4, <2>1, <2>2 DEF GenRequestOK, ImportOK, NotTaken, Defined
  <2>3. ASSUME gen[q].do \in {"sync", "syncing"} PROVE SyncOK(q)'
    BY <1>3, <1>4, <2>1, <2>3 DEF GenRequestOK, SyncOK, Defined
  <2>4. ASSUME gen[q].do = "syncing" PROVE PlanOK(q)'
    <3>1. PlanOK(q)  BY <2>1, <2>4 DEF GenRequestOK
    <3>2. q \notin behind' => gen[q].id # id  BY <1>4, <2>4
    <3>3. \A c \in DOMAIN columns' : c \in gen[q].old => c \in DOMAIN columns /\ columns'[c].table = columns[c].table
      BY <1>5, <1>9, <1>10, <2>1
    <3>4. gen[q].id \in mixed => gen[q].id \in mixed'  BY <1>3
    <3> QED  BY <1>4, <1>13, <2>1, <3>1, <3>2, <3>3, <3>4, PlanStays
  <2> QED  BY <2>1, <2>2, <2>3, <2>4 DEF GenRequestOK
<1> QED  BY <1>14, <1>15, <1>16, <1>17, <1>18 DEF CodegenOK

-----------------------------------------------------------------------------
(* Edit and delete *)

LEMMA CommitUpdateStep == ASSUME CodegenOK, NEW p \in Proc, CommitUpdate(p) PROVE CodegenOK'
<1> DEFINE id == gen[p].id
           name == gen[p].names[1]
           old == gen[p].old
<1>1. /\ tables' = [t \in Defined |-> IF t = id THEN name ELSE tables[t]]
      /\ columns' = [c \in DOMAIN columns |-> IF c \in old THEN [columns[c] EXCEPT !.ordinal = 0] ELSE columns[c]]
      /\ mixed' = mixed \cup {t \in {id} \cap Defined : tables[t] # name}
      /\ catalog' = catalog /\ given' = given /\ asOf' = asOf
      /\ Done(p, {})
  BY DEF CommitUpdate, Refused
<1>2. \A c \in DOMAIN columns : ColumnRow(columns[c])  BY DEF CodegenOK, GenData
<1> HIDE DEF id, name, old
<1>3. /\ DOMAIN columns' = DOMAIN columns
      /\ \A c \in DOMAIN columns : /\ ColumnRow(columns'[c])
                                   /\ columns'[c].table = columns[c].table
                                   /\ columns'[c].name = columns[c].name
  BY <1>1, <1>2 DEF ColumnRow
<1>4. /\ Defined' = Defined
      /\ \A t \in Defined : tables'[t] = tables[t] \/ t \in mixed'
  BY <1>1 DEF Defined
<1>5. mixed \subseteq mixed' /\ mixed' \subseteq mixed \cup Defined  BY <1>1
<1>6. \A t : ColumnsOf(t)' = ColumnsOf(t) /\ \A c \in ColumnsOf(t) : columns'[c].name = columns[c].name
  BY <1>3 DEF ColumnsOf
<1>7. \A q \in DOMAIN gen' : q \in DOMAIN gen /\ gen'[q] = gen[q] /\ (q \in behind => q \in behind')
  BY <1>1, DoneFact
<1>8. GenData'
  BY <1>1, <1>3, <1>4, <1>5 DEF CodegenOK, GenData
<1>9. OneDefinition'
  BY <1>4, <1>5 DEF CodegenOK, OneDefinition
<1>10. NoneBehind'
  BY <1>3, <1>4, <1>5 DEF CodegenOK, NoneBehind
<1>11. ASSUME NEW t \in Defined' \ mixed' PROVE AsRead(t)'
  BY <1>1, <1>4, <1>5, <1>6, ColumnsStay DEF CodegenOK
<1>12. ASSUME NEW q \in DOMAIN gen' PROVE GenRequestOK(q)'
  <2>1. q \in DOMAIN gen /\ gen'[q] = gen[q] /\ GenRequestOK(q)  BY <1>7 DEF CodegenOK
  <2>2. ASSUME gen[q].do = "import" PROVE ImportOK(q)'
    <3>1. \A n : NotTaken(n) => \A u \in Defined' : tables'[u] = n => u \in mixed'
      BY <1>4, <1>5 DEF NotTaken
    <3> QED  BY <1>7, <2>1, <2>2, <3>1 DEF GenRequestOK, ImportOK, NotTaken
  <2>3. ASSUME gen[q].do \in {"sync", "syncing"} PROVE SyncOK(q)'
    BY <1>1, <1>4, <1>7, <2>1, <2>3 DEF GenRequestOK, SyncOK
  <2>4. ASSUME gen[q].do = "syncing" PROVE PlanOK(q)'
    BY <1>3, <1>5, <1>6, <1>7, <2>1, <2>4, PlanStays DEF GenRequestOK
  <2> QED  BY <2>1, <2>2, <2>3, <2>4 DEF GenRequestOK
<1> QED  BY <1>8, <1>9, <1>10, <1>11, <1>12 DEF CodegenOK

LEMMA SoftDeleteStep == ASSUME CodegenOK, NEW p \in Proc, NEW T, SoftDelete(p, T) PROVE CodegenOK'
<1> DEFINE gone == {c \in DOMAIN columns : columns[c].table \in T}
<1>1. /\ tables' = Without(tables, T) /\ columns' = Without(columns, gone)
      /\ asOf' = Without(asOf, T) /\ mixed' = mixed \ T
      /\ catalog' = catalog /\ given' = given
  BY DEF SoftDelete
<1>2. /\ Defined' = Defined \ T /\ \A t \in Defined' : tables'[t] = tables[t]
  BY <1>1 DEF Defined, Without
<1>3. DOMAIN asOf = Defined  BY DEF CodegenOK, GenData
<1>4. DOMAIN asOf' = Defined' /\ \A t \in Defined' : asOf'[t] = asOf[t]
  BY <1>1, <1>2, <1>3 DEF Without
<1>5. /\ DOMAIN columns' = {c \in DOMAIN columns : columns[c].table \notin T}
      /\ \A c \in DOMAIN columns' : columns'[c] = columns[c]
  <2>1. DOMAIN columns' = DOMAIN columns \ gone  BY <1>1, WithoutFact
  <2>2. DOMAIN columns' = {c \in DOMAIN columns : columns[c].table \notin T}  BY <2>1
  <2> HIDE DEF gone
  <2> QED  BY <1>1, <2>1, <2>2, WithoutFact
<1>6. \A t : t \notin T => ColumnsOf(t)' = ColumnsOf(t) /\ \A c \in ColumnsOf(t) : columns'[c].name = columns[c].name
  BY <1>5 DEF ColumnsOf
<1>7. \A q \in DOMAIN gen' : /\ q \in DOMAIN gen /\ gen'[q] = gen[q]
                             /\ q \in behind => q \in behind'
                             /\ gen[q].do \in {"sync", "syncing"} /\ gen[q].id \in T => q \in behind'
  <2> DEFINE Q == {q \in Serving({"sync", "syncing"}) : gen[q].id \in T}
  <2>1. Done(p, Q)  BY DEF SoftDelete
  <2>2. \A q \in DOMAIN gen : gen[q].do \in {"sync", "syncing"} /\ gen[q].id \in T => q \in Q  BY DEF Serving
  <2> HIDE DEF Q
  <2> QED  BY <2>1, <2>2, DoneFact
<1>8. GenData'
  BY <1>1, <1>2, <1>4, <1>5 DEF CodegenOK, GenData
<1>9. OneDefinition'
  BY <1>1, <1>2 DEF CodegenOK, OneDefinition
<1>10. NoneBehind'
  BY <1>1, <1>2, <1>5 DEF CodegenOK, NoneBehind
<1>11. ASSUME NEW t \in Defined' \ mixed' PROVE AsRead(t)'
  BY <1>1, <1>2, <1>4, <1>6, ColumnsStay DEF CodegenOK
<1>12. ASSUME NEW q \in DOMAIN gen' PROVE GenRequestOK(q)'
  <2>1. q \in DOMAIN gen /\ gen'[q] = gen[q] /\ GenRequestOK(q)  BY <1>7 DEF CodegenOK
  <2>2. ASSUME gen[q].do = "import" PROVE ImportOK(q)'
    <3>1. \A n : NotTaken(n) => \A u \in Defined' : tables'[u] = n => u \in mixed'
      BY <1>1, <1>2 DEF NotTaken
    <3> QED  BY <1>7, <2>1, <2>2, <3>1 DEF GenRequestOK, ImportOK, NotTaken
  <2>3. ASSUME gen[q].do \in {"sync", "syncing"} PROVE SyncOK(q)'
    BY <1>1, <1>2, <1>7, <2>1, <2>3 DEF GenRequestOK, SyncOK
  <2>4. ASSUME gen[q].do = "syncing" PROVE PlanOK(q)'
    <3>1. q \notin behind' => gen[q].id \notin T  BY <1>7, <2>1, <2>4
    <3>2. q \notin behind' /\ gen[q].id \in mixed => gen[q].id \in mixed'  BY <1>1, <3>1
    <3> QED  BY <1>5, <1>6, <1>7, <2>1, <2>4, <3>1, <3>2, PlanStays DEF GenRequestOK
  <2> QED  BY <2>1, <2>2, <2>3, <2>4 DEF GenRequestOK
<1> QED  BY <1>8, <1>9, <1>10, <1>11, <1>12 DEF CodegenOK

LEMMA CodegenStart == CodegenInit => CodegenOK
<1> SUFFICES ASSUME CodegenInit PROVE CodegenOK  OBVIOUS
<1>1. DOMAIN tables = {} /\ DOMAIN columns = {} /\ DOMAIN gen = {} /\ DOMAIN asOf = {}
  BY DEF CodegenInit
<1>2. given = 0 /\ mixed = {} /\ catalog \in [Physical -> Layouts]  BY DEF CodegenInit
<1> QED  BY <1>1, <1>2 DEF CodegenOK, GenData, OneDefinition, NoneBehind, Defined

LEMMA CodegenInvariant == CodegenSpec => []CodegenOK
<1>1. ASSUME CodegenOK, CodegenNext PROVE CodegenOK'
  <2>1. CASE Alter  BY <1>1, <2>1, AlterStep
  <2>2. ASSUME NEW p \in Proc, CodegenStep(p) PROVE CodegenOK'
    <3>1. CASE StartImport(p)  BY <1>1, <3>1, StartImportStep
    <3>2. CASE CheckNext(p)  BY <1>1, <3>2, CheckNextStep
    <3>3. CASE CommitImport(p)  BY <1>1, <3>3, CommitImportStep
    <3>4. CASE StartSync(p)  BY <1>1, <3>4, StartSyncStep
    <3>5. CASE SyncPlan(p)  BY <1>1, <3>5, SyncPlanStep
    <3>6. CASE CommitSync(p)  BY <1>1, <3>6, CommitSyncStep
    <3>7. CASE StartUpdate(p)  BY <1>1, <3>7, StartUpdateStep
    <3>8. CASE CommitUpdate(p)  BY <1>1, <3>8, CommitUpdateStep
    <3>9. CASE StartDelete(p)  BY <1>1, <3>9, StartDeleteStep
    <3>10. CASE CommitDelete(p)  BY <1>1, <3>10, SoftDeleteStep DEF CommitDelete
    <3>11. CASE DeleteList(p)  BY <1>1, <3>11, SoftDeleteStep DEF DeleteList
    <3>12. CASE GenFails(p)  BY <1>1, <3>12, RefusedStep DEF GenFails
    <3> QED  BY <2>2, <3>1, <3>2, <3>3, <3>4, <3>5, <3>6, <3>7, <3>8, <3>9, <3>10, <3>11, <3>12 DEF CodegenStep
  <2> QED  BY <1>1, <2>1, <2>2 DEF CodegenNext
<1>2. ASSUME CodegenOK, UNCHANGED codegenVars PROVE CodegenOK'
  BY <1>2 DEF codegenVars, CodegenOK, GenData, GenRequestOK, ImportOK, NotTaken, SyncOK, PlanOK,
     OneDefinition, NoneBehind, AsRead, Defined, ColumnsOf, ColumnRow
<1> QED  BY <1>1, <1>2, CodegenStart, PTL DEF CodegenSpec

\* As long as the imports, synchronisations and deletions of a definition do not
\* overlap, it lists each field of its table exactly once and no other is of its
\* table (codegen/service.go:43,149, mysql.go:286).
THEOREM DefinitionsStayWhole == CodegenSpec => []DefinitionsWhole
BY CodegenInvariant, WholeFact, PTL
=============================================================================
