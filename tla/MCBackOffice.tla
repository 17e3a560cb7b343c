---------------------------- MODULE MCBackOffice ----------------------------
(***************************************************************************)
(* The back office, for model checking: its tables, the messages it sends, *)
(* the files it stores, the students of the demo and the definitions of    *)
(* the code generator.  They share no state, so each behaviour is about    *)
(* one of them.                                                            *)
(***************************************************************************)
EXTENDS Tables, Messages, Files, Students, Codegen, TLC

VARIABLE focus

backVars == <<crudVars, messageVars, fileVars, studentVars, codegenVars, focus>>

MCInit ==
  /\ focus \in {"tables", "messages", "files", "students", "codegen"}
  /\ TablesInit /\ MessagesInit /\ FilesInit /\ StudentsInit /\ CodegenInit
  /\ focus # "tables" => topic = {"notice"} /\ nextId = 0
  /\ focus # "messages" => channel = "site"
  /\ focus # "files" => storage = "db"
  /\ focus # "codegen" => \A n \in Physical : Len(catalog[n]) = 2

MCTables ==
  /\ focus = "tables" /\ TablesNext
  /\ UNCHANGED <<messageVars, fileVars, studentVars, codegenVars, focus>>
MCMessages ==
  /\ focus = "messages" /\ MessagesNext
  /\ UNCHANGED <<crudVars, fileVars, studentVars, codegenVars, focus>>
MCFiles ==
  /\ focus = "files" /\ FilesNext
  /\ UNCHANGED <<crudVars, messageVars, studentVars, codegenVars, focus>>
MCStudents ==
  /\ focus = "students" /\ StudentsNext
  /\ UNCHANGED <<crudVars, messageVars, fileVars, codegenVars, focus>>
MCCodegen ==
  /\ focus = "codegen" /\ CodegenNext
  /\ UNCHANGED <<crudVars, messageVars, fileVars, studentVars, focus>>

MCNext == MCTables \/ MCMessages \/ MCFiles \/ MCStudents \/ MCCodegen

MCSpec == MCInit /\ [][MCNext]_backVars

MCSymmetry == Permutations(Proc) \union Permutations(Name) \union Permutations(Code)
=============================================================================
