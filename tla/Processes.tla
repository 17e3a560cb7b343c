----------------------------- MODULE Processes -----------------------------
(***************************************************************************)
(* The processes of the system: copies of one program that share MySQL,    *)
(* Redis and Nacos.                                                        *)
(***************************************************************************)
EXTENDS Requests

CONSTANT Process

ASSUME ProcessesAssumption == None \notin Process
=============================================================================
