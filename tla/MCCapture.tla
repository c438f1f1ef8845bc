------------------------------ MODULE MCCapture ------------------------------
(***************************************************************************)
(* An executable that is declared through a link and a model file, a       *)
(* protected directory, a toolchain of three files, a trace of two files,  *)
(* two tables, and two changes of any of them: enough for one between any  *)
(* two looks at a thing and another one elsewhere, or back again.          *)
(***************************************************************************)
EXTENDS Capture
CONSTANTS Link, Tool, Model, Desktop
Executable == <<Link, Model>>

(* A link that leads anywhere or is none, and directories that are moved to *)
(* the desktop.                                                             *)
Layouts ==
  {r \in [Path -> Path] :
     /\ \A p \in Path : r[r[p]] = r[p]
     /\ r[Desktop] = Desktop /\ r[Tool] # Model /\ r[Model] # Tool
     /\ Link \notin {r[Tool], r[Model]}}
=============================================================================
