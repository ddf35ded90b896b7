------------------------------ MODULE MCWorkspace ------------------------------
(***************************************************************************)
(* An instance of Workspace: two sessions, two questions, two files and a  *)
(* list of two pages.                                                      *)
(***************************************************************************)
EXTENDS Workspace, TLC

CONSTANTS f1, f2

Interchangeable == Permutations(Files)
================================================================================
