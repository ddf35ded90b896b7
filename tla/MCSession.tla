------------------------------ MODULE MCSession -------------------------------
(***************************************************************************)
(* Instances of Session: tabs and calls are interchangeable.               *)
(***************************************************************************)
EXTENDS Session, TLC

CONSTANTS t1, t2, a, b

Interchangeable == Permutations(Tabs) \cup Permutations(Lanes)
===============================================================================
