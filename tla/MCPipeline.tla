------------------------------ MODULE MCPipeline ------------------------------
(***************************************************************************)
(* Instances of Pipeline: one document with two sections; two documents,   *)
(* one of them empty, named by one notification; and a malformed document. *)
(***************************************************************************)
EXTENDS Pipeline, TLC

CONSTANTS u1, u2, w1, w2

TwoSections == [u \in Uploads |-> 2]
OneAndNone == (u1 :> 1) @@ (u2 :> 0)
OneSection == [u \in Uploads |-> 1]

Alone == {<<u1>>}
Together == {<<u1, u2>>}

Nothing == {}
FirstMalformed == {u1}

WorkerSymmetry == Permutations(Workers)
===============================================================================
