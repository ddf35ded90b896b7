----------------------------- MODULE MCService ------------------------------
(***************************************************************************)
(* The four services, one at a time: two requests, two records of which    *)
(* the second is invalid, a batch of two, one restart, one lost session.   *)
(***************************************************************************)
EXTENDS Service

CONSTANTS q1, q2

MCInvalid == {2}
=============================================================================
