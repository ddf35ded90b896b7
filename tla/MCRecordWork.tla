---------------------------- MODULE MCRecordWork ----------------------------
(***************************************************************************)
(* RecordWork with two consumers of one group and three records, the       *)
(* second of which is invalid.                                             *)
(***************************************************************************)
EXTENDS RecordWork

CONSTANTS m1, m2

MCInvalid == {2}
=============================================================================
