---------------------------- MODULE MCLiveUpdates -----------------------------
(***************************************************************************)
(* LiveUpdates with one replica and one browser.  Replicas share nothing,  *)
(* and a browser that reconnects may find the listener of the one replica  *)
(* in any state it could find another replica's in.                        *)
(***************************************************************************)
EXTENDS LiveUpdates

CONSTANTS r1, c1
===============================================================================
