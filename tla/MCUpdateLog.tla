---------------------------- MODULE MCUpdateLog ----------------------------
(* Model values for the requests. *)
EXTENDS UpdateLog
CONSTANTS t1, t2, t3
=============================================================================
