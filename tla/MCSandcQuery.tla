---------------------------- MODULE MCSandcQuery ----------------------------
(* Model values for the queries. *)
EXTENDS SandcQuery
CONSTANTS q1, q2
=============================================================================
