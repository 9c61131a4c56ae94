------------------------------ MODULE MCNtMsg ------------------------------
(* Two contexts, a ring that holds one message and a list that is full at one. *)
EXTENDS NtMsg

CONSTANTS p1, p2
=============================================================================
