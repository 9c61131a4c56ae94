------------------------------- MODULE MCSki -------------------------------
(* Two threads linked by two channels, one in each direction, and a third that
   may close them. *)
EXTENDS Ski, TLC

CONSTANTS a, b, d, c1, c2

TwoWayReaders == c1 :> {b} @@ c2 :> {a}
TwoWayWriters == c1 :> {a} @@ c2 :> {b}
Lengths == c1 :> 2 @@ c2 :> 1
AnyCloser == c1 :> {a, b, d} @@ c2 :> {d}
=============================================================================
