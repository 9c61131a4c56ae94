------------------------------- MODULE MCTbq -------------------------------
(* Two rules; a flow that both rules match and one that only the second does. *)
EXTENDS Tbq, TLC

CONSTANTS c1, c2, u1, u2, f, g

OneUser  == [x \in Flows |-> u1]
TwoUsers == f :> u1 @@ g :> u2
Masks    == [x \in Flows |-> IF x = f THEN {1, 2} ELSE {2}]
Weights  == [x \in Users \X Rules |-> IF x[1] = u1 THEN 1 ELSE 2]
Rates    == [x \in {<<r>> : r \in Rules} \union (Users \X Rules) |-> IF Len(x) = 1 THEN 2 ELSE 1]
=============================================================================
