-------------------------- MODULE MC_RoutePlanning --------------------------
(* RoutePlanning with one comparison of three destinations beside a single     *)
(* plan; routes have one or two points, or more than the budget.             *)
EXTENDS RoutePlanning

CONSTANTS c1, c2

MC_Clients == {c1, c2}
MC_Destinations == [c \in MC_Clients |-> IF c = c1 THEN 3 ELSE 1]
MC_Routes == {[points |-> 1, life |-> 2], [points |-> 2, life |-> 1], [points |-> 4, life |-> 1]}
=============================================================================
