---------------------------- MODULE MCClientView ----------------------------
(* Two entities: a near, small one and a far one whose record alone exceeds   *)
(* the budget.                                                                *)
EXTENDS ClientView

MCWeight == [i \in Ids |-> IF i = 1 THEN 2 ELSE 1]
MCCost == [i \in Ids |-> IF i = 1 THEN 1 ELSE 3]
=============================================================================
