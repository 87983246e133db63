------------------------------ MODULE MCFlowlet ------------------------------
(* Three flows on two registers: fA and fB collide. *)
EXTENDS Flowlet

CONSTANTS fA, fB, fC, s1, s2, r1, r2

Collide == [f \in Flows |-> IF f = fC THEN r2 ELSE r1]
=============================================================================
