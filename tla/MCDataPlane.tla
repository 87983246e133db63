----------------------------- MODULE MCDataPlane -----------------------------
(* Two leaves and two spines.  fA and fB share a source leaf and a       *)
(* target, fC stays within a leaf; ECMP puts fA and fB on different spines. *)
EXTENDS DataPlane

CONSTANTS h1, h2, h3, LE1, LE2, SP1, SP2, fA, fB, fC

Symm(L) == L \union {<<e[2], e[1]>> : e \in L}

MCHosts == {h1, h2, h3}
MCSwitches == <<LE1, LE2, SP1, SP2>>
MCLinks == Symm(({h1, h2} \X {LE1}) \union {<<h3, LE2>>} \union ({LE1, LE2} \X {SP1, SP2}))

MCSrc == [f \in Flows |-> IF f = fB THEN h2 ELSE h1]
MCDst == [f \in Flows |-> IF f = fC THEN h2 ELSE h3]
MCEcmpPath ==
  [f \in Flows |-> IF f = fC THEN <<h1, LE1, h2>>
                   ELSE <<MCSrc[f], LE1, IF f = fA THEN SP1 ELSE SP2, LE2, h3>>]
=============================================================================
