----------------------------- MODULE MCNetGraph -----------------------------
(* Instances of the control loop: leaf-spine fabrics like topos/test.json. *)
EXTENDS NetGraph, TLC

CONSTANTS h1, h2, h3, h4, LE1, LE2, LE3, SP1, SP2, fA, fB, none

Symm(L) == L \union {<<e[2], e[1]>> : e \in L}

(* Two leaves, two spines; h1 and h2 on LE1, h3 on LE2. *)
Hosts2 == {h1, h2, h3}
Switches2 == <<LE1, LE2, SP1, SP2>>
Links2 == Symm(({h1, h2} \X {LE1}) \union {<<h3, LE2>>} \union ({LE1, LE2} \X {SP1, SP2}))
CostTwo == [e \in Fabric |-> 2]

(* Three leaves, two spines; h1 on LE1, h3 on LE2, h4 on LE3. *)
HostsY == {h1, h3, h4}
SwitchesY == <<LE1, LE2, LE3, SP1, SP2>>
LinksY == Symm({<<h1, LE1>>, <<h3, LE2>>, <<h4, LE3>>} \union ({LE1, LE2, LE3} \X {SP1, SP2}))

(* Two flows that start at one leaf: to the same target (fB from h2) or to *)
(* targets on two leaves (fB from h1).                                     *)
SharedSrc == [f \in {fA, fB} |-> IF f = fA THEN h1 ELSE h2]
SharedDst == [f \in {fA, fB} |-> h3]
SplitSrc == [f \in {fA, fB} |-> h1]
SplitDst == [f \in {fA, fB} |-> IF f = fA THEN h3 ELSE h4]

OwnKey == [f \in Flows |-> f]
CollidingKey == [f \in Flows |-> fA]

(* ECMP sends every flow over the first spine. *)
EcmpFirst == [f \in Flows |-> <<Src[f], LE1, SP1, IF Dst[f] = h3 THEN LE2 ELSE LE3, Dst[f]>>]
EcmpSplit == [f \in Flows |-> <<Src[f], LE1, IF f = fA THEN SP1 ELSE SP2, LE2, Dst[f]>>]
=============================================================================
