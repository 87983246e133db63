----------------------------- MODULE FlowRouting -----------------------------
(***************************************************************************)
(* What the control loop promises, flow by flow: every flow is on one of   *)
(* its own paths at any time, and a step of the collector moves at most    *)
(* one flow.                                                               *)
(***************************************************************************)
CONSTANTS Flows, PathsOf

VARIABLE route

Init ==
  /\ route \in [Flows -> UNION {PathsOf[f] : f \in Flows}]
  /\ \A f \in Flows : route[f] \in PathsOf[f]

Reroute(f) == \E p \in PathsOf[f] : route' = [route EXCEPT ![f] = p]

Next == \E f \in Flows : Reroute(f)

Spec == Init /\ [][Next]_route
=============================================================================
