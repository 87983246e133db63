---------------------------- MODULE RouteLemmas ----------------------------
(***************************************************************************)
(* Lemmas about the paths of a topology and the entries of srv6_transit,   *)
(* for the proofs about the control loop and about the data plane.         *)
(***************************************************************************)
EXTENDS Topology, TLAPS

(* Links go both ways, and a host has one of them. *)
LEMMA Symmetric ==
  ASSUME NEW a, NEW b, <<a, b>> \in Links
  PROVE  <<b, a>> \in Links
<1>. DEFINE e == <<a, b>>
<1>1. <<e[2], e[1]>> \in Links
  BY TopologyAssumption
<1>. QED BY <1>1

LEMMA SingleUplink ==
  ASSUME NEW h \in Hosts, NEW a, NEW b, <<h, a>> \in Links, <<h, b>> \in Links
  PROVE  a = b
<1>. DEFINE d == <<h, a>>  e == <<h, b>>
<1>1. d[1] = e[1] /\ d[1] \in Hosts => d[2] = e[2]
  BY TopologyAssumption
<1>. QED BY <1>1

(* A simple path between two hosts is a sequence of distinct linked nodes, *)
(* and what lies between its ends are switches.                            *)
LEMMA SimplePathShape ==
  ASSUME NEW s \in Hosts, NEW d \in Hosts, s # d, NEW k \in Nat \ {0},
         NEW p \in SimplePathsOfLen(s, d, k)
  PROVE  /\ p \in Seq(Nodes) /\ Len(p) = k /\ k >= 3
         /\ p[1] = s /\ p[k] = d
         /\ \A i \in 1..(k - 1) : <<p[i], p[i+1]>> \in Links
         /\ \A i, j \in 1..k : p[i] = p[j] => i = j
         /\ \A i \in 2..(k - 1) : p[i] \in SwitchSet
<1>1. /\ p \in [1..k -> Nodes]
      /\ p[1] = s /\ p[k] = d
      /\ \A i \in 1..(k - 1) : <<p[i], p[i+1]>> \in Links
      /\ \A i, j \in 1..k : p[i] = p[j] => i = j
  BY DEF SimplePathsOfLen
<1>2. p \in Seq(Nodes) /\ Len(p) = k
  BY <1>1
<1>3. k # 1
  BY <1>1
<1>4. ASSUME k = 2 PROVE FALSE
  <2>1. <<s, d>> \in Links
    BY <1>1, <1>4
  <2>2. s \in SwitchSet \/ d \in SwitchSet
    BY <2>1, TopologyAssumption
  <2>. QED BY <2>2, TopologyAssumption
<1>5. ASSUME NEW i \in 2..(k - 1), p[i] \notin SwitchSet PROVE FALSE
  <2>1. p[i] \in Hosts
    BY <1>1, <1>5 DEF Nodes
  <2>2. i - 1 \in 1..(k - 1) /\ i \in 1..(k - 1) /\ (i - 1) + 1 = i
    OBVIOUS
  <2>3. <<p[i], p[i+1]>> \in Links /\ <<p[i-1], p[i]>> \in Links
    BY <1>1, <2>2
  <2>4. <<p[i], p[i-1]>> \in Links
    BY <2>3, Symmetric
  <2>5. p[i-1] = p[i+1]
    BY <2>1, <2>3, <2>4, SingleUplink
  <2>6. i - 1 \in 1..k /\ i + 1 \in 1..k /\ i - 1 # i + 1
    OBVIOUS
  <2>. QED BY <1>1, <2>5, <2>6
<1>. QED BY <1>1, <1>2, <1>3, <1>4, <1>5

(* Two hosts of one leaf have the same paths to a target, up to their      *)
(* first node.                                                             *)
LEMMA ReplaceSource ==
  ASSUME NEW s \in Hosts, NEW t \in Hosts, NEW d \in Hosts, s # d, t # d,
         NEW u, <<s, u>> \in Links, <<t, u>> \in Links,
         NEW k \in Nat \ {0}, NEW p \in SimplePathsOfLen(t, d, k)
  PROVE  [p EXCEPT ![1] = s] \in SimplePathsOfLen(s, d, k)
<1>. DEFINE r == [p EXCEPT ![1] = s]
<1>1. /\ p \in [1..k -> Nodes] /\ k >= 3
      /\ p[1] = t /\ p[k] = d
      /\ \A i \in 1..(k - 1) : <<p[i], p[i+1]>> \in Links
      /\ \A i, j \in 1..k : p[i] = p[j] => i = j
      /\ \A i \in 2..(k - 1) : p[i] \in SwitchSet
  BY SimplePathShape DEF SimplePathsOfLen
<1>2. p[2] = u
  <2>1. <<t, p[2]>> \in Links
    BY <1>1
  <2>. QED BY <2>1, SingleUplink
<1>3. r \in [1..k -> Nodes] /\ r[1] = s /\ \A i \in 2..k : r[i] = p[i]
  BY <1>1 DEF Nodes
<1>4. \A i \in 2..k : p[i] # s
  <2>. SUFFICES ASSUME NEW i \in 2..k PROVE p[i] # s
    OBVIOUS
  <2>1. CASE i = k
    BY <2>1, <1>1
  <2>2. CASE i \in 2..(k - 1)
    BY <2>2, <1>1, TopologyAssumption
  <2>. QED BY <2>1, <2>2
<1>5. \A i \in 1..(k - 1) : <<r[i], r[i+1]>> \in Links
  <2>. SUFFICES ASSUME NEW i \in 1..(k - 1) PROVE <<r[i], r[i+1]>> \in Links
    OBVIOUS
  <2>1. CASE i = 1
    BY <2>1, <1>1, <1>2, <1>3
  <2>2. CASE i \in 2..(k - 1)
    BY <2>2, <1>1, <1>3
  <2>. QED BY <2>1, <2>2
<1>6. \A i, j \in 1..k : r[i] = r[j] => i = j
  BY <1>1, <1>3, <1>4
<1>7. r[k] = d
  BY <1>1, <1>3
<1>. QED BY <1>3, <1>5, <1>6, <1>7 DEF SimplePathsOfLen

(* ... and so the same distance to it. *)
LEMMA SameShortestLen ==
  ASSUME NEW s \in Hosts, NEW t \in Hosts, NEW d \in Hosts, s # d, t # d,
         NEW u, <<s, u>> \in Links, <<t, u>> \in Links
  PROVE  ShortestLen(s, d) = ShortestLen(t, d)
<1>1. \A k \in Nat \ {0} : SimplePathsOfLen(s, d, k) = {} <=> SimplePathsOfLen(t, d, k) = {}
  BY ReplaceSource
<1>. DEFINE N == Cardinality(Nodes)
            P(a, k) == /\ SimplePathsOfLen(a, d, k) # {}
                       /\ \A j \in 1..(k - 1) : SimplePathsOfLen(a, d, j) = {}
<1>2. \A k \in 1..N : P(s, k) <=> P(t, k)
  <2>1. \A m : \A j \in 1..m : j \in Nat \ {0}
    OBVIOUS
  <2>. QED BY <1>1, <2>1
<1>. HIDE DEF P, N
<1>3. (CHOOSE k \in 1..N : P(s, k)) = (CHOOSE k \in 1..N : P(t, k))
  BY <1>2
<1>. QED BY <1>3 DEF ShortestLen, P, N

-----------------------------------------------------------------------------

(* A path of a flow runs from its source, over switches, to its target. *)
LEMMA PathShape ==
  ASSUME NEW f \in Flows, NEW p \in FlowPaths(f)
  PROVE  /\ p \in Seq(Nodes)
         /\ Len(p) \in Nat /\ Len(p) >= 3
         /\ Len(p) \in 1..(ShortestLen(Src[f], Dst[f]) + Detour)
         /\ p \in SimplePathsOfLen(Src[f], Dst[f], Len(p))
         /\ p[1] = Src[f] /\ p[Len(p)] = Dst[f]
         /\ <<p[1], p[2]>> \in Links
         /\ \A i \in 2..(Len(p) - 1) : p[i] \in SwitchSet
<1>1. PICK s \in Hosts, d \in Hosts :
        \E k \in 1..(ShortestLen(s, d) + Detour) : p \in SimplePathsOfLen(s, d, k)
  BY DEF FlowPaths, Paths, PathsBetween
<1>2. PICK k \in 1..(ShortestLen(s, d) + Detour) : p \in SimplePathsOfLen(s, d, k)
  BY <1>1
<1>3. p \in [1..k -> Nodes] /\ k \in Nat \ {0} /\ Len(p) = k /\ p[1] = s /\ p[k] = d
  BY <1>2 DEF SimplePathsOfLen
<1>4. s = Src[f] /\ d = Dst[f] /\ s # d
  BY <1>3, FlowsAssumption DEF FlowPaths, Target
<1>. QED BY <1>2, <1>3, <1>4, SimplePathShape

(* A path of the right length between a flow's ends is one of its paths. *)
LEMMA PathIntro ==
  ASSUME NEW f \in Flows, NEW k \in 1..(ShortestLen(Src[f], Dst[f]) + Detour),
         NEW p \in SimplePathsOfLen(Src[f], Dst[f], k)
  PROVE  p \in FlowPaths(f)
<1>1. Src[f] \in Hosts /\ Dst[f] \in Hosts
  BY FlowsAssumption
<1>2. p \in PathsBetween(Src[f], Dst[f])
  BY DEF PathsBetween
<1>3. p \in Paths
  <2>. DEFINE sd == <<Src[f], Dst[f]>>
  <2>1. sd \in Hosts \X Hosts /\ p \in PathsBetween(sd[1], sd[2])
    BY <1>1, <1>2
  <2>. QED BY <2>1 DEF Paths
<1>4. k \in Nat \ {0} /\ p \in [1..k -> Nodes] /\ Len(p) = k /\ p[1] = Src[f] /\ p[k] = Dst[f]
  BY DEF SimplePathsOfLen
<1>. QED BY <1>3, <1>4 DEF FlowPaths, Target

(* All paths of a flow leave its host over the same leaf. *)
LEMMA OneSourceSwitch ==
  ASSUME NEW f \in Flows, NEW p \in FlowPaths(f)
  PROVE  SourceSwitch(p) = SourceSwitch(EcmpPath[f]) /\ SourceSwitch(p) \in SwitchSet
<1>1. EcmpPath[f] \in FlowPaths(f) /\ Src[f] \in Hosts
  BY FlowsAssumption
<1>2. <<Src[f], p[2]>> \in Links /\ p[2] \in SwitchSet
  <2>1. Len(p) \in Nat /\ Len(p) >= 3
    BY PathShape
  <2>2. 2 \in 2..(Len(p) - 1)
    BY <2>1
  <2>. QED BY <2>2, PathShape
<1>3. <<Src[f], EcmpPath[f][2]>> \in Links
  BY <1>1, PathShape
<1>. QED BY <1>1, <1>2, <1>3, SingleUplink DEF SourceSwitch

(* The segments of a path complete the route of every flow that starts at  *)
(* the same leaf and has the same target; for its own flow they give the   *)
(* path itself.                                                            *)
LEMMA Splice ==
  ASSUME NEW f \in Flows, NEW g \in Flows, NEW q \in FlowPaths(g),
         Dst[f] = Dst[g], SourceSwitch(q) = SourceSwitch(EcmpPath[f])
  PROVE  /\ <<Src[f], SourceSwitch(q)>> \o Segments(q) \in FlowPaths(f)
         /\ f = g => <<Src[f], SourceSwitch(q)>> \o Segments(q) = q
<1>. DEFINE r == <<Src[f], SourceSwitch(q)>> \o Segments(q)
            s == Src[f]  t == Src[g]  d == Dst[f]  u == q[2]  k == Len(q)
<1>1. s \in Hosts /\ t \in Hosts /\ d \in Hosts /\ s # d /\ t # d
  BY FlowsAssumption
<1>2. /\ q \in Seq(Nodes) /\ k \in Nat /\ k >= 3 /\ q[1] = t
      /\ k \in 1..(ShortestLen(t, d) + Detour)
      /\ q \in SimplePathsOfLen(t, d, k)
      /\ <<t, u>> \in Links
  <2>1. Dst[g] = d
    OBVIOUS
  <2>2. /\ q \in Seq(Nodes) /\ Len(q) \in Nat /\ Len(q) >= 3
        /\ Len(q) \in 1..(ShortestLen(Src[g], Dst[g]) + Detour)
        /\ q \in SimplePathsOfLen(Src[g], Dst[g], Len(q))
        /\ q[1] = Src[g] /\ <<q[1], q[2]>> \in Links
    BY PathShape
  <2>. QED BY <2>1, <2>2
<1>3. <<s, u>> \in Links
  <2>1. EcmpPath[f] \in FlowPaths(f)
    BY FlowsAssumption
  <2>. QED BY <2>1, PathShape DEF SourceSwitch
<1>4. r = [q EXCEPT ![1] = s]
  <2>1. Segments(q) \in Seq(Nodes) /\ Len(Segments(q)) = k - 2
        /\ \A i \in 1..(k - 2) : Segments(q)[i] = q[i + 2]
    BY <1>2 DEF Segments
  <2>2. r \in Seq(Nodes \union {s, u}) /\ Len(r) = k /\ r[1] = s /\ r[2] = q[2]
        /\ \A i \in 3..k : r[i] = q[i]
    BY <1>2, <2>1 DEF SourceSwitch
  <2>3. [q EXCEPT ![1] = s] \in Seq(Nodes \union {s}) /\ Len([q EXCEPT ![1] = s]) = k
        /\ \A i \in 1..k : [q EXCEPT ![1] = s][i] = IF i = 1 THEN s ELSE q[i]
    BY <1>2
  <2>4. \A i \in 1..k : r[i] = [q EXCEPT ![1] = s][i]
    BY <1>2, <2>2, <2>3
  <2>5. DOMAIN r = 1..k /\ DOMAIN [q EXCEPT ![1] = s] = 1..k
    BY <1>2, <2>2, <2>3
  <2>. HIDE DEF r
  <2>. QED BY <2>2, <2>3, <2>4, <2>5
<1>5. r \in SimplePathsOfLen(s, d, k)
  <2>. HIDE DEF r
  <2>1. k \in Nat \ {0}
    BY <1>2
  <2>. QED BY <2>1, <1>1, <1>2, <1>3, <1>4, ReplaceSource
<1>6. ShortestLen(s, d) = ShortestLen(t, d)
  BY <1>1, <1>2, <1>3, SameShortestLen
<1>7. r \in FlowPaths(f)
  BY <1>2, <1>5, <1>6, PathIntro
<1>8. f = g => r = q
  BY <1>2, <1>4
<1>. QED BY <1>7, <1>8

-----------------------------------------------------------------------------
(* The last switch of a path is the only node linked to its target.        *)
LEMMA LastUplink ==
  ASSUME NEW f \in Flows, NEW p \in FlowPaths(f), NEW x
  PROVE  <<x, Dst[f]>> \in Links <=> x = p[Len(p) - 1]
<1>1. /\ Dst[f] \in Hosts /\ Len(p) \in Nat /\ Len(p) >= 3 /\ p[Len(p)] = Dst[f]
      /\ p \in SimplePathsOfLen(Src[f], Dst[f], Len(p))
  BY PathShape, FlowsAssumption
<1>2. <<p[Len(p) - 1], Dst[f]>> \in Links
  <2>1. Len(p) - 1 \in 1..(Len(p) - 1) /\ (Len(p) - 1) + 1 = Len(p)
    BY <1>1
  <2>. QED BY <1>1, <2>1 DEF SimplePathsOfLen
<1>3. ASSUME <<x, Dst[f]>> \in Links PROVE x = p[Len(p) - 1]
  <2>1. <<Dst[f], x>> \in Links /\ <<Dst[f], p[Len(p) - 1]>> \in Links
    BY <1>2, <1>3, Symmetric
  <2>. QED BY <1>1, <2>1, SingleUplink
<1>. QED BY <1>2, <1>3

(* The nodes of a path, by position: distinct, and linked one to the next. *)
LEMMA PathNodes ==
  ASSUME NEW f \in Flows, NEW p \in FlowPaths(f)
  PROVE  /\ p \in Seq(Nodes) /\ Len(p) \in Nat /\ Len(p) >= 3
         /\ p[1] = Src[f] /\ p[Len(p)] = Dst[f]
         /\ \A i \in 1..Len(p) : p[i] \in Nodes
         /\ \A i \in 1..(Len(p) - 1) : <<p[i], p[i+1]>> \in Links
         /\ \A i, j \in 1..Len(p) : p[i] = p[j] => i = j
         /\ \A i \in 2..(Len(p) - 1) : p[i] \in SwitchSet
         /\ \A i \in 1..Len(p) : p[i] \in Hosts <=> i = 1 \/ i = Len(p)
<1>1. /\ p \in Seq(Nodes) /\ Len(p) \in Nat /\ Len(p) >= 3
      /\ p \in SimplePathsOfLen(Src[f], Dst[f], Len(p))
      /\ p[1] = Src[f] /\ p[Len(p)] = Dst[f]
      /\ \A i \in 2..(Len(p) - 1) : p[i] \in SwitchSet
  BY PathShape
<1>2. /\ \A i \in 1..(Len(p) - 1) : <<p[i], p[i+1]>> \in Links
      /\ \A i, j \in 1..Len(p) : p[i] = p[j] => i = j
  BY <1>1 DEF SimplePathsOfLen
<1>3. \A i \in 1..Len(p) : p[i] \in Nodes
  BY <1>1
<1>4. \A i \in 1..Len(p) : p[i] \in Hosts <=> i = 1 \/ i = Len(p)
  <2>1. Src[f] \in Hosts /\ Dst[f] \in Hosts /\ Hosts \intersect SwitchSet = {}
    BY FlowsAssumption, TopologyAssumption
  <2>2. \A i \in 1..Len(p) : i = 1 \/ i = Len(p) \/ i \in 2..(Len(p) - 1)
    BY <1>1
  <2>. QED BY <1>1, <2>1, <2>2
<1>. QED BY <1>1, <1>2, <1>3, <1>4

(* A path whose first switch has the target's uplink has no other switch.  *)
LEMMA ShortPath ==
  ASSUME NEW f \in Flows, NEW p \in FlowPaths(f), NEW i \in 2..(Len(p) - 1),
         <<p[i], Dst[f]>> \in Links
  PROVE  i = Len(p) - 1 /\ p[i + 1] = Dst[f]
<1>1. /\ Len(p) \in Nat /\ Len(p) >= 3 /\ p[Len(p)] = Dst[f]
      /\ \A k, j \in 1..Len(p) : p[k] = p[j] => k = j
  BY PathNodes
<1>2. p[i] = p[Len(p) - 1]
  BY LastUplink
<1>3. i = Len(p) - 1
  <2>1. i \in 1..Len(p) /\ Len(p) - 1 \in 1..Len(p)
    BY <1>1
  <2>. QED BY <1>1, <1>2, <2>1
<1>. QED BY <1>1, <1>3

-----------------------------------------------------------------------------
(* Tables of which every entry was exported, for a path of some flow that  *)
(* starts at the entry's leaf and has the entry's target.                  *)
Exported(table) ==
  \A s \in SwitchSet, h \in Hosts : table[s][h] # NoPath =>
    \E g \in Flows : \E q \in FlowPaths(g) :
      SourceSwitch(q) = s /\ Dst[g] = h /\ table[s][h] = Segments(q)

(* Under such a table every flow is on one of its own paths: ECMP's, or    *)
(* the one that the entry completes.                                       *)
LEMMA RouteUnderOwned ==
  ASSUME NEW table, Exported(table), NEW f \in Flows
  PROVE  LET s == SourceSwitch(EcmpPath[f])
             r == RouteUnder(table, f)
         IN  /\ s \in SwitchSet /\ Dst[f] \in Hosts
             /\ r \in FlowPaths(f)
             /\ table[s][Dst[f]] = NoPath => r = EcmpPath[f]
             /\ table[s][Dst[f]] # NoPath =>
                  /\ r = <<Src[f], s>> \o table[s][Dst[f]]
                  /\ \E g \in Flows : \E q \in FlowPaths(g) :
                       SourceSwitch(q) = s /\ Dst[g] = Dst[f] /\ table[s][Dst[f]] = Segments(q)
<1>. DEFINE s == SourceSwitch(EcmpPath[f])
<1>1. EcmpPath[f] \in FlowPaths(f) /\ s \in SwitchSet /\ Dst[f] \in Hosts
  BY FlowsAssumption, OneSourceSwitch
<1>2. CASE table[s][Dst[f]] = NoPath
  BY <1>1, <1>2 DEF RouteUnder
<1>3. CASE table[s][Dst[f]] # NoPath
  <2>1. PICK g \in Flows : \E q \in FlowPaths(g) :
          SourceSwitch(q) = s /\ Dst[g] = Dst[f] /\ table[s][Dst[f]] = Segments(q)
    BY <1>1, <1>3 DEF Exported
  <2>2. PICK q \in FlowPaths(g) :
          SourceSwitch(q) = s /\ Dst[g] = Dst[f] /\ table[s][Dst[f]] = Segments(q)
    BY <2>1
  <2>3. RouteUnder(table, f) = <<Src[f], SourceSwitch(q)>> \o Segments(q)
    BY <1>3, <2>2 DEF RouteUnder
  <2>. QED BY <1>1, <1>3, <2>2, <2>3, Splice
<1>. QED BY <1>2, <1>3
=============================================================================
