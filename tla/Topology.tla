------------------------------ MODULE Topology ------------------------------
(***************************************************************************)
(* The graph of topology.json, the paths the collector picks from, and the *)
(* flows that use them.  Nodes are hosts and switches; a switch's id is    *)
(* its position in the list NetGraph.switches, counted from 1.  A path is  *)
(* the sequence of node names that networkx returns: source host,          *)
(* switches, target host.                                                  *)
(***************************************************************************)
EXTENDS Integers, Sequences, FiniteSets

CONSTANTS
  Hosts,      (* the host nodes of the graph                               *)
  Switches,   (* the P4 switch nodes, in the order of NetGraph.switches    *)
  Links,      (* the edges of the graph, as a symmetric set of node pairs  *)
  Detour,     (* NetGraph.detour: hops allowed beyond the shortest path    *)
  Flows,      (* the 5-tuples that send IPv6 traffic                       *)
  Src, Dst,   (* their source and destination hosts                        *)
  EcmpPath,   (* the path ECMP hashes each flow to                         *)
  NoPath      (* an absent table entry or digest                           *)

SwitchSet == {Switches[i] : i \in DOMAIN Switches}
Nodes == Hosts \union SwitchSet

ASSUME TopologyAssumption ==
  /\ Switches \in Seq(SwitchSet)
  /\ Hosts \intersect SwitchSet = {}
  /\ Links \subseteq Nodes \X Nodes
  /\ \A e \in Links : <<e[2], e[1]>> \in Links
  /\ \A e \in Links : e[1] \in SwitchSet \/ e[2] \in SwitchSet
  /\ \A d, e \in Links :                    (* a host has a single uplink *)
       d[1] = e[1] /\ d[1] \in Hosts => d[2] = e[2]
  /\ Detour \in Nat

-----------------------------------------------------------------------------

(* The simple paths from s to d that visit exactly k nodes. *)
SimplePathsOfLen(s, d, k) ==
  {p \in [1..k -> Nodes] :
     /\ p[1] = s /\ p[k] = d
     /\ \A i \in 1..(k - 1) : <<p[i], p[i+1]>> \in Links
     /\ \A i, j \in 1..k : p[i] = p[j] => i = j}

(* nx.shortest_path_length, counted in nodes instead of edges. *)
ShortestLen(s, d) ==
  CHOOSE k \in 1..Cardinality(Nodes) :
    /\ SimplePathsOfLen(s, d, k) # {}
    /\ \A j \in 1..(k - 1) : SimplePathsOfLen(s, d, j) = {}

(* nx.all_simple_paths with cutoff = shortest length + detour. *)
PathsBetween(s, d) ==
  UNION {SimplePathsOfLen(s, d, k) : k \in 1..(ShortestLen(s, d) + Detour)}

(* The cache NetGraph.paths, filled for every pair of hosts. *)
Paths == UNION {PathsBetween(sd[1], sd[2]) : sd \in Hosts \X Hosts}

-----------------------------------------------------------------------------

(* The switch-to-switch edges, the only ones whose weight ever moves. *)
Fabric == {e \in Links : e[1] \in SwitchSet /\ e[2] \in SwitchSet}

(* The directed fabric edges a path crosses. *)
EdgesOf(p) == {<<p[i], p[i+1]>> : i \in 2..(Len(p) - 2)}

SourceSwitch(p) == p[2]
SinkSwitch(p) == p[Len(p) - 1]
Target(p) == p[Len(p)]

(* The switches of a path: the key of path_infos. *)
SwitchesOf(p) == SubSeq(p, 2, Len(p) - 1)

(* What path_to_ips(p)[1:] keeps of a path: the segment list that follows  *)
(* the source switch and ends with the target host.  (Mutant: it is cut    *)
(* twice.)                                                                 *)
SegmentsCutTwice(p) == SubSeq(p, 4, Len(p))
Segments(p) == SubSeq(p, 3, Len(p))

(* get_p4switch_id: the id of a switch. *)
SwitchId(sw) == CHOOSE i \in DOMAIN Switches : Switches[i] = sw

-----------------------------------------------------------------------------
(* Flows and the table that routes them.                                   *)

FlowPaths(f) == {p \in Paths : p[1] = Src[f] /\ Target(p) = Dst[f]}
AllPaths == UNION {FlowPaths(f) : f \in Flows}

ASSUME FlowsAssumption ==
  /\ Src \in [Flows -> Hosts] /\ Dst \in [Flows -> Hosts]
  /\ \A f \in Flows : Src[f] # Dst[f]
  /\ DOMAIN EcmpPath = Flows
  /\ \A f \in Flows : EcmpPath[f] \in FlowPaths(f)
  /\ \A p \in AllPaths : NoPath # p /\ NoPath # Segments(p)

(* The exports that can succeed: the switches have an insert action for 2  *)
(* and for 3 segments, and thrift_switches has no slot for the last id.    *)
Exportable(p) ==
  /\ Len(Segments(p)) \in {2, 3}
  /\ SwitchId(SourceSwitch(p)) < Len(Switches)

(* The path that the tables srv6_transit give a flow: its source leaf      *)
(* looks the target up; on a miss ECMP routes the packet.                  *)
RouteUnder(table, f) ==
  LET ecmp == EcmpPath[f]
      entry == table[SourceSwitch(ecmp)][Dst[f]]
  IN IF entry = NoPath THEN ecmp ELSE <<Src[f], SourceSwitch(ecmp)>> \o entry
=============================================================================
