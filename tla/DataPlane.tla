----------------------------- MODULE DataPlane -----------------------------
(***************************************************************************)
(* The P4 program, one switch traversal per step: IPv6 packets over UDP    *)
(* cross the fabric while the collector rewrites srv6_transit.             *)
(*                                                                         *)
(* A sampled packet gets an INT stack at its source leaf; every switch     *)
(* puts its metadata on top; the sink leaf strips the stack and mirrors    *)
(* the packet, as it came in, to the collector.  A packet whose target is  *)
(* in srv6_transit of the source leaf gets an SRv6 header, which the last  *)
(* segment before the host pops.                                           *)
(***************************************************************************)
EXTENDS Topology

CONSTANTS
  Dscps,        (* the traffic classes hosts use                           *)
  DscpInt,      (* DSCP_INT: "INT headers follow"                          *)
  Lengths,      (* the lengths of what hosts send after the IPv6 header    *)
  Modulus,      (* 2^16: the lengths in the headers are bit<16>            *)
  MaxHop,       (* configure_source's max_hop                              *)
  Slots,        (* bound: the packets in the fabric at once                *)
  Idle,         (* an empty slot, no packet                                *)
  Absent        (* an invalid header                                       *)

VARIABLES
  srv6_transit, (* the srv6_transit table of each switch                   *)
  packets,      (* the packets in the fabric                               *)
  received,     (* the last packet a host received                         *)
  report        (* the last report mirrored to the collector, with the     *)
                (* nodes its packet really crossed                         *)

vars == <<srv6_transit, packets, received, report>>

ASSUME DataPlaneAssumption ==
  /\ DscpInt \notin Dscps       (* else a switch parses payload as INT *)
  /\ Lengths \subseteq 0..(Modulus - 1)
  /\ Modulus \in Nat \ {0} /\ MaxHop \in Nat

(* INT_ALL_HEADER_LEN_BYTES (shim and header), and what a switch adds with *)
(* instruction mask 0x9000: its id and the depth of its queue.             *)
IntHeaderBytes == 12
HopBytes == 8

(* The bytes of an SRv6 header with n segments. *)
SrhBytes(n) == 8 + 16 * n

Reversed(s) == [i \in DOMAIN s |-> s[Len(s) + 1 - i]]

Bit16 == 0..(Modulus - 1)

SrhHeader == [list : Seq(Nodes), left : Nat]
IntHeader == [len : Nat, dscp : Dscps, remaining : Nat, e : BOOLEAN, hops : Seq(Nodes)]

(* Ghost: trail is the nodes a packet has crossed, route the path that its *)
(* source leaf chose.                                                      *)
Packet ==
  [flow : Flows, at : Nodes, dst : Nodes, dscp : Dscps \union {DscpInt},
   plen : Bit16, ulen : Bit16, srh : SrhHeader \union {Absent},
   int : IntHeader \union {Absent}, trail : Seq(Nodes), route : Seq(Nodes)]

(* What a host makes of a packet: bare says that no header is left over.   *)
HostPacket ==
  [flow : Flows, content : [dscp : Dscps, bare : BOOLEAN, plen : Bit16, ulen : Bit16]]

ASSUME SentinelAssumption ==
  Absent \notin SrhHeader \union IntHeader /\ Idle \notin Packet \union HostPacket

-----------------------------------------------------------------------------
(* Ingress.                                                                *)

(* Int_source, on a packet that is sampled: configure_source. *)
IntSource(p) ==
  [p EXCEPT !.int = [len |-> IntHeaderBytes \div 4, dscp |-> p.dscp,
                     remaining |-> MaxHop, e |-> FALSE, hops |-> <<>>],
            !.dscp = DscpInt,
            !.plen = (@ + IntHeaderBytes) % Modulus,
            !.ulen = (@ + IntHeaderBytes) % Modulus]

(* srv6_end: move on to the next segment.  srv6_list[0] is the last one,   *)
(* so the parser finds the next at index segment_left - 1.                 *)
Srv6End(p) ==
  IF p.srh = Absent THEN p
  ELSE [p EXCEPT !.srh.left = @ - 1, !.dst = p.srh.list[p.srh.left]]

Srv6Pop(p) ==
  IF p.srh # Absent /\ p.srh.left = 0
  THEN [p EXCEPT !.srh = Absent, !.plen = (@ - SrhBytes(Len(p.srh.list))) % Modulus]
  ELSE p

(* srv6_t_insert_2 and srv6_t_insert_3. *)
Srv6InsertForward(p, segments) ==        (* mutant: the list is not reversed *)
  [p EXCEPT !.srh = [list |-> segments, left |-> Len(segments) - 1],
            !.dst = segments[1],
            !.plen = (@ + SrhBytes(Len(segments))) % Modulus]

Srv6Insert(p, segments) ==
  [p EXCEPT !.srh = [list |-> Reversed(segments), left |-> Len(segments) - 1],
            !.dst = segments[1],
            !.plen = (@ + SrhBytes(Len(segments))) % Modulus]

(* SRv6: a segment of this switch, else a target to route, else nothing.   *)
SRv6(s, p) ==
  CASE p.dst = s -> Srv6Pop(Srv6End(p))
    [] p.dst \in Hosts /\ srv6_transit[s][p.dst] # NoPath ->
         Srv6Insert(p, srv6_transit[s][p.dst])
    [] OTHER -> p

(* ipv6_lpm: a neighbour, be it a host or a segment, is routed to          *)
(* directly; a spine knows the leaf of every host; a leaf hashes packets   *)
(* for other leaves to a spine, like every leaf would.                     *)
Neighbours(s) == {n \in Nodes : <<s, n>> \in Links}
LeafOf(h) == CHOOSE s \in SwitchSet : <<h, s>> \in Links
IsLeaf(s) == \E h \in Hosts : <<s, h>> \in Links

(* The fabric of TopoGenerator: ECMP goes up to one spine, to which no     *)
(* host is linked, and down again; max_hop is 4.                           *)
ASSUME FabricAssumption ==
  /\ \A f \in Flows : /\ Len(EcmpPath[f]) <= 5
                      /\ Len(EcmpPath[f]) = 5 => ~IsLeaf(EcmpPath[f][3])
  /\ MaxHop >= 3

NextHop(s, p) ==
  CASE p.dst \in Neighbours(s) -> p.dst
    [] p.dst \notin Neighbours(s) /\ IsLeaf(s) -> EcmpPath[p.flow][3]
    [] p.dst \notin Neighbours(s) /\ ~IsLeaf(s) -> LeafOf(p.dst)

-----------------------------------------------------------------------------
(* Egress.                                                                 *)

(* Int_transit: put this switch on top of the INT stack. *)
IntTransitBelow(s, p) ==                 (* mutant: below, not on top *)
  IF p.int = Absent THEN p
  ELSE IF p.int.remaining = 0 \/ p.int.e THEN [p EXCEPT !.int.e = TRUE]
  ELSE [p EXCEPT !.int.remaining = @ - 1,
                 !.int.hops = Append(@, s),
                 !.int.len = @ + HopBytes \div 4,
                 !.plen = (@ + HopBytes) % Modulus,
                 !.ulen = (@ + HopBytes) % Modulus]

IntTransitSilent(s, p) ==                (* mutant: the shim is not told *)
  IF p.int = Absent THEN p
  ELSE IF p.int.remaining = 0 \/ p.int.e THEN [p EXCEPT !.int.e = TRUE]
  ELSE [p EXCEPT !.int.remaining = @ - 1,
                 !.int.hops = <<s>> \o @,
                 !.plen = (@ + HopBytes) % Modulus,
                 !.ulen = (@ + HopBytes) % Modulus]

IntTransit(s, p) ==
  IF p.int = Absent THEN p
  ELSE IF p.int.remaining = 0 \/ p.int.e THEN [p EXCEPT !.int.e = TRUE]
  ELSE [p EXCEPT !.int.remaining = @ - 1,
                 !.int.hops = <<s>> \o @,
                 !.int.len = @ + HopBytes \div 4,
                 !.plen = (@ + HopBytes) % Modulus,
                 !.ulen = (@ + HopBytes) % Modulus]

(* Int_sink on the packet that goes to the host: remove_sink_header. *)
RemoveKeepingDscp(p) ==                  (* mutant: the class stays DSCP_INT *)
  IF p.int = Absent THEN p
  ELSE [p EXCEPT !.int = Absent,
                 !.plen = (@ - 4 * p.int.len) % Modulus,
                 !.ulen = (@ - 4 * p.int.len) % Modulus]

RemoveSinkHeader(p) ==
  IF p.int = Absent THEN p
  ELSE [p EXCEPT !.int = Absent,
                 !.dscp = p.int.dscp,
                 !.plen = (@ - 4 * p.int.len) % Modulus,
                 !.ulen = (@ - 4 * p.int.len) % Modulus]

(* Int_sink on the clone: the report, as IntReport reads it.  The target   *)
(* is the last segment when the packet has segments.                       *)
MakeReport(p, trail) ==
  [src |-> Src[p.flow], dst |-> IF p.srh = Absent THEN p.dst ELSE p.srh.list[1],
   hops |-> p.int.hops, trail |-> trail]

-----------------------------------------------------------------------------

Init ==
  /\ srv6_transit = [s \in SwitchSet |-> [h \in Hosts |-> NoPath]]
  /\ packets = [k \in Slots |-> Idle]
  /\ received = Idle
  /\ report = Absent

(* The collector installs a route (export_path). *)
Install(p) ==
  /\ Exportable(p)
  /\ srv6_transit' = [srv6_transit EXCEPT ![SourceSwitch(p)][Target(p)] = Segments(p)]
  /\ UNCHANGED <<packets, received, report>>

(* A host sends a packet to its leaf. *)
Send(k, f, dscp, len) ==
  /\ packets[k] = Idle
  /\ packets' = [packets EXCEPT ![k] =
       [flow |-> f, at |-> LeafOf(Src[f]), dst |-> Dst[f],
        dscp |-> dscp, plen |-> len, ulen |-> len, srh |-> Absent, int |-> Absent,
        trail |-> <<Src[f], LeafOf(Src[f])>>, route |-> <<Src[f], LeafOf(Src[f])>>]]
  /\ UNCHANGED <<srv6_transit, received, report>>

(* A switch forwards a packet.  One that came in from a host is sampled    *)
(* with probability 1/proportion.                                          *)
FromHost(p) == Len(p.trail) = 2

Forward(k, sampled) ==
  LET p == packets[k]
      s == p.at
      ingress == SRv6(s, IF sampled THEN IntSource(p) ELSE p)
      next == NextHop(s, ingress)
      sink == next \in Hosts /\ ingress.int # Absent
      egress == IntTransit(s, ingress)
      onward == IF sink THEN RemoveSinkHeader(egress) ELSE egress
      trail == Append(p.trail, next)
  IN /\ p # Idle /\ p.at \in SwitchSet
     /\ sampled => FromHost(p)
     /\ packets' = [packets EXCEPT ![k] =
          [onward EXCEPT !.at = next, !.trail = trail,
             !.route = IF FromHost(p) THEN RouteUnder(srv6_transit, p.flow) ELSE @]]
     /\ report' = IF sink /\ p.int # Absent THEN MakeReport(IntTransit(s, p), trail)
                  ELSE report
     /\ UNCHANGED <<srv6_transit, received>>

(* A queue is full, or a link fails. *)
Lose(k) ==
  /\ packets[k] # Idle
  /\ packets' = [packets EXCEPT ![k] = Idle]
  /\ UNCHANGED <<srv6_transit, received, report>>

Content(p, bare, dscp, extra) ==
  [flow |-> p.flow,
   content |-> [dscp |-> dscp, bare |-> bare,
                plen |-> (p.plen - extra.plen) % Modulus,
                ulen |-> (p.ulen - extra.ulen) % Modulus]]

Receive(k) ==
  LET p == packets[k] IN
  /\ p # Idle /\ p.at \in Hosts
  /\ received' = [at |-> p.at,
                  packet |-> Content(p, p.srh = Absent /\ p.int = Absent, p.dscp,
                                     [plen |-> 0, ulen |-> 0])]
  /\ packets' = [packets EXCEPT ![k] = Idle]
  /\ UNCHANGED <<srv6_transit, report>>

Next ==
  \/ \E p \in AllPaths : Install(p)
  \/ \E k \in Slots :
       \/ \E f \in Flows, dscp \in Dscps, len \in Lengths : Send(k, f, dscp, len)
       \/ \E sampled \in BOOLEAN : Forward(k, sampled)
       \/ Lose(k)
       \/ Receive(k)

Spec == Init /\ [][Next]_vars

-----------------------------------------------------------------------------
(* Properties.                                                             *)

(* The stacks of headers.p4 are never overrun: three segments, and no more *)
(* INT metadata than max_hop allows; len always says how much there is.    *)
TypeOK ==
  /\ srv6_transit \in [SwitchSet -> [Hosts -> {Segments(p) : p \in AllPaths} \union {NoPath}]]
  /\ \A k \in Slots : packets[k] # Idle =>
       LET p == packets[k] IN
       /\ p.flow \in Flows /\ p.at \in Nodes /\ p.dst \in Nodes
       /\ p.dscp \in Dscps \union {DscpInt} /\ p.plen \in Bit16 /\ p.ulen \in Bit16
       /\ p.srh # Absent => /\ Len(p.srh.list) \in 2..3
                            /\ p.srh.left \in 1..(Len(p.srh.list) - 1)
       /\ p.int # Absent => /\ p.int.remaining = MaxHop - Len(p.int.hops)
                            /\ p.int.len = 3 + 2 * Len(p.int.hops)
                            /\ p.dscp = DscpInt

(* However the table changes while it is under way, a packet stays on the  *)
(* path its source leaf chose: a switch further on neither reroutes it nor *)
(* sends it round.  This is what lets the control loop (module NetGraph)   *)
(* speak of the route of a flow.                                           *)
FollowsSourceRoute ==
  \A k \in Slots : packets[k] # Idle =>
    LET p == packets[k] IN
    /\ p.trail = SubSeq(p.route, 1, Len(p.trail))
    /\ p.at \in Hosts => p.trail = p.route

(* update_infos of the collector rebuilds the path of a packet from its    *)
(* report: it is the path the packet took, even though the report is made  *)
(* from the packet as it was before its sink leaf handled it.              *)
ReportTellsRoute ==
  report # Absent =>
    <<report.src>> \o Reversed(report.hops) \o <<report.dst>> = report.trail

(* The fabric implements a network that delivers packets as they were      *)
(* sent: inserting and popping SRv6 headers, sampling, and stripping INT   *)
(* leave no trace in the class, the lengths or the headers of what a host  *)
(* receives, and every hop keeps the lengths equal to the bytes carried.   *)
Restored(p) ==
  LET int == IF p.int = Absent THEN 0 ELSE IntHeaderBytes + HopBytes * Len(p.int.hops)
      srh == IF p.srh = Absent THEN 0 ELSE SrhBytes(Len(p.srh.list))
  IN Content(p, TRUE, IF p.int = Absent THEN p.dscp ELSE p.int.dscp,
             [plen |-> int + srh, ulen |-> int])

Net == INSTANCE Network WITH
  Payloads <- [dscp : Dscps, bare : {TRUE}, plen : Lengths, ulen : Lengths],
  inFlight <- [k \in Slots |-> IF packets[k] = Idle THEN Idle ELSE Restored(packets[k])]

DeliversAsSent == Net!Spec
=============================================================================
