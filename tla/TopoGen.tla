------------------------------ MODULE TopoGen ------------------------------
(***************************************************************************)
(* The forwarding tables that TopoGenerator.py writes for a spine-leaf     *)
(* fabric, and the journey of a packet through them.                       *)
(*                                                                         *)
(* Switches are numbered from 1, leaves first; a node is <<s, 0>>, switch  *)
(* s, or <<l, x>>, host x of leaf l.  Addresses are triples:               *)
(*   <<0, l, x>>   host x of leaf l, 2002::a00:<l><x> or 10.0.l.x          *)
(*   <<1, s, l>>   leaf l's port to spine s, fe80::201:aff:fe00:<s><l>     *)
(*   <<2, s, l>>   spine s's port to leaf l, fe80::202:aff:fe00:<s><l>     *)
(* The two numbers are the two lowest bytes of the address.                *)
(***************************************************************************)
EXTENDS Integers, Sequences

CONSTANTS
  MaxSNum,       (* the number of switches asked for                       *)
  HostsPerLeaf,
  Lost,          (* where a packet is that no table entry matches          *)
  Collector      (* the network of the INT collector                       *)

VARIABLES
  at,            (* the switch or host that has the packet                 *)
  version,       (* the packet's IP version                                *)
  dst,           (* its destination address                                *)
  sids,          (* the SRv6 segments not yet visited, after dst           *)
  source,        (* the leaf it was sent from                              *)
  target,        (* the host it was sent to                                *)
  ahead,         (* what it has still to visit of the collector's path     *)
  reported       (* where its INT report went, or Lost while it has none   *)

vars == <<at, version, dst, sids, source, target, ahead, reported>>

(* genSpineLeaf: two leaves for every spine. *)
SpineCount == IF MaxSNum \div 3 >= 1 THEN MaxSNum \div 3 ELSE 1
LeafCount == 2 * SpineCount
Leaves == 1..LeafCount
Spines == (LeafCount + 1)..(LeafCount + SpineCount)
Hosts == Leaves \X (1..HostsPerLeaf)
Switches == (Leaves \union Spines) \X {0}

ASSUME TopoGenAssumption ==
  /\ MaxSNum \in Nat /\ HostsPerLeaf \in 1..255
  /\ LeafCount + SpineCount <= 255
  /\ {Lost, Collector} \cap (Switches \union Hosts) = {} /\ Lost # Collector

HostAddress(h) == <<0, h[1], h[2]>>

(* What hangs off port p of switch s, after auto_assignment went over the  *)
(* links in natural order: host, leaf, spine names. create_dp_cpu_link     *)
(* then adds the interface of the collector's network to each switch.      *)
Degree(s) == IF s \in Spines THEN LeafCount ELSE HostsPerLeaf + SpineCount
Neighbour(s, p) ==
  CASE s \in Spines /\ p <= Degree(s) -> <<p, 0>>
    [] s \in Leaves /\ p <= HostsPerLeaf -> <<s, p>>
    [] s \in Leaves /\ p > HostsPerLeaf /\ p <= Degree(s) ->
         <<LeafCount + p - HostsPerLeaf, 0>>
    [] p = Degree(s) + 1 -> Collector
    [] p > Degree(s) + 1 -> Lost

UplinkPortReversed(s) == HostsPerLeaf + LeafCount + SpineCount - s + 1
                                                                     (* mutant *)
UplinkPort(s) == HostsPerLeaf + s - LeafCount

-----------------------------------------------------------------------------
(* generate_command.                                                       *)

(* The decimal number n written into an IPv6 address is read as hex. *)
HexOfDecimal(n) == 16 * (n \div 10) + (n % 10)

(* 2002::a00:<l>00/120 for the l-th leaf of a spine.  A group of five      *)
(* digits is no part of an address: the entry of such a leaf is refused.   *)
InLeafPrefix(a, l) == a[1] = 0 /\ l < 100 /\ a[2] = HexOfDecimal(l)

(* The ports to which switch s may send a packet to address a: ECMP leaves *)
(* the choice of an uplink open.                                           *)
LpmV6WithoutHosts(s, a) ==      (* mutant: a leaf has no route to its hosts *)
  IF s \in Spines
  THEN {l \in Leaves : a = <<1, s, l>> \/ InLeafPrefix(a, l)}
  ELSE {UplinkPort(sp) : sp \in {sp \in Spines : a = <<2, sp, s>> \/ a[1] = 0}}

LpmV6(s, a) ==
  IF s \in Spines
  THEN {l \in Leaves : a = <<1, s, l>> \/ InLeafPrefix(a, l)}
  ELSE IF a[1] = 0 /\ a[2] = s /\ a[3] \in 1..HostsPerLeaf THEN {a[3]}
  ELSE {UplinkPort(sp) : sp \in {sp \in Spines : a = <<2, sp, s>> \/ a[1] = 0}}

(* 10.0.<l>.0/24 at a spine; a leaf sends all but its own hosts' packets   *)
(* to the first spine.                                                     *)
LpmV4(s, a) ==
  IF s \in Spines THEN {l \in Leaves : a[2] = l}
  ELSE IF a[2] = s /\ a[3] \in 1..HostsPerLeaf THEN {a[3]}
  ELSE {HostsPerLeaf + 1}

(* The addresses at which switch s ends a segment. *)
MySid(s) ==
  IF s \in Spines THEN {<<2, s, l>> : l \in Leaves}
  ELSE {<<1, sp, s>> : sp \in Spines} \union {<<1, s, x>> : x \in 1..HostsPerLeaf}

(* configure_sink: a leaf reports the packets for its hosts' ports, by the *)
(* port after those of its links.                                          *)
MirrorPortOfLinks(s) == SpineCount + 1                               (* mutant *)
MirrorPort(s) == SpineCount + HostsPerLeaf + 1

(* The path over spine sp to host h, after its source leaf. *)
PathOver(sp, h) == <<<<sp, 0>>, <<h[1], 0>>, h>>

(* path_to_ips and export_path: the segments of that path from leaf l. *)
SegmentsFromSource(l, sp, h) ==              (* mutant: the source's own too *)
  <<<<1, l, 1>>, <<2, sp, l>>, <<1, sp, h[1]>>, HostAddress(h)>>
SegmentsOver(l, sp, h) == <<<<2, sp, l>>, <<1, sp, h[1]>>, HostAddress(h)>>

-----------------------------------------------------------------------------

(* A packet has come to its sender's leaf, which gives it a segment list   *)
(* if the collector installed one for the target.                          *)
Init ==
  \E l \in Leaves, h \in Hosts :
    /\ at = <<l, 0>> /\ source = l /\ target = h
    /\ version \in {4, 6} /\ reported = Lost
    /\ \/ dst = HostAddress(h) /\ sids = <<>> /\ ahead = <<>>
       \/ \E sp \in Spines :
            /\ version = 6 /\ l # h[1]
            /\ dst = SegmentsOver(l, sp, h)[1]
            /\ sids = Tail(SegmentsOver(l, sp, h))
            /\ ahead = PathOver(sp, h)

(* The ingress of a switch: SRv6.apply ends a segment, then the routing    *)
(* table of the packet's version chooses the port.  The packet counts as   *)
(* sampled: its last leaf mirrors a report, unless it is the first one too *)
(* (the clone is of the packet as it came, without an INT header).         *)
Forward ==
  LET s == at[1]
      ends == version = 6 /\ sids # <<>> /\ dst \in MySid(s)
      ports == IF version = 4 THEN LpmV4(s, dst) ELSE LpmV6(s, dst')
  IN /\ at \in Switches
     /\ dst' = IF ends THEN Head(sids) ELSE dst
     /\ sids' = IF ends THEN Tail(sids) ELSE sids
     /\ IF ports = {} THEN at' = Lost /\ UNCHANGED reported
        ELSE \E p \in ports :
               /\ at' = Neighbour(s, p)
               /\ reported' = IF s \in Leaves \ {source} /\ p <= HostsPerLeaf
                              THEN Neighbour(s, MirrorPort(s)) ELSE reported
     /\ ahead' = IF ahead = <<>> THEN <<>> ELSE Tail(ahead)
     /\ UNCHANGED <<version, source, target>>

Next == Forward

Spec == Init /\ [][Next]_vars /\ WF_vars(Forward)

-----------------------------------------------------------------------------
(* Properties.                                                             *)

TypeOK ==
  /\ at \in Switches \union Hosts \union {Lost}
  /\ version \in {4, 6}
  /\ dst \in (0..2) \X (0..255) \X (0..255)
  /\ Len(sids) <= 2
  /\ source \in Leaves /\ target \in Hosts
  /\ Len(ahead) <= 3 /\ \A i \in DOMAIN ahead : ahead[i] \in Switches \union Hosts
  /\ reported \in Switches \union Hosts \union {Lost, Collector}

(* generate_command: the tables of all switches, the link addresses of the *)
(* topology file and the ports NetworkAPI gives out agree, so that a       *)
(* packet between any two hosts is neither dropped nor handed to another   *)
(* host, by IPv4, by ECMP and along any segment list; and a packet to      *)
(* another leaf has its report sent to the collector and nowhere else, once*)
(* it is delivered.                                                        *)
OnlyTargetReached ==
  /\ at \in Switches \union {target}
  /\ reported = IF at \in Hosts /\ source # target[1] THEN Collector ELSE Lost

(* genSpineLeaf, "SNum must be 3,6,9,12,15...": every packet arrives; it   *)
(* does not circle between leaves and spines.                              *)
Arrives == <>(at = target)

(* A packet with a segment list visits the nodes of the path that the      *)
(* collector made the list from (path_to_ips), in their order, all of them *)
(* before it is delivered, and no other node in between.                   *)
FollowsSegments ==
  /\ [][ahead # <<>> => at' = Head(ahead)]_vars
  /\ [](at \in Hosts => ahead = <<>>)
=============================================================================
