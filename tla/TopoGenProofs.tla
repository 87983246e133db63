--------------------------- MODULE TopoGenProofs ---------------------------
(***************************************************************************)
(* Theorems about TopoGen, for spine-leaf fabrics of every size, with any  *)
(* number of hosts on a leaf.                                              *)
(***************************************************************************)
EXTENDS TopoGen, TLAPS

-----------------------------------------------------------------------------
(* The fabric and its ports.                                               *)

(* The numbers of genSpineLeaf: at least one spine, and two leaves each.   *)
LEMMA FabricNumbers ==
  /\ SpineCount \in Nat /\ SpineCount >= 1
  /\ LeafCount \in Nat /\ LeafCount >= 2
  /\ LeafCount + SpineCount <= 255
  /\ HostsPerLeaf \in Nat /\ HostsPerLeaf >= 1 /\ HostsPerLeaf <= 255
<1>1. SpineCount \in Nat /\ SpineCount >= 1
  BY TopoGenAssumption DEF SpineCount
<1> QED
  BY <1>1, TopoGenAssumption DEF LeafCount

(* A node is a leaf, a spine or a host, and only one of them.              *)
LEMMA Kinds ==
  /\ \A l \in Leaves : l \in Nat /\ l >= 1 /\ l <= LeafCount /\ l \notin Spines
                       /\ <<l, 0>> \in Switches /\ <<l, 0>> \notin Hosts
  /\ \A s \in Spines : s \in Nat /\ s > LeafCount /\ s <= 255 /\ s \notin Leaves
                       /\ <<s, 0>> \in Switches /\ <<s, 0>> \notin Hosts
  /\ \A h \in Hosts : h \notin Switches /\ h = <<h[1], h[2]>>
                      /\ h[1] \in Leaves /\ h[2] \in 1..HostsPerLeaf
  /\ Lost \notin Switches \union Hosts /\ Collector \notin Switches \union Hosts
BY FabricNumbers, TopoGenAssumption DEF Leaves, Spines, Switches, Hosts

(* auto_assignment gives a leaf the port HostsPerLeaf + k for its k-th     *)
(* spine, which is the port generate_command routes by.                    *)
LEMMA UplinkLeadsToSpine ==
  ASSUME NEW s \in Leaves, NEW sp \in Spines
  PROVE  /\ Neighbour(s, UplinkPort(sp)) = <<sp, 0>>
         /\ UplinkPort(sp) \in Nat /\ UplinkPort(sp) > HostsPerLeaf
<1>0. s \notin Spines
  BY Kinds
<1>1. sp \in Nat /\ sp >= LeafCount + 1 /\ sp <= LeafCount + SpineCount
  BY FabricNumbers DEF Spines
<1>2. PICK p \in Nat : /\ p = UplinkPort(sp) /\ p > HostsPerLeaf
                       /\ p <= HostsPerLeaf + SpineCount
                       /\ LeafCount + p - HostsPerLeaf = sp
  BY <1>1, FabricNumbers DEF UplinkPort
<1> QED
  BY <1>0, <1>1, <1>2, FabricNumbers DEF Neighbour, Degree

(* Port HostsPerLeaf + 1, to which a leaf sends by IPv4, leads to the      *)
(* first spine.                                                            *)
LEMMA FirstUplink ==
  ASSUME NEW s \in Leaves
  PROVE  /\ LeafCount + 1 \in Spines
         /\ Neighbour(s, HostsPerLeaf + 1) = <<LeafCount + 1, 0>>
<1>1. s \notin Spines
  BY Kinds
<1>2. PICK p \in Nat : p = HostsPerLeaf + 1
  BY FabricNumbers
<1>3. /\ p > HostsPerLeaf /\ p <= HostsPerLeaf + SpineCount
      /\ LeafCount + p - HostsPerLeaf = LeafCount + 1
  BY <1>2, FabricNumbers
<1>4. Neighbour(s, p) = <<LeafCount + 1, 0>>
  BY <1>1, <1>2, <1>3, FabricNumbers DEF Neighbour, Degree
<1> QED
  BY <1>2, <1>4, FabricNumbers DEF Spines

(* Port l of a spine leads to leaf l, and a leaf's port x to its host x.   *)
LEMMA DownlinkLeadsToLeaf ==
  ASSUME NEW s \in Spines, NEW l \in Leaves
  PROVE  Neighbour(s, l) = <<l, 0>>
<1>1. s \notin Leaves
  BY Kinds
<1>2. l \in Nat /\ l <= LeafCount
  BY Kinds
<1> QED
  BY <1>1, <1>2, FabricNumbers DEF Neighbour, Degree

LEMMA HostPortLeadsToHost ==
  ASSUME NEW h \in Hosts
  PROVE  Neighbour(h[1], h[2]) = h
<1>1. /\ h[1] \in Leaves /\ h[1] \notin Spines /\ h = <<h[1], h[2]>>
      /\ h[2] \in 1..HostsPerLeaf
  BY Kinds
<1>2. h[2] \in Nat /\ h[2] <= HostsPerLeaf
  BY <1>1, FabricNumbers
<1> QED
  BY <1>1, <1>2, FabricNumbers DEF Neighbour, Degree

(* The port that configure_sink mirrors reports to is the one that         *)
(* create_dp_cpu_link adds.                                                *)
LEMMA MirrorLeadsToCollector ==
  ASSUME NEW s \in Leaves
  PROVE  Neighbour(s, MirrorPort(s)) = Collector
<1>1. s \notin Spines
  BY Kinds
<1>2. PICK p \in Nat : p = MirrorPort(s) /\ p = HostsPerLeaf + SpineCount + 1
  BY FabricNumbers DEF MirrorPort
<1>3. p > HostsPerLeaf + SpineCount /\ ~ p <= HostsPerLeaf
  BY <1>2, FabricNumbers
<1> QED
  BY <1>1, <1>2, <1>3 DEF Neighbour, Degree

(* The bytes of a decimal number of one digit read the same in hex, and    *)
(* those of a longer one never read as one digit.                          *)
LEMMA OneDigit ==
  ASSUME NEW n \in Nat, NEW m \in Nat, m <= 9
  PROVE  m = HexOfDecimal(n) <=> m = n
<1>1. CASE n <= 9
  <2>1. n \div 10 = 0 /\ n % 10 = n
    BY <1>1
  <2> QED
    BY <2>1 DEF HexOfDecimal
<1>2. CASE n >= 10
  <2>1. n \div 10 >= 1 /\ n % 10 >= 0 /\ n \div 10 \in Int /\ n % 10 \in Int
    BY <1>2
  <2> QED
    BY <1>2, <2>1 DEF HexOfDecimal
<1> QED
  BY <1>1, <1>2

-----------------------------------------------------------------------------
(* Where a packet can be on its way.                                       *)

(* A packet without segments is on a switch, at its target, or lost.       *)
Unsegmented ==
  /\ dst = HostAddress(target) /\ sids = <<>> /\ ahead = <<>>
  /\ at \in Switches \union {target, Lost}

(* A packet with segments is on one of the three switches of its path, and *)
(* its destination is the next segment that one of them ends.              *)
Uphill(l, sp) ==
  /\ \/ at = <<l, 0>> /\ ahead = PathOver(sp, target)
     \/ at = <<sp, 0>> /\ ahead = <<<<target[1], 0>>, target>>
  /\ dst = <<2, sp, l>>
  /\ sids = <<<<1, sp, target[1]>>, HostAddress(target)>>

Downhill(sp) ==
  /\ at = <<target[1], 0>> /\ ahead = <<target>> /\ dst = <<1, sp, target[1]>>
  /\ sids = <<HostAddress(target)>>

Segmented ==
  /\ version = 6 /\ source # target[1]
  /\ \E sp \in Spines : \/ Downhill(sp)
                        \/ \E l \in Leaves : Uphill(l, sp)

(* The inductive invariant: every packet is in one of these places, and    *)
(* its report, if it makes one, is made with its delivery.                 *)
Journey ==
  /\ version \in {4, 6} /\ source \in Leaves /\ target \in Hosts
  /\ reported = IF at \in Hosts /\ source # target[1] THEN Collector ELSE Lost
  /\ Unsegmented \/ Segmented

-----------------------------------------------------------------------------

LEMMA JourneyBegins == Init => Journey
<1> SUFFICES ASSUME Init PROVE Journey
  OBVIOUS
<1>1. PICK l \in Leaves, h \in Hosts :
        /\ at = <<l, 0>> /\ source = l /\ target = h
        /\ version \in {4, 6} /\ reported = Lost
        /\ \/ dst = HostAddress(h) /\ sids = <<>> /\ ahead = <<>>
           \/ \E sp \in Spines :
                /\ version = 6 /\ l # h[1]
                /\ dst = SegmentsOver(l, sp, h)[1]
                /\ sids = Tail(SegmentsOver(l, sp, h))
                /\ ahead = PathOver(sp, h)
  BY DEF Init
<1>2. at \in Switches /\ at \notin Hosts
  BY <1>1, Kinds
<1>3. CASE dst = HostAddress(h) /\ sids = <<>> /\ ahead = <<>>
  BY <1>1, <1>2, <1>3 DEF Journey, Unsegmented
<1>4. CASE \E sp \in Spines : /\ version = 6 /\ l # h[1]
                              /\ dst = SegmentsOver(l, sp, h)[1]
                              /\ sids = Tail(SegmentsOver(l, sp, h))
                              /\ ahead = PathOver(sp, h)
  <2>1. PICK sp \in Spines : /\ version = 6 /\ l # h[1]
                             /\ dst = SegmentsOver(l, sp, h)[1]
                             /\ sids = Tail(SegmentsOver(l, sp, h))
                             /\ ahead = PathOver(sp, h)
    BY <1>4
  <2>2. dst = <<2, sp, l>> /\ sids = <<<<1, sp, h[1]>>, HostAddress(h)>>
    BY <2>1 DEF SegmentsOver
  <2>3. Segmented
    BY <1>1, <2>1, <2>2 DEF Segmented, Uphill
  <2> QED
    BY <1>1, <1>2, <2>3 DEF Journey
<1> QED
  BY <1>1, <1>3, <1>4

(* A switch without a segment to end routes by the destination.            *)
LEMMA ForwardUnsegmented ==
  ASSUME Journey, Unsegmented, Forward
  PROVE  Journey' /\ Unsegmented'
<1> DEFINE s == at[1]
<1>1. /\ at \in Switches /\ dst' = dst /\ sids' = sids /\ dst = HostAddress(target)
      /\ version' = version /\ source' = source /\ target' = target /\ ahead' = <<>>
      /\ source \in Leaves /\ target \in Hosts /\ reported = Lost
  BY Kinds DEF Forward, Unsegmented, Journey
<1>2. /\ HostAddress(target)[1] = 0 /\ HostAddress(target)[2] = target[1]
      /\ HostAddress(target)[3] = target[2]
      /\ target[1] \in Leaves /\ target[2] \in 1..HostsPerLeaf
  BY <1>1, Kinds DEF HostAddress
<1>3. PICK p : \/ at' = Lost /\ reported' = reported
               \/ /\ p \in IF version = 4 THEN LpmV4(s, dst) ELSE LpmV6(s, dst)
                  /\ at' = Neighbour(s, p)
                  /\ reported' = IF s \in Leaves \ {source} /\ p <= HostsPerLeaf
                                 THEN Neighbour(s, MirrorPort(s)) ELSE reported
  BY <1>1 DEF Forward
<1>4. CASE at' = Lost /\ reported' = reported
  BY <1>1, <1>4, Kinds DEF Journey, Unsegmented, HostAddress
<1>5. CASE /\ p \in IF version = 4 THEN LpmV4(s, dst) ELSE LpmV6(s, dst)
           /\ at' = Neighbour(s, p)
           /\ reported' = IF s \in Leaves \ {source} /\ p <= HostsPerLeaf
                          THEN Neighbour(s, MirrorPort(s)) ELSE reported
  <2>1. CASE s \in Spines
    <3>1. p \in Leaves
      BY <1>5, <2>1 DEF LpmV4, LpmV6
    <3>2. at' = <<p, 0>> /\ reported' = Lost
      BY <1>1, <1>5, <2>1, <3>1, DownlinkLeadsToLeaf, Kinds
    <3> QED
      BY <1>1, <3>1, <3>2, Kinds DEF Journey, Unsegmented, HostAddress
  <2>2. CASE s \in Leaves /\ s = target[1]
    <3>1. p = target[2]
      BY <1>1, <1>2, <1>5, <2>2, Kinds DEF LpmV4, LpmV6
    <3>2. at' = target /\ p <= HostsPerLeaf
      BY <1>1, <1>2, <1>5, <2>2, <3>1, HostPortLeadsToHost, FabricNumbers
    <3>3. reported' = IF source # target[1] THEN Collector ELSE Lost
      BY <1>1, <1>5, <2>2, <3>2, MirrorLeadsToCollector
    <3> QED
      BY <1>1, <3>2, <3>3 DEF Journey, Unsegmented, HostAddress
  <2>3. CASE s \in Leaves /\ s # target[1]
    <3>1. \/ p = HostsPerLeaf + 1
          \/ \E sp \in Spines : p = UplinkPort(sp)
      BY <1>1, <1>2, <1>5, <2>3, Kinds DEF LpmV4, LpmV6
    <3>2. PICK sp \in Spines : Neighbour(s, p) = <<sp, 0>> /\ ~ p <= HostsPerLeaf
      BY <2>3, <3>1, UplinkLeadsToSpine, FirstUplink, FabricNumbers
    <3>3. at' = <<sp, 0>> /\ reported' = Lost
      BY <1>1, <1>5, <3>2
    <3> QED
      BY <1>1, <3>2, <3>3, Kinds DEF Journey, Unsegmented, HostAddress
  <2> QED
    BY <1>1, <2>1, <2>2, <2>3 DEF Switches
<1> QED
  BY <1>3, <1>4, <1>5

(* What is ahead once a node of the path is visited. *)
LEMMA PathEnds ==
  ASSUME NEW sp, NEW h
  PROVE  /\ PathOver(sp, h) # <<>> /\ Head(PathOver(sp, h)) = <<sp, 0>>
         /\ Tail(PathOver(sp, h)) = <<<<h[1], 0>>, h>>
         /\ <<<<h[1], 0>>, h>> # <<>> /\ Head(<<<<h[1], 0>>, h>>) = <<h[1], 0>>
         /\ Tail(<<<<h[1], 0>>, h>>) = <<h>>
         /\ <<h>> # <<>> /\ Head(<<h>>) = h /\ Tail(<<h>>) = <<>>
<1>1. \A a, b, c : /\ <<a, b, c>> # <<>> /\ Head(<<a, b, c>>) = a /\ Tail(<<a, b, c>>) = <<b, c>>
                   /\ <<b, c>> # <<>> /\ Head(<<b, c>>) = b /\ Tail(<<b, c>>) = <<c>>
                   /\ <<c>> # <<>> /\ Head(<<c>>) = c /\ Tail(<<c>>) = <<>>
  OBVIOUS
<1> QED
  BY <1>1 DEF PathOver

(* The source leaf takes the uplink to the spine of the first segment.     *)
LEMMA ForwardAtSource ==
  ASSUME Journey, Segmented, NEW l \in Leaves, NEW sp \in Spines,
         Uphill(l, sp), at = <<l, 0>>, Forward
  PROVE  Journey' /\ Segmented' /\ at' = Head(ahead)
<1>1. dst = <<2, sp, l>> /\ dst \notin MySid(l) /\ dst[1] # 0 /\ dst # <<1, sp, l>>
  BY Kinds DEF Uphill, MySid
<1>2. LpmV6(l, dst) = {UplinkPort(sp)}
  <2>1. l \notin Spines /\ ~ (dst[1] = 0)
    BY <1>1, Kinds
  <2>2. \A q \in Spines : dst = <<2, q, l>> <=> q = sp
    BY <1>1
  <2> QED
    BY <2>1, <2>2 DEF LpmV6
<1>0. version = 6 /\ ahead = PathOver(sp, target)
  <2>1. <<l, 0>> # <<sp, 0>>
    BY Kinds
  <2> QED
    BY <2>1 DEF Segmented, Uphill
<1>7. /\ ahead # <<>> /\ Head(ahead) = <<sp, 0>>
      /\ Tail(ahead) = <<<<target[1], 0>>, target>>
  <2>1. /\ PathOver(sp, target) # <<>> /\ Head(PathOver(sp, target)) = <<sp, 0>>
        /\ Tail(PathOver(sp, target)) = <<<<target[1], 0>>, target>>
    BY PathEnds
  <2> QED
    BY ONLY <1>0, <2>1
<1>3. /\ at[1] = l /\ dst' = dst /\ sids' = sids /\ version' = version
      /\ source' = source /\ target' = target /\ ahead' = Tail(ahead)
      /\ at' = Neighbour(l, UplinkPort(sp))
      /\ reported' = IF l \in Leaves \ {source} /\ UplinkPort(sp) <= HostsPerLeaf
                     THEN Neighbour(l, MirrorPort(l)) ELSE reported
  <2>1. at[1] = l /\ ahead # <<>> /\ LpmV6(l, dst) # {}
    BY <1>2, <1>7
  <2>2. /\ dst' = dst /\ sids' = sids /\ version' = version
        /\ source' = source /\ target' = target /\ ahead' = Tail(ahead)
    BY <1>1, <2>1 DEF Forward
  <2>3. \E p \in LpmV6(l, dst) :
          /\ at' = Neighbour(l, p)
          /\ reported' = IF l \in Leaves \ {source} /\ p <= HostsPerLeaf
                         THEN Neighbour(l, MirrorPort(l)) ELSE reported
    BY <1>0, <2>1, <2>2 DEF Forward
  <2> QED
    BY <1>2, <2>1, <2>2, <2>3
<1>4. at' = <<sp, 0>> /\ reported' = reported
  BY <1>3, UplinkLeadsToSpine, FabricNumbers
<1>5. reported' = Lost /\ at' \notin Hosts /\ target' \in Hosts /\ source' \in Leaves
  BY <1>3, <1>4, Kinds DEF Journey
<1>6. Segmented'
  <2>1. source # target[1]
    BY DEF Segmented
  <2> QED
    BY <1>0, <1>3, <1>4, <1>7, <2>1 DEF Segmented, Uphill
<1> QED
  BY <1>0, <1>3, <1>4, <1>5, <1>6, <1>7 DEF Journey

(* The spine ends its segment and sends the packet down to the leaf that   *)
(* the next one names.                                                     *)
LEMMA ForwardAtSpine ==
  ASSUME Journey, Segmented, NEW l \in Leaves, NEW sp \in Spines,
         Uphill(l, sp), at = <<sp, 0>>, Forward
  PROVE  Journey' /\ Segmented' /\ at' = Head(ahead)
<1>1. /\ dst = <<2, sp, l>> /\ dst \in MySid(sp)
      /\ sids = <<<<1, sp, target[1]>>, HostAddress(target)>>
  BY Kinds DEF Uphill, MySid
<1>0. version = 6 /\ ahead = <<<<target[1], 0>>, target>>
  <2>1. <<l, 0>> # <<sp, 0>>
    BY Kinds
  <2> QED
    BY <2>1 DEF Segmented, Uphill
<1>9. ahead # <<>> /\ Head(ahead) = <<target[1], 0>> /\ Tail(ahead) = <<target>>
  <2> DEFINE rest == <<<<target[1], 0>>, target>>
  <2>1. rest # <<>> /\ Head(rest) = <<target[1], 0>> /\ Tail(rest) = <<target>>
    BY PathEnds
  <2> QED
    BY <1>0, <2>1
<1>2. /\ at[1] = sp /\ dst' = <<1, sp, target[1]>> /\ sids' = <<HostAddress(target)>>
      /\ version' = version /\ source' = source /\ target' = target /\ ahead' = <<target>>
  BY <1>0, <1>1, <1>9 DEF Forward
<1>3. /\ target \in Hosts /\ target[1] \in Leaves /\ sp \notin Leaves
      /\ source \in Leaves /\ source # target[1]
  BY Kinds DEF Journey, Segmented
<1>4. LpmV6(sp, dst') = {target[1]}
  <2>1. \A k \in Leaves : dst' = <<1, sp, k>> \/ InLeafPrefix(dst', k) <=> k = target[1]
    BY <1>2 DEF InLeafPrefix
  <2> QED
    BY <1>3, <2>1 DEF LpmV6
<1>5. at' = Neighbour(sp, target[1]) /\ reported' = reported
  <2>1. LpmV6(sp, dst') # {}
    BY <1>4
  <2>2. PICK p \in LpmV6(sp, dst') :
          /\ at' = Neighbour(sp, p)
          /\ reported' = IF sp \in Leaves \ {source} /\ p <= HostsPerLeaf
                         THEN Neighbour(sp, MirrorPort(sp)) ELSE reported
    BY <1>0, <1>2, <2>1 DEF Forward
  <2> QED
    BY <1>3, <1>4, <2>2
<1>6. at' = <<target[1], 0>>
  BY <1>3, <1>5, DownlinkLeadsToLeaf
<1>7. reported' = Lost /\ at' \notin Hosts
  BY <1>3, <1>5, <1>6, Kinds DEF Journey
<1>8. Segmented'
  BY <1>0, <1>2, <1>3, <1>6 DEF Segmented, Downhill
<1> QED
  BY <1>0, <1>2, <1>3, <1>6, <1>7, <1>8, <1>9 DEF Journey

(* The target's leaf ends the last segment before the host's and hands the *)
(* packet to the host.                                                     *)
LEMMA ForwardDownhill ==
  ASSUME Journey, Segmented, NEW sp \in Spines, Downhill(sp), Forward
  PROVE  Journey' /\ Unsegmented' /\ at' = target' /\ at' = Head(ahead)
<1>1. target \in Hosts /\ target[1] \in Leaves /\ target[1] \notin Spines
      /\ target[2] \in 1..HostsPerLeaf /\ source \in Leaves /\ source # target[1]
  BY Kinds DEF Journey, Segmented
<1>2. /\ dst = <<1, sp, target[1]>> /\ dst \in MySid(target[1])
      /\ sids = <<HostAddress(target)>>
  BY <1>1 DEF Downhill, MySid
<1>3. /\ at[1] = target[1] /\ dst' = HostAddress(target) /\ sids' = <<>>
      /\ version' = version /\ source' = source /\ target' = target /\ ahead' = <<>>
  <2>1. version = 6 /\ ahead # <<>> /\ Tail(ahead) = <<>>
    BY PathEnds DEF Segmented, Downhill
  <2> QED
    BY <1>2, <2>1 DEF Forward, Downhill
<1>4. LpmV6(target[1], dst') = {target[2]}
  BY <1>1, <1>3 DEF LpmV6, HostAddress
<1>5. PICK p \in LpmV6(target[1], dst') :
        /\ at' = Neighbour(target[1], p)
        /\ reported' = IF target[1] \in Leaves \ {source} /\ p <= HostsPerLeaf
                       THEN Neighbour(target[1], MirrorPort(target[1])) ELSE reported
  <2>1. LpmV6(target[1], dst') # {}
    BY <1>4
  <2> QED
    BY <1>3, <2>1 DEF Forward, Segmented
<1>6. at' = target /\ reported' = Collector
  BY <1>1, <1>4, <1>5, HostPortLeadsToHost, MirrorLeadsToCollector, FabricNumbers
<1>7. Unsegmented' /\ target' \in Hosts
  BY <1>1, <1>3, <1>6 DEF Unsegmented, HostAddress
<1>8. Head(ahead) = target
  BY PathEnds DEF Downhill
<1> QED
  BY <1>1, <1>3, <1>6, <1>7, <1>8 DEF Journey

LEMMA JourneyGoesOn == Journey /\ [Next]_vars => Journey'
<1> SUFFICES ASSUME Journey, [Next]_vars PROVE Journey'
  OBVIOUS
<1>1. CASE Forward
  <2>1. CASE Unsegmented
    BY <1>1, <2>1, ForwardUnsegmented
  <2>2. ASSUME Segmented, NEW sp \in Spines, Downhill(sp)
        PROVE  Journey'
    BY <1>1, <2>2, ForwardDownhill
  <2>3. ASSUME Segmented, NEW sp \in Spines, NEW l \in Leaves, Uphill(l, sp)
        PROVE  Journey'
    BY <1>1, <2>3, ForwardAtSource, ForwardAtSpine DEF Uphill
  <2> QED
    BY <2>1, <2>2, <2>3 DEF Journey, Segmented
<1>2. CASE UNCHANGED vars
  BY <1>2 DEF vars, Journey, Unsegmented, Segmented, Uphill, Downhill, HostAddress,
               PathOver
<1> QED
  BY <1>1, <1>2 DEF Next

LEMMA JourneyInvariant == Spec => []Journey
BY JourneyBegins, JourneyGoesOn, PTL DEF Spec

-----------------------------------------------------------------------------
(* What follows for every fabric.                                          *)

LEMMA JourneyTyped == Journey => TypeOK
<1> SUFFICES ASSUME Journey PROVE TypeOK
  OBVIOUS
<1>1. /\ target \in Hosts /\ target[1] \in Leaves /\ target[2] \in 1..HostsPerLeaf
      /\ <<target[1], 0>> \in Switches
  BY Kinds DEF Journey
<1>2. /\ Leaves \subseteq 0..255 /\ Spines \subseteq 0..255
      /\ target[1] \in 0..255 /\ target[2] \in 0..255
      /\ 0 \in 0..2 /\ 1 \in 0..2 /\ 2 \in 0..2
  BY <1>1, FabricNumbers DEF Leaves, Spines
<1>3. CASE Unsegmented
  <2>1. dst = <<0, target[1], target[2]>> /\ Len(sids) = 0 /\ ahead = <<>>
    BY <1>3 DEF Unsegmented, HostAddress
  <2>2. dst \in (0..2) \X (0..255) \X (0..255)
    BY <1>2, <2>1
  <2>3. Len(sids) <= 2
    BY <2>1
  <2> QED
    BY <1>1, <1>3, <2>1, <2>2, <2>3 DEF Journey, TypeOK, Unsegmented
<1>4. CASE Segmented
  <2>1. PICK sp \in Spines : Downhill(sp) \/ \E l \in Leaves : Uphill(l, sp)
    BY <1>4 DEF Segmented
  <2>2. dst \in (0..2) \X (0..255) \X (0..255) /\ Len(sids) <= 2
    <3>1. CASE Downhill(sp)
      <4>1. dst = <<1, sp, target[1]>> /\ Len(sids) = 1
        BY <3>1 DEF Downhill
      <4> QED
        BY <1>2, <4>1
    <3>2. ASSUME NEW l \in Leaves, Uphill(l, sp)
          PROVE  dst \in (0..2) \X (0..255) \X (0..255) /\ Len(sids) <= 2
      <4>1. dst = <<2, sp, l>> /\ Len(sids) = 2
        BY <3>2 DEF Uphill
      <4> QED
        BY <1>2, <4>1
    <3> QED
      BY <2>1, <3>1, <3>2
  <2>3. at \in Switches
    BY <1>1, <2>1, Kinds DEF Downhill, Uphill
  <2>4. Len(ahead) <= 3 /\ \A i \in DOMAIN ahead : ahead[i] \in Switches \union Hosts
    <3>1. \/ ahead = <<<<sp, 0>>, <<target[1], 0>>, target>>
          \/ ahead = <<<<target[1], 0>>, target>>
          \/ ahead = <<target>>
      BY <2>1 DEF Downhill, Uphill, PathOver
    <3>2. <<sp, 0>> \in Switches
      BY Kinds
    <3>3. CASE ahead = <<<<sp, 0>>, <<target[1], 0>>, target>>
      BY <1>1, <3>2, <3>3
    <3>4. CASE ahead = <<<<target[1], 0>>, target>>
      BY <1>1, <3>4
    <3>5. CASE ahead = <<target>>
      BY <1>1, <3>5
    <3> QED
      BY <3>1, <3>3, <3>4, <3>5
  <2> QED
    BY <1>1, <2>2, <2>3, <2>4 DEF Journey, TypeOK
<1> QED
  BY <1>3, <1>4 DEF Journey

(* Type correctness: every address is of two bytes, no list longer than    *)
(* what path_to_ips gives.                                                 *)
THEOREM TypeCorrect == Spec => []TypeOK
BY JourneyInvariant, JourneyTyped, PTL

(* A packet with a segment list is under way on switches, and each of them *)
(* hands it to the next node of the path.                                  *)
LEMMA AlongThePath ==
  ASSUME Journey, Segmented, Forward
  PROVE  /\ Journey' /\ at' = Head(ahead)
         /\ Segmented' \/ (Unsegmented' /\ at' = target')
<1>1. PICK sp \in Spines : Downhill(sp) \/ \E l \in Leaves : Uphill(l, sp)
  BY DEF Segmented
<1>2. CASE Downhill(sp)
  BY <1>2, ForwardDownhill
<1>3. ASSUME NEW l \in Leaves, Uphill(l, sp)
      PROVE  Journey' /\ at' = Head(ahead) /\ Segmented'
  BY <1>3, ForwardAtSource, ForwardAtSpine DEF Uphill
<1> QED
  BY <1>1, <1>2, <1>3

(* FollowsSegments: a packet with a segment list visits the nodes of the   *)
(* collector's path in their order, without another in between, and has    *)
(* visited all of them when it is delivered, in fabrics of every size.     *)
THEOREM SegmentsFollowed == Spec => FollowsSegments
<1>1. ASSUME Journey, [Next]_vars
      PROVE  [ahead # <<>> => at' = Head(ahead)]_vars
  <2>1. CASE UNCHANGED vars
    BY <2>1
  <2>2. CASE Forward
    BY <1>1, <2>2, AlongThePath DEF Journey, Unsegmented
  <2> QED
    BY <1>1, <2>1, <2>2 DEF Next
<1>2. Journey => (at \in Hosts => ahead = <<>>)
  BY Kinds DEF Journey, Unsegmented, Segmented, Uphill, Downhill
<1> QED
  BY <1>1, <1>2, JourneyInvariant, PTL DEF Spec, FollowsSegments

-----------------------------------------------------------------------------
(* No packet is lost on the way to a leaf with a number of one digit, by   *)
(* IPv4, or along a segment list.                                          *)

Reachable == version = 4 \/ target[1] <= 9 \/ sids # <<>>

OnTheWay ==
  /\ at # Lost
  /\ Reachable \/ at = target

LEMMA NothingLost ==
  ASSUME Journey, OnTheWay, Forward
  PROVE  OnTheWay'
<1>1. CASE Segmented
  <2>1. Journey' /\ (Segmented' \/ (Unsegmented' /\ at' = target'))
    BY <1>1, AlongThePath
  <2>2. CASE Unsegmented' /\ at' = target'
    BY <2>1, <2>2, Kinds DEF Journey, OnTheWay
  <2>3. CASE Segmented'
    <3>1. target' \in Hosts
      BY <2>1 DEF Journey
    <3>2. at' \in Switches /\ sids' # <<>>
      <4>1. PICK q \in Spines : Downhill(q)' \/ \E k \in Leaves : Uphill(k, q)'
        BY <2>3 DEF Segmented
      <4>2. CASE Downhill(q)'
        BY <3>1, <4>2, Kinds DEF Downhill
      <4>3. CASE \E k \in Leaves : Uphill(k, q)'
        BY <4>3, Kinds DEF Uphill
      <4> QED
        BY <4>1, <4>2, <4>3
    <3> QED
      BY <3>2, Kinds DEF OnTheWay, Reachable
  <2> QED
    BY <2>1, <2>2, <2>3
<1>2. CASE Unsegmented
  <2> DEFINE s == at[1]
  <2>1. /\ at \in Switches /\ dst' = dst /\ sids' = sids /\ dst = HostAddress(target)
        /\ version' = version /\ target' = target /\ target \in Hosts
    BY <1>2, Kinds DEF Forward, Unsegmented, Journey
  <2>2. /\ version = 4 \/ target[1] <= 9
        /\ version' = 4 \/ target'[1] <= 9
    BY <1>2, <2>1, Kinds DEF Unsegmented, OnTheWay, Reachable
  <2>3. (IF version = 4 THEN LpmV4(s, dst) ELSE LpmV6(s, dst)) # {}
    <3>1. /\ dst[1] = 0 /\ dst[2] = target[1] /\ target[1] \in Leaves /\ target[1] \in Nat
      BY <2>1, Kinds DEF HostAddress
    <3>2. CASE s \in Spines
      <4>1. version # 4 => target[1] < 100 /\ target[1] = HexOfDecimal(target[1])
        BY <2>2, <3>1, OneDigit
      <4>2. target[1] \in IF version = 4 THEN LpmV4(s, dst) ELSE LpmV6(s, dst)
        BY <3>1, <3>2, <4>1 DEF LpmV4, LpmV6, InLeafPrefix
      <4> QED
        BY <4>2
    <3>3. CASE s \in Leaves
      <4>1. LpmV4(s, dst) # {}
        BY <3>3, Kinds DEF LpmV4
      <4>2. LpmV6(s, dst) # {}
        <5>1. LeafCount + 1 \in Spines
          BY <3>3, FirstUplink
        <5> QED
          BY <3>1, <3>3, <5>1, Kinds DEF LpmV6
      <4> QED
        BY <4>1, <4>2
    <3> QED
      BY <2>1, <3>2, <3>3 DEF Switches
  <2>4. PICK p : /\ p \in IF version = 4 THEN LpmV4(s, dst) ELSE LpmV6(s, dst)
                 /\ at' = Neighbour(s, p)
    BY <2>1, <2>3 DEF Forward
  <2>5. at' # Lost
    <3>1. CASE s \in Spines
      <4>1. p \in Leaves
        BY <2>4, <3>1 DEF LpmV4, LpmV6
      <4> QED
        BY <2>4, <3>1, <4>1, DownlinkLeadsToLeaf, Kinds
    <3>2. CASE s \in Leaves
      <4>1. \/ p = target[2] /\ s = target[1]
            \/ p = HostsPerLeaf + 1
            \/ \E sp \in Spines : p = UplinkPort(sp)
        BY <2>1, <2>4, <3>2, Kinds DEF LpmV4, LpmV6, HostAddress
      <4>2. CASE p = target[2] /\ s = target[1]
        BY <2>1, <2>4, <4>2, HostPortLeadsToHost, Kinds
      <4>3. CASE p = HostsPerLeaf + 1
        BY <2>4, <3>2, <4>3, FirstUplink, Kinds
      <4>4. CASE \E sp \in Spines : p = UplinkPort(sp)
        BY <2>4, <3>2, <4>4, UplinkLeadsToSpine, Kinds
      <4> QED
        BY <4>1, <4>2, <4>3, <4>4
    <3> QED
      BY <2>1, <3>1, <3>2 DEF Switches
  <2> QED
    BY <2>2, <2>5 DEF OnTheWay, Reachable
<1> QED
  BY <1>1, <1>2 DEF Journey

(* OnlyTargetReached, for fabrics of every size: a packet to a leaf with a *)
(* number of one digit, a packet by IPv4 and one with a segment list is    *)
(* neither dropped nor handed to another host, and its report, if it goes  *)
(* to another leaf, is sent to the collector and nowhere else.             *)
THEOREM TargetReached == Spec /\ Reachable => []OnlyTargetReached
<1>1. Init /\ Reachable => OnTheWay
  BY Kinds DEF Init, OnTheWay
<1>2. ASSUME Journey, OnTheWay, [Next]_vars PROVE OnTheWay'
  <2>1. CASE Forward
    BY <1>2, <2>1, NothingLost
  <2>2. CASE UNCHANGED vars
    BY <1>2, <2>2 DEF vars, OnTheWay, Reachable
  <2> QED
    BY <1>2, <2>1, <2>2 DEF Next
<1>3. Journey /\ OnTheWay => OnlyTargetReached
  BY Kinds DEF Journey, OnTheWay, Unsegmented, Segmented, Uphill, Downhill,
               OnlyTargetReached
<1> QED
  BY <1>1, <1>2, <1>3, JourneyInvariant, PTL DEF Spec

(* With at most nine leaves that is every packet.                          *)
THEOREM AllTargetsReached ==
  ASSUME LeafCount <= 9
  PROVE  Spec => []OnlyTargetReached
<1>1. Init => Reachable
  <2>1. \A l \in Leaves : l <= 9
    BY FabricNumbers DEF Leaves
  <2> QED
    BY <2>1, Kinds DEF Init, Reachable
<1> QED
  BY <1>1, TargetReached, PTL DEF Spec

(* Where a longer number is not read as what it says, a packet may be      *)
(* lost, but still no host gets a packet that was for another.             *)
THEOREM NoOtherHostReached == Spec => [](at \in Hosts => at = target)
<1>1. Journey => (at \in Hosts => at = target)
  BY Kinds DEF Journey, Unsegmented, Segmented, Uphill, Downhill
<1> QED
  BY <1>1, JourneyInvariant, PTL
=============================================================================
