----------------------------- MODULE IntReport -----------------------------
(***************************************************************************)
(* The format of INT reports: what a sink leaf puts into the UDP datagram  *)
(* it mirrors to the collector (int_report.p4 and the deparser), and what  *)
(* class IntReport of the collector reads at which offset.                 *)
(*                                                                         *)
(* A byte is a record of the header it belongs to, its offset in there,    *)
(* and its value, 0 where the collector does not look.                     *)
(***************************************************************************)
EXTENDS Integers, SequencesExt

CONSTANTS
  Versions,     (* IP versions                                             *)
  Segments,     (* numbers of SRv6 segments an IPv6 packet may carry       *)
  DataOffsets,  (* 0 for UDP, else the data offset of the TCP header       *)
  Queues,       (* queue depths                                            *)
  MaxHops,      (* bound: switches on a path                               *)
  NoReport      (* no report yet                                           *)

VARIABLES sent, (* the packet the sink leaf reported                       *)
          data  (* the payload the collector's socket returned             *)

reportVars == <<sent, data>>

Hop == [switch_id : 1..MaxHops, trend : 0..1, q_occupancy : Queues]
Packet ==
  {p \in [version : Versions, segments : Segments, dataOffset : DataOffsets,
          update_path : 0..1, hops : UNION {[1..n -> Hop] : n \in 1..MaxHops}] :
     p.version = 4 => p.segments = 0}

ASSUME IntReportAssumption ==
  /\ Versions \subseteq {4, 6}
  /\ Segments \subseteq 0..3
  /\ DataOffsets \subseteq {0} \union 5..15
  /\ Queues \subseteq Nat /\ \A q \in Queues : q < 2^23
  /\ MaxHops \in 1..4

-----------------------------------------------------------------------------
(* The switch.                                                             *)

IsV6(p) == p.version = 6
IsUdp(p) == p.dataOffset = 0
SrhBytes(p) == IF p.segments > 0 THEN 8 + 16 * p.segments ELSE 0
ShimLen(p) == 3 + 2 * Len(p.hops)

(* A header whose byte at each offset has the value v(offset). *)
Header(name, size, v(_)) ==
  [i \in 1..size |-> [header |-> name, at |-> i - 1, v |-> v(i - 1)]]
Zeros(name, size) == Header(name, size, LAMBDA at : 0)

HopBytes == 8
Metadata(hop) ==
  Header("hop", HopBytes,
         LAMBDA at : CASE at = 3 -> hop.switch_id
                       [] at = 5 -> 128 * hop.trend + hop.q_occupancy \div 2^16
                       [] at = 6 -> (hop.q_occupancy \div 2^8) % 2^8
                       [] at = 7 -> hop.q_occupancy % 2^8
                       [] OTHER -> 0)

(* The metadata of the hops, one after the other. *)
IntData(hops) ==
  [i \in 1..(HopBytes * Len(hops)) |->
     Metadata(hops[((i - 1) \div HopBytes) + 1])[((i - 1) % HopBytes) + 1]]

Proto(p) == IF IsUdp(p) THEN 17 ELSE 6

ReportHeader == Header("report", 16, LAMBDA at : IF at = 0 THEN 20 ELSE 0)

Ethernet(p) ==
  Header("ethernet", 14, LAMBDA at : CASE at = 12 -> IF IsV6(p) THEN 134 ELSE 8
                                       [] at = 13 -> IF IsV6(p) THEN 221 ELSE 0
                                       [] OTHER -> 0)
IpHeader(p) ==
  IF IsV6(p)
  THEN Header("ipv6", 40, LAMBDA at : CASE at # 6 -> 0
                                        [] at = 6 /\ p.segments > 0 -> 43
                                        [] at = 6 /\ p.segments = 0 -> Proto(p))
  ELSE Header("ipv4", 20, LAMBDA at : IF at = 9 THEN Proto(p) ELSE 0)

Srv6Header(p) ==
  Header("srv6h", SrhBytes(p), LAMBDA at : CASE at = 0 -> Proto(p)
                                             [] at = 4 -> p.segments - 1
                                             [] OTHER -> 0)
L4Header(p) == Zeros("l4", IF IsUdp(p) THEN 8 ELSE 20)

FlowletHeader(p) == Header("flowlet", 1, LAMBDA at : p.update_path)

IntShim(p) ==
  Header("int_shim", 4, LAMBDA at : CASE at = 0 -> 1 [] at = 2 -> ShimLen(p) [] OTHER -> 0)

IntHeader ==
  Header("int_header", 8, LAMBDA at : CASE at = 0 -> 16 [] at = 2 -> 2 [] at = 4 -> 144
                                        [] OTHER -> 0)

(* What the deparser emits after the report's own UDP header; the sink is  *)
(* the first hop.  The options of a TCP header are not parsed: they follow *)
(* the INT data, like the rest of the packet.                              *)
Emitted(p) ==
  ReportHeader \o Ethernet(p) \o IpHeader(p) \o Srv6Header(p) \o L4Header(p)
  \o FlowletHeader(p) \o IntShim(p) \o IntHeader \o IntData(p.hops) \o Zeros("rest", 60)

(* send_report: report_ipv4.totalLen, which report_udp.len and truncate    *)
(* build on.                                                               *)
TotalLenWithoutOptions(p) ==              (* mutant: a TCP header is 20 bytes *)
  20 + 8 + 14 + 16 + (IF IsV6(p) THEN 40 ELSE 20)
  + 4 * ShimLen(p) + SrhBytes(p) + (IF IsUdp(p) THEN 8 ELSE 20)

TotalLen(p) ==
  20 + 8 + 14 + 16 + (IF IsV6(p) THEN 40 ELSE 20)
  + 4 * ShimLen(p) + SrhBytes(p)
  + (IF IsUdp(p) THEN 8 ELSE 4 * p.dataOffset)

(* The datagram holds what report_udp.len says. *)
SendReport(p) ==
  /\ sent = NoReport
  /\ sent' = p
  /\ data' = SubSeq(Emitted(p), 1, TotalLen(p) - 20 - 8)

ReportInit == sent = NoReport /\ data = <<>>

(* The collector's loop takes the datagram and turns to the next. *)
Collect ==
  /\ sent # NoReport
  /\ sent' = NoReport /\ data' = <<>>

ReportNext == (\E p \in Packet : SendReport(p)) \/ Collect

ReportSpec == ReportInit /\ [][ReportNext]_reportVars

-----------------------------------------------------------------------------
(* The collector.  Slices end where the data ends.                         *)

Slice(a, n) == SubSeq(data, a + 1, IF a + n < Len(data) THEN a + n ELSE Len(data))
Number(a, n) == FoldLeft(LAMBDA x, byte : 256 * x + byte.v, 0, Slice(a, n))

Ethertype == Number(28, 2)
HasSegments == Ethertype = 34525 /\ Number(36, 1) = 43
ShiftOneSegment ==                        (* mutant: index read as a count *)
  (IF Ethertype = 34525 THEN 20 ELSE 0)
  + (IF HasSegments THEN 8 + 16 * Number(74, 1) ELSE 0)
Shift == (IF Ethertype = 34525 THEN 20 ELSE 0)
         + (IF HasSegments THEN 8 + 16 * (Number(74, 1) + 1) ELSE 0)
Protocol ==
  IF HasSegments THEN Number(70, 1)
  ELSE IF Ethertype = 34525 THEN Number(36, 1) ELSE Number(39, 1)
DstAddress ==
  IF HasSegments THEN Slice(78, 16)
  ELSE IF Ethertype = 34525 THEN Slice(54, 16) ELSE Slice(46, 4)

Offset == 16 + Shift + (IF Protocol = 17 THEN 42 ELSE 54)
HopCount == (Number(Offset + 1 + 2, 1) - 3) \div (Number(Offset + 1 + 6, 1) % 32)

(* HopMetadata under instruction mask 0x9000. *)
HopMetadata(i) ==
  LET a == Offset + 1 + 12 + 8 * (i - 1)
      occupancy == Number(a + 5, 3)
  IN [switch_id |-> Number(a, 4), trend |-> occupancy \div 2^23,
      q_occupancy |-> occupancy % 2^23]

-----------------------------------------------------------------------------
(* Properties.                                                             *)

(* Whatever headers the packet has, the collector finds in the datagram    *)
(* what it looks for: ports, target (with segments, the last one), flag,   *)
(* shim and INT header.                                                    *)
Starts(bytes, name, at) == bytes # <<>> /\ bytes[1].header = name /\ bytes[1].at = at

FieldsFound ==
  sent # NoReport =>
    /\ Starts(Slice(50 + Shift, 8), "l4", 0)
    /\ Starts(DstAddress, IF HasSegments THEN "srv6h" ELSE IF IsV6(sent) THEN "ipv6" ELSE "ipv4",
                          IF HasSegments THEN 8 ELSE IF IsV6(sent) THEN 24 ELSE 16)
    /\ Protocol = IF IsUdp(sent) THEN 17 ELSE 6
    /\ Starts(Slice(Offset, 1), "flowlet", 0) /\ Number(Offset, 1) = sent.update_path
    /\ Starts(Slice(Offset + 1, 4), "int_shim", 0)
    /\ Starts(Slice(Offset + 5, 8), "int_header", 0)

(* The collector learns the path of the packet, hop by hop. *)
PathDecoded ==
  sent # NoReport =>
    [i \in 1..HopCount |-> HopMetadata(i).switch_id]
      = [i \in DOMAIN sent.hops |-> sent.hops[i].switch_id]

(* int_report.p4, "Original packet headers, INT shim and INT data come     *)
(* after report header": the collector reads of every hop the queue depth  *)
(* and the trend that the switch wrote.                                    *)
QueuesDecoded ==
  sent # NoReport => \A i \in DOMAIN sent.hops : HopMetadata(i) = sent.hops[i]

(* What holds of it: the path is decoded, every hop but the source is read *)
(* as it was written, and the source too when TCP options make the report  *)
(* longer.  Else the source's depth comes without its low byte, below the  *)
(* trend, which reads as 0.                                                *)
OnlySourceDepthLost ==
  /\ PathDecoded
  /\ sent # NoReport => \A i \in DOMAIN sent.hops :
       LET hop == sent.hops[i]
       IN HopMetadata(i) =
            IF i < Len(sent.hops) \/ sent.dataOffset > 5 THEN hop
            ELSE [switch_id |-> hop.switch_id, trend |-> 0,
                  q_occupancy |-> 2^15 * hop.trend + hop.q_occupancy \div 2^8]
=============================================================================
