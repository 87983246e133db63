------------------------------ MODULE NetGraph ------------------------------
(***************************************************************************)
(* The control loop of Smoothie.  Sampled packets carry the queue depth of *)
(* every egress they cross to the sink leaf, which mirrors an INT report   *)
(* to the collector over UDP.  The collector (class NetGraph) turns each   *)
(* report into edge weights and, when the sink asks for a new path, may    *)
(* install an SRv6 segment list at the source leaf, in the table           *)
(* srv6_transit whose only key is the destination address.                 *)
(*                                                                         *)
(* The collector is one loop that handles one report at a time, so a       *)
(* report is handled in one step; what interleaves with it is the traffic: *)
(* packets sent, queues that fill and drain, reports in flight.            *)
(***************************************************************************)
EXTENDS Topology, Functions

CONSTANTS
  FlowKey,        (* hash_list(flow_id.values()): the key of a flow        *)
  Levels,         (* the queue depths a switch may report                  *)
  Cost,           (* weight of one queued packet on each fabric edge       *)
  Delta,          (* NetGraph.delta, in the same unit                      *)
  MaxReports,     (* bound: reports in flight from one sink                *)
  MaxShifts,      (* bound: changes of a queue depth                       *)
  Persistent,     (* the flows that never stop sending                     *)
  Cut,            (* the flows with packets that carry no TCP options      *)
  ThriftMayFail,  (* whether a table update may raise and do nothing       *)
  AnswerMayBeLost (* whether it may raise after the switch has done it     *)

VARIABLES
  weight,         (* edge attribute dst+"weight" of each directed edge     *)
  flows,          (* NetGraph.flows: the digest of the last path exported  *)
  path_infos,     (* NetGraph.path_infos: the paths with a history         *)
  srv6_transit,   (* the srv6_transit table of each switch                 *)
  queue,          (* the depth of the egress queue of each fabric edge     *)
  reports,        (* the INT reports in flight from each sink, in order    *)
  shifts          (* how often a queue depth has changed                   *)

vars == <<weight, flows, path_infos, srv6_transit, queue, reports, shifts>>
controller == <<weight, flows, path_infos>>

Keys == {FlowKey[f] : f \in Flows}

ASSUME NetGraphAssumption ==
  /\ FlowKey \in [Flows -> Keys]
  /\ Levels \subseteq Nat /\ 0 \in Levels
  /\ Cost \in [Fabric -> Nat \ {0}]
  /\ Delta \in Nat \ {0}
  /\ MaxReports \in Nat /\ MaxShifts \in Nat
  /\ Persistent \subseteq Flows /\ Cut \subseteq Flows
  /\ ThriftMayFail \in BOOLEAN /\ AnswerMayBeLost \in BOOLEAN

ASSUME LevelsAssumption == \A q \in Levels : q < 2^19   (* bit<19> deq_qdepth *)

-----------------------------------------------------------------------------
(* The data plane, as far as the control loop sees it.                     *)

(* The path a packet of f takes now. *)
Route(f) == RouteUnder(srv6_transit, f)

(* A queue fills or drains. *)
ShiftQueue(e, q) ==
  /\ shifts < MaxShifts
  /\ q # queue[e]
  /\ queue' = [queue EXCEPT ![e] = q]
  /\ shifts' = shifts + 1
  /\ UNCHANGED <<controller, srv6_transit, reports>>

(* What the collector reads of the depth q when the last byte of its word  *)
(* is missing: the trend bit t and the high byte (the operator             *)
(* OnlySourceDepthLost of module IntReport).                               *)
CutDepth(t, q) == 32768 * t + q \div 256

Depths == Levels \union {CutDepth(t, q) : t \in 0..1, q \in Levels}

(* The depths the collector may read of edge e in a report about f.  The   *)
(* report of a packet without TCP options is cut short (int_report.p4), by *)
(* the last byte of its source hop.                                        *)
Readings(f, e) ==
  {queue[e]} \union
  (IF f \in Cut /\ e[1] = SourceSwitch(EcmpPath[f])
   THEN {CutDepth(t, queue[e]) : t \in 0..1} ELSE {})

(* A sampled packet of f crosses the fabric and its sink mirrors a report. *)
(* A packet that enters and leaves the fabric at one leaf yields none: the *)
(* clone it makes at ingress carries no INT header.                        *)
SendReport(f, update) ==
  LET p == Route(f) IN
  /\ SourceSwitch(p) # SinkSwitch(p)
  /\ Len(reports[SinkSwitch(p)]) < MaxReports
  /\ UNCHANGED <<controller, srv6_transit, queue, shifts>>
  /\ \E depth \in {d \in [EdgesOf(p) -> Depths] : \A e \in EdgesOf(p) : d[e] \in Readings(f, e)} :
       reports' = [reports EXCEPT ![SinkSwitch(p)] =
         Append(@, [flow |-> f, path |-> p, update |-> update, depth |-> depth])]

(* The report is lost: reports travel over UDP. *)
LoseReport(s) ==
  /\ reports[s] # <<>>
  /\ reports' = [reports EXCEPT ![s] = Tail(@)]
  /\ UNCHANGED <<controller, srv6_transit, queue, shifts>>

-----------------------------------------------------------------------------
(* The collector.                                                          *)

(* weight_path: the load of a path under the weights w. *)
WeightPath(w, p) == SumFunctionOnSet(w, EdgesOf(p))

(* Measured: the weights after the measurements of a report are written.   *)
MeasuredMaximum(r) ==     (* mutant: an old weight survives a smaller one *)
  [e \in Fabric |-> IF e \in DOMAIN r.depth /\ r.depth[e] * Cost[e] > weight[e]
                    THEN r.depth[e] * Cost[e] ELSE weight[e]]

Measured(r) ==
  [e \in Fabric |-> IF e \in DOMAIN r.depth THEN r.depth[e] * Cost[e] ELSE weight[e]]

(* compare_paths: the first path only when it is strictly lighter. *)
ComparePaths(w, p1, p2) == IF WeightPath(w, p1) < WeightPath(w, p2) THEN p1 ELSE p2

(* select_path: two distinct candidates at random, the lighter one wins. *)
SelectPath(w, f) ==
  LET ps == FlowPaths(f) IN
  IF Cardinality(ps) = 1 THEN ps
  ELSE {ComparePaths(w, pp[1], pp[2]) : pp \in {x \in ps \X ps : x[1] # x[2]}}

(* The tests before an export: the gain exceeds delta, and the flow's      *)
(* digest is not that of p already.                                        *)
IsLighter(w, r, p) == WeightPath(w, r.path) >= WeightPath(w, p) + Delta
IsOldPath(r, p) == flows[FlowKey[r.flow]] = p                        (* mutant *)
IsNewPath(r, p) == flows[FlowKey[r.flow]] # p

(* export_path: the switch's part of it. *)
Install(p) ==
  srv6_transit' = [srv6_transit EXCEPT ![SourceSwitch(p)][Target(p)] = Segments(p)]

(* export_path and store_flow_path. *)
ExportWithSource(r, p) ==           (* mutant: the source switch is not cut *)
  /\ Exportable(p)
  /\ srv6_transit' = [srv6_transit EXCEPT ![SourceSwitch(p)][Target(p)] = Tail(p)]
  /\ flows' = [flows EXCEPT ![FlowKey[r.flow]] = p]

ExportForAll(r, p) ==               (* mutant: the entry matches any target *)
  /\ Exportable(p)
  /\ srv6_transit' = [srv6_transit EXCEPT ![SourceSwitch(p)] = [h \in Hosts |-> Segments(p)]]
  /\ flows' = [flows EXCEPT ![FlowKey[r.flow]] = p]

Export(r, p) ==
  /\ Exportable(p)
  /\ Install(p)
  /\ flows' = [flows EXCEPT ![FlowKey[r.flow]] = p]

(* An exception in export_path ends the handling of the report, whether    *)
(* the switch has not done the update or only its answer is lost.          *)
ExportRaisesLate(r, p) ==           (* mutant: the digest is stored before *)
  /\ ThriftMayFail \/ ~Exportable(p)
  /\ flows' = [flows EXCEPT ![FlowKey[r.flow]] = p]
  /\ UNCHANGED srv6_transit

ExportRaises(r, p) ==
  /\ \/ (ThriftMayFail \/ ~Exportable(p)) /\ UNCHANGED srv6_transit
     \/ AnswerMayBeLost /\ Exportable(p) /\ Install(p)
  /\ UNCHANGED flows

(* update_infos on the oldest report of sink s. *)
UpdateInfos(s) ==
  /\ reports[s] # <<>>
  /\ reports' = [reports EXCEPT ![s] = Tail(@)]
  /\ UNCHANGED <<queue, shifts>>
  /\ LET r == Head(reports[s])
         w == Measured(r)
     IN /\ weight' = w
        /\ path_infos' = path_infos \union {SwitchesOf(r.path)}
        /\ \/ /\ ~r.update
              /\ UNCHANGED <<srv6_transit, flows>>
           \/ /\ r.update
              /\ \E p \in SelectPath(w, r.flow) :
                   \/ /\ ~IsLighter(w, r, p) \/ ~IsNewPath(r, p)
                      /\ UNCHANGED <<srv6_transit, flows>>
                   \/ /\ IsLighter(w, r, p) /\ IsNewPath(r, p)
                      /\ Export(r, p) \/ ExportRaises(r, p)

-----------------------------------------------------------------------------

Init ==
  /\ weight = [e \in Fabric |-> 0]
  /\ flows = [k \in Keys |-> NoPath]
  /\ path_infos = {}
  /\ srv6_transit = [s \in SwitchSet |-> [h \in Hosts |-> NoPath]]
  /\ queue = [e \in Fabric |-> 0]
  /\ reports = [s \in SwitchSet |-> <<>>]
  /\ shifts = 0

(* The edges some candidate path of some flow crosses. *)
UsedEdges == UNION {EdgesOf(p) : p \in AllPaths}

Next ==
  \/ \E e \in UsedEdges, q \in Levels : ShiftQueue(e, q)
  \/ \E f \in Flows, u \in BOOLEAN : SendReport(f, u)
  \/ \E s \in SwitchSet : LoseReport(s) \/ UpdateInfos(s)

Spec == Init /\ [][Next]_vars

-----------------------------------------------------------------------------
(* Fairness.  A persistent flow keeps pausing long enough to have updates  *)
(* requested (module Flowlet), the collector's loop never stops, UDP does  *)
(* not lose every report of a flow, and not every update that its reports  *)
(* lead to raises.  Nothing is assumed of the flows that end, nor of the   *)
(* queues.                                                                 *)

(* Report r has its effect: no exception and no draw of two candidates     *)
(* keeps it from moving its flow, if there is a path worth it.             *)
TakesEffect(r) ==
  flows' # flows \/ ~\E p \in SelectPath(weight', r.flow) : IsLighter(weight', r, p) /\ IsNewPath(r, p)

(* The leaves that ever mirror a report. *)
Sinks == {SinkSwitch(EcmpPath[f]) : f \in Flows}

HandleUpdate(f) ==
  \E s \in Sinks :
    /\ reports[s] # <<>>
    /\ Head(reports[s]).flow = f /\ Head(reports[s]).update
    /\ UpdateInfos(s) /\ TakesEffect(Head(reports[s]))

FairSpec ==
  /\ Spec
  /\ \A s \in Sinks : WF_vars(UpdateInfos(s))
  /\ \A f \in Persistent : SF_vars(SendReport(f, TRUE)) /\ SF_vars(HandleUpdate(f))

-----------------------------------------------------------------------------
(* Properties.                                                             *)

Report ==
  [flow : Flows, update : BOOLEAN,
   path : AllPaths,
   depth : UNION {[EdgesOf(p) -> Depths] : p \in AllPaths}]

(* Every variable keeps its type; a report's path is one of its flow's and *)
(* it measures exactly the edges of that path.                             *)
TypeOK ==
  /\ weight \in [Fabric -> Nat]
  /\ flows \in [Keys -> AllPaths \union {NoPath}]
  /\ path_infos \subseteq {SwitchesOf(p) : p \in AllPaths}
  /\ srv6_transit \in [SwitchSet -> [Hosts ->
       {Segments(p) : p \in AllPaths} \union {NoPath}]]
  /\ queue \in [Fabric -> Levels]
  /\ reports \in [SwitchSet -> Seq(Report)]
  /\ \A s \in SwitchSet : \A i \in DOMAIN reports[s] :
       /\ reports[s][i].path \in FlowPaths(reports[s][i].flow)
       /\ DOMAIN reports[s][i].depth = EdgesOf(reports[s][i].path)
  /\ shifts \in 0..MaxShifts

(* Whatever the collector installs, for whichever flow, every flow that    *)
(* meets the entry still follows a loop-free path to its own target: the   *)
(* entry is keyed by the target alone (export_path) and the switches       *)
(* follow it blindly.                                                      *)
RoutesReachTarget == \A f \in Flows : Route(f) \in FlowPaths(f)

(* No two flows share a table entry (same source leaf, same target) or a   *)
(* key.                                                                    *)
NoSharing ==
  \A f, g \in Flows : f # g =>
    /\ \/ Dst[f] # Dst[g]
       \/ SourceSwitch(EcmpPath[f]) # SourceSwitch(EcmpPath[g])
    /\ FlowKey[f] # FlowKey[g]

(* The digest kept for a flow is the path its packets take: what the test  *)
(* "avoid exporting several times the same path" of update_infos relies    *)
(* on.  It holds under NoSharing while a switch that does an update answers. *)
DigestMatchesRoute ==
  \A f \in Flows : flows[FlowKey[f]] # NoPath => flows[FlowKey[f]] = Route(f)

(* The control loop implements per-flow routing while no two flows share   *)
(* an entry: a step of the collector moves at most the flow that asked,    *)
(* and always to one of its own paths.                                     *)
Routing == INSTANCE FlowRouting WITH
  route <- [f \in Flows |-> Route(f)],
  PathsOf <- [f \in Flows |-> FlowPaths(f)]
MovesOneFlow == Routing!Spec

(* What a report may tell of edge e now. *)
Believable(e) == {d * Cost[e] : d \in UNION {Readings(f, e) : f \in Flows}}

(* On a link that a persistent flow stays on, the collector ends up with   *)
(* what a report tells of the queue as it is: the truth, except on a link  *)
(* from the source leaf of a flow whose reports are cut.  No lost, late,   *)
(* cut or overtaken report leaves an older weight there.                   *)
ViewConverges ==
  \A f \in Persistent, e \in UsedEdges :
    <>[](e \in EdgesOf(Route(f))) => <>[](weight[e] \in Believable(e))

(* Once the queues stop moving, no persistent flow stays on a path that    *)
(* the collector itself believes heavier, by delta, than another: what a   *)
(* stale report or an update that raised did wrong is put right.  It is    *)
(* about flows whose reports are whole.                                    *)
SettlesOnLightPath ==
  <>[](\A f \in Persistent : \A p \in FlowPaths(f) :
         WeightPath(weight, Route(f)) < WeightPath(weight, p) + Delta)
=============================================================================
