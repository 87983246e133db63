--------------------------- MODULE NetGraphProofs ---------------------------
(***************************************************************************)
(* Proofs about the control loop, for every topology, set of flows, ECMP   *)
(* hash and cost.  The argument: a table entry always is the segment list  *)
(* of a path of some flow that starts at the same leaf and ends at the     *)
(* same target; since a host has a single uplink, that list also completes *)
(* a path of every other flow that meets the entry.                        *)
(***************************************************************************)
EXTENDS NetGraph, RouteLemmas, TLAPS

-----------------------------------------------------------------------------
(* The inductive invariant.                                                *)

(* Every entry of srv6_transit was exported for a path of some flow that   *)
(* starts at the entry's leaf and has the entry's target.                  *)
EntryExported == Exported(srv6_transit)

IInv == TypeOK /\ EntryExported

(* The candidate that wins a comparison is a path of the flow. *)
LEMMA SelectsOwnPath ==
  ASSUME NEW f \in Flows, NEW w, NEW p \in SelectPath(w, f)
  PROVE  p \in FlowPaths(f)
<1>1. CASE Cardinality(FlowPaths(f)) = 1
  BY <1>1 DEF SelectPath
<1>2. CASE Cardinality(FlowPaths(f)) # 1
  <2>1. PICK pp \in FlowPaths(f) \X FlowPaths(f) : p = ComparePaths(w, pp[1], pp[2])
    BY <1>2 DEF SelectPath
  <2>. QED BY <2>1 DEF ComparePaths
<1>. QED BY <1>1, <1>2

(* Cut short or not, a depth reads as a number. *)
LEMMA DepthsNatural == Depths \subseteq Nat
<1>1. Levels \subseteq Nat
  BY NetGraphAssumption
<1>2. ASSUME NEW t \in 0..1, NEW q \in Nat PROVE CutDepth(t, q) \in Nat
  BY SMT DEF CutDepth
<1>3. ASSUME NEW d \in Depths PROVE d \in Nat
  <2>1. CASE d \in Levels
    BY <1>1, <2>1
  <2>2. CASE \E t \in 0..1, q \in Levels : d = CutDepth(t, q)
    BY <1>1, <1>2, <2>2
  <2>. QED BY <2>1, <2>2 DEF Depths
<1>. QED BY <1>3

(* Under the invariant every flow is on one of its own paths. *)
LEMMA RouteOwned ==
  ASSUME TypeOK, EntryExported, NEW f \in Flows
  PROVE  Route(f) \in FlowPaths(f)
BY RouteUnderOwned DEF EntryExported, Exported, Route

-----------------------------------------------------------------------------
(* The invariant is inductive: one lemma per action.                       *)

LEMMA InitIInv == Init => IInv
<1>. SUFFICES ASSUME Init PROVE IInv
  OBVIOUS
<1>1. weight \in [Fabric -> Nat] /\ queue \in [Fabric -> Levels] /\ shifts \in 0..MaxShifts
  BY NetGraphAssumption DEF Init
<1>2. flows \in [Keys -> AllPaths \union {NoPath}] /\ path_infos \subseteq {SwitchesOf(p) : p \in AllPaths}
  BY DEF Init
<1>3. srv6_transit \in [SwitchSet -> [Hosts -> {Segments(p) : p \in AllPaths} \union {NoPath}]]
  BY DEF Init
<1>4. reports \in [SwitchSet -> Seq(Report)] /\ \A s \in SwitchSet : DOMAIN reports[s] = {}
  BY DEF Init
<1>5. EntryExported
  BY DEF Init, EntryExported, Exported
<1>. QED BY <1>1, <1>2, <1>3, <1>4, <1>5 DEF IInv, TypeOK

LEMMA ShiftQueueIInv ==
  ASSUME IInv, NEW e \in UsedEdges, NEW q \in Levels, ShiftQueue(e, q)
  PROVE  IInv'
<1>1. queue' \in [Fabric -> Levels]
  BY DEF IInv, TypeOK, ShiftQueue
<1>2. shifts' \in 0..MaxShifts
  BY NetGraphAssumption DEF IInv, TypeOK, ShiftQueue
<1>3. UNCHANGED <<weight, flows, path_infos, srv6_transit, reports>>
  BY DEF ShiftQueue, controller
<1>4. TypeOK'
  BY <1>1, <1>2, <1>3 DEF IInv, TypeOK
<1>5. EntryExported'
  BY <1>3 DEF IInv, EntryExported, Exported
<1>. QED BY <1>4, <1>5 DEF IInv

(* A report carries the route of its flow and one depth per edge of it. *)
LEMMA SendReportIInv ==
  ASSUME IInv, NEW f \in Flows, NEW u \in BOOLEAN, SendReport(f, u)
  PROVE  IInv'
<1>. DEFINE p == Route(f)
            t == SinkSwitch(p)
<1>1. p \in FlowPaths(f)
  BY RouteOwned DEF IInv
<1>. PICK depth \in [EdgesOf(p) -> Depths] :
       reports' = [reports EXCEPT ![t] =
         Append(@, [flow |-> f, path |-> p, update |-> u, depth |-> depth])]
  BY DEF SendReport
<1>. DEFINE r == [flow |-> f, path |-> p, update |-> u, depth |-> depth]
<1>2. r \in Report
  <2>1. p \in AllPaths
    BY <1>1 DEF AllPaths
  <2>. HIDE DEF p
  <2>. QED BY <2>1 DEF Report
<1>3. reports' = [reports EXCEPT ![t] = Append(@, r)]
      /\ UNCHANGED <<weight, flows, path_infos, srv6_transit, queue, shifts>>
  BY DEF SendReport, controller
<1>4. r.flow = f /\ r.path = p /\ DOMAIN r.depth = EdgesOf(p)
  OBVIOUS
<1>. HIDE DEF r, p, t
<1>5. reports' \in [SwitchSet -> Seq(Report)]
  <2>1. reports \in [SwitchSet -> Seq(Report)]
    BY DEF IInv, TypeOK
  <2>2. \A s \in SwitchSet : Append(reports[s], r) \in Seq(Report)
    BY <1>2, <2>1
  <2>. QED BY <1>3, <2>1, <2>2
<1>6. ASSUME NEW s \in SwitchSet, NEW i \in DOMAIN reports'[s]
      PROVE  /\ reports'[s][i].path \in FlowPaths(reports'[s][i].flow)
             /\ DOMAIN reports'[s][i].depth = EdgesOf(reports'[s][i].path)
  <2>1. reports[s] \in Seq(Report) /\ \A j \in DOMAIN reports[s] :
          /\ reports[s][j].path \in FlowPaths(reports[s][j].flow)
          /\ DOMAIN reports[s][j].depth = EdgesOf(reports[s][j].path)
    BY DEF IInv, TypeOK
  <2>2. CASE s # t
    <3>1. reports'[s] = reports[s]
      BY <2>2, <1>3 DEF IInv, TypeOK
    <3>. QED BY <3>1, <2>1, <1>6
  <2>3. CASE s = t
    <3>1. reports'[s] = Append(reports[s], r)
      BY <2>3, <1>3 DEF IInv, TypeOK
    <3>2. CASE i \in DOMAIN reports[s]
      <4>1. reports'[s][i] = reports[s][i]
        BY <3>1, <3>2, <2>1, <1>2
      <4>. QED BY <4>1, <3>2, <2>1
    <3>3. CASE i \notin DOMAIN reports[s]
      <4>1. reports'[s][i] = r
        BY <3>1, <3>3, <2>1, <1>2, <1>6
      <4>. QED BY <4>1, <1>1, <1>4
    <3>. QED BY <3>2, <3>3
  <2>. QED BY <2>2, <2>3
<1>7. TypeOK'
  BY <1>3, <1>5, <1>6 DEF IInv, TypeOK
<1>8. EntryExported'
  BY <1>3 DEF IInv, EntryExported, Exported
<1>. QED BY <1>7, <1>8 DEF IInv

(* Taking the oldest report off a channel keeps the channels well formed. *)
LEMMA TakeReport ==
  ASSUME TypeOK, NEW t \in SwitchSet, reports[t] # <<>>,
         reports' = [reports EXCEPT ![t] = Tail(@)]
  PROVE  /\ reports' \in [SwitchSet -> Seq(Report)]
         /\ \A s \in SwitchSet : \A i \in DOMAIN reports'[s] :
              /\ reports'[s][i].path \in FlowPaths(reports'[s][i].flow)
              /\ DOMAIN reports'[s][i].depth = EdgesOf(reports'[s][i].path)
         /\ Head(reports[t]) \in Report
         /\ Head(reports[t]).path \in FlowPaths(Head(reports[t]).flow)
         /\ DOMAIN Head(reports[t]).depth = EdgesOf(Head(reports[t]).path)
<1>1. /\ reports \in [SwitchSet -> Seq(Report)]
      /\ \A s \in SwitchSet : \A i \in DOMAIN reports[s] :
              /\ reports[s][i].path \in FlowPaths(reports[s][i].flow)
              /\ DOMAIN reports[s][i].depth = EdgesOf(reports[s][i].path)
  BY DEF TypeOK
<1>2. reports' \in [SwitchSet -> Seq(Report)]
  BY <1>1
<1>3. ASSUME NEW s \in SwitchSet, NEW i \in DOMAIN reports'[s]
      PROVE  \E j \in DOMAIN reports[s] : reports'[s][i] = reports[s][j]
  <2>1. CASE s # t
    BY <2>1, <1>1, <1>3
  <2>2. CASE s = t
    <3>1. reports'[s] = Tail(reports[s]) /\ reports[s] \in Seq(Report) /\ reports[s] # <<>>
      BY <2>2, <1>1
    <3>. DEFINE c == reports[s]
    <3>. HIDE DEF c
    <3>2. /\ Len(c) \in Nat \ {0} /\ DOMAIN Tail(c) = 1..(Len(c) - 1)
          /\ \A j \in 1..(Len(c) - 1) : Tail(c)[j] = c[j + 1]
      BY <3>1 DEF c
    <3>3. i \in 1..(Len(c) - 1) /\ reports'[s][i] = c[i + 1]
      BY <3>1, <3>2, <1>3 DEF c
    <3>4. i + 1 \in DOMAIN c
      BY <3>1, <3>2, <3>3 DEF c
    <3>. QED BY <3>3, <3>4 DEF c
  <2>. QED BY <2>1, <2>2
<1>4. Head(reports[t]) = reports[t][1] /\ 1 \in DOMAIN reports[t] /\ Head(reports[t]) \in Report
  BY <1>1
<1>. QED BY <1>1, <1>2, <1>3, <1>4

LEMMA LoseReportIInv ==
  ASSUME IInv, NEW t \in SwitchSet, LoseReport(t)
  PROVE  IInv'
<1>1. reports[t] # <<>> /\ reports' = [reports EXCEPT ![t] = Tail(@)]
      /\ UNCHANGED <<weight, flows, path_infos, srv6_transit, queue, shifts>>
  BY DEF LoseReport, controller
<1>2. TypeOK'
  BY <1>1, TakeReport DEF IInv, TypeOK
<1>3. EntryExported'
  BY <1>1 DEF IInv, EntryExported, Exported
<1>. QED BY <1>2, <1>3 DEF IInv

(* What an export, or one that raises, does to the routing state: nothing, *)
(* or the path is installed, with its digest if the switch answers.        *)
Installed(r, p) ==
  /\ Install(p)
  /\ \/ flows' = [flows EXCEPT ![FlowKey[r.flow]] = p]
     \/ AnswerMayBeLost /\ UNCHANGED flows

LEMMA ExportOutcome ==
  ASSUME NEW r, NEW p, Export(r, p) \/ ExportRaises(r, p)
  PROVE  UNCHANGED <<srv6_transit, flows>> \/ Installed(r, p)
BY DEF Export, ExportRaises, Installed

(* What update_infos does to it: nothing, or one path of the report's flow *)
(* is installed.                                                           *)
LEMMA UpdateOutcome ==
  ASSUME IInv, NEW t \in SwitchSet, UpdateInfos(t)
  PROVE  \/ UNCHANGED <<srv6_transit, flows>>
         \/ \E p \in FlowPaths(Head(reports[t]).flow) : Installed(Head(reports[t]), p)
<1>. DEFINE r == Head(reports[t])
            w == Measured(r)
<1>1. r.flow \in Flows
  <2>1. r \in Report
    BY TakeReport DEF IInv, UpdateInfos
  <2>. QED BY <2>1 DEF Report
<1>2. \/ UNCHANGED <<srv6_transit, flows>>
      \/ \E p \in SelectPath(w, r.flow) : Installed(r, p)
  BY ExportOutcome DEF UpdateInfos
<1>. QED BY <1>1, <1>2, SelectsOwnPath

LEMMA UpdateInfosIInv ==
  ASSUME IInv, NEW t \in SwitchSet, UpdateInfos(t)
  PROVE  IInv'
<1>. DEFINE r == Head(reports[t])
<1>1. /\ weight' = Measured(r)
      /\ path_infos' = path_infos \union {SwitchesOf(r.path)}
      /\ reports[t] # <<>> /\ reports' = [reports EXCEPT ![t] = Tail(@)]
      /\ UNCHANGED <<queue, shifts>>
  BY DEF UpdateInfos
<1>2. /\ r \in Report /\ r.flow \in Flows
      /\ r.path \in FlowPaths(r.flow) /\ DOMAIN r.depth = EdgesOf(r.path)
  <2>1. r \in Report /\ r.path \in FlowPaths(r.flow) /\ DOMAIN r.depth = EdgesOf(r.path)
    BY <1>1, TakeReport DEF IInv
  <2>. QED BY <2>1 DEF Report
<1>3. weight' \in [Fabric -> Nat]
  <2>1. r.depth \in UNION {[EdgesOf(p) -> Depths] : p \in AllPaths}
    BY <1>2 DEF Report
  <2>2. \A e \in DOMAIN r.depth : r.depth[e] \in Nat
    <3>1. PICK p \in AllPaths : r.depth \in [EdgesOf(p) -> Depths]
      BY <2>1
    <3>2. Depths \subseteq Nat
      BY DepthsNatural
    <3>. QED BY <3>1, <3>2
  <2>3. \A e \in Fabric : weight[e] \in Nat /\ Cost[e] \in Nat
    BY NetGraphAssumption DEF IInv, TypeOK
  <2>4. \A e \in Fabric : (IF e \in DOMAIN r.depth THEN r.depth[e] * Cost[e] ELSE weight[e]) \in Nat
    BY <2>2, <2>3
  <2>. QED BY <1>1, <2>4 DEF Measured
<1>4. path_infos' \subseteq {SwitchesOf(p) : p \in AllPaths}
  <2>1. r.path \in AllPaths
    BY <1>2 DEF AllPaths
  <2>. QED BY <1>1, <2>1 DEF IInv, TypeOK
<1>5. /\ flows' \in [Keys -> AllPaths \union {NoPath}]
      /\ srv6_transit' \in [SwitchSet -> [Hosts -> {Segments(p) : p \in AllPaths} \union {NoPath}]]
      /\ EntryExported'
  <2>1. CASE UNCHANGED <<srv6_transit, flows>>
    BY <2>1 DEF IInv, TypeOK, EntryExported, Exported
  <2>2. ASSUME NEW p \in FlowPaths(r.flow), Installed(r, p) PROVE <1>5!1 /\ <1>5!2 /\ <1>5!3
    <3>. DEFINE s == SourceSwitch(p)  h == Target(p)
    <3>1. p \in AllPaths /\ h = Dst[r.flow] /\ s \in SwitchSet /\ h \in Hosts
      BY <1>2, OneSourceSwitch, FlowsAssumption DEF AllPaths, FlowPaths
    <3>2. /\ srv6_transit' = [srv6_transit EXCEPT ![s][h] = Segments(p)]
          /\ flows' = [flows EXCEPT ![FlowKey[r.flow]] = p] \/ UNCHANGED flows
      BY <2>2 DEF Installed, Install
    <3>3. srv6_transit \in [SwitchSet -> [Hosts -> {Segments(q) : q \in AllPaths} \union {NoPath}]]
      BY DEF IInv, TypeOK
    <3>. HIDE DEF s, h, r
    <3>4. flows' \in [Keys -> AllPaths \union {NoPath}]
      BY <3>1, <3>2 DEF IInv, TypeOK
    <3>5. srv6_transit' \in [SwitchSet -> [Hosts -> {Segments(q) : q \in AllPaths} \union {NoPath}]]
      BY <3>1, <3>2, <3>3
    <3>6. ASSUME NEW s1 \in SwitchSet, NEW h1 \in Hosts, srv6_transit'[s1][h1] # NoPath
          PROVE  \E g \in Flows : \E q \in FlowPaths(g) :
                   SourceSwitch(q) = s1 /\ Dst[g] = h1 /\ srv6_transit'[s1][h1] = Segments(q)
      <4>1. CASE s1 = s /\ h1 = h
        <5>1. srv6_transit'[s1][h1] = Segments(p)
          BY <4>1, <3>1, <3>2, <3>3
        <5>. QED BY <5>1, <4>1, <3>1, <1>2, <2>2 DEF s
      <4>2. CASE ~(s1 = s /\ h1 = h)
        <5>1. srv6_transit'[s1][h1] = srv6_transit[s1][h1]
          BY <4>2, <3>1, <3>2, <3>3
        <5>. QED BY <5>1, <3>6 DEF IInv, EntryExported, Exported
      <4>. QED BY <4>1, <4>2
    <3>. QED BY <3>4, <3>5, <3>6 DEF EntryExported, Exported
  <2>. QED BY <2>1, <2>2, UpdateOutcome
<1>6. TypeOK'
  BY <1>1, <1>3, <1>4, <1>5, TakeReport DEF IInv, TypeOK
<1>. QED BY <1>5, <1>6 DEF IInv

LEMMA NextIInv == IInv /\ [Next]_vars => IInv'
<1>. SUFFICES ASSUME IInv, [Next]_vars PROVE IInv'
  OBVIOUS
<1>1. CASE \E e \in UsedEdges, q \in Levels : ShiftQueue(e, q)
  BY <1>1, ShiftQueueIInv
<1>2. CASE \E f \in Flows, u \in BOOLEAN : SendReport(f, u)
  BY <1>2, SendReportIInv
<1>3. CASE \E s \in SwitchSet : LoseReport(s)
  BY <1>3, LoseReportIInv
<1>4. CASE \E s \in SwitchSet : UpdateInfos(s)
  BY <1>4, UpdateInfosIInv
<1>5. CASE UNCHANGED vars
  BY <1>5 DEF vars, IInv, TypeOK, EntryExported, Exported
<1>. QED BY <1>1, <1>2, <1>3, <1>4, <1>5 DEF Next

LEMMA Invariance == Spec => []IInv
BY InitIInv, NextIInv, PTL DEF Spec

-----------------------------------------------------------------------------
(* The theorems.                                                           *)

(* Every variable keeps its type, whatever reports are lost or late: in    *)
(* particular each report's path is one of its flow's (update_infos).      *)
THEOREM TypeCorrect == Spec => []TypeOK
<1>1. IInv => TypeOK
  BY DEF IInv
<1>. QED BY <1>1, Invariance, PTL

(* Whatever export_path has installed for whichever flow, every flow       *)
(* follows a loop-free path of allowed length to its own target.           *)
THEOREM RoutesAreSafe == Spec => []RoutesReachTarget
<1>1. IInv => RoutesReachTarget
  BY RouteOwned DEF IInv, RoutesReachTarget
<1>. QED BY <1>1, Invariance, PTL

-----------------------------------------------------------------------------
(* The digests, where no two flows share an entry or a key.                *)

(* The digest kept for a flow is the path whose segments are installed.    *)
DigestInstalled ==
  \A f \in Flows : flows[FlowKey[f]] # NoPath =>
    /\ flows[FlowKey[f]] \in FlowPaths(f)
    /\ srv6_transit[SourceSwitch(EcmpPath[f])][Dst[f]] = Segments(flows[FlowKey[f]])

(* An export writes the entry of its own flow, and its digest where the    *)
(* switch answers ...                                                      *)
LEMMA ExportOwn ==
  ASSUME TypeOK, NEW r \in Report, NEW p \in FlowPaths(r.flow), Installed(r, p)
  PROVE  /\ ~AnswerMayBeLost => flows'[FlowKey[r.flow]] = p
         /\ srv6_transit'[SourceSwitch(EcmpPath[r.flow])][Dst[r.flow]] = Segments(p)
<1>. DEFINE s == SourceSwitch(p)  h == Target(p)  k == FlowKey[r.flow]
<1>1. /\ r.flow \in Flows /\ s \in SwitchSet /\ h \in Hosts /\ k \in Keys
      /\ s = SourceSwitch(EcmpPath[r.flow]) /\ h = Dst[r.flow]
  <2>1. r.flow \in Flows
    BY DEF Report
  <2>. QED BY <2>1, OneSourceSwitch, FlowsAssumption DEF FlowPaths, Keys
<1>2. /\ srv6_transit' = [srv6_transit EXCEPT ![s][h] = Segments(p)]
      /\ flows' = [flows EXCEPT ![k] = p] \/ (AnswerMayBeLost /\ UNCHANGED flows)
  BY DEF Installed, Install
<1>3. srv6_transit \in [SwitchSet -> [Hosts -> {Segments(q) : q \in AllPaths} \union {NoPath}]]
      /\ flows \in [Keys -> AllPaths \union {NoPath}]
  BY DEF TypeOK
<1>. HIDE DEF s, h, k
<1>4. srv6_transit'[s][h] = Segments(p) /\ (~AnswerMayBeLost => flows'[k] = p)
  BY <1>1, <1>2, <1>3
<1>. QED BY <1>1, <1>4 DEF k

(* ... and of no other. *)
LEMMA ExportOther ==
  ASSUME NoSharing, TypeOK, NEW r \in Report, NEW p \in FlowPaths(r.flow), Installed(r, p),
         NEW g \in Flows, g # r.flow
  PROVE  /\ flows'[FlowKey[g]] = flows[FlowKey[g]]
         /\ srv6_transit'[SourceSwitch(EcmpPath[g])][Dst[g]] =
              srv6_transit[SourceSwitch(EcmpPath[g])][Dst[g]]
<1>. DEFINE s == SourceSwitch(p)  h == Target(p)  k == FlowKey[r.flow]
            s1 == SourceSwitch(EcmpPath[g])  h1 == Dst[g]  k1 == FlowKey[g]
<1>1. /\ s = SourceSwitch(EcmpPath[r.flow]) /\ h = Dst[r.flow] /\ r.flow \in Flows
      /\ s1 \in SwitchSet /\ h1 \in Hosts /\ k1 \in Keys
  <2>1. r.flow \in Flows /\ EcmpPath[g] \in FlowPaths(g)
    BY FlowsAssumption DEF Report
  <2>. QED BY <2>1, OneSourceSwitch, FlowsAssumption DEF FlowPaths, Keys
<1>2. k # k1 /\ ~(s = s1 /\ h = h1)
  BY <1>1 DEF NoSharing
<1>3. /\ srv6_transit' = [srv6_transit EXCEPT ![s][h] = Segments(p)]
      /\ flows' = [flows EXCEPT ![k] = p] \/ (AnswerMayBeLost /\ UNCHANGED flows)
  BY DEF Installed, Install
<1>4. srv6_transit \in [SwitchSet -> [Hosts -> {Segments(q) : q \in AllPaths} \union {NoPath}]]
      /\ flows \in [Keys -> AllPaths \union {NoPath}]
  BY DEF TypeOK
<1>. HIDE DEF s, h, k, s1, h1, k1
<1>5. srv6_transit'[s1][h1] = srv6_transit[s1][h1] /\ flows'[k1] = flows[k1]
  BY <1>1, <1>2, <1>3, <1>4
<1>. QED BY <1>5 DEF s1, h1, k1

(* Only the collector changes digests and entries, by installing a path. *)
LEMMA StepOutcome ==
  ASSUME IInv, [Next]_vars
  PROVE  \/ UNCHANGED <<srv6_transit, flows>>
         \/ \E r \in Report : \E p \in FlowPaths(r.flow) : Installed(r, p)
<1>1. CASE \E e \in UsedEdges, q \in Levels : ShiftQueue(e, q)
  BY <1>1 DEF ShiftQueue, controller
<1>2. CASE \E f \in Flows, u \in BOOLEAN : SendReport(f, u)
  BY <1>2 DEF SendReport, controller
<1>3. CASE \E s \in SwitchSet : LoseReport(s)
  BY <1>3 DEF LoseReport, controller
<1>4. ASSUME NEW s \in SwitchSet, UpdateInfos(s)
      PROVE  \/ UNCHANGED <<srv6_transit, flows>>
             \/ \E r \in Report : \E p \in FlowPaths(r.flow) : Installed(r, p)
  <2>1. Head(reports[s]) \in Report
    BY <1>4, TakeReport DEF IInv, UpdateInfos
  <2>. QED BY <1>4, <2>1, UpdateOutcome
<1>5. CASE UNCHANGED vars
  BY <1>5 DEF vars
<1>. QED BY <1>1, <1>2, <1>3, <1>4, <1>5 DEF Next

LEMMA DigestStep ==
  ASSUME NoSharing, ~AnswerMayBeLost, IInv, DigestInstalled, [Next]_vars
  PROVE  DigestInstalled'
<1>1. CASE UNCHANGED <<srv6_transit, flows>>
  BY <1>1 DEF DigestInstalled
<1>2. ASSUME NEW r \in Report, NEW p \in FlowPaths(r.flow), Installed(r, p)
      PROVE  DigestInstalled'
  <2>. SUFFICES ASSUME NEW f \in Flows, flows'[FlowKey[f]] # NoPath
                PROVE  /\ flows'[FlowKey[f]] \in FlowPaths(f)
                       /\ srv6_transit'[SourceSwitch(EcmpPath[f])][Dst[f]] =
                            Segments(flows'[FlowKey[f]])
    BY DEF DigestInstalled
  <2>1. CASE f = r.flow
    BY <2>1, <1>2, ExportOwn DEF IInv
  <2>2. CASE f # r.flow
    BY <2>2, <1>2, ExportOther DEF IInv, DigestInstalled
  <2>. QED BY <2>1, <2>2
<1>. QED BY <1>1, <1>2, StepOutcome

(* An installed digest is the path its flow is on. *)
LEMMA InstalledIsRoute ==
  ASSUME DigestInstalled, NEW f \in Flows, flows[FlowKey[f]] # NoPath
  PROVE  flows[FlowKey[f]] = Route(f)
<1>. DEFINE q == flows[FlowKey[f]]
<1>1. q \in FlowPaths(f) /\ srv6_transit[SourceSwitch(EcmpPath[f])][Dst[f]] = Segments(q)
  BY DEF DigestInstalled
<1>2. q \in AllPaths
  BY <1>1 DEF AllPaths
<1>. HIDE DEF q
<1>3. Segments(q) # NoPath
  BY <1>2, FlowsAssumption
<1>4. SourceSwitch(q) = SourceSwitch(EcmpPath[f])
  BY <1>1, OneSourceSwitch
<1>5. Route(f) = <<Src[f], SourceSwitch(q)>> \o Segments(q)
  BY <1>1, <1>3, <1>4 DEF Route, RouteUnder
<1>6. <<Src[f], SourceSwitch(q)>> \o Segments(q) = q
  BY <1>1, <1>4, Splice
<1>. QED BY <1>5, <1>6 DEF q

(* To begin with no digest is kept, and every later one is installed. *)
LEMMA DigestsInstalled ==
  ASSUME NoSharing, ~AnswerMayBeLost
  PROVE  Spec => []DigestInstalled
<1>1. Init => DigestInstalled
  <2>1. \A f \in Flows : FlowKey[f] \in Keys
    BY DEF Keys
  <2>. QED BY <2>1 DEF Init, DigestInstalled
<1>2. IInv /\ DigestInstalled /\ [Next]_vars => DigestInstalled'
  BY DigestStep
<1>. QED BY <1>1, <1>2, Invariance, PTL DEF Spec

(* Where no two flows share an entry of srv6_transit or a key, and a switch*)
(* that does an update answers, the digest that update_infos compares a new*)
(* path with is the path the flow is on, whichever exports raise.          *)
THEOREM DigestIsRoute ==
  ASSUME NoSharing, ~AnswerMayBeLost
  PROVE  Spec => []DigestMatchesRoute
<1>1. DigestInstalled => DigestMatchesRoute
  BY InstalledIsRoute DEF DigestMatchesRoute
<1>. QED BY <1>1, DigestsInstalled, PTL

(* Where no two flows share an entry or a key, the control loop implements *)
(* per-flow routing: a step moves at most one flow, to one of its paths.   *)
THEOREM ImplementsFlowRouting ==
  ASSUME NoSharing
  PROVE  Spec => MovesOneFlow
<1>. DEFINE route == [f \in Flows |-> Route(f)]
<1>1. Init => Routing!Init
  <2>. SUFFICES ASSUME Init PROVE Routing!Init
    OBVIOUS
  <2>1. \A f \in Flows : Route(f) \in FlowPaths(f)
    BY InitIInv, RouteOwned DEF IInv
  <2>. QED BY <2>1 DEF Routing!Init
<1>2. IInv /\ RoutesReachTarget' /\ [Next]_vars => [Routing!Next]_route
  <2>. SUFFICES ASSUME IInv, RoutesReachTarget', [Next]_vars PROVE [Routing!Next]_route
    OBVIOUS
  <2>1. CASE UNCHANGED <<srv6_transit, flows>>
    BY <2>1 DEF Route, RouteUnder
  <2>2. ASSUME NEW r \in Report, NEW p \in FlowPaths(r.flow), Installed(r, p)
        PROVE  Routing!Next
    <3>1. r.flow \in Flows
      BY DEF Report
    <3>2. Route(r.flow)' \in FlowPaths(r.flow)
      BY <3>1 DEF RoutesReachTarget, FlowPaths
    <3>3. \A f \in Flows : f # r.flow => Route(f)' = Route(f)
      BY <2>2, ExportOther DEF IInv, Route, RouteUnder
    <3>4. route' = [route EXCEPT ![r.flow] = Route(r.flow)']
      BY <3>1, <3>3
    <3>. QED BY <3>1, <3>2, <3>4 DEF Routing!Next, Routing!Reroute
  <2>. QED BY <2>1, <2>2, StepOutcome
<1>. QED BY <1>1, <1>2, Invariance, RoutesAreSafe, PTL DEF Spec, MovesOneFlow, Routing!Spec
====
