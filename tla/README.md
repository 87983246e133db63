# Smoothie in TLA+

Smoothie balances the paths of flows in a leaf-spine data centre fabric. P4
switches stamp sampled packets with queue depths (In-band Network Telemetry,
INT); the leaf a packet leaves the fabric at mirrors a report to a controller;
the controller turns reports into edge weights and, when the sink leaf asks for
it, installs an SRv6 segment list at the flow's source leaf. This directory
specifies that system in TLA+, checks it with TLC and proves what matters most
with TLAPS. Paths below are relative to the repository.

## Inventory

| Component | Source | State | Operations | Hard behaviour |
|---|---|---|---|---|
| Collector and path controller | `src/int_collector_influx.py`: `NetGraph`, `path_infos`, `IntReport`, `HopMetadata`, `start_udp_server` | edge weights, `flows` (digest of the last path exported per flow), `paths` (cache), `path_infos` (ring of samples per path), the Thrift connections | `update_infos`, `select_path`, `export_path`, `store_flow_path`, `add_weight`, `linreg`, parsing | stale, lost, overtaken reports; failing table updates; entries shared by flows; a random choice of two |
| Data plane: routing, telemetry | `p4_src/int.p4`, `include/{srv6,int_source,int_transit,int_sink,parser,headers}.p4` | tables, packets, headers of a packet | INT source, transit and sink; SRv6 end, pop and insert; ECMP | tables that change under a packet; the clone is taken before ingress; lengths adjusted in many places |
| Data plane: reports | `p4_src/include/int_report.p4`, the deparser | report sequence number | `send_report` | two programs must agree on offsets and lengths |
| Data plane: flowlets | `p4_src/include/flowlet.p4` | two registers per 5-tuple hash | `read_flowlet_registers`, `update_path` | packets interleave between two atomic sections; colliding hashes; 48-bit time |
| Table generator | `topos/TopoGenerator.py`, `src/helper.py` | files | `genSpineLeaf`, `generate_command` | addresses and ports must agree with those that others derive |
| NetworkAPI | `src/Network_API_l.py` | networkx graph, ids, ports, task schedulers | add, update, delete and pop of nodes, links and tasks; assignment strategies; `startNetwork`, `stopNetwork` | order of calls; a failing second half of an update |
| AppRunner | `src/AppRunner.py`, `app.py` | none beyond NetworkAPI's | reads JSON into NetworkAPI calls | |
| Traffic generator | `empirical-traffic-gen/src` (`client.c`, `server.c`, `common.c`) | the plan of all requests, counters of files, a mutex, start and stop times, one socket, listener thread and server process per connection | closed loop, open loop, `listen_connection`, `handle_connection` | counters shared by threads, one of them without the lock; requests sent while the lock is held, into sockets that may be full; every listener ends by its own count; a server that dies |
| Traffic generator, UDP | `empirical-traffic-gen/src_udp` | the same | the same over datagrams | nothing detects a lost datagram |
| Host configuration, scripts, plots | `src/hostv6.py`, `src/networking.py`, `host/`, `benchmark/` | none | shell commands, measurements | |

How they interact: TopoGenerator writes `topos/*.json` and the table entries of
every switch; AppRunner feeds the JSON to NetworkAPI, which gives out ports and
ids, writes `topology.json`, starts Mininet and the collector. At run time the
data plane and the collector only share UDP reports (switch to collector) and
the tables `srv6_transit` (collector to source leaf, over Thrift). The traffic
generator runs on the hosts and only sends packets.

What makes each correct: routes stay loop-free and lead to their target
whatever is installed; the controller's beliefs become true and flows settle;
telemetry and segment routing are invisible to hosts; reports tell the path and
the depths; requests for a new path come between flowlets and are spaced out;
generated tables carry every packet home; no file of a benchmark is asked for
twice, the closed loop waits for each request, and a run ends with complete
statistics.

## Modules

| Module | Models | Run by |
|---|---|---|
| `Topology` | `topology.json`, the candidate paths of `select_path`, segment lists, the route a transit table gives a flow | all fabric modules |
| `NetGraph` | the control loop: queues, reports in flight, `update_infos` with all it calls | `MCNetGraph` |
| `FlowRouting` | abstract: each flow on one of its own paths, moved one at a time | refined by `NetGraph` |
| `RouteLemmas` | lemmas about paths and transit tables | TLAPS |
| `NetGraphProofs` | theorems about `NetGraph` | TLAPS |
| `PathInfos`, `SlidingWindow` | `path_infos` and the abstract window it implements | `PathInfos` |
| `IntReport` | `send_report` and the deparser against `IntReport`/`HopMetadata` of the collector | `IntReport` |
| `CollectorProofs` | theorems about `PathInfos` and `IntReport`, with the lemmas on folds that both need | TLAPS |
| `Flowlet` | `flowlet.p4` | `MCFlowlet` |
| `FlowletProofs` | theorems about `Flowlet` | TLAPS |
| `DataPlane`, `Network` | the journey of a packet through ingress and egress of each switch, and the transparent network it implements | `MCDataPlane` |
| `DataPlaneProofs` | theorems about `DataPlane` | TLAPS |
| `NetworkAPI` | nodes, links, CPU bridge, task schedulers, addressing strategies, `auto_assignment`, `startNetwork` | `MCNetworkAPI` |
| `NetworkAPIProofs` | theorems about `NetworkAPI` | TLAPS |
| `TopoGen` | tables generated by `TopoGenerator.py`, a packet's journey through them, where its report goes | `TopoGen` |
| `TopoGenProofs` | theorems about `TopoGen` | TLAPS |
| `TrafficClient` | the client's threads and the server's processes over the connections of a run | `TrafficClient` |
| `RequestLoop` | abstract: requests in order, back to back in the closed loop | refined by `TrafficClient` |
| `TrafficClientProofs` | theorems about `TrafficClient`, with the lemmas on the stream of a connection | TLAPS |

`NetGraph` and `DataPlane` share `Topology`, in particular `RouteUnder`, the
path a transit table gives a flow. `DataPlane` shows at the level of headers
that a packet does follow that path and that its report tells it
(`FollowsSourceRoute`, `ReportTellsRoute`); `NetGraph` then treats a sampled
packet as one step (`SendReport`).

### NetGraph

The collector handles one report at a time in a single thread
(`start_udp_server`), so `UpdateInfos(s)` is one step that takes the oldest
report of sink `s`: reports of one sink stay in order, those of different sinks
overtake each other, any may be lost (`LoseReport`). In the step, in the order
of the code: weights of the measured edges are written, the path gets a
history, two candidates are drawn and compared under the *new* weights, the
delta test, the digest test, `export_path`, `store_flow_path`. `export_path` can
raise (Thrift, no `srv6_t_insert_1` or `_4`, no slot in `thrift_switches` for the
last switch id): `ExportRaises` keeps the weights, as the code does.
`ThriftMayFail` switches failures of the table update itself on, and
`AnswerMayBeLost` an exception after the switch has done the update already
(`Install`), when the table is new and the digest is not.

A report carries the depths as the collector will read them (`Readings`). For a
flow in `Cut`, which sends UDP or TCP segments without options, the depth of the
source leaf's queue may be what is left without its last byte (`CutDepth`, the
operator that `OnlySourceDepthLost` of `IntReport` establishes; finding 2).

Weights are integers: depth times `Cost`, the inverse of the edge's relative
bandwidth; `Delta` is in the same unit. `Route(f)` is not a variable: it is
what the tables do to a packet of `f`.

### NetworkAPI

One action per call of the API; the order of the calls is free, which contains
the one order of `AppRunner`. A call that raises ends the program (`status`
becomes "raised"), as nothing in `AppRunner` or `app.py` catches it. A link is a
record whose fields are pairs, indexed by its two ends in the order in which it
was added; `SetEnd` is `updateLink` with its swap of the options for a link
stored the other way, `Fits` the checks of `addLink`. `AssignNodes` and
`AssignLinks` are the two loops of `auto_assignment`, folds over the nodes and
the links in natural order; the strategies `L2`, `Mixed` and `L3` meet the
links in any order, since `links()` is not sorted there. They give a host the
gateway of the last of its links in that order (`WithGateways`), and a switch
without an id the next free one, node by node (`IdentifyNode`). `StartNetwork` is
`startNetwork`: assignment, `start_schedulers`, the test of `save_topology` and
`distribute_tasks` in one step, for nothing else uses the description meanwhile;
"startFailed" is an exception out of it. Calls on nodes or links that do not
exist, overwriting a node by adding it again (a documented warning), and the
deletion of `sw-cpu` or a link to it by hand are left out; `setIntfName` only
takes names unlike those that `auto_assignment` gives (`UserName`).
`setThriftPort` and `setGrpcPort` check nothing, as in the code; `SharesPorts`
says whether the program may give a service the port of another. A
description does not begin with parallel links (`StartLinks`), but `AddLink`
may make some.

### Flowlet, IntReport, DataPlane, TopoGen, PathInfos

`Flowlet` has two actions per packet, one for each atomic section, so other
packets run in between; `Latency` bounds the time a packet may spend there and
is at most the timeout, as in any real pipeline. `seen` and `asked` are
observers, the instants without the modulus, in whose terms the properties
speak of real time.

`IntReport` builds a report from tagged bytes, one definition per header, in
the order of the deparser (`Emitted`), cuts it where `report_udp.len` says, and
evaluates the collector's offsets on the result. The fields that the collector
looks at carry real numbers, the rest of a byte's content is its header and
offset.

`DataPlane` has one action per traversal of a switch (`Forward`): parser,
`Int_source`, `SRv6`, `ipv6_lpm`, then `Int_transit`, `Int_sink`. Lengths are
modulo `Modulus` (2^16 in the code). The clone of the sink starts from the
packet as it was parsed, before ingress. `trail` and `route` observe where the
packet went and the path in force when it passed its source leaf.
`FabricAssumption` is what the generator builds: ECMP goes up to a spine, which
has no hosts, and down again, and `configure_source` sets `max_hop` to 4
(`topos/TopoGenerator.py:49`). With a longer ECMP path or a `max_hop` of 2 the
theorems below would fail: a leaf in the middle would hash the packet a second
time, or the last switch would find no room on the stack.

`TopoGen` computes the table entries for `MaxSNum` switches and follows a
packet, by IPv4, ECMP or a segment list. `Neighbour` is the port assignment of
NetworkAPI (`auto_assignment` in natural order of node names), after which
`create_dp_cpu_link` adds the interface of the collector's network. The
generator cannot ask for that number: `configure_sink` computes the mirror port
of a leaf as the number of its links plus one. `source` is the leaf a packet was
sent from, `ahead` what it has still to visit of the path its segment list was
made from, and `reported` where the copy of a delivered packet goes. A packet to
a host of its own leaf makes no report: the clone is of the packet as it came,
without an INT header. The entry of a hundredth leaf would have a group of five
digits in its address and is refused (`InLeafPrefix`).

`PathInfos` is the ring and `linreg`; times need not increase. The only call of
`linreg` (`int_collector_influx.py:220`) is commented out: what is shown of it is
what a caller could rely on, nothing in the control loop does.

### TrafficClient

`set_iteration_variables` draws the whole run in advance: the destinations of each
request, without replacement (`Draws`), and the size of its files. This is the
`setup`, any value of which may be initial. A file is `<<request, number>>` in
place of `it * num_dest + j`. The model starts when all connections are open.

Each thread of the client has a `pc`. `run_iteration` is shared, as in the code,
by the main thread and by the listener that completes a request: its entry
(`RunIteration`, which sets the counter in the closed loop), then per file
`Stamp` (the start time) and `Write`, two steps with the answer possibly between
them and the next. `listen_connection` is `ReadMetadata`, `ReadFlow` until
nothing is left, `Received` (stop time and own count), and in the closed loop
`Lock`, `Load`, `Count`: the decrement of `req_file_count` is a read and a
write, so the model would lose one if the lock did. `Count` starts the next
request while the lock is held; `ListenerReturns` releases it.
`handle_connection` is `Serve`, `Echo`, `SendFlow`, `Served`, and ends
(`CloseConnection`) when the client has closed the connection or exited.

A socket holds `Window` messages per direction, and a write blocks while it is
full. A message is what one read returns: a request, the metadata of a file, one
unit of its flow. `Die` kills the server of a connection in `Mortal`; what it
wrote still arrives, then a read returns 0, or an error if the connection was
reset (`ReadFails`). `exit` ends the whole client: every action of the client
asks for `status = "running"`.

`StatsComplete` is what `process_stats` asserts of the times, `ImplementsLoop`
what the tool's README promises of the two loops, `CountsOutstanding` why
`req_file_count`, set by a thread that does not hold the lock, is right all the
same, `FlowsInSync` that flows and metadata never get out of step on a stream.

## Runs

| Run | Checks | Instance |
|---|---|---|
| `NetGraphSafe` | `TypeOK`, `RoutesReachTarget`, `ViewConverges` | 2 leaves, 2 spines, 2 flows of one leaf to one host with one key, of which one may stop and the other's reports may be cut; 2 reports per sink, 2 depths, 2 queue changes, failing updates, lost answers, `FairSpec` |
| `NetGraphOwn` | `DigestMatchesRoute`, `MovesOneFlow`, `SettlesOnLightPath` | 3 leaves, 2 spines, 2 flows of one host to two leaves, of which one may stop; 2 reports per sink, 2 depths, 2 queue changes, failing updates, whole reports, `FairSpec` |
| `NetGraphEnded` | `SettlesOnLightPath`, violated | 2 leaves, 2 spines, 2 flows of one leaf to one host, of which one may stop; 1 report per sink, 4 depths, `FairSpec` |
| `Flowlet` | `TypeOK`, `OneFlowletStart`, `RequestsSpaced`, `RequestsBetweenFlowlets`, `LongPauseAsks` | 3 flows on 2 registers, 2 packets in the pipeline, the clock wraps at 8 and runs to 10 |
| `PathInfos` | `TypeOK`, `LeastSquares`, `IsSlidingWindow` | ring of 3, 2 weights, 3 instants |
| `DataPlane` | `TypeOK`, `FollowsSourceRoute`, `ReportTellsRoute`, `DeliversAsSent` | 2 leaves, 2 spines, 3 flows (one within a leaf), 1 packet while tables change |
| `IntReport` | `FieldsFound`, `OnlySourceDepthLost` | IPv4, IPv6, 0, 2 or 3 segments, UDP, TCP with and without options, up to 2 hops, 3 depths |
| `IntReportUdp` | `QueuesDecoded`, violated | UDP only |
| `NetworkAPI` | `TypeOK`, `StartSucceeds`, `DistinctWhenStarted`, `CpuLinks`, `TasksServed`, `ChoicesKept`, `OneInterfaceSet`, `GatewayReachable` | a leaf, a P4Runtime spine, a numbered and a named host, 3 links; any 3 calls, then the start |
| `TopoGen` | `TypeOK`, `OnlyTargetReached`, `Arrives`, `FollowsSegments` | 12 switches: the repository's fabric |
| `TopoGenTen` | `Arrives`, violated | 15 switches |
| `TrafficClient` | `TypeOK`, `StatsComplete`, `CountsOutstanding`, `FlowsInSync`, `ImplementsLoop`, `Ends` | both loops; 2 connections, 2 requests of 1 or 2 files, empty files and files of 2 reads, sockets of 1 message, one server that may die |

Why the bounds are enough. A path decision compares two candidates, so two
spines make every outcome possible; two flows are what it takes to fight over
an entry. Two reports in flight per sink (and several sinks) suffice for every
reordering that `UpdateInfos` can tell apart: it only looks at one report and
the weights. The theorems cover all sizes for the properties they state. The
flowlet clock wraps within a run, so that both an old stamp and a wrapped one
occur; two slots are all the pairs of packets. The ring of 3 wraps after 3
writes, and every window content occurs. One packet in the data plane loses
nothing: packets share only the tables, which `Install` changes at any moment.
Three calls of the NetworkAPI are what its conflicts take: one to add a second
or opposite link, one to fix a port or address, one to undo or address again;
port 1 is one that `auto_assignment` gives out itself, id 254 one that `l3`
refuses, and the service ports 90 and 91 stand for 9090 and 9559 so that Thrift
and gRPC ports meet. `DeletesBusy` and `SharesPorts` are FALSE: see
below.
Two connections are what it takes for a file to be counted while another is on
its way, for two listeners to meet at the lock, and for one of them to hold it
while the other waits; two requests have a first, sent without the lock, and a
last. A socket of one message is full after every write, so every wait of the
real sockets occurs. An empty file is one whose metadata is not followed by
anything.
`CHECK_DEADLOCK FALSE` where bounds on queue changes, time or the single
journey let the model stop.

Fairness (`FairSpec`). Weak fairness of `UpdateInfos` per sink: the loop of
`start_udp_server` never stops and the kernel delivers what it queued. Strong
fairness, for persistent flows only, of sending a report with the update flag
and of handling one: such a flow keeps pausing longer than the flowlet timeout
(`LongPauseAsks` says that a long pause asks), keeps being sampled, and UDP
does not lose all its reports; and when there is a path worth an export, some
handling does export it (`TakesEffect`): not every update raises, and the random
draw of two candidates does not miss it for ever. Nothing is assumed about flows that end. Strong
fairness of `SendReport(f, TRUE)` includes that now and then a request coincides
with a sampled packet, which the random sampling gives with probability one.
`TopoGen` assumes that a switch forwards the packet it holds. `TrafficClient`
assumes weak fairness of the main thread, of each listener and of each server
process: the operating system schedules them all and TCP delivers what was
written. Weak is enough, for a thread that waits for the lock waits for one
thread that needs no lock to finish. Nothing is assumed of deaths and resets.

## Findings

1. **A flow can be stuck on a heavy path after a sharer ends**
   (`NetGraphEnded`). `flows` remembers per *flow* which path was exported, the
   table has one entry per *target*. Flow A exports P, flow B of the same leaf
   and target exports Q, B ends. A now runs on Q; when Q gets heavier, A selects
   P, finds its own digest equal to P and skips the export.
2. **The last byte of INT data is cut from UDP reports** (`IntReportUdp`).
   `totalLen` omits the one-byte flowlet header. The source hop's depth then
   lacks its low byte; options of a TCP header hide the effect. What is read
   instead is `32768 * trend + depth / 256` with trend 0
   (`OnlySourceDepthLost`), so a queue that did not shrink (trend 1) reads as
   at least 32768. `update_infos` weighs the edge from the source leaf to its
   spine with it. `NetGraph` has such readings for the flows in `Cut`: routes
   stay safe whatever they are (`NetGraphSafe`), and `ViewConverges` promises
   that the weights become what a report tells of the queues, which on a link
   that a flow in `Cut` is sent over is not always the truth. On such a link
   the same queue has two or three readings, so `SettlesOnLightPath` is about
   flows with whole reports (`Cut` is empty in `NetGraphOwn`).
3. **Leaf 10 and above are unreachable by ECMP** (`TopoGenTen`). The spine's
   prefix is written with a decimal leaf number inside a hexadecimal address.

Not a finding, but worth knowing: the weight of an edge that no sampled packet
crosses is never refreshed, so a flow does not return to a path it left, even
once that path is empty, before the one it uses is believed heavier than the
old measurement.

Nor is a move always for the better. `update_infos` compares the candidate with
the path that the report's packet took, and the flow may have left that path
since: a stale report can move it from a path the collector believes lighter to
one it believes heavier. No property forbids it; `SettlesOnLightPath` says that
later reports put it right.

When a switch does an update and its answer is lost, the exception leaves the
digest behind the table: `DigestMatchesRoute` is for switches that answer.

The same of the traffic generator. When a server ends in the middle of a run,
`read` returns 0 and the loop that reads metadata (`client.c:747`) tests for
negative results only: the listener goes round for ever (`Spins`), and the
message "Read meta data size is incorrect!" below it cannot be reached. `Ends`
says that this is the one way in which a run does not end. And
`AppRunner.py` assigns the options of a P4Runtime client module to
`compiler_kwargs`, so they are not used.

Five more about NetworkAPI, left as hazards. Nothing keeps a program from giving
two services one port by hand (with `SharesPorts` TRUE, `DistinctWhenStarted`
fails). A node that is deleted leaves its tasks in `self.tasks`, and `distribute_tasks`, which assumes that "All the nodes
in self.tasks have an active scheduler", raises once the network is up (with
`DeletesBusy` TRUE, `StartSucceeds` fails). `mixed` gives the 254th host without
a number the gateway's address (with `LastHost` 2 and two hosts,
`GatewayReachable` fails). `mixed` and `l3` pass `setSwitchDpid` a number for a
non-P4 switch without a DPID, where `addSwitch` parses a string: the call raises
(`Identifiable`). An interface that the program called `s1-eth1` and gave
another port than 1 keeps `auto_assignment` from giving that name to the
interface at port 1: the start raises.

## Proofs

`tlapm M.tla` checks the proofs of module `M`. No theorem assumes anything but the
named assumptions on the constants and the condition its row below states.

### NetGraph

For every topology, set of flows, cost and bound that satisfies
`TopologyAssumption` (symmetric links, one uplink per host, no link between
hosts), `FlowsAssumption` and `NetGraphAssumption`:

| Theorem | States |
|---|---|
| `TypeCorrect` | `Spec => []TypeOK` |
| `RoutesAreSafe` | `Spec => []RoutesReachTarget` |
| `DigestIsRoute` | under `NoSharing` and `~ AnswerMayBeLost`, `Spec => []DigestMatchesRoute` |
| `ImplementsFlowRouting` | under `NoSharing`, `Spec => MovesOneFlow`, the refinement of `FlowRouting` |

The argument. An entry for a target was exported for *some* flow, perhaps from
another host of the leaf; a flow that meets it follows a path the controller
never computed for it. `RoutesReachTarget` alone is not inductive, for it says
nothing of entries no flow uses now and of reports in flight; the inductive
`IInv` adds to `TypeOK` that every entry was exported, i.e. is the segment list
of a path through that leaf to that target (`EntryExported`). The
combinatorial core is `Splice`: replacing the source host of a path by another
host of the same leaf gives a simple path of the same length, whose bound by
the shortest length is the same too (`SameShortestLen`), so it is a candidate
path of the other flow. For the two theorems about single flows, `NoSharing`
(no common source leaf and target, no common key) lets each step be followed
per flow (`StepOutcome`): a step leaves an entry alone or installs one of the
flow's own paths, and while answers are not lost it sets the digest with it.
Without `NoSharing` both are false, which is what finding 1 builds on.

The lemmas about paths and tables are in `RouteLemmas`, for `DataPlane` rests
on them too: `Exported` is what both invariants say of a table.

### DataPlane

For every topology and table that satisfy `TopologyAssumption`,
`FlowsAssumption` and `FabricAssumption`, every number of packets, every modulus
of the length fields and every `max_hop` of at least 3; `SentinelAssumption`
keeps the stand-ins for "no packet" and "no header" apart from packets and
headers:

| Theorem | States |
|---|---|
| `TypeCorrect` | `Spec => []TypeOK` |
| `RouteFollowed` | `Spec => []FollowsSourceRoute` |
| `ReportsTellRoute` | `Spec => []ReportTellsRoute` |
| `FabricIsNetwork` | `Spec => DeliversAsSent`, the refinement of `Network` |

The invariant says of each packet where it is and why (`OnRoute`), and nothing
of it mentions the tables: that is why `Install`, at any moment, cannot disturb
a packet under way. A packet that has left its source leaf is at node `n` of a
path `r` of its flow; its SRv6 header holds `r` backwards with `Len(r) - n`
segments to go, or is absent because `r` is ECMP's path or the header was popped
(`HeaderFits`), and its INT stack holds nodes `n - 1` to 2 (`Recorded`). That a
packet *without* a header stays on its path is the harder half: no later switch
may find an entry for its target, and entries exist at leaves only, never for
the leaf's own hosts (`EntryAtEdge`, from `Exported`). `Heads` is the state of a
packet between ingress and egress; `HeadsOff` and `HeadsOn` establish it at
the source leaf and behind it, `MovedKeeps` and `ReportTold` draw the
consequences.

For the refinement every pipeline stage has a lemma that it leaves `Restored`
alone, what a host would make of the packet if all headers were stripped
(`IntSourceKeeps`, `InsertKeeps`, `EndKeeps`, `TransitKeeps`, `RemoveKeeps`). The
lengths wrap, so those rest on arithmetic modulo `Modulus` from first
principles (`SameRemainder`, `AddToRemainder`, `LengthKept`).

### PathInfos

For every `Size` of the ring, all weights and all instants
(`PathInfosAssumption`), in `CollectorProofs`:

| Theorem | States |
|---|---|
| `TypeCorrect` | `Spec => []TypeOK` |
| `RingIsSlidingWindow` | `Spec => IsSlidingWindow`, the refinement of `SlidingWindow` |
| `NoLineFitsBetter` | `Spec => []Fits`: no line with coefficients `a/det`, `b/det` has a smaller sum of squares than `linreg`'s |
| `LineIsLeastSquares` | `Spec => []LeastSquares` |

The code reads cells relative to `index` and to the number of samples, so
`IInv` says which cells those are: until the ring is full they are the first
ones, with `index` behind them (`FillsInOrder`), all were written
(`CellsWritten`), and `first_t` is the instant of the oldest (`FirstIsOldest`).
`AddWeight` then appends a sample and, when the ring is full, drops the one that
`index` overwrites.

For the line: sorting loses no sample, for every rank belongs to one
(`RankTaken`), whatever equal or decreasing instants the clock gave. `SumOver` is a
fold; `SumIs` unfolds it once, and from there it is linear (`SumLinear`) and of
squares not negative, by induction over the subsets (`SubsetInduction`).
Cramer's rule then makes `linreg`'s coefficients satisfy the normal equations
(`LineNormal`), so the sum of squares of any other line is that of `linreg`'s
plus a sum of squares (`BestLine`). `Fits` allows every integer over the
determinant; `LeastSquares`, which TLC evaluates, is a special case of it.

### IntReport

For every packet that a sink leaf may report (IPv4, IPv6, up to three segments,
UDP, TCP with any options), any queue depths below 2^23 and up to four hops
(`IntReportAssumption`), in `CollectorProofs`:

| Theorem | States |
|---|---|
| `FieldsAreFound` | `ReportSpec => []FieldsFound` |
| `PathIsDecoded` | `ReportSpec => []OnlySourceDepthLost` |

The invariant only says that the socket holds the front of what the deparser
emitted (`ReportInvariant`); the work is in the bytes. `Layout` says at which
offset each header stands in `Emitted`, from one lemma on appending
(`AppendedAt`) and one that what stands in a front stays (`StaysAt`);
`DatagramIs` how long the datagram is. On the other side `Number` is a fold:
`NumberIs` unfolds it, `NumberOne` to `NumberFour` say what numbers of one to
four bytes are. Then the collector's decisions are followed in its order:
ethertype, next header, number of segments (`SegmentsSeen`, `SegmentBytes`), hence
`Shift`, the protocol, and `Offset` is the flag's offset (`OffsetIs`); the
shim's length gives the number of hops (`HopCountIs`). `Sizes` compares what is
read with what is there: from the flag on the datagram holds 12 bytes and 8 per
hop, one less than flag, shim, INT header and metadata need. That byte is the low
byte of the source's depth; a TCP header with options adds a word to the
length and makes up for it (`HopStart`). For every other hop the three bytes of
the depth give back depth and trend (`DepthBytes`, `TrendApart`). For the
source without options the slice ends one byte early (`CutSlice`), and the two
bytes left are the trend as bit 15 above the depth's upper bytes (`CutBytes`,
`SourceRead`).

### Flowlet

For every number of registers and slots, every modulus, timeout, backoff and
`Latency <= Timeout` (`FlowletAssumption`):

| Theorem | States |
|---|---|
| `TypeCorrect` | `Spec => []TypeOK` |
| `AtMostOneStart` | `Spec => []OneFlowletStart` |
| `BackoffKept` | `Spec => RequestsSpaced` |
| `OnlyBetweenFlowlets` | `Spec => RequestsBetweenFlowlets` |
| `LongPauseNeverMissed` | `Spec => LongPauseAsks` |

The stamps are modulo the clock's width; the invariant ties them to the real
instants. `RegistersTrackTime` says so of the registers (they hold the instants
of the last packet and the last request of a hash, or 0 when there was none),
`PacketsTrackTime` of the packets between the two atomic
sections, `PausesApart` that the pauses of two packets of one register do not
overlap, for each took the stamp the other left. A difference of stamps never
exceeds the time that passed (`ElapsedIsGap` gives the cases), so a packet that
takes itself for the start of a flowlet did follow a real pause. Two such packets
would be a pause apart, longer than the pipeline holds a packet: that is where
`Latency <= Timeout` enters, and it makes what a packet read of the feedback
register still true when it writes it (`FeedbackFresh`).

### TopoGen

For every number of switches `MaxSNum`:

| Theorem | States |
|---|---|
| `TypeCorrect` | `Spec => []TypeOK` |
| `SegmentsFollowed` | `Spec => FollowsSegments` |
| `TargetReached` | `Spec /\ Reachable => []OnlyTargetReached` |
| `AllTargetsReached` | with at most nine leaves, `Spec => []OnlyTargetReached` |
| `NoOtherHostReached` | `Spec => [](at \in Hosts => at = target)` |

`Journey` lists the four situations of a packet: without segments, with them,
on its way up and on its way down, the last two with what is then `ahead` of it.
`AlongThePath` follows a packet with segments through them: in each, the next
switch is the head of `ahead`, and `ahead` is empty only at the host, which is
what `SegmentsFollowed` says. The tables, the link addresses and the ports
agree: the port at which a leaf sends for its host `h` is `h`, that for spine
`s` is `HostsPerLeaf + s`, and a spine's port for leaf `l` is `l`, so `Neighbour`
of the looked-up port is the node whose address was looked up. `Reachable` is
the condition of finding 3, as a condition on the initial state: by ECMP, the
leaf's number has one digit. Beyond it packets are lost, but
`NoOtherHostReached` needs no condition: none ends at a wrong host.

Two definitions were corrected on the way to proofs: `Neighbour` here and
`AssignNode` of `NetworkAPI` were CASE expressions with arms that overlap, of
which TLA+ does not say which one is meant (TLC takes the first).

### TrafficClient

For any finite set of connections, any number and fanout of requests, any sizes
of files and sockets, any servers that may die (`TrafficAssumption`):

| Theorem | States |
|---|---|
| `TypeCorrect` | `Spec => []TypeOK` |
| `CountsAreRight` | `Spec => []CountsOutstanding` |
| `StreamsInSync` | `Spec => []FlowsInSync` |
| `StatsAreComplete` | `Spec => []StatsComplete` |
| `LoopIsImplemented` | `Spec => ImplementsLoop`, the refinement of `RequestLoop` |

The argument has three parts. What is on its way on a connection is a *stream*:
the rest of the flow the listener expects, then metadata, each followed by as
many parts as its file has, and at the end what the server still owes
(`Streams`; the module begins with one lemma per way of extending or consuming
a stream). Hence every file is in one place at a time, in a socket, at the server
or at the listener, of its own connection (`OnePlace`), and is received once.
In the closed loop a thread with files left to send is the only one, the files
it has sent are those below `next`, and all belong to request `req_index`
(`Order`); `req_file_count` is the cardinality of the files of that request that
nobody has counted (`Counted`). The listener that reads 1 there has the only one
of them, so nothing of the request is on its way and nobody is sending
(`LastOneCounts`), which is why the first request, sent without the lock, does no
harm. Last, each listener counts the files it received (`Tally`): when all have
closed, the cardinalities leave no file out.

### NetworkAPI

For any finite set of nodes and links, any numbers, ports, ids and services and
any number of calls (`NetworkAPIAssumption`: the links join two different nodes
other than the bridge, those of the beginning are not parallel, and there are
fewer nodes than the bridge's id, so that no switch is given that one):

| Theorem | States |
|---|---|
| `TypeCorrect` | `Spec => []TypeOK` |
| `CpuLinksHold` | `Spec => []CpuLinks` |
| `TasksAreServed` | `Spec => []TasksServed` |
| `StartAlwaysSucceeds` | unless busy nodes are deleted (`~ DeletesBusy`), `Spec => []StartSucceeds` |
| `AllDistinctWhenStarted` | unless ports are given twice (`~ SharesPorts`), `Spec => []DistinctWhenStarted` |
| `ChoicesAreKept` | `Spec => ChoicesKept` |
| `OneInterfaceIsSet` | `Spec => OneInterfaceSet` |
| `GatewaysAreReachable` | with fewer hosts than `LastHost` (`FewHosts`), `Spec => GatewayReachable` |

The three conditions are the hazards above: a deleted node leaves its tasks
behind, the setters of service ports check nothing, and `mixed` may give the
gateway's address to a host.

The properties speak of the end of a start; the invariant `IInv` of what the
calls before it keep. Whatever is set is distinct (`PortsOK`, `NamesOK`, `IpsOK`,
`IdsOK`, `ServicesOK`), `NoNum` and its like apart; a link to the bridge belongs
to a switch with a CPU port, bears its name and is the only one (`BridgeInv`);
while the description is open no interface has a name of the kind that
`auto_assignment` gives (`NoEth`), so that a new name can only clash with one
given in the same start, to an interface with another port; and after the start
nothing is left unset (`Full`, `Numbers`). None of the properties would be
inductive without these: `DistinctWhenStarted` says nothing before the start.

The start is two loops, each a fold. `FoldLeft` and `MapThenFoldSet` are unfolded
once and for all by lemmas at the beginning of the module, and what a fold
yields is shown by induction over the subsets of what it runs over
(`SubsetInduction`: a smallest subset that is not `Good` cannot be; `Good` is a set
of subsets, for the library's rule takes an operator). After any
part of the loop the nodes are better than they were (`Improves`: what was set is as
it was, what is set is distinct); of the links, those still to come are as
they were, those behind are filled in (`Filled`, `Full`), and all of them
together are `Sound`, which is what makes `Fits`, the checks of `addLink`, pass
for the next one (`AssignLinkFills`). The link that `SetEnd` looks up is the
one the loop is at because two links never have the same ends and key; for
`setIntfPort`, which names no key, it is one of those between the two nodes, in
either direction (`OnePortSet`). For the gateways, `Addresses` sums up what
`mixed` and `l3` pass to `Address`, and `AddressReaches` follows a host's
interface to the switch's.

## Only model-checked

Liveness (`ViewConverges`, `SettlesOnLightPath`, `Arrives`, `Ends`): under
fairness it is out of the proof system's reach. Every invariant and every action
property that a passing run checks is also a theorem. The properties that
the three other runs expect to be violated are of course not.

## Not modelled

- `IntCollector` and InfluxDB: nothing feeds it; the call is commented out.
- The L2 tables, multicast and neighbour discovery, ICMP, the CPU port; INT
  instructions other than 0x9000's; hop limits (the decrement is commented out).
- hash collisions of md5; crc16 collisions are modelled.
- Of NetworkAPI: compilation, the programming of switches and hosts and the
  benchmark, which run other programs; MAC addresses, routers, and the settings
  nothing else depends on. Of AppRunner: reading the file.
- Of the traffic generator: the configuration file, the opening of connections
  (a failure ends the program), the server's accept loop and fork, and the
  arithmetic of `process_stats`; the pauses between requests of the open loop,
  which are arbitrary here. The UDP variant reads datagrams as if they were a
  stream: after a lost one a listener waits or is out of step, nothing in the
  code takes note of it, and there is nothing left to promise.
- `networking.py` and `hostv6.py`: Mininet classes and shell commands.
- `genFatTree`, whose result is not used; host scripts, benchmarks and plots.

## Plan

1. `NetworkAPI` with interface names that look like those of `auto_assignment`,
   and the condition under which the start succeeds all the same.
2. A composition of `Flowlet` and `NetGraph`: requests burned on packets that
   are not sampled; convergence under the composed fairness.
