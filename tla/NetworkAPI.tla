------------------------------ MODULE NetworkAPI ------------------------------
(***************************************************************************)
(* The description of the emulated network (src/src/Network_API_l.py): a   *)
(* program adds nodes and links, changes them, picks an addressing         *)
(* strategy and starts the network, which fills in whatever was left open. *)
(* A call that raises ends the program: AppRunner catches nothing.         *)
(*                                                                         *)
(* Kept of a node: its ids and ports, whether it has a CPU port and a task *)
(* scheduler, its default route and its default address.  Kept of a link:  *)
(* its two ends, in the direction in which it was added, each with its     *)
(* port, its interface name and its IPv4 address.  MAC addresses and the   *)
(* settings nothing here depends on (bandwidth, logs, P4 sources) are not. *)
(* A name is added once: that a second addNode overwrites the first is a   *)
(* documented warning of the code.                                         *)
(***************************************************************************)
EXTENDS Integers, SequencesExt, FiniteSetsExt

CONSTANTS
  NameOrder,    \* the names of the nodes, in natural order, CpuSwitch too
  Kind,         \* name -> "host", "switch", "p4" or "p4rt"
  HostNum,      \* the number in a host name h<number>; no entry for the others
  StartLinks,   \* the links <<node1, node2>> of the description to begin with
  Pairs,        \* the links the program may add later
  UserPorts,    \* the interface ports the program may ask for
  UserIds,      \* the switch ids the program may ask for
  UserServices, \* the Thrift and gRPC ports the program may ask for
  ThriftBase,   \* 9090 in the code
  GrpcBase,     \* 9559 in the code
  LastHost,     \* 254 in the code: the gateway of a /24 network
  DeletesBusy,  \* may a node be deleted while tasks are scheduled on it?
  SharesPorts,  \* may a service be given the port of another by hand?
  MaxCalls      \* bound on the calls made before the start

VARIABLES nodes, links, cpu_bridge, tasks, sent, status, calls
vars == <<nodes, links, cpu_bridge, tasks, sent, status, calls>>

CpuSwitch == "sw-cpu"
Names     == ToSet(NameOrder)
UserNodes == Names \ {CpuSwitch}   \* the nodes the program names in its calls
NoNum     == -1          \* an id or a port nobody chose yet
NoName    == <<>>
NoIp      == <<>>
CpuDpid   == 99          \* stands for 0x1000000000000000, the bridge's id

(* The description to begin with has no parallel links, and there are not  *)
(* as many nodes as the bridge's id, so that no switch is given that one.  *)
ASSUME NetworkAPIAssumption ==
  /\ NameOrder \in Seq(STRING) /\ IsInjective(NameOrder)
  /\ Kind \in [Names -> {"host", "switch", "p4", "p4rt"}]
  /\ CpuSwitch \in Names /\ Kind[CpuSwitch] = "switch"
  /\ DOMAIN HostNum \subseteq Names /\ HostNum \in [DOMAIN HostNum -> Nat]
  /\ StartLinks \cup Pairs \subseteq {p \in UserNodes \X UserNodes : p[1] # p[2]}
  /\ \A p, q \in StartLinks : {p[1], p[2]} = {q[1], q[2]} => p = q
  /\ UserPorts \subseteq Nat /\ UserIds \subseteq Nat /\ UserServices \subseteq Nat
  /\ CpuDpid \notin UserIds /\ Len(NameOrder) + 1 < CpuDpid
  /\ {ThriftBase, GrpcBase, LastHost, MaxCalls} \subseteq Nat
  /\ DeletesBusy \in BOOLEAN /\ SharesPorts \in BOOLEAN

IsHost(n)     == Kind[n] = "host"
IsSwitch(n)   == ~ IsHost(n)
IsP4Switch(n) == Kind[n] \in {"p4", "p4rt"}

FreshNode == [id |-> NoNum, thrift |-> NoNum, grpc |-> NoNum, cpu |-> FALSE,
              sched |-> FALSE, gw |-> NoIp, ip |-> NoIp]

(* A dictionary f after f[k] = v. *)
Put(f, k, v) == [x \in DOMAIN f \cup {k} |-> IF x = k THEN v ELSE f[x]]

-----------------------------------------------------------------------------
(* Links.                                                                  *)
Ends(l)      == {l.ends[1], l.ends[2]}
End(l, n)    == IF l.ends[1] = n THEN 1 ELSE 2
Other(l, n)  == l.ends[3 - End(l, n)]
At(ls, n)    == {l \in ls : n \in Ends(l)}
Between(ls, a, b) == {l \in ls : Ends(l) = {a, b}}

PortsOf(ls, n) == {l.port[End(l, n)] : l \in At(ls, n)} \ {NoNum}
IntfsOf(ls, n) == {l.name[End(l, n)] : l \in At(ls, n)} \ {NoName}

(* mutant: the addresses of hosts at the second end are forgotten *)
HostIpsFirstEnd(ls) == {l.ip[1] : l \in {m \in ls : IsHost(m.ends[1])}} \ {NoIp}

HostIps(ls) ==
  (UNION {{l.ip[i] : i \in {j \in 1..2 : IsHost(l.ends[j])}} : l \in ls}) \ {NoIp}

NextKey(ls, a, b) == 1 + Max({0} \cup {l.key : l \in Between(ls, a, b)})

NewLink(ls, a, b, ports, names) ==
  [ends |-> <<a, b>>, key |-> NextKey(ls, a, b), port |-> ports,
   name |-> names, ip |-> <<NoIp, NoIp>>]

(* addLink accepts l beside ls: neither end takes a port or a name twice.  *)
Fits(ls, l) ==
  \A i \in 1..2 : /\ l.port[i] \notin PortsOf(ls, l.ends[i])
                  /\ l.name[i] \notin IntfsOf(ls, l.ends[i])

(* The link getLink finds: the one with the lowest key.                    *)
Link(ls, a, b) ==
  CHOOSE l \in Between(ls, a, b) : \A m \in Between(ls, a, b) : l.key <= m.key

(* mutant: the link is taken to be stored in the direction of the call *)
SetEndFirst(l, n, f, v) == [l EXCEPT ![f] = [@ EXCEPT ![1] = v]]

(* What updateLink makes of l when node n's end gets field f = v: a link   *)
(* stored in the opposite direction has the ends of the options swapped.   *)
SetEnd(l, n, f, v) == [l EXCEPT ![f] = [@ EXCEPT ![End(l, n)] = v]]

-----------------------------------------------------------------------------
(* The numbers that are chosen automatically.                              *)
NextElement(taken, base) == Min({k \in base..(base + Cardinality(taken)) : k \notin taken})

SwitchIds(ns)    == {ns[n].id : n \in {m \in DOMAIN ns : IsSwitch(m)}} \ {NoNum}
ServicePorts(ns) == (UNION {{ns[n].thrift, ns[n].grpc} : n \in DOMAIN ns}) \ {NoNum}

WithId(ns, n) ==
  IF ns[n].id # NoNum THEN ns
  ELSE [ns EXCEPT ![n].id = NextElement(SwitchIds(ns), 1)]
WithThrift(ns, n) ==
  IF ns[n].thrift # NoNum THEN ns
  ELSE [ns EXCEPT ![n].thrift = NextElement(ServicePorts(ns), ThriftBase)]
WithGrpc(ns, n) ==
  IF ns[n].grpc # NoNum THEN ns
  ELSE [ns EXCEPT ![n].grpc = NextElement(ServicePorts(ns), GrpcBase)]

(* The first half of auto_assignment: the nodes, in natural order.         *)
AssignNode(ns, n) ==
  IF n \notin DOMAIN ns THEN ns
  ELSE CASE Kind[n] = "host"   -> ns
         [] Kind[n] = "switch" -> WithId(ns, n)
         [] Kind[n] = "p4"     -> WithThrift(WithId(ns, n), n)
         [] Kind[n] = "p4rt"   -> WithGrpc(WithThrift(WithId(ns, n), n), n)
AssignNodes(ns) == FoldLeft(AssignNode, ns, NameOrder)

(* mutant: the next port is the number of ports in use *)
AutoPortCount(ls, n) == (IF IsHost(n) THEN 0 ELSE 1) + Cardinality(PortsOf(ls, n))

AutoPort(ls, n) == NextElement(PortsOf(ls, n), IF IsHost(n) THEN 0 ELSE 1)
AutoIp(ls)      == <<10, 0, 0, Min({k \in 1..(1 + Cardinality(HostIps(ls))) :
                                      <<10, 0, 0, k>> \notin HostIps(ls)})>>

WithPort(ls, l, i) ==
  IF l.port[i] # NoNum THEN l
  ELSE [l EXCEPT !.port[i] = AutoPort(ls, l.ends[i])]
WithName(l, i) ==
  IF l.name[i] # NoName THEN l
  ELSE [l EXCEPT !.name[i] = <<l.ends[i], "eth", l.port[i]>>]

(* mutant: an address that is there is replaced *)
WithIpAlways(ls, l, i) ==
  IF IsSwitch(l.ends[i]) THEN l ELSE [l EXCEPT !.ip[i] = AutoIp(ls \cup {l})]

WithIp(ls, l, i) ==
  IF IsSwitch(l.ends[i]) \/ l.ip[i] # NoIp THEN l
  ELSE [l EXCEPT !.ip[i] = AutoIp(ls \cup {l})]

(* The second half: every end of every link, in the order of the names and *)
(* keys, gets its port, then its name, then its address.                   *)
LinkBefore(l, m) ==
  LET index(n) == SelectInSeq(NameOrder, LAMBDA o : o = n)
      pos(x) == <<index(x.ends[1]), index(x.ends[2]), x.key>>
      p == pos(l)  q == pos(m)
  IN  \E i \in 1..3 : p[i] < q[i] /\ \A j \in 1..(i - 1) : p[j] = q[j]

AssignLink(acc, l) ==
  LET others == acc.links \ {l}
      ported == WithPort(others, WithPort(others, l, 1), 2)
      named  == WithName(WithName(ported, 1), 2)
      done   == WithIp(others, WithIp(others, named, 1), 2)
  IN  [links |-> others \cup {done}, ok |-> acc.ok /\ Fits(others, named)]
LastLink(ls) == CHOOSE l \in ls : \A m \in ls \ {l} : LinkBefore(m, l)
AssignLinks(ls) ==
  MapThenFoldSet(LAMBDA l, acc : AssignLink(acc, l), [links |-> ls, ok |-> TRUE],
                 LAMBDA l : l, LastLink, ls)

(* The host takes over the address of its lowest-numbered interface.       *)
DefaultIntf(ls, h) ==
  CHOOSE l \in At(ls, h) : l.port[End(l, h)] = Min(PortsOf(ls, h))
WithDefaults(ns, ls) ==
  [n \in DOMAIN ns |->
     IF IsHost(n) /\ At(ls, n) # {}
     THEN [ns[n] EXCEPT !.ip = DefaultIntf(ls, n).ip[End(DefaultIntf(ls, n), n)]]
     ELSE ns[n]]
-----------------------------------------------------------------------------
(* The addressing strategies.  Each host link gets a number in a network:  *)
(* all links share one (l2), or there is one per switch (mixed and l3).    *)
HostLinks  == {l \in links : CpuSwitch \notin Ends(l) /\ \E n \in Ends(l) : IsHost(n)}
Cables     == {l \in links : \A n \in Ends(l) : IsSwitch(n) /\ n # CpuSwitch}
HostOf(l)  == IF IsHost(l.ends[1]) THEN l.ends[1] ELSE l.ends[2]
SwitchOf(l) == Other(l, HostOf(l))
IsNamed(h) == h \in DOMAIN HostNum
IsMultigraph == \E l, m \in links : l # m /\ Ends(l) = Ends(m)
Addressable == ~ IsMultigraph /\ \A l \in HostLinks : IsSwitch(SwitchOf(l))

(* A host called h<number> has that number.  Any other takes, in the order *)
(* in which the links come, the lowest one still free and not reserved.    *)
Numbered(order, net, reserved) ==
  LET choose(num, l) ==
        LET h == HostOf(l)
            used == {num[m] : m \in {k \in DOMAIN num : net[k] = net[l]}}
        IN  Put(num, l, IF IsNamed(h) THEN HostNum[h]
                        ELSE NextElement(used \cup reserved[l], 1))
  IN  FoldLeft(choose, <<>>, order)
NoTwice(num, net) ==
  \A l, m \in DOMAIN num : l # m /\ net[l] = net[m] => num[l] # num[m]

OneNet     == [l \in HostLinks |-> "10.0.0.0/16"]
SwitchNets == [l \in HostLinks |-> SwitchOf(l)]
NamedHosts == {h \in DOMAIN nodes : IsHost(h) /\ IsNamed(h)}
AllNumbers == [l \in HostLinks |-> {HostNum[h] : h \in NamedHosts}]
NetNumbers ==
  [l \in HostLinks |-> {HostNum[HostOf(m)] : m \in {k \in HostLinks :
                         SwitchOf(k) = SwitchOf(l) /\ IsNamed(HostOf(k))}}]

(* The addresses of the ends of a cable between two switches.              *)
Cabled(l, ns) ==
  [l EXCEPT !.ip = [i \in 1..2 |-> <<20, ns[l.ends[1]].id, ns[l.ends[2]].id, i>>]]

(* mixed and l3 give every P4 switch an id.  For another switch without a  *)
(* DPID they hand setSwitchDpid a number where a string is expected.       *)
IdentifyNode(ns, n) == IF n \in DOMAIN ns /\ IsP4Switch(n) THEN WithId(ns, n) ELSE ns
Identified == FoldLeft(IdentifyNode, nodes, NameOrder)
Identifiable ==
  \A n \in DOMAIN nodes \ {CpuSwitch} : Kind[n] = "switch" => nodes[n].id # NoNum

-----------------------------------------------------------------------------
(* The program's calls.                                                    *)
Ready  == status = "open" /\ calls < MaxCalls
Called == calls' = calls + 1 /\ UNCHANGED status
Raise  == status' = "raised" /\ UNCHANGED <<nodes, links, cpu_bridge, tasks, sent, calls>>

Replace(l, m) == links' = (links \ {l}) \cup {m}
Set(n, f, v)  == nodes' = [nodes EXCEPT ![n] = [@ EXCEPT ![f] = v]]

Init ==
  /\ nodes = [n \in Names \ {CpuSwitch} |-> FreshNode]
  /\ links = {NewLink({}, p[1], p[2], <<NoNum, NoNum>>, <<NoName, NoName>>) : p \in StartLinks}
  /\ cpu_bridge = {}
  /\ tasks = <<>> /\ sent = <<>>
  /\ status = "open" /\ calls = 0

AddNode(n) ==
  /\ Ready /\ n \notin DOMAIN nodes
  /\ nodes' = Put(nodes, n, FreshNode)
  /\ Called /\ UNCHANGED <<links, cpu_bridge, tasks, sent>>

(* mutant: the incident links stay *)
DeleteNodeOnly(n) ==
  /\ Ready /\ n \in DOMAIN nodes
  /\ DeletesBusy \/ n \notin DOMAIN tasks
  /\ nodes' = [m \in DOMAIN nodes \ {n} |-> nodes[m]]
  /\ Called /\ UNCHANGED <<links, cpu_bridge, tasks, sent>>

(* The links of the node go with it; its tasks stay.                       *)
DeleteNode(n) ==
  /\ Ready /\ n \in DOMAIN nodes
  /\ DeletesBusy \/ n \notin DOMAIN tasks
  /\ nodes' = [m \in DOMAIN nodes \ {n} |-> nodes[m]]
  /\ links' = links \ At(links, n)
  /\ Called /\ UNCHANGED <<cpu_bridge, tasks, sent>>

AddLink(a, b, ports) ==
  LET l == NewLink(links, a, b, ports, <<NoName, NoName>>)
  IN  /\ Ready
      /\ \/ /\ {a, b} \subseteq DOMAIN nodes /\ Fits(links, l)
            /\ links' = links \cup {l}
            /\ Called /\ UNCHANGED <<nodes, cpu_bridge, tasks, sent>>
         \/ /\ ~ ({a, b} \subseteq DOMAIN nodes /\ Fits(links, l))
            /\ Raise

DeleteLink(a, b) ==
  /\ Ready /\ Between(links, a, b) # {}
  /\ links' = links \ {Link(links, a, b)}
  /\ Called /\ UNCHANGED <<nodes, cpu_bridge, tasks, sent>>

SetIntfPort(a, b, port) ==
  LET l == Link(links, a, b)
  IN  /\ Ready /\ Between(links, a, b) # {}
      /\ \/ /\ port \notin PortsOf(links, a)
            /\ Replace(l, SetEnd(l, a, "port", port))
            /\ Called /\ UNCHANGED <<nodes, cpu_bridge, tasks, sent>>
         \/ port \in PortsOf(links, a) /\ Raise

(* The names asked for are not canonical ones, as addLink's doc demands.   *)
SetIntfName(a, b, name) ==
  LET l == Link(links, a, b)
  IN  /\ Ready /\ Between(links, a, b) # {}
      /\ \/ /\ name \notin IntfsOf(links, a)
            /\ Replace(l, SetEnd(l, a, "name", name))
            /\ Called /\ UNCHANGED <<nodes, cpu_bridge, tasks, sent>>
         \/ name \in IntfsOf(links, a) /\ Raise

SetP4SwitchId(s, id) ==
  LET others == [n \in DOMAIN nodes \ {s} |-> nodes[n]]
  IN  /\ Ready /\ s \in DOMAIN nodes /\ IsP4Switch(s)
      /\ \/ /\ id \notin SwitchIds(others)
            /\ Set(s, "id", id)
            /\ Called /\ UNCHANGED <<links, cpu_bridge, tasks, sent>>
         \/ id \in SwitchIds(others) /\ Raise

(* The setters check nothing; a program may still keep its ports apart.    *)
SetThriftPort(s, p) ==
  /\ Ready /\ s \in DOMAIN nodes /\ IsP4Switch(s)
  /\ SharesPorts \/ p \notin ServicePorts(nodes)
  /\ Set(s, "thrift", p)
  /\ Called /\ UNCHANGED <<links, cpu_bridge, tasks, sent>>

SetGrpcPort(s, p) ==
  /\ Ready /\ s \in DOMAIN nodes /\ Kind[s] = "p4rt"
  /\ SharesPorts \/ p \notin ServicePorts(nodes)
  /\ Set(s, "grpc", p)
  /\ Called /\ UNCHANGED <<links, cpu_bridge, tasks, sent>>

(* The bridge is added for the first CPU port, and the link to it gets     *)
(* names of its own, so that a switch cannot have two.                     *)
EnableCpuPort(s) ==
  LET bridged == IF cpu_bridge # {} THEN nodes
                 ELSE Put(nodes, CpuSwitch, [FreshNode EXCEPT !.id = CpuDpid])
      l == NewLink(links, s, CpuSwitch, <<NoNum, NoNum>>,
                   <<<<s, "cpu-eth", 0>>, <<s, "cpu-eth", 1>>>>)
  IN  /\ Ready /\ s \in DOMAIN nodes /\ IsP4Switch(s)
      /\ \/ /\ Fits(links, l)
            /\ cpu_bridge' = {CpuSwitch}
            /\ links' = links \cup {l}
            /\ nodes' = [bridged EXCEPT ![s].cpu = TRUE]
            /\ Called /\ UNCHANGED <<tasks, sent>>
         \/ ~ Fits(links, l) /\ Raise

(* mutant: the bridge goes with the first CPU port that is disabled *)
DisableCpuPortBridge(s) ==
  /\ Ready /\ s \in DOMAIN nodes /\ IsP4Switch(s) /\ nodes[s].cpu
  /\ cpu_bridge' = {}
  /\ nodes' = [n \in DOMAIN nodes \ cpu_bridge |-> [nodes EXCEPT ![s].cpu = FALSE][n]]
  /\ links' = links \ At(links, CpuSwitch)
  /\ Called /\ UNCHANGED <<tasks, sent>>

(* The bridge goes with the last CPU port.                                 *)
DisableCpuPort(s) ==
  LET off  == [nodes EXCEPT ![s].cpu = FALSE]
      rest == links \ {Link(links, s, CpuSwitch)}
      last == \A n \in DOMAIN nodes : ~ off[n].cpu
  IN  /\ Ready /\ s \in DOMAIN nodes /\ IsP4Switch(s) /\ nodes[s].cpu
      /\ cpu_bridge' = IF last THEN {} ELSE cpu_bridge
      /\ nodes' = [n \in DOMAIN nodes \ (IF last THEN cpu_bridge ELSE {}) |-> off[n]]
      /\ links' = IF last THEN rest \ At(rest, CpuSwitch) ELSE rest
      /\ Called /\ UNCHANGED <<tasks, sent>>

SetScheduler(n, on) ==
  /\ Ready /\ n \in DOMAIN nodes
  /\ Set(n, "sched", on)
  /\ Called /\ UNCHANGED <<links, cpu_bridge, tasks, sent>>

AddTask(n, enableScheduler) ==
  /\ Ready /\ n \in DOMAIN nodes
  /\ \/ /\ nodes[n].sched \/ enableScheduler
        /\ Set(n, "sched", TRUE)
        /\ tasks' = Put(tasks, n, IF n \in DOMAIN tasks THEN tasks[n] + 1 ELSE 1)
        /\ Called /\ UNCHANGED <<links, cpu_bridge, sent>>
     \/ ~ nodes[n].sched /\ ~ enableScheduler /\ Raise

(* l2: all hosts in 10.0.0.0/16, no gateway.                               *)
L2 ==
  /\ Ready
  /\ \/ /\ Addressable
        /\ \E order \in SetToSeqs(HostLinks) :
             LET num   == Numbered(order, OneNet, AllNumbers)
                 ip(l) == <<10, 0, num[l] \div 256, num[l] % 256>>
             IN  \/ /\ NoTwice(num, OneNet)
                    /\ links' = (links \ HostLinks) \cup
                                {SetEnd(l, HostOf(l), "ip", ip(l)) : l \in HostLinks}
                    /\ Called /\ UNCHANGED <<nodes, cpu_bridge, tasks, sent>>
                 \/ ~ NoTwice(num, OneNet) /\ Raise
     \/ ~ Addressable /\ Raise

(* The default route of a host is the gateway of the last of its links.    *)
LastIn(order, h) == order[Max({i \in DOMAIN order : HostOf(order[i]) = h})]
WithGateways(order, ns, gw) ==
  [n \in DOMAIN ns |-> IF \E l \in HostLinks : HostOf(l) = n
                       THEN [ns[n] EXCEPT !.gw = gw[LastIn(order, n)]]
                       ELSE ns[n]]

(* mutant: the switch's end is not given the gateway's address *)
AddressHost(order, ns, ip, gw) ==
  /\ links' = (links \ (HostLinks \cup Cables))
              \cup {SetEnd(l, HostOf(l), "ip", ip[l]) : l \in HostLinks}
              \cup {Cabled(l, ns) : l \in Cables}
  /\ nodes' = WithGateways(order, ns, gw)
  /\ Called /\ UNCHANGED <<cpu_bridge, tasks, sent>>

(* Every host link gets the host's address and the gateway's, the latter   *)
(* at the switch's end.                                                    *)
Address(order, ns, ip, gw) ==
  /\ links' = (links \ (HostLinks \cup Cables))
              \cup {SetEnd(SetEnd(l, HostOf(l), "ip", ip[l]), SwitchOf(l), "ip", gw[l])
                    : l \in HostLinks}
              \cup {Cabled(l, ns) : l \in Cables}
  /\ nodes' = WithGateways(order, ns, gw)
  /\ Called /\ UNCHANGED <<cpu_bridge, tasks, sent>>

(* mixed: one network per switch, 10.<id>.0/24, its last address for the   *)
(* gateway.  A host with a number may have one link only.                  *)
Mixed ==
  /\ Ready
  /\ \/ /\ Addressable /\ Identifiable
        /\ \E order \in SetToSeqs(HostLinks) :
             LET ns  == Identified
                 num == Numbered(order, SwitchNets, NetNumbers)
                 addr(l, k) == <<10, ns[SwitchOf(l)].id \div 256,
                                 ns[SwitchOf(l)].id % 256, k>>
                 ip == [l \in HostLinks |-> addr(l, num[l])]
                 gw == [l \in HostLinks |-> addr(l, LastHost)]
                 ok  == /\ NoTwice(num, SwitchNets)
                        /\ \A l \in HostLinks :
                             IF IsNamed(HostOf(l))
                             THEN /\ num[l] < LastHost
                                  /\ \A m \in HostLinks : HostOf(m) = HostOf(l) => m = l
                             ELSE num[l] <= LastHost
             IN  \/ ok /\ Address(order, ns, ip, gw)
                 \/ ~ ok /\ Raise
     \/ ~ (Addressable /\ Identifiable) /\ Raise

(* l3: one network per host, 10.<id>.<number>.0/24, with the gateway .1.   *)
L3 ==
  /\ Ready
  /\ \/ /\ Addressable /\ Identifiable
        /\ \E order \in SetToSeqs(HostLinks) :
             LET ns  == Identified
                 num == Numbered(order, SwitchNets, NetNumbers)
                 addr(l, k) == <<10, ns[SwitchOf(l)].id, num[l], k>>
                 ip == [l \in HostLinks |-> addr(l, 2)]
                 gw == [l \in HostLinks |-> addr(l, 1)]
                 ok  == /\ NoTwice(num, SwitchNets)
                        /\ \A l \in HostLinks :
                             /\ ns[SwitchOf(l)].id < LastHost
                             /\ IF IsNamed(HostOf(l)) THEN num[l] < LastHost
                                                      ELSE num[l] <= LastHost
             IN  \/ ok /\ Address(order, ns, ip, gw)
                 \/ ~ ok /\ Raise
     \/ ~ (Addressable /\ Identifiable) /\ Raise

(* mutant: the tasks of nodes without a scheduler are kept *)
SchedulableAll == DOMAIN tasks

(* start_schedulers forgets the tasks of a node without a scheduler.       *)
Schedulable == {n \in DOMAIN tasks : n \in DOMAIN nodes => nodes[n].sched}

(* What save_topology asks of the links to the bridge.                     *)
CpuConsistent ==
  \A l \in At(links, CpuSwitch) : nodes[Other(l, CpuSwitch)].cpu

(* distribute_tasks sends what is left, and forgets it.                    *)
Distributed == [n \in Schedulable |-> tasks[n]]

(* startNetwork: what is open is assigned, the schedulers are started, the *)
(* topology is saved, which a link to the bridge from a switch without a   *)
(* CPU port refuses, and the tasks are sent, for which their node must     *)
(* still be there.  After a failure the program is over, and what it left  *)
(* of the description is not looked at.                                    *)
StartNetwork ==
  LET assigned == AssignLinks(links)
      ok == /\ assigned.ok
            /\ IsMultigraph \/ CpuConsistent
            /\ Schedulable \subseteq DOMAIN nodes
  IN  /\ status = "open"
      /\ status' = IF ok THEN "started" ELSE "startFailed"
      /\ nodes' = WithDefaults(AssignNodes(nodes), assigned.links)
      /\ links' = assigned.links
      /\ sent' = Distributed
      /\ tasks' = <<>>
      /\ UNCHANGED <<cpu_bridge, calls>>

(* A name unlike those that auto_assignment gives: one that looks like them *)
(* may make the start raise.                                               *)
UserName(n) == <<n, "user", 0>>

Next ==
  \/ \E n \in UserNodes : \/ AddNode(n) \/ DeleteNode(n)
                          \/ EnableCpuPort(n) \/ DisableCpuPort(n)
                          \/ \E on \in BOOLEAN : SetScheduler(n, on) \/ AddTask(n, on)
                          \/ \E id \in UserIds : SetP4SwitchId(n, id)
                          \/ \E p \in UserServices : SetThriftPort(n, p) \/ SetGrpcPort(n, p)
  \/ \E pair \in Pairs, ports \in (UserPorts \cup {NoNum}) \X (UserPorts \cup {NoNum}) :
       AddLink(pair[1], pair[2], ports)
  \/ \E a, b \in UserNodes : \/ DeleteLink(a, b)
                             \/ \E port \in UserPorts : SetIntfPort(a, b, port)
                             \/ SetIntfName(a, b, UserName(a))
  \/ L2 \/ Mixed \/ L3
  \/ StartNetwork

Spec == Init /\ [][Next]_vars

-----------------------------------------------------------------------------
(* Properties.                                                             *)

(* Every variable has its type; a link joins two nodes that are there, and *)
(* is the only one with its ends and key.                                  *)
TypeOK ==
  /\ DOMAIN nodes \subseteq Names
  /\ \A n \in DOMAIN nodes : /\ DOMAIN nodes[n] = DOMAIN FreshNode
                             /\ {nodes[n].id, nodes[n].thrift, nodes[n].grpc} \subseteq Int
                             /\ {nodes[n].cpu, nodes[n].sched} \subseteq BOOLEAN
  /\ \A l \in links : /\ Ends(l) \subseteq DOMAIN nodes /\ Cardinality(Ends(l)) = 2
                      /\ l.key \in Nat /\ {l.port[1], l.port[2]} \subseteq Int
  /\ \A l, m \in links : Ends(l) = Ends(m) /\ l.key = m.key => l = m
  /\ cpu_bridge \subseteq {CpuSwitch}
  /\ DOMAIN tasks \cup DOMAIN sent \subseteq Names
  /\ status \in {"open", "raised", "started", "startFailed"} /\ calls \in 0..MaxCalls

(* A description whose calls were all accepted starts: nothing that        *)
(* auto_assignment chooses is refused by the setters it goes through, the  *)
(* topology can be saved and the tasks can be sent.                        *)
StartSucceeds == status # "startFailed"

(* "automatically assigns unique MACs, IPs, interface names and port       *)
(* numbers" and "unique device ids, gRPC ports and Thrift ports"           *)
(* (Network_API_l.py:790), whatever the program had fixed by hand, in      *)
(* whichever order and by whichever strategy.                              *)
DistinctWhenStarted ==
  status = "started" =>
    /\ \A n \in DOMAIN nodes : \A l, m \in At(links, n) :
         LET i == End(l, n)  j == End(m, n)
         IN  /\ l.port[i] # NoNum /\ l.name[i] # NoName
             /\ l # m => l.port[i] # m.port[j] /\ l.name[i] # m.name[j]
    /\ \A l, m \in links : \A i, j \in 1..2 :
         IsHost(l.ends[i]) /\ IsHost(m.ends[j]) /\ <<l, i>> # <<m, j>>
           => l.ip[i] # NoIp /\ l.ip[i] # m.ip[j]
    /\ \A n, m \in DOMAIN nodes :
         n # m /\ IsSwitch(n) /\ IsSwitch(m) => nodes[n].id # nodes[m].id
    /\ \A n, m \in DOMAIN nodes :
         /\ IsP4Switch(n) /\ n # m =>
              nodes[n].thrift \notin {NoNum, nodes[m].thrift, nodes[m].grpc}
         /\ Kind[n] = "p4rt" =>
              /\ nodes[n].grpc \notin {NoNum, nodes[m].thrift}
              /\ n # m => nodes[n].grpc # nodes[m].grpc

(* The bridge is there as long as a switch has a CPU port, and the links   *)
(* to it are exactly those of the switches with a CPU port, one each: what *)
(* save_topology and the controllers that talk over them rely on.          *)
CpuLinks ==
  /\ cpu_bridge = DOMAIN nodes \cap {CpuSwitch}
  /\ \A n \in DOMAIN nodes \ {CpuSwitch} :
       Cardinality(Between(links, n, CpuSwitch)) = IF nodes[n].cpu THEN 1 ELSE 0

(* The tasks sent at the start are for nodes that are running a scheduler  *)
(* ("All the nodes in self.tasks have an active scheduler").               *)
TasksServed ==
  status = "started" => \A n \in DOMAIN sent : n \in DOMAIN nodes /\ nodes[n].sched

(* The interfaces as their nodes see them, however the links are stored.   *)
Interfaces(ls) ==
  UNION {{[node |-> n, facing |-> Other(l, n), key |-> l.key, port |-> l.port[End(l, n)],
           name |-> l.name[End(l, n)], ip |-> l.ip[End(l, n)]] : n \in Ends(l)} : l \in ls}

(* Starting changes nothing the program had chosen: every interface keeps  *)
(* its port, name and address, every switch its id.                        *)
ChoicesKept ==
  [][status' = "started" =>
       /\ \A x \in Interfaces(links) : \E y \in Interfaces(links') :
            /\ <<y.node, y.facing, y.key>> = <<x.node, x.facing, x.key>>
            /\ x.port \in {NoNum, y.port}
            /\ x.name \in {NoName, y.name}
            /\ x.ip \in {NoIp, y.ip}
       /\ \A n \in DOMAIN nodes : nodes[n].id \in {NoNum, nodes'[n].id}]_vars

(* An accepted setIntfPort(a, b, port) changes the port of a's interface   *)
(* facing b and no other interface, in whichever direction and among       *)
(* however many links a and b were joined.                                 *)
OneInterfaceSet ==
  [][\A a, b \in UserNodes, port \in UserPorts :
       status' = "open" /\ SetIntfPort(a, b, port) =>
         \E x \in Interfaces(links) :
           /\ x.node = a /\ x.facing = b
           /\ Interfaces(links') =
                (Interfaces(links) \ {x}) \cup {[x EXCEPT !.port = port]}]_vars

(* Every host that has a link has for default route the address of a       *)
(* switch interface that faces it, in its own /24 network, and not its own *)
(* address; no two hosts have the same address.                            *)
Reached(ls, ns) ==
  LET hostSide == {x \in Interfaces(ls) : IsHost(x.node)}
  IN  /\ \A x \in hostSide : \E y \in Interfaces(ls) :
           /\ y.node = x.facing /\ y.facing = x.node
           /\ y.ip # NoIp /\ x.ip # NoIp /\ y.ip # x.ip
           /\ \A i \in 1..3 : y.ip[i] = x.ip[i]
      /\ \A x \in hostSide : \E y \in Interfaces(ls) :
           IsSwitch(y.node) /\ y.facing = x.node /\ y.ip = ns[x.node].gw
      /\ \A x, y \in hostSide : x # y => x.ip # y.ip

(* So it is after mixed or l3, whatever the links and the ids.             *)
GatewayReachable ==
  [][status' = "open" /\ (Mixed \/ L3) => Reached(links', nodes')]_vars
=============================================================================
