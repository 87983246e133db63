-------------------------- MODULE NetworkAPIProofs --------------------------
(***************************************************************************)
(* Proofs about the description of the network (NetworkAPI).               *)
(*                                                                         *)
(* The inductive invariant IInv says what the setters keep of the nodes,   *)
(* the links, the CPU bridge and the tasks while the description is open:  *)
(* what is set is distinct, and nothing looks like a name that             *)
(* auto_assignment will choose.  From it follow the loops of the start:    *)
(* each is a fold, whose value is found by induction over the subsets of   *)
(* what it runs over.                                                      *)
(***************************************************************************)
EXTENDS NetworkAPI, FiniteSetTheorems, WellFoundedInduction, TLAPS

-----------------------------------------------------------------------------
(* Folds.                                                                  *)

(* The lowest number of a set of naturals. *)
LEMMA LowestNat ==
  ASSUME NEW T \in SUBSET Nat, T # {}
  PROVE  \E x \in T : \A y \in T : x <= y
<1> DEFINE R == OpToRel(<, Nat)
<1>1. \A x, y \in Nat : y < x => <<y, x>> \in R
  BY DEF OpToRel
<1>2. IsWellFoundedOn(R, Nat)
  BY NatLessThanWellFounded
<1> HIDE DEF R
<1>3. PICK x \in T : \A y \in T : <<y, x>> \notin R
  BY <1>2, WFMin
<1>4. \A y \in T : ~ (y < x)
  BY <1>1, <1>3
<1>5. \A y \in T : x \in Nat /\ y \in Nat
  OBVIOUS
<1> QED
  BY <1>4, <1>5

(* Min, defined by CHOOSE, is that number. *)
LEMMA MinOf ==
  ASSUME NEW T \in SUBSET Nat, T # {}
  PROVE  Min(T) \in T /\ \A y \in T : Min(T) <= y
<1>1. \E x \in T : \A y \in T : x <= y
  BY LowestNat
<1> QED
  BY <1>1 DEF Min

(* The highest number of a finite set of naturals. *)
LEMMA MaxOf ==
  ASSUME NEW n \in Nat, NEW T \in SUBSET (0..n), T # {}
  PROVE  Max(T) \in T /\ \A y \in T : y <= Max(T)
<1> DEFINE U == {n - y : y \in T}
<1>1. \A y \in T : y \in 0..n
  OBVIOUS
<1>2. U \in SUBSET Nat /\ U # {}
  BY <1>1
<1>3. PICK x \in U : \A y \in U : x <= y
  BY <1>2, LowestNat
<1>4. PICK m \in T : x = n - m
  BY <1>3
<1>5. \A y \in T : m >= y
  <2> SUFFICES ASSUME NEW y \in T PROVE m >= y
    OBVIOUS
  <2>1. x <= n - y
    BY <1>3
  <2> QED
    BY <1>4, <1>1, <2>1
<1>6. Max(T) \in T /\ \A y \in T : Max(T) >= y
  BY <1>4, <1>5 DEF Max
<1> QED
  BY <1>6, <1>1

(* What holds of the empty set and, for every other subset of D, follows   *)
(* from the subset without its picked element, holds of every subset.      *)
Inductive(D, pick, Good) ==
  /\ {} \in Good
  /\ \A s \in SUBSET D : s # {} => /\ pick[s] \in s
                                   /\ s \ {pick[s]} \in Good => s \in Good

(* Induction over the subsets, one element at a time. *)
LEMMA SubsetInduction ==
  ASSUME NEW D, IsFiniteSet(D), NEW pick, NEW Good, Inductive(D, pick, Good)
  PROVE  SUBSET D \subseteq Good
<1> DEFINE Bad == {s \in SUBSET D : s \notin Good}
<1> SUFFICES ASSUME Bad # {} PROVE FALSE
  OBVIOUS
<1> DEFINE Cards == {Cardinality(s) : s \in Bad}
<1>1. \A s \in SUBSET D : IsFiniteSet(s) /\ Cardinality(s) \in Nat
  BY FS_Subset, FS_CardinalityType
<1>2. Cards \in SUBSET Nat /\ Cards # {}
  BY <1>1
<1> HIDE DEF Cards
<1>3. PICK c \in Cards : \A d \in Cards : c <= d
  BY <1>2, LowestNat
<1>4. PICK s \in Bad : c = Cardinality(s)
  BY DEF Cards
<1>5. s # {} /\ pick[s] \in s /\ s \ {pick[s]} \notin Good
  BY <1>4 DEF Inductive
<1>6. s \ {pick[s]} \in Bad
  BY <1>5
<1>7. Cardinality(s \ {pick[s]}) = c - 1
  BY <1>1, <1>4, <1>5, FS_RemoveElement
<1>8. c <= c - 1 /\ c \in Nat
  BY <1>2, <1>3, <1>6, <1>7 DEF Cards
<1> QED
  BY <1>8

(* The function by which MapThenFoldSet is defined exists. *)
Picks(D, pick) == \A s \in SUBSET D : s # {} => pick[s] \in s
IsFold(D, base, pick, F, g) ==
  g = [s \in SUBSET D |-> IF s = {} THEN base ELSE F[<<pick[s], g[s \ {pick[s]}]>>]]

(* There is one for every operator with values in T. *)
LEMMA FoldExists ==
  ASSUME NEW D, IsFiniteSet(D), NEW T, NEW base \in T, NEW pick, Picks(D, pick),
         NEW F \in [D \X T -> T]
  PROVE  \E g \in [SUBSET D -> T] : IsFold(D, base, pick, F, g)
<1> DEFINE Image(f) == [s \in SUBSET D |->
                          IF s = {} THEN base ELSE F[<<pick[s], f[s \ {pick[s]}]>>]]
           Upto(f, n) == \A s \in SUBSET D : Cardinality(s) <= n => f[s] = Image(f)[s]
           Bad == {n \in Nat : ~ \E f \in [SUBSET D -> T] : Upto(f, n)}
<1>1. \A s \in SUBSET D : IsFiniteSet(s) /\ Cardinality(s) \in Nat
  BY FS_Subset, FS_CardinalityType
<1>2. \A s \in SUBSET D : s # {} => pick[s] \in s
  BY DEF Picks
<1>3. ASSUME NEW f \in [SUBSET D -> T] PROVE Image(f) \in [SUBSET D -> T]
  <2> SUFFICES ASSUME NEW s \in SUBSET D, s # {} PROVE F[<<pick[s], f[s \ {pick[s]}]>>] \in T
    OBVIOUS
  <2>1. pick[s] \in D /\ s \ {pick[s]} \in SUBSET D
    BY <1>2
  <2>2. f[s \ {pick[s]}] \in T
    BY <2>1
  <2> QED
    BY <2>1, <2>2
<1>4. Bad = {}
  <2> SUFFICES ASSUME Bad # {} PROVE FALSE
    OBVIOUS
  <2>1. PICK n \in Bad : \A m \in Bad : n <= m
    BY LowestNat
  <2>2. CASE n = 0
    <3>1. [s \in SUBSET D |-> base] \in [SUBSET D -> T]
      OBVIOUS
    <3>2. \A s \in SUBSET D : Cardinality(s) <= 0 => s = {}
      BY <1>1, FS_EmptySet
    <3>3. Upto([s \in SUBSET D |-> base], 0)
      BY <3>2
    <3> QED
      BY <2>1, <2>2, <3>1, <3>3
  <2>3. CASE n # 0
    <3>1. n \in Nat
      OBVIOUS
    <3>2. n - 1 \in Nat /\ ~ (n <= n - 1)
      BY <2>3, <3>1
    <3>3. n - 1 \notin Bad
      BY <2>1, <3>2
    <3>4. PICK f \in [SUBSET D -> T] : Upto(f, n - 1)
      BY <3>2, <3>3
    <3>5. Upto(Image(f), n)
      <4> SUFFICES ASSUME NEW s \in SUBSET D, Cardinality(s) <= n, s # {}
                   PROVE  f[s \ {pick[s]}] = Image(f)[s \ {pick[s]}]
        OBVIOUS
      <4>1. pick[s] \in s /\ s \ {pick[s]} \in SUBSET D
        BY <1>2
      <4>2. Cardinality(s \ {pick[s]}) = Cardinality(s) - 1 /\ Cardinality(s) \in Nat
        <5>1. IsFiniteSet(s) /\ Cardinality(s) \in Nat
          BY <1>1
        <5>2. \A x \in s : Cardinality(s \ {x}) = Cardinality(s) - 1
          BY <5>1, FS_RemoveElement
        <5> QED
          BY <4>1, <5>1, <5>2
      <4>3. Cardinality(s \ {pick[s]}) <= n - 1
        BY <3>1, <4>2
      <4> QED
        BY <3>4, <4>1, <4>3
    <3> QED
      BY <1>3, <2>1, <3>4, <3>5
  <2> QED
    BY <2>2, <2>3
<1>5. PICK f \in [SUBSET D -> T] : Upto(f, Cardinality(D))
  BY <1>1, <1>4
<1>6. \A s \in SUBSET D : f[s] = Image(f)[s]
  BY <1>1, <1>5, FS_Subset
<1>7. f = Image(f)
  BY <1>3, <1>6
<1> QED
  BY <1>7 DEF IsFold

-----------------------------------------------------------------------------
(* Finite sets of numbers.                                                 *)

(* What a function makes of a finite set is finite and no larger. *)
LEMMA FiniteImage ==
  ASSUME NEW D, IsFiniteSet(D), NEW f, DOMAIN f = D
  PROVE  /\ IsFiniteSet({f[d] : d \in D})
         /\ Cardinality({f[d] : d \in D}) <= Cardinality(D)
<1> DEFINE R == {f[d] : d \in D}
<1>1. f = [d \in D |-> f[d]] \/ ~ (f = [d \in D |-> f[d]])
  OBVIOUS
<1> DEFINE g == [d \in D |-> f[d]]
<1>2. g \in [D -> R] /\ \A r \in R : \E d \in D : g[d] = r
  OBVIOUS
<1>3. g \in Surjection(D, R)
  BY <1>2 DEF Surjection
<1> QED
  BY <1>3, FS_Surjection

(* A function from a finite set to the naturals has an upper bound. *)
LEMMA FiniteBound ==
  ASSUME NEW D, IsFiniteSet(D), NEW f \in [D -> Nat]
  PROVE  \E b \in Nat : \A d \in D : f[d] <= b
<1> DEFINE Good == {s \in SUBSET D : \E b \in Nat : \A d \in s : f[d] <= b}
           pick == [s \in SUBSET D |-> CHOOSE d \in s : TRUE]
<1>1. {} \in Good
  <2>1. \A d \in {} : f[d] <= 0
    OBVIOUS
  <2> QED
    BY <2>1
<1>2. ASSUME NEW s \in SUBSET D, s # {}
      PROVE  pick[s] \in s /\ (s \ {pick[s]} \in Good => s \in Good)
  <2>1. PICK c \in s : c = pick[s]
    BY <1>2
  <2>2. ASSUME s \ {c} \in Good PROVE s \in Good
    <3>1. PICK b \in Nat : \A d \in s \ {c} : f[d] <= b
      BY <2>2
    <3>2. \A d \in s : f[d] \in Nat
      OBVIOUS
    <3>3. \A d \in s : f[d] <= b + f[c]
      BY <3>1, <3>2
    <3>4. b + f[c] \in Nat
      BY <3>2
    <3> QED
      BY <3>3, <3>4
  <2> QED
    BY <2>1, <2>2
<1>3. Inductive(D, pick, Good)
  BY <1>1, <1>2 DEF Inductive
<1> HIDE DEF Good, pick
<1>4. SUBSET D \subseteq Good
  BY <1>3, SubsetInduction
<1>5. D \in Good
  BY <1>4
<1> QED
  BY <1>5 DEF Good

(* The lowest free number: not taken, from base, and no further away than  *)
(* there are numbers taken.                                                *)
LEMMA NextIsFree ==
  ASSUME NEW taken, IsFiniteSet(taken), NEW base \in Nat
  PROVE  /\ NextElement(taken, base) \in base..(base + Cardinality(taken))
         /\ NextElement(taken, base) \notin taken
<1> DEFINE R == base..(base + Cardinality(taken))
           free == {k \in R : k \notin taken}
<1>1. Cardinality(taken) \in Nat
  BY FS_CardinalityType
<1>2. IsFiniteSet(R) /\ Cardinality(R) = Cardinality(taken) + 1
  BY <1>1, FS_Interval
<1>3. R \subseteq taken => Cardinality(R) <= Cardinality(taken)
  BY FS_Subset
<1>4. ~ (R \subseteq taken)
  BY <1>1, <1>2, <1>3
<1>5. free # {} /\ free \in SUBSET Nat
  BY <1>1, <1>4
<1>6. Min(free) \in free
  BY <1>5, MinOf
<1> QED
  BY <1>6 DEF NextElement

-----------------------------------------------------------------------------
(* The numbers of the nodes.                                               *)

Ip       == Seq(Int)
Node     == [id : Int, thrift : Int, grpc : Int, cpu : BOOLEAN, sched : BOOLEAN,
             gw : Ip, ip : Ip]
NodeMaps == UNION {[D -> Node] : D \in SUBSET Names}

IdsOK(ns) ==
  \A n, m \in DOMAIN ns :
    n # m /\ IsSwitch(n) /\ IsSwitch(m) /\ ns[n].id # NoNum => ns[n].id # ns[m].id
BridgeIdOK(ns) == \A n \in DOMAIN ns \ {CpuSwitch} : ns[n].id # CpuDpid
ServicesOK(ns) ==
  SharesPorts \/ \A n, m \in DOMAIN ns :
    /\ ns[n].thrift # NoNum => /\ ns[n].thrift # ns[m].grpc
                               /\ n # m => ns[n].thrift # ns[m].thrift
    /\ ns[n].grpc # NoNum /\ n # m => ns[n].grpc # ns[m].grpc

(* What the loops of auto_assignment, mixed and l3 over the nodes keep.    *)
Improves(ns, ms) ==
  /\ ms \in NodeMaps /\ DOMAIN ms = DOMAIN ns
  /\ \A n \in DOMAIN ns :
       /\ ns[n].id \in {NoNum, ms[n].id}
       /\ ns[n].thrift \in {NoNum, ms[n].thrift}
       /\ ns[n].grpc \in {NoNum, ms[n].grpc}
       /\ ms[n].cpu = ns[n].cpu /\ ms[n].sched = ns[n].sched
       /\ ms[n].gw = ns[n].gw /\ ms[n].ip = ns[n].ip
  /\ IdsOK(ns) => IdsOK(ms)
  /\ BridgeIdOK(ns) => BridgeIdOK(ms)
  /\ ServicesOK(ns) => ServicesOK(ms)

(* Descriptions of nodes: a record for some of the names. *)
LEMMA NodeMap ==
  ASSUME NEW ns
  PROVE  ns \in NodeMaps <=> DOMAIN ns \subseteq Names /\ ns \in [DOMAIN ns -> Node]
BY DEF NodeMaps

(* The names are finitely many, those of the natural order. *)
LEMMA NamesFinite ==
  /\ IsFiniteSet(Names) /\ Cardinality(Names) <= Len(NameOrder)
  /\ Len(NameOrder) \in Nat /\ DOMAIN NameOrder = 1..Len(NameOrder)
  /\ \A n \in Names : \E i \in 1..Len(NameOrder) : NameOrder[i] = n
  /\ \A i \in 1..Len(NameOrder) : NameOrder[i] \in Names
<1>1. Len(NameOrder) \in Nat /\ DOMAIN NameOrder = 1..Len(NameOrder)
  BY NetworkAPIAssumption
<1>2. IsFiniteSet(1..Len(NameOrder)) /\ Cardinality(1..Len(NameOrder)) = Len(NameOrder)
  <2>1. PICK k \in Nat : k = Len(NameOrder)
    BY <1>1
  <2>2. IsFiniteSet(1..k) /\ Cardinality(1..k) = IF 1 > k THEN 0 ELSE k - 1 + 1
    BY FS_Interval
  <2>3. Cardinality(1..k) = k
    BY <2>2
  <2> QED
    BY <2>1, <2>2, <2>3
<1>3. Names = {NameOrder[i] : i \in 1..Len(NameOrder)}
  BY <1>1 DEF Names, ToSet
<1> QED
  BY <1>1, <1>2, <1>3, FiniteImage

(* Improving is reflexive and transitive. *)
LEMMA ImprovesSelf ==
  ASSUME NEW ns \in NodeMaps
  PROVE  Improves(ns, ns)
BY DEF Improves

(* One improvement after another is one. *)
LEMMA ImprovesTwice ==
  ASSUME NEW ns, NEW ms, NEW os, Improves(ns, ms), Improves(ms, os)
  PROVE  Improves(ns, os)
BY DEF Improves

(* The ids of switches are finitely many, no more than the nodes. *)
LEMMA SwitchIdsFinite ==
  ASSUME NEW ns \in NodeMaps
  PROVE  IsFiniteSet(SwitchIds(ns)) /\ Cardinality(SwitchIds(ns)) <= Len(NameOrder)
<1> DEFINE S == {m \in DOMAIN ns : IsSwitch(m)}
           f == [n \in S |-> ns[n].id]
           R == {f[n] : n \in S}
<1>1. S \subseteq Names
  BY NodeMap
<1>2. IsFiniteSet(S) /\ Cardinality(S) <= Cardinality(Names)
  BY <1>1, NamesFinite, FS_Subset
<1>3. IsFiniteSet(R) /\ Cardinality(R) <= Cardinality(S)
  <2>1. DOMAIN f = S
    OBVIOUS
  <2> HIDE DEF f, S
  <2> QED
    BY <1>2, <2>1, FiniteImage
<1>4. SwitchIds(ns) \subseteq R
  BY DEF SwitchIds
<1>5. IsFiniteSet(SwitchIds(ns)) /\ Cardinality(SwitchIds(ns)) <= Cardinality(R)
  <2> HIDE DEF R
  <2> QED
    BY <1>3, <1>4, FS_Subset
<1>6. /\ Cardinality(SwitchIds(ns)) \in Nat /\ Cardinality(R) \in Nat
      /\ Cardinality(S) \in Nat /\ Cardinality(Names) \in Nat
  BY <1>2, <1>3, <1>5, NamesFinite, FS_CardinalityType
<1> QED
  BY <1>2, <1>3, <1>5, <1>6, NamesFinite

(* The service ports taken are finitely many. *)
LEMMA ServicePortsFinite ==
  ASSUME NEW ns \in NodeMaps
  PROVE  IsFiniteSet(ServicePorts(ns))
<1> DEFINE D == DOMAIN ns
           f == [n \in D |-> ns[n].thrift]
           g == [n \in D |-> ns[n].grpc]
           R == {f[n] : n \in D}
           Q == {g[n] : n \in D}
<1>1. IsFiniteSet(D)
  BY NodeMap, NamesFinite, FS_Subset
<1>2. IsFiniteSet(R) /\ IsFiniteSet(Q)
  <2>1. DOMAIN f = D /\ DOMAIN g = D
    OBVIOUS
  <2> HIDE DEF f, g, D
  <2> QED
    BY <1>1, <2>1, FiniteImage
<1>3. ServicePorts(ns) \subseteq R \cup Q
  BY DEF ServicePorts
<1> HIDE DEF R, Q
<1> QED
  BY <1>2, <1>3, FS_Union, FS_Subset

(* A node that is replaced by another record of its type. *)
LEMMA NodeReplaced ==
  ASSUME NEW ns \in NodeMaps, NEW n \in DOMAIN ns, NEW r \in Node
  PROVE  LET ms == [ns EXCEPT ![n] = r]
         IN  /\ ms \in NodeMaps /\ DOMAIN ms = DOMAIN ns /\ ms[n] = r
             /\ \A m \in DOMAIN ns : m # n => ms[m] = ns[m]
<1>1. ns \in [DOMAIN ns -> Node] /\ DOMAIN ns \subseteq Names
  BY NodeMap
<1>2. [ns EXCEPT ![n] = r] \in [DOMAIN ns -> Node]
  BY <1>1
<1> QED
  BY <1>1, <1>2, NodeMap

(* What changing a number of a node leaves alone. *)
LEMMA NodeFields ==
  ASSUME NEW r \in Node, NEW x \in Int
  PROVE  /\ LET q == [r EXCEPT !.id = x]
            IN  /\ q \in Node /\ q.id = x /\ q.thrift = r.thrift /\ q.grpc = r.grpc
                /\ q.cpu = r.cpu /\ q.sched = r.sched /\ q.gw = r.gw /\ q.ip = r.ip
         /\ LET q == [r EXCEPT !.thrift = x]
            IN  /\ q \in Node /\ q.id = r.id /\ q.thrift = x /\ q.grpc = r.grpc
                /\ q.cpu = r.cpu /\ q.sched = r.sched /\ q.gw = r.gw /\ q.ip = r.ip
         /\ LET q == [r EXCEPT !.grpc = x]
            IN  /\ q \in Node /\ q.id = r.id /\ q.thrift = r.thrift /\ q.grpc = x
                /\ q.cpu = r.cpu /\ q.sched = r.sched /\ q.gw = r.gw /\ q.ip = r.ip
BY DEF Node

(* A service port that is set is taken. *)
LEMMA ServicePortIn ==
  ASSUME NEW ns, NEW m \in DOMAIN ns
  PROVE  /\ ns[m].thrift # NoNum => ns[m].thrift \in ServicePorts(ns)
         /\ ns[m].grpc # NoNum => ns[m].grpc \in ServicePorts(ns)
<1> DEFINE U == UNION {{ns[n].thrift, ns[n].grpc} : n \in DOMAIN ns}
<1>1. {ns[m].thrift, ns[m].grpc} \in {{ns[n].thrift, ns[n].grpc} : n \in DOMAIN ns}
  OBVIOUS
<1>2. ns[m].thrift \in U /\ ns[m].grpc \in U
  BY <1>1
<1>3. ServicePorts(ns) = U \ {NoNum}
  BY DEF ServicePorts
<1> HIDE DEF U
<1> QED
  BY <1>2, <1>3

(* A switch id that is set is taken. *)
LEMMA SwitchIdIn ==
  ASSUME NEW ns, NEW n \in DOMAIN ns, IsSwitch(n), ns[n].id # NoNum
  PROVE  ns[n].id \in SwitchIds(ns)
BY DEF SwitchIds

(* A switch that gets a free id, or a node a free port, improves it. *)
LEMMA FreeIdImproves ==
  ASSUME NEW ns \in NodeMaps, NEW n \in DOMAIN ns, ns[n].id = NoNum, NEW x \in Int,
         x \notin SwitchIds(ns), x # CpuDpid
  PROVE  Improves(ns, [ns EXCEPT ![n].id = x])
<1> DEFINE ms == [ns EXCEPT ![n].id = x]
<1>0. PICK q \in Node : q = ns[n]
  BY NodeMap
<1>1. ns[n] \in Node /\ [ns[n] EXCEPT !.id = x] \in Node
  <2>1. [q EXCEPT !.id = x] \in Node
    BY NodeFields
  <2> QED
    BY <1>0, <2>1
<1>2. PICK r \in Node : r = [ns[n] EXCEPT !.id = x]
  BY <1>1
<1>3. /\ r.id = x /\ r.thrift = ns[n].thrift /\ r.grpc = ns[n].grpc /\ r.cpu = ns[n].cpu
      /\ r.sched = ns[n].sched /\ r.gw = ns[n].gw /\ r.ip = ns[n].ip
  BY <1>1, <1>2, NodeFields
<1>4. ms = [ns EXCEPT ![n] = r]
  BY <1>2
<1>5. /\ ms \in NodeMaps /\ DOMAIN ms = DOMAIN ns /\ ms[n] = r
      /\ \A m \in DOMAIN ns : m # n => ms[m] = ns[m]
  BY <1>4, NodeReplaced
<1> HIDE DEF ms
<1>6. ASSUME IdsOK(ns) PROVE IdsOK(ms)
  <2> SUFFICES ASSUME NEW a \in DOMAIN ns, NEW b \in DOMAIN ns, a # b, IsSwitch(a),
                      IsSwitch(b), ms[a].id # NoNum
               PROVE  ms[a].id # ms[b].id
    BY <1>5 DEF IdsOK
  <2>1. CASE a = n
    BY <1>3, <1>5, <2>1, SwitchIdIn
  <2>2. CASE b = n
    BY <1>3, <1>5, <2>2, SwitchIdIn
  <2>3. CASE a # n /\ b # n
    BY <1>5, <1>6, <2>3 DEF IdsOK
  <2> QED
    BY <2>1, <2>2, <2>3
<1>7. BridgeIdOK(ns) => BridgeIdOK(ms)
  BY <1>3, <1>5 DEF BridgeIdOK
<1>8. ServicesOK(ns) => ServicesOK(ms)
  <2>1. \A m \in DOMAIN ns : ms[m].thrift = ns[m].thrift /\ ms[m].grpc = ns[m].grpc
    BY <1>3, <1>5
  <2> QED
    BY <1>5, <2>1 DEF ServicesOK
<1> QED
  BY <1>3, <1>5, <1>6, <1>7, <1>8 DEF Improves, ms

(* The same of a free Thrift port. *)
LEMMA FreeThriftImproves ==
  ASSUME NEW ns \in NodeMaps, NEW n \in DOMAIN ns, ns[n].thrift = NoNum, NEW x \in Int,
         x \notin ServicePorts(ns), x # NoNum
  PROVE  Improves(ns, [ns EXCEPT ![n].thrift = x])
<1> DEFINE ms == [ns EXCEPT ![n].thrift = x]
<1>1. ns[n] \in Node /\ [ns[n] EXCEPT !.thrift = x] \in Node
  BY NodeMap, NodeFields
<1>2. PICK r \in Node : r = [ns[n] EXCEPT !.thrift = x]
  BY <1>1
<1>3. /\ r.thrift = x /\ r.id = ns[n].id /\ r.grpc = ns[n].grpc /\ r.cpu = ns[n].cpu
      /\ r.sched = ns[n].sched /\ r.gw = ns[n].gw /\ r.ip = ns[n].ip
  BY <1>1, <1>2, NodeFields
<1>4. ms = [ns EXCEPT ![n] = r]
  BY <1>2
<1>5. /\ ms \in NodeMaps /\ DOMAIN ms = DOMAIN ns /\ ms[n] = r
      /\ \A m \in DOMAIN ns : m # n => ms[m] = ns[m]
  BY <1>4, NodeReplaced
<1> HIDE DEF ms
<1>6. \A m \in DOMAIN ns : ms[m].id = ns[m].id /\ ms[m].grpc = ns[m].grpc
  BY <1>3, <1>5
<1>7. (IdsOK(ns) => IdsOK(ms)) /\ (BridgeIdOK(ns) => BridgeIdOK(ms))
  BY <1>5, <1>6 DEF IdsOK, BridgeIdOK
<1>8. \A m \in DOMAIN ns : ns[m].thrift # x /\ ns[m].grpc # x
  BY ServicePortIn
<1>9. ASSUME ServicesOK(ns) PROVE ServicesOK(ms)
  <2> SUFFICES ASSUME ~ SharesPorts, NEW a \in DOMAIN ns, NEW b \in DOMAIN ns
               PROVE  /\ ms[a].thrift # NoNum => /\ ms[a].thrift # ms[b].grpc
                                                 /\ a # b => ms[a].thrift # ms[b].thrift
                      /\ ms[a].grpc # NoNum /\ a # b => ms[a].grpc # ms[b].grpc
    BY <1>5 DEF ServicesOK
  <2>1. /\ ns[a].thrift # NoNum => /\ ns[a].thrift # ns[b].grpc
                                   /\ a # b => ns[a].thrift # ns[b].thrift
        /\ ns[a].grpc # NoNum /\ a # b => ns[a].grpc # ns[b].grpc
    BY <1>9 DEF ServicesOK
  <2>2. CASE a = n
    BY <1>3, <1>5, <1>6, <1>8, <2>1, <2>2
  <2>3. CASE a # n
    BY <1>3, <1>5, <1>6, <1>8, <2>1, <2>3
  <2> QED
    BY <2>2, <2>3
<1> QED
  BY <1>3, <1>5, <1>7, <1>9 DEF Improves, ms

(* The same of a free gRPC port. *)
LEMMA FreeGrpcImproves ==
  ASSUME NEW ns \in NodeMaps, NEW n \in DOMAIN ns, ns[n].grpc = NoNum, NEW x \in Int,
         x \notin ServicePorts(ns), x # NoNum
  PROVE  Improves(ns, [ns EXCEPT ![n].grpc = x])
<1> DEFINE ms == [ns EXCEPT ![n].grpc = x]
<1>1. ns[n] \in Node /\ [ns[n] EXCEPT !.grpc = x] \in Node
  BY NodeMap, NodeFields
<1>2. PICK r \in Node : r = [ns[n] EXCEPT !.grpc = x]
  BY <1>1
<1>3. /\ r.grpc = x /\ r.id = ns[n].id /\ r.thrift = ns[n].thrift /\ r.cpu = ns[n].cpu
      /\ r.sched = ns[n].sched /\ r.gw = ns[n].gw /\ r.ip = ns[n].ip
  BY <1>1, <1>2, NodeFields
<1>4. ms = [ns EXCEPT ![n] = r]
  BY <1>2
<1>5. /\ ms \in NodeMaps /\ DOMAIN ms = DOMAIN ns /\ ms[n] = r
      /\ \A m \in DOMAIN ns : m # n => ms[m] = ns[m]
  BY <1>4, NodeReplaced
<1> HIDE DEF ms
<1>6. \A m \in DOMAIN ns : ms[m].id = ns[m].id /\ ms[m].thrift = ns[m].thrift
  BY <1>3, <1>5
<1>7. (IdsOK(ns) => IdsOK(ms)) /\ (BridgeIdOK(ns) => BridgeIdOK(ms))
  BY <1>5, <1>6 DEF IdsOK, BridgeIdOK
<1>8. \A m \in DOMAIN ns : ns[m].thrift # x /\ ns[m].grpc # x
  BY ServicePortIn
<1>9. ASSUME ServicesOK(ns) PROVE ServicesOK(ms)
  <2> SUFFICES ASSUME ~ SharesPorts, NEW a \in DOMAIN ns, NEW b \in DOMAIN ns
               PROVE  /\ ms[a].thrift # NoNum => /\ ms[a].thrift # ms[b].grpc
                                                 /\ a # b => ms[a].thrift # ms[b].thrift
                      /\ ms[a].grpc # NoNum /\ a # b => ms[a].grpc # ms[b].grpc
    BY <1>5 DEF ServicesOK
  <2>1. /\ ns[a].thrift # NoNum => /\ ns[a].thrift # ns[b].grpc
                                   /\ a # b => ns[a].thrift # ns[b].thrift
        /\ ns[a].grpc # NoNum /\ a # b => ns[a].grpc # ns[b].grpc
    BY <1>9 DEF ServicesOK
  <2>2. CASE a = n
    BY <1>3, <1>5, <1>6, <1>8, <2>1, <2>2
  <2>3. CASE a # n
    BY <1>3, <1>5, <1>6, <1>8, <2>1, <2>3
  <2> QED
    BY <2>2, <2>3
<1> QED
  BY <1>3, <1>5, <1>7, <1>9 DEF Improves, ms

(* auto_switch_id, auto_thrift_port and auto_grpc_port. *)
LEMMA WithIdImproves ==
  ASSUME NEW ns \in NodeMaps, NEW n \in DOMAIN ns
  PROVE  Improves(ns, WithId(ns, n)) /\ WithId(ns, n)[n].id # NoNum
<1>1. CASE ns[n].id # NoNum
  BY <1>1, ImprovesSelf DEF WithId
<1>2. CASE ns[n].id = NoNum
  <2>1. PICK x : x = NextElement(SwitchIds(ns), 1)
    OBVIOUS
  <2>2. PICK c \in Nat : c = Cardinality(SwitchIds(ns)) /\ c <= Len(NameOrder)
    BY SwitchIdsFinite, FS_CardinalityType
  <2>3. x \in 1..(1 + c) /\ x \notin SwitchIds(ns)
    BY <2>1, <2>2, SwitchIdsFinite, NextIsFree
  <2>4. x \in Int /\ x # NoNum /\ x # CpuDpid
    BY <2>2, <2>3, NamesFinite, NetworkAPIAssumption DEF NoNum, CpuDpid
  <2>5. WithId(ns, n) = [ns EXCEPT ![n].id = x]
    BY <1>2, <2>1 DEF WithId
  <2>6. [ns EXCEPT ![n].id = x][n].id = x
    BY NodeMap DEF Node
  <2>7. Improves(ns, [ns EXCEPT ![n].id = x])
    BY <1>2, <2>3, <2>4, FreeIdImproves
  <2> QED
    BY <2>4, <2>5, <2>6, <2>7
<1> QED
  BY <1>1, <1>2

(* The same of the Thrift port. *)
LEMMA WithThriftImproves ==
  ASSUME NEW ns \in NodeMaps, NEW n \in DOMAIN ns
  PROVE  Improves(ns, WithThrift(ns, n)) /\ WithThrift(ns, n)[n].thrift # NoNum
<1>1. CASE ns[n].thrift # NoNum
  BY <1>1, ImprovesSelf DEF WithThrift
<1>2. CASE ns[n].thrift = NoNum
  <2>1. PICK x : x = NextElement(ServicePorts(ns), ThriftBase)
    OBVIOUS
  <2>2. PICK c \in Nat : c = Cardinality(ServicePorts(ns))
    BY ServicePortsFinite, FS_CardinalityType
  <2>3. ThriftBase \in Nat
    BY NetworkAPIAssumption
  <2>4. x \in ThriftBase..(ThriftBase + c) /\ x \notin ServicePorts(ns)
    BY <2>1, <2>2, <2>3, ServicePortsFinite, NextIsFree
  <2>5. x \in Int /\ x # NoNum
    BY <2>2, <2>3, <2>4 DEF NoNum
  <2>6. WithThrift(ns, n) = [ns EXCEPT ![n].thrift = x]
    BY <1>2, <2>1 DEF WithThrift
  <2>7. [ns EXCEPT ![n].thrift = x][n].thrift = x
    BY NodeMap DEF Node
  <2>8. Improves(ns, [ns EXCEPT ![n].thrift = x])
    BY <1>2, <2>4, <2>5, FreeThriftImproves
  <2> QED
    BY <2>5, <2>6, <2>7, <2>8
<1> QED
  BY <1>1, <1>2

(* The same of the gRPC port. *)
LEMMA WithGrpcImproves ==
  ASSUME NEW ns \in NodeMaps, NEW n \in DOMAIN ns
  PROVE  Improves(ns, WithGrpc(ns, n)) /\ WithGrpc(ns, n)[n].grpc # NoNum
<1>1. CASE ns[n].grpc # NoNum
  BY <1>1, ImprovesSelf DEF WithGrpc
<1>2. CASE ns[n].grpc = NoNum
  <2>1. PICK x : x = NextElement(ServicePorts(ns), GrpcBase)
    OBVIOUS
  <2>2. PICK c \in Nat : c = Cardinality(ServicePorts(ns))
    BY ServicePortsFinite, FS_CardinalityType
  <2>3. GrpcBase \in Nat
    BY NetworkAPIAssumption
  <2>4. x \in GrpcBase..(GrpcBase + c) /\ x \notin ServicePorts(ns)
    BY <2>1, <2>2, <2>3, ServicePortsFinite, NextIsFree
  <2>5. x \in Int /\ x # NoNum
    BY <2>2, <2>3, <2>4 DEF NoNum
  <2>6. WithGrpc(ns, n) = [ns EXCEPT ![n].grpc = x]
    BY <1>2, <2>1 DEF WithGrpc
  <2>7. [ns EXCEPT ![n].grpc = x][n].grpc = x
    BY NodeMap DEF Node
  <2>8. Improves(ns, [ns EXCEPT ![n].grpc = x])
    BY <1>2, <2>4, <2>5, FreeGrpcImproves
  <2> QED
    BY <2>5, <2>6, <2>7, <2>8
<1> QED
  BY <1>1, <1>2

(* A round of the loop of mixed and l3 over the switches. *)
LEMMA IdentifyImproves ==
  ASSUME NEW ns \in NodeMaps, NEW n
  PROVE  /\ Improves(ns, IdentifyNode(ns, n))
         /\ n \in DOMAIN ns /\ IsP4Switch(n) => IdentifyNode(ns, n)[n].id # NoNum
BY WithIdImproves, ImprovesSelf DEF IdentifyNode

(* What auto_assignment gives a node. *)
Numbers(ns, n) ==
  /\ IsSwitch(n) => ns[n].id # NoNum
  /\ IsP4Switch(n) => ns[n].thrift # NoNum
  /\ Kind[n] = "p4rt" => ns[n].grpc # NoNum

(* A round of the loop of auto_assignment over the nodes. *)
LEMMA AssignImproves ==
  ASSUME NEW ns \in NodeMaps, NEW n \in Names
  PROVE  /\ Improves(ns, AssignNode(ns, n))
         /\ n \in DOMAIN ns => Numbers(AssignNode(ns, n), n)
<1>1. CASE n \notin DOMAIN ns
  BY <1>1, ImprovesSelf DEF AssignNode
<1>2. CASE n \in DOMAIN ns
  <2>1. Kind[n] \in {"host", "switch", "p4", "p4rt"}
    BY NetworkAPIAssumption
  <2>2. PICK a, b, c : a = WithId(ns, n) /\ b = WithThrift(a, n) /\ c = WithGrpc(b, n)
    OBVIOUS
  <2>3. Improves(ns, a) /\ a[n].id # NoNum /\ a \in NodeMaps /\ n \in DOMAIN a
    BY <1>2, <2>2, WithIdImproves DEF Improves
  <2>4. Improves(a, b) /\ b[n].thrift # NoNum /\ b \in NodeMaps /\ n \in DOMAIN b
    BY <2>2, <2>3, WithThriftImproves DEF Improves
  <2>5. Improves(b, c) /\ c[n].grpc # NoNum
    BY <2>2, <2>4, WithGrpcImproves
  <2>6. Improves(ns, b) /\ Improves(ns, c)
    BY <2>3, <2>4, <2>5, ImprovesTwice
  <2>7. b[n].id # NoNum /\ c[n].id # NoNum /\ c[n].thrift # NoNum
    BY <2>3, <2>4, <2>5 DEF Improves
  <2>8. CASE Kind[n] = "host"
    BY <1>2, <2>8, ImprovesSelf DEF AssignNode, Numbers, IsSwitch, IsHost, IsP4Switch
  <2>9. CASE Kind[n] = "switch"
    BY <1>2, <2>2, <2>3, <2>9 DEF AssignNode, Numbers, IsSwitch, IsHost, IsP4Switch
  <2>10. CASE Kind[n] = "p4"
    BY <1>2, <2>2, <2>4, <2>6, <2>7, <2>10 DEF AssignNode, Numbers, IsSwitch, IsHost, IsP4Switch
  <2>11. CASE Kind[n] = "p4rt"
    BY <1>2, <2>2, <2>5, <2>6, <2>7, <2>11 DEF AssignNode, Numbers, IsSwitch, IsHost, IsP4Switch
  <2> QED
    BY <2>1, <2>8, <2>9, <2>10, <2>11
<1> QED
  BY <1>1, <1>2

(* The functions that the two loops compute exist. *)
LEMMA IdentifiedIs ==
  ASSUME NEW ns \in NodeMaps
  PROVE  \E g : /\ FoldLeft(IdentifyNode, ns, NameOrder) = g[DOMAIN NameOrder]
                /\ g[{}] = ns
                /\ \A s \in SUBSET DOMAIN NameOrder : s # {} =>
                     g[s] = IdentifyNode(g[s \ {Max(s)}], NameOrder[Max(s)])
<1> DEFINE D == DOMAIN NameOrder
           iter[s \in SUBSET D] ==
             IF s = {} THEN ns
             ELSE LET x == Max(s) IN IdentifyNode(iter[s \ {x}], NameOrder[x])
           pick == [s \in SUBSET D |-> Max(s)]
           F == [p \in D \X NodeMaps |-> IdentifyNode(p[2], NameOrder[p[1]])]
           Rhs(g) == [s \in SUBSET D |->
                        IF s = {} THEN ns ELSE IdentifyNode(g[s \ {Max(s)}], NameOrder[Max(s)])]
<1>1. FoldLeft(IdentifyNode, ns, NameOrder) = iter[D]
  BY DEF FoldLeft, MapThenFoldSet
<1>2. IsFiniteSet(D)
  BY NamesFinite, FS_Interval
<1>3. \A s \in SUBSET D : s # {} => Max(s) \in s
  <2>1. PICK k \in Nat : D = 1..k
    BY NamesFinite
  <2>2. \A s \in SUBSET D : s \in SUBSET (0..k)
    BY <2>1
  <2> HIDE DEF D
  <2> QED
    BY <2>2, MaxOf
<1>4. F \in [D \X NodeMaps -> NodeMaps]
  BY IdentifyImproves DEF Improves
<1>5. Picks(D, pick)
  BY <1>3 DEF Picks
<1>6. PICK g \in [SUBSET D -> NodeMaps] : IsFold(D, ns, pick, F, g)
  <2> HIDE DEF D, pick, F
  <2> QED
    BY <1>2, <1>4, <1>5, FoldExists
<1>7. g = Rhs(g)
  <2>1. ASSUME NEW s \in SUBSET D, s # {}
        PROVE  F[<<pick[s], g[s \ {pick[s]}]>>] = IdentifyNode(g[s \ {Max(s)}], NameOrder[Max(s)])
    <3>1. Max(s) \in D /\ s \ {Max(s)} \in SUBSET D
      BY <1>3, <2>1
    <3>2. g[s \ {Max(s)}] \in NodeMaps
      BY <3>1
    <3>3. <<Max(s), g[s \ {Max(s)}]>> \in D \X NodeMaps
      BY <3>1, <3>2
    <3> QED
      BY <3>3
  <2> QED
    BY <1>6, <2>1 DEF IsFold
<1>8. iter = CHOOSE h : h = Rhs(h)
  BY DEF iter
<1>9. iter = Rhs(iter)
  <2> HIDE DEF iter, Rhs
  <2> QED
    BY <1>7, <1>8
<1>10. iter[{}] = ns /\ \A s \in SUBSET D : s # {} =>
         iter[s] = IdentifyNode(iter[s \ {Max(s)}], NameOrder[Max(s)])
  BY <1>9
<1> HIDE DEF iter
<1> QED
  BY <1>1, <1>10

(* The same of the loop of auto_assignment. *)
LEMMA AssignedIs ==
  ASSUME NEW ns \in NodeMaps
  PROVE  \E g : /\ FoldLeft(AssignNode, ns, NameOrder) = g[DOMAIN NameOrder]
                /\ g[{}] = ns
                /\ \A s \in SUBSET DOMAIN NameOrder : s # {} =>
                     g[s] = AssignNode(g[s \ {Max(s)}], NameOrder[Max(s)])
<1> DEFINE D == DOMAIN NameOrder
           iter[s \in SUBSET D] ==
             IF s = {} THEN ns
             ELSE LET x == Max(s) IN AssignNode(iter[s \ {x}], NameOrder[x])
           pick == [s \in SUBSET D |-> Max(s)]
           F == [p \in D \X NodeMaps |-> AssignNode(p[2], NameOrder[p[1]])]
           Rhs(g) == [s \in SUBSET D |->
                        IF s = {} THEN ns ELSE AssignNode(g[s \ {Max(s)}], NameOrder[Max(s)])]
<1>1. FoldLeft(AssignNode, ns, NameOrder) = iter[D]
  BY DEF FoldLeft, MapThenFoldSet
<1>2. IsFiniteSet(D)
  BY NamesFinite, FS_Interval
<1>3. \A s \in SUBSET D : s # {} => Max(s) \in s
  <2>1. PICK k \in Nat : D = 1..k
    BY NamesFinite
  <2>2. \A s \in SUBSET D : s \in SUBSET (0..k)
    BY <2>1
  <2> HIDE DEF D
  <2> QED
    BY <2>2, MaxOf
<1>4. F \in [D \X NodeMaps -> NodeMaps]
  BY AssignImproves, NamesFinite DEF Improves
<1>5. Picks(D, pick)
  BY <1>3 DEF Picks
<1>6. PICK g \in [SUBSET D -> NodeMaps] : IsFold(D, ns, pick, F, g)
  <2> HIDE DEF D, pick, F
  <2> QED
    BY <1>2, <1>4, <1>5, FoldExists
<1>7. g = Rhs(g)
  <2>1. ASSUME NEW s \in SUBSET D, s # {}
        PROVE  F[<<pick[s], g[s \ {pick[s]}]>>] = AssignNode(g[s \ {Max(s)}], NameOrder[Max(s)])
    <3>1. Max(s) \in D /\ s \ {Max(s)} \in SUBSET D
      BY <1>3, <2>1
    <3>2. g[s \ {Max(s)}] \in NodeMaps
      BY <3>1
    <3>3. <<Max(s), g[s \ {Max(s)}]>> \in D \X NodeMaps
      BY <3>1, <3>2
    <3> QED
      BY <3>3
  <2> QED
    BY <1>6, <2>1 DEF IsFold
<1>8. iter = CHOOSE h : h = Rhs(h)
  BY DEF iter
<1>9. iter = Rhs(iter)
  <2> HIDE DEF iter, Rhs
  <2> QED
    BY <1>7, <1>8
<1>10. iter[{}] = ns /\ \A s \in SUBSET D : s # {} =>
         iter[s] = AssignNode(iter[s \ {Max(s)}], NameOrder[Max(s)])
  BY <1>9
<1> HIDE DEF iter
<1> QED
  BY <1>1, <1>10

(* mixed and l3 leave every P4 switch with an id. *)
LEMMA IdentifiedImproves ==
  ASSUME NEW ns \in NodeMaps
  PROVE  LET ms == FoldLeft(IdentifyNode, ns, NameOrder)
         IN  /\ Improves(ns, ms)
             /\ \A n \in DOMAIN ns : IsP4Switch(n) => ms[n].id # NoNum
<1> DEFINE D == DOMAIN NameOrder
           Given(ms, s) == \A i \in s : NameOrder[i] \in DOMAIN ns /\ IsP4Switch(NameOrder[i]) =>
                                          ms[NameOrder[i]].id # NoNum
           pick == [s \in SUBSET D |-> Max(s)]
<1>1. PICK g : /\ FoldLeft(IdentifyNode, ns, NameOrder) = g[D]
               /\ g[{}] = ns
               /\ \A s \in SUBSET D : s # {} =>
                    g[s] = IdentifyNode(g[s \ {Max(s)}], NameOrder[Max(s)])
  BY IdentifiedIs
<1> DEFINE Good == {s \in SUBSET D : Improves(ns, g[s]) /\ Given(g[s], s)}
<1>2. PICK k \in Nat : D = 1..k
  BY NamesFinite
<1>3. IsFiniteSet(D) /\ \A s \in SUBSET D : s # {} => Max(s) \in s
  <2>1. \A s \in SUBSET D : s \in SUBSET (0..k)
    BY <1>2
  <2>2. IsFiniteSet(D)
    BY <1>2, FS_Interval
  <2> HIDE DEF D
  <2> QED
    BY <2>1, <2>2, MaxOf
<1>4. {} \in Good
  BY <1>1, ImprovesSelf
<1>5. ASSUME NEW s \in SUBSET D, s # {}, s \ {Max(s)} \in Good
      PROVE  s \in Good
  <2>1. PICK i \in s : i = Max(s)
    BY <1>3, <1>5
  <2>2. PICK a, n : a = g[s \ {i}] /\ n = NameOrder[i]
    OBVIOUS
  <2>3. g[s] = IdentifyNode(a, n) /\ Improves(ns, a) /\ Given(a, s \ {i})
    BY <1>1, <1>5, <2>1, <2>2
  <2>4. a \in NodeMaps /\ DOMAIN a = DOMAIN ns
    BY <2>3 DEF Improves
  <2>5. /\ Improves(a, g[s])
        /\ n \in DOMAIN ns /\ IsP4Switch(n) => g[s][n].id # NoNum
    BY <2>3, <2>4, IdentifyImproves
  <2>6. Improves(ns, g[s])
    BY <2>3, <2>5, ImprovesTwice
  <2>7. \A m \in DOMAIN ns : a[m].id # NoNum => g[s][m].id # NoNum
    BY <2>4, <2>5 DEF Improves
  <2>8. Given(g[s], s)
    BY <2>2, <2>3, <2>5, <2>7
  <2> QED
    BY <2>6, <2>8
<1> HIDE DEF Good
<1>6. Inductive(D, pick, Good)
  BY <1>3, <1>4, <1>5 DEF Inductive
<1>7. SUBSET D \subseteq Good
  BY <1>3, <1>6, SubsetInduction
<1>8. D \in Good
  BY <1>7
<1>9. Improves(ns, g[D]) /\ Given(g[D], D)
  BY <1>8 DEF Good
<1>10. ASSUME NEW n \in DOMAIN ns, IsP4Switch(n) PROVE g[D][n].id # NoNum
  <2>1. n \in Names
    BY NodeMap
  <2>2. PICK i \in D : NameOrder[i] = n
    BY <2>1, NamesFinite
  <2> QED
    BY <1>9, <1>10, <2>2
<1> QED
  BY <1>1, <1>9, <1>10

(* auto_assignment leaves every switch with its id and ports. *)
LEMMA AssignedImproves ==
  ASSUME NEW ns \in NodeMaps
  PROVE  /\ Improves(ns, AssignNodes(ns))
         /\ \A n \in DOMAIN ns : Numbers(AssignNodes(ns), n)
<1> DEFINE D == DOMAIN NameOrder
           Given(ms, s) == \A i \in s : NameOrder[i] \in DOMAIN ns => Numbers(ms, NameOrder[i])
           pick == [s \in SUBSET D |-> Max(s)]
<1>1. PICK g : /\ AssignNodes(ns) = g[D]
               /\ g[{}] = ns
               /\ \A s \in SUBSET D : s # {} =>
                    g[s] = AssignNode(g[s \ {Max(s)}], NameOrder[Max(s)])
  BY AssignedIs DEF AssignNodes
<1> DEFINE Good == {s \in SUBSET D : Improves(ns, g[s]) /\ Given(g[s], s)}
<1>2. PICK k \in Nat : D = 1..k
  BY NamesFinite
<1>3. IsFiniteSet(D) /\ \A s \in SUBSET D : s # {} => Max(s) \in s
  <2>1. \A s \in SUBSET D : s \in SUBSET (0..k)
    BY <1>2
  <2>2. IsFiniteSet(D)
    BY <1>2, FS_Interval
  <2> HIDE DEF D
  <2> QED
    BY <2>1, <2>2, MaxOf
<1>4. {} \in Good
  BY <1>1, ImprovesSelf
<1>5. ASSUME NEW s \in SUBSET D, s # {}, s \ {Max(s)} \in Good
      PROVE  s \in Good
  <2>1. PICK i \in s : i = Max(s)
    BY <1>3, <1>5
  <2>2. PICK a, n : a = g[s \ {i}] /\ n = NameOrder[i]
    OBVIOUS
  <2>3. g[s] = AssignNode(a, n) /\ Improves(ns, a) /\ Given(a, s \ {i})
    BY <1>1, <1>5, <2>1, <2>2
  <2>4. a \in NodeMaps /\ DOMAIN a = DOMAIN ns /\ n \in Names
    <3>1. i \in 1..Len(NameOrder)
      BY NamesFinite
    <3> QED
      BY <2>2, <2>3, <3>1, NamesFinite DEF Improves
  <2>5. /\ Improves(a, g[s])
        /\ n \in DOMAIN ns => Numbers(g[s], n)
    BY <2>3, <2>4, AssignImproves
  <2>6. Improves(ns, g[s])
    BY <2>3, <2>5, ImprovesTwice
  <2>7. \A m \in DOMAIN ns : Numbers(a, m) => Numbers(g[s], m)
    BY <2>4, <2>5 DEF Improves, Numbers
  <2>8. Given(g[s], s)
    BY <2>2, <2>3, <2>5, <2>7
  <2> QED
    BY <2>6, <2>8
<1> HIDE DEF Good
<1>6. Inductive(D, pick, Good)
  BY <1>3, <1>4, <1>5 DEF Inductive
<1>7. SUBSET D \subseteq Good
  BY <1>3, <1>6, SubsetInduction
<1>8. D \in Good
  BY <1>7
<1>9. Improves(ns, g[D]) /\ Given(g[D], D)
  BY <1>8 DEF Good
<1>10. ASSUME NEW n \in DOMAIN ns PROVE Numbers(g[D], n)
  <2>1. n \in Names
    BY NodeMap
  <2>2. PICK i \in D : NameOrder[i] = n
    BY <2>1, NamesFinite
  <2> QED
    BY <1>9, <1>10, <2>2
<1> QED
  BY <1>1, <1>9, <1>10

-----------------------------------------------------------------------------
(* Links.                                                                  *)

Tags    == {"eth", "user", "cpu-eth"}
IfName  == {NoName} \cup (Names \X Tags \X Int)
PortNum == {NoNum} \cup Nat
LinkRec == [ends : Names \X Names, key : Nat, port : PortNum \X PortNum,
            name : IfName \X IfName, ip : Ip \X Ip]

(* A link joins two nodes and is the only one with its ends and key.       *)
LinksOK(ls) ==
  /\ ls \subseteq LinkRec /\ IsFiniteSet(ls)
  /\ \A l \in ls : l.ends[1] # l.ends[2]
  /\ \A l, m \in ls : Ends(l) = Ends(m) /\ l.key = m.key => l = m

(* No two interfaces of a node share a port or a name, no two of hosts an  *)
(* address; only the interfaces auto_assignment named are called eth.      *)
PortsOK(ls) ==
  \A l, m \in ls : \A i, j \in 1..2 :
    l # m /\ l.ends[i] = m.ends[j] /\ l.port[i] # NoNum => l.port[i] # m.port[j]
NamesOK(ls) ==
  \A l, m \in ls : \A i, j \in 1..2 :
    l # m /\ l.ends[i] = m.ends[j] /\ l.name[i] # NoName => l.name[i] # m.name[j]
IpsOK(ls) ==
  \A l, m \in ls : \A i, j \in 1..2 :
    /\ IsHost(l.ends[i]) /\ IsHost(m.ends[j]) /\ l.ip[i] # NoIp
    /\ l # m \/ i # j
    => l.ip[i] # m.ip[j]
Canonical(l, i) == <<l.ends[i], "eth", l.port[i]>>
IsEth(name) == name # NoName /\ name[2] = "eth"
EthOK(ls) == \A l \in ls : \A i \in 1..2 : IsEth(l.name[i]) => l.name[i] = Canonical(l, i)
NoEth(ls) == \A l \in ls : \A i \in 1..2 : ~ IsEth(l.name[i])

(* The types of the two ends of a link. *)
LEMMA LinkTypes ==
  ASSUME NEW l \in LinkRec, NEW i \in 1..2
  PROVE  /\ l.ends[i] \in Names /\ l.key \in Nat
         /\ l.port[i] \in PortNum /\ l.port[i] \in Int
         /\ l.name[i] \in IfName /\ l.ip[i] \in Ip
<1>1. \A x \in PortNum : x \in Int
  BY DEF PortNum, NoNum
<1>2. /\ l.ends \in Names \X Names /\ l.key \in Nat /\ l.port \in PortNum \X PortNum
      /\ l.name \in IfName \X IfName /\ l.ip \in Ip \X Ip
  BY DEF LinkRec
<1>3. i = 1 \/ i = 2
  OBVIOUS
<1> HIDE DEF IfName, PortNum
<1> QED
  BY <1>2, <1>3, <1>1

(* Which end of a link a node is. *)
LEMMA EndIs ==
  ASSUME NEW l, l.ends[1] # l.ends[2], NEW n
  PROVE  /\ End(l, n) \in 1..2
         /\ n \in Ends(l) => l.ends[End(l, n)] = n /\ Other(l, n) = l.ends[3 - End(l, n)]
         /\ \A i \in 1..2 : l.ends[i] = n => End(l, n) = i /\ n \in Ends(l)
<1>1. \A i \in 1..2 : i = 1 \/ i = 2
  OBVIOUS
<1>2. 1 \in 1..2 /\ 2 \in 1..2
  OBVIOUS
<1> QED
  BY <1>1, <1>2 DEF End, Ends, Other

(* The numbers and names of the interfaces of a node. *)
LEMMA PortsAre ==
  ASSUME NEW ls, LinksOK(ls), NEW n
  PROVE  /\ \A l \in ls : \A i \in 1..2 :
              l.ends[i] = n /\ l.port[i] # NoNum => l.port[i] \in PortsOf(ls, n)
         /\ \A p \in PortsOf(ls, n) : p # NoNum /\ \E l \in ls : \E i \in 1..2 :
              l.ends[i] = n /\ l.port[i] = p
<1>1. \A l \in ls : l.ends[1] # l.ends[2]
  BY DEF LinksOK
<1> QED
  BY <1>1, EndIs DEF PortsOf, At

(* The same of the interface names. *)
LEMMA IntfsAre ==
  ASSUME NEW ls, LinksOK(ls), NEW n
  PROVE  /\ \A l \in ls : \A i \in 1..2 :
              l.ends[i] = n /\ l.name[i] # NoName => l.name[i] \in IntfsOf(ls, n)
         /\ \A p \in IntfsOf(ls, n) : p # NoName /\ \E l \in ls : \E i \in 1..2 :
              l.ends[i] = n /\ l.name[i] = p
<1>1. \A l \in ls : l.ends[1] # l.ends[2]
  BY DEF LinksOK
<1> QED
  BY <1>1, EndIs DEF IntfsOf, At

(* The addresses of the hosts. *)
LEMMA IpsAre ==
  ASSUME NEW ls
  PROVE  /\ \A l \in ls : \A i \in 1..2 :
              IsHost(l.ends[i]) /\ l.ip[i] # NoIp => l.ip[i] \in HostIps(ls)
         /\ \A x \in HostIps(ls) : x # NoIp /\ \E l \in ls : \E i \in 1..2 :
              IsHost(l.ends[i]) /\ l.ip[i] = x
<1> DEFINE ips(l) == {l.ip[i] : i \in {j \in 1..2 : IsHost(l.ends[j])}}
           U == UNION {ips(l) : l \in ls}
<1>1. HostIps(ls) = U \ {NoIp}
  BY DEF HostIps
<1>2. ASSUME NEW l \in ls, NEW i \in 1..2, IsHost(l.ends[i]) PROVE l.ip[i] \in U
  <2>1. l.ip[i] \in ips(l)
    BY <1>2
  <2> HIDE DEF ips
  <2> QED
    BY <2>1
<1>3. ASSUME NEW x \in U
      PROVE  \E l \in ls : \E i \in 1..2 : IsHost(l.ends[i]) /\ l.ip[i] = x
  <2>1. PICK l \in ls : x \in ips(l)
    OBVIOUS
  <2> QED
    BY <2>1
<1> HIDE DEF U
<1> QED
  BY <1>1, <1>2, <1>3

(* The ports a node has in use are finitely many. *)
LEMMA PortsFinite ==
  ASSUME NEW ls, IsFiniteSet(ls), NEW n
  PROVE  IsFiniteSet(PortsOf(ls, n))
<1> DEFINE A == At(ls, n)
           f == [l \in A |-> l.port[End(l, n)]]
           R == {f[l] : l \in A}
<1>1. IsFiniteSet(A)
  BY FS_Subset DEF At
<1>2. IsFiniteSet(R)
  <2>1. DOMAIN f = A
    OBVIOUS
  <2> HIDE DEF A, f
  <2> QED
    BY <1>1, <2>1, FiniteImage
<1>3. PortsOf(ls, n) \subseteq R
  BY DEF PortsOf
<1> HIDE DEF R
<1> QED
  BY <1>2, <1>3, FS_Subset

(* The addresses the hosts have are finitely many. *)
LEMMA HostIpsFinite ==
  ASSUME NEW ls, IsFiniteSet(ls)
  PROVE  IsFiniteSet(HostIps(ls))
<1> DEFINE f == [l \in ls |-> l.ip[1]]
           g == [l \in ls |-> l.ip[2]]
           R == {f[l] : l \in ls}
           Q == {g[l] : l \in ls}
<1>1. IsFiniteSet(R) /\ IsFiniteSet(Q)
  <2>1. DOMAIN f = ls /\ DOMAIN g = ls
    OBVIOUS
  <2> HIDE DEF f, g
  <2> QED
    BY <2>1, FiniteImage
<1>2. HostIps(ls) \subseteq R \cup Q
  <2>1. \A i \in 1..2 : i = 1 \/ i = 2
    OBVIOUS
  <2> QED
    BY <2>1, IpsAre
<1> HIDE DEF R, Q
<1> QED
  BY <1>1, <1>2, FS_Union, FS_Subset

(* What auto_port_num and auto_ip_address choose is free. *)
LEMMA AutoPortIsFree ==
  ASSUME NEW ls, IsFiniteSet(ls), NEW n
  PROVE  AutoPort(ls, n) \in Nat /\ AutoPort(ls, n) # NoNum /\ AutoPort(ls, n) \notin PortsOf(ls, n)
<1>1. PICK c \in Nat : c = Cardinality(PortsOf(ls, n))
  BY PortsFinite, FS_CardinalityType
<1>2. PICK b \in Nat : b = IF IsHost(n) THEN 0 ELSE 1
  OBVIOUS
<1>3. PICK x : x = NextElement(PortsOf(ls, n), b)
  OBVIOUS
<1>4. x \in b..(b + c) /\ x \notin PortsOf(ls, n)
  BY <1>1, <1>3, PortsFinite, NextIsFree
<1>5. AutoPort(ls, n) = x
  BY <1>2, <1>3 DEF AutoPort
<1>6. x \in Nat /\ x # NoNum
  BY <1>1, <1>2, <1>4 DEF NoNum
<1> QED
  BY <1>4, <1>5, <1>6

(* The same of auto_ip_address. *)
LEMMA AutoIpIsFree ==
  ASSUME NEW ls, IsFiniteSet(ls)
  PROVE  AutoIp(ls) \in Ip /\ AutoIp(ls) # NoIp /\ AutoIp(ls) \notin HostIps(ls)
<1> DEFINE ip(k) == <<10, 0, 0, k>>
           taken == HostIps(ls)
           K == 1..(1 + Cardinality(taken))
           free == {k \in K : ip(k) \notin taken}
           image == {ip(k) : k \in K}
           last == [x \in image |-> x[4]]
           back == {last[x] : x \in image}
<1>1. IsFiniteSet(taken)
  BY HostIpsFinite
<1>2. PICK c \in Nat : c = Cardinality(taken)
  BY <1>1, FS_CardinalityType
<1>3. free # {}
  <2> SUFFICES ASSUME free = {} PROVE FALSE
    OBVIOUS
  <2>1. image \subseteq taken
    OBVIOUS
  <2>2. IsFiniteSet(image) /\ Cardinality(image) <= c
    <3> HIDE DEF image, taken
    <3> QED
      BY <1>1, <1>2, <2>1, FS_Subset
  <2>3. IsFiniteSet(back) /\ Cardinality(back) <= Cardinality(image)
    <3>1. DOMAIN last = image
      OBVIOUS
    <3> HIDE DEF last, image
    <3> QED
      BY <2>2, <3>1, FiniteImage
  <2>4. \A k \in K : ip(k) \in image /\ last[ip(k)] = k
    OBVIOUS
  <2>5. K \subseteq back
    BY <2>4
  <2>6. Cardinality(K) = c + 1
    <3>1. PICK d \in Nat : d = 1 + c
      BY <1>2
    <3>2. Cardinality(1..d) = IF 1 > d THEN 0 ELSE d - 1 + 1
      BY FS_Interval
    <3>3. Cardinality(1..d) = c + 1
      BY <3>1, <3>2
    <3>4. K = 1..d
      BY <1>2, <3>1
    <3> QED
      BY <3>3, <3>4
  <2>7. Cardinality(K) <= Cardinality(back)
    <3> HIDE DEF back, K
    <3> QED
      BY <2>3, <2>5, FS_Subset
  <2>8. Cardinality(back) \in Nat /\ Cardinality(image) \in Nat
    <3> HIDE DEF back, image
    <3> QED
      BY <2>2, <2>3, FS_CardinalityType
  <2> HIDE DEF back, image, K
  <2> QED
    BY <2>2, <2>3, <2>6, <2>7, <2>8
<1>4. free \in SUBSET Nat
  BY <1>2
<1>5. PICK k : k = Min(free)
  OBVIOUS
<1>6. k \in free
  <2> HIDE DEF free
  <2> QED
    BY <1>3, <1>4, <1>5, MinOf
<1>7. AutoIp(ls) = ip(k)
  BY <1>5 DEF AutoIp
<1>8. k \in Nat /\ ip(k) \notin taken
  BY <1>2, <1>6
<1>9. ip(k) \in Ip /\ ip(k) # NoIp
  BY <1>8 DEF Ip, NoIp
<1> QED
  BY <1>7, <1>8, <1>9

(* A link that takes the place of another with the same ends and key. *)
LEMMA LinkReplaced ==
  ASSUME NEW ls, LinksOK(ls), NEW l \in ls, NEW d \in LinkRec, d.ends = l.ends, d.key = l.key
  PROVE  LinksOK((ls \ {l}) \cup {d}) /\ d \notin ls \ {l} /\ LinksOK(ls \ {l})
<1>1. Ends(d) = Ends(l)
  BY DEF Ends
<1>2. \A m \in ls : Ends(m) = Ends(d) /\ m.key = d.key => m = l
  BY <1>1 DEF LinksOK
<1>3. IsFiniteSet(ls \ {l}) /\ IsFiniteSet((ls \ {l}) \cup {d})
  <2>1. IsFiniteSet(ls \ {l})
    BY FS_RemoveElement DEF LinksOK
  <2> QED
    BY <2>1, FS_AddElement
<1> QED
  BY <1>1, <1>2, <1>3 DEF LinksOK

(* A link that addLink accepts shares no port and no name. *)
LEMMA FitsKeeps ==
  ASSUME NEW ls, LinksOK(ls), PortsOK(ls), NamesOK(ls), NEW d, Fits(ls, d), d.ends[1] # d.ends[2]
  PROVE  PortsOK(ls \cup {d}) /\ NamesOK(ls \cup {d})
<1>1. \A l \in ls : \A i, j \in 1..2 :
        l.ends[i] = d.ends[j] => /\ l.port[i] # NoNum => l.port[i] # d.port[j]
                                 /\ l.name[i] # NoName => l.name[i] # d.name[j]
  <2> SUFFICES ASSUME NEW l \in ls, NEW i \in 1..2, NEW j \in 1..2, l.ends[i] = d.ends[j]
               PROVE  /\ l.port[i] # NoNum => l.port[i] # d.port[j]
                      /\ l.name[i] # NoName => l.name[i] # d.name[j]
    OBVIOUS
  <2>1. d.port[j] \notin PortsOf(ls, d.ends[j]) /\ d.name[j] \notin IntfsOf(ls, d.ends[j])
    BY DEF Fits
  <2> QED
    BY <2>1, PortsAre, IntfsAre
<1>2. PortsOK(ls \cup {d})
  <2> SUFFICES ASSUME NEW l \in ls \cup {d}, NEW m \in ls \cup {d}, NEW i \in 1..2, NEW j \in 1..2,
                      l # m, l.ends[i] = m.ends[j], l.port[i] # NoNum
               PROVE  l.port[i] # m.port[j]
    BY DEF PortsOK
  <2>1. CASE l \in ls /\ m \in ls
    BY <2>1 DEF PortsOK
  <2>2. CASE l \in ls /\ m = d
    BY <1>1, <2>2
  <2>3. CASE l = d /\ m \in ls
    BY <1>1, <2>3
  <2> QED
    BY <2>1, <2>2, <2>3
<1>3. NamesOK(ls \cup {d})
  <2> SUFFICES ASSUME NEW l \in ls \cup {d}, NEW m \in ls \cup {d}, NEW i \in 1..2, NEW j \in 1..2,
                      l # m, l.ends[i] = m.ends[j], l.name[i] # NoName
               PROVE  l.name[i] # m.name[j]
    BY DEF NamesOK
  <2>1. CASE l \in ls /\ m \in ls
    BY <2>1 DEF NamesOK
  <2>2. CASE l \in ls /\ m = d
    BY <1>1, <2>2
  <2>3. CASE l = d /\ m \in ls
    BY <1>1, <2>3
  <2> QED
    BY <2>1, <2>2, <2>3
<1> QED
  BY <1>2, <1>3

(* What holds of the links holds of a part of them. *)
LEMMA FewerLinks ==
  ASSUME NEW ls, NEW ks \in SUBSET ls
  PROVE  /\ LinksOK(ls) => LinksOK(ks)
         /\ PortsOK(ls) => PortsOK(ks)
         /\ NamesOK(ls) => NamesOK(ks)
         /\ IpsOK(ls) => IpsOK(ks)
         /\ EthOK(ls) => EthOK(ks)
         /\ NoEth(ls) => NoEth(ks)
<1>1. LinksOK(ls) => LinksOK(ks)
  BY FS_Subset DEF LinksOK
<1> QED
  BY <1>1 DEF PortsOK, NamesOK, IpsOK, EthOK, NoEth

(* A link one of whose interfaces gets another port, name or address. *)
LEMMA PortChanged ==
  ASSUME NEW l \in LinkRec, NEW i \in 1..2, NEW x \in PortNum
  PROVE  LET d == [l EXCEPT !.port[i] = x]
         IN  /\ d \in LinkRec /\ d.ends = l.ends /\ d.key = l.key /\ d.name = l.name
             /\ d.ip = l.ip /\ d.port[i] = x /\ \A j \in 1..2 : j # i => d.port[j] = l.port[j]
<1>1. PICK q : q = [l.port EXCEPT ![i] = x]
  OBVIOUS
<1>2. l.port \in PortNum \X PortNum
  BY DEF LinkRec
<1>3. q \in PortNum \X PortNum /\ q[i] = x /\ \A j \in 1..2 : j # i => q[j] = l.port[j]
  BY <1>1, <1>2
<1>4. PICK d : d = [l EXCEPT !.port = q]
  OBVIOUS
<1>5. /\ d \in LinkRec /\ d.ends = l.ends /\ d.key = l.key /\ d.name = l.name
      /\ d.ip = l.ip /\ d.port = q
  <2> HIDE DEF IfName
  <2> QED
    BY <1>3, <1>4 DEF LinkRec
<1>6. [l EXCEPT !.port[i] = x] = d
  BY <1>1, <1>4
<1> QED
  BY <1>3, <1>5, <1>6

(* The same of a name. *)
LEMMA NameChanged ==
  ASSUME NEW l \in LinkRec, NEW i \in 1..2, NEW x \in IfName
  PROVE  LET d == [l EXCEPT !.name[i] = x]
         IN  /\ d \in LinkRec /\ d.ends = l.ends /\ d.key = l.key /\ d.port = l.port
             /\ d.ip = l.ip /\ d.name[i] = x /\ \A j \in 1..2 : j # i => d.name[j] = l.name[j]
<1> HIDE DEF IfName
<1>1. PICK q : q = [l.name EXCEPT ![i] = x]
  OBVIOUS
<1>2. l.name \in IfName \X IfName
  BY DEF LinkRec
<1>3. q \in IfName \X IfName /\ q[i] = x /\ \A j \in 1..2 : j # i => q[j] = l.name[j]
  BY <1>1, <1>2
<1>4. PICK d : d = [l EXCEPT !.name = q]
  OBVIOUS
<1>5. /\ d \in LinkRec /\ d.ends = l.ends /\ d.key = l.key /\ d.port = l.port
      /\ d.ip = l.ip /\ d.name = q
  BY <1>3, <1>4 DEF LinkRec
<1>6. [l EXCEPT !.name[i] = x] = d
  BY <1>1, <1>4
<1> QED
  BY <1>3, <1>5, <1>6

(* The same of an address. *)
LEMMA IpChanged ==
  ASSUME NEW l \in LinkRec, NEW i \in 1..2, NEW x \in Ip
  PROVE  LET d == [l EXCEPT !.ip[i] = x]
         IN  /\ d \in LinkRec /\ d.ends = l.ends /\ d.key = l.key /\ d.port = l.port
             /\ d.name = l.name /\ d.ip[i] = x /\ \A j \in 1..2 : j # i => d.ip[j] = l.ip[j]
<1> HIDE DEF IfName, Ip
<1>1. PICK q : q = [l.ip EXCEPT ![i] = x]
  OBVIOUS
<1>2. l.ip \in Ip \X Ip
  BY DEF LinkRec
<1>3. q \in Ip \X Ip /\ q[i] = x /\ \A j \in 1..2 : j # i => q[j] = l.ip[j]
  BY <1>1, <1>2
<1>4. PICK d : d = [l EXCEPT !.ip = q]
  OBVIOUS
<1>5. /\ d \in LinkRec /\ d.ends = l.ends /\ d.key = l.key /\ d.port = l.port
      /\ d.name = l.name /\ d.ip = q
  BY <1>3, <1>4 DEF LinkRec
<1>6. [l EXCEPT !.ip[i] = x] = d
  BY <1>1, <1>4
<1> QED
  BY <1>3, <1>5, <1>6

(* The three steps by which auto_assignment completes an interface. *)
LEMMA WithPortIs ==
  ASSUME NEW ls, IsFiniteSet(ls), NEW l \in LinkRec, NEW i \in 1..2
  PROVE  LET d == WithPort(ls, l, i)
         IN  /\ d \in LinkRec /\ d.ends = l.ends /\ d.key = l.key /\ d.name = l.name
             /\ d.ip = l.ip /\ \A j \in 1..2 : j # i => d.port[j] = l.port[j]
             /\ d.port[i] # NoNum /\ l.port[i] \in {NoNum, d.port[i]}
             /\ l.port[i] = NoNum => d.port[i] \notin PortsOf(ls, l.ends[i])
<1>1. CASE l.port[i] # NoNum
  BY <1>1 DEF WithPort
<1>2. CASE l.port[i] = NoNum
  <2>1. PICK x \in PortNum :
          x = AutoPort(ls, l.ends[i]) /\ x # NoNum /\ x \notin PortsOf(ls, l.ends[i])
    BY AutoPortIsFree DEF PortNum
  <2>2. PICK d : d = [l EXCEPT !.port[i] = x]
    OBVIOUS
  <2>3. /\ d \in LinkRec /\ d.ends = l.ends /\ d.key = l.key /\ d.name = l.name
        /\ d.ip = l.ip /\ d.port[i] = x /\ \A j \in 1..2 : j # i => d.port[j] = l.port[j]
    BY <2>2, PortChanged
  <2>4. WithPort(ls, l, i) = d
    BY <1>2, <2>1, <2>2 DEF WithPort
  <2> QED
    BY <1>2, <2>1, <2>3, <2>4
<1> QED
  BY <1>1, <1>2

(* An interface name is what the type says, canonical when tagged eth. *)
LEMMA NameIs ==
  ASSUME NEW n \in Names, NEW t \in Tags, NEW p \in Int
  PROVE  <<n, t, p>> \in IfName /\ <<n, t, p>> # NoName /\ (IsEth(<<n, t, p>>) <=> t = "eth")
<1>1. <<n, t, p>> \in Names \X Tags \X Int
  OBVIOUS
<1>2. <<n, t, p>> # <<>>
  OBVIOUS
<1> QED
  BY <1>1, <1>2 DEF IfName, NoName, IsEth

(* The name auto_assignment gives an interface without one. *)
LEMMA WithNameIs ==
  ASSUME NEW l \in LinkRec, NEW i \in 1..2
  PROVE  LET d == WithName(l, i)
         IN  /\ d \in LinkRec /\ d.ends = l.ends /\ d.key = l.key /\ d.port = l.port
             /\ d.ip = l.ip /\ \A j \in 1..2 : j # i => d.name[j] = l.name[j]
             /\ d.name[i] = IF l.name[i] = NoName THEN Canonical(l, i) ELSE l.name[i]
<1>1. CASE l.name[i] # NoName
  BY <1>1 DEF WithName
<1>2. CASE l.name[i] = NoName
  <2>1. PICK x : x = Canonical(l, i)
    OBVIOUS
  <2>2. x \in IfName
    <3>1. PICK n \in Names, p \in Int : n = l.ends[i] /\ p = l.port[i]
      BY LinkTypes
    <3>2. PICK t \in Tags : t = "eth"
      BY DEF Tags
    <3>3. <<n, t, p>> \in IfName
      BY NameIs
    <3> QED
      BY <2>1, <3>1, <3>2, <3>3 DEF Canonical
  <2>3. PICK d : d = [l EXCEPT !.name[i] = x]
    OBVIOUS
  <2>4. /\ d \in LinkRec /\ d.ends = l.ends /\ d.key = l.key /\ d.port = l.port
        /\ d.ip = l.ip /\ d.name[i] = x /\ \A j \in 1..2 : j # i => d.name[j] = l.name[j]
    BY <2>2, <2>3, NameChanged
  <2>5. WithName(l, i) = d
    BY <1>2, <2>1, <2>3 DEF WithName, Canonical
  <2> QED
    BY <1>2, <2>1, <2>4, <2>5
<1> QED
  BY <1>1, <1>2

(* The address auto_assignment gives a host interface without one. *)
LEMMA WithIpIs ==
  ASSUME NEW ls, IsFiniteSet(ls), NEW l \in LinkRec, NEW i \in 1..2
  PROVE  LET d == WithIp(ls, l, i)
         IN  /\ d \in LinkRec /\ d.ends = l.ends /\ d.key = l.key /\ d.port = l.port
             /\ d.name = l.name /\ \A j \in 1..2 : j # i => d.ip[j] = l.ip[j]
             /\ l.ip[i] \in {NoIp, d.ip[i]}
             /\ IsHost(l.ends[i]) => d.ip[i] # NoIp
             /\ IsHost(l.ends[i]) /\ l.ip[i] = NoIp => d.ip[i] \notin HostIps(ls \cup {l})
<1>1. CASE IsSwitch(l.ends[i]) \/ l.ip[i] # NoIp
  BY <1>1 DEF WithIp, IsSwitch
<1>2. CASE ~ (IsSwitch(l.ends[i]) \/ l.ip[i] # NoIp)
  <2>1. IsFiniteSet(ls \cup {l})
    BY FS_AddElement
  <2>2. PICK x \in Ip : x = AutoIp(ls \cup {l}) /\ x # NoIp /\ x \notin HostIps(ls \cup {l})
    BY <2>1, AutoIpIsFree
  <2>3. PICK d : d = [l EXCEPT !.ip[i] = x]
    OBVIOUS
  <2>4. /\ d \in LinkRec /\ d.ends = l.ends /\ d.key = l.key /\ d.port = l.port
        /\ d.name = l.name /\ d.ip[i] = x /\ \A j \in 1..2 : j # i => d.ip[j] = l.ip[j]
    BY <2>3, IpChanged
  <2>5. WithIp(ls, l, i) = d
    BY <1>2, <2>2, <2>3 DEF WithIp
  <2> QED
    BY <1>2, <2>2, <2>4, <2>5
<1> QED
  BY <1>1, <1>2

(* A link as auto_assignment leaves it: what was chosen is kept, and       *)
(* nothing is open.                                                        *)
Filled(l, d) ==
  /\ d.ends = l.ends /\ d.key = l.key
  /\ \A i \in 1..2 : /\ l.port[i] \in {NoNum, d.port[i]}
                     /\ l.name[i] \in {NoName, d.name[i]}
                     /\ l.ip[i] \in {NoIp, d.ip[i]}
Full(d) ==
  \A i \in 1..2 : /\ d.port[i] # NoNum /\ d.name[i] # NoName
                  /\ IsHost(d.ends[i]) => d.ip[i] # NoIp

(* The ports and names of a link that is filled in fit the other links. *)
LEMMA FilledFits ==
  ASSUME NEW ls, LinksOK(ls), PortsOK(ls), NamesOK(ls), EthOK(ls), NEW l \in ls,
         \A i \in 1..2 : ~ IsEth(l.name[i]),
         NEW a, NEW b, NEW c, NEW d,
         a = WithPort(ls \ {l}, l, 1), b = WithPort(ls \ {l}, a, 2),
         c = WithName(b, 1), d = WithName(c, 2)
  PROVE  /\ d \in LinkRec /\ d.ends = l.ends /\ d.key = l.key /\ d.ip = l.ip
         /\ \A i \in 1..2 : /\ d.port[i] # NoNum /\ l.port[i] \in {NoNum, d.port[i]}
                            /\ d.name[i] # NoName /\ l.name[i] \in {NoName, d.name[i]}
                            /\ IsEth(d.name[i]) => d.name[i] = Canonical(d, i)
         /\ Fits(ls \ {l}, d)
<1> DEFINE others == ls \ {l}
<1>1. /\ LinksOK(others) /\ IsFiniteSet(others)
      /\ l \in LinkRec /\ l.ends[1] # l.ends[2]
  BY FewerLinks DEF LinksOK
<1>2. 1 \in 1..2 /\ 2 \in 1..2 /\ \A i \in 1..2 : i = 1 \/ i = 2
  OBVIOUS
<1>3. /\ a \in LinkRec /\ a.ends = l.ends /\ a.key = l.key /\ a.name = l.name
      /\ a.ip = l.ip /\ a.port[2] = l.port[2]
      /\ a.port[1] # NoNum /\ l.port[1] \in {NoNum, a.port[1]}
      /\ l.port[1] = NoNum => a.port[1] \notin PortsOf(others, l.ends[1])
  BY <1>1, <1>2, WithPortIs
<1>4. /\ b \in LinkRec /\ b.ends = a.ends /\ b.key = a.key /\ b.name = a.name
      /\ b.ip = a.ip /\ b.port[1] = a.port[1]
      /\ b.port[2] # NoNum /\ a.port[2] \in {NoNum, b.port[2]}
      /\ a.port[2] = NoNum => b.port[2] \notin PortsOf(others, a.ends[2])
  BY <1>1, <1>2, <1>3, WithPortIs
<1>5. /\ c \in LinkRec /\ c.ends = b.ends /\ c.key = b.key /\ c.port = b.port
      /\ c.ip = b.ip /\ c.name[2] = b.name[2]
      /\ c.name[1] = IF b.name[1] = NoName THEN Canonical(b, 1) ELSE b.name[1]
  BY <1>2, <1>4, WithNameIs
<1>6. /\ d \in LinkRec /\ d.ends = c.ends /\ d.key = c.key /\ d.port = c.port
      /\ d.ip = c.ip /\ d.name[1] = c.name[1]
      /\ d.name[2] = IF c.name[2] = NoName THEN Canonical(c, 2) ELSE c.name[2]
  BY <1>2, <1>5, WithNameIs
<1>7. \A i \in 1..2 : Canonical(b, i) = Canonical(d, i) /\ Canonical(c, i) = Canonical(d, i)
  BY <1>5, <1>6 DEF Canonical
<1>8. \A i \in 1..2 : d.name[i] = IF l.name[i] = NoName THEN Canonical(d, i) ELSE l.name[i]
  BY <1>2, <1>3, <1>4, <1>5, <1>6, <1>7
<1>9. \A i \in 1..2 : /\ d.port[i] # NoNum /\ l.port[i] \in {NoNum, d.port[i]}
                      /\ l.port[i] = NoNum => d.port[i] \notin PortsOf(others, l.ends[i])
  BY <1>2, <1>3, <1>4, <1>5, <1>6
<1>10. /\ d.ends = l.ends /\ d.key = l.key /\ d.ip = l.ip
  BY <1>3, <1>4, <1>5, <1>6
<1>11. \A i \in 1..2 : /\ d.name[i] # NoName /\ l.name[i] \in {NoName, d.name[i]}
                       /\ IsEth(d.name[i]) => d.name[i] = Canonical(d, i)
  <2>1. \A i \in 1..2 : Canonical(d, i) # NoName
    BY DEF Canonical, NoName
  <2> QED
    BY <1>8, <2>1
<1>12. ASSUME NEW i \in 1..2 PROVE d.port[i] \notin PortsOf(others, d.ends[i])
  <2>1. CASE l.port[i] = NoNum
    BY <1>9, <1>10, <2>1
  <2>2. CASE l.port[i] # NoNum
    <3>1. \A m \in others : \A j \in 1..2 : m.ends[j] = l.ends[i] => m.port[j] # l.port[i]
      BY <2>2 DEF PortsOK
    <3> QED
      BY <1>1, <1>9, <1>10, <2>2, <3>1, PortsAre
  <2> QED
    BY <2>1, <2>2
<1>13. ASSUME NEW i \in 1..2, d.name[i] \in IntfsOf(others, d.ends[i]) PROVE FALSE
  <2>1. PICK m \in others, j \in 1..2 : m.ends[j] = d.ends[i] /\ m.name[j] = d.name[i]
    BY <1>1, <1>13, IntfsAre
  <2>2. CASE l.name[i] # NoName
    BY <1>8, <1>10, <2>1, <2>2 DEF NamesOK
  <2>3. CASE l.name[i] = NoName
    <3>1. m.name[j] = <<d.ends[i], "eth", d.port[i]>>
      BY <1>8, <2>1, <2>3 DEF Canonical
    <3>2. IsEth(m.name[j])
      BY <3>1 DEF IsEth, NoName
    <3>3. m.name[j] = <<m.ends[j], "eth", m.port[j]>>
      BY <3>2 DEF EthOK, Canonical
    <3>4. m.port[j] = d.port[i]
      BY <3>1, <3>3
    <3>5. m.port[j] \in PortsOf(others, d.ends[i])
      BY <1>1, <1>9, <2>1, <3>4, PortsAre
    <3> QED
      BY <1>12, <3>4, <3>5
  <2> QED
    BY <2>2, <2>3
<1>14. Fits(others, d)
  BY <1>12, <1>13 DEF Fits
<1> QED
  BY <1>6, <1>9, <1>10, <1>11, <1>14

(* A host's interface that gets a free address. *)
LEMMA IpKeeps ==
  ASSUME NEW ls, LinksOK(ls), NEW l \in LinkRec, IpsOK(ls \cup {l}), l \notin ls,
         NEW i \in 1..2, NEW d, d = WithIp(ls, l, i), d \notin ls
  PROVE  IpsOK(ls \cup {d})
<1>1. /\ d \in LinkRec /\ d.ends = l.ends
      /\ \A j \in 1..2 : j # i => d.ip[j] = l.ip[j]
      /\ l.ip[i] \in {NoIp, d.ip[i]}
      /\ IsHost(l.ends[i]) => d.ip[i] # NoIp
      /\ IsHost(l.ends[i]) /\ l.ip[i] = NoIp => d.ip[i] \notin HostIps(ls \cup {l})
  BY WithIpIs DEF LinksOK
<1> DEFINE Clash(m, k, o, j) ==
       /\ IsHost(m.ends[k]) /\ IsHost(o.ends[j]) /\ m.ip[k] # NoIp /\ m.ip[k] = o.ip[j]
       /\ m # o \/ k # j
<1>2. \A m, o \in ls \cup {l} : \A k, j \in 1..2 : ~ Clash(m, k, o, j)
  BY DEF IpsOK
<1>3. ASSUME NEW m \in ls, NEW k \in 1..2, NEW j \in 1..2, Clash(m, k, d, j) \/ Clash(d, j, m, k)
      PROVE  FALSE
  <2>1. IsHost(m.ends[k]) /\ IsHost(l.ends[j]) /\ m.ip[k] = d.ip[j] /\ m.ip[k] # NoIp /\ m # l
    BY <1>1, <1>3
  <2>2. l.ip[j] # d.ip[j]
    BY <1>2, <2>1
  <2>3. j = i /\ l.ip[i] = NoIp
    BY <1>1, <2>2
  <2>4. d.ip[i] \notin HostIps(ls \cup {l})
    BY <1>1, <2>1, <2>3
  <2>5. m.ip[k] \in HostIps(ls \cup {l})
    BY <2>1, IpsAre
  <2> QED
    BY <2>1, <2>3, <2>4, <2>5
<1>4. ASSUME NEW k \in 1..2, NEW j \in 1..2, Clash(d, k, d, j)
      PROVE  FALSE
  <2>1. k # j /\ IsHost(l.ends[k]) /\ IsHost(l.ends[j]) /\ d.ip[k] = d.ip[j] /\ d.ip[k] # NoIp
    BY <1>1, <1>4
  <2>2. PICK o \in 1..2 : o # i /\ (k = o \/ j = o) /\ (k = i \/ j = i)
    BY <2>1
  <2>3. d.ip[o] = l.ip[o] /\ d.ip[o] = d.ip[i] /\ IsHost(l.ends[o]) /\ IsHost(l.ends[i])
    BY <1>1, <2>1, <2>2
  <2>4. l.ip[i] # d.ip[i]
    <3>1. l \in ls \cup {l}
      OBVIOUS
    <3>2. ~ Clash(l, o, l, i)
      BY <1>2, <3>1
    <3> QED
      BY <2>1, <2>2, <2>3, <3>2
  <2>5. d.ip[i] \notin HostIps(ls \cup {l})
    BY <1>1, <2>3, <2>4
  <2>6. l.ip[o] \in HostIps(ls \cup {l})
    BY <2>1, <2>2, <2>3, IpsAre
  <2> QED
    BY <2>3, <2>5, <2>6
<1>5. \A m, o \in ls \cup {d} : \A k, j \in 1..2 : ~ Clash(m, k, o, j)
  <2> SUFFICES ASSUME NEW m \in ls \cup {d}, NEW o \in ls \cup {d}, NEW k \in 1..2, NEW j \in 1..2,
                      Clash(m, k, o, j)
               PROVE  FALSE
    OBVIOUS
  <2> HIDE DEF Clash
  <2>1. CASE m \in ls /\ o \in ls
    BY <1>2, <2>1
  <2>2. CASE m \in ls /\ o = d
    BY <1>3, <2>2
  <2>3. CASE m = d /\ o \in ls
    BY <1>3, <2>3
  <2>4. CASE m = d /\ o = d
    BY <1>4, <2>4
  <2> QED
    BY <2>1, <2>2, <2>3, <2>4
<1> QED
  BY <1>5 DEF IpsOK

(* One round of the loop of auto_assignment over the links. *)
LEMMA AssignLinkFills ==
  ASSUME NEW ls, LinksOK(ls), PortsOK(ls), NamesOK(ls), IpsOK(ls), EthOK(ls), NEW l \in ls,
         \A i \in 1..2 : ~ IsEth(l.name[i]), NEW acc, acc.links = ls
  PROVE  \E d \in LinkRec :
           /\ AssignLink(acc, l) = [links |-> (ls \ {l}) \cup {d}, ok |-> acc.ok /\ TRUE]
           /\ d \notin ls \ {l} /\ Filled(l, d) /\ Full(d)
           /\ LinksOK((ls \ {l}) \cup {d}) /\ PortsOK((ls \ {l}) \cup {d})
           /\ NamesOK((ls \ {l}) \cup {d}) /\ IpsOK((ls \ {l}) \cup {d})
           /\ EthOK((ls \ {l}) \cup {d})
<1>1. PICK others : others = ls \ {l}
  OBVIOUS
<1>2. PICK a, b, c, d, e, f :
        /\ a = WithPort(others, l, 1) /\ b = WithPort(others, a, 2)
        /\ c = WithName(b, 1) /\ d = WithName(c, 2)
        /\ e = WithIp(others, d, 1) /\ f = WithIp(others, e, 2)
  OBVIOUS
<1>3. /\ d \in LinkRec /\ d.ends = l.ends /\ d.key = l.key /\ d.ip = l.ip
      /\ \A i \in 1..2 : /\ d.port[i] # NoNum /\ l.port[i] \in {NoNum, d.port[i]}
                         /\ d.name[i] # NoName /\ l.name[i] \in {NoName, d.name[i]}
                         /\ IsEth(d.name[i]) => d.name[i] = Canonical(d, i)
      /\ Fits(others, d)
  BY <1>1, <1>2, FilledFits
<1>4. /\ LinksOK(others) /\ PortsOK(others) /\ NamesOK(others) /\ EthOK(others)
      /\ IsFiniteSet(others) /\ l.ends[1] # l.ends[2]
  <2>1. others \in SUBSET ls
    BY <1>1
  <2>2. /\ LinksOK(others) /\ PortsOK(others) /\ NamesOK(others) /\ EthOK(others)
    BY <2>1, FewerLinks
  <2> QED
    BY <2>2 DEF LinksOK
<1>5. 1 \in 1..2 /\ 2 \in 1..2 /\ \A i \in 1..2 : i = 1 \/ i = 2
  OBVIOUS
<1>6. /\ e \in LinkRec /\ e.ends = d.ends /\ e.key = d.key /\ e.port = d.port
      /\ e.name = d.name /\ e.ip[2] = d.ip[2]
      /\ d.ip[1] \in {NoIp, e.ip[1]}
      /\ IsHost(d.ends[1]) => e.ip[1] # NoIp
  <2>1. PICK i \in 1..2 : i = 1
    BY <1>5
  <2>2. e = WithIp(others, d, i)
    BY <1>2, <2>1
  <2>3. /\ e \in LinkRec /\ e.ends = d.ends /\ e.key = d.key /\ e.port = d.port
        /\ e.name = d.name /\ \A j \in 1..2 : j # i => e.ip[j] = d.ip[j]
        /\ d.ip[i] \in {NoIp, e.ip[i]}
        /\ IsHost(d.ends[i]) => e.ip[i] # NoIp
        /\ IsHost(d.ends[i]) /\ d.ip[i] = NoIp => e.ip[i] \notin HostIps(others \cup {d})
    <3>1. d \in LinkRec /\ IsFiniteSet(others)
      BY <1>3, <1>4
    <3> QED
      BY ONLY <2>2, <3>1, i \in 1..2, WithIpIs
  <2> QED
    BY <1>5, <2>1, <2>3
<1>7. /\ f \in LinkRec /\ f.ends = e.ends /\ f.key = e.key /\ f.port = e.port
      /\ f.name = e.name /\ f.ip[1] = e.ip[1]
      /\ e.ip[2] \in {NoIp, f.ip[2]}
      /\ IsHost(e.ends[2]) => f.ip[2] # NoIp
  <2>1. PICK i \in 1..2 : i = 2
    BY <1>5
  <2>2. f = WithIp(others, e, i)
    BY <1>2, <2>1
  <2>3. /\ f \in LinkRec /\ f.ends = e.ends /\ f.key = e.key /\ f.port = e.port
        /\ f.name = e.name /\ \A j \in 1..2 : j # i => f.ip[j] = e.ip[j]
        /\ e.ip[i] \in {NoIp, f.ip[i]}
        /\ IsHost(e.ends[i]) => f.ip[i] # NoIp
        /\ IsHost(e.ends[i]) /\ e.ip[i] = NoIp => f.ip[i] \notin HostIps(others \cup {e})
    <3>1. e \in LinkRec /\ IsFiniteSet(others)
      BY <1>4, <1>6
    <3> QED
      BY ONLY <2>2, <3>1, i \in 1..2, WithIpIs
  <2> QED
    BY <1>5, <2>1, <2>3
<1>8. Filled(l, f) /\ Full(f)
  BY <1>3, <1>5, <1>6, <1>7 DEF Filled, Full
<1>9. /\ d \notin others /\ e \notin others /\ f \notin others
      /\ LinksOK(others \cup {f})
  <2>1. e.ends = l.ends /\ e.key = l.key /\ f.ends = l.ends /\ f.key = l.key
    BY <1>3, <1>6, <1>7
  <2>2. d \notin ls \ {l}
    BY <1>3, LinkReplaced
  <2>3. e \notin ls \ {l}
    BY <1>6, <2>1, LinkReplaced
  <2>4. f \notin ls \ {l} /\ LinksOK((ls \ {l}) \cup {f})
    BY <1>7, <2>1, LinkReplaced
  <2> QED
    BY <1>1, <2>2, <2>3, <2>4
<1>10. PortsOK(others \cup {d}) /\ NamesOK(others \cup {d})
  BY <1>3, <1>4, FitsKeeps
<1>11. PortsOK(others \cup {f}) /\ NamesOK(others \cup {f})
  <2>1. Fits(others, f)
    BY <1>3, <1>6, <1>7 DEF Fits
  <2>2. f.ends[1] # f.ends[2]
    BY <1>3, <1>4, <1>6, <1>7
  <2> QED
    BY <1>4, <2>1, <2>2, FitsKeeps
<1>12. IpsOK(others \cup {d})
  <2>1. \A m \in others : m \in ls /\ m # l
    BY <1>1
  <2>2. \A m, o \in ls : \A k, j \in 1..2 :
          ~ (/\ IsHost(m.ends[k]) /\ IsHost(o.ends[j]) /\ m.ip[k] # NoIp
             /\ m # o \/ k # j
             /\ m.ip[k] = o.ip[j])
    BY DEF IpsOK
  <2> SUFFICES ASSUME NEW m \in others \cup {d}, NEW o \in others \cup {d},
                      NEW k \in 1..2, NEW j \in 1..2,
                      IsHost(m.ends[k]), IsHost(o.ends[j]), m.ip[k] # NoIp,
                      m # o \/ k # j, m.ip[k] = o.ip[j]
               PROVE  FALSE
    BY DEF IpsOK
  <2>3. CASE m \in others /\ o \in others
    BY <2>1, <2>2, <2>3
  <2>4. CASE m \in others /\ o = d
    BY <1>3, <2>1, <2>2, <2>4
  <2>5. CASE m = d /\ o \in others
    BY <1>3, <2>1, <2>2, <2>5
  <2>6. CASE m = d /\ o = d
    BY <1>3, <2>2, <2>6
  <2> QED
    BY <2>3, <2>4, <2>5, <2>6
<1>13. IpsOK(others \cup {e})
  BY <1>2, <1>3, <1>4, <1>5, <1>9, <1>12, IpKeeps
<1>14. IpsOK(others \cup {f})
  BY <1>2, <1>4, <1>5, <1>6, <1>9, <1>13, IpKeeps
<1>15. EthOK(others \cup {f})
  <2>1. \A i \in 1..2 : Canonical(f, i) = Canonical(d, i)
    BY <1>6, <1>7 DEF Canonical
  <2> QED
    BY <1>3, <1>4, <1>6, <1>7, <2>1 DEF EthOK
<1>16. AssignLink(acc, l) = [links |-> others \cup {f}, ok |-> acc.ok /\ TRUE]
  <2>1. AssignLink(acc, l) = [links |-> others \cup {f}, ok |-> acc.ok /\ Fits(others, d)]
    BY <1>1, <1>2 DEF AssignLink
  <2> QED
    BY <1>3, <2>1
<1> QED
  BY <1>1, <1>7, <1>8, <1>9, <1>11, <1>14, <1>15, <1>16

(* The order in which auto_assignment visits the links is total. *)
Index(n) == SelectInSeq(NameOrder, LAMBDA o : o = n)

(* A name has a place in the natural order. *)
LEMMA IndexIs ==
  ASSUME NEW n \in Names
  PROVE  Index(n) \in 1..Len(NameOrder) /\ NameOrder[Index(n)] = n
<1> DEFINE I == {i \in 1..Len(NameOrder) : NameOrder[i] = n}
<1>1. I # {} /\ I \in SUBSET Nat
  BY NamesFinite
<1>2. Min(I) \in I
  <2> HIDE DEF I
  <2> QED
    BY <1>1, MinOf
<1>3. Index(n) = Min(I)
  BY <1>1 DEF Index, SelectInSeq
<1> QED
  BY <1>2, <1>3

(* The order of the links: by their ends, then by their key. *)
LEMMA BeforeIs ==
  ASSUME NEW l \in LinkRec, NEW m \in LinkRec,
         \/ Index(l.ends[1]) < Index(m.ends[1])
         \/ /\ Index(l.ends[1]) = Index(m.ends[1])
            /\ Index(l.ends[2]) < Index(m.ends[2])
         \/ /\ Index(l.ends[1]) = Index(m.ends[1])
            /\ Index(l.ends[2]) = Index(m.ends[2])
            /\ l.key < m.key
  PROVE  LinkBefore(l, m)
<1>1. PICK p, q : /\ p = <<Index(l.ends[1]), Index(l.ends[2]), l.key>>
                  /\ q = <<Index(m.ends[1]), Index(m.ends[2]), m.key>>
  OBVIOUS
<1>2. LinkBefore(l, m) <=> \E i \in 1..3 : p[i] < q[i] /\ \A j \in 1..(i - 1) : p[j] = q[j]
  BY <1>1 DEF LinkBefore, Index
<1>3. 1 \in 1..3 /\ 2 \in 1..3 /\ 3 \in 1..3
  OBVIOUS
<1>4. CASE p[1] < q[1]
  <2>1. \A j \in 1..(1 - 1) : p[j] = q[j]
    OBVIOUS
  <2> QED
    BY <1>2, <1>3, <1>4, <2>1
<1>5. CASE p[1] = q[1] /\ p[2] < q[2]
  <2>1. \A j \in 1..(2 - 1) : p[j] = q[j]
    <3>1. \A j \in 1..(2 - 1) : j = 1
      OBVIOUS
    <3> QED
      BY <1>5, <3>1
  <2> QED
    BY <1>2, <1>3, <1>5, <2>1
<1>6. CASE p[1] = q[1] /\ p[2] = q[2] /\ p[3] < q[3]
  <2>1. \A j \in 1..(3 - 1) : p[j] = q[j]
    <3>1. \A j \in 1..(3 - 1) : j = 1 \/ j = 2
      OBVIOUS
    <3> QED
      BY <1>6, <3>1
  <2> QED
    BY <1>2, <1>3, <1>6, <2>1
<1> QED
  BY <1>1, <1>4, <1>5, <1>6

(* Of some links one comes last. *)
LEMMA LastLinkIn ==
  ASSUME NEW ls, LinksOK(ls), ls # {}
  PROVE  LastLink(ls) \in ls
<1>1. PICK n \in Nat : n = Len(NameOrder)
  BY NamesFinite
<1>2. \A l \in ls : \A i \in 1..2 : Index(l.ends[i]) \in 0..n /\ l.ends[i] \in Names
  <2>1. \A l \in ls : \A i \in 1..2 : l.ends[i] \in Names
    BY LinkTypes DEF LinksOK
  <2> QED
    BY <1>1, <2>1, IndexIs
<1>3. \A l \in ls : l \in LinkRec /\ l.key \in Nat
  BY DEF LinksOK, LinkRec
<1>4. 1 \in 1..2 /\ 2 \in 1..2
  OBVIOUS
<1>5. PICK l1 \in ls : \A m \in ls : Index(m.ends[1]) <= Index(l1.ends[1])
  <2> DEFINE A == {Index(l.ends[1]) : l \in ls}
  <2>1. A \in SUBSET (0..n) /\ A # {}
    BY <1>2, <1>4
  <2>2. Max(A) \in A /\ \A y \in A : y <= Max(A)
    <3> HIDE DEF A
    <3> QED
      BY <2>1, MaxOf
  <2>3. PICK l \in ls : Max(A) = Index(l.ends[1])
    BY <2>2
  <2> QED
    BY <2>2, <2>3
<1> DEFINE ls1 == {l \in ls : Index(l.ends[1]) = Index(l1.ends[1])}
<1>6. PICK l2 \in ls1 : \A m \in ls1 : Index(m.ends[2]) <= Index(l2.ends[2])
  <2> DEFINE A == {Index(l.ends[2]) : l \in ls1}
  <2>1. A \in SUBSET (0..n) /\ A # {}
    BY <1>2, <1>4
  <2>2. Max(A) \in A /\ \A y \in A : y <= Max(A)
    <3> HIDE DEF A
    <3> QED
      BY <2>1, MaxOf
  <2>3. PICK l \in ls1 : Max(A) = Index(l.ends[2])
    BY <2>2
  <2> QED
    BY <2>2, <2>3
<1> DEFINE ls2 == {l \in ls1 : Index(l.ends[2]) = Index(l2.ends[2])}
<1>7. PICK l3 \in ls2 : \A m \in ls2 : m.key <= l3.key
  <2> DEFINE K == [l \in ls |-> l.key]
             A == {l.key : l \in ls2}
  <2>1. PICK b \in Nat : \A l \in ls : K[l] <= b
    <3>1. K \in [ls -> Nat] /\ IsFiniteSet(ls)
      BY <1>3 DEF LinksOK
    <3> HIDE DEF K
    <3> QED
      BY <3>1, FiniteBound
  <2>2. A \in SUBSET (0..b) /\ A # {}
    BY <1>3, <2>1
  <2>3. Max(A) \in A /\ \A y \in A : y <= Max(A)
    <3> HIDE DEF A
    <3> QED
      BY <2>2, MaxOf
  <2>4. PICK l \in ls2 : Max(A) = l.key
    BY <2>3
  <2> QED
    BY <2>3, <2>4
<1>8. l3 \in ls
  OBVIOUS
<1>9. ASSUME NEW m \in ls \ {l3} PROVE LinkBefore(m, l3)
  <2>1. /\ Index(m.ends[1]) \in Nat /\ Index(m.ends[2]) \in Nat /\ m.key \in Nat
        /\ Index(l3.ends[1]) \in Nat /\ Index(l3.ends[2]) \in Nat /\ l3.key \in Nat
    <3>1. \A x \in 0..n : x \in Nat
      OBVIOUS
    <3> QED
      BY <1>2, <1>3, <1>4, <1>8, <3>1
  <2>2. PICK a \in Nat, b \in Nat, k \in Nat, c \in Nat, d \in Nat, j \in Nat :
          /\ a = Index(m.ends[1]) /\ b = Index(m.ends[2]) /\ k = m.key
          /\ c = Index(l3.ends[1]) /\ d = Index(l3.ends[2]) /\ j = l3.key
    BY <2>1
  <2>3. a <= c /\ (a = c => b <= d) /\ (a = c /\ b = d => k <= j)
    BY <1>5, <1>6, <1>7, <2>2
  <2>4. ~ (a = c /\ b = d /\ k = j)
    <3> SUFFICES ASSUME a = c, b = d, k = j PROVE FALSE
      OBVIOUS
    <3>1. NameOrder[a] = m.ends[1] /\ NameOrder[c] = l3.ends[1]
      BY <1>2, <1>4, <1>8, <2>2, IndexIs
    <3>2. NameOrder[b] = m.ends[2] /\ NameOrder[d] = l3.ends[2]
      BY <1>2, <1>4, <1>8, <2>2, IndexIs
    <3>3. Ends(m) = Ends(l3)
      BY <3>1, <3>2 DEF Ends
    <3> QED
      BY <1>8, <2>2, <3>3 DEF LinksOK
  <2>5. a < c \/ (a = c /\ b < d) \/ (a = c /\ b = d /\ k < j)
    BY <2>3, <2>4
  <2> QED
    BY <1>3, <1>8, <2>2, <2>5, BeforeIs
<1> QED
  BY <1>8, <1>9 DEF LastLink

(* A round of the loop over the links, whatever it is given. *)
LinkSets == {s \in SUBSET LinkRec : IsFiniteSet(s)}

(* It returns a set of links, and whether one was refused. *)
LEMMA AssignLinkType ==
  ASSUME NEW acc \in [links : LinkSets, ok : BOOLEAN], NEW l \in LinkRec
  PROVE  AssignLink(acc, l) \in [links : LinkSets, ok : BOOLEAN]
<1>1. PICK others : others = acc.links \ {l}
  OBVIOUS
<1>2. PICK a, b, c, d, e, f :
        /\ a = WithPort(others, l, 1) /\ b = WithPort(others, a, 2)
        /\ c = WithName(b, 1) /\ d = WithName(c, 2)
        /\ e = WithIp(others, d, 1) /\ f = WithIp(others, e, 2)
  OBVIOUS
<1>3. PICK i \in 1..2, j \in 1..2 : i = 1 /\ j = 2
  OBVIOUS
<1>4. others \subseteq LinkRec /\ IsFiniteSet(others)
  BY <1>1, FS_Subset DEF LinkSets
<1>5. a \in LinkRec
  BY <1>2, <1>3, <1>4, WithPortIs
<1>6. b \in LinkRec
  BY <1>2, <1>3, <1>4, <1>5, WithPortIs
<1>7. c \in LinkRec
  BY <1>2, <1>3, <1>6, WithNameIs
<1>8. d \in LinkRec
  BY <1>2, <1>3, <1>7, WithNameIs
<1>9. e \in LinkRec
  <2>1. WithIp(others, d, i) \in LinkRec
    BY <1>4, <1>8, WithIpIs
  <2> QED
    BY <1>2, <1>3, <2>1
<1>10. f \in LinkRec
  <2>1. WithIp(others, e, j) \in LinkRec
    BY <1>4, <1>9, WithIpIs
  <2> QED
    BY <1>2, <1>3, <2>1
<1>11. others \cup {f} \in LinkSets
  BY <1>4, <1>10, FS_AddElement DEF LinkSets
<1>12. AssignLink(acc, l) = [links |-> others \cup {f}, ok |-> acc.ok /\ Fits(others, d)]
  BY <1>1, <1>2 DEF AssignLink
<1>13. (acc.ok /\ Fits(others, d)) \in BOOLEAN
  OBVIOUS
<1> QED
  BY <1>11, <1>12, <1>13

(* The loop over the links as a function on the links still to come. *)
LEMMA LinksAssignedIs ==
  ASSUME NEW ls, LinksOK(ls)
  PROVE  \E g : /\ AssignLinks(ls) = g[ls]
                /\ g[{}] = [links |-> ls, ok |-> TRUE]
                /\ \A s \in SUBSET ls : s # {} =>
                     g[s] = AssignLink(g[s \ {LastLink(s)}], LastLink(s))
<1> DEFINE base == [links |-> ls, ok |-> TRUE]
           T == [links : LinkSets, ok : BOOLEAN]
           iter[s \in SUBSET ls] ==
             IF s = {} THEN base
             ELSE LET x == LastLink(s) IN AssignLink(iter[s \ {x}], x)
           pick == [s \in SUBSET ls |-> LastLink(s)]
           F == [p \in ls \X T |-> AssignLink(p[2], p[1])]
           Rhs(g) == [s \in SUBSET ls |->
                        IF s = {} THEN base ELSE AssignLink(g[s \ {LastLink(s)}], LastLink(s))]
<1>1. AssignLinks(ls) = iter[ls]
  BY DEF AssignLinks, MapThenFoldSet
<1>2. IsFiniteSet(ls) /\ base \in T
  BY DEF LinksOK, LinkSets
<1>3. \A s \in SUBSET ls : s # {} => LastLink(s) \in s
  BY LastLinkIn, FewerLinks
<1>4. F \in [ls \X T -> T]
  <2>1. \A l \in ls : l \in LinkRec
    BY DEF LinksOK
  <2> QED
    BY <2>1, AssignLinkType
<1>5. Picks(ls, pick)
  BY <1>3 DEF Picks
<1>6. PICK g \in [SUBSET ls -> T] : IsFold(ls, base, pick, F, g)
  <2> HIDE DEF base, T, pick, F
  <2> QED
    BY <1>2, <1>4, <1>5, FoldExists
<1>7. g = Rhs(g)
  <2>1. ASSUME NEW s \in SUBSET ls, s # {}
        PROVE  F[<<pick[s], g[s \ {pick[s]}]>>] = AssignLink(g[s \ {LastLink(s)}], LastLink(s))
    <3>1. LastLink(s) \in ls /\ s \ {LastLink(s)} \in SUBSET ls
      BY <1>3, <2>1
    <3>2. g[s \ {LastLink(s)}] \in T
      BY <3>1
    <3>3. <<LastLink(s), g[s \ {LastLink(s)}]>> \in ls \X T
      BY <3>1, <3>2
    <3> QED
      BY <3>3
  <2> QED
    BY <1>6, <2>1 DEF IsFold
<1>8. iter = CHOOSE h : h = Rhs(h)
  BY DEF iter
<1>9. iter = Rhs(iter)
  <2> HIDE DEF iter, Rhs
  <2> QED
    BY <1>7, <1>8
<1>10. iter[{}] = base /\ \A s \in SUBSET ls : s # {} =>
         iter[s] = AssignLink(iter[s \ {LastLink(s)}], LastLink(s))
  BY <1>9
<1> HIDE DEF iter
<1> QED
  BY <1>1, <1>10

(* What auto_assignment makes of the links: it is never refused, every     *)
(* link is completed, and none is added or lost.                           *)
AllFilled(ls, ds) ==
  /\ LinksOK(ds) /\ PortsOK(ds) /\ NamesOK(ds) /\ IpsOK(ds)
  /\ \A l \in ls : \E d \in ds : Filled(l, d) /\ Full(d)
  /\ \A d \in ds : \E l \in ls : Filled(l, d) /\ Full(d)

(* auto_assignment is never refused, and completes every link. *)
LEMMA LinksAssigned ==
  ASSUME NEW ls, LinksOK(ls), PortsOK(ls), NamesOK(ls), IpsOK(ls), NoEth(ls)
  PROVE  AssignLinks(ls).ok /\ AllFilled(ls, AssignLinks(ls).links)
<1> DEFINE pick == [s \in SUBSET ls |-> LastLink(s)]
           Sound(ds) == LinksOK(ds) /\ PortsOK(ds) /\ NamesOK(ds) /\ IpsOK(ds) /\ EthOK(ds)
           Done(l, ds) == \E d \in ds : Filled(l, d) /\ Full(d)
           Part(s, ds) == /\ ls \ s \subseteq ds
                          /\ \A l \in s : Done(l, ds)
                          /\ \A d \in ds : d \in ls \ s \/ \E l \in s : Filled(l, d) /\ Full(d)
<1>1. PICK g : /\ AssignLinks(ls) = g[ls]
               /\ g[{}] = [links |-> ls, ok |-> TRUE]
               /\ \A s \in SUBSET ls : s # {} =>
                    g[s] = AssignLink(g[s \ {LastLink(s)}], LastLink(s))
  BY LinksAssignedIs
<1> DEFINE Good == {s \in SUBSET ls : /\ g[s].ok = TRUE /\ Sound(g[s].links)
                                      /\ Part(s, g[s].links)}
<1>2. \A s \in SUBSET ls : s # {} => LastLink(s) \in s
  BY LastLinkIn, FewerLinks
<1>3. {} \in Good
  <2>1. EthOK(ls)
    BY DEF NoEth, EthOK
  <2> QED
    BY <1>1, <2>1
<1>4. ASSUME NEW s \in SUBSET ls, s # {}, s \ {LastLink(s)} \in Good
      PROVE  s \in Good
  <2>1. PICK x \in s : x = LastLink(s)
    BY <1>2, <1>4
  <2>2. PICK acc, ds : acc = g[s \ {x}] /\ ds = acc.links
    OBVIOUS
  <2>3. g[s] = AssignLink(acc, x)
    BY <1>1, <1>4, <2>1, <2>2
  <2>4. acc.ok = TRUE /\ Sound(ds) /\ Part(s \ {x}, ds)
    BY <1>4, <2>1, <2>2
  <2>5. x \in ds /\ \A i \in 1..2 : ~ IsEth(x.name[i])
    BY <2>4 DEF NoEth
  <2>6. PICK d \in LinkRec :
           /\ AssignLink(acc, x) = [links |-> (ds \ {x}) \cup {d}, ok |-> acc.ok /\ TRUE]
           /\ d \notin ds \ {x} /\ Filled(x, d) /\ Full(d)
           /\ Sound((ds \ {x}) \cup {d})
    <3> HIDE DEF Part, Done
    <3> QED
      BY <2>2, <2>4, <2>5, AssignLinkFills
  <2>7. PICK es : es = (ds \ {x}) \cup {d}
    OBVIOUS
  <2>8. g[s].ok = TRUE /\ g[s].links = es /\ Sound(es)
    <3>1. g[s] = [links |-> es, ok |-> acc.ok /\ TRUE]
      BY <2>3, <2>6, <2>7
    <3>2. (acc.ok /\ TRUE) = TRUE
      BY <2>4
    <3>3. Sound(es)
      BY <2>6, <2>7
    <3>4. g[s] = [links |-> es, ok |-> TRUE]
      BY <3>1, <3>2, Zenon
    <3>5. g[s].ok = TRUE /\ g[s].links = es
      BY <3>4
    <3> QED
      BY <3>3, <3>5, Zenon
  <2>9. Part(s, es)
    <3>1. ls \ s \subseteq es
      BY <2>1, <2>4, <2>7
    <3>2. ASSUME NEW l \in s PROVE Done(l, es)
      <4>1. CASE l = x
        BY <2>6, <2>7, <4>1
      <4>2. CASE l # x
        <5>1. PICK f \in ds : Filled(l, f) /\ Full(f)
          BY <2>4, <4>2
        <5>2. f # x
          <6>1. l \in ls /\ x \in ls
            OBVIOUS
          <6>2. Ends(f) = Ends(l) /\ f.key = l.key
            BY <5>1 DEF Filled, Ends
          <6> QED
            BY <4>2, <6>1, <6>2 DEF LinksOK
        <5> QED
          BY <2>7, <5>1, <5>2
      <4> QED
        BY <4>1, <4>2
    <3>3. ASSUME NEW f \in es PROVE f \in ls \ s \/ \E l \in s : Filled(l, f) /\ Full(f)
      BY <2>1, <2>4, <2>6, <2>7
    <3> QED
      BY <3>1, <3>2, <3>3
  <2> QED
    BY <2>8, <2>9
<1> HIDE DEF Good
<1>5. Inductive(ls, pick, Good)
  BY <1>2, <1>3, <1>4 DEF Inductive
<1>6. SUBSET ls \subseteq Good
  BY <1>5, SubsetInduction DEF LinksOK
<1>7. ls \in Good
  BY <1>6
<1> QED
  BY <1>1, <1>7 DEF Good, AllFilled

-----------------------------------------------------------------------------
(* The inductive invariant.                                                *)

NodesInv == nodes \in NodeMaps /\ IdsOK(nodes) /\ BridgeIdOK(nodes) /\ ServicesOK(nodes)

LinksInv ==
  /\ LinksOK(links) /\ PortsOK(links) /\ NamesOK(links) /\ IpsOK(links)
  /\ \A l \in links : l.ends[1] \in DOMAIN nodes /\ l.ends[2] \in DOMAIN nodes

(* A link to the bridge is named after the CPU port of its switch, is the  *)
(* only one of that switch, and is there when the switch has a CPU port.   *)
CpuName(n) == <<n, "cpu-eth", 0>>
BridgeInv ==
  /\ cpu_bridge = DOMAIN nodes \cap {CpuSwitch}
  /\ CpuSwitch \in DOMAIN nodes => ~ nodes[CpuSwitch].cpu
  /\ \A l \in links : CpuSwitch \in Ends(l) =>
       l.ends[2] = CpuSwitch /\ l.name[1] = CpuName(l.ends[1]) /\ nodes[l.ends[1]].cpu
  /\ \A n \in DOMAIN nodes : nodes[n].cpu =>
       IsP4Switch(n) /\ \E l \in links : l.ends[1] = n /\ l.ends[2] = CpuSwitch

TasksInv ==
  /\ DOMAIN tasks \subseteq UserNodes /\ DOMAIN sent \subseteq Names
  /\ ~ DeletesBusy => DOMAIN tasks \subseteq DOMAIN nodes
  /\ status = "started" => \A n \in DOMAIN sent : n \in DOMAIN nodes /\ nodes[n].sched

(* Before the start auto_assignment has named nothing, after it nothing is *)
(* open.                                                                   *)
StatusInv ==
  /\ status \in {"open", "raised", "started", "startFailed"} /\ calls \in 0..MaxCalls
  /\ status = "open" => NoEth(links)
  /\ status = "started" => /\ \A l \in links : Full(l)
                           /\ \A n \in DOMAIN nodes : Numbers(nodes, n)
  /\ ~ DeletesBusy => status # "startFailed"

IInv == NodesInv /\ LinksInv /\ BridgeInv /\ TasksInv /\ StatusInv

(* The invariant holds of the description to begin with. *)
LEMMA FreshIsNode == FreshNode \in Node /\ NoIp \in Ip
<1>1. <<>> \in Seq(Int)
  OBVIOUS
<1> QED
  BY <1>1 DEF FreshNode, Node, Ip, NoIp, NoNum

(* The first link between two nodes has key 1. *)
LEMMA FirstKey ==
  ASSUME NEW a, NEW b
  PROVE  NextKey({}, a, b) = 1
<1>1. {0} \cup {l.key : l \in Between({}, a, b)} = {0}
  BY DEF Between
<1>2. {0} \in SUBSET (0..0) /\ 0 \in Nat
  OBVIOUS
<1>3. Max({0}) = 0
  BY <1>2, MaxOf
<1> QED
  BY <1>1, <1>3 DEF NextKey

(* The nodes to begin with have nothing set. *)
LEMMA InitNodes ==
  ASSUME Init
  PROVE  NodesInv /\ DOMAIN nodes = UserNodes /\ \A n \in UserNodes : nodes[n] = FreshNode
<1>1. DOMAIN nodes = UserNodes /\ \A n \in UserNodes : nodes[n] = FreshNode
  BY DEF Init, UserNodes
<1>2. nodes \in NodeMaps
  <2>1. nodes \in [UserNodes -> Node]
    BY FreshIsNode DEF Init, UserNodes
  <2>2. UserNodes \subseteq Names
    BY DEF UserNodes
  <2> QED
    BY <1>1, <2>1, <2>2, NodeMap
<1>3. IdsOK(nodes) /\ BridgeIdOK(nodes) /\ ServicesOK(nodes)
  BY <1>1 DEF IdsOK, BridgeIdOK, ServicesOK, FreshNode, NoNum, CpuDpid
<1> QED
  BY <1>1, <1>2, <1>3 DEF NodesInv

(* The links to begin with have nothing set and join nodes of the program. *)
LEMMA InitLinks ==
  ASSUME Init
  PROVE  /\ LinksInv /\ NoEth(links)
         /\ \A l \in links : l.ends[1] \in UserNodes /\ l.ends[2] \in UserNodes
<1> DEFINE f == [p \in StartLinks |-> NewLink({}, p[1], p[2], <<NoNum, NoNum>>, <<NoName, NoName>>)]
<1>1. ASSUME NEW p \in StartLinks
      PROVE  /\ f[p] \in LinkRec /\ f[p].ends = <<p[1], p[2]>> /\ f[p].key = 1
             /\ p[1] \in UserNodes /\ p[2] \in UserNodes /\ p[1] # p[2]
             /\ \A i \in 1..2 : /\ f[p].port[i] = NoNum /\ f[p].name[i] = NoName
                                /\ f[p].ip[i] = NoIp
  <2>1. p \in UserNodes \X UserNodes /\ p[1] # p[2]
    BY NetworkAPIAssumption
  <2>2. p[1] \in UserNodes /\ p[2] \in UserNodes /\ p[1] \in Names /\ p[2] \in Names
    BY <2>1 DEF UserNodes
  <2>3. PICK l : l = f[p]
    OBVIOUS
  <2>4. l = [ends |-> <<p[1], p[2]>>, key |-> 1, port |-> <<NoNum, NoNum>>,
             name |-> <<NoName, NoName>>, ip |-> <<NoIp, NoIp>>]
    BY <2>3, FirstKey DEF NewLink
  <2>5. NoNum \in PortNum /\ NoName \in IfName /\ NoIp \in Ip
    BY FreshIsNode DEF PortNum, IfName
  <2>6. l \in LinkRec
    <3> HIDE DEF IfName, PortNum, Ip
    <3> QED
      BY <2>2, <2>4, <2>5 DEF LinkRec
  <2>7. \A i \in 1..2 : i = 1 \/ i = 2
    OBVIOUS
  <2>8. l.ends = <<p[1], p[2]>> /\ l.key = 1
    BY <2>4
  <2>9. \A i \in 1..2 : l.port[i] = NoNum /\ l.name[i] = NoName /\ l.ip[i] = NoIp
    BY <2>4, <2>7
  <2> QED
    BY <2>1, <2>2, <2>3, <2>6, <2>8, <2>9
<1>2. links = {f[p] : p \in StartLinks}
  BY DEF Init
<1>3. IsFiniteSet(links)
  <2>1. IsFiniteSet(Names \X Names)
    BY NamesFinite, FS_Product
  <2>2. StartLinks \subseteq Names \X Names
    BY NetworkAPIAssumption DEF UserNodes
  <2>3. IsFiniteSet(StartLinks) /\ DOMAIN f = StartLinks
    BY <2>1, <2>2, FS_Subset
  <2> HIDE DEF f
  <2> QED
    BY <1>2, <2>3, FiniteImage
<1> HIDE DEF f
<1>4. LinksOK(links)
  <2>1. ASSUME NEW p \in StartLinks, NEW q \in StartLinks, Ends(f[p]) = Ends(f[q])
        PROVE  f[p] = f[q]
    <3>1. {p[1], p[2]} = {q[1], q[2]}
      BY <1>1, <2>1 DEF Ends
    <3> QED
      BY <3>1, NetworkAPIAssumption
  <2> QED
    BY <1>1, <1>2, <1>3, <2>1 DEF LinksOK
<1>5. \A l \in links : \A i \in 1..2 : l.port[i] = NoNum /\ l.name[i] = NoName /\ l.ip[i] = NoIp
  BY <1>1, <1>2
<1>6. PortsOK(links) /\ NamesOK(links) /\ IpsOK(links) /\ NoEth(links)
  BY <1>5 DEF PortsOK, NamesOK, IpsOK, NoEth, IsEth
<1>7. \A l \in links : l.ends[1] \in UserNodes /\ l.ends[2] \in UserNodes
  BY <1>1, <1>2
<1> QED
  BY <1>4, <1>6, <1>7, InitNodes DEF LinksInv

(* The invariant holds to begin with. *)
LEMMA InitInv ==
  ASSUME Init
  PROVE  IInv
<1>1. /\ NodesInv /\ LinksInv /\ NoEth(links) /\ DOMAIN nodes = UserNodes
      /\ \A n \in UserNodes : nodes[n] = FreshNode
      /\ \A l \in links : l.ends[1] \in UserNodes /\ l.ends[2] \in UserNodes
  BY InitNodes, InitLinks
<1>2. BridgeInv
  <2>1. CpuSwitch \notin UserNodes
    BY DEF UserNodes
  <2> QED
    BY <1>1, <2>1 DEF BridgeInv, Init, Ends, FreshNode
<1>3. TasksInv
  <2>1. DOMAIN tasks = {} /\ DOMAIN sent = {}
    BY DEF Init
  <2> QED
    BY <2>1 DEF TasksInv, Init
<1>4. StatusInv
  <2>1. 0 \in 0..MaxCalls
    BY NetworkAPIAssumption
  <2> QED
    BY <1>1, <2>1 DEF StatusInv, Init
<1> QED
  BY <1>1, <1>2, <1>3, <1>4 DEF IInv

(* The steps that change one node. *)
NodeOnly(n, r) ==
  /\ Ready /\ n \in DOMAIN nodes /\ r \in Node /\ r.cpu = nodes[n].cpu
  /\ nodes' = [nodes EXCEPT ![n] = r]
  /\ Called /\ UNCHANGED <<links, cpu_bridge, sent>>

(* A call that is accepted leaves the description open. *)
LEMMA CallCounted ==
  ASSUME IInv, Ready, Called
  PROVE  /\ status = "open" /\ status' = "open" /\ calls' \in 0..MaxCalls
         /\ NoEth(links)
BY NetworkAPIAssumption DEF IInv, StatusInv, Ready, Called

(* They keep what the invariant says of everything but the tasks. *)
LEMMA NodeOnlyKeeps ==
  ASSUME IInv, NEW n, NEW r, NodeOnly(n, r),
         IdsOK(nodes'), BridgeIdOK(nodes'), ServicesOK(nodes')
  PROVE  NodesInv' /\ LinksInv' /\ BridgeInv' /\ StatusInv' /\ DOMAIN nodes' = DOMAIN nodes
<1>1. /\ nodes' \in NodeMaps /\ DOMAIN nodes' = DOMAIN nodes /\ nodes'[n] = r
      /\ \A m \in DOMAIN nodes : m # n => nodes'[m] = nodes[m]
  BY NodeReplaced DEF IInv, NodesInv, NodeOnly
<1>2. \A m \in DOMAIN nodes : nodes'[m].cpu = nodes[m].cpu
  BY <1>1 DEF NodeOnly
<1>3. links' = links /\ cpu_bridge' = cpu_bridge /\ status = "open" /\ status' = "open"
      /\ calls' \in 0..MaxCalls /\ NoEth(links)
  BY CallCounted DEF NodeOnly
<1>4. NodesInv'
  BY <1>1 DEF NodesInv
<1>5. LinksInv'
  BY <1>1, <1>3 DEF IInv, LinksInv
<1>6. BridgeInv'
  BY <1>1, <1>2, <1>3 DEF IInv, BridgeInv, LinksInv
<1>7. StatusInv'
  BY <1>3 DEF StatusInv
<1> QED
  BY <1>1, <1>4, <1>5, <1>6, <1>7

(* A call that raises changes the status only. *)
LEMMA RaiseKeeps ==
  ASSUME IInv, Ready, Raise
  PROVE  IInv'
<1>1. /\ nodes' = nodes /\ links' = links /\ cpu_bridge' = cpu_bridge /\ tasks' = tasks
      /\ sent' = sent /\ calls' = calls /\ status' = "raised" /\ status = "open"
  BY DEF Raise, Ready
<1> QED
  BY <1>1 DEF IInv, NodesInv, LinksInv, BridgeInv, TasksInv, StatusInv

(* setP4SwitchId refuses an id that another switch has. *)
LEMMA SetP4SwitchIdKeeps ==
  ASSUME IInv, NEW s, NEW id \in UserIds, SetP4SwitchId(s, id)
  PROVE  IInv'
<1>1. CASE Raise
  BY <1>1, RaiseKeeps DEF SetP4SwitchId
<1>2. CASE ~ Raise
  <2>1. PICK r : r = [nodes[s] EXCEPT !.id = id]
    OBVIOUS
  <2>2. /\ Ready /\ s \in DOMAIN nodes /\ IsP4Switch(s)
        /\ id \notin SwitchIds([n \in DOMAIN nodes \ {s} |-> nodes[n]])
        /\ nodes' = [nodes EXCEPT ![s] = r]
        /\ Called /\ UNCHANGED <<links, cpu_bridge, tasks, sent>>
    BY <1>2, <2>1 DEF SetP4SwitchId, Set
  <2>3. id \in Int /\ id # CpuDpid /\ id # NoNum
    BY NetworkAPIAssumption DEF NoNum
  <2>4. nodes \in NodeMaps /\ nodes[s] \in Node
    BY <2>2, NodeMap DEF IInv, NodesInv
  <2>5. /\ r \in Node /\ r.id = id /\ r.thrift = nodes[s].thrift /\ r.grpc = nodes[s].grpc
        /\ r.cpu = nodes[s].cpu
    BY <2>1, <2>3, <2>4, NodeFields
  <2>6. NodeOnly(s, r)
    BY <2>2, <2>5 DEF NodeOnly
  <2>7. /\ DOMAIN nodes' = DOMAIN nodes /\ nodes'[s] = r
        /\ \A m \in DOMAIN nodes : m # s => nodes'[m] = nodes[m]
    BY <2>2, <2>4, <2>5, NodeReplaced
  <2>8. \A m \in DOMAIN nodes : m # s /\ IsSwitch(m) => nodes[m].id # id
    <3> SUFFICES ASSUME NEW m \in DOMAIN nodes, m # s, IsSwitch(m), nodes[m].id = id PROVE FALSE
      OBVIOUS
    <3>1. PICK others : others = [n \in DOMAIN nodes \ {s} |-> nodes[n]]
      OBVIOUS
    <3>2. m \in DOMAIN others /\ others[m].id = id /\ others[m].id # NoNum
      BY <2>3, <3>1
    <3>3. others[m].id \in SwitchIds(others)
      BY <3>2, SwitchIdIn
    <3> QED
      BY <2>2, <3>1, <3>2, <3>3
  <2>9. IdsOK(nodes') /\ BridgeIdOK(nodes') /\ ServicesOK(nodes')
    <3>1. IdsOK(nodes')
      BY <2>3, <2>5, <2>7, <2>8 DEF IInv, NodesInv, IdsOK
    <3>2. BridgeIdOK(nodes')
      BY <2>3, <2>5, <2>7 DEF IInv, NodesInv, BridgeIdOK
    <3>3. \A m \in DOMAIN nodes : /\ nodes'[m].thrift = nodes[m].thrift
                                  /\ nodes'[m].grpc = nodes[m].grpc
      BY <2>5, <2>7
    <3>4. ServicesOK(nodes')
      BY <2>7, <3>3 DEF IInv, NodesInv, ServicesOK
    <3> QED
      BY <3>1, <3>2, <3>4
  <2>10. TasksInv'
    BY <2>2, <2>7, CallCounted DEF IInv, TasksInv
  <2> QED
    BY <2>6, <2>9, <2>10, NodeOnlyKeeps DEF IInv
<1> QED
  BY <1>1, <1>2

(* setThriftPort, which checks nothing. *)
LEMMA SetThriftPortKeeps ==
  ASSUME IInv, NEW s, NEW p \in UserServices, SetThriftPort(s, p)
  PROVE  IInv'
<1>1. PICK r : r = [nodes[s] EXCEPT !.thrift = p]
  OBVIOUS
<1>2. /\ Ready /\ s \in DOMAIN nodes /\ (SharesPorts \/ p \notin ServicePorts(nodes))
      /\ nodes' = [nodes EXCEPT ![s] = r]
      /\ Called /\ UNCHANGED <<links, cpu_bridge, tasks, sent>>
  BY <1>1 DEF SetThriftPort, Set
<1>3. p \in Int /\ p # NoNum
  BY NetworkAPIAssumption DEF NoNum
<1>4. nodes \in NodeMaps /\ nodes[s] \in Node
  BY <1>2, NodeMap DEF IInv, NodesInv
<1>5. /\ r \in Node /\ r.id = nodes[s].id /\ r.thrift = p /\ r.grpc = nodes[s].grpc
      /\ r.cpu = nodes[s].cpu
  BY <1>1, <1>3, <1>4, NodeFields
<1>6. NodeOnly(s, r)
  BY <1>2, <1>5 DEF NodeOnly
<1>7. /\ DOMAIN nodes' = DOMAIN nodes /\ nodes'[s] = r
      /\ \A m \in DOMAIN nodes : m # s => nodes'[m] = nodes[m]
  BY <1>2, <1>4, <1>5, NodeReplaced
<1>8. ~ SharesPorts =>
        \A m \in DOMAIN nodes : nodes[m].thrift # p /\ nodes[m].grpc # p
  BY <1>2, <1>3, ServicePortIn
<1>9. IdsOK(nodes') /\ BridgeIdOK(nodes')
  <2>1. \A m \in DOMAIN nodes : nodes'[m].id = nodes[m].id
    BY <1>5, <1>7
  <2> QED
    BY <1>7, <2>1 DEF IInv, NodesInv, IdsOK, BridgeIdOK
<1>10. ServicesOK(nodes')
  BY <1>3, <1>5, <1>7, <1>8 DEF IInv, NodesInv, ServicesOK
<1>11. TasksInv'
  BY <1>2, <1>7, CallCounted DEF IInv, TasksInv
<1> QED
  BY <1>6, <1>9, <1>10, <1>11, NodeOnlyKeeps DEF IInv

(* setGrpcPort, which checks nothing either. *)
LEMMA SetGrpcPortKeeps ==
  ASSUME IInv, NEW s, NEW p \in UserServices, SetGrpcPort(s, p)
  PROVE  IInv'
<1>1. PICK r : r = [nodes[s] EXCEPT !.grpc = p]
  OBVIOUS
<1>2. /\ Ready /\ s \in DOMAIN nodes /\ (SharesPorts \/ p \notin ServicePorts(nodes))
      /\ nodes' = [nodes EXCEPT ![s] = r]
      /\ Called /\ UNCHANGED <<links, cpu_bridge, tasks, sent>>
  BY <1>1 DEF SetGrpcPort, Set
<1>3. p \in Int /\ p # NoNum
  BY NetworkAPIAssumption DEF NoNum
<1>4. nodes \in NodeMaps /\ nodes[s] \in Node
  BY <1>2, NodeMap DEF IInv, NodesInv
<1>5. /\ r \in Node /\ r.id = nodes[s].id /\ r.thrift = nodes[s].thrift /\ r.grpc = p
      /\ r.cpu = nodes[s].cpu
  BY <1>1, <1>3, <1>4, NodeFields
<1>6. NodeOnly(s, r)
  BY <1>2, <1>5 DEF NodeOnly
<1>7. /\ DOMAIN nodes' = DOMAIN nodes /\ nodes'[s] = r
      /\ \A m \in DOMAIN nodes : m # s => nodes'[m] = nodes[m]
  BY <1>2, <1>4, <1>5, NodeReplaced
<1>8. ~ SharesPorts =>
        \A m \in DOMAIN nodes : nodes[m].thrift # p /\ nodes[m].grpc # p
  BY <1>2, <1>3, ServicePortIn
<1>9. IdsOK(nodes') /\ BridgeIdOK(nodes')
  <2>1. \A m \in DOMAIN nodes : nodes'[m].id = nodes[m].id
    BY <1>5, <1>7
  <2> QED
    BY <1>7, <2>1 DEF IInv, NodesInv, IdsOK, BridgeIdOK
<1>10. ServicesOK(nodes')
  BY <1>3, <1>5, <1>7, <1>8 DEF IInv, NodesInv, ServicesOK
<1>11. TasksInv'
  BY <1>2, <1>7, CallCounted DEF IInv, TasksInv
<1> QED
  BY <1>6, <1>9, <1>10, <1>11, NodeOnlyKeeps DEF IInv

(* A node whose scheduler is switched on or off. *)
LEMMA SchedSet ==
  ASSUME IInv, NEW n \in DOMAIN nodes, NEW on \in BOOLEAN, Set(n, "sched", on),
         Ready, Called, UNCHANGED <<links, cpu_bridge, sent>>
  PROVE  NodesInv' /\ LinksInv' /\ BridgeInv' /\ StatusInv' /\ DOMAIN nodes' = DOMAIN nodes
<1>1. PICK r : r = [nodes[n] EXCEPT !.sched = on]
  OBVIOUS
<1>2. nodes' = [nodes EXCEPT ![n] = r]
  BY <1>1 DEF Set
<1>3. nodes \in NodeMaps /\ nodes[n] \in Node
  BY NodeMap DEF IInv, NodesInv
<1>4. /\ r \in Node /\ r.id = nodes[n].id /\ r.thrift = nodes[n].thrift
      /\ r.grpc = nodes[n].grpc /\ r.cpu = nodes[n].cpu
  BY <1>1, <1>3 DEF Node
<1>5. /\ DOMAIN nodes' = DOMAIN nodes /\ nodes'[n] = r
      /\ \A m \in DOMAIN nodes : m # n => nodes'[m] = nodes[m]
  BY <1>2, <1>3, <1>4, NodeReplaced
<1>6. \A m \in DOMAIN nodes : /\ nodes'[m].id = nodes[m].id /\ nodes'[m].thrift = nodes[m].thrift
                              /\ nodes'[m].grpc = nodes[m].grpc
  BY <1>4, <1>5
<1>7. IdsOK(nodes') /\ BridgeIdOK(nodes') /\ ServicesOK(nodes')
  BY <1>5, <1>6 DEF IInv, NodesInv, IdsOK, BridgeIdOK, ServicesOK
<1>8. NodeOnly(n, r)
  BY <1>2, <1>4 DEF NodeOnly
<1> QED
  BY <1>7, <1>8, NodeOnlyKeeps

(* enableScheduler and disableScheduler. *)
LEMMA SetSchedulerKeeps ==
  ASSUME IInv, NEW n, NEW on \in BOOLEAN, SetScheduler(n, on)
  PROVE  IInv'
<1>1. /\ n \in DOMAIN nodes /\ Set(n, "sched", on)
      /\ Ready /\ Called /\ UNCHANGED <<links, cpu_bridge, tasks, sent>>
  BY DEF SetScheduler
<1>2. NodesInv' /\ LinksInv' /\ BridgeInv' /\ StatusInv' /\ DOMAIN nodes' = DOMAIN nodes
  BY <1>1, SchedSet
<1>3. TasksInv'
  BY <1>1, <1>2, CallCounted DEF IInv, TasksInv
<1> QED
  BY <1>2, <1>3 DEF IInv

(* addTask, whose node is one of the program. *)
LEMMA AddTaskKeeps ==
  ASSUME IInv, NEW n \in UserNodes, NEW on \in BOOLEAN, AddTask(n, on)
  PROVE  IInv'
<1>1. CASE Raise
  BY <1>1, RaiseKeeps DEF AddTask
<1>2. CASE ~ Raise
  <2>1. /\ n \in DOMAIN nodes /\ Set(n, "sched", TRUE) /\ Ready /\ Called
        /\ tasks' = Put(tasks, n, IF n \in DOMAIN tasks THEN tasks[n] + 1 ELSE 1)
        /\ UNCHANGED <<links, cpu_bridge, sent>>
    BY <1>2 DEF AddTask
  <2>2. NodesInv' /\ LinksInv' /\ BridgeInv' /\ StatusInv' /\ DOMAIN nodes' = DOMAIN nodes
    BY <2>1, SchedSet
  <2>3. DOMAIN tasks' = {n} \cup DOMAIN tasks
    BY <2>1 DEF Put
  <2>4. TasksInv'
    BY <2>1, <2>2, <2>3, CallCounted DEF IInv, TasksInv
  <2> QED
    BY <2>2, <2>4 DEF IInv
<1> QED
  BY <1>1, <1>2

(* addNode adds a node with nothing set. *)
LEMMA AddNodeKeeps ==
  ASSUME IInv, NEW n \in UserNodes, AddNode(n)
  PROVE  IInv'
<1>1. /\ n \notin DOMAIN nodes /\ nodes' = Put(nodes, n, FreshNode) /\ Ready /\ Called
      /\ UNCHANGED <<links, cpu_bridge, tasks, sent>> /\ n \in Names /\ n # CpuSwitch
  BY DEF AddNode, UserNodes
<1>2. /\ DOMAIN nodes' = {n} \cup DOMAIN nodes /\ nodes'[n] = FreshNode
      /\ \A m \in DOMAIN nodes : nodes'[m] = nodes[m]
  BY <1>1 DEF Put
<1>3. nodes' \in NodeMaps
  <2>1. nodes \in [DOMAIN nodes -> Node] /\ DOMAIN nodes \subseteq Names
    BY NodeMap DEF IInv, NodesInv
  <2>2. nodes' = [m \in DOMAIN nodes' |-> nodes'[m]]
    BY <1>1 DEF Put
  <2>3. \A m \in DOMAIN nodes' : nodes'[m] \in Node
    BY <1>2, <2>1, FreshIsNode
  <2>4. nodes' \in [DOMAIN nodes' -> Node]
    BY <2>2, <2>3
  <2> QED
    BY <1>1, <1>2, <2>1, <2>4, NodeMap
<1>4. IdsOK(nodes') /\ BridgeIdOK(nodes') /\ ServicesOK(nodes')
  <2>1. FreshNode.id = NoNum /\ FreshNode.thrift = NoNum /\ FreshNode.grpc = NoNum
    BY DEF FreshNode
  <2>2. IdsOK(nodes')
    BY <1>2, <2>1 DEF IInv, NodesInv, IdsOK
  <2>3. BridgeIdOK(nodes')
    BY <1>2, <2>1 DEF IInv, NodesInv, BridgeIdOK, NoNum, CpuDpid
  <2>4. ServicesOK(nodes')
    BY <1>2, <2>1 DEF IInv, NodesInv, ServicesOK
  <2> QED
    BY <2>2, <2>3, <2>4
<1>5. LinksInv'
  BY <1>1, <1>2 DEF IInv, LinksInv
<1>6. BridgeInv'
  <2>1. ~ FreshNode.cpu
    BY DEF FreshNode
  <2> QED
    BY <1>1, <1>2, <2>1 DEF IInv, BridgeInv, LinksInv
<1>7. TasksInv'
  BY <1>1, <1>2, CallCounted DEF IInv, TasksInv
<1>8. StatusInv'
  BY <1>1, CallCounted DEF StatusInv
<1> QED
  BY <1>3, <1>4, <1>5, <1>6, <1>7, <1>8 DEF IInv, NodesInv

(* The steps that change the links. *)
LEMMA NextKeyIs ==
  ASSUME NEW ls, LinksOK(ls), NEW a, NEW b
  PROVE  NextKey(ls, a, b) \in Nat /\ \A l \in Between(ls, a, b) : l.key < NextKey(ls, a, b)
<1> DEFINE B == Between(ls, a, b)
           K == [l \in B |-> l.key]
           keys == {0} \cup {l.key : l \in B}
<1>1. IsFiniteSet(B) /\ \A l \in B : l.key \in Nat
  BY FS_Subset, LinkTypes DEF LinksOK, Between, LinkRec
<1>2. PICK c \in Nat : \A l \in B : K[l] <= c
  <2>1. K \in [B -> Nat]
    BY <1>1
  <2> HIDE DEF B, K
  <2> QED
    BY <1>1, <2>1, FiniteBound
<1>3. \A x \in keys : x \in 0..c
  BY <1>1, <1>2
<1>4. Max(keys) \in keys /\ \A x \in keys : x <= Max(keys)
  <2>1. keys \in SUBSET (0..c) /\ keys # {}
    BY <1>3
  <2> HIDE DEF keys
  <2> QED
    BY <2>1, MaxOf
<1>5. PICK m \in Nat : m = Max(keys)
  <2> HIDE DEF keys
  <2>1. \A x \in 0..c : x \in Nat
    OBVIOUS
  <2>2. \A x \in keys : x \in Nat
    BY <1>3, <2>1
  <2> QED
    BY <1>4, <2>2
<1>6. \A l \in B : l.key \in Nat /\ l.key <= m
  BY <1>1, <1>4, <1>5
<1>7. NextKey(ls, a, b) = 1 + m
  BY <1>5 DEF NextKey
<1> HIDE DEF B
<1>8. \A l \in B : l.key < 1 + m
  BY <1>6
<1> QED
  BY <1>7, <1>8 DEF B

(* What addLink makes of its arguments: a link with a key of its own. *)
LEMMA NewLinkIs ==
  ASSUME NEW ls, LinksOK(ls), NEW a \in Names, NEW b \in Names,
         NEW ports \in PortNum \X PortNum, NEW names \in IfName \X IfName
  PROVE  LET l == NewLink(ls, a, b, ports, names)
         IN  /\ l \in LinkRec /\ l.ends[1] = a /\ l.ends[2] = b
             /\ l.port = ports /\ l.name = names
             /\ \A i \in 1..2 : l.ip[i] = NoIp
             /\ \A m \in ls : Ends(m) = Ends(l) => m.key < l.key
<1>1. PICK k \in Nat : k = NextKey(ls, a, b)
  BY NextKeyIs
<1>2. PICK l : l = NewLink(ls, a, b, ports, names)
  OBVIOUS
<1>3. l = [ends |-> <<a, b>>, key |-> k, port |-> ports, name |-> names, ip |-> <<NoIp, NoIp>>]
  BY <1>1, <1>2 DEF NewLink
<1>4. l \in LinkRec
  <2>1. <<NoIp, NoIp>> \in Ip \X Ip
    BY FreshIsNode
  <2>2. <<a, b>> \in Names \X Names
    OBVIOUS
  <2> HIDE DEF IfName, PortNum, Ip
  <2> QED
    BY <1>3, <2>1, <2>2 DEF LinkRec
<1>5. /\ l.ends[1] = a /\ l.ends[2] = b /\ l.port = ports /\ l.name = names /\ l.key = k
  BY <1>3
<1>6. \A i \in 1..2 : l.ip[i] = NoIp
  <2>1. \A i \in 1..2 : i = 1 \/ i = 2
    OBVIOUS
  <2> QED
    BY <1>3, <2>1
<1>7. ASSUME NEW m \in ls, Ends(m) = Ends(l) PROVE m.key < l.key
  <2>1. m \in Between(ls, a, b)
    BY <1>5, <1>7 DEF Ends, Between
  <2> QED
    BY <1>1, <1>5, <2>1, NextKeyIs
<1> QED
  BY <1>2, <1>4, <1>5, <1>6, <1>7

(* A link that fits keeps all that holds of the links. *)
LEMMA LinkAdded ==
  ASSUME LinksInv, NEW l \in LinkRec, l.ends[1] # l.ends[2], Fits(links, l),
         \A i \in 1..2 : l.ip[i] = NoIp,
         \A m \in links : Ends(m) = Ends(l) => m.key < l.key
  PROVE  /\ LinksOK(links \cup {l}) /\ PortsOK(links \cup {l})
         /\ NamesOK(links \cup {l}) /\ IpsOK(links \cup {l})
<1>1. LinksOK(links) /\ PortsOK(links) /\ NamesOK(links) /\ IpsOK(links)
  BY DEF LinksInv
<1>2. LinksOK(links \cup {l})
  <2>1. IsFiniteSet(links \cup {l})
    BY <1>1, FS_AddElement DEF LinksOK
  <2>2. \A m \in links : Ends(m) = Ends(l) => m.key # l.key
    <3>1. \A m \in links : m.key \in Nat
      BY <1>1 DEF LinksOK, LinkRec
    <3>2. l.key \in Nat
      BY DEF LinkRec
    <3> QED
      BY <3>1, <3>2
  <2> QED
    BY <1>1, <2>1, <2>2 DEF LinksOK
<1>3. IpsOK(links \cup {l})
  BY <1>1 DEF IpsOK
<1> QED
  BY <1>1, <1>2, <1>3, FitsKeeps

(* A link fits the others. *)
LEMMA SelfFits ==
  ASSUME NEW ls, LinksOK(ls), PortsOK(ls), NamesOK(ls), NEW l \in ls
  PROVE  Fits(ls \ {l}, l)
<1>1. PICK others : others = ls \ {l}
  OBVIOUS
<1>2. LinksOK(others)
  BY <1>1, FewerLinks
<1>3. ASSUME NEW i \in 1..2
      PROVE  /\ l.port[i] \notin PortsOf(others, l.ends[i])
             /\ l.name[i] \notin IntfsOf(others, l.ends[i])
  <2>1. l.port[i] \notin PortsOf(others, l.ends[i])
    <3> SUFFICES ASSUME l.port[i] \in PortsOf(others, l.ends[i]) PROVE FALSE
      OBVIOUS
    <3>1. PICK m \in others, j \in 1..2 : m.ends[j] = l.ends[i] /\ m.port[j] = l.port[i]
      BY <1>2, PortsAre
    <3>2. l.port[i] # NoNum
      BY <1>2, PortsAre
    <3> QED
      BY <1>1, <3>1, <3>2 DEF PortsOK
  <2>2. l.name[i] \notin IntfsOf(others, l.ends[i])
    <3> SUFFICES ASSUME l.name[i] \in IntfsOf(others, l.ends[i]) PROVE FALSE
      OBVIOUS
    <3>1. PICK m \in others, j \in 1..2 : m.ends[j] = l.ends[i] /\ m.name[j] = l.name[i]
      BY <1>2, IntfsAre
    <3>2. l.name[i] # NoName
      BY <1>2, IntfsAre
    <3> QED
      BY <1>1, <3>1, <3>2 DEF NamesOK
  <2> QED
    BY <2>1, <2>2
<1> QED
  BY <1>1, <1>3 DEF Fits

(* Fewer links have fewer ports and names. *)
LEMMA PortsMono ==
  ASSUME NEW ls, NEW ks \in SUBSET ls, NEW n
  PROVE  PortsOf(ks, n) \subseteq PortsOf(ls, n) /\ IntfsOf(ks, n) \subseteq IntfsOf(ls, n)
BY DEF PortsOf, IntfsOf, At

(* A link one of whose interfaces gets another port or name. *)
LEMMA Rewired ==
  ASSUME LinksInv, NEW l \in links, NEW d \in LinkRec, d.ends = l.ends, d.key = l.key,
         d.ip = l.ip, Fits(links \ {l}, d)
  PROVE  LET ds == (links \ {l}) \cup {d}
         IN  LinksOK(ds) /\ PortsOK(ds) /\ NamesOK(ds) /\ IpsOK(ds)
<1>1. PICK others : others = links \ {l}
  OBVIOUS
<1>2. /\ LinksOK(others) /\ PortsOK(others) /\ NamesOK(others)
  BY <1>1, FewerLinks DEF LinksInv
<1>3. LinksOK(others \cup {d})
  BY <1>1, LinkReplaced DEF LinksInv
<1>4. d.ends[1] # d.ends[2]
  BY DEF LinksInv, LinksOK
<1>5. PortsOK(others \cup {d}) /\ NamesOK(others \cup {d})
  BY <1>1, <1>2, <1>4, FitsKeeps
<1>6. IpsOK(others \cup {d})
  <2>1. \A m \in others : m \in links /\ m # l
    BY <1>1
  <2>2. IpsOK(links)
    BY DEF LinksInv
  <2> SUFFICES ASSUME NEW m \in others \cup {d}, NEW o \in others \cup {d},
                      NEW k \in 1..2, NEW j \in 1..2,
                      IsHost(m.ends[k]), IsHost(o.ends[j]), m.ip[k] # NoIp,
                      m # o \/ k # j, m.ip[k] = o.ip[j]
               PROVE  FALSE
    BY DEF IpsOK
  <2>3. CASE m \in others /\ o \in others
    BY <2>1, <2>2, <2>3 DEF IpsOK
  <2>4. CASE m \in others /\ o = d
    BY <2>1, <2>2, <2>4 DEF IpsOK
  <2>5. CASE m = d /\ o \in others
    BY <2>1, <2>2, <2>5 DEF IpsOK
  <2>6. CASE m = d /\ o = d
    BY <2>2, <2>6 DEF IpsOK
  <2> QED
    BY <2>3, <2>4, <2>5, <2>6
<1> QED
  BY <1>1, <1>3, <1>5, <1>6

(* getLink finds a link between the two nodes, the one with the lowest     *)
(* key.                                                                    *)
LEMMA LinkIs ==
  ASSUME NEW ls, LinksOK(ls), NEW a, NEW b, Between(ls, a, b) # {}
  PROVE  /\ Link(ls, a, b) \in ls /\ Ends(Link(ls, a, b)) = {a, b} /\ a # b
         /\ \A m \in Between(ls, a, b) : Link(ls, a, b).key <= m.key
<1> DEFINE B == Between(ls, a, b)
           keys == {l.key : l \in B}
<1>1. \A l \in B : l \in ls /\ Ends(l) = {a, b} /\ l.key \in Nat
  BY DEF Between, LinksOK, LinkRec
<1>2. keys \in SUBSET Nat /\ keys # {}
  BY <1>1
<1>3. PICK k \in keys : \A x \in keys : k <= x
  <2> HIDE DEF keys
  <2> QED
    BY <1>2, LowestNat
<1>4. \E l \in B : \A m \in B : l.key <= m.key
  BY <1>3
<1>5. PICK l : l = Link(ls, a, b)
  OBVIOUS
<1>6. l \in B /\ \A m \in B : l.key <= m.key
  BY <1>4, <1>5 DEF Link
<1>7. a # b
  <2>1. l.ends[1] # l.ends[2] /\ {l.ends[1], l.ends[2]} = {a, b}
    BY <1>1, <1>6 DEF LinksOK, Ends
  <2> QED
    BY <2>1
<1> QED
  BY <1>1, <1>5, <1>6, <1>7

(* What updateLink does to one end of a link. *)
LEMMA EndPortSet ==
  ASSUME NEW l \in LinkRec, NEW n, NEW x \in PortNum
  PROVE  LET d == SetEnd(l, n, "port", x)
         IN  /\ d \in LinkRec /\ d.ends = l.ends /\ d.key = l.key /\ d.name = l.name
             /\ d.ip = l.ip /\ d.port[End(l, n)] = x
             /\ \A j \in 1..2 : j # End(l, n) => d.port[j] = l.port[j]
<1>1. PICK i \in 1..2 : i = End(l, n)
  BY DEF End
<1>2. PICK d : d = [l EXCEPT !.port[i] = x]
  OBVIOUS
<1>3. /\ d \in LinkRec /\ d.ends = l.ends /\ d.key = l.key /\ d.name = l.name
      /\ d.ip = l.ip /\ d.port[i] = x /\ \A j \in 1..2 : j # i => d.port[j] = l.port[j]
  BY <1>2, PortChanged
<1>4. SetEnd(l, n, "port", x) = d
  BY <1>1, <1>2 DEF SetEnd
<1> QED
  BY <1>1, <1>3, <1>4

(* The same of a name. *)
LEMMA EndNameSet ==
  ASSUME NEW l \in LinkRec, NEW n, NEW x \in IfName
  PROVE  LET d == SetEnd(l, n, "name", x)
         IN  /\ d \in LinkRec /\ d.ends = l.ends /\ d.key = l.key /\ d.port = l.port
             /\ d.ip = l.ip /\ d.name[End(l, n)] = x
             /\ \A j \in 1..2 : j # End(l, n) => d.name[j] = l.name[j]
<1>1. PICK i \in 1..2 : i = End(l, n)
  BY DEF End
<1>2. PICK d : d = [l EXCEPT !.name[i] = x]
  OBVIOUS
<1>3. /\ d \in LinkRec /\ d.ends = l.ends /\ d.key = l.key /\ d.port = l.port
      /\ d.ip = l.ip /\ d.name[i] = x /\ \A j \in 1..2 : j # i => d.name[j] = l.name[j]
  BY <1>2, NameChanged
<1>4. SetEnd(l, n, "name", x) = d
  BY <1>1, <1>2 DEF SetEnd
<1> QED
  BY <1>1, <1>3, <1>4

(* The same of an address. *)
LEMMA EndIpSet ==
  ASSUME NEW l \in LinkRec, NEW n, NEW x \in Ip
  PROVE  LET d == SetEnd(l, n, "ip", x)
         IN  /\ d \in LinkRec /\ d.ends = l.ends /\ d.key = l.key /\ d.port = l.port
             /\ d.name = l.name /\ d.ip[End(l, n)] = x
             /\ \A j \in 1..2 : j # End(l, n) => d.ip[j] = l.ip[j]
<1>1. PICK i \in 1..2 : i = End(l, n)
  BY DEF End
<1>2. PICK d : d = [l EXCEPT !.ip[i] = x]
  OBVIOUS
<1>3. /\ d \in LinkRec /\ d.ends = l.ends /\ d.key = l.key /\ d.port = l.port
      /\ d.name = l.name /\ d.ip[i] = x /\ \A j \in 1..2 : j # i => d.ip[j] = l.ip[j]
  BY <1>2, IpChanged
<1>4. SetEnd(l, n, "ip", x) = d
  BY <1>1, <1>2 DEF SetEnd
<1> QED
  BY <1>1, <1>3, <1>4

(* Links between the program's nodes come, go and change; those to the     *)
(* bridge stay.                                                            *)
LEMMA LinkStepKeeps ==
  ASSUME IInv, Ready, Called, UNCHANGED <<nodes, cpu_bridge, tasks, sent>>,
         NEW ds, links' = ds,
         LinksOK(ds), PortsOK(ds), NamesOK(ds), IpsOK(ds), NoEth(ds),
         \A d \in ds : \/ d \in links
                       \/ /\ d.ends[1] \in DOMAIN nodes /\ d.ends[2] \in DOMAIN nodes
                          /\ CpuSwitch \notin Ends(d),
         \A l \in links : CpuSwitch \in Ends(l) => l \in ds
  PROVE  IInv'
<1>1. NodesInv'
  BY DEF IInv, NodesInv
<1>2. LinksInv'
  BY DEF IInv, LinksInv
<1>3. BridgeInv'
  <2>1. \A l : l.ends[2] = CpuSwitch => CpuSwitch \in Ends(l)
    BY DEF Ends
  <2> QED
    BY <2>1 DEF IInv, BridgeInv
<1>4. TasksInv'
  BY CallCounted DEF IInv, TasksInv
<1>5. StatusInv'
  BY CallCounted DEF StatusInv
<1> QED
  BY <1>1, <1>2, <1>3, <1>4, <1>5 DEF IInv

(* addLink refuses a port or a name that is taken. *)
LEMMA AddLinkKeeps ==
  ASSUME IInv, NEW pair \in Pairs,
         NEW ports \in (UserPorts \cup {NoNum}) \X (UserPorts \cup {NoNum}),
         AddLink(pair[1], pair[2], ports)
  PROVE  IInv'
<1>1. CASE Raise
  BY <1>1, RaiseKeeps DEF AddLink
<1>2. CASE ~ Raise
  <2>1. PICK a, b, l : /\ a = pair[1] /\ b = pair[2]
                       /\ l = NewLink(links, a, b, ports, <<NoName, NoName>>)
    OBVIOUS
  <2>2. /\ a \in DOMAIN nodes /\ b \in DOMAIN nodes /\ Fits(links, l) /\ links' = links \cup {l}
        /\ Ready /\ Called /\ UNCHANGED <<nodes, cpu_bridge, tasks, sent>>
    BY <1>2, <2>1 DEF AddLink
  <2>3. pair \in UserNodes \X UserNodes /\ a # b
    BY <2>1, NetworkAPIAssumption
  <2>4. a \in UserNodes /\ b \in UserNodes /\ a \in Names /\ b \in Names
    BY <2>1, <2>3 DEF UserNodes
  <2>5. ports \in PortNum \X PortNum
    BY NetworkAPIAssumption DEF PortNum
  <2>6. <<NoName, NoName>> \in IfName \X IfName
    BY DEF IfName
  <2>7. /\ l \in LinkRec /\ l.ends[1] = a /\ l.ends[2] = b /\ l.name = <<NoName, NoName>>
        /\ \A i \in 1..2 : l.ip[i] = NoIp
        /\ \A m \in links : Ends(m) = Ends(l) => m.key < l.key
    BY <2>1, <2>4, <2>5, <2>6, NewLinkIs DEF IInv, LinksInv
  <2>8. /\ LinksOK(links \cup {l}) /\ PortsOK(links \cup {l})
        /\ NamesOK(links \cup {l}) /\ IpsOK(links \cup {l})
    BY <2>2, <2>3, <2>7, LinkAdded DEF IInv
  <2>9. NoEth(links \cup {l})
    <3>1. \A i \in 1..2 : l.name[i] = NoName
      BY <2>7
    <3> QED
      BY <2>2, <3>1, CallCounted DEF NoEth, IsEth
  <2>10. CpuSwitch \notin Ends(l)
    BY <2>4, <2>7 DEF Ends, UserNodes
  <2> QED
    BY <2>2, <2>7, <2>8, <2>9, <2>10, LinkStepKeeps
<1> QED
  BY <1>1, <1>2

(* deleteLink removes one link between nodes of the program. *)
LEMMA DeleteLinkKeeps ==
  ASSUME IInv, NEW a \in UserNodes, NEW b \in UserNodes, DeleteLink(a, b)
  PROVE  IInv'
<1>1. /\ Between(links, a, b) # {} /\ links' = links \ {Link(links, a, b)}
      /\ Ready /\ Called /\ UNCHANGED <<nodes, cpu_bridge, tasks, sent>>
  BY DEF DeleteLink
<1>2. PICK l, ds : l = Link(links, a, b) /\ ds = links \ {l}
  OBVIOUS
<1>3. l \in links /\ Ends(l) = {a, b}
  BY <1>1, <1>2, LinkIs DEF IInv, LinksInv
<1>4. LinksOK(ds) /\ PortsOK(ds) /\ NamesOK(ds) /\ IpsOK(ds) /\ NoEth(ds)
  BY <1>1, <1>2, FewerLinks, CallCounted DEF IInv, LinksInv
<1>5. CpuSwitch \notin Ends(l)
  BY <1>3 DEF UserNodes
<1> QED
  BY <1>1, <1>2, <1>4, <1>5, LinkStepKeeps

(* The link that setIntfPort or setIntfName has changed. *)
LEMMA RewiredKeeps ==
  ASSUME IInv, Ready, Called, UNCHANGED <<nodes, cpu_bridge, tasks, sent>>,
         NEW l \in links, CpuSwitch \notin Ends(l),
         NEW d \in LinkRec, d.ends = l.ends, d.key = l.key, d.ip = l.ip,
         Fits(links \ {l}, d), Replace(l, d), \A i \in 1..2 : ~ IsEth(d.name[i])
  PROVE  IInv'
<1>1. PICK ds : ds = (links \ {l}) \cup {d}
  OBVIOUS
<1>2. LinksOK(ds) /\ PortsOK(ds) /\ NamesOK(ds) /\ IpsOK(ds)
  BY <1>1, Rewired DEF IInv
<1>3. NoEth(ds)
  BY <1>1, CallCounted DEF NoEth
<1>4. d.ends[1] \in DOMAIN nodes /\ d.ends[2] \in DOMAIN nodes /\ CpuSwitch \notin Ends(d)
  BY DEF IInv, LinksInv, Ends
<1> QED
  BY <1>1, <1>2, <1>3, <1>4, LinkStepKeeps DEF Replace

(* setIntfPort refuses a port that its node has in use. *)
LEMMA SetIntfPortKeeps ==
  ASSUME IInv, NEW a \in UserNodes, NEW b \in UserNodes, NEW port \in UserPorts,
         SetIntfPort(a, b, port)
  PROVE  IInv'
<1>1. CASE Raise
  BY <1>1, RaiseKeeps DEF SetIntfPort
<1>2. CASE ~ Raise
  <2>1. PICK l, d : l = Link(links, a, b) /\ d = SetEnd(l, a, "port", port)
    OBVIOUS
  <2>2. /\ Between(links, a, b) # {} /\ port \notin PortsOf(links, a) /\ Replace(l, d)
        /\ Ready /\ Called /\ UNCHANGED <<nodes, cpu_bridge, tasks, sent>>
    BY <1>2, <2>1 DEF SetIntfPort
  <2>3. LinksOK(links) /\ PortsOK(links) /\ NamesOK(links)
    BY DEF IInv, LinksInv
  <2>4. l \in links /\ Ends(l) = {a, b} /\ CpuSwitch \notin Ends(l) /\ l \in LinkRec
    BY <2>1, <2>2, <2>3, LinkIs DEF UserNodes, LinksOK
  <2>5. port \in PortNum
    BY NetworkAPIAssumption DEF PortNum
  <2>6. PICK i \in 1..2 : i = End(l, a) /\ l.ends[i] = a
    BY <2>3, <2>4, EndIs DEF LinksOK
  <2>7. /\ d \in LinkRec /\ d.ends = l.ends /\ d.key = l.key /\ d.name = l.name
        /\ d.ip = l.ip /\ d.port[i] = port
        /\ \A j \in 1..2 : j # i => d.port[j] = l.port[j]
    BY <2>1, <2>4, <2>5, <2>6, EndPortSet
  <2>8. Fits(links \ {l}, l)
    BY <2>3, <2>4, SelfFits
  <2>9. port \notin PortsOf(links \ {l}, a)
    BY <2>2, PortsMono
  <2>10. Fits(links \ {l}, d)
    BY <2>6, <2>7, <2>8, <2>9 DEF Fits
  <2>11. \A j \in 1..2 : ~ IsEth(d.name[j])
    BY <2>2, <2>4, <2>7, CallCounted DEF NoEth
  <2> QED
    BY <2>2, <2>4, <2>7, <2>10, <2>11, RewiredKeeps
<1> QED
  BY <1>1, <1>2

(* setIntfName refuses a name that its node has in use. *)
LEMMA SetIntfNameKeeps ==
  ASSUME IInv, NEW a \in UserNodes, NEW b \in UserNodes, SetIntfName(a, b, UserName(a))
  PROVE  IInv'
<1>1. CASE Raise
  BY <1>1, RaiseKeeps DEF SetIntfName
<1>2. CASE ~ Raise
  <2>1. PICK l, name, d : /\ l = Link(links, a, b) /\ name = UserName(a)
                          /\ d = SetEnd(l, a, "name", name)
    OBVIOUS
  <2>2. /\ Between(links, a, b) # {} /\ name \notin IntfsOf(links, a) /\ Replace(l, d)
        /\ Ready /\ Called /\ UNCHANGED <<nodes, cpu_bridge, tasks, sent>>
    BY <1>2, <2>1 DEF SetIntfName
  <2>3. LinksOK(links) /\ PortsOK(links) /\ NamesOK(links)
    BY DEF IInv, LinksInv
  <2>4. l \in links /\ Ends(l) = {a, b} /\ CpuSwitch \notin Ends(l) /\ l \in LinkRec
    BY <2>1, <2>2, <2>3, LinkIs DEF UserNodes, LinksOK
  <2>5. name \in IfName /\ ~ IsEth(name)
    <3>1. PICK t \in Tags : t = "user"
      BY DEF Tags
    <3>2. a \in Names /\ 0 \in Int
      BY DEF UserNodes
    <3>3. <<a, t, 0>> \in IfName /\ (IsEth(<<a, t, 0>>) <=> t = "eth")
      BY <3>2, NameIs
    <3> QED
      BY <2>1, <3>1, <3>3 DEF UserName
  <2>6. PICK i \in 1..2 : i = End(l, a) /\ l.ends[i] = a
    BY <2>3, <2>4, EndIs DEF LinksOK
  <2>7. /\ d \in LinkRec /\ d.ends = l.ends /\ d.key = l.key /\ d.port = l.port
        /\ d.ip = l.ip /\ d.name[i] = name
        /\ \A j \in 1..2 : j # i => d.name[j] = l.name[j]
    BY <2>1, <2>4, <2>5, <2>6, EndNameSet
  <2>8. Fits(links \ {l}, l)
    BY <2>3, <2>4, SelfFits
  <2>9. name \notin IntfsOf(links \ {l}, a)
    BY <2>2, PortsMono
  <2>10. Fits(links \ {l}, d)
    BY <2>6, <2>7, <2>8, <2>9 DEF Fits
  <2>11. \A j \in 1..2 : ~ IsEth(d.name[j])
    BY <2>2, <2>4, <2>5, <2>7, CallCounted DEF NoEth
  <2> QED
    BY <2>2, <2>4, <2>7, <2>10, <2>11, RewiredKeeps
<1> QED
  BY <1>1, <1>2

(* The steps that add or remove nodes and their links together. *)
LEMMA FewerNodes ==
  ASSUME NEW ns \in NodeMaps, NEW D \in SUBSET DOMAIN ns
  PROVE  LET ms == [m \in D |-> ns[m]]
         IN  /\ ms \in NodeMaps /\ (IdsOK(ns) => IdsOK(ms))
             /\ (BridgeIdOK(ns) => BridgeIdOK(ms)) /\ (ServicesOK(ns) => ServicesOK(ms))
<1>1. PICK ms : ms = [m \in D |-> ns[m]]
  OBVIOUS
<1>2. DOMAIN ms = D /\ (\A m \in D : ms[m] = ns[m]) /\ D \subseteq DOMAIN ns
  BY <1>1
<1>3. ms \in NodeMaps
  <2>1. ns \in [DOMAIN ns -> Node] /\ DOMAIN ns \subseteq Names
    BY NodeMap
  <2>2. ms \in [D -> Node]
    BY <1>1, <2>1
  <2> QED
    BY <1>2, <2>1, <2>2, NodeMap
<1>4. (IdsOK(ns) => IdsOK(ms)) /\ (BridgeIdOK(ns) => BridgeIdOK(ms))
  BY <1>2 DEF IdsOK, BridgeIdOK
<1>5. ServicesOK(ns) => ServicesOK(ms)
  BY <1>2 DEF ServicesOK
<1> QED
  BY <1>1, <1>3, <1>4, <1>5

(* deleteNode removes a node and its links with it. *)
LEMMA DeleteNodeKeeps ==
  ASSUME IInv, NEW n \in UserNodes, DeleteNode(n)
  PROVE  IInv'
<1>1. /\ Ready /\ n \in DOMAIN nodes
      /\ DeletesBusy \/ n \notin DOMAIN tasks
      /\ nodes' = [m \in DOMAIN nodes \ {n} |-> nodes[m]] /\ links' = links \ At(links, n)
      /\ Called /\ UNCHANGED <<cpu_bridge, tasks, sent>>
  BY DEF DeleteNode
<1>2. /\ DOMAIN nodes' = DOMAIN nodes \ {n} /\ n # CpuSwitch
      /\ \A m \in DOMAIN nodes' : nodes'[m] = nodes[m] /\ m # n /\ m \in DOMAIN nodes
  BY <1>1 DEF UserNodes
<1>3. NodesInv'
  BY <1>1, FewerNodes DEF IInv, NodesInv
<1>4. PICK ds \in SUBSET links : ds = links \ At(links, n)
  OBVIOUS
<1>5. \A l \in links : l \in ds <=> l.ends[1] # n /\ l.ends[2] # n
  BY <1>4 DEF At, Ends
<1>6. LinksInv' /\ NoEth(links')
  BY <1>1, <1>2, <1>4, <1>5, FewerLinks, CallCounted DEF IInv, LinksInv
<1>7. BridgeInv'
  <2>1. /\ cpu_bridge = DOMAIN nodes \cap {CpuSwitch}
        /\ CpuSwitch \in DOMAIN nodes => ~ nodes[CpuSwitch].cpu
        /\ \A l \in links : CpuSwitch \in Ends(l) =>
             l.ends[2] = CpuSwitch /\ l.name[1] = CpuName(l.ends[1]) /\ nodes[l.ends[1]].cpu
        /\ \A m \in DOMAIN nodes : nodes[m].cpu =>
             IsP4Switch(m) /\ \E l \in links : l.ends[1] = m /\ l.ends[2] = CpuSwitch
        /\ \A l \in links : l.ends[1] \in DOMAIN nodes /\ l.ends[2] \in DOMAIN nodes
    BY DEF IInv, BridgeInv, LinksInv
  <2>2. /\ cpu_bridge' = DOMAIN nodes' \cap {CpuSwitch}
        /\ CpuSwitch \in DOMAIN nodes' => ~ nodes'[CpuSwitch].cpu
    BY <1>1, <1>2, <2>1
  <2>3. \A l \in ds : CpuSwitch \in Ends(l) =>
          l.ends[2] = CpuSwitch /\ l.name[1] = CpuName(l.ends[1]) /\ nodes'[l.ends[1]].cpu
    BY <1>2, <1>5, <2>1
  <2>4. \A m \in DOMAIN nodes' : nodes'[m].cpu =>
          IsP4Switch(m) /\ \E l \in ds : l.ends[1] = m /\ l.ends[2] = CpuSwitch
    BY <1>2, <1>5, <2>1
  <2> QED
    BY <1>1, <1>4, <2>2, <2>3, <2>4 DEF BridgeInv
<1>8. TasksInv'
  BY <1>1, <1>2, CallCounted DEF IInv, TasksInv
<1>9. StatusInv'
  BY <1>1, <1>6, CallCounted DEF StatusInv
<1> QED
  BY <1>3, <1>6, <1>7, <1>8, <1>9 DEF IInv

(* The bridge that enableCpuPort adds. *)
Bridge  == [FreshNode EXCEPT !.id = CpuDpid]
Bridged == IF cpu_bridge # {} THEN nodes ELSE Put(nodes, CpuSwitch, Bridge)

(* It has an id that no other switch has. *)
LEMMA BridgedIs ==
  ASSUME IInv
  PROVE  /\ Bridged \in NodeMaps /\ DOMAIN Bridged = DOMAIN nodes \cup {CpuSwitch}
         /\ IdsOK(Bridged) /\ BridgeIdOK(Bridged) /\ ServicesOK(Bridged)
         /\ \A n \in DOMAIN nodes : Bridged[n] = nodes[n]
         /\ ~ Bridged[CpuSwitch].cpu
<1>1. CASE cpu_bridge # {}
  BY <1>1 DEF IInv, NodesInv, BridgeInv, Bridged
<1>2. CASE cpu_bridge = {}
  <2>1. CpuSwitch \notin DOMAIN nodes
    BY <1>2 DEF IInv, BridgeInv
  <2>2. PICK ns : ns = Put(nodes, CpuSwitch, Bridge)
    OBVIOUS
  <2>3. /\ DOMAIN ns = DOMAIN nodes \cup {CpuSwitch} /\ ns[CpuSwitch] = Bridge
        /\ \A m \in DOMAIN nodes : ns[m] = nodes[m]
        /\ ns = [m \in DOMAIN ns |-> ns[m]]
    BY <2>1, <2>2 DEF Put
  <2>4. /\ Bridge \in Node /\ Bridge.id = CpuDpid /\ Bridge.thrift = NoNum /\ Bridge.grpc = NoNum
        /\ ~ Bridge.cpu
    <3>1. FreshNode \in Node /\ CpuDpid \in Int
      BY FreshIsNode DEF CpuDpid
    <3>2. /\ FreshNode.thrift = NoNum /\ FreshNode.grpc = NoNum /\ ~ FreshNode.cpu
      BY DEF FreshNode
    <3> HIDE DEF FreshNode, CpuDpid
    <3> QED
      BY <3>1, <3>2, NodeFields DEF Bridge
  <2>5. ns \in NodeMaps
    <3>1. nodes \in [DOMAIN nodes -> Node] /\ DOMAIN nodes \subseteq Names
      BY NodeMap DEF IInv, NodesInv
    <3>2. \A m \in DOMAIN ns : ns[m] \in Node
      BY <2>3, <2>4, <3>1
    <3>3. ns \in [DOMAIN ns -> Node]
      BY <2>3, <3>2
    <3> QED
      BY <2>3, <3>1, <3>3, NodeMap, NetworkAPIAssumption
  <2>6. IdsOK(ns) /\ BridgeIdOK(ns)
    BY <2>1, <2>3, <2>4 DEF IInv, NodesInv, IdsOK, BridgeIdOK
  <2>7. ServicesOK(ns)
    BY <2>1, <2>3, <2>4 DEF IInv, NodesInv, ServicesOK
  <2> QED
    BY <1>2, <2>2, <2>3, <2>4, <2>5, <2>6, <2>7 DEF Bridged
<1> QED
  BY <1>1, <1>2

(* A node whose CPU port is switched on or off. *)
LEMMA CpuSet ==
  ASSUME NEW ns \in NodeMaps, IdsOK(ns), BridgeIdOK(ns), ServicesOK(ns),
         NEW s \in DOMAIN ns, NEW on \in BOOLEAN
  PROVE  LET ms == [ns EXCEPT ![s].cpu = on]
         IN  /\ ms \in NodeMaps /\ IdsOK(ms) /\ BridgeIdOK(ms) /\ ServicesOK(ms)
             /\ DOMAIN ms = DOMAIN ns /\ ms[s].cpu = on
             /\ \A m \in DOMAIN ns : /\ ms[m].sched = ns[m].sched
                                     /\ m # s => ms[m].cpu = ns[m].cpu
<1>1. PICK r : r = [ns[s] EXCEPT !.cpu = on]
  OBVIOUS
<1>2. ns[s] \in Node
  BY NodeMap
<1>3. /\ r \in Node /\ r.cpu = on /\ r.sched = ns[s].sched /\ r.id = ns[s].id
      /\ r.thrift = ns[s].thrift /\ r.grpc = ns[s].grpc
  BY <1>1, <1>2 DEF Node
<1>4. PICK ms : ms = [ns EXCEPT ![s] = r]
  OBVIOUS
<1>5. /\ ms \in NodeMaps /\ DOMAIN ms = DOMAIN ns /\ ms[s] = r
      /\ \A m \in DOMAIN ns : m # s => ms[m] = ns[m]
  BY <1>3, <1>4, NodeReplaced
<1>6. \A m \in DOMAIN ns : /\ ms[m].id = ns[m].id /\ ms[m].thrift = ns[m].thrift
                           /\ ms[m].grpc = ns[m].grpc /\ ms[m].sched = ns[m].sched
  BY <1>3, <1>5
<1>7. IdsOK(ms) /\ BridgeIdOK(ms) /\ ServicesOK(ms)
  BY <1>5, <1>6 DEF IdsOK, BridgeIdOK, ServicesOK
<1>8. [ns EXCEPT ![s].cpu = on] = ms
  BY <1>1, <1>4
<1> QED
  BY <1>3, <1>5, <1>6, <1>7, <1>8

(* enableCpuPort adds the link to the bridge unless there is one. *)
LEMMA EnableCpuPortKeeps ==
  ASSUME IInv, NEW s \in UserNodes, EnableCpuPort(s)
  PROVE  IInv'
<1>1. CASE Raise
  BY <1>1, RaiseKeeps DEF EnableCpuPort
<1>2. CASE ~ Raise
  <2>1. PICK l, names : /\ names = <<CpuName(s), <<s, "cpu-eth", 1>>>>
                        /\ l = NewLink(links, s, CpuSwitch, <<NoNum, NoNum>>, names)
    OBVIOUS
  <2>2. /\ Ready /\ s \in DOMAIN nodes /\ IsP4Switch(s) /\ Fits(links, l)
        /\ cpu_bridge' = {CpuSwitch} /\ links' = links \cup {l}
        /\ nodes' = [Bridged EXCEPT ![s].cpu = TRUE]
        /\ Called /\ UNCHANGED <<tasks, sent>>
    BY <1>2, <2>1 DEF EnableCpuPort, CpuName, Bridged, Bridge
  <2>3. s \in Names /\ s # CpuSwitch /\ CpuSwitch \in Names
    BY NetworkAPIAssumption DEF UserNodes
  <2>4. names \in IfName \X IfName /\ \A i \in 1..2 : ~ IsEth(names[i])
    <3>1. PICK t \in Tags : t = "cpu-eth"
      BY DEF Tags
    <3>2. /\ <<s, t, 0>> \in IfName /\ (IsEth(<<s, t, 0>>) <=> t = "eth")
          /\ <<s, t, 1>> \in IfName /\ (IsEth(<<s, t, 1>>) <=> t = "eth")
      BY <2>3, NameIs
    <3>3. PICK x \in IfName, y \in IfName : x = <<s, t, 0>> /\ y = <<s, t, 1>>
      BY <3>2
    <3>4. ~ IsEth(x) /\ ~ IsEth(y)
      BY <3>1, <3>2, <3>3
    <3>5. names = <<x, y>>
      BY <2>1, <3>1, <3>3 DEF CpuName
    <3>6. \A i \in 1..2 : i = 1 \/ i = 2
      OBVIOUS
    <3> HIDE DEF IfName
    <3> QED
      BY <3>4, <3>5, <3>6
  <2>5. PICK ports \in PortNum \X PortNum : ports = <<NoNum, NoNum>>
    BY DEF PortNum
  <2>6. /\ l \in LinkRec /\ l.ends[1] = s /\ l.ends[2] = CpuSwitch /\ l.name = names
        /\ \A i \in 1..2 : l.ip[i] = NoIp
        /\ \A m \in links : Ends(m) = Ends(l) => m.key < l.key
    <3>1. l = NewLink(links, s, CpuSwitch, ports, names)
      BY <2>1, <2>5
    <3>2. LinksOK(links) /\ names \in IfName \X IfName
      BY <2>4 DEF IInv, LinksInv
    <3> HIDE DEF IfName, PortNum
    <3> QED
      BY <2>3, <3>1, <3>2, NewLinkIs
  <2>7. /\ LinksOK(links \cup {l}) /\ PortsOK(links \cup {l})
        /\ NamesOK(links \cup {l}) /\ IpsOK(links \cup {l})
    BY <2>2, <2>3, <2>6, LinkAdded DEF IInv
  <2>8. NoEth(links \cup {l})
    BY <2>2, <2>4, <2>6, CallCounted DEF NoEth
  <2>9. /\ Bridged \in NodeMaps /\ DOMAIN Bridged = DOMAIN nodes \cup {CpuSwitch}
        /\ IdsOK(Bridged) /\ BridgeIdOK(Bridged) /\ ServicesOK(Bridged)
        /\ \A n \in DOMAIN nodes : Bridged[n] = nodes[n]
        /\ ~ Bridged[CpuSwitch].cpu
    BY BridgedIs
  <2>10. /\ nodes' \in NodeMaps /\ IdsOK(nodes') /\ BridgeIdOK(nodes') /\ ServicesOK(nodes')
         /\ DOMAIN nodes' = DOMAIN nodes \cup {CpuSwitch} /\ nodes'[s].cpu = TRUE
         /\ \A m \in DOMAIN Bridged : m # s => nodes'[m].cpu = Bridged[m].cpu
    BY <2>2, <2>9, CpuSet
  <2>11. \A m \in DOMAIN nodes : m # s => nodes'[m].cpu = nodes[m].cpu
    BY <2>9, <2>10
  <2>12. LinksInv'
    BY <2>2, <2>6, <2>7, <2>10 DEF IInv, LinksInv
  <2>13. BridgeInv'
    <3>1. /\ cpu_bridge' = DOMAIN nodes' \cap {CpuSwitch}
          /\ CpuSwitch \in DOMAIN nodes' => ~ nodes'[CpuSwitch].cpu
      BY <2>2, <2>3, <2>9, <2>10
    <3>2. \A m \in links : CpuSwitch \in Ends(m) =>
            m.ends[2] = CpuSwitch /\ m.name[1] = CpuName(m.ends[1]) /\ nodes'[m.ends[1]].cpu
      BY <2>10, <2>11 DEF IInv, BridgeInv, LinksInv
    <3>3. l.ends[2] = CpuSwitch /\ l.name[1] = CpuName(l.ends[1]) /\ nodes'[l.ends[1]].cpu
      BY <2>1, <2>6, <2>10
    <3>4. \A n \in DOMAIN nodes' : nodes'[n].cpu =>
            IsP4Switch(n) /\ \E m \in links \cup {l} : m.ends[1] = n /\ m.ends[2] = CpuSwitch
      <4> SUFFICES ASSUME NEW n \in DOMAIN nodes', nodes'[n].cpu
                   PROVE  /\ IsP4Switch(n)
                          /\ \E m \in links \cup {l} : m.ends[1] = n /\ m.ends[2] = CpuSwitch
        OBVIOUS
      <4>1. CASE n = s
        BY <2>2, <2>6, <4>1
      <4>2. CASE n # s
        BY <2>10, <2>11, <3>1, <4>2 DEF IInv, BridgeInv
      <4> QED
        BY <4>1, <4>2
    <3> QED
      BY <2>2, <3>1, <3>2, <3>3, <3>4 DEF BridgeInv
  <2>14. TasksInv'
    BY <2>2, <2>10, CallCounted DEF IInv, TasksInv
  <2>15. StatusInv'
    BY <2>2, <2>8, CallCounted DEF StatusInv
  <2> QED
    BY <2>10, <2>12, <2>13, <2>14, <2>15 DEF IInv, NodesInv
<1> QED
  BY <1>1, <1>2

(* The link from a switch to the bridge is the only one of that switch. *)
LEMMA OneCpuLink ==
  ASSUME IInv, NEW l \in links, NEW m \in links, CpuSwitch \in Ends(l), CpuSwitch \in Ends(m),
         l.ends[1] = m.ends[1]
  PROVE  l = m
<1>1. l.name[1] = CpuName(l.ends[1]) /\ m.name[1] = CpuName(m.ends[1])
  BY DEF IInv, BridgeInv
<1>2. l.name[1] = m.name[1] /\ l.name[1] # NoName
  BY <1>1 DEF CpuName, NoName
<1>3. 1 \in 1..2
  OBVIOUS
<1> QED
  BY <1>2, <1>3 DEF IInv, LinksInv, NamesOK

(* disableCpuPort removes that link, and the bridge with the last one. *)
LEMMA DisableCpuPortKeeps ==
  ASSUME IInv, NEW s \in UserNodes, DisableCpuPort(s)
  PROVE  IInv'
<1>1. PICK off, l, rest, last, gone :
        /\ off = [nodes EXCEPT ![s].cpu = FALSE] /\ l = Link(links, s, CpuSwitch)
        /\ rest = links \ {l} /\ last = (\A n \in DOMAIN nodes : ~ off[n].cpu)
        /\ gone = IF last THEN cpu_bridge ELSE {}
  OBVIOUS
<1>2. /\ Ready /\ s \in DOMAIN nodes /\ nodes[s].cpu
      /\ cpu_bridge' = IF last THEN {} ELSE cpu_bridge
      /\ nodes' = [n \in DOMAIN nodes \ gone |-> off[n]]
      /\ links' = IF last THEN rest \ At(rest, CpuSwitch) ELSE rest
      /\ Called /\ UNCHANGED <<tasks, sent>>
  BY <1>1 DEF DisableCpuPort
<1>3. /\ off \in NodeMaps /\ IdsOK(off) /\ BridgeIdOK(off) /\ ServicesOK(off)
      /\ DOMAIN off = DOMAIN nodes /\ off[s].cpu = FALSE
      /\ \A m \in DOMAIN nodes : /\ off[m].sched = nodes[m].sched
                                 /\ m # s => off[m].cpu = nodes[m].cpu
  BY <1>1, <1>2, CpuSet DEF IInv, NodesInv
<1>4. /\ cpu_bridge = DOMAIN nodes \cap {CpuSwitch}
      /\ CpuSwitch \in DOMAIN nodes => ~ nodes[CpuSwitch].cpu
      /\ \A m \in links : CpuSwitch \in Ends(m) =>
           m.ends[2] = CpuSwitch /\ m.name[1] = CpuName(m.ends[1]) /\ nodes[m.ends[1]].cpu
      /\ \A n \in DOMAIN nodes : nodes[n].cpu =>
           IsP4Switch(n) /\ \E m \in links : m.ends[1] = n /\ m.ends[2] = CpuSwitch
      /\ \A m \in links : m.ends[1] \in DOMAIN nodes /\ m.ends[2] \in DOMAIN nodes
  BY DEF IInv, BridgeInv, LinksInv
<1>5. s # CpuSwitch
  BY DEF UserNodes
<1>6. l \in links /\ CpuSwitch \in Ends(l) /\ l.ends[1] = s
  <2>1. PICK m \in links : m.ends[1] = s /\ m.ends[2] = CpuSwitch
    BY <1>2, <1>4
  <2>2. m \in Between(links, s, CpuSwitch)
    BY <2>1 DEF Between, Ends
  <2>3. l \in links /\ Ends(l) = {s, CpuSwitch}
    BY <1>1, <2>2, LinkIs DEF IInv, LinksInv
  <2>4. l.ends[2] = CpuSwitch
    BY <1>4, <2>3
  <2>5. l.ends[1] = s
    BY <1>5, <2>3, <2>4 DEF Ends
  <2> QED
    BY <2>3, <2>5
<1>7. \A m \in links : CpuSwitch \in Ends(m) /\ m # l => m.ends[1] # s
  BY <1>6, OneCpuLink
<1>8. /\ DOMAIN nodes' = DOMAIN nodes \ gone
      /\ \A m \in DOMAIN nodes' : nodes'[m] = off[m]
      /\ \A m \in gone : m = CpuSwitch
      /\ DOMAIN nodes \ gone \in SUBSET DOMAIN off
  BY <1>1, <1>2, <1>3, <1>4
<1>9. NodesInv'
  <2>1. PICK D \in SUBSET DOMAIN off : D = DOMAIN nodes \ gone
    BY <1>8
  <2>2. nodes' = [m \in D |-> off[m]]
    BY <1>2, <2>1
  <2> QED
    BY <1>3, <2>2, FewerNodes DEF NodesInv
<1>10. TasksInv'
  BY <1>2, <1>8, CallCounted DEF IInv, TasksInv, UserNodes
<1>11. CASE last
  <2>1. /\ links' = rest \ At(rest, CpuSwitch) /\ cpu_bridge' = {} /\ gone = cpu_bridge
        /\ \A n \in DOMAIN nodes : ~ off[n].cpu
    BY <1>1, <1>2, <1>11
  <2>2. PICK ds \in SUBSET links : ds = rest \ At(rest, CpuSwitch)
    BY <1>1
  <2>3. \A m \in ds : CpuSwitch \notin Ends(m)
    BY <2>2 DEF At
  <2>4. LinksInv' /\ NoEth(links')
    <3>1. \A m \in ds : m.ends[1] \in DOMAIN nodes' /\ m.ends[2] \in DOMAIN nodes'
      BY <1>4, <1>8, <2>3 DEF Ends
    <3> QED
      BY <1>2, <2>1, <2>2, <3>1, FewerLinks, CallCounted DEF IInv, LinksInv
  <2>5. BridgeInv'
    <3>1. CpuSwitch \notin DOMAIN nodes'
      BY <1>4, <1>8, <2>1
    <3>2. \A n \in DOMAIN nodes' : ~ nodes'[n].cpu
      BY <1>8, <2>1
    <3> QED
      BY <2>1, <2>2, <2>3, <3>1, <3>2 DEF BridgeInv
  <2>6. StatusInv'
    BY <1>2, <2>4, CallCounted DEF StatusInv
  <2> QED
    BY <1>9, <1>10, <2>4, <2>5, <2>6 DEF IInv
<1>12. CASE ~ last
  <2>1. links' = rest /\ cpu_bridge' = cpu_bridge /\ gone = {} /\ DOMAIN nodes' = DOMAIN nodes
    BY <1>1, <1>2, <1>8, <1>12
  <2>2. PICK ds \in SUBSET links : ds = rest
    BY <1>1
  <2>3. LinksInv' /\ NoEth(links')
    BY <1>2, <1>4, <2>1, <2>2, FewerLinks, CallCounted DEF IInv, LinksInv
  <2>4. BridgeInv'
    <3>1. /\ cpu_bridge' = DOMAIN nodes' \cap {CpuSwitch}
          /\ CpuSwitch \in DOMAIN nodes' => ~ nodes'[CpuSwitch].cpu
      BY <1>3, <1>4, <1>5, <1>8, <2>1
    <3>2. \A m \in ds : CpuSwitch \in Ends(m) =>
            m.ends[2] = CpuSwitch /\ m.name[1] = CpuName(m.ends[1]) /\ nodes'[m.ends[1]].cpu
      BY <1>1, <1>3, <1>4, <1>7, <1>8, <2>1, <2>2
    <3>3. ASSUME NEW n \in DOMAIN nodes', nodes'[n].cpu
          PROVE  IsP4Switch(n) /\ \E m \in ds : m.ends[1] = n /\ m.ends[2] = CpuSwitch
      <4>1. n # s /\ nodes[n].cpu /\ n \in DOMAIN nodes
        BY <1>3, <1>8, <2>1, <3>3
      <4>2. PICK m \in links : m.ends[1] = n /\ m.ends[2] = CpuSwitch
        BY <1>4, <4>1
      <4>3. m \in ds
        BY <1>1, <1>6, <2>2, <4>1, <4>2
      <4> QED
        BY <1>4, <4>1, <4>2, <4>3
    <3> QED
      BY <2>1, <2>2, <3>1, <3>2, <3>3 DEF BridgeInv
  <2>5. StatusInv'
    BY <1>2, <2>3, CallCounted DEF StatusInv
  <2> QED
    BY <1>9, <1>10, <2>3, <2>4, <2>5 DEF IInv
<1> QED
  BY <1>11, <1>12

-----------------------------------------------------------------------------
(* The addressing strategies.                                              *)

(* An order of the host links names each of them. *)
LEMMA OrderCovers ==
  ASSUME NEW S, IsFiniteSet(S), NEW order \in SetToSeqs(S)
  PROVE  \E k \in Nat : /\ order \in [1..k -> S] /\ DOMAIN order = 1..k
                        /\ \A x \in S : \E i \in 1..k : order[i] = x
                        /\ \A i, j \in 1..k : i # j => order[i] # order[j]
<1>1. PICK k \in Nat : k = Cardinality(S)
  BY FS_CardinalityType
<1>2. order \in [1..k -> S] /\ \A i, j \in 1..k : i # j => order[i] # order[j]
  BY <1>1 DEF SetToSeqs
<1>3. IsFiniteSet(1..k) /\ Cardinality(1..k) = k
  <2>1. PICK one \in Int : one = 1
    OBVIOUS
  <2>2. IsFiniteSet(one..k) /\ Cardinality(one..k) = IF one > k THEN 0 ELSE k - one + 1
    BY FS_Interval
  <2> QED
    BY <2>1, <2>2
<1>4. order \in Injection(1..k, S)
  BY <1>2 DEF Injection, IsInjective
<1>5. order \in Surjection(1..k, S)
  BY <1>1, <1>3, <1>4, FS_Injection
<1> QED
  BY <1>2, <1>5 DEF Surjection

(* Of some positions one is the last. *)
LEMMA Positions ==
  ASSUME NEW k \in Nat
  PROVE  /\ IsFiniteSet(1..k)
         /\ \A s \in SUBSET (1..k) : s # {} => Max(s) \in s /\ \A i \in s : i <= Max(s)
<1>1. IsFiniteSet(1..k)
  BY FS_Interval
<1>2. \A s \in SUBSET (1..k) : s \in SUBSET (0..k)
  OBVIOUS
<1> QED
  BY <1>1, <1>2, MaxOf

(* The numbers that the links have got so far. *)
Numberings == UNION {[D -> Nat] : D \in SUBSET HostLinks}

(* What is reserved for a link is finite. *)
Reserves(reserved) == \A l \in HostLinks : IsFiniteSet(reserved[l])

(* What Numbered does for one link. *)
Numbering(net, reserved, num, l) ==
  LET used == {num[m] : m \in {k \in DOMAIN num : net[k] = net[l]}}
  IN  Put(num, l, IF IsNamed(HostOf(l)) THEN HostNum[HostOf(l)]
                  ELSE NextElement(used \cup reserved[l], 1))

(* It numbers the link with a natural number. *)
LEMMA NumberingType ==
  ASSUME IsFiniteSet(HostLinks), NEW net, NEW reserved,
         Reserves(reserved),
         NEW D \in SUBSET HostLinks, NEW num \in [D -> Nat], NEW l \in HostLinks
  PROVE  Numbering(net, reserved, num, l) \in [D \cup {l} -> Nat]
<1> DEFINE K == {k \in DOMAIN num : net[k] = net[l]}
           used == {num[m] : m \in K}
           f == [m \in K |-> num[m]]
           img == {f[m] : m \in K}
<1>1. IsFiniteSet(used)
  <2>1. IsFiniteSet(K)
    BY FS_Subset
  <2>2. IsFiniteSet(img)
    <3>1. DOMAIN f = K
      OBVIOUS
    <3> HIDE DEF K, f
    <3> QED
      BY <2>1, <3>1, FiniteImage
  <2>3. used = img
    OBVIOUS
  <2> QED
    BY <2>2, <2>3
<1>2. PICK taken : taken = used \cup reserved[l]
  OBVIOUS
<1>3. IsFiniteSet(taken)
  <2>1. IsFiniteSet(reserved[l])
    BY DEF Reserves
  <2> HIDE DEF used
  <2> QED
    BY <1>1, <1>2, <2>1, FS_Union
<1>4. NextElement(taken, 1) \in Nat
  <2>1. PICK one \in Nat, c \in Nat : one = 1 /\ c = Cardinality(taken)
    BY <1>3, FS_CardinalityType
  <2>2. NextElement(taken, one) \in one..(one + c)
    BY <1>3, <2>1, NextIsFree
  <2> QED
    BY <2>1, <2>2
<1>5. PICK v \in Nat : v = IF IsNamed(HostOf(l)) THEN HostNum[HostOf(l)] ELSE NextElement(taken, 1)
  <2>1. IsNamed(HostOf(l)) => HostNum[HostOf(l)] \in Nat
    BY NetworkAPIAssumption DEF IsNamed
  <2> QED
    BY <1>4, <2>1
<1>6. PICK n : n = Put(num, l, v)
  OBVIOUS
<1>7. n \in [D \cup {l} -> Nat] /\ D \cup {l} \in SUBSET HostLinks
  BY <1>6 DEF Put
<1>8. Numbering(net, reserved, num, l) = n
  BY <1>2, <1>5, <1>6 DEF Numbering
<1> QED
  BY <1>7, <1>8

IsNumbering(g, num0, net, reserved, k, order) ==
  /\ g[{}] = num0
  /\ \A s \in SUBSET (1..k) : s # {} =>
       g[s] = Numbering(net, reserved, g[s \ {Max(s)}], order[Max(s)])

(* Numbered as a function on the positions still to come. *)
LEMMA NumberedIs ==
  ASSUME IsFiniteSet(HostLinks), NEW net, NEW reserved,
         Reserves(reserved),
         NEW k \in Nat, NEW order \in [1..k -> HostLinks], NEW num0 \in Numberings, num0 = <<>>
  PROVE  \E g : /\ Numbered(order, net, reserved) = g[1..k]
                /\ IsNumbering(g, num0, net, reserved, k, order)
<1> DEFINE D == 1..k
           iter[s \in SUBSET DOMAIN order] ==
             IF s = {} THEN <<>>
             ELSE LET x == Max(s) IN Numbering(net, reserved, iter[s \ {x}], order[x])
           pick == [s \in SUBSET D |-> Max(s)]
           F == [p \in D \X Numberings |-> Numbering(net, reserved, p[2], order[p[1]])]
           Rhs(g) == [s \in SUBSET D |->
                        IF s = {} THEN num0
                        ELSE Numbering(net, reserved, g[s \ {Max(s)}], order[Max(s)])]
<1>1. Numbered(order, net, reserved) = iter[DOMAIN order]
  BY DEF Numbered, FoldLeft, MapThenFoldSet, Numbering
<1>2. IsFiniteSet(D) /\ DOMAIN order = D
  BY Positions
<1>3. \A s \in SUBSET D : s # {} => Max(s) \in s
  BY Positions
<1>4. F \in [D \X Numberings -> Numberings]
  <2>1. ASSUME NEW i \in D, NEW num \in Numberings
        PROVE  Numbering(net, reserved, num, order[i]) \in Numberings
    <3>1. PICK E \in SUBSET HostLinks : num \in [E -> Nat]
      BY DEF Numberings
    <3>2. PICK l \in HostLinks : l = order[i]
      OBVIOUS
    <3>3. Numbering(net, reserved, num, l) \in [E \cup {l} -> Nat]
      BY <3>1, NumberingType
    <3>4. E \cup {l} \in SUBSET HostLinks
      OBVIOUS
    <3> QED
      BY <3>2, <3>3, <3>4 DEF Numberings
  <2> QED
    BY <2>1
<1>5. Picks(D, pick)
  BY <1>3 DEF Picks
<1>6. PICK g \in [SUBSET D -> Numberings] : IsFold(D, num0, pick, F, g)
  <2> HIDE DEF D, pick, F
  <2> QED
    BY <1>2, <1>4, <1>5, FoldExists
<1>7. g = Rhs(g)
  <2>1. ASSUME NEW s \in SUBSET D, s # {}
        PROVE  F[<<pick[s], g[s \ {pick[s]}]>>]
                 = Numbering(net, reserved, g[s \ {Max(s)}], order[Max(s)])
    <3>1. Max(s) \in D /\ s \ {Max(s)} \in SUBSET D
      BY <1>3, <2>1
    <3>2. g[s \ {Max(s)}] \in Numberings
      BY <3>1
    <3>3. <<Max(s), g[s \ {Max(s)}]>> \in D \X Numberings
      BY <3>1, <3>2
    <3> QED
      BY <3>3
  <2> QED
    BY <1>6, <2>1 DEF IsFold
<1>8. iter = CHOOSE h : h = Rhs(h)
  BY <1>2 DEF iter
<1>9. iter = Rhs(iter)
  <2> HIDE DEF iter, Rhs
  <2> QED
    BY <1>7, <1>8
<1>10. IsNumbering(iter, num0, net, reserved, k, order)
  BY <1>9 DEF IsNumbering
<1> HIDE DEF iter
<1> QED
  BY <1>1, <1>2, <1>10

(* Every host link gets a natural number. *)
LEMMA NumberedType ==
  ASSUME IsFiniteSet(HostLinks), NEW net, NEW reserved,
         Reserves(reserved),
         NEW order \in SetToSeqs(HostLinks)
  PROVE  Numbered(order, net, reserved) \in [HostLinks -> Nat]
<1>1. PICK k \in Nat : /\ order \in [1..k -> HostLinks] /\ DOMAIN order = 1..k
                       /\ \A x \in HostLinks : \E i \in 1..k : order[i] = x
  BY OrderCovers
<1> DEFINE D == 1..k
<1>2. PICK num0 \in Numberings : num0 = <<>> /\ num0 \in [{} -> Nat]
  <2>1. <<>> \in [{} -> Nat]
    OBVIOUS
  <2>2. {} \in SUBSET HostLinks
    OBVIOUS
  <2>3. <<>> \in Numberings
    BY <2>1, <2>2 DEF Numberings
  <2> QED
    BY <2>1, <2>3
<1>3. PICK g : /\ Numbered(order, net, reserved) = g[1..k]
               /\ IsNumbering(g, num0, net, reserved, k, order)
  BY <1>1, <1>2, NumberedIs
<1>4. /\ Numbered(order, net, reserved) = g[D]
      /\ g[{}] = num0
      /\ \A s \in SUBSET D : s # {} =>
           g[s] = Numbering(net, reserved, g[s \ {Max(s)}], order[Max(s)])
  BY <1>3 DEF IsNumbering
<1> DEFINE pick == [s \in SUBSET D |-> Max(s)]
           Good == {s \in SUBSET D : g[s] \in [{order[i] : i \in s} -> Nat]}
<1>5. IsFiniteSet(D) /\ \A s \in SUBSET D : s # {} => Max(s) \in s
  BY Positions
<1>6. {} \in Good
  <2>1. {order[i] : i \in {}} = {}
    OBVIOUS
  <2> QED
    BY <1>2, <1>4, <2>1
<1>7. ASSUME NEW s \in SUBSET D, s # {}, s \ {Max(s)} \in Good
      PROVE  s \in Good
  <2>1. PICK i \in s : i = Max(s)
    BY <1>5, <1>7
  <2>2. PICK E, l : E = {order[j] : j \in s \ {i}} /\ l = order[i]
    OBVIOUS
  <2>3. PICK num \in [E -> Nat] : num = g[s \ {i}]
    BY <1>7, <2>1, <2>2
  <2>4. g[s] = Numbering(net, reserved, num, l)
    BY <1>4, <1>7, <2>1, <2>2, <2>3
  <2>5. E \in SUBSET HostLinks /\ l \in HostLinks
    BY <1>1, <2>2
  <2>6. Numbering(net, reserved, num, l) \in [E \cup {l} -> Nat]
    BY <2>5, NumberingType
  <2>7. {order[j] : j \in s} = E \cup {l}
    BY <2>2
  <2> QED
    BY <2>4, <2>6, <2>7
<1> HIDE DEF Good
<1>8. Inductive(D, pick, Good)
  BY <1>5, <1>6, <1>7 DEF Inductive
<1>9. SUBSET D \subseteq Good
  BY <1>5, <1>8, SubsetInduction
<1>10. D \in Good
  BY <1>9
<1>11. {order[i] : i \in D} = HostLinks
  BY <1>1
<1> QED
  BY <1>4, <1>10, <1>11 DEF Good

(* A link to a host has one end at a host and one at a switch. *)
LEMMA HostLinkIs ==
  ASSUME IInv, Addressable, NEW l \in HostLinks
  PROVE  /\ l \in links /\ l \in LinkRec /\ CpuSwitch \notin Ends(l)
         /\ End(l, HostOf(l)) \in 1..2 /\ l.ends[End(l, HostOf(l))] = HostOf(l)
         /\ IsHost(HostOf(l)) /\ HostOf(l) \in DOMAIN nodes
         /\ IsSwitch(SwitchOf(l)) /\ SwitchOf(l) \in DOMAIN nodes \ {CpuSwitch}
         /\ SwitchOf(l) \in Ends(l) /\ HostOf(l) \in Ends(l)
         /\ End(l, SwitchOf(l)) \in 1..2 /\ End(l, SwitchOf(l)) # End(l, HostOf(l))
         /\ l.ends[End(l, SwitchOf(l))] = SwitchOf(l)
         /\ \A j \in 1..2 : IsHost(l.ends[j]) => j = End(l, HostOf(l))
<1>1. l \in links /\ CpuSwitch \notin Ends(l) /\ (IsHost(l.ends[1]) \/ IsHost(l.ends[2]))
  BY DEF HostLinks, Ends
<1>2. /\ l \in LinkRec /\ l.ends[1] # l.ends[2]
      /\ l.ends[1] \in DOMAIN nodes /\ l.ends[2] \in DOMAIN nodes
  BY <1>1 DEF IInv, LinksInv, LinksOK
<1>3. IsSwitch(SwitchOf(l))
  BY DEF Addressable
<1>4. \A j \in 1..2 : j = 1 \/ j = 2
  OBVIOUS
<1>5. CASE IsHost(l.ends[1])
  <2>1. HostOf(l) = l.ends[1] /\ End(l, HostOf(l)) = 1
    BY <1>5 DEF HostOf, End
  <2>2. SwitchOf(l) = l.ends[2]
    BY <2>1 DEF SwitchOf, Other
  <2>3. End(l, SwitchOf(l)) = 2
    BY <1>2, <2>2 DEF End
  <2> QED
    BY <1>1, <1>2, <1>3, <1>4, <1>5, <2>1, <2>2, <2>3 DEF Ends, IsSwitch
<1>6. CASE ~ IsHost(l.ends[1])
  <2>1. HostOf(l) = l.ends[2] /\ End(l, HostOf(l)) = 2
    BY <1>2, <1>6 DEF HostOf, End
  <2>2. SwitchOf(l) = l.ends[1]
    BY <2>1 DEF SwitchOf, Other
  <2>3. End(l, SwitchOf(l)) = 1
    BY <2>2 DEF End
  <2> QED
    BY <1>1, <1>2, <1>3, <1>4, <1>6, <2>1, <2>2, <2>3 DEF Ends, IsSwitch
<1> QED
  BY <1>5, <1>6

(* A link with a host at one end is a host link. *)
LEMMA HostEnds ==
  ASSUME IInv, NEW l \in links, NEW j \in 1..2, IsHost(l.ends[j])
  PROVE  l \in HostLinks
<1>1. l.ends[j] \in Ends(l)
  BY DEF Ends
<1>2. CpuSwitch \notin Ends(l)
  <2> SUFFICES ASSUME CpuSwitch \in Ends(l) PROVE FALSE
    OBVIOUS
  <2>1. l.ends[2] = CpuSwitch /\ nodes[l.ends[1]].cpu /\ l.ends[1] \in DOMAIN nodes
    BY DEF IInv, BridgeInv, LinksInv
  <2>2. Kind[l.ends[1]] \in {"p4", "p4rt"} /\ Kind[l.ends[2]] = "switch"
    BY <2>1, NetworkAPIAssumption DEF IInv, BridgeInv, IsP4Switch
  <2> QED
    BY <2>2 DEF IsHost
<1> QED
  BY <1>1, <1>2 DEF HostLinks

(* There are finitely many host links and reserved numbers. *)
LEMMA HostLinksFinite ==
  ASSUME IInv
  PROVE  IsFiniteSet(HostLinks) /\ Reserves(AllNumbers) /\ Reserves(NetNumbers)
<1>1. IsFiniteSet(HostLinks)
  BY FS_Subset DEF HostLinks, IInv, LinksInv, LinksOK
<1>2. ASSUME NEW l \in HostLinks PROVE IsFiniteSet(AllNumbers[l])
  <2> DEFINE f == [h \in NamedHosts |-> HostNum[h]]
             img == {f[h] : h \in NamedHosts}
  <2>1. IsFiniteSet(NamedHosts)
    <3>1. NamedHosts \subseteq Names
      BY NodeMap DEF NamedHosts, IInv, NodesInv
    <3> QED
      BY <3>1, NamesFinite, FS_Subset
  <2>2. IsFiniteSet(img)
    <3>1. DOMAIN f = NamedHosts
      OBVIOUS
    <3> HIDE DEF f
    <3> QED
      BY <2>1, <3>1, FiniteImage
  <2>3. AllNumbers[l] = img
    BY DEF AllNumbers
  <2> QED
    BY <2>2, <2>3
<1>3. ASSUME NEW l \in HostLinks PROVE IsFiniteSet(NetNumbers[l])
  <2> DEFINE K == {k \in HostLinks : SwitchOf(k) = SwitchOf(l) /\ IsNamed(HostOf(k))}
             f == [m \in K |-> HostNum[HostOf(m)]]
             img == {f[m] : m \in K}
  <2>1. IsFiniteSet(K)
    BY <1>1, FS_Subset
  <2>2. IsFiniteSet(img)
    <3>1. DOMAIN f = K
      OBVIOUS
    <3> HIDE DEF K, f
    <3> QED
      BY <2>1, <3>1, FiniteImage
  <2>3. NetNumbers[l] = img
    BY DEF NetNumbers
  <2> QED
    BY <2>2, <2>3
<1> QED
  BY <1>1, <1>2, <1>3 DEF Reserves

(* A strategy changes the addresses of links and nothing else of them. *)
Readdressed(r) ==
  /\ r \in [links -> LinkRec]
  /\ \A l \in links : /\ r[l].ends = l.ends /\ r[l].key = l.key
                      /\ r[l].port = l.port /\ r[l].name = l.name
HostIp(r, l) == r[l].ip[End(l, HostOf(l))]

(* Addresses of their own keep all that holds of the links. *)
LEMMA ReaddressedOK ==
  ASSUME IInv, Addressable, NEW r, Readdressed(r),
         \A l, m \in HostLinks : l # m => HostIp(r, l) # HostIp(r, m)
  PROVE  LET ds == {r[l] : l \in links}
         IN  /\ LinksOK(ds) /\ PortsOK(ds) /\ NamesOK(ds) /\ IpsOK(ds)
             /\ NoEth(links) => NoEth(ds)
<1>1. PICK ds : ds = {r[l] : l \in links}
  OBVIOUS
<1>2. LinksOK(links) /\ PortsOK(links) /\ NamesOK(links)
  BY DEF IInv, LinksInv
<1>3. ASSUME NEW l \in links
      PROVE  /\ r[l] \in LinkRec /\ r[l].ends = l.ends /\ r[l].key = l.key
             /\ r[l].port = l.port /\ r[l].name = l.name /\ Ends(r[l]) = Ends(l)
  BY DEF Readdressed, Ends
<1>4. LinksOK(ds)
  <2>1. IsFiniteSet(ds)
    <3>1. IsFiniteSet(links) /\ DOMAIN r = links
      BY <1>2 DEF LinksOK, Readdressed
    <3> QED
      BY <1>1, <3>1, FiniteImage
  <2>2. ds \subseteq LinkRec /\ \A d \in ds : d.ends[1] # d.ends[2]
    BY <1>1, <1>2, <1>3 DEF LinksOK
  <2>3. ASSUME NEW d \in ds, NEW e \in ds, Ends(d) = Ends(e), d.key = e.key PROVE d = e
    <3>1. PICK l \in links, m \in links : d = r[l] /\ e = r[m]
      BY <1>1
    <3>2. Ends(l) = Ends(m) /\ l.key = m.key
      BY <1>3, <2>3, <3>1
    <3> QED
      BY <1>2, <3>1, <3>2 DEF LinksOK
  <2> QED
    BY <2>1, <2>2, <2>3 DEF LinksOK
<1>5. PortsOK(ds)
  <2> SUFFICES ASSUME NEW d \in ds, NEW e \in ds, NEW i \in 1..2, NEW j \in 1..2,
                      d # e, d.ends[i] = e.ends[j], d.port[i] # NoNum
               PROVE  d.port[i] # e.port[j]
    BY DEF PortsOK
  <2>1. PICK l \in links, m \in links : d = r[l] /\ e = r[m]
    BY <1>1
  <2> QED
    BY <1>2, <1>3, <2>1 DEF PortsOK
<1>6. NamesOK(ds)
  <2> SUFFICES ASSUME NEW d \in ds, NEW e \in ds, NEW i \in 1..2, NEW j \in 1..2,
                      d # e, d.ends[i] = e.ends[j], d.name[i] # NoName
               PROVE  d.name[i] # e.name[j]
    BY DEF NamesOK
  <2>1. PICK l \in links, m \in links : d = r[l] /\ e = r[m]
    BY <1>1
  <2> QED
    BY <1>2, <1>3, <2>1 DEF NamesOK
<1>7. IpsOK(ds)
  <2> SUFFICES ASSUME NEW d \in ds, NEW e \in ds, NEW i \in 1..2, NEW j \in 1..2,
                      IsHost(d.ends[i]), IsHost(e.ends[j]), d # e \/ i # j
               PROVE  d.ip[i] # e.ip[j]
    BY DEF IpsOK
  <2>1. PICK l \in links, m \in links : d = r[l] /\ e = r[m]
    BY <1>1
  <2>2. IsHost(l.ends[i]) /\ IsHost(m.ends[j])
    BY <1>3, <2>1
  <2>3. l \in HostLinks /\ m \in HostLinks
    BY <2>2, HostEnds
  <2>4. i = End(l, HostOf(l)) /\ j = End(m, HostOf(m))
    BY <2>2, <2>3, HostLinkIs
  <2>5. l # m
    BY <2>1, <2>4
  <2> QED
    BY <2>1, <2>3, <2>4, <2>5 DEF HostIp
<1>8. NoEth(links) => NoEth(ds)
  BY <1>1, <1>3 DEF NoEth
<1> QED
  BY <1>1, <1>4, <1>5, <1>6, <1>7, <1>8

(* A strategy that gives every host link its own address keeps the         *)
(* invariant.                                                              *)
LEMMA StrategyKeeps ==
  ASSUME IInv, Ready, Called, Addressable, UNCHANGED <<cpu_bridge, tasks, sent>>,
         NEW r, Readdressed(r), links' = {r[l] : l \in links},
         \A l, m \in HostLinks : l # m => HostIp(r, l) # HostIp(r, m),
         nodes' \in NodeMaps, IdsOK(nodes'), BridgeIdOK(nodes'), ServicesOK(nodes'),
         DOMAIN nodes' = DOMAIN nodes, \A n \in DOMAIN nodes : nodes'[n].cpu = nodes[n].cpu
  PROVE  IInv'
<1>1. PICK ds : ds = {r[l] : l \in links}
  OBVIOUS
<1>2. /\ LinksOK(ds) /\ PortsOK(ds) /\ NamesOK(ds) /\ IpsOK(ds)
      /\ NoEth(links) => NoEth(ds)
  BY <1>1, ReaddressedOK
<1>3. ASSUME NEW l \in links
      PROVE  r[l].ends = l.ends /\ r[l].name = l.name /\ Ends(r[l]) = Ends(l)
  BY DEF Readdressed, Ends
<1>4. LinksInv'
  BY <1>1, <1>2, <1>3 DEF IInv, LinksInv
<1>5. BridgeInv'
  <2>1. /\ cpu_bridge' = DOMAIN nodes' \cap {CpuSwitch}
        /\ CpuSwitch \in DOMAIN nodes' => ~ nodes'[CpuSwitch].cpu
    BY DEF IInv, BridgeInv
  <2>2. \A d \in ds : CpuSwitch \in Ends(d) =>
          d.ends[2] = CpuSwitch /\ d.name[1] = CpuName(d.ends[1]) /\ nodes'[d.ends[1]].cpu
    BY <1>1, <1>3 DEF IInv, BridgeInv, LinksInv
  <2>3. \A n \in DOMAIN nodes' : nodes'[n].cpu =>
          IsP4Switch(n) /\ \E d \in ds : d.ends[1] = n /\ d.ends[2] = CpuSwitch
    <3> SUFFICES ASSUME NEW n \in DOMAIN nodes, nodes[n].cpu
                 PROVE  IsP4Switch(n) /\ \E d \in ds : d.ends[1] = n /\ d.ends[2] = CpuSwitch
      OBVIOUS
    <3>1. IsP4Switch(n) /\ \E l \in links : l.ends[1] = n /\ l.ends[2] = CpuSwitch
      BY DEF IInv, BridgeInv
    <3>2. PICK l \in links : l.ends[1] = n /\ l.ends[2] = CpuSwitch
      BY <3>1
    <3>3. r[l] \in ds
      BY <1>1
    <3> QED
      BY <1>3, <3>1, <3>2, <3>3
  <2> QED
    BY <1>1, <2>1, <2>2, <2>3 DEF BridgeInv
<1>6. TasksInv'
  BY CallCounted DEF IInv, TasksInv
<1>7. StatusInv'
  BY <1>1, <1>2, CallCounted DEF StatusInv
<1> QED
  BY <1>4, <1>5, <1>6, <1>7 DEF IInv, NodesInv

(* l2: the number of a host is in the last two bytes of its address. *)
LEMMA L2Keeps ==
  ASSUME IInv, L2
  PROVE  IInv'
<1>1. CASE Raise
  BY <1>1, RaiseKeeps DEF L2
<1>2. CASE ~ Raise
  <2> DEFINE ip(num, l) == <<10, 0, num[l] \div 256, num[l] % 256>>
  <2>1. PICK order \in SetToSeqs(HostLinks) :
           LET num == Numbered(order, OneNet, AllNumbers)
           IN  /\ NoTwice(num, OneNet)
               /\ links' = (links \ HostLinks) \cup
                           {SetEnd(l, HostOf(l), "ip", ip(num, l)) : l \in HostLinks}
    BY <1>2 DEF L2
  <2>2. PICK num :
           /\ num = Numbered(order, OneNet, AllNumbers) /\ NoTwice(num, OneNet)
           /\ links' = (links \ HostLinks) \cup
                       {SetEnd(l, HostOf(l), "ip", ip(num, l)) : l \in HostLinks}
    BY <2>1
  <2>3. Ready /\ Addressable /\ Called /\ UNCHANGED <<nodes, cpu_bridge, tasks, sent>>
    BY <1>2 DEF L2
  <2>4. num \in [HostLinks -> Nat]
    BY <2>2, HostLinksFinite, NumberedType
  <2>5. \A x \in Nat : x \div 256 \in Int /\ x % 256 \in Int
    OBVIOUS
  <2>6. \A l \in HostLinks : ip(num, l) \in Ip
    <3> SUFFICES ASSUME NEW l \in HostLinks PROVE ip(num, l) \in Ip
      OBVIOUS
    <3>1. PICK a \in Int, b \in Int : a = num[l] \div 256 /\ b = num[l] % 256
      BY <2>4, <2>5
    <3>2. <<10, 0, a, b>> \in Seq(Int)
      OBVIOUS
    <3> QED
      BY <3>1, <3>2 DEF Ip
  <2>7. \A l, m \in HostLinks : l # m => ip(num, l) # ip(num, m)
    <3> SUFFICES ASSUME NEW l \in HostLinks, NEW m \in HostLinks, l # m, ip(num, l) = ip(num, m)
                 PROVE  FALSE
      OBVIOUS
    <3>1. PICK x \in Nat, y \in Nat : x = num[l] /\ y = num[m]
      BY <2>4
    <3>2. x # y
      BY <2>2, <2>4, <3>1 DEF NoTwice, OneNet
    <3>3. x \div 256 = y \div 256 /\ x % 256 = y % 256
      BY <3>1
    <3> QED
      BY <3>2, <3>3
  <2> DEFINE r == [l \in links |-> IF l \in HostLinks
                                   THEN SetEnd(l, HostOf(l), "ip", ip(num, l)) ELSE l]
  <2>8. ASSUME NEW l \in links
        PROVE  /\ r[l] \in LinkRec /\ r[l].ends = l.ends /\ r[l].key = l.key
               /\ r[l].port = l.port /\ r[l].name = l.name
               /\ l \in HostLinks => r[l].ip[End(l, HostOf(l))] = ip(num, l)
    <3>1. l \in LinkRec
      BY DEF IInv, LinksInv, LinksOK
    <3>2. CASE l \in HostLinks
      <4>1. PICK x, h, d : /\ x = ip(num, l) /\ h = HostOf(l) /\ d = SetEnd(l, h, "ip", x)
                           /\ x \in Ip
        BY <2>6, <3>2
      <4>2. /\ d \in LinkRec /\ d.ends = l.ends /\ d.key = l.key /\ d.port = l.port
            /\ d.name = l.name /\ d.ip[End(l, h)] = x
        BY <3>1, <4>1, EndIpSet
      <4>3. r[l] = d
        BY <3>2, <4>1
      <4> HIDE DEF r, ip
      <4> QED
        BY <4>1, <4>2, <4>3
    <3>3. CASE l \notin HostLinks
      BY <3>1, <3>3
    <3> QED
      BY <3>2, <3>3
  <2>9. HostLinks \subseteq links
    BY DEF HostLinks
  <2>10. links' = {r[l] : l \in links}
    BY <2>2, <2>9
  <2>11. Readdressed(r)
    BY <2>8 DEF Readdressed
  <2>12. \A l, m \in HostLinks : l # m => HostIp(r, l) # HostIp(r, m)
    BY <2>7, <2>8, <2>9 DEF HostIp
  <2>13. nodes' \in NodeMaps /\ IdsOK(nodes') /\ BridgeIdOK(nodes') /\ ServicesOK(nodes')
    BY <2>3 DEF IInv, NodesInv
  <2> HIDE DEF r
  <2> QED
    BY <2>3, <2>10, <2>11, <2>12, <2>13, StrategyKeeps
<1> QED
  BY <1>1, <1>2

(* The default routes that mixed and l3 set. *)
SameNumbers(ns, ms) ==
  /\ ms \in NodeMaps /\ DOMAIN ms = DOMAIN ns
  /\ \A n \in DOMAIN ns : /\ ms[n].id = ns[n].id /\ ms[n].thrift = ns[n].thrift
                          /\ ms[n].grpc = ns[n].grpc /\ ms[n].cpu = ns[n].cpu
                          /\ ms[n].sched = ns[n].sched

(* A default route changes nothing of the numbers. *)
LEMMA SameNumbersKeep ==
  ASSUME NEW ns, NEW ms, SameNumbers(ns, ms), IdsOK(ns), BridgeIdOK(ns), ServicesOK(ns)
  PROVE  IdsOK(ms) /\ BridgeIdOK(ms) /\ ServicesOK(ms)
BY DEF SameNumbers, IdsOK, BridgeIdOK, ServicesOK

(* What changing an address of a node leaves alone. *)
LEMMA AddressFields ==
  ASSUME NEW r \in Node, NEW x \in Ip
  PROVE  /\ LET q == [r EXCEPT !.gw = x]
            IN  /\ q \in Node /\ q.id = r.id /\ q.thrift = r.thrift /\ q.grpc = r.grpc
                /\ q.cpu = r.cpu /\ q.sched = r.sched
         /\ LET q == [r EXCEPT !.ip = x]
            IN  /\ q \in Node /\ q.id = r.id /\ q.thrift = r.thrift /\ q.grpc = r.grpc
                /\ q.cpu = r.cpu /\ q.sched = r.sched
<1> HIDE DEF Ip
<1> QED
  BY DEF Node

(* The last link of a host is one of its links. *)
LEMMA LastInIs ==
  ASSUME IsFiniteSet(HostLinks), NEW order \in SetToSeqs(HostLinks),
         NEW l \in HostLinks
  PROVE  LastIn(order, HostOf(l)) \in HostLinks /\ HostOf(LastIn(order, HostOf(l))) = HostOf(l)
<1>1. PICK k \in Nat : /\ order \in [1..k -> HostLinks] /\ DOMAIN order = 1..k
                       /\ \A x \in HostLinks : \E i \in 1..k : order[i] = x
  BY OrderCovers
<1> DEFINE P == {i \in DOMAIN order : HostOf(order[i]) = HostOf(l)}
<1>2. P \in SUBSET (1..k) /\ P # {}
  BY <1>1
<1>3. PICK i \in P : i = Max(P)
  <2> HIDE DEF P
  <2> QED
    BY <1>2, Positions
<1> QED
  BY <1>1, <1>3 DEF LastIn

(* The default routes leave the numbers of the nodes alone. *)
LEMMA WithGatewaysIs ==
  ASSUME IsFiniteSet(HostLinks), NEW order \in SetToSeqs(HostLinks), NEW ns \in NodeMaps,
         NEW gw \in [HostLinks -> Ip]
  PROVE  SameNumbers(ns, WithGateways(order, ns, gw))
<1>1. PICK ms : ms = WithGateways(order, ns, gw)
  OBVIOUS
<1>2. DOMAIN ms = DOMAIN ns /\ ms = [n \in DOMAIN ns |-> ms[n]]
  BY <1>1 DEF WithGateways
<1>3. ASSUME NEW n \in DOMAIN ns
      PROVE  /\ ms[n] \in Node /\ ms[n].id = ns[n].id /\ ms[n].thrift = ns[n].thrift
             /\ ms[n].grpc = ns[n].grpc /\ ms[n].cpu = ns[n].cpu /\ ms[n].sched = ns[n].sched
  <2>1. ns[n] \in Node
    BY NodeMap
  <2>2. CASE \E l \in HostLinks : HostOf(l) = n
    <3>1. PICK x \in Ip : x = gw[LastIn(order, n)]
      BY <2>2, LastInIs
    <3>2. PICK q : q = [ns[n] EXCEPT !.gw = x]
      OBVIOUS
    <3>3. /\ q \in Node /\ q.id = ns[n].id /\ q.thrift = ns[n].thrift /\ q.grpc = ns[n].grpc
          /\ q.cpu = ns[n].cpu /\ q.sched = ns[n].sched
      BY <2>1, <3>2, AddressFields
    <3>4. ms[n] = q
      BY <1>1, <2>2, <3>1, <3>2 DEF WithGateways
    <3> QED
      BY <3>3, <3>4
  <2>3. CASE ~ \E l \in HostLinks : HostOf(l) = n
    <3>1. ms[n] = ns[n]
      BY <1>1, <2>3 DEF WithGateways
    <3> QED
      BY <2>1, <3>1
  <2> QED
    BY <2>2, <2>3
<1>4. ms \in NodeMaps
  <2>1. DOMAIN ns \subseteq Names
    BY NodeMap
  <2>2. ms \in [DOMAIN ns -> Node]
    BY <1>2, <1>3
  <2> QED
    BY <1>2, <2>1, <2>2, NodeMap
<1>5. SameNumbers(ns, ms)
  BY <1>2, <1>3, <1>4 DEF SameNumbers
<1> QED
  BY <1>1, <1>5

(* The addresses of a cable between two switches. *)
LEMMA CabledIs ==
  ASSUME NEW l \in LinkRec, NEW ns \in NodeMaps,
         l.ends[1] \in DOMAIN ns, l.ends[2] \in DOMAIN ns
  PROVE  LET d == Cabled(l, ns)
         IN  /\ d \in LinkRec /\ d.ends = l.ends /\ d.key = l.key /\ d.port = l.port
             /\ d.name = l.name
<1>1. PICK a \in Int, b \in Int : a = ns[l.ends[1]].id /\ b = ns[l.ends[2]].id
  BY NodeMap DEF Node
<1>2. PICK q : q = [i \in 1..2 |-> <<20, a, b, i>>]
  OBVIOUS
<1>3. q \in Ip \X Ip
  <2>1. <<20, a, b, 1>> \in Ip /\ <<20, a, b, 2>> \in Ip
    BY DEF Ip
  <2>2. q = <<<<20, a, b, 1>>, <<20, a, b, 2>>>>
    BY <1>2
  <2> HIDE DEF Ip
  <2> QED
    BY <2>1, <2>2
<1>4. PICK d : d = [l EXCEPT !.ip = q]
  OBVIOUS
<1>5. /\ d \in LinkRec /\ d.ends = l.ends /\ d.key = l.key /\ d.port = l.port
      /\ d.name = l.name
  <2> HIDE DEF Ip, PortNum, IfName
  <2> QED
    BY <1>3, <1>4 DEF LinkRec
<1>6. Cabled(l, ns) = d
  BY <1>1, <1>2, <1>4 DEF Cabled
<1> QED
  BY <1>5, <1>6

(* What mixed and l3 make of a link. *)
Addressed(l, ns, ip, gw) ==
  IF l \in HostLinks
  THEN SetEnd(SetEnd(l, HostOf(l), "ip", ip[l]), SwitchOf(l), "ip", gw[l])
  ELSE IF l \in Cables THEN Cabled(l, ns) ELSE l

(* The host gets its address, the switch the gateway's. *)
LEMMA AddressedIs ==
  ASSUME IInv, Addressable, NEW l \in links, NEW ns \in NodeMaps, DOMAIN ns = DOMAIN nodes,
         NEW ip \in [HostLinks -> Ip], NEW gw \in [HostLinks -> Ip]
  PROVE  LET d == Addressed(l, ns, ip, gw)
         IN  /\ d \in LinkRec /\ d.ends = l.ends /\ d.key = l.key /\ d.port = l.port
             /\ d.name = l.name
             /\ l \in HostLinks => /\ d.ip[End(l, HostOf(l))] = ip[l]
                                   /\ d.ip[End(l, SwitchOf(l))] = gw[l]
<1>1. l \in LinkRec /\ l.ends[1] \in DOMAIN nodes /\ l.ends[2] \in DOMAIN nodes
  BY DEF IInv, LinksInv, LinksOK
<1>2. CASE l \in HostLinks
  <2>1. PICK h, s, x, y : /\ h = HostOf(l) /\ s = SwitchOf(l) /\ x = ip[l] /\ y = gw[l]
                          /\ x \in Ip /\ y \in Ip
    BY <1>2
  <2>2. End(l, h) \in 1..2 /\ End(l, s) \in 1..2 /\ End(l, s) # End(l, h)
    BY <1>2, <2>1, HostLinkIs
  <2>3. PICK c : c = SetEnd(l, h, "ip", x)
    OBVIOUS
  <2>4. /\ c \in LinkRec /\ c.ends = l.ends /\ c.key = l.key /\ c.port = l.port
        /\ c.name = l.name /\ c.ip[End(l, h)] = x
    BY <1>1, <2>1, <2>3, EndIpSet
  <2>5. PICK d : d = SetEnd(c, s, "ip", y)
    OBVIOUS
  <2>6. /\ d \in LinkRec /\ d.ends = c.ends /\ d.key = c.key /\ d.port = c.port
        /\ d.name = c.name /\ d.ip[End(c, s)] = y
        /\ \A j \in 1..2 : j # End(c, s) => d.ip[j] = c.ip[j]
    BY <2>1, <2>4, <2>5, EndIpSet
  <2>7. End(c, s) = End(l, s)
    BY <2>4 DEF End
  <2>8. d.ip[End(l, h)] = x /\ d.ip[End(l, s)] = y
    BY <2>2, <2>4, <2>6, <2>7
  <2>9. Addressed(l, ns, ip, gw) = d
    BY <1>2, <2>1, <2>3, <2>5 DEF Addressed
  <2> QED
    BY <2>1, <2>4, <2>6, <2>8, <2>9
<1>3. CASE l \notin HostLinks /\ l \in Cables
  <2>1. Addressed(l, ns, ip, gw) = Cabled(l, ns)
    BY <1>3 DEF Addressed
  <2> QED
    BY <1>1, <1>3, <2>1, CabledIs
<1>4. CASE l \notin HostLinks /\ l \notin Cables
  BY <1>1, <1>4 DEF Addressed
<1> QED
  BY <1>2, <1>3, <1>4

(* mixed and l3 keep the invariant when every host has its own address. *)
LEMMA AddressKeeps ==
  ASSUME IInv, Ready, Addressable, NEW order \in SetToSeqs(HostLinks),
         NEW ns, Improves(nodes, ns),
         NEW ip \in [HostLinks -> Ip], NEW gw \in [HostLinks -> Ip],
         \A l, m \in HostLinks : l # m => ip[l] # ip[m],
         Address(order, ns, ip, gw)
  PROVE  IInv'
<1>1. /\ ns \in NodeMaps /\ DOMAIN ns = DOMAIN nodes
      /\ IdsOK(ns) /\ BridgeIdOK(ns) /\ ServicesOK(ns)
      /\ \A n \in DOMAIN nodes : ns[n].cpu = nodes[n].cpu
  BY DEF Improves, IInv, NodesInv
<1>2. SameNumbers(ns, nodes')
  <2>1. nodes' = WithGateways(order, ns, gw)
    BY DEF Address
  <2> QED
    BY <1>1, <2>1, HostLinksFinite, WithGatewaysIs
<1>3. /\ nodes' \in NodeMaps /\ DOMAIN nodes' = DOMAIN nodes
      /\ IdsOK(nodes') /\ BridgeIdOK(nodes') /\ ServicesOK(nodes')
      /\ \A n \in DOMAIN nodes : nodes'[n].cpu = nodes[n].cpu
  <2>1. IdsOK(nodes') /\ BridgeIdOK(nodes') /\ ServicesOK(nodes')
    BY <1>1, <1>2, SameNumbersKeep
  <2> QED
    BY <1>1, <1>2, <2>1 DEF SameNumbers
<1> DEFINE r == [l \in links |-> Addressed(l, ns, ip, gw)]
<1>4. ASSUME NEW l \in links
      PROVE  /\ r[l] \in LinkRec /\ r[l].ends = l.ends /\ r[l].key = l.key
             /\ r[l].port = l.port /\ r[l].name = l.name
             /\ l \in HostLinks => r[l].ip[End(l, HostOf(l))] = ip[l]
  <2>1. r[l] = Addressed(l, ns, ip, gw)
    OBVIOUS
  <2> QED
    BY <1>1, <2>1, AddressedIs
<1>5. HostLinks \subseteq links /\ Cables \subseteq links /\ HostLinks \cap Cables = {}
  BY DEF HostLinks, Cables, IsSwitch
<1>6. links' = {r[l] : l \in links}
  <2>1. links' = (links \ (HostLinks \cup Cables))
                 \cup {SetEnd(SetEnd(l, HostOf(l), "ip", ip[l]), SwitchOf(l), "ip", gw[l])
                       : l \in HostLinks}
                 \cup {Cabled(l, ns) : l \in Cables}
    BY DEF Address
  <2> QED
    BY <1>5, <2>1 DEF Addressed
<1>7. Readdressed(r)
  BY <1>4 DEF Readdressed
<1>8. \A l, m \in HostLinks : l # m => HostIp(r, l) # HostIp(r, m)
  BY <1>4, <1>5 DEF HostIp
<1>9. Called /\ UNCHANGED <<cpu_bridge, tasks, sent>>
  BY DEF Address
<1> HIDE DEF r
<1> QED
  BY <1>3, <1>6, <1>7, <1>8, <1>9, StrategyKeeps

(* The switches of the host links have ids of their own. *)
LEMMA SwitchNumbers ==
  ASSUME IInv, Addressable, Identifiable
  PROVE  /\ Improves(nodes, Identified)
         /\ \A l \in HostLinks : Identified[SwitchOf(l)].id \in Int
         /\ \A l, m \in HostLinks : SwitchOf(l) # SwitchOf(m) =>
              Identified[SwitchOf(l)].id # Identified[SwitchOf(m)].id
<1>1. PICK ns : ns = Identified
  OBVIOUS
<1>2. /\ Improves(nodes, ns)
      /\ \A n \in DOMAIN nodes : IsP4Switch(n) => ns[n].id # NoNum
  BY <1>1, IdentifiedImproves DEF Identified, IInv, NodesInv
<1>3. /\ ns \in NodeMaps /\ DOMAIN ns = DOMAIN nodes /\ IdsOK(ns)
      /\ \A n \in DOMAIN nodes : nodes[n].id # NoNum => ns[n].id # NoNum
  BY <1>2 DEF Improves, IInv, NodesInv
<1>4. ASSUME NEW n \in DOMAIN nodes, IsSwitch(n), n # CpuSwitch
      PROVE  ns[n].id # NoNum /\ ns[n].id \in Int
  <2>1. Kind[n] \in {"switch", "p4", "p4rt"}
    <3>1. n \in Names
      BY NodeMap DEF IInv, NodesInv
    <3> QED
      BY <1>4, <3>1, NetworkAPIAssumption DEF IsSwitch, IsHost
  <2>2. Kind[n] = "switch" => ns[n].id # NoNum
    BY <1>3, <1>4 DEF Identifiable
  <2>3. ns[n] \in Node
    BY <1>3, NodeMap
  <2> QED
    BY <1>2, <2>1, <2>2, <2>3 DEF Node, IsP4Switch
<1>5. ASSUME NEW l \in HostLinks
      PROVE  SwitchOf(l) \in DOMAIN nodes /\ IsSwitch(SwitchOf(l)) /\ SwitchOf(l) # CpuSwitch
  BY HostLinkIs
<1> QED
  BY <1>1, <1>2, <1>3, <1>4, <1>5 DEF IdsOK

(* Fewer hosts than the number of the gateway in its network: with more, a *)
(* host without a number may be given the gateway's, which mixed accepts.  *)
Hosts    == {n \in Names : IsHost(n)}
FewHosts == Cardinality(Hosts) < LastHost

(* Without parallel links a host has one link to a switch. *)
LEMMA OneHostLink ==
  ASSUME IInv, Addressable, NEW l \in HostLinks, NEW m \in HostLinks,
         HostOf(l) = HostOf(m), SwitchOf(l) = SwitchOf(m)
  PROVE  l = m
<1>1. ASSUME NEW k \in HostLinks PROVE k \in links /\ Ends(k) = {HostOf(k), SwitchOf(k)}
  <2>1. /\ k \in links /\ HostOf(k) \in Ends(k) /\ SwitchOf(k) \in Ends(k)
        /\ IsHost(HostOf(k)) /\ IsSwitch(SwitchOf(k))
    BY HostLinkIs
  <2>2. HostOf(k) # SwitchOf(k)
    BY <2>1 DEF IsSwitch
  <2> QED
    BY <2>1, <2>2 DEF Ends
<1>2. Ends(l) = Ends(m) /\ l \in links /\ m \in links
  BY <1>1
<1> QED
  BY <1>2 DEF Addressable, IsMultigraph

(* The number of a host without one is not above the number of hosts. *)
Named(num) == \A m \in DOMAIN num : IsNamed(HostOf(m)) => num[m] = HostNum[HostOf(m)]
Low(num)   == \A m \in DOMAIN num : ~ IsNamed(HostOf(m)) => num[m] <= Cardinality(Hosts)

(* Numbering one more link keeps both. *)
LEMMA NumberingLow ==
  ASSUME IInv, Addressable, NEW D \in SUBSET HostLinks, NEW l \in HostLinks, l \notin D,
         NEW num \in [D -> Nat], Named(num), Low(num)
  PROVE  /\ Named(Numbering(SwitchNets, NetNumbers, num, l))
         /\ Low(Numbering(SwitchNets, NetNumbers, num, l))
<1> DEFINE K == {m \in HostLinks : SwitchOf(m) = SwitchOf(l) /\ m # l}
           f == [m \in K |-> IF IsNamed(HostOf(m)) THEN HostNum[HostOf(m)] ELSE num[m]]
           img == {f[m] : m \in K}
           h == [m \in K |-> HostOf(m)]
           used == {num[m] : m \in {k \in DOMAIN num : SwitchNets[k] = SwitchNets[l]}}
           taken == used \cup NetNumbers[l]
           v == IF IsNamed(HostOf(l)) THEN HostNum[HostOf(l)] ELSE NextElement(taken, 1)
<1>1. IsFiniteSet(K)
  BY HostLinksFinite, FS_Subset
<1>2. IsFiniteSet(img) /\ Cardinality(img) <= Cardinality(K)
  <2>1. DOMAIN f = K
    OBVIOUS
  <2> HIDE DEF K, f
  <2> QED
    BY <1>1, <2>1, FiniteImage
<1>3. PICK other : other = Hosts \ {HostOf(l)}
  OBVIOUS
<1>4. /\ IsFiniteSet(other) /\ IsFiniteSet(Hosts) /\ HostOf(l) \in Hosts
      /\ Cardinality(other) = Cardinality(Hosts) - 1
  <2>1. IsFiniteSet(Hosts)
    BY NamesFinite, FS_Subset DEF Hosts
  <2>2. HostOf(l) \in Hosts
    BY HostLinkIs, NodeMap DEF Hosts, IInv, NodesInv
  <2> QED
    BY <1>3, <2>1, <2>2, FS_RemoveElement
<1>5. h \in Injection(K, other)
  <2>1. ASSUME NEW m \in K PROVE HostOf(m) \in other
    <3>1. IsHost(HostOf(m)) /\ HostOf(m) \in Names
      BY HostLinkIs, NodeMap DEF IInv, NodesInv
    <3>2. HostOf(m) # HostOf(l)
      BY OneHostLink
    <3> QED
      BY <1>3, <3>1, <3>2 DEF Hosts
  <2>2. \A m, k \in K : HostOf(m) = HostOf(k) => m = k
    BY OneHostLink
  <2> QED
    BY <2>1, <2>2 DEF Injection, IsInjective
<1>6. Cardinality(K) <= Cardinality(other)
  <2> HIDE DEF K, h
  <2> QED
    BY <1>1, <1>4, <1>5, FS_Injection
<1>7. ASSUME ~ IsNamed(HostOf(l)) PROVE taken \subseteq img
  <2>1. ASSUME NEW x \in used PROVE x \in img
    <3>1. PICK m \in D : x = num[m] /\ SwitchOf(m) = SwitchOf(l)
      BY DEF SwitchNets
    <3>2. m \in K /\ f[m] = num[m]
      BY <3>1 DEF Named
    <3> QED
      BY <3>1, <3>2
  <2>2. ASSUME NEW x \in NetNumbers[l] PROVE x \in img
    <3>1. PICK m \in HostLinks : /\ x = HostNum[HostOf(m)] /\ SwitchOf(m) = SwitchOf(l)
                                 /\ IsNamed(HostOf(m))
      BY DEF NetNumbers
    <3>2. m \in K /\ f[m] = x
      BY <1>7, <3>1
    <3> QED
      BY <3>2
  <2> QED
    BY <2>1, <2>2
<1>8. ASSUME ~ IsNamed(HostOf(l)) PROVE v <= Cardinality(Hosts)
  <2>1. IsFiniteSet(taken) /\ Cardinality(taken) <= Cardinality(img)
    <3> HIDE DEF taken, img
    <3> QED
      BY <1>2, <1>7, <1>8, FS_Subset
  <2>2. PICK one \in Nat, c \in Nat : one = 1 /\ c = Cardinality(taken)
    BY <2>1, FS_CardinalityType
  <2>3. NextElement(taken, one) \in one..(one + c)
    BY <2>1, <2>2, NextIsFree
  <2>4. /\ Cardinality(img) \in Nat /\ Cardinality(K) \in Nat /\ Cardinality(other) \in Nat
        /\ Cardinality(Hosts) \in Nat
    BY <1>1, <1>2, <1>4, FS_CardinalityType
  <2>5. v = NextElement(taken, one)
    BY <1>8, <2>2
  <2> HIDE DEF taken, img, K, v
  <2> QED
    BY <1>2, <1>4, <1>6, <2>1, <2>2, <2>3, <2>4, <2>5
<1>9. PICK r : r = Put(num, l, v)
  OBVIOUS
<1>10. Numbering(SwitchNets, NetNumbers, num, l) = r
  BY <1>9 DEF Numbering
<1>11. DOMAIN r = D \cup {l} /\ r[l] = v /\ \A m \in D : r[m] = num[m]
  <2> HIDE DEF v
  <2> QED
    BY <1>9 DEF Put
<1>12. Named(r) /\ Low(r)
  <2>1. IsNamed(HostOf(l)) => v = HostNum[HostOf(l)]
    OBVIOUS
  <2> HIDE DEF v
  <2> QED
    BY <1>8, <1>11, <2>1 DEF Named, Low
<1> QED
  BY <1>10, <1>12

(* So it does for all host links. *)
LEMMA NumberedLow ==
  ASSUME IInv, Addressable, NEW order \in SetToSeqs(HostLinks)
  PROVE  Low(Numbered(order, SwitchNets, NetNumbers))
<1>1. PICK k \in Nat : /\ order \in [1..k -> HostLinks] /\ DOMAIN order = 1..k
                       /\ \A x \in HostLinks : \E i \in 1..k : order[i] = x
                       /\ \A i, j \in 1..k : i # j => order[i] # order[j]
  BY HostLinksFinite, OrderCovers
<1> DEFINE D == 1..k
<1>2. PICK num0 \in Numberings : num0 = <<>> /\ num0 \in [{} -> Nat]
  <2>1. <<>> \in [{} -> Nat]
    OBVIOUS
  <2>2. {} \in SUBSET HostLinks
    OBVIOUS
  <2>3. <<>> \in Numberings
    BY <2>1, <2>2 DEF Numberings
  <2> QED
    BY <2>1, <2>3
<1>3. PICK g : /\ Numbered(order, SwitchNets, NetNumbers) = g[1..k]
               /\ IsNumbering(g, num0, SwitchNets, NetNumbers, k, order)
  BY <1>1, <1>2, HostLinksFinite, NumberedIs
<1>4. /\ Numbered(order, SwitchNets, NetNumbers) = g[D]
      /\ g[{}] = num0
      /\ \A s \in SUBSET D : s # {} =>
           g[s] = Numbering(SwitchNets, NetNumbers, g[s \ {Max(s)}], order[Max(s)])
  BY <1>3 DEF IsNumbering
<1> DEFINE pick == [s \in SUBSET D |-> Max(s)]
           Good == {s \in SUBSET D : /\ g[s] \in [{order[i] : i \in s} -> Nat]
                                     /\ Named(g[s]) /\ Low(g[s])}
<1>5. IsFiniteSet(D) /\ \A s \in SUBSET D : s # {} => Max(s) \in s
  BY Positions
<1>6. {} \in Good
  <2>1. {order[i] : i \in {}} = {} /\ DOMAIN num0 = {}
    BY <1>2
  <2>2. Named(num0) /\ Low(num0)
    BY <2>1 DEF Named, Low
  <2> QED
    BY <1>2, <1>4, <2>1, <2>2
<1>7. ASSUME NEW s \in SUBSET D, s # {}, s \ {Max(s)} \in Good
      PROVE  s \in Good
  <2>1. PICK i \in s : i = Max(s)
    BY <1>5, <1>7
  <2>2. PICK E, l : E = {order[j] : j \in s \ {i}} /\ l = order[i]
    OBVIOUS
  <2>3. PICK num \in [E -> Nat] : num = g[s \ {i}] /\ Named(num) /\ Low(num)
    BY <1>7, <2>1, <2>2
  <2>4. g[s] = Numbering(SwitchNets, NetNumbers, num, l)
    BY <1>4, <1>7, <2>1, <2>2, <2>3
  <2>5. E \in SUBSET HostLinks /\ l \in HostLinks /\ l \notin E
    BY <1>1, <2>2
  <2>6. Numbering(SwitchNets, NetNumbers, num, l) \in [E \cup {l} -> Nat]
    BY <2>5, HostLinksFinite, NumberingType
  <2>7. {order[j] : j \in s} = E \cup {l}
    BY <2>2
  <2>8. /\ Named(Numbering(SwitchNets, NetNumbers, num, l))
        /\ Low(Numbering(SwitchNets, NetNumbers, num, l))
    BY <2>3, <2>5, NumberingLow
  <2> QED
    BY <2>4, <2>6, <2>7, <2>8
<1> HIDE DEF Good
<1>8. Inductive(D, pick, Good)
  BY <1>5, <1>6, <1>7 DEF Inductive
<1>9. SUBSET D \subseteq Good
  BY <1>5, <1>8, SubsetInduction
<1>10. D \in Good
  BY <1>9
<1> QED
  BY <1>4, <1>10 DEF Good

(* How mixed and l3 address the host links: every host gets an address of  *)
(* its own.                                                                *)
Addresses(order, ns, ip, gw) ==
  /\ order \in SetToSeqs(HostLinks) /\ Improves(nodes, ns)
  /\ ip \in [HostLinks -> Ip] /\ gw \in [HostLinks -> Ip]
  /\ \A l, m \in HostLinks : l # m => ip[l] # ip[m]
  /\ Address(order, ns, ip, gw)

(* A host and its gateway have addresses of the same /24 network. *)
SameNet(a, b) == a # NoIp /\ b # NoIp /\ a # b /\ \A i \in 1..3 : a[i] = b[i]

(* The addresses that mixed and l3 write. *)
LEMMA AddressTypes ==
  ASSUME NEW a \in Int, NEW b \in Int, NEW c \in Int, NEW d \in Int
  PROVE  /\ <<10, a, b, c>> \in Ip
         /\ c # d => SameNet(<<10, a, b, c>>, <<10, a, b, d>>)
<1>1. <<10, a, b, c>> \in Ip
  BY DEF Ip
<1>2. \A i \in 1..3 : i = 1 \/ i = 2 \/ i = 3
  OBVIOUS
<1> QED
  BY <1>1, <1>2 DEF SameNet, NoIp

(* l3: the switch and the number are in the third and second byte. *)
LEMMA L3Addresses ==
  ASSUME IInv, L3, ~ Raise
  PROVE  /\ Ready /\ Addressable
         /\ \E order, ns, ip, gw :
              Addresses(order, ns, ip, gw) /\ \A l \in HostLinks : SameNet(gw[l], ip[l])
<1>1. Ready /\ Addressable /\ Identifiable
  BY DEF L3
<1>2. PICK order \in SetToSeqs(HostLinks) :
        LET num == Numbered(order, SwitchNets, NetNumbers)
            addr(l, k) == <<10, Identified[SwitchOf(l)].id, num[l], k>>
            ip == [l \in HostLinks |-> addr(l, 2)]
            gw == [l \in HostLinks |-> addr(l, 1)]
        IN  NoTwice(num, SwitchNets) /\ Address(order, Identified, ip, gw)
  BY DEF L3
<1>3. PICK num : num = Numbered(order, SwitchNets, NetNumbers)
  OBVIOUS
<1> DEFINE addr(l, k) == <<10, Identified[SwitchOf(l)].id, num[l], k>>
           ip == [l \in HostLinks |-> addr(l, 2)]
           gw == [l \in HostLinks |-> addr(l, 1)]
<1>4. NoTwice(num, SwitchNets) /\ Address(order, Identified, ip, gw)
  BY <1>2, <1>3
<1>5. num \in [HostLinks -> Nat]
  BY <1>3, HostLinksFinite, NumberedType
<1>6. /\ Improves(nodes, Identified)
      /\ \A l \in HostLinks : Identified[SwitchOf(l)].id \in Int
      /\ \A l, m \in HostLinks : SwitchOf(l) # SwitchOf(m) =>
           Identified[SwitchOf(l)].id # Identified[SwitchOf(m)].id
  BY <1>1, SwitchNumbers
<1>7. ASSUME NEW l \in HostLinks
      PROVE  ip[l] \in Ip /\ gw[l] \in Ip /\ SameNet(gw[l], ip[l])
  <2>1. PICK a \in Int, b \in Int, one \in Int, two \in Int :
          a = Identified[SwitchOf(l)].id /\ b = num[l] /\ one = 1 /\ two = 2
    BY <1>5, <1>6
  <2>2. ip[l] = <<10, a, b, two>> /\ gw[l] = <<10, a, b, one>> /\ one # two
    BY <2>1
  <2>3. /\ <<10, a, b, one>> \in Ip /\ <<10, a, b, two>> \in Ip
        /\ SameNet(<<10, a, b, one>>, <<10, a, b, two>>)
    BY <2>2, AddressTypes
  <2> QED
    BY <2>2, <2>3
<1>8. ip \in [HostLinks -> Ip] /\ gw \in [HostLinks -> Ip]
  <2> HIDE DEF addr
  <2> QED
    BY <1>7
<1>9. \A l, m \in HostLinks : l # m => ip[l] # ip[m]
  <2> SUFFICES ASSUME NEW l \in HostLinks, NEW m \in HostLinks, l # m, addr(l, 2) = addr(m, 2)
               PROVE  FALSE
    OBVIOUS
  <2>1. SwitchOf(l) = SwitchOf(m)
    BY <1>6
  <2>2. num[l] = num[m]
    OBVIOUS
  <2> QED
    BY <1>4, <1>5, <2>1, <2>2 DEF NoTwice, SwitchNets
<1> HIDE DEF ip, gw
<1>10. Addresses(order, Identified, ip, gw)
  BY <1>4, <1>6, <1>8, <1>9 DEF Addresses
<1> QED
  BY <1>1, <1>7, <1>10

(* l3 keeps the invariant. *)
LEMMA L3Keeps ==
  ASSUME IInv, L3
  PROVE  IInv'
<1>1. CASE Raise
  BY <1>1, RaiseKeeps DEF L3
<1>2. CASE ~ Raise
  <2>1. PICK order, ns, ip, gw : Addresses(order, ns, ip, gw)
    BY <1>2, L3Addresses
  <2>2. Ready /\ Addressable
    BY <1>2, L3Addresses
  <2> QED
    BY <2>1, <2>2, AddressKeeps DEF Addresses
<1> QED
  BY <1>1, <1>2

(* mixed: the switch is in the middle bytes, the number in the last one. *)
LEMMA MixedAddresses ==
  ASSUME IInv, Mixed, ~ Raise
  PROVE  /\ Ready /\ Addressable
         /\ \E order, ns, ip, gw :
              /\ Addresses(order, ns, ip, gw)
              /\ FewHosts => \A l \in HostLinks : SameNet(gw[l], ip[l])
<1>1. Ready /\ Addressable /\ Identifiable
  BY DEF Mixed
<1>2. PICK order \in SetToSeqs(HostLinks) :
        LET num == Numbered(order, SwitchNets, NetNumbers)
            addr(l, k) == <<10, Identified[SwitchOf(l)].id \div 256,
                            Identified[SwitchOf(l)].id % 256, k>>
            ip == [l \in HostLinks |-> addr(l, num[l])]
            gw == [l \in HostLinks |-> addr(l, LastHost)]
        IN  /\ NoTwice(num, SwitchNets) /\ Address(order, Identified, ip, gw)
            /\ \A l \in HostLinks : IsNamed(HostOf(l)) => num[l] < LastHost
  BY DEF Mixed
<1>3. PICK num : num = Numbered(order, SwitchNets, NetNumbers)
  OBVIOUS
<1> DEFINE addr(l, k) == <<10, Identified[SwitchOf(l)].id \div 256,
                           Identified[SwitchOf(l)].id % 256, k>>
           ip == [l \in HostLinks |-> addr(l, num[l])]
           gw == [l \in HostLinks |-> addr(l, LastHost)]
<1>4. /\ NoTwice(num, SwitchNets) /\ Address(order, Identified, ip, gw)
      /\ \A l \in HostLinks : IsNamed(HostOf(l)) => num[l] < LastHost
  BY <1>2, <1>3
<1>5. num \in [HostLinks -> Nat]
  BY <1>3, HostLinksFinite, NumberedType
<1>6. /\ Improves(nodes, Identified)
      /\ \A l \in HostLinks : Identified[SwitchOf(l)].id \in Int
      /\ \A l, m \in HostLinks : SwitchOf(l) # SwitchOf(m) =>
           Identified[SwitchOf(l)].id # Identified[SwitchOf(m)].id
  BY <1>1, SwitchNumbers
<1>7. ASSUME NEW l \in HostLinks, FewHosts PROVE num[l] # LastHost
  <2>1. Low(num)
    BY <1>1, <1>3, NumberedLow
  <2>2. Cardinality(Hosts) \in Nat /\ LastHost \in Nat /\ num[l] \in Nat
    <3>1. IsFiniteSet(Hosts)
      BY NamesFinite, FS_Subset DEF Hosts
    <3> QED
      BY <1>5, <3>1, FS_CardinalityType, NetworkAPIAssumption
  <2>3. ~ IsNamed(HostOf(l)) => num[l] <= Cardinality(Hosts)
    BY <1>5, <2>1 DEF Low
  <2> QED
    BY <1>4, <1>7, <2>2, <2>3 DEF FewHosts
<1>8. ASSUME NEW l \in HostLinks
      PROVE  ip[l] \in Ip /\ gw[l] \in Ip /\ (FewHosts => SameNet(gw[l], ip[l]))
  <2>1. \A x \in Int : x \div 256 \in Int /\ x % 256 \in Int
    OBVIOUS
  <2>2. PICK a \in Int, b \in Int : /\ a = Identified[SwitchOf(l)].id \div 256
                                    /\ b = Identified[SwitchOf(l)].id % 256
    BY <1>6, <2>1
  <2>3. PICK k \in Int, last \in Int : k = num[l] /\ last = LastHost
    BY <1>5, NetworkAPIAssumption
  <2>4. ip[l] = <<10, a, b, k>> /\ gw[l] = <<10, a, b, last>>
    BY <2>2, <2>3
  <2>5. /\ <<10, a, b, k>> \in Ip /\ <<10, a, b, last>> \in Ip
        /\ last # k => SameNet(<<10, a, b, last>>, <<10, a, b, k>>)
    BY AddressTypes
  <2> HIDE DEF ip, gw
  <2> QED
    BY <1>7, <2>3, <2>4, <2>5
<1>9. ip \in [HostLinks -> Ip] /\ gw \in [HostLinks -> Ip]
  <2> HIDE DEF addr
  <2> QED
    BY <1>8
<1>10. \A l, m \in HostLinks : l # m => ip[l] # ip[m]
  <2> SUFFICES ASSUME NEW l \in HostLinks, NEW m \in HostLinks, l # m,
                      addr(l, num[l]) = addr(m, num[m])
               PROVE  FALSE
    OBVIOUS
  <2>1. PICK x \in Int, y \in Int : /\ x = Identified[SwitchOf(l)].id
                                    /\ y = Identified[SwitchOf(m)].id
    BY <1>6
  <2>2. x \div 256 = y \div 256 /\ x % 256 = y % 256 /\ num[l] = num[m]
    BY <2>1
  <2>3. x = y
    BY <2>2
  <2>4. SwitchOf(l) = SwitchOf(m)
    BY <1>6, <2>1, <2>3
  <2> QED
    BY <1>4, <1>5, <2>2, <2>4 DEF NoTwice, SwitchNets
<1> HIDE DEF ip, gw
<1>11. Addresses(order, Identified, ip, gw)
  BY <1>4, <1>6, <1>9, <1>10 DEF Addresses
<1> QED
  BY <1>1, <1>8, <1>11

(* mixed keeps the invariant. *)
LEMMA MixedKeeps ==
  ASSUME IInv, Mixed
  PROVE  IInv'
<1>1. CASE Raise
  BY <1>1, RaiseKeeps DEF Mixed
<1>2. CASE ~ Raise
  <2>1. PICK order, ns, ip, gw : Addresses(order, ns, ip, gw)
    BY <1>2, MixedAddresses
  <2>2. Ready /\ Addressable
    BY <1>2, MixedAddresses
  <2> QED
    BY <2>1, <2>2, AddressKeeps DEF Addresses
<1> QED
  BY <1>1, <1>2

-----------------------------------------------------------------------------
(* The start.                                                              *)

(* The address a host takes over is that of one of its interfaces. *)
LEMMA DefaultIs ==
  ASSUME NEW ls, LinksOK(ls), \A l \in ls : Full(l), NEW h, At(ls, h) # {}
  PROVE  /\ DefaultIntf(ls, h) \in At(ls, h)
         /\ DefaultIntf(ls, h).ip[End(DefaultIntf(ls, h), h)] \in Ip
<1> DEFINE P == PortsOf(ls, h)
<1>1. ASSUME NEW l \in At(ls, h)
      PROVE  /\ l \in ls /\ l \in LinkRec /\ End(l, h) \in 1..2
             /\ l.port[End(l, h)] \in P /\ l.port[End(l, h)] \in Nat
  <2>1. l \in ls /\ h \in Ends(l)
    BY DEF At
  <2>2. l \in LinkRec /\ l.ends[1] # l.ends[2]
    BY <2>1 DEF LinksOK
  <2>3. PICK i \in 1..2 : i = End(l, h)
    BY <2>2, EndIs
  <2>4. l.port[i] # NoNum /\ l.port[i] \in PortNum
    BY <2>1, <2>2, LinkTypes DEF Full
  <2>5. l.port[i] \in P
    BY <2>3, <2>4 DEF PortsOf
  <2> QED
    BY <2>1, <2>2, <2>3, <2>4, <2>5 DEF PortNum
<1>2. P \in SUBSET Nat /\ P # {}
  <2>1. ASSUME NEW p \in P PROVE p \in Nat
    <3>1. PICK l \in At(ls, h) : p = l.port[End(l, h)]
      BY DEF PortsOf
    <3> QED
      BY <1>1, <3>1
  <2>2. P # {}
    BY <1>1
  <2> QED
    BY <2>1, <2>2
<1>3. Min(P) \in P
  <2> HIDE DEF P
  <2> QED
    BY <1>2, MinOf
<1>4. \E l \in At(ls, h) : l.port[End(l, h)] = Min(PortsOf(ls, h))
  BY <1>3 DEF PortsOf
<1>5. PICK d : d = DefaultIntf(ls, h)
  OBVIOUS
<1>6. d \in At(ls, h)
  BY <1>4, <1>5 DEF DefaultIntf
<1>7. d.ip[End(d, h)] \in Ip
  BY <1>1, <1>6, LinkTypes
<1> QED
  BY <1>5, <1>6, <1>7

(* The default addresses leave the numbers of the nodes alone. *)
LEMMA WithDefaultsIs ==
  ASSUME NEW ls, LinksOK(ls), \A l \in ls : Full(l), NEW ns \in NodeMaps
  PROVE  SameNumbers(ns, WithDefaults(ns, ls))
<1>1. PICK ms : ms = WithDefaults(ns, ls)
  OBVIOUS
<1>2. DOMAIN ms = DOMAIN ns /\ ms = [n \in DOMAIN ns |-> ms[n]]
  BY <1>1 DEF WithDefaults
<1>3. ASSUME NEW n \in DOMAIN ns
      PROVE  /\ ms[n] \in Node /\ ms[n].id = ns[n].id /\ ms[n].thrift = ns[n].thrift
             /\ ms[n].grpc = ns[n].grpc /\ ms[n].cpu = ns[n].cpu /\ ms[n].sched = ns[n].sched
  <2>1. ns[n] \in Node
    BY NodeMap
  <2>2. CASE IsHost(n) /\ At(ls, n) # {}
    <3>1. PICK x \in Ip : x = DefaultIntf(ls, n).ip[End(DefaultIntf(ls, n), n)]
      BY <2>2, DefaultIs
    <3>2. PICK q : q = [ns[n] EXCEPT !.ip = x]
      OBVIOUS
    <3>3. /\ q \in Node /\ q.id = ns[n].id /\ q.thrift = ns[n].thrift /\ q.grpc = ns[n].grpc
          /\ q.cpu = ns[n].cpu /\ q.sched = ns[n].sched
      BY <2>1, <3>2, AddressFields
    <3>4. ms[n] = q
      BY <1>1, <2>2, <3>1, <3>2 DEF WithDefaults
    <3> QED
      BY <3>3, <3>4
  <2>3. CASE ~ (IsHost(n) /\ At(ls, n) # {})
    <3>1. ms[n] = ns[n]
      BY <1>1, <2>3 DEF WithDefaults
    <3> QED
      BY <2>1, <3>1
  <2> QED
    BY <2>2, <2>3
<1>4. ms \in NodeMaps
  <2>1. DOMAIN ns \subseteq Names
    BY NodeMap
  <2>2. ms \in [DOMAIN ns -> Node]
    BY <1>2, <1>3
  <2> QED
    BY <1>2, <2>1, <2>2, NodeMap
<1>5. SameNumbers(ns, ms)
  BY <1>2, <1>3, <1>4 DEF SameNumbers
<1> QED
  BY <1>1, <1>5

(* What the start makes of the nodes and the links. *)
LEMMA StartedIs ==
  ASSUME IInv, StartNetwork
  PROVE  /\ AssignLinks(links).ok /\ AllFilled(links, links') /\ \A d \in links' : Full(d)
         /\ SameNumbers(AssignNodes(nodes), nodes') /\ Improves(nodes, AssignNodes(nodes))
         /\ \A n \in DOMAIN nodes : Numbers(AssignNodes(nodes), n)
<1>1. /\ status = "open" /\ links' = AssignLinks(links).links
      /\ nodes' = WithDefaults(AssignNodes(nodes), AssignLinks(links).links)
  BY DEF StartNetwork
<1>2. LinksOK(links) /\ PortsOK(links) /\ NamesOK(links) /\ IpsOK(links) /\ NoEth(links)
  BY <1>1 DEF IInv, LinksInv, StatusInv
<1>3. AssignLinks(links).ok /\ AllFilled(links, links')
  BY <1>1, <1>2, LinksAssigned
<1>4. LinksOK(links') /\ \A d \in links' : Full(d)
  BY <1>3 DEF AllFilled
<1>5. Improves(nodes, AssignNodes(nodes)) /\ \A n \in DOMAIN nodes : Numbers(AssignNodes(nodes), n)
  BY AssignedImproves DEF IInv, NodesInv
<1>6. SameNumbers(AssignNodes(nodes), nodes')
  BY <1>1, <1>4, <1>5, WithDefaultsIs DEF Improves
<1> QED
  BY <1>3, <1>4, <1>5, <1>6

(* startNetwork is not refused by anything auto_assignment chose. *)
LEMMA StartNetworkKeeps ==
  ASSUME IInv, StartNetwork
  PROVE  IInv'
<1>1. /\ AssignLinks(links).ok /\ AllFilled(links, links') /\ \A d \in links' : Full(d)
      /\ SameNumbers(AssignNodes(nodes), nodes') /\ Improves(nodes, AssignNodes(nodes))
      /\ \A n \in DOMAIN nodes : Numbers(AssignNodes(nodes), n)
  BY StartedIs
<1>2. /\ status = "open" /\ status' \in {"started", "startFailed"}
      /\ status' = "started" => Schedulable \subseteq DOMAIN nodes
      /\ CpuConsistent /\ Schedulable \subseteq DOMAIN nodes => status' = "started"
      /\ sent' = Distributed /\ tasks' = <<>> /\ cpu_bridge' = cpu_bridge /\ calls' = calls
  BY <1>1 DEF StartNetwork
<1>3. PICK ns : ns = AssignNodes(nodes)
  OBVIOUS
<1>4. /\ DOMAIN nodes' = DOMAIN nodes /\ nodes' \in NodeMaps
      /\ \A n \in DOMAIN nodes : /\ nodes'[n].cpu = nodes[n].cpu
                                 /\ nodes'[n].sched = nodes[n].sched
                                 /\ Numbers(nodes', n)
  BY <1>1, <1>3 DEF SameNumbers, Improves, Numbers
<1>5. NodesInv'
  <2>1. IdsOK(ns) /\ BridgeIdOK(ns) /\ ServicesOK(ns)
    BY <1>1, <1>3 DEF Improves, IInv, NodesInv
  <2>2. IdsOK(nodes') /\ BridgeIdOK(nodes') /\ ServicesOK(nodes')
    BY <1>1, <1>3, <2>1, SameNumbersKeep
  <2> QED
    BY <1>4, <2>2 DEF NodesInv
<1>6. ASSUME NEW l, NEW d, Filled(l, d)
      PROVE  /\ d.ends = l.ends /\ Ends(d) = Ends(l)
             /\ l.name[1] # NoName => d.name[1] = l.name[1]
  <2>1. 1 \in 1..2
    OBVIOUS
  <2> QED
    BY <1>6, <2>1 DEF Filled, Ends
<1>7. LinksInv'
  <2>1. ASSUME NEW d \in links' PROVE d.ends[1] \in DOMAIN nodes' /\ d.ends[2] \in DOMAIN nodes'
    <3>1. PICK l \in links : Filled(l, d)
      BY <1>1 DEF AllFilled
    <3> QED
      BY <1>4, <1>6, <3>1 DEF IInv, LinksInv
  <2> QED
    BY <1>1, <2>1 DEF LinksInv, AllFilled
<1>8. BridgeInv'
  <2>1. cpu_bridge' = DOMAIN nodes' \cap {CpuSwitch}
    BY <1>2, <1>4 DEF IInv, BridgeInv
  <2>2. CpuSwitch \in DOMAIN nodes' => ~ nodes'[CpuSwitch].cpu
    BY <1>4 DEF IInv, BridgeInv
  <2>3. ASSUME NEW d \in links', CpuSwitch \in Ends(d)
        PROVE  d.ends[2] = CpuSwitch /\ d.name[1] = CpuName(d.ends[1]) /\ nodes'[d.ends[1]].cpu
    <3>1. PICK l \in links : Filled(l, d)
      BY <1>1 DEF AllFilled
    <3>2. d.ends = l.ends /\ Ends(d) = Ends(l) /\ (l.name[1] # NoName => d.name[1] = l.name[1])
      BY <1>6, <3>1
    <3>3. l.ends[2] = CpuSwitch /\ l.name[1] = CpuName(l.ends[1]) /\ nodes[l.ends[1]].cpu
      BY <2>3, <3>2 DEF IInv, BridgeInv
    <3>4. l.name[1] # NoName
      BY <3>3 DEF CpuName, NoName
    <3>5. l.ends[1] \in DOMAIN nodes
      BY DEF IInv, LinksInv
    <3> QED
      BY <1>4, <3>2, <3>3, <3>4, <3>5
  <2>4. ASSUME NEW n \in DOMAIN nodes', nodes'[n].cpu
        PROVE  IsP4Switch(n) /\ \E d \in links' : d.ends[1] = n /\ d.ends[2] = CpuSwitch
    <3>1. n \in DOMAIN nodes /\ nodes[n].cpu
      BY <1>4, <2>4
    <3>2. IsP4Switch(n) /\ \E l \in links : l.ends[1] = n /\ l.ends[2] = CpuSwitch
      BY <3>1 DEF IInv, BridgeInv
    <3>3. PICK l \in links : l.ends[1] = n /\ l.ends[2] = CpuSwitch
      BY <3>2
    <3>4. PICK d \in links' : Filled(l, d)
      BY <1>1 DEF AllFilled
    <3>5. d.ends[1] = n /\ d.ends[2] = CpuSwitch
      BY <1>6, <3>3, <3>4
    <3> QED
      BY <3>2, <3>5
  <2> QED
    BY <2>1, <2>2, <2>3, <2>4 DEF BridgeInv
<1>9. TasksInv'
  <2>1. DOMAIN tasks' = {}
    BY <1>2
  <2>2. DOMAIN sent' = Schedulable
    BY <1>2 DEF Distributed
  <2>3. Schedulable \subseteq Names
    BY DEF IInv, TasksInv, Schedulable, UserNodes
  <2>4. ASSUME status' = "started", NEW n \in Schedulable
        PROVE  n \in DOMAIN nodes' /\ nodes'[n].sched
    BY <1>2, <1>4, <2>4 DEF Schedulable
  <2> QED
    BY <2>1, <2>2, <2>3, <2>4 DEF TasksInv
<1>10. CpuConsistent
  <2> SUFFICES ASSUME NEW l \in links, CpuSwitch \in Ends(l)
               PROVE  nodes[Other(l, CpuSwitch)].cpu
    BY DEF CpuConsistent, At
  <2>1. l.ends[1] # l.ends[2]
    BY DEF IInv, LinksInv, LinksOK
  <2>2. l.ends[2] = CpuSwitch /\ nodes[l.ends[1]].cpu
    BY DEF IInv, BridgeInv
  <2>3. End(l, CpuSwitch) = 2
    BY <2>1, <2>2 DEF End
  <2>4. Other(l, CpuSwitch) = l.ends[1]
    BY <2>3 DEF Other
  <2> QED
    BY <2>2, <2>4
<1>11. StatusInv'
  <2>1. ~ DeletesBusy => Schedulable \subseteq DOMAIN nodes
    BY DEF IInv, TasksInv, Schedulable
  <2>2. ~ DeletesBusy => status' # "startFailed"
    BY <1>2, <1>10, <2>1
  <2>3. calls' \in 0..MaxCalls
    BY <1>2 DEF IInv, StatusInv
  <2> QED
    BY <1>1, <1>2, <1>4, <2>2, <2>3 DEF StatusInv
<1> QED
  BY <1>5, <1>7, <1>8, <1>9, <1>11 DEF IInv

-----------------------------------------------------------------------------
(* Every step keeps the invariant.                                         *)

(* Every step keeps the invariant, one lemma for each operation. *)
LEMMA NextKeeps ==
  ASSUME IInv, Next
  PROVE  IInv'
<1>1. ASSUME NEW n \in UserNodes,
             \/ AddNode(n) \/ DeleteNode(n)
             \/ EnableCpuPort(n) \/ DisableCpuPort(n)
             \/ \E on \in BOOLEAN : SetScheduler(n, on) \/ AddTask(n, on)
             \/ \E id \in UserIds : SetP4SwitchId(n, id)
             \/ \E p \in UserServices : SetThriftPort(n, p) \/ SetGrpcPort(n, p)
      PROVE  IInv'
  <2>1. CASE AddNode(n)
    BY <2>1, AddNodeKeeps
  <2>2. CASE DeleteNode(n)
    BY <2>2, DeleteNodeKeeps
  <2>3. CASE EnableCpuPort(n)
    BY <2>3, EnableCpuPortKeeps
  <2>4. CASE DisableCpuPort(n)
    BY <2>4, DisableCpuPortKeeps
  <2>5. ASSUME NEW on \in BOOLEAN, SetScheduler(n, on) PROVE IInv'
    BY <2>5, SetSchedulerKeeps
  <2>6. ASSUME NEW on \in BOOLEAN, AddTask(n, on) PROVE IInv'
    BY <2>6, AddTaskKeeps
  <2>7. ASSUME NEW id \in UserIds, SetP4SwitchId(n, id) PROVE IInv'
    BY <2>7, SetP4SwitchIdKeeps
  <2>8. ASSUME NEW p \in UserServices, SetThriftPort(n, p) PROVE IInv'
    BY <2>8, SetThriftPortKeeps
  <2>9. ASSUME NEW p \in UserServices, SetGrpcPort(n, p) PROVE IInv'
    BY <2>9, SetGrpcPortKeeps
  <2> QED
    BY <1>1, <2>1, <2>2, <2>3, <2>4, <2>5, <2>6, <2>7, <2>8, <2>9
<1>2. ASSUME NEW pair \in Pairs,
             NEW ports \in (UserPorts \cup {NoNum}) \X (UserPorts \cup {NoNum}),
             AddLink(pair[1], pair[2], ports)
      PROVE  IInv'
  BY <1>2, AddLinkKeeps
<1>3. ASSUME NEW a \in UserNodes, NEW b \in UserNodes, DeleteLink(a, b) PROVE IInv'
  BY <1>3, DeleteLinkKeeps
<1>4. ASSUME NEW a \in UserNodes, NEW b \in UserNodes, NEW port \in UserPorts,
             SetIntfPort(a, b, port)
      PROVE  IInv'
  BY <1>4, SetIntfPortKeeps
<1>5. ASSUME NEW a \in UserNodes, NEW b \in UserNodes, SetIntfName(a, b, UserName(a)) PROVE IInv'
  BY <1>5, SetIntfNameKeeps
<1>6. CASE L2
  BY <1>6, L2Keeps
<1>7. CASE Mixed
  BY <1>7, MixedKeeps
<1>8. CASE L3
  BY <1>8, L3Keeps
<1>9. CASE StartNetwork
  BY <1>9, StartNetworkKeeps
<1> QED
  BY <1>1, <1>2, <1>3, <1>4, <1>5, <1>6, <1>7, <1>8, <1>9 DEF Next

(* The invariant is about the variables only. *)
LEMMA StutterKeeps ==
  ASSUME IInv, UNCHANGED vars
  PROVE  IInv'
<1>1. /\ nodes' = nodes /\ links' = links /\ cpu_bridge' = cpu_bridge /\ tasks' = tasks
      /\ sent' = sent /\ calls' = calls /\ status' = status
  BY DEF vars
<1> QED
  BY <1>1 DEF IInv, NodesInv, LinksInv, BridgeInv, TasksInv, StatusInv

(* The inductive invariant holds throughout. *)
LEMMA Invariant == Spec => []IInv
<1>1. Init => IInv
  BY InitInv
<1>2. IInv /\ [Next]_vars => IInv'
  BY NextKeeps, StutterKeeps
<1> QED
  BY <1>1, <1>2, PTL DEF Spec

-----------------------------------------------------------------------------
(* What follows.                                                           *)

(* The two ends of a link. *)
LEMMA PairCardinality ==
  ASSUME NEW a, NEW b, a # b
  PROVE  Cardinality({a, b}) = 2
<1>1. IsFiniteSet({a}) /\ Cardinality({a}) = 1
  BY FS_Singleton
<1>2. Cardinality({a} \cup {b}) = 2
  BY <1>1, FS_AddElement
<1>3. {a} \cup {b} = {a, b}
  OBVIOUS
<1> QED
  BY <1>2, <1>3

(* The invariant gives the types. *)
LEMMA TypeFollows == IInv => TypeOK
<1> SUFFICES ASSUME IInv PROVE TypeOK
  OBVIOUS
<1>1. DOMAIN nodes \subseteq Names /\ \A n \in DOMAIN nodes : nodes[n] \in Node
  BY NodeMap DEF IInv, NodesInv
<1>2. ASSUME NEW n \in DOMAIN nodes
      PROVE  /\ DOMAIN nodes[n] = DOMAIN FreshNode
             /\ {nodes[n].id, nodes[n].thrift, nodes[n].grpc} \subseteq Int
             /\ {nodes[n].cpu, nodes[n].sched} \subseteq BOOLEAN
  <2>1. PICK r \in Node : r = nodes[n]
    BY <1>1
  <2>2. DOMAIN r = {"id", "thrift", "grpc", "cpu", "sched", "gw", "ip"}
    BY DEF Node
  <2>3. DOMAIN FreshNode = {"id", "thrift", "grpc", "cpu", "sched", "gw", "ip"}
    BY DEF FreshNode
  <2>4. {r.id, r.thrift, r.grpc} \subseteq Int /\ {r.cpu, r.sched} \subseteq BOOLEAN
    BY DEF Node
  <2> QED
    BY <2>1, <2>2, <2>3, <2>4
<1>3. ASSUME NEW l \in links
      PROVE  /\ Ends(l) \subseteq DOMAIN nodes /\ Cardinality(Ends(l)) = 2
             /\ l.key \in Nat /\ {l.port[1], l.port[2]} \subseteq Int
  <2>1. l \in LinkRec /\ l.ends[1] # l.ends[2]
    BY DEF IInv, LinksInv, LinksOK
  <2>2. l.ends[1] \in DOMAIN nodes /\ l.ends[2] \in DOMAIN nodes
    BY DEF IInv, LinksInv
  <2>3. Cardinality(Ends(l)) = 2
    BY <2>1, PairCardinality DEF Ends
  <2>4. 1 \in 1..2 /\ 2 \in 1..2
    OBVIOUS
  <2>5. l.key \in Nat /\ l.port[1] \in Int /\ l.port[2] \in Int
    BY <2>1, <2>4, LinkTypes
  <2> QED
    BY <2>2, <2>3, <2>5 DEF Ends
<1>4. \A l, m \in links : Ends(l) = Ends(m) /\ l.key = m.key => l = m
  BY DEF IInv, LinksInv, LinksOK
<1>5. cpu_bridge \subseteq {CpuSwitch}
  BY DEF IInv, BridgeInv
<1>6. DOMAIN tasks \cup DOMAIN sent \subseteq Names
  BY DEF IInv, TasksInv, UserNodes
<1>7. status \in {"open", "raised", "started", "startFailed"} /\ calls \in 0..MaxCalls
  BY DEF IInv, StatusInv
<1> QED
  BY <1>1, <1>2, <1>3, <1>4, <1>5, <1>6, <1>7 DEF TypeOK

(* The invariant gives one link to the bridge per CPU port. *)
LEMMA CpuLinksFollow == IInv => CpuLinks
<1> SUFFICES ASSUME IInv PROVE CpuLinks
  OBVIOUS
<1>1. cpu_bridge = DOMAIN nodes \cap {CpuSwitch}
  BY DEF IInv, BridgeInv
<1>2. ASSUME NEW n \in DOMAIN nodes \ {CpuSwitch}
      PROVE  Cardinality(Between(links, n, CpuSwitch)) = IF nodes[n].cpu THEN 1 ELSE 0
  <2>1. ASSUME NEW l \in Between(links, n, CpuSwitch)
        PROVE  l \in links /\ CpuSwitch \in Ends(l) /\ l.ends[1] = n /\ nodes[n].cpu
    <3>1. l \in links /\ Ends(l) = {n, CpuSwitch}
      BY <2>1 DEF Between
    <3>2. l.ends[2] = CpuSwitch /\ nodes[l.ends[1]].cpu
      BY <3>1 DEF IInv, BridgeInv
    <3>3. l.ends[1] = n
      BY <1>2, <3>1, <3>2 DEF Ends
    <3> QED
      BY <3>1, <3>2, <3>3
  <2>2. CASE nodes[n].cpu
    <3>1. PICK l \in links : l.ends[1] = n /\ l.ends[2] = CpuSwitch
      BY <2>2 DEF IInv, BridgeInv
    <3>2. l \in Between(links, n, CpuSwitch)
      BY <3>1 DEF Between, Ends
    <3>3. \A m \in Between(links, n, CpuSwitch) : m = l
      BY <2>1, <3>1, <3>2, OneCpuLink
    <3>4. Between(links, n, CpuSwitch) = {l}
      BY <3>2, <3>3
    <3> QED
      BY <2>2, <3>4, FS_Singleton
  <2>3. CASE ~ nodes[n].cpu
    <3>1. Between(links, n, CpuSwitch) = {}
      BY <2>1, <2>3
    <3> QED
      BY <2>3, <3>1, FS_EmptySet
  <2> QED
    BY <2>2, <2>3
<1> QED
  BY <1>1, <1>2 DEF CpuLinks

(* The invariant gives distinct ports, names, addresses and numbers. *)
LEMMA DistinctFollows ==
  ASSUME ~ SharesPorts
  PROVE  IInv => DistinctWhenStarted
<1> SUFFICES ASSUME IInv, status = "started" PROVE DistinctWhenStarted
  BY DEF DistinctWhenStarted
<1>1. /\ LinksOK(links) /\ PortsOK(links) /\ NamesOK(links) /\ IpsOK(links)
      /\ \A l \in links : Full(l) /\ l.ends[1] # l.ends[2]
      /\ IdsOK(nodes) /\ ServicesOK(nodes) /\ \A n \in DOMAIN nodes : Numbers(nodes, n)
  BY DEF IInv, LinksInv, LinksOK, NodesInv, StatusInv
<1>2. ASSUME NEW n \in DOMAIN nodes, NEW l \in At(links, n), NEW m \in At(links, n)
      PROVE  LET i == End(l, n)  j == End(m, n)
             IN  /\ l.port[i] # NoNum /\ l.name[i] # NoName
                 /\ l # m => l.port[i] # m.port[j] /\ l.name[i] # m.name[j]
  <2>1. l \in links /\ m \in links /\ n \in Ends(l) /\ n \in Ends(m)
    BY DEF At
  <2>2. PICK i \in 1..2, j \in 1..2 : i = End(l, n) /\ j = End(m, n)
    BY <1>1, <2>1, EndIs
  <2>3. l.ends[i] = n /\ m.ends[j] = n
    BY <1>1, <2>1, <2>2, EndIs
  <2>4. l.port[i] # NoNum /\ l.name[i] # NoName
    BY <1>1, <2>1 DEF Full
  <2>5. l # m => l.port[i] # m.port[j] /\ l.name[i] # m.name[j]
    BY <1>1, <2>1, <2>3, <2>4 DEF PortsOK, NamesOK
  <2> QED
    BY <2>2, <2>4, <2>5
<1>3. ASSUME NEW l \in links, NEW m \in links, NEW i \in 1..2, NEW j \in 1..2,
             IsHost(l.ends[i]), IsHost(m.ends[j]), <<l, i>> # <<m, j>>
      PROVE  l.ip[i] # NoIp /\ l.ip[i] # m.ip[j]
  <2>1. l # m \/ i # j
    BY <1>3
  <2>2. l.ip[i] # NoIp
    BY <1>1, <1>3 DEF Full
  <2> QED
    BY <1>1, <1>3, <2>1, <2>2 DEF IpsOK
<1>4. ASSUME NEW n \in DOMAIN nodes, NEW m \in DOMAIN nodes, n # m, IsSwitch(n), IsSwitch(m)
      PROVE  nodes[n].id # nodes[m].id
  BY <1>1, <1>4 DEF IdsOK, Numbers
<1>5. ASSUME NEW n \in DOMAIN nodes, NEW m \in DOMAIN nodes
      PROVE  /\ IsP4Switch(n) /\ n # m =>
                  nodes[n].thrift \notin {NoNum, nodes[m].thrift, nodes[m].grpc}
             /\ Kind[n] = "p4rt" =>
                  /\ nodes[n].grpc \notin {NoNum, nodes[m].thrift}
                  /\ n # m => nodes[n].grpc # nodes[m].grpc
  BY <1>1, <1>5 DEF ServicesOK, Numbers
<1> QED
  BY <1>2, <1>3, <1>4, <1>5 DEF DistinctWhenStarted

(* Only the start starts: every other call leaves the status open, or      *)
(* raises.                                                                 *)
LEMMA StartStarts ==
  ASSUME Next, status' = "started"
  PROVE  StartNetwork
<1> SUFFICES ASSUME Ready, Called \/ Raise PROVE FALSE
  <2>1. ASSUME NEW n, NEW x,
               \/ AddNode(n) \/ DeleteNode(n) \/ EnableCpuPort(n) \/ DisableCpuPort(n)
               \/ SetScheduler(n, x) \/ AddTask(n, x) \/ SetP4SwitchId(n, x)
               \/ SetThriftPort(n, x) \/ SetGrpcPort(n, x)
        PROVE  Ready /\ (Called \/ Raise)
    BY <2>1 DEF AddNode, DeleteNode, EnableCpuPort, DisableCpuPort, SetScheduler, AddTask,
                SetP4SwitchId, SetThriftPort, SetGrpcPort
  <2>2. ASSUME NEW a, NEW b, NEW x,
               \/ AddLink(a, b, x) \/ DeleteLink(a, b)
               \/ SetIntfPort(a, b, x) \/ SetIntfName(a, b, x)
        PROVE  Ready /\ (Called \/ Raise)
    BY <2>2 DEF AddLink, DeleteLink, SetIntfPort, SetIntfName
  <2>3. L2 => Ready /\ (Called \/ Raise)
    BY DEF L2
  <2>4. Mixed => Ready /\ (Called \/ Raise)
    BY DEF Mixed, Address
  <2>5. L3 => Ready /\ (Called \/ Raise)
    BY DEF L3, Address
  <2> QED
    BY <2>1, <2>2, <2>3, <2>4, <2>5 DEF Next
<1> QED
  BY DEF Ready, Called, Raise

(* The interface of a link at one of its ends, as its node sees it.        *)
Interface(l, n) ==
  [node |-> n, facing |-> Other(l, n), key |-> l.key, port |-> l.port[End(l, n)],
   name |-> l.name[End(l, n)], ip |-> l.ip[End(l, n)]]

(* The interfaces are those of the ends of the links. *)
LEMMA InterfacesAre ==
  ASSUME NEW ls
  PROVE  \A x : x \in Interfaces(ls) <=> \E l \in ls : \E n \in Ends(l) : x = Interface(l, n)
<1> DEFINE of(l) == {Interface(l, n) : n \in Ends(l)}
           U == UNION {of(l) : l \in ls}
<1>1. Interfaces(ls) = U
  BY DEF Interfaces, Interface
<1>2. ASSUME NEW l \in ls, NEW n \in Ends(l) PROVE Interface(l, n) \in U
  <2>1. Interface(l, n) \in of(l)
    OBVIOUS
  <2> HIDE DEF of
  <2> QED
    BY <2>1
<1>3. ASSUME NEW x \in U
      PROVE  \E l \in ls : \E n \in Ends(l) : x = Interface(l, n)
  <2>1. PICK l \in ls : x \in of(l)
    OBVIOUS
  <2> QED
    BY <2>1
<1> HIDE DEF U
<1> QED
  BY <1>1, <1>2, <1>3

(* Starting keeps every port, name, address and id that was chosen. *)
LEMMA StartKeepsChoices ==
  ASSUME IInv, StartNetwork
  PROVE  /\ \A x \in Interfaces(links) : \E y \in Interfaces(links') :
              /\ <<y.node, y.facing, y.key>> = <<x.node, x.facing, x.key>>
              /\ x.port \in {NoNum, y.port}
              /\ x.name \in {NoName, y.name}
              /\ x.ip \in {NoIp, y.ip}
         /\ \A n \in DOMAIN nodes : nodes[n].id \in {NoNum, nodes'[n].id}
<1>1. /\ AllFilled(links, links') /\ SameNumbers(AssignNodes(nodes), nodes')
      /\ Improves(nodes, AssignNodes(nodes))
  BY StartedIs
<1>2. ASSUME NEW x \in Interfaces(links)
      PROVE  \E y \in Interfaces(links') :
               /\ <<y.node, y.facing, y.key>> = <<x.node, x.facing, x.key>>
               /\ x.port \in {NoNum, y.port}
               /\ x.name \in {NoName, y.name}
               /\ x.ip \in {NoIp, y.ip}
  <2>1. PICK l \in links : \E n \in Ends(l) : x = Interface(l, n)
    BY InterfacesAre
  <2>2. PICK n \in Ends(l) : x = Interface(l, n)
    BY <2>1
  <2>3. PICK d \in links' : Filled(l, d)
    BY <1>1 DEF AllFilled
  <2>4. PICK i \in 1..2 : i = End(l, n)
    BY DEF End
  <2>5. d.ends = l.ends /\ d.key = l.key
    BY <2>3 DEF Filled
  <2>6. End(d, n) = i /\ Other(d, n) = Other(l, n) /\ n \in Ends(d)
    BY <2>4, <2>5 DEF End, Other, Ends
  <2>7. /\ l.port[i] \in {NoNum, d.port[i]} /\ l.name[i] \in {NoName, d.name[i]}
        /\ l.ip[i] \in {NoIp, d.ip[i]}
    BY <2>3 DEF Filled
  <2>8. PICK y : y = Interface(d, n)
    OBVIOUS
  <2>9. y \in Interfaces(links')
    BY <2>6, <2>8, InterfacesAre
  <2>10. /\ y.node = x.node /\ y.facing = x.facing /\ y.key = x.key
         /\ x.port = l.port[i] /\ y.port = d.port[i]
         /\ x.name = l.name[i] /\ y.name = d.name[i] /\ x.ip = l.ip[i] /\ y.ip = d.ip[i]
    BY <2>2, <2>4, <2>5, <2>6, <2>8 DEF Interface
  <2> QED
    BY <2>7, <2>9, <2>10
<1>3. PICK ns : ns = AssignNodes(nodes)
  OBVIOUS
<1>4. \A n \in DOMAIN nodes : nodes[n].id \in {NoNum, nodes'[n].id}
  BY <1>1, <1>3 DEF Improves, SameNumbers
<1> QED
  BY <1>2, <1>4

(* Two interfaces of the same node are those of the same link when they    *)
(* face the same node and have the same key.                               *)
LEMMA InterfaceOfLink ==
  ASSUME NEW ls, LinksOK(ls), NEW l \in ls, NEW m \in ls, NEW n \in Ends(l), NEW o \in Ends(m),
         n = o, Other(l, n) = Other(m, o), l.key = m.key
  PROVE  l = m
<1>1. l.ends[1] # l.ends[2] /\ m.ends[1] # m.ends[2]
  BY DEF LinksOK
<1>2. Ends(l) = {n, Other(l, n)}
  BY <1>1 DEF Ends, Other, End
<1>3. Ends(m) = {o, Other(m, o)}
  BY <1>1 DEF Ends, Other, End
<1> QED
  BY <1>2, <1>3 DEF LinksOK

(* setIntfPort changes the port of one interface only. *)
LEMMA OnePortSet ==
  ASSUME IInv, NEW a \in UserNodes, NEW b \in UserNodes, NEW port \in UserPorts,
         status' = "open", SetIntfPort(a, b, port)
  PROVE  \E x \in Interfaces(links) :
           /\ x.node = a /\ x.facing = b
           /\ Interfaces(links') = (Interfaces(links) \ {x}) \cup {[x EXCEPT !.port = port]}
<1>1. PICK l, d : l = Link(links, a, b) /\ d = SetEnd(l, a, "port", port)
  OBVIOUS
<1>2. Between(links, a, b) # {} /\ links' = (links \ {l}) \cup {d}
  <2>1. ~ Raise
    BY DEF Raise
  <2> QED
    BY <1>1, <2>1 DEF SetIntfPort, Replace
<1>3. LinksOK(links)
  BY DEF IInv, LinksInv
<1>4. l \in links /\ Ends(l) = {a, b} /\ a # b
  BY <1>1, <1>2, <1>3, LinkIs
<1>5. l \in LinkRec /\ l.ends[1] # l.ends[2]
  BY <1>3, <1>4 DEF LinksOK
<1>6. port \in PortNum
  BY NetworkAPIAssumption DEF PortNum
<1>7. /\ d.ends = l.ends /\ d.key = l.key /\ d.name = l.name /\ d.ip = l.ip
      /\ d.port[End(l, a)] = port
      /\ \A j \in 1..2 : j # End(l, a) => d.port[j] = l.port[j]
  BY <1>1, <1>5, <1>6, EndPortSet
<1>8. /\ Ends(d) = {a, b} /\ End(d, a) = End(l, a) /\ End(d, b) = End(l, b)
      /\ Other(d, a) = Other(l, a) /\ Other(d, b) = Other(l, b)
      /\ Other(l, a) = b /\ Other(l, b) = a
      /\ End(l, b) \in 1..2 /\ End(l, b) # End(l, a)
  BY <1>4, <1>5, <1>7 DEF Ends, End, Other
<1>9. PICK x, y, z : x = Interface(l, a) /\ y = Interface(l, b) /\ z = [x EXCEPT !.port = port]
  OBVIOUS
<1>10. x.node = a /\ x.facing = b /\ x.key = l.key /\ y.node = b
  BY <1>8, <1>9 DEF Interface
<1>11. Interface(d, a) = z /\ Interface(d, b) = y
  BY <1>7, <1>8, <1>9 DEF Interface
<1>12. x \in Interfaces(links)
  BY <1>4, <1>9, InterfacesAre
<1>13. ASSUME NEW w \in Interfaces(links') PROVE w = z \/ w \in Interfaces(links) \ {x}
  <2>1. PICK m \in links' : \E n \in Ends(m) : w = Interface(m, n)
    BY InterfacesAre
  <2>2. PICK n \in Ends(m) : w = Interface(m, n)
    BY <2>1
  <2>3. CASE m = d
    <3>1. w = z \/ w = y
      BY <1>8, <1>11, <2>2, <2>3
    <3>2. y \in Interfaces(links) /\ y # x
      BY <1>4, <1>9, <1>10, InterfacesAre
    <3> QED
      BY <3>1, <3>2
  <2>4. CASE m \in links /\ m # l
    <3>1. w \in Interfaces(links)
      BY <2>2, <2>4, InterfacesAre
    <3>2. ASSUME w = x PROVE FALSE
      <4>1. n = a /\ Other(m, n) = Other(l, a) /\ m.key = l.key
        BY <1>8, <1>10, <2>2, <3>2 DEF Interface
      <4>2. a \in Ends(l) /\ n \in Ends(m)
        BY <1>4
      <4> QED
        BY <1>3, <1>4, <2>4, <4>1, <4>2, InterfaceOfLink
    <3> QED
      BY <3>1, <3>2
  <2> QED
    BY <1>2, <2>3, <2>4
<1>14. ASSUME NEW w \in Interfaces(links), w # x PROVE w \in Interfaces(links')
  <2>1. PICK m \in links : \E n \in Ends(m) : w = Interface(m, n)
    BY InterfacesAre
  <2>2. PICK n \in Ends(m) : w = Interface(m, n)
    BY <2>1
  <2>3. CASE m = l
    <3>1. w = y
      BY <1>4, <1>9, <1>14, <2>2, <2>3
    <3>2. d \in links' /\ b \in Ends(d)
      BY <1>2, <1>8
    <3> QED
      BY <1>11, <3>1, <3>2, InterfacesAre
  <2>4. CASE m # l
    <3>1. m \in links'
      BY <1>2, <2>4
    <3> QED
      BY <2>2, <3>1, InterfacesAre
  <2> QED
    BY <2>3, <2>4
<1>15. z \in Interfaces(links')
  <2>1. d \in links' /\ a \in Ends(d)
    BY <1>2, <1>8
  <2> QED
    BY <1>11, <2>1, InterfacesAre
<1>16. Interfaces(links') = (Interfaces(links) \ {x}) \cup {z}
  BY <1>13, <1>14, <1>15
<1> QED
  BY <1>9, <1>10, <1>12, <1>16

-----------------------------------------------------------------------------
(* The gateways.                                                           *)

(* The gateway of a host is an interface of its switch. *)
LEMMA AddressReaches ==
  ASSUME IInv, Addressable, NEW order \in SetToSeqs(HostLinks),
         NEW ns, Improves(nodes, ns),
         NEW ip \in [HostLinks -> Ip], NEW gw \in [HostLinks -> Ip],
         \A l, m \in HostLinks : l # m => ip[l] # ip[m],
         \A l \in HostLinks : SameNet(gw[l], ip[l]),
         Address(order, ns, ip, gw)
  PROVE  Reached(links', nodes')
<1> DEFINE r == [l \in links |-> Addressed(l, ns, ip, gw)]
<1>1. ns \in NodeMaps /\ DOMAIN ns = DOMAIN nodes
  BY DEF Improves
<1>2. HostLinks \subseteq links /\ Cables \subseteq links /\ HostLinks \cap Cables = {}
  BY DEF HostLinks, Cables, IsSwitch
<1>3. links' = {r[l] : l \in links}
  <2>1. links' = (links \ (HostLinks \cup Cables))
                 \cup {SetEnd(SetEnd(l, HostOf(l), "ip", ip[l]), SwitchOf(l), "ip", gw[l])
                       : l \in HostLinks}
                 \cup {Cabled(l, ns) : l \in Cables}
    BY DEF Address
  <2> QED
    BY <1>2, <2>1 DEF Addressed
<1>4. ASSUME NEW l \in links
      PROVE  /\ r[l].ends = l.ends /\ Ends(r[l]) = Ends(l)
             /\ l \in HostLinks => /\ r[l].ip[End(l, HostOf(l))] = ip[l]
                                   /\ r[l].ip[End(l, SwitchOf(l))] = gw[l]
  <2>1. r[l] = Addressed(l, ns, ip, gw)
    OBVIOUS
  <2>2. r[l].ends = l.ends
    BY <1>1, <2>1, AddressedIs
  <2> QED
    BY <1>1, <2>1, <2>2, AddressedIs DEF Ends
<1> DEFINE atHost(l) == Interface(r[l], HostOf(l))
           atSwitch(l) == Interface(r[l], SwitchOf(l))
<1>5. ASSUME NEW l \in HostLinks
      PROVE  /\ atHost(l) \in Interfaces(links') /\ atSwitch(l) \in Interfaces(links')
             /\ atHost(l).node = HostOf(l) /\ atHost(l).facing = SwitchOf(l)
             /\ atSwitch(l).node = SwitchOf(l) /\ atSwitch(l).facing = HostOf(l)
             /\ atHost(l).ip = ip[l] /\ atSwitch(l).ip = gw[l]
  <2>1. /\ HostOf(l) \in Ends(l) /\ SwitchOf(l) \in Ends(l)
        /\ End(l, HostOf(l)) \in 1..2 /\ End(l, SwitchOf(l)) \in 1..2
        /\ End(l, SwitchOf(l)) # End(l, HostOf(l))
        /\ l.ends[End(l, HostOf(l))] = HostOf(l) /\ l.ends[End(l, SwitchOf(l))] = SwitchOf(l)
    BY HostLinkIs
  <2>2. PICK i \in 1..2, j \in 1..2 : i = End(l, HostOf(l)) /\ j = End(l, SwitchOf(l))
    BY <2>1
  <2>3. 3 - i = j /\ 3 - j = i
    BY <2>1, <2>2
  <2>4. l \in links
    BY <1>2
  <2>5. /\ r[l].ends = l.ends /\ Ends(r[l]) = Ends(l)
        /\ r[l].ip[i] = ip[l] /\ r[l].ip[j] = gw[l] /\ r[l] \in links'
    BY <1>3, <1>4, <2>2, <2>4
  <2> HIDE DEF r
  <2>6. End(r[l], HostOf(l)) = i /\ End(r[l], SwitchOf(l)) = j
    BY <2>2, <2>5 DEF End
  <2>7. Other(r[l], HostOf(l)) = SwitchOf(l) /\ Other(r[l], SwitchOf(l)) = HostOf(l)
    BY <2>1, <2>2, <2>3, <2>5, <2>6 DEF Other
  <2>8. atHost(l) \in Interfaces(links') /\ atSwitch(l) \in Interfaces(links')
    BY <2>1, <2>5, InterfacesAre
  <2> QED
    BY <2>5, <2>6, <2>7, <2>8 DEF Interface
<1>6. ASSUME NEW x \in Interfaces(links'), IsHost(x.node)
      PROVE  \E l \in HostLinks : x = atHost(l)
  <2>1. PICK d \in links' : \E n \in Ends(d) : x = Interface(d, n)
    BY InterfacesAre
  <2>2. PICK n \in Ends(d) : x = Interface(d, n)
    BY <2>1
  <2>3. PICK l \in links : d = r[l]
    BY <1>3
  <2>4. n \in Ends(l) /\ IsHost(n)
    BY <1>4, <1>6, <2>2, <2>3 DEF Interface
  <2>5. PICK j \in 1..2 : l.ends[j] = n
    <3>1. 1 \in 1..2 /\ 2 \in 1..2
      OBVIOUS
    <3> QED
      BY <2>4, <3>1 DEF Ends
  <2>6. l \in HostLinks
    BY <2>4, <2>5, HostEnds
  <2>7. HostOf(l) = n
    BY <2>4, <2>5, <2>6, HostLinkIs
  <2> QED
    BY <2>2, <2>3, <2>6, <2>7
<1> HIDE DEF atHost, atSwitch, r
<1>7. ASSUME NEW x \in Interfaces(links'), IsHost(x.node)
      PROVE  \E y \in Interfaces(links') :
               /\ y.node = x.facing /\ y.facing = x.node
               /\ y.ip # NoIp /\ x.ip # NoIp /\ y.ip # x.ip
               /\ \A i \in 1..3 : y.ip[i] = x.ip[i]
  <2>1. PICK l \in HostLinks : x = atHost(l)
    BY <1>6, <1>7
  <2>2. SameNet(gw[l], ip[l])
    OBVIOUS
  <2> QED
    BY <1>5, <2>1, <2>2 DEF SameNet
<1>8. ASSUME NEW x \in Interfaces(links'), IsHost(x.node)
      PROVE  \E y \in Interfaces(links') :
               IsSwitch(y.node) /\ y.facing = x.node /\ y.ip = nodes'[x.node].gw
  <2>1. PICK l \in HostLinks : x = atHost(l)
    BY <1>6, <1>7, <1>8
  <2>2. PICK n : n = HostOf(l) /\ n \in DOMAIN nodes
    BY HostLinkIs
  <2>3. PICK m \in HostLinks : m = LastIn(order, n) /\ HostOf(m) = n
    BY <2>2, HostLinksFinite, LastInIs
  <2>4. nodes'[n].gw = gw[m]
    <3>1. nodes' = WithGateways(order, ns, gw)
      BY DEF Address
    <3>2. nodes'[n] = [ns[n] EXCEPT !.gw = gw[LastIn(order, n)]]
      BY <1>1, <2>2, <3>1 DEF WithGateways
    <3>3. ns[n] \in Node
      BY <1>1, <2>2, NodeMap
    <3>4. PICK node \in Node : node = ns[n]
      BY <3>3
    <3> QED
      BY <2>3, <3>2, <3>4 DEF Node
  <2>5. IsSwitch(SwitchOf(m))
    BY HostLinkIs
  <2> QED
    BY <1>5, <2>1, <2>2, <2>3, <2>4, <2>5
<1>9. ASSUME NEW x \in Interfaces(links'), IsHost(x.node),
             NEW y \in Interfaces(links'), IsHost(y.node), x # y
      PROVE  x.ip # y.ip
  <2>1. PICK l \in HostLinks, m \in HostLinks : x = atHost(l) /\ y = atHost(m)
    BY <1>6, <1>9
  <2> QED
    BY <1>5, <1>9, <2>1
<1> QED
  BY <1>7, <1>8, <1>9 DEF Reached

(* mixed and l3 therefore reach every gateway. *)
LEMMA GatewaysReached ==
  ASSUME IInv, FewHosts, status' = "open", Mixed \/ L3
  PROVE  Reached(links', nodes')
<1>1. ~ Raise
  BY DEF Raise
<1>2. Ready /\ Addressable
  BY <1>1, L3Addresses, MixedAddresses
<1>3. PICK order, ns, ip, gw :
        Addresses(order, ns, ip, gw) /\ \A l \in HostLinks : SameNet(gw[l], ip[l])
  BY <1>1, L3Addresses, MixedAddresses
<1> QED
  BY <1>2, <1>3, AddressReaches DEF Addresses

-----------------------------------------------------------------------------
(* The theorems.                                                           *)

(* Every variable has its type; a link joins two nodes that are there, and *)
(* is the only one with its ends and key: what deleteNode, deleteLink and  *)
(* disableCpuPort remove they remove together.                             *)
THEOREM TypeCorrect == Spec => []TypeOK
BY Invariant, TypeFollows, PTL

(* The bridge is there as long as a switch has a CPU port, and the links   *)
(* to it are those of the switches with a CPU port, one each.              *)
THEOREM CpuLinksHold == Spec => []CpuLinks
BY Invariant, CpuLinksFollow, PTL

(* The tasks that distribute_tasks sends are for nodes with a scheduler.   *)
THEOREM TasksAreServed == Spec => []TasksServed
<1>1. IInv => TasksServed
  BY DEF IInv, TasksInv, TasksServed
<1> QED
  BY <1>1, Invariant, PTL

(* As long as no node is deleted on which tasks are scheduled, a           *)
(* description whose calls were accepted starts, however many nodes and    *)
(* links it has and whatever it had fixed by hand.                         *)
THEOREM StartAlwaysSucceeds ==
  ASSUME ~ DeletesBusy
  PROVE  Spec => []StartSucceeds
<1>1. IInv => StartSucceeds
  BY DEF IInv, StatusInv, StartSucceeds
<1> QED
  BY <1>1, Invariant, PTL

(* Once the network is started every interface has a port and a name of    *)
(* its own on its node, every host interface an address of its own, and    *)
(* every switch an id, a Thrift port and a gRPC port of its own, unless    *)
(* the program gave one port to two services.                              *)
THEOREM AllDistinctWhenStarted ==
  ASSUME ~ SharesPorts
  PROVE  Spec => []DistinctWhenStarted
BY Invariant, DistinctFollows, PTL

(* auto_assignment changes nothing the program had chosen. *)
THEOREM ChoicesAreKept == Spec => ChoicesKept
<1>1. IInv /\ [Next]_vars =>
        [status' = "started" =>
           /\ \A x \in Interfaces(links) : \E y \in Interfaces(links') :
                /\ <<y.node, y.facing, y.key>> = <<x.node, x.facing, x.key>>
                /\ x.port \in {NoNum, y.port}
                /\ x.name \in {NoName, y.name}
                /\ x.ip \in {NoIp, y.ip}
           /\ \A n \in DOMAIN nodes : nodes[n].id \in {NoNum, nodes'[n].id}]_vars
  BY StartStarts, StartKeepsChoices
<1> QED
  BY <1>1, Invariant, PTL DEF Spec, ChoicesKept

(* setIntfPort changes the port of one interface, the one asked for, and   *)
(* no other one, in whichever direction the link is stored.                *)
THEOREM OneInterfaceIsSet == Spec => OneInterfaceSet
<1>1. IInv /\ [Next]_vars =>
        [\A a, b \in UserNodes, port \in UserPorts :
           status' = "open" /\ SetIntfPort(a, b, port) =>
             \E x \in Interfaces(links) :
               /\ x.node = a /\ x.facing = b
               /\ Interfaces(links') =
                    (Interfaces(links) \ {x}) \cup {[x EXCEPT !.port = port]}]_vars
  BY OnePortSet
<1> QED
  BY <1>1, Invariant, PTL DEF Spec, OneInterfaceSet

(* After mixed or l3 every host has for default route the address of a     *)
(* switch interface that faces it, in its own /24 network, and no two      *)
(* hosts have the same address: with fewer hosts than the gateway's number *)
(* in its network, which mixed may otherwise give to a host.               *)
THEOREM GatewaysAreReachable ==
  ASSUME FewHosts
  PROVE  Spec => GatewayReachable
<1>1. IInv /\ [Next]_vars => [status' = "open" /\ (Mixed \/ L3) => Reached(links', nodes')]_vars
  BY GatewaysReached
<1> QED
  BY <1>1, Invariant, PTL DEF Spec, GatewayReachable
=============================================================================
