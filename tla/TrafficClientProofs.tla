------------------------ MODULE TrafficClientProofs ------------------------
(***************************************************************************)
(* Theorems about TrafficClient, for any number of connections, requests   *)
(* and files, any sizes of files and sockets, and servers that may die.    *)
(*                                                                         *)
(* The argument: on each connection the metadata and flows form one well-  *)
(* formed stream, so a listener only takes for a file what was sent as     *)
(* one, and every file is in one place at a time.  In the closed loop all  *)
(* files on their way belong to the request req_index, and req_file_count  *)
(* counts those not yet counted; the listener that counts the last one     *)
(* therefore knows that nothing is on its way and nobody else is sending.  *)
(***************************************************************************)
EXTENDS TrafficClient, FiniteSetTheorems, TLAPS

-----------------------------------------------------------------------------
(* Sequences without repetition.                                           *)

Elements(s) == {s[k] : k \in 1..Len(s)}
Injective(s) == \A k, l \in 1..Len(s) : s[k] = s[l] => k = l

LEMMA ElementsOfEmpty == Elements(<< >>) = {} /\ Injective(<< >>)
BY DEF Elements, Injective

(* What an append adds, and what a tail leaves.                            *)
LEMMA ElementsOfAppend ==
  ASSUME NEW T, NEW s \in Seq(T), NEW e \in T, Injective(s), e \notin Elements(s)
  PROVE  Elements(Append(s, e)) = Elements(s) \union {e} /\ Injective(Append(s, e))
<1>1. /\ Len(Append(s, e)) = Len(s) + 1 /\ Len(s) \in Nat
      /\ \A k \in 1..Len(s) : Append(s, e)[k] = s[k]
      /\ Append(s, e)[Len(s) + 1] = e
  OBVIOUS
<1>2. \A k \in 1..(Len(s) + 1) : k \in 1..Len(s) \/ k = Len(s) + 1
  BY <1>1
<1>3. 1..Len(s) \subseteq 1..(Len(s) + 1) /\ Len(s) + 1 \in 1..(Len(s) + 1)
  BY <1>1
<1> HIDE DEF Elements
<1>4. \A k \in 1..Len(s) : s[k] \in Elements(s)
  BY DEF Elements
<1>5. Injective(Append(s, e))
  BY <1>1, <1>2, <1>4 DEF Injective
<1>6. Elements(Append(s, e)) \subseteq Elements(s) \union {e}
  BY <1>1, <1>2, <1>4 DEF Elements
<1>7. Elements(s) \union {e} \subseteq Elements(Append(s, e))
  BY <1>1, <1>3 DEF Elements
<1> QED
  BY <1>5, <1>6, <1>7

LEMMA ElementsOfTail ==
  ASSUME NEW T, NEW s \in Seq(T), s # << >>, Injective(s)
  PROVE  /\ Head(s) \in Elements(s)
         /\ Elements(Tail(s)) = Elements(s) \ {Head(s)} /\ Injective(Tail(s))
<1>1. /\ Len(s) \in Nat \ {0} /\ Len(Tail(s)) = Len(s) - 1 /\ Head(s) = s[1]
      /\ \A k \in 1..(Len(s) - 1) : Tail(s)[k] = s[k + 1]
  OBVIOUS
<1>2. \A k \in 1..(Len(s) - 1) : k + 1 \in 1..Len(s) /\ k + 1 # 1
  BY <1>1
<1>3. \A k \in 1..Len(s) : k = 1 \/ (k - 1 \in 1..(Len(s) - 1) /\ (k - 1) + 1 = k)
  BY <1>1
<1>4. 1 \in 1..Len(s)
  BY <1>1
<1>5. Injective(Tail(s))
  BY <1>1, <1>2 DEF Injective
<1>6. Elements(Tail(s)) \subseteq Elements(s) \ {Head(s)}
  BY <1>1, <1>2, <1>4 DEF Elements, Injective
<1>7. Elements(s) \ {Head(s)} \subseteq Elements(Tail(s))
  <2>1. ASSUME NEW k \in 1..Len(s), s[k] # s[1] PROVE s[k] \in Elements(Tail(s))
    <3>1. k - 1 \in 1..Len(Tail(s)) /\ Tail(s)[k - 1] = s[k]
      BY <1>1, <1>3, <2>1
    <3> QED
      BY <3>1 DEF Elements
  <2> QED
    BY <1>1, <2>1 DEF Elements
<1> QED
  BY <1>1, <1>4, <1>5, <1>6, <1>7 DEF Elements

-----------------------------------------------------------------------------
(* A stream: what is on its way to a listener that expects x more parts of *)
(* the flow of f, from a server that owes o more of the flow of j; z is    *)
(* the size of each file. A server that is not live owes nothing.          *)

PartsOf(F) == [file : F, part : {"metadata", "flow"}]
Flow(f) == [file |-> f, part |-> "flow"]
Metadata(f) == [file |-> f, part |-> "metadata"]

(* After position k come n parts of the flow of f, then metadata.          *)
FlowAfter(s, k, n, f) ==
  /\ \A i \in 1..n : k + i <= Len(s) => s[k + i] = Flow(f)
  /\ k + n + 1 <= Len(s) => s[k + n + 1].part = "metadata"

(* A flow that ends at e is complete, or the one the server is at.         *)
EndsAt(s, e, f, o, j, live) ==
  live => /\ e < Len(s) \/ e = Len(s) + o
          /\ e > Len(s) => f = j

Stream(z, s, x, f, o, j, live) ==
  /\ FlowAfter(s, 0, x, f) /\ EndsAt(s, x, f, o, j, live)
  /\ \A k \in 1..Len(s) : s[k].part = "metadata" =>
       /\ FlowAfter(s, k, z[s[k].file], s[k].file)
       /\ EndsAt(s, k + z[s[k].file], s[k].file, o, j, live)

(* Append and Tail, element by element.                                    *)
LEMMA Appended ==
  ASSUME NEW T, NEW s \in Seq(T), NEW e \in T
  PROVE  /\ Len(Append(s, e)) = Len(s) + 1 /\ Len(s) \in Nat
         /\ \A k \in 1..Len(s) : Append(s, e)[k] = s[k]
         /\ Append(s, e)[Len(s) + 1] = e
OBVIOUS

LEMMA TailOf ==
  ASSUME NEW T, NEW s \in Seq(T), s # << >>
  PROVE  /\ Len(s) \in Nat /\ Len(s) >= 1 /\ Len(Tail(s)) = Len(s) - 1
         /\ Head(s) = s[1] /\ s[1] \in T
         /\ \A k \in 1..(Len(s) - 1) : Tail(s)[k] = s[k + 1]
OBVIOUS

LEMMA PartAt ==
  ASSUME NEW F, NEW s \in Seq(PartsOf(F)), NEW k \in 1..Len(s)
  PROVE  s[k] \in PartsOf(F) /\ s[k].file \in F
<1>1. s[k] \in PartsOf(F)
  OBVIOUS
<1> QED
  BY <1>1 DEF PartsOf

(* One flow of the stream when a part is appended. *)
LEMMA FlowAppend ==
  ASSUME NEW F, NEW s \in Seq(PartsOf(F)), NEW e \in PartsOf(F),
         NEW k \in Nat, NEW n \in Nat, NEW f, k <= Len(s),
         FlowAfter(s, k, n, f),
         k + n > Len(s) => e = Flow(f),
         k + n = Len(s) => e.part = "metadata"
  PROVE  FlowAfter(Append(s, e), k, n, f)
<1> DEFINE t == Append(s, e)
<1>1. /\ Len(t) = Len(s) + 1 /\ Len(s) \in Nat
      /\ \A i \in 1..Len(s) : t[i] = s[i]
      /\ t[Len(s) + 1] = e
  BY Appended
<1> HIDE DEF t
<1>2. ASSUME NEW i \in 1..n, k + i <= Len(t) PROVE t[k + i] = Flow(f)
  <2>1. CASE k + i <= Len(s)
    <3>1. k + i \in 1..Len(s)
      BY <1>1, <2>1
    <3> QED
      BY <1>1, <2>1, <3>1 DEF FlowAfter
  <2>2. CASE k + i = Len(s) + 1
    BY <1>1, <2>2
  <2> QED
    BY <1>1, <1>2, <2>1, <2>2
<1>3. ASSUME k + n + 1 <= Len(t) PROVE t[k + n + 1].part = "metadata"
  BY <1>1, <1>3 DEF FlowAfter
<1> QED
  BY <1>2, <1>3 DEF FlowAfter, t

(* The metadata of a file begins a flow that the server then owes.         *)
LEMMA StreamEchoed ==
  ASSUME NEW F, NEW z \in [F -> Nat], NEW s \in Seq(PartsOf(F)), NEW x \in Nat,
         NEW f, NEW j \in F, Stream(z, s, x, f, 0, j, TRUE)
  PROVE  Stream(z, Append(s, Metadata(j)), x, f, z[j], j, TRUE)
<1> DEFINE e == Metadata(j)
           t == Append(s, e)
<1>1. e \in PartsOf(F) /\ e.part = "metadata" /\ e.file = j
  BY DEF PartsOf, Metadata
<1>2. /\ Len(t) = Len(s) + 1 /\ Len(s) \in Nat
      /\ \A i \in 1..Len(s) : t[i] = s[i]
      /\ t[Len(s) + 1] = e
  BY <1>1, Appended
<1>3. z[j] \in Nat
  OBVIOUS
<1> HIDE DEF e
<1>4. FlowAfter(t, 0, x, f) /\ EndsAt(t, x, f, z[j], j, TRUE)
  <2>1. 0 + x > Len(s) => FALSE
    BY <1>2 DEF Stream, EndsAt
  <2>2. FlowAfter(t, 0, x, f)
    BY <1>1, <1>2, <2>1, FlowAppend DEF Stream
  <2> HIDE DEF t
  <2>3. EndsAt(t, x, f, z[j], j, TRUE)
    BY <1>2, <1>3 DEF Stream, EndsAt
  <2> QED
    BY <2>2, <2>3
<1>5. ASSUME NEW k \in 1..Len(s), s[k].part = "metadata"
      PROVE  /\ FlowAfter(t, k, z[s[k].file], s[k].file)
             /\ EndsAt(t, k + z[s[k].file], s[k].file, z[j], j, TRUE)
  <2>1. s[k].file \in F
    BY PartAt
  <2>2. PICK n \in Nat : n = z[s[k].file]
    BY <2>1
  <2>3. FlowAfter(s, k, n, s[k].file) /\ EndsAt(s, k + n, s[k].file, 0, j, TRUE)
    BY <1>5, <2>2 DEF Stream
  <2>4. FlowAfter(t, k, n, s[k].file)
    BY <1>1, <1>2, <2>3, FlowAppend DEF EndsAt
  <2> HIDE DEF t
  <2>5. EndsAt(t, k + n, s[k].file, z[j], j, TRUE)
    BY <1>2, <1>3, <2>3 DEF EndsAt
  <2> QED
    BY <2>2, <2>4, <2>5
<1>6. /\ FlowAfter(t, Len(s) + 1, z[j], j)
      /\ EndsAt(t, Len(s) + 1 + z[j], j, z[j], j, TRUE)
  <2> HIDE DEF t
  <2> QED
    BY <1>2, <1>3 DEF FlowAfter, EndsAt
<1> HIDE DEF t
<1>7. ASSUME NEW k \in 1..Len(t), t[k].part = "metadata"
      PROVE  /\ FlowAfter(t, k, z[t[k].file], t[k].file)
             /\ EndsAt(t, k + z[t[k].file], t[k].file, z[j], j, TRUE)
  <2>1. k \in 1..Len(s) \/ k = Len(s) + 1
    BY <1>2
  <2>2. CASE k \in 1..Len(s)
    BY <1>2, <1>5, <1>7, <2>2
  <2>3. CASE k = Len(s) + 1
    BY <1>1, <1>2, <1>6, <2>3
  <2> QED
    BY <2>1, <2>2, <2>3
<1> QED
  BY <1>4, <1>7 DEF Stream, t, e

(* A part of the flow it owes.                                             *)
LEMMA StreamSent ==
  ASSUME NEW F, NEW z \in [F -> Nat], NEW s \in Seq(PartsOf(F)), NEW x \in Nat,
         NEW f, NEW j \in F, NEW o \in Nat \ {0}, Stream(z, s, x, f, o, j, TRUE)
  PROVE  Stream(z, Append(s, Flow(j)), x, f, o - 1, j, TRUE)
<1> DEFINE e == Flow(j)
           t == Append(s, e)
<1>1. e \in PartsOf(F) /\ e.part # "metadata" /\ e = Flow(j)
  BY DEF PartsOf, Flow
<1>2. /\ Len(t) = Len(s) + 1 /\ Len(s) \in Nat
      /\ \A i \in 1..Len(s) : t[i] = s[i]
      /\ t[Len(s) + 1] = e
  BY <1>1, Appended
<1> HIDE DEF e
<1>3. ASSUME NEW k \in 0..Len(s), NEW n \in Nat, NEW g,
             FlowAfter(s, k, n, g), EndsAt(s, k + n, g, o, j, TRUE)
      PROVE  FlowAfter(t, k, n, g) /\ EndsAt(t, k + n, g, o - 1, j, TRUE)
  <2>1. k + n # Len(s) /\ (k + n > Len(s) => e = Flow(g))
    BY <1>1, <1>2, <1>3 DEF EndsAt
  <2>2. FlowAfter(t, k, n, g)
    <3>1. k \in Nat /\ k <= Len(s) /\ (k + n > Len(s) => e = Flow(g))
          /\ (k + n = Len(s) => e.part = "metadata")
      BY <1>2, <2>1
    <3> QED
      BY <1>1, <1>3, <3>1, FlowAppend
  <2> HIDE DEF t
  <2>3. EndsAt(t, k + n, g, o - 1, j, TRUE)
    BY <1>2, <1>3 DEF EndsAt
  <2> QED
    BY <2>2, <2>3
<1>4. FlowAfter(t, 0, x, f) /\ EndsAt(t, x, f, o - 1, j, TRUE)
  <2>1. 0 + x = x /\ 0 \in 0..Len(s)
    BY <1>2
  <2> QED
    BY <1>3, <2>1 DEF Stream
<1>5. ASSUME NEW k \in 1..Len(s), s[k].part = "metadata"
      PROVE  /\ FlowAfter(t, k, z[s[k].file], s[k].file)
             /\ EndsAt(t, k + z[s[k].file], s[k].file, o - 1, j, TRUE)
  <2>1. s[k].file \in F
    BY PartAt
  <2>2. z[s[k].file] \in Nat /\ k \in 0..Len(s)
    BY <1>2, <2>1
  <2> QED
    BY <1>3, <1>5, <2>2 DEF Stream
<1> HIDE DEF t
<1>6. ASSUME NEW k \in 1..Len(t), t[k].part = "metadata"
      PROVE  k \in 1..Len(s)
  BY <1>1, <1>2, <1>6
<1> QED
  BY <1>2, <1>4, <1>5, <1>6 DEF Stream, t, e

(* One flow of the stream when the part before it is taken. *)
LEMMA FlowTail ==
  ASSUME NEW F, NEW s \in Seq(PartsOf(F)), s # << >>,
         NEW k \in Nat \ {0}, NEW n \in Nat, NEW f, k <= Len(s),
         FlowAfter(s, k, n, f)
  PROVE  FlowAfter(Tail(s), k - 1, n, f)
<1> DEFINE t == Tail(s)
<1>1. /\ Len(s) \in Nat /\ Len(s) >= 1 /\ Len(t) = Len(s) - 1
      /\ \A i \in 1..(Len(s) - 1) : t[i] = s[i + 1]
  BY TailOf
<1> HIDE DEF t
<1>2. ASSUME NEW i \in 1..n, k - 1 + i <= Len(t) PROVE t[k - 1 + i] = Flow(f)
  <2>1. k - 1 + i \in 1..(Len(s) - 1) /\ (k - 1 + i) + 1 = k + i /\ k + i <= Len(s)
    BY <1>1, <1>2
  <2> QED
    BY <1>1, <2>1 DEF FlowAfter
<1>3. ASSUME k - 1 + n + 1 <= Len(t) PROVE t[k - 1 + n + 1].part = "metadata"
  <2>1. /\ k - 1 + n + 1 \in 1..(Len(s) - 1) /\ (k - 1 + n + 1) + 1 = k + n + 1
        /\ k + n + 1 <= Len(s)
    BY <1>1, <1>3
  <2> QED
    BY <1>1, <2>1 DEF FlowAfter
<1> QED
  BY <1>2, <1>3 DEF FlowAfter, t

(* The flows of the files whose metadata is behind the head.               *)
LEMMA OthersAfterTail ==
  ASSUME NEW F, NEW z \in [F -> Nat], NEW s \in Seq(PartsOf(F)), s # << >>,
         NEW x \in Nat, NEW f, NEW o \in Nat, NEW j, NEW live \in BOOLEAN,
         Stream(z, s, x, f, o, j, live),
         NEW k \in 1..Len(Tail(s)), Tail(s)[k].part = "metadata"
  PROVE  /\ FlowAfter(Tail(s), k, z[Tail(s)[k].file], Tail(s)[k].file)
         /\ EndsAt(Tail(s), k + z[Tail(s)[k].file], Tail(s)[k].file, o, j, live)
<1>1. /\ Len(s) \in Nat /\ Len(s) >= 1 /\ Len(Tail(s)) = Len(s) - 1
      /\ Tail(s)[k] = s[k + 1] /\ k + 1 \in 1..Len(s)
  BY TailOf
<1>2. s[k + 1].file \in F
  BY <1>1, PartAt
<1>3. PICK n \in Nat : n = z[s[k + 1].file]
  BY <1>2
<1>4. /\ FlowAfter(s, k + 1, n, s[k + 1].file)
      /\ EndsAt(s, k + 1 + n, s[k + 1].file, o, j, live)
  BY <1>1, <1>3 DEF Stream
<1>5. FlowAfter(Tail(s), (k + 1) - 1, n, s[k + 1].file)
  BY <1>1, <1>4, FlowTail
<1>6. EndsAt(Tail(s), k + n, s[k + 1].file, o, j, live)
  BY <1>1, <1>4 DEF EndsAt
<1>7. (k + 1) - 1 = k
  BY <1>1
<1> QED
  BY <1>1, <1>3, <1>5, <1>6, <1>7

(* A listener that expects no flow finds metadata, and expects its flow.   *)
LEMMA StreamMetadataRead ==
  ASSUME NEW F, NEW z \in [F -> Nat], NEW s \in Seq(PartsOf(F)), s # << >>,
         NEW f, NEW o \in Nat, NEW j, NEW live \in BOOLEAN,
         Stream(z, s, 0, f, o, j, live)
  PROVE  /\ s[1].part = "metadata"
         /\ Stream(z, Tail(s), z[s[1].file], s[1].file, o, j, live)
<1>1. /\ Len(s) \in Nat /\ Len(s) >= 1 /\ Len(Tail(s)) = Len(s) - 1
      /\ s[1] \in PartsOf(F)
  BY TailOf
<1>2. s[1].part = "metadata"
  BY <1>1 DEF Stream, FlowAfter
<1>3. PICK n \in Nat : n = z[s[1].file]
  BY <1>1 DEF PartsOf
<1>4. FlowAfter(s, 1, n, s[1].file) /\ EndsAt(s, 1 + n, s[1].file, o, j, live)
  BY <1>1, <1>2, <1>3 DEF Stream
<1>5. FlowAfter(Tail(s), 0, n, s[1].file)
  BY <1>1, <1>4, FlowTail
<1>6. EndsAt(Tail(s), n, s[1].file, o, j, live)
  BY <1>1, <1>4 DEF EndsAt
<1>7. ASSUME NEW k \in 1..Len(Tail(s)), Tail(s)[k].part = "metadata"
      PROVE  /\ FlowAfter(Tail(s), k, z[Tail(s)[k].file], Tail(s)[k].file)
             /\ EndsAt(Tail(s), k + z[Tail(s)[k].file], Tail(s)[k].file, o, j, live)
  BY <1>7, OthersAfterTail
<1> QED
  BY <1>2, <1>3, <1>5, <1>6, <1>7 DEF Stream

(* One that expects a flow finds a part of it.                             *)
LEMMA StreamFlowRead ==
  ASSUME NEW F, NEW z \in [F -> Nat], NEW s \in Seq(PartsOf(F)), s # << >>,
         NEW x \in Nat, NEW y \in Nat, y < x, x <= y + 1,
         NEW f, NEW o \in Nat, NEW j,
         NEW live \in BOOLEAN, Stream(z, s, x, f, o, j, live)
  PROVE  /\ s[1] = Flow(f)
         /\ Stream(z, Tail(s), y, f, o, j, live)
<1> DEFINE t == Tail(s)
<1>1. /\ Len(s) \in Nat /\ Len(s) >= 1 /\ Len(t) = Len(s) - 1
      /\ \A i \in 1..(Len(s) - 1) : t[i] = s[i + 1]
  BY TailOf
<1>2. FlowAfter(s, 0, x, f) /\ EndsAt(s, x, f, o, j, live)
  BY DEF Stream
<1>3. s[1] = Flow(f)
  BY <1>1, <1>2 DEF FlowAfter
<1>4. ASSUME NEW k \in 1..Len(t), t[k].part = "metadata"
      PROVE  /\ FlowAfter(t, k, z[t[k].file], t[k].file)
             /\ EndsAt(t, k + z[t[k].file], t[k].file, o, j, live)
  BY <1>4, OthersAfterTail
<1> HIDE DEF t
<1>5. FlowAfter(t, 0, y, f)
  <2>1. ASSUME NEW i \in 1..y, 0 + i <= Len(t) PROVE t[0 + i] = Flow(f)
    <3>1. /\ i \in 1..(Len(s) - 1) /\ i + 1 \in 1..x /\ 0 + (i + 1) <= Len(s)
          /\ 0 + i = i /\ 0 + (i + 1) = i + 1
      BY <1>1, <2>1
    <3> QED
      BY <1>1, <1>2, <3>1 DEF FlowAfter
  <2>2. ASSUME 0 + y + 1 <= Len(t) PROVE t[0 + y + 1].part = "metadata"
    <3>1. /\ x \in 1..(Len(s) - 1) /\ 0 + x + 1 <= Len(s) /\ 0 + x + 1 = x + 1
          /\ 0 + y + 1 = x
      BY <1>1, <2>2
    <3> QED
      BY <1>1, <1>2, <3>1 DEF FlowAfter
  <2> QED
    BY <2>1, <2>2 DEF FlowAfter
<1>6. EndsAt(t, y, f, o, j, live)
  BY <1>1, <1>2 DEF EndsAt
<1> QED
  BY <1>3, <1>4, <1>5, <1>6 DEF Stream, t

(* Owing nothing, the server may turn to another file, and it may stop.    *)
LEMMA StreamIdle ==
  ASSUME NEW F, NEW z \in [F -> Nat], NEW s \in Seq(PartsOf(F)), NEW x \in Nat,
         NEW f, NEW j, NEW l, Stream(z, s, x, f, 0, j, TRUE)
  PROVE  Stream(z, s, x, f, 0, l, TRUE)
<1>1. Len(s) \in Nat
  OBVIOUS
<1>2. ASSUME NEW k \in 1..Len(s), s[k].part = "metadata"
      PROVE  /\ FlowAfter(s, k, z[s[k].file], s[k].file)
             /\ EndsAt(s, k + z[s[k].file], s[k].file, 0, l, TRUE)
  <2>1. PICK n \in Nat : n = z[s[k].file]
    BY PartAt
  <2> QED
    BY <1>1, <1>2, <2>1 DEF Stream, EndsAt
<1> QED
  BY <1>1, <1>2 DEF Stream, EndsAt

(* A server that stops owes nothing.                                       *)
LEMMA StreamStops ==
  ASSUME NEW z, NEW s, NEW x, NEW f, NEW o, NEW j, NEW p, NEW l, NEW live,
         Stream(z, s, x, f, o, j, live)
  PROVE  Stream(z, s, x, f, p, l, FALSE)
BY DEF Stream, EndsAt

-----------------------------------------------------------------------------
(* The files whose metadata is in a stream.                                *)

Announced(s) == {s[k].file : k \in {l \in 1..Len(s) : s[l].part = "metadata"}}
AnnouncedOnce(s) ==
  \A k, l \in 1..Len(s) :
    s[k].part = "metadata" /\ s[l].part = "metadata" /\ s[k].file = s[l].file => k = l

LEMMA AnnouncedOfEmpty == Announced(<< >>) = {} /\ AnnouncedOnce(<< >>)
BY DEF Announced, AnnouncedOnce

(* Metadata adds its file, which must be new; its reading removes it.      *)
LEMMA AnnouncedAppend ==
  ASSUME NEW F, NEW s \in Seq(PartsOf(F)), NEW e \in PartsOf(F), AnnouncedOnce(s),
         e.part = "metadata" => e.file \notin Announced(s)
  PROVE  /\ Announced(Append(s, e)) =
              IF e.part = "metadata" THEN Announced(s) \union {e.file} ELSE Announced(s)
         /\ AnnouncedOnce(Append(s, e))
<1> DEFINE t == Append(s, e)
<1>1. /\ Len(t) = Len(s) + 1 /\ Len(s) \in Nat
      /\ \A k \in 1..Len(s) : t[k] = s[k]
      /\ t[Len(s) + 1] = e
  BY Appended
<1> HIDE DEF t
<1>2. \A k \in 1..Len(t) : k \in 1..Len(s) \/ k = Len(s) + 1
  BY <1>1
<1>3. 1..Len(s) \subseteq 1..Len(t) /\ Len(s) + 1 \in 1..Len(t)
  BY <1>1
<1>4. \A k \in 1..Len(s) : s[k].part = "metadata" => s[k].file \in Announced(s)
  BY DEF Announced
<1>5. AnnouncedOnce(t)
  BY <1>1, <1>2, <1>4 DEF AnnouncedOnce
<1>6. Announced(t) \subseteq
        IF e.part = "metadata" THEN Announced(s) \union {e.file} ELSE Announced(s)
  BY <1>1, <1>2, <1>4 DEF Announced
<1>7. Announced(s) \subseteq Announced(t)
  BY <1>1, <1>3 DEF Announced
<1>8. e.part = "metadata" => e.file \in Announced(t)
  BY <1>1, <1>3 DEF Announced
<1> QED
  BY <1>5, <1>6, <1>7, <1>8 DEF t

LEMMA AnnouncedTail ==
  ASSUME NEW F, NEW s \in Seq(PartsOf(F)), s # << >>, AnnouncedOnce(s)
  PROVE  /\ s[1].part = "metadata" => s[1].file \in Announced(s)
         /\ Announced(Tail(s)) =
              IF s[1].part = "metadata" THEN Announced(s) \ {s[1].file} ELSE Announced(s)
         /\ AnnouncedOnce(Tail(s))
<1> DEFINE t == Tail(s)
<1>1. /\ Len(s) \in Nat /\ Len(s) >= 1 /\ Len(t) = Len(s) - 1
      /\ \A k \in 1..(Len(s) - 1) : t[k] = s[k + 1]
  BY TailOf
<1> HIDE DEF t
<1>2. \A k \in 1..Len(t) : k + 1 \in 1..Len(s) /\ k + 1 # 1 /\ t[k] = s[k + 1]
  BY <1>1
<1>3. \A k \in 1..Len(s) : k = 1 \/ (k - 1 \in 1..Len(t) /\ t[k - 1] = s[k])
  BY <1>1
<1>4. 1 \in 1..Len(s)
  BY <1>1
<1>5. AnnouncedOnce(t)
  <2>1. SUFFICES ASSUME NEW k \in 1..Len(t), NEW l \in 1..Len(t),
                        t[k].part = "metadata", t[l].part = "metadata",
                        t[k].file = t[l].file
                 PROVE  k = l
    BY DEF AnnouncedOnce
  <2>2. k + 1 = l + 1
    BY <1>2, <2>1 DEF AnnouncedOnce
  <2> QED
    BY <1>1, <2>2
<1>6. ASSUME NEW k \in 1..Len(t), t[k].part = "metadata"
      PROVE  /\ t[k].file \in Announced(s)
             /\ s[1].part = "metadata" => t[k].file # s[1].file
  BY <1>2, <1>4, <1>6 DEF Announced, AnnouncedOnce
<1>7. ASSUME NEW k \in 1..Len(s), s[k].part = "metadata", k # 1
      PROVE  s[k].file \in Announced(t)
  <2>1. k - 1 \in 1..Len(t) /\ t[k - 1] = s[k]
    BY <1>3, <1>7
  <2> QED
    BY <1>7, <2>1 DEF Announced
<1>8. Announced(t) =
        IF s[1].part = "metadata" THEN Announced(s) \ {s[1].file} ELSE Announced(s)
  <2>1. ASSUME NEW g \in Announced(t)
        PROVE  g \in Announced(s) /\ (s[1].part = "metadata" => g # s[1].file)
    BY <1>6 DEF Announced
  <2>2. ASSUME NEW g \in Announced(s), s[1].part = "metadata" => g # s[1].file
        PROVE  g \in Announced(t)
    <3>1. PICK k \in 1..Len(s) : s[k].part = "metadata" /\ g = s[k].file
      BY DEF Announced
    <3> QED
      BY <1>7, <2>2, <3>1
  <2> QED
    BY <2>1, <2>2
<1> QED
  BY <1>4, <1>5, <1>8 DEF t, Announced

-----------------------------------------------------------------------------
(* The plan of the run.                                                    *)

PlanTyped ==
  /\ closed \in BOOLEAN
  /\ iteration_destination \in [Iterations -> Draws]
  /\ iteration_file_size \in [Iterations -> Sizes]

(* A request has a file per destination it draws, and draws none twice. *)
LEMMA RequestShape ==
  ASSUME PlanTyped, NEW i \in Iterations
  PROVE  /\ Fanout(i) \in 1..Cardinality(Dests)
         /\ iteration_destination[i] \in [1..Fanout(i) -> Dests]
         /\ \A k, l \in 1..Fanout(i) :
              iteration_destination[i][k] = iteration_destination[i][l] => k = l
<1>1. iteration_destination[i] \in Draws
  BY DEF PlanTyped
<1>2. PICK n \in FanoutSizes : iteration_destination[i] \in [1..n -> Dests]
  BY <1>1 DEF Draws
<1>3. n \in 1..Cardinality(Dests) /\ Cardinality(Dests) \in Nat
  BY <1>2, TrafficAssumption, FS_CardinalityType
<1>4. Len(iteration_destination[i]) = n
  BY <1>2, <1>3
<1>5. DOMAIN iteration_destination[i] = 1..n
  BY <1>2
<1> QED
  BY <1>1, <1>2, <1>3, <1>4, <1>5 DEF Draws, Fanout

(* A file belongs to one request, and has a destination and a size.        *)
LEMMA FileShape ==
  ASSUME PlanTyped, NEW f \in Files
  PROVE  /\ f[1] \in Iterations /\ f[2] \in 1..Fanout(f[1])
         /\ f = <<f[1], f[2]>> /\ f \in FilesOf(f[1])
         /\ Destination(f) \in Dests /\ Size(f) \in Nat /\ f # NoFile
<1>1. PICK i \in Iterations : f \in FilesOf(i)
  BY DEF Files
<1>2. PICK k \in 1..Fanout(i) : f = <<i, k>>
  BY <1>1 DEF FilesOf
<1>3. iteration_file_size[i] \in Nat
  BY TrafficAssumption DEF PlanTyped
<1> QED
  BY <1>1, <1>2, <1>3, RequestShape DEF Destination, Size, NoFile, Iterations

(* A request asks for as many files as its fanout says.                    *)
LEMMA FilesOfShape ==
  ASSUME PlanTyped, NEW i \in Iterations
  PROVE  /\ \A k \in 1..Fanout(i) : <<i, k>> \in Files
         /\ FilesOf(i) = {f \in Files : f[1] = i}
         /\ IsFiniteSet(FilesOf(i)) /\ Cardinality(FilesOf(i)) = Fanout(i)
<1>1. \A k \in 1..Fanout(i) : <<i, k>> \in Files
  BY DEF Files, FilesOf
<1>2. FilesOf(i) = {f \in Files : f[1] = i}
  BY <1>1, FileShape DEF FilesOf
<1>3. FilesOf(i) = {i} \X (1..Fanout(i))
  BY DEF FilesOf
<1>4. /\ IsFiniteSet({i}) /\ Cardinality({i}) = 1
  BY FS_Singleton
<1>5. IsFiniteSet(1..Fanout(i)) /\ Cardinality(1..Fanout(i)) = Fanout(i)
  BY RequestShape, FS_Interval
<1>6. /\ IsFiniteSet({i} \X (1..Fanout(i)))
      /\ Cardinality({i} \X (1..Fanout(i))) = Cardinality({i}) * Cardinality(1..Fanout(i))
  BY <1>4, <1>5, FS_Product
<1>7. Fanout(i) \in Nat
  BY RequestShape
<1>8. Cardinality({i}) * Cardinality(1..Fanout(i)) = Fanout(i)
  BY <1>4, <1>5, <1>7
<1>9. IsFiniteSet(FilesOf(i)) /\ Cardinality(FilesOf(i)) = Fanout(i)
  BY <1>3, <1>6, <1>8
<1> QED
  BY <1>1, <1>2, <1>9

LEMMA FilesFinite ==
  ASSUME PlanTyped
  PROVE  IsFiniteSet(Files)
<1>1. IsFiniteSet(1..Iter) /\ IsFiniteSet(1..Cardinality(Dests))
  BY TrafficAssumption, FS_CardinalityType, FS_Interval
<1>2. IsFiniteSet(Iterations \X (1..Cardinality(Dests)))
  BY <1>1, FS_Product DEF Iterations
<1>3. Files \subseteq Iterations \X (1..Cardinality(Dests))
  BY FileShape, RequestShape, TrafficAssumption, FS_CardinalityType
<1> QED
  BY <1>2, <1>3, FS_Subset

(* Nothing changes the plan. *)
LEMMA PlanKept ==
  ASSUME UNCHANGED setup
  PROVE  /\ PlanTyped => PlanTyped'
         /\ Files' = Files
         /\ \A i : Fanout(i)' = Fanout(i) /\ FilesOf(i)' = FilesOf(i)
         /\ \A f : Destination(f)' = Destination(f) /\ Size(f)' = Size(f)
         /\ \A d : dest_file_count(d)' = dest_file_count(d)
BY DEF setup, PlanTyped, Files, Fanout, FilesOf, Destination, Size, dest_file_count

-----------------------------------------------------------------------------
(* The inductive invariant.                                                *)

Begun == pc[Main] # "begin"
Current == IF closed THEN req_index ELSE it[Main]

(* A thread that is in run_iteration, and one that has a file left to send. *)
Sending(a) == pc[a] \in {"stamp", "write"}
Active(a) == Sending(a) /\ next[a] <= Fanout(it[a])

(* A listener between the last byte of a file and the end of its critical  *)
(* section: it has not counted the file.                                   *)
Counting(d) == pc[d] \in {"lock", "load", "count"}

(* Where each thread may be, and what the indexes it works on are.         *)
Threads ==
  /\ pc[Main] \in {"begin", "stamp", "write", "join"}
  /\ \A d \in Dests :
       /\ pc[d] \in {"metadata", "flow", "stamp", "write", "closed"} \/ Counting(d)
       /\ ~closed => pc[d] \in {"metadata", "flow", "closed"}
       /\ pc[d] = "flow" \/ Counting(d) => f_index[d] \in Files
       /\ server[d] \in {"echo", "flow"} => job[d] \in Files

Locking ==
  \A d \in Dests : pc[d] \in {"load", "count", "stamp", "write"} <=> inc_lock = d

(* What is on its way on a connection is a stream.                         *)
SizeOf == [f \in Files |-> Size(f)]
Expected(d) == IF pc[d] = "flow" THEN total[d] ELSE 0
Owed(d) == IF server[d] = "flow" THEN unsent[d] ELSE 0
Live(d) == ~Gone(d)
StreamTo(d) ==
  Stream(SizeOf, replies[d], Expected(d), f_index[d], Owed(d), job[d], Live(d))
Streams == \A d \in Dests : StreamTo(d)

(* The places of a file on its way, from the request to the last byte.     *)
Asked(d) == Elements(requests[d])
AtServer(d) == IF server[d] = "echo" THEN {job[d]} ELSE {}
Answered(d) == Announced(replies[d])
Reading(d) == IF pc[d] = "flow" THEN {f_index[d]} ELSE {}
Pending(d) == Asked(d) \union AtServer(d) \union Answered(d) \union Reading(d)

(* A file is in one place at most, once, on its own connection.            *)
Placed(d) ==
  /\ Injective(requests[d]) /\ AnnouncedOnce(replies[d])
  /\ Asked(d) \cap (AtServer(d) \union Answered(d) \union Reading(d)) = {}
  /\ AtServer(d) \cap (Answered(d) \union Reading(d)) = {}
  /\ Answered(d) \cap Reading(d) = {}
  /\ \A f \in Pending(d) : f \in start_time \ stop_time /\ Destination(f) = d
OnePlace == \A d \in Dests : Placed(d)

(* A file about to be written is in none.                                  *)
Writing ==
  \A a \in Actors : pc[a] = "write" =>
    /\ next[a] <= Fanout(it[a])
    /\ NextFile(a) \in start_time \ stop_time
    /\ \A d \in Dests : NextFile(a) \notin Pending(d)

(* Requests are sent in order, by one thread at a time.                    *)
Order ==
  /\ stop_time \subseteq start_time
  /\ \A f \in start_time : f[1] <= Current
  /\ Begun => \A f \in Files : f[1] < Current =>
                f \in IF closed THEN stop_time ELSE start_time
  /\ ~Begun => /\ start_time = {} /\ req_index = 1 /\ it[Main] = 1
               /\ \A a \in Actors : ~Sending(a)
  /\ \A a \in Actors : Active(a) => it[a] = Current
  /\ \A a, b \in Actors : Active(a) /\ Active(b) => a = b
  /\ \A a \in Actors : Sending(a) =>
       \A k \in 1..Fanout(it[a]) : k < next[a] => <<it[a], k>> \in start_time
  /\ \A a \in Actors : Sending(a) =>
       \A k \in 1..Fanout(it[a]) :
         k > next[a] \/ (k = next[a] /\ pc[a] = "stamp") => <<it[a], k>> \notin start_time

(* A file that is being counted was received, and is of the request under  *)
(* way.                                                                    *)
CountingFiles ==
  \A d \in Dests : Counting(d) =>
    /\ f_index[d] \in stop_time /\ f_index[d][1] = req_index
    /\ Destination(f_index[d]) = d

(* The files of the request under way that are not counted.                *)
Missing ==
  {f \in Files \ stop_time : f[1] = req_index}
    \union {f_index[d] : d \in {e \in Dests : Counting(e)}}
Counted ==
  closed /\ Begun =>
    /\ req_file_count = Cardinality(Missing)
    /\ \A d \in Dests : pc[d] = "count" => loaded[d] = req_file_count

(* Each listener counts the files it received.                             *)
Got(d) == {f \in stop_time : Destination(f) = d}
Tally ==
  /\ \A d \in Dests : /\ file_count[d] = Cardinality(Got(d))
                      /\ pc[d] = "closed" => file_count[d] >= dest_file_count(d)
  /\ status = "done" => \A d \in Dests : pc[d] = "closed"

IInv ==
  /\ TypeOK /\ Threads /\ Locking /\ Streams /\ OnePlace /\ Writing /\ Order
  /\ CountingFiles /\ Counted /\ Tally

(* The plan is part of the typing invariant.                               *)
LEMMA PlanIsTyped == TypeOK => PlanTyped
BY DEF TypeOK, PlanTyped

LEMMA PartsAreParts == Parts = PartsOf(Files)
BY DEF Parts, PartsOf

LEMMA SizesAreSizes ==
  ASSUME PlanTyped
  PROVE  SizeOf \in [Files -> Nat] /\ \A f \in Files : SizeOf[f] = Size(f)
BY FileShape DEF SizeOf

(* What is derived from the plan does not change.                          *)
LEMMA PlanFrame ==
  ASSUME UNCHANGED setup
  PROVE  Parts' = Parts /\ SizeOf' = SizeOf /\ closed' = closed
<1>1. Files' = Files /\ \A f : Size(f)' = Size(f)
  BY PlanKept
<1> QED
  BY <1>1 DEF Parts, SizeOf, setup

(* A listener reads on, or has received all its files.                     *)
LEMMA AfterFileValue ==
  ASSUME NEW d, NEW c
  PROVE  /\ AfterFile(d, c) \in {"metadata", "closed"}
         /\ AfterFile(d, c) = "closed" => ~(c < dest_file_count(d))
BY DEF AfterFile

(* The files of a destination are finitely many.                           *)
LEMMA DestFileCount ==
  ASSUME PlanTyped, NEW d
  PROVE  /\ IsFiniteSet({f \in Files : Destination(f) = d})
         /\ dest_file_count(d) \in Nat
BY FilesFinite, FS_Subset, FS_CardinalityType DEF dest_file_count

(* No file is on its way at first.                                         *)
LEMMA InitInvariant == Init => IInv
<1> SUFFICES ASSUME Init PROVE IInv
  OBVIOUS
<1>1. PlanTyped
  BY DEF Init, PlanTyped
<1>2. /\ Main \notin Dests /\ NoOne \notin Dests /\ 1 \in Iterations /\ 1 \in 1..(Iter + 1)
  BY TrafficAssumption DEF Actors, Iterations
<1>3. /\ pc \in [Actors -> {"begin", "metadata", "closed"}]
      /\ pc[Main] = "begin" /\ \A d \in Dests : pc[d] \in {"metadata", "closed"}
      /\ \A d \in Dests : pc[d] = "closed" => ~(0 < dest_file_count(d))
  BY <1>2, AfterFileValue DEF Init, Actors
<1>4. << >> \in Seq(Files) /\ << >> \in Seq(Parts)
  OBVIOUS
<1>5. TypeOK
  BY <1>1, <1>2, <1>3, <1>4, TrafficAssumption DEF Init, TypeOK, PlanTyped
<1>6. Threads /\ Locking
  BY <1>2, <1>3 DEF Init, Threads, Locking, Counting
<1>7. Streams
  <2>1. SUFFICES ASSUME NEW d \in Dests PROVE StreamTo(d)
    BY DEF Streams
  <2>2. /\ replies[d] = << >> /\ Expected(d) = 0 /\ Owed(d) = 0 /\ Len(<< >>) = 0
    BY <1>3 DEF Init, Expected, Owed
  <2> QED
    BY <2>2 DEF StreamTo, Stream, FlowAfter, EndsAt
<1>8. \A d \in Dests : /\ Injective(requests[d]) /\ AnnouncedOnce(replies[d])
                       /\ Asked(d) = {} /\ AtServer(d) = {} /\ Answered(d) = {}
                       /\ Reading(d) = {}
  BY <1>3, ElementsOfEmpty, AnnouncedOfEmpty
     DEF Init, Asked, AtServer, Answered, Reading
<1>9. OnePlace
  BY <1>8 DEF OnePlace, Placed, Pending
<1>10. Writing /\ Order /\ CountingFiles /\ Counted
  BY <1>2, <1>3 DEF Init, Writing, Order, CountingFiles, Counted, Counting, Begun,
     Sending, Active, Current, Actors
<1>11. Tally
  <2>1. ASSUME NEW d \in Dests PROVE Got(d) = {} /\ file_count[d] = 0
    BY DEF Init, Got
  <2>2. Cardinality({}) = 0
    BY FS_EmptySet
  <2>3. ASSUME NEW d \in Dests, pc[d] = "closed" PROVE 0 >= dest_file_count(d)
    <3>1. ~(0 < dest_file_count(d))
      BY <1>3, <2>3
    <3>2. dest_file_count(d) \in Nat
      BY <1>1, DestFileCount
    <3> QED
      BY <3>1, <3>2
  <2> QED
    BY <2>1, <2>2, <2>3 DEF Init, Tally
<1> QED
  BY <1>5, <1>6, <1>7, <1>9, <1>10, <1>11 DEF IInv

-----------------------------------------------------------------------------
(* What a step leaves alone.                                               *)

LEMMA StreamFrame ==
  ASSUME NEW d, UNCHANGED setup, StreamTo(d),
         Expected(d)' = Expected(d), f_index'[d] = f_index[d],
         UNCHANGED <<replies[d], server[d], unsent[d], job[d]>>
  PROVE  StreamTo(d)'
BY PlanFrame DEF StreamTo, Owed, Live, Gone

(* The places of a file on a connection that a step does not touch.        *)
LEMMA PlacesFrame ==
  ASSUME NEW d, pc'[d] = "flow" <=> pc[d] = "flow",
         pc[d] = "flow" => f_index'[d] = f_index[d],
         UNCHANGED <<requests[d], replies[d], server[d], job[d]>>
  PROVE  /\ Asked(d)' = Asked(d) /\ AtServer(d)' = AtServer(d)
         /\ Answered(d)' = Answered(d) /\ Reading(d)' = Reading(d)
         /\ Pending(d)' = Pending(d)
BY DEF Asked, AtServer, Answered, Reading, Pending

(* Its files stay where they are.                                          *)
LEMMA PlacedFrame ==
  ASSUME NEW d, UNCHANGED setup, Placed(d),
         Asked(d)' = Asked(d), AtServer(d)' = AtServer(d),
         Answered(d)' = Answered(d), Reading(d)' = Reading(d),
         UNCHANGED <<requests[d], replies[d]>>,
         start_time \subseteq start_time',
         \A f \in Pending(d) : f \notin stop_time'
  PROVE  Placed(d)'
<1>1. Pending(d)' = Pending(d)
  BY DEF Pending
<1>2. \A f : Destination(f)' = Destination(f)
  BY PlanKept
<1> QED
  BY <1>1, <1>2 DEF Placed

(* A step of the server, or a thread that exits: no thread of the client   *)
(* moves otherwise.                                                        *)
LEMMA ClientFrame ==
  ASSUME IInv, status' \in {status, "exited"},
         UNCHANGED <<setup, pc, sender, f_index, file_count, shared, times>>,
         \A d \in Dests : Pending(d)' \subseteq Pending(d)
  PROVE  /\ Locking' /\ Writing' /\ Order' /\ CountingFiles' /\ Counted' /\ Tally'
<1>1. /\ Files' = Files /\ \A i : Fanout(i)' = Fanout(i)
      /\ \A f : Destination(f)' = Destination(f)
      /\ \A d : dest_file_count(d)' = dest_file_count(d)
      /\ closed' = closed
  BY PlanKept, PlanFrame
<1>2. UNCHANGED <<pc, it, next, f_index, file_count, inc_lock, req_file_count,
                  req_index, loaded, start_time, stop_time>>
  BY DEF sender, shared, times
<1>3. Locking'
  BY <1>2 DEF IInv, Locking
<1>4. Writing'
  BY <1>1, <1>2 DEF IInv, Writing, NextFile
<1>5. Order'
  BY <1>1, <1>2 DEF IInv, Order, Current, Begun, Active, Sending
<1>6. CountingFiles'
  BY <1>1, <1>2 DEF IInv, CountingFiles, Counting
<1>7. Counted'
  <2>1. Missing' = Missing
    BY <1>1, <1>2 DEF Missing, Counting
  <2> QED
    BY <1>1, <1>2, <2>1 DEF IInv, Counted, Begun
<1>8. Tally'
  BY <1>1, <1>2 DEF IInv, Tally, Got
<1> QED
  BY <1>3, <1>4, <1>5, <1>6, <1>7, <1>8

-----------------------------------------------------------------------------
(* The steps of the server.                                                *)

LEMMA ServeInvariant ==
  ASSUME IInv, NEW d \in Dests, Serve(d)
  PROVE  IInv'
<1>1. PlanTyped /\ requests[d] \in Seq(Files) /\ requests[d] # << >> /\ server[d] = "read"
  BY PlanIsTyped DEF IInv, TypeOK, Serve
<1>2. /\ job' = [job EXCEPT ![d] = Head(requests[d])]
      /\ requests' = [requests EXCEPT ![d] = Tail(@)]
      /\ server' = [server EXCEPT ![d] = "echo"]
      /\ UNCHANGED <<setup, status, pc, it, next, f_index, total, file_count, inc_lock,
                     req_file_count, req_index, loaded, start_time, stop_time,
                     replies, unsent>>
  BY DEF Serve, sender, reader, shared, times
<1>3. Head(requests[d]) \in Files /\ Tail(requests[d]) \in Seq(Files)
  BY <1>1
<1>4. /\ job'[d] = Head(requests[d]) /\ requests'[d] = Tail(requests[d])
      /\ server'[d] = "echo"
      /\ \A e \in Dests : e # d => UNCHANGED <<job[e], requests[e], server[e]>>
  BY <1>2 DEF IInv, TypeOK
<1>5. Files' = Files /\ Parts' = Parts /\ \A f : Destination(f)' = Destination(f)
  BY <1>2, PlanKept, PlanFrame
<1>6. TypeOK'
  BY <1>2, <1>3, <1>5, PlanKept DEF IInv, TypeOK, setup
<1>7. Threads'
  BY <1>2, <1>3, <1>4, <1>5, PlanFrame DEF IInv, Threads, Counting
<1>8. Streams'
  <2>1. ASSUME NEW e \in Dests, e # d PROVE StreamTo(e)'
    BY <1>2, <1>4, <2>1, StreamFrame DEF IInv, Streams, Expected
  <2>2. StreamTo(d)'
    <3>1. /\ Expected(d)' = Expected(d) /\ Owed(d) = 0 /\ Owed(d)' = 0
          /\ Live(d) /\ Live(d)' /\ SizeOf' = SizeOf
      BY <1>1, <1>2, <1>4, PlanFrame DEF Expected, Owed, Live, Gone
    <3>2. Expected(d) \in Nat /\ replies[d] \in Seq(PartsOf(Files)) /\ SizeOf \in [Files -> Nat]
      BY <1>1, PartsAreParts, SizesAreSizes DEF IInv, TypeOK, Expected
    <3>3. Stream(SizeOf, replies[d], Expected(d), f_index[d], 0, job[d], TRUE)
      BY <3>1 DEF IInv, Streams, StreamTo
    <3>4. Stream(SizeOf, replies[d], Expected(d), f_index[d], 0, job'[d], TRUE)
      BY <3>2, <3>3, StreamIdle
    <3> QED
      BY <1>2, <3>1, <3>4 DEF StreamTo
  <2> QED
    BY <2>1, <2>2 DEF Streams
<1>9. /\ Asked(d)' = Asked(d) \ {Head(requests[d])} /\ Head(requests[d]) \in Asked(d)
      /\ AtServer(d) = {} /\ AtServer(d)' = {Head(requests[d])}
      /\ Answered(d)' = Answered(d) /\ Reading(d)' = Reading(d)
      /\ Injective(requests'[d])
  BY <1>1, <1>2, <1>4, ElementsOfTail
     DEF IInv, OnePlace, Placed, Asked, AtServer, Answered, Reading
<1>10. Pending(d)' = Pending(d)
  BY <1>9 DEF Pending
<1>11. OnePlace' /\ \A e \in Dests : Pending(e)' \subseteq Pending(e)
  <2>1. ASSUME NEW e \in Dests, e # d PROVE Placed(e)' /\ Pending(e)' = Pending(e)
    BY <1>2, <1>4, <2>1, PlacesFrame, PlacedFrame DEF IInv, OnePlace, Placed
  <2>2. Placed(d)'
    BY <1>2, <1>5, <1>9, <1>10 DEF IInv, OnePlace, Placed
  <2> QED
    BY <1>10, <2>1, <2>2 DEF OnePlace
<1> QED
  BY <1>2, <1>6, <1>7, <1>8, <1>11, ClientFrame DEF IInv, sender, shared, times

(* Its metadata goes out, and the server owes its flow.                    *)
LEMMA EchoInvariant ==
  ASSUME IInv, NEW d \in Dests, Echo(d)
  PROVE  IInv'
<1> DEFINE j == job[d]
           m == [file |-> j, part |-> "metadata"]
<1>1. /\ PlanTyped /\ replies[d] \in Seq(PartsOf(Files)) /\ server[d] = "echo"
      /\ j \in Files /\ m \in PartsOf(Files) /\ m = Metadata(j) /\ Size(j) \in Nat
      /\ m.part = "metadata" /\ m.file = j
  BY PlanIsTyped, PartsAreParts, FileShape
     DEF IInv, TypeOK, Threads, Echo, PartsOf, Metadata
<1>2. /\ replies' = [replies EXCEPT ![d] = Append(@, m)]
      /\ unsent' = [unsent EXCEPT ![d] = Size(j)]
      /\ server' = [server EXCEPT ![d] = "flow"]
      /\ UNCHANGED <<setup, status, pc, it, next, f_index, total, file_count, inc_lock,
                     req_file_count, req_index, loaded, start_time, stop_time,
                     requests, job>>
  BY DEF Echo, sender, reader, shared, times
<1> HIDE DEF m
<1>3. Append(replies[d], m) \in Seq(PartsOf(Files))
  BY <1>1
<1>4. /\ replies'[d] = Append(replies[d], m) /\ unsent'[d] = Size(j)
      /\ server'[d] = "flow"
      /\ \A e \in Dests : e # d => UNCHANGED <<replies[e], unsent[e], server[e]>>
  BY <1>2 DEF IInv, TypeOK
<1>5. Files' = Files /\ Parts' = Parts /\ \A f : Destination(f)' = Destination(f)
  BY <1>2, PlanKept, PlanFrame
<1>6. TypeOK'
  BY <1>1, <1>2, <1>3, <1>5, PlanKept, PartsAreParts DEF IInv, TypeOK, setup
<1>7. Threads'
  BY <1>1, <1>2, <1>4, <1>5, PlanFrame DEF IInv, Threads, Counting
<1>8. Streams'
  <2>1. ASSUME NEW e \in Dests, e # d PROVE StreamTo(e)'
    BY <1>2, <1>4, <2>1, StreamFrame DEF IInv, Streams, Expected
  <2>2. StreamTo(d)'
    <3>1. /\ Expected(d)' = Expected(d) /\ Owed(d) = 0 /\ Owed(d)' = SizeOf[j]
          /\ Live(d) /\ Live(d)' /\ SizeOf' = SizeOf
      BY <1>1, <1>2, <1>4, PlanFrame, SizesAreSizes DEF Expected, Owed, Live, Gone
    <3>2. Expected(d) \in Nat /\ SizeOf \in [Files -> Nat]
      BY <1>1, SizesAreSizes DEF IInv, TypeOK, Expected
    <3>3. Stream(SizeOf, replies[d], Expected(d), f_index[d], 0, j, TRUE)
      BY <3>1 DEF IInv, Streams, StreamTo
    <3>4. Stream(SizeOf, Append(replies[d], m), Expected(d), f_index[d], SizeOf[j], j, TRUE)
      BY <1>1, <3>2, <3>3, StreamEchoed
    <3> QED
      BY <1>2, <1>4, <3>1, <3>4 DEF StreamTo
  <2> QED
    BY <2>1, <2>2 DEF Streams
<1>9. /\ AtServer(d) = {j} /\ j \notin Answered(d)
      /\ AnnouncedOnce(replies[d])
  BY <1>1 DEF IInv, OnePlace, Placed, AtServer
<1>10. Answered(d)' = Answered(d) \union {j} /\ AnnouncedOnce(replies'[d])
  BY <1>1, <1>4, <1>9, AnnouncedAppend DEF Answered
<1>11. /\ AtServer(d)' = {} /\ Asked(d)' = Asked(d) /\ Reading(d)' = Reading(d)
  BY <1>2, <1>4 DEF Asked, AtServer, Reading
<1>12. Pending(d)' = Pending(d)
  BY <1>9, <1>10, <1>11 DEF Pending
<1>13. OnePlace' /\ \A e \in Dests : Pending(e)' \subseteq Pending(e)
  <2>1. ASSUME NEW e \in Dests, e # d PROVE Placed(e)' /\ Pending(e)' = Pending(e)
    BY <1>2, <1>4, <2>1, PlacesFrame, PlacedFrame DEF IInv, OnePlace, Placed
  <2>2. Placed(d)'
    BY <1>2, <1>5, <1>9, <1>10, <1>11, <1>12 DEF IInv, OnePlace, Placed
  <2> QED
    BY <1>12, <2>1, <2>2 DEF OnePlace
<1> QED
  BY <1>2, <1>6, <1>7, <1>8, <1>13, ClientFrame DEF IInv, sender, shared, times

(* A part of the flow goes out.                                            *)
LEMMA SendFlowInvariant ==
  ASSUME IInv, NEW d \in Dests, SendFlow(d)
  PROVE  IInv'
<1> DEFINE j == job[d]
           m == [file |-> j, part |-> "flow"]
<1>1. /\ PlanTyped /\ replies[d] \in Seq(PartsOf(Files)) /\ server[d] = "flow"
      /\ j \in Files /\ m \in PartsOf(Files) /\ m = Flow(j) /\ unsent[d] \in Nat \ {0}
      /\ m.part # "metadata"
  <2>1. PlanTyped /\ replies[d] \in Seq(PartsOf(Files))
    BY PlanIsTyped, PartsAreParts DEF IInv, TypeOK
  <2>2. server[d] = "flow" /\ unsent[d] \in Nat \ {0}
    BY DEF IInv, TypeOK, SendFlow
  <2>3. j \in Files
    BY <2>2 DEF IInv, Threads
  <2>4. m \in PartsOf(Files) /\ m = Flow(j) /\ m.part # "metadata"
    BY <2>3 DEF PartsOf, Flow
  <2> QED
    BY <2>1, <2>2, <2>3, <2>4
<1>2. /\ replies' = [replies EXCEPT ![d] = Append(@, m)]
      /\ unsent' = [unsent EXCEPT ![d] = @ - 1]
      /\ UNCHANGED <<setup, status, pc, it, next, f_index, total, file_count, inc_lock,
                     req_file_count, req_index, loaded, start_time, stop_time,
                     requests, job, server>>
  BY DEF SendFlow, sender, reader, shared, times
<1> HIDE DEF m
<1>3. Append(replies[d], m) \in Seq(PartsOf(Files)) /\ unsent[d] - 1 \in Nat
  BY <1>1
<1>4. /\ replies'[d] = Append(replies[d], m) /\ unsent'[d] = unsent[d] - 1
      /\ \A e \in Dests : e # d => UNCHANGED <<replies[e], unsent[e]>>
  BY <1>2 DEF IInv, TypeOK
<1>5. Files' = Files /\ Parts' = Parts /\ \A f : Destination(f)' = Destination(f)
  BY <1>2, PlanKept, PlanFrame
<1>6. TypeOK'
  BY <1>1, <1>2, <1>3, <1>5, PlanKept, PartsAreParts DEF IInv, TypeOK, setup
<1>7. Threads'
  BY <1>1, <1>2, <1>5, PlanFrame DEF IInv, Threads, Counting
<1>8. Streams'
  <2>1. ASSUME NEW e \in Dests, e # d PROVE StreamTo(e)'
    BY <1>2, <1>4, <2>1, StreamFrame DEF IInv, Streams, Expected
  <2>2. StreamTo(d)'
    <3>1. /\ Expected(d)' = Expected(d) /\ Owed(d) = unsent[d] /\ Owed(d)' = unsent[d] - 1
          /\ Live(d) /\ Live(d)' /\ SizeOf' = SizeOf
      BY <1>1, <1>2, <1>4, PlanFrame DEF Expected, Owed, Live, Gone
    <3>2. Expected(d) \in Nat /\ SizeOf \in [Files -> Nat]
      BY <1>1, SizesAreSizes DEF IInv, TypeOK, Expected
    <3>3. Stream(SizeOf, replies[d], Expected(d), f_index[d], unsent[d], j, TRUE)
      BY <3>1 DEF IInv, Streams, StreamTo
    <3>4. Stream(SizeOf, Append(replies[d], m), Expected(d), f_index[d], unsent[d] - 1, j, TRUE)
      BY <1>1, <3>2, <3>3, StreamSent
    <3> QED
      BY <1>2, <1>4, <3>1, <3>4 DEF StreamTo
  <2> QED
    BY <2>1, <2>2 DEF Streams
<1>9. Answered(d)' = Answered(d) /\ AnnouncedOnce(replies'[d])
  BY <1>1, <1>4, AnnouncedAppend DEF IInv, OnePlace, Placed, Answered
<1>10. AtServer(d)' = AtServer(d) /\ Asked(d)' = Asked(d) /\ Reading(d)' = Reading(d)
  BY <1>2 DEF Asked, AtServer, Reading
<1>11. Pending(d)' = Pending(d)
  BY <1>9, <1>10 DEF Pending
<1>12. OnePlace' /\ \A e \in Dests : Pending(e)' \subseteq Pending(e)
  <2>1. ASSUME NEW e \in Dests, e # d PROVE Placed(e)' /\ Pending(e)' = Pending(e)
    BY <1>2, <1>4, <2>1, PlacesFrame, PlacedFrame DEF IInv, OnePlace, Placed
  <2>2. Placed(d)'
    BY <1>2, <1>5, <1>9, <1>10, <1>11 DEF IInv, OnePlace, Placed
  <2> QED
    BY <1>11, <2>1, <2>2 DEF OnePlace
<1> QED
  BY <1>2, <1>6, <1>7, <1>8, <1>12, ClientFrame DEF IInv, sender, shared, times

(* The process goes back to reading, or ends: it owes nothing more.        *)
LEMMA ServerTurns ==
  ASSUME IInv, NEW d \in Dests, NEW next_server \in {"read", "closed", "dead"},
         server' = [server EXCEPT ![d] = next_server],
         next_server = "read" => server[d] = "flow" /\ unsent[d] = 0,
         UNCHANGED <<setup, status, pc, sender, reader, file_count, shared, times,
                     requests, replies, job, unsent>>
  PROVE  IInv'
<1>1. PlanTyped /\ replies[d] \in Seq(PartsOf(Files))
  BY PlanIsTyped, PartsAreParts DEF IInv, TypeOK
<1>2. UNCHANGED <<setup, status, pc, it, next, f_index, total, file_count, inc_lock,
                  req_file_count, req_index, loaded, start_time, stop_time,
                  requests, replies, job, unsent>>
  BY DEF sender, reader, shared, times
<1>3. server'[d] = next_server /\ \A e \in Dests : e # d => UNCHANGED server[e]
  BY DEF IInv, TypeOK
<1>4. Files' = Files /\ Parts' = Parts /\ \A f : Destination(f)' = Destination(f)
  BY PlanKept, PlanFrame
<1>5. TypeOK'
  BY <1>2, <1>4, PlanKept DEF IInv, TypeOK, setup
<1>6. Threads'
  BY <1>2, <1>3, <1>4, PlanFrame DEF IInv, Threads, Counting
<1>7. Streams'
  <2>1. ASSUME NEW e \in Dests, e # d PROVE StreamTo(e)'
    BY <1>2, <1>3, <2>1, StreamFrame DEF IInv, Streams, Expected
  <2>2. StreamTo(d)'
    <3>1. SizeOf' = SizeOf /\ Expected(d)' = Expected(d) /\ Owed(d)' = 0
      BY <1>2, <1>3, PlanFrame DEF Expected, Owed
    <3>2. Stream(SizeOf, replies[d], Expected(d), f_index[d], Owed(d), job[d], Live(d))
      BY DEF IInv, Streams, StreamTo
    <3>3. CASE next_server = "read"
      BY <1>2, <1>3, <3>1, <3>2, <3>3 DEF StreamTo, Owed, Live, Gone
    <3>4. CASE next_server # "read"
      <4>1. Live(d)' = FALSE
        BY <1>3, <3>4 DEF Live, Gone
      <4>2. Stream(SizeOf, replies[d], Expected(d), f_index[d], 0, job[d], FALSE)
        BY <3>2, StreamStops
      <4> QED
        BY <1>2, <3>1, <4>1, <4>2 DEF StreamTo
    <3> QED
      BY <3>3, <3>4
  <2> QED
    BY <2>1, <2>2 DEF Streams
<1>8. /\ AtServer(d)' = {} /\ Asked(d)' = Asked(d) /\ Reading(d)' = Reading(d)
      /\ Answered(d)' = Answered(d)
  BY <1>2, <1>3 DEF Asked, AtServer, Reading, Answered
<1>9. Pending(d)' \subseteq Pending(d)
  BY <1>8 DEF Pending
<1>10. OnePlace' /\ \A e \in Dests : Pending(e)' \subseteq Pending(e)
  <2>1. ASSUME NEW e \in Dests, e # d PROVE Placed(e)' /\ Pending(e)' = Pending(e)
    BY <1>2, <1>3, <2>1, PlacesFrame, PlacedFrame DEF IInv, OnePlace, Placed
  <2>2. Placed(d)'
    BY <1>2, <1>4, <1>8, <1>9 DEF IInv, OnePlace, Placed
  <2> QED
    BY <1>9, <2>1, <2>2 DEF OnePlace
<1> QED
  BY <1>2, <1>5, <1>6, <1>7, <1>10, ClientFrame DEF IInv, sender, shared, times

LEMMA ServerInvariant ==
  ASSUME IInv, NEW d \in Dests, HandleConnection(d) \/ Die(d)
  PROVE  IInv'
<1>1. CASE Serve(d)
  BY <1>1, ServeInvariant
<1>2. CASE Echo(d)
  BY <1>2, EchoInvariant
<1>3. CASE SendFlow(d)
  BY <1>3, SendFlowInvariant
<1>4. CASE Served(d)
  BY <1>4, ServerTurns DEF Served
<1>5. CASE CloseConnection(d)
  BY <1>5, ServerTurns DEF CloseConnection
<1>6. CASE Die(d)
  BY <1>6, ServerTurns DEF Die
<1> QED
  BY <1>1, <1>2, <1>3, <1>4, <1>5, <1>6 DEF HandleConnection

-----------------------------------------------------------------------------
(* The steps of the client.                                                *)

(* A thread that exits in error, or goes round, changes nothing else.      *)
LEMMA ExitInvariant ==
  ASSUME IInv, status' \in {status, "exited"},
         UNCHANGED <<setup, pc, sender, reader, file_count, shared, times, requests,
                     replies, serving>>
  PROVE  IInv'
<1>1. UNCHANGED <<setup, pc, it, next, f_index, total, file_count, inc_lock,
                  req_file_count, req_index, loaded, start_time, stop_time,
                  requests, replies, server, job, unsent>>
  BY DEF sender, reader, shared, times, serving
<1>2. Files' = Files /\ Parts' = Parts /\ \A f : Destination(f)' = Destination(f)
  BY PlanKept, PlanFrame
<1>3. TypeOK'
  BY <1>1, <1>2, PlanKept DEF IInv, TypeOK, setup
<1>4. Threads'
  BY <1>1, <1>2, PlanFrame DEF IInv, Threads, Counting
<1>5. Streams'
  BY <1>1, StreamFrame DEF IInv, Streams, Expected
<1>6. OnePlace' /\ \A e \in Dests : Pending(e)' \subseteq Pending(e)
  BY <1>1, PlacesFrame, PlacedFrame DEF IInv, OnePlace, Placed
<1> QED
  BY <1>1, <1>3, <1>4, <1>5, <1>6, ClientFrame DEF IInv, sender, shared, times

(* The listener takes what is at the head for metadata: it is.             *)
LEMMA ReadMetadataInvariant ==
  ASSUME IInv, NEW d \in Dests, ReadMetadata(d)
  PROVE  IInv'
<1> DEFINE g == Head(replies[d]).file
<1>1. /\ PlanTyped /\ replies[d] \in Seq(PartsOf(Files)) /\ replies[d] # << >>
      /\ pc[d] = "metadata" /\ d \in Actors /\ d # Main
  BY PlanIsTyped, PartsAreParts, TrafficAssumption
     DEF IInv, TypeOK, ReadMetadata, Actors
<1>2. /\ g \in Files /\ Size(g) \in Nat /\ SizeOf[g] = Size(g) /\ g = replies[d][1].file
      /\ Tail(replies[d]) \in Seq(PartsOf(Files))
  <2>1. Head(replies[d]) \in PartsOf(Files) /\ Head(replies[d]) = replies[d][1]
    BY <1>1
  <2>2. g \in Files
    BY <2>1 DEF PartsOf
  <2> QED
    BY <1>1, <2>1, <2>2, FileShape, SizesAreSizes
<1>3. /\ f_index' = [f_index EXCEPT ![d] = g]
      /\ total' = [total EXCEPT ![d] = Size(g)]
      /\ replies' = [replies EXCEPT ![d] = Tail(@)]
      /\ pc' = [pc EXCEPT ![d] = "flow"]
      /\ UNCHANGED <<setup, status, it, next, file_count, inc_lock,
                     req_file_count, req_index, loaded, start_time, stop_time,
                     requests, server, job, unsent>>
  BY DEF ReadMetadata, sender, shared, times, serving
<1> HIDE DEF g
<1>4. /\ f_index'[d] = g /\ total'[d] = Size(g) /\ replies'[d] = Tail(replies[d])
      /\ pc'[d] = "flow"
      /\ \A e \in Dests : e # d => UNCHANGED <<f_index[e], total[e], replies[e]>>
      /\ \A a \in Actors : a # d => UNCHANGED pc[a]
  BY <1>1, <1>3 DEF IInv, TypeOK
<1>5. /\ Files' = Files /\ Parts' = Parts /\ \A f : Destination(f)' = Destination(f)
      /\ \A i : Fanout(i)' = Fanout(i) /\ closed' = closed
  BY <1>3, PlanKept, PlanFrame
<1>6. TypeOK'
  BY <1>1, <1>2, <1>3, <1>5, PlanKept, PartsAreParts DEF IInv, TypeOK, setup
<1>7. Threads'
  BY <1>1, <1>2, <1>3, <1>4, <1>5 DEF IInv, Threads, Counting, Actors
<1>8. \A e \in Dests : Counting(e)' <=> Counting(e)
  BY <1>1, <1>4 DEF Counting, Actors
<1>9. \A a \in Actors : /\ Sending(a)' <=> Sending(a)
                        /\ Active(a)' <=> Active(a)
                        /\ (pc[a] \in {"begin", "write", "stamp", "count", "closed"}
                            \/ pc'[a] \in {"begin", "write", "stamp", "count", "closed"})
                           => pc'[a] = pc[a]
  BY <1>1, <1>3, <1>4, <1>5 DEF Sending, Active
<1>10. Locking'
  BY <1>1, <1>3, <1>4 DEF IInv, Locking, Actors
<1>11. Order'
  BY <1>3, <1>5, <1>9 DEF IInv, Order, Current, Begun, Actors
<1>12. CountingFiles'
  BY <1>1, <1>3, <1>4, <1>5, <1>8 DEF IInv, CountingFiles, Counting
<1>13. Counted'
  <2>1. Missing' = Missing
    BY <1>1, <1>3, <1>4, <1>5, <1>8 DEF Missing, Counting
  <2> QED
    BY <1>1, <1>3, <1>4, <1>5, <1>9, <2>1 DEF IInv, Counted, Begun, Actors
<1>14. Tally'
  <2>1. \A e : dest_file_count(e)' = dest_file_count(e)
    BY <1>3, PlanKept
  <2>2. \A e \in Dests : Got(e)' = Got(e) /\ (pc'[e] = "closed" => pc[e] = "closed")
    BY <1>1, <1>3, <1>4, <1>5 DEF Got, Actors
  <2>3. status' = "done" => \A e \in Dests : pc'[e] = "closed"
    BY <1>1, <1>3 DEF IInv, Tally, ReadMetadata
  <2> QED
    BY <1>3, <2>1, <2>2, <2>3 DEF IInv, Tally
<1>15. /\ replies[d][1].part = "metadata"
       /\ Stream(SizeOf, Tail(replies[d]), Size(g), g, Owed(d), job[d], Live(d))
  <2>1. Stream(SizeOf, replies[d], 0, f_index[d], Owed(d), job[d], Live(d))
    BY <1>1 DEF IInv, Streams, StreamTo, Expected
  <2>2. Owed(d) \in Nat /\ Live(d) \in BOOLEAN
    BY DEF IInv, TypeOK, Owed, Live, Gone
  <2> QED
    BY <1>1, <1>2, <2>1, <2>2, SizesAreSizes, StreamMetadataRead
<1>16. Streams'
  <2>1. ASSUME NEW e \in Dests, e # d PROVE StreamTo(e)'
    BY <1>3, <1>4, <2>1, StreamFrame DEF IInv, Streams, Expected, Actors
  <2>2. /\ SizeOf' = SizeOf /\ Expected(d)' = Size(g) /\ Owed(d)' = Owed(d)
        /\ Live(d)' = Live(d)
    BY <1>3, <1>4, PlanFrame DEF Expected, Owed, Live, Gone
  <2>3. StreamTo(d)'
    BY <1>3, <1>4, <1>15, <2>2 DEF StreamTo
  <2> QED
    BY <2>1, <2>3 DEF Streams
<1>17. /\ g \in Answered(d) /\ Answered(d)' = Answered(d) \ {g}
       /\ AnnouncedOnce(replies'[d])
  BY <1>1, <1>2, <1>4, <1>15, AnnouncedTail DEF IInv, OnePlace, Placed, Answered
<1>18. /\ Reading(d) = {} /\ Reading(d)' = {g}
       /\ Asked(d)' = Asked(d) /\ AtServer(d)' = AtServer(d)
  BY <1>1, <1>3, <1>4 DEF Reading, Asked, AtServer
<1>19. Pending(d)' = Pending(d)
  BY <1>17, <1>18 DEF Pending
<1>20. OnePlace' /\ \A e \in Dests : Pending(e)' = Pending(e)
  <2>1. ASSUME NEW e \in Dests, e # d PROVE Placed(e)' /\ Pending(e)' = Pending(e)
    BY <1>3, <1>4, <2>1, PlacesFrame, PlacedFrame DEF IInv, OnePlace, Placed, Actors
  <2>2. Placed(d)'
    BY <1>3, <1>5, <1>17, <1>18, <1>19 DEF IInv, OnePlace, Placed
  <2> QED
    BY <1>19, <2>1, <2>2 DEF OnePlace
<1>21. Writing'
  BY <1>3, <1>5, <1>9, <1>20 DEF IInv, Writing, NextFile
<1> QED
  BY <1>6, <1>7, <1>10, <1>11, <1>12, <1>13, <1>14, <1>16, <1>20, <1>21 DEF IInv

(* It takes a part of a flow: it is that of its file.                      *)
LEMMA ReadFlowInvariant ==
  ASSUME IInv, NEW d \in Dests, ReadFlow(d)
  PROVE  IInv'
<1>1. /\ PlanTyped /\ replies[d] \in Seq(PartsOf(Files)) /\ replies[d] # << >>
      /\ pc[d] = "flow" /\ total[d] \in Nat \ {0}
      /\ Tail(replies[d]) \in Seq(PartsOf(Files))
  <2>1. PlanTyped /\ replies[d] \in Seq(PartsOf(Files)) /\ replies[d] # << >>
    BY PlanIsTyped, PartsAreParts DEF IInv, TypeOK, ReadFlow
  <2>2. pc[d] = "flow" /\ total[d] \in Nat \ {0}
    BY DEF IInv, TypeOK, ReadFlow
  <2> QED
    BY <2>1, <2>2
<1>2. /\ total' = [total EXCEPT ![d] = @ - 1]
      /\ replies' = [replies EXCEPT ![d] = Tail(@)]
      /\ UNCHANGED <<setup, status, pc, it, next, f_index, file_count, inc_lock,
                     req_file_count, req_index, loaded, start_time, stop_time,
                     requests, server, job, unsent>>
  BY DEF ReadFlow, sender, shared, times, serving
<1>3. /\ total'[d] = total[d] - 1 /\ total[d] - 1 \in Nat
      /\ replies'[d] = Tail(replies[d])
      /\ \A e \in Dests : e # d => UNCHANGED <<total[e], replies[e]>>
  BY <1>1, <1>2 DEF IInv, TypeOK
<1>4. Files' = Files /\ Parts' = Parts /\ \A f : Destination(f)' = Destination(f)
  BY <1>2, PlanKept, PlanFrame
<1>5. TypeOK'
  BY <1>1, <1>2, <1>3, <1>4, PlanKept, PartsAreParts DEF IInv, TypeOK, setup
<1>6. Threads'
  BY <1>2, <1>4, PlanFrame DEF IInv, Threads, Counting
<1>7. /\ replies[d][1] = Flow(f_index[d])
      /\ Stream(SizeOf, Tail(replies[d]), total[d] - 1, f_index[d], Owed(d), job[d], Live(d))
  <2>1. Stream(SizeOf, replies[d], total[d], f_index[d], Owed(d), job[d], Live(d))
    BY <1>1 DEF IInv, Streams, StreamTo, Expected
  <2>2. Owed(d) \in Nat /\ Live(d) \in BOOLEAN
    BY DEF IInv, TypeOK, Owed, Live, Gone
  <2>3. SizeOf \in [Files -> Nat]
    BY <1>1, SizesAreSizes
  <2>4. total[d] \in Nat /\ total[d] - 1 \in Nat
    BY <1>1
  <2>5. replies[d] \in Seq(PartsOf(Files)) /\ replies[d] # << >>
    BY <1>1
  <2>6. PICK F, z, s, x, y, f, o, j, live :
          /\ F = Files /\ z = SizeOf /\ s = replies[d] /\ x = total[d] /\ y = total[d] - 1
          /\ f = f_index[d] /\ o = Owed(d) /\ j = job[d] /\ live = Live(d)
    OBVIOUS
  <2>7. /\ z \in [F -> Nat] /\ s \in Seq(PartsOf(F)) /\ s # << >>
        /\ x \in Nat /\ y \in Nat /\ y < x /\ x <= y + 1 /\ o \in Nat
        /\ live \in BOOLEAN /\ Stream(z, s, x, f, o, j, live)
    BY <2>1, <2>2, <2>3, <2>4, <2>5, <2>6
  <2>8. s[1] = Flow(f) /\ Stream(z, Tail(s), y, f, o, j, live)
    BY ONLY <2>7, StreamFlowRead
  <2> QED
    BY <2>6, <2>8
<1>8. Streams'
  <2>1. ASSUME NEW e \in Dests, e # d PROVE StreamTo(e)'
    BY <1>2, <1>3, <2>1, StreamFrame DEF IInv, Streams, Expected
  <2>2. /\ SizeOf' = SizeOf /\ Expected(d)' = total[d] - 1 /\ Owed(d)' = Owed(d)
        /\ Live(d)' = Live(d)
    BY <1>1, <1>2, <1>3, PlanFrame DEF Expected, Owed, Live, Gone
  <2>3. StreamTo(d)'
    BY <1>2, <1>3, <1>7, <2>2 DEF StreamTo
  <2> QED
    BY <2>1, <2>3 DEF Streams
<1>9. Answered(d)' = Answered(d) /\ AnnouncedOnce(replies'[d])
  <2>1. replies[d][1].part # "metadata"
    BY <1>7 DEF Flow
  <2> QED
    BY <1>1, <1>3, <2>1, AnnouncedTail DEF IInv, OnePlace, Placed, Answered
<1>10. AtServer(d)' = AtServer(d) /\ Asked(d)' = Asked(d) /\ Reading(d)' = Reading(d)
  BY <1>2 DEF Asked, AtServer, Reading
<1>11. Pending(d)' = Pending(d)
  BY <1>9, <1>10 DEF Pending
<1>12. OnePlace' /\ \A e \in Dests : Pending(e)' \subseteq Pending(e)
  <2>1. ASSUME NEW e \in Dests, e # d PROVE Placed(e)' /\ Pending(e)' = Pending(e)
    BY <1>2, <1>3, <2>1, PlacesFrame, PlacedFrame DEF IInv, OnePlace, Placed
  <2>2. Placed(d)'
    BY <1>2, <1>4, <1>9, <1>10, <1>11 DEF IInv, OnePlace, Placed
  <2> QED
    BY <1>11, <2>1, <2>2 DEF OnePlace
<1> QED
  BY <1>2, <1>5, <1>6, <1>8, <1>12, ClientFrame DEF IInv, sender, shared, times

(* The file leaves its place, and in the closed loop is counted next.      *)
LEMMA ReceivedInvariant ==
  ASSUME IInv, NEW d \in Dests, Received(d)
  PROVE  IInv'
<1> DEFINE g == f_index[d]
           x == IF closed THEN "lock" ELSE AfterFile(d, file_count[d] + 1)
<1>1. /\ PlanTyped /\ pc[d] = "flow" /\ total[d] = 0 /\ d \in Actors /\ d # Main
      /\ g \in Files /\ status = "running"
      /\ x \in {"lock", "metadata", "closed"} /\ (closed <=> x = "lock")
      /\ (x = "closed" => ~(file_count[d] + 1 < dest_file_count(d)))
  BY PlanIsTyped, TrafficAssumption, AfterFileValue
     DEF IInv, Threads, Received, Actors
<1>2. /\ stop_time' = stop_time \union {g}
      /\ file_count' = [file_count EXCEPT ![d] = @ + 1]
      /\ pc' = [pc EXCEPT ![d] = x]
      /\ UNCHANGED <<setup, status, it, next, f_index, total, inc_lock,
                     req_file_count, req_index, loaded, start_time,
                     requests, replies, server, job, unsent>>
  BY DEF Received, sender, reader, shared, serving
<1> HIDE DEF x
<1>3. /\ pc'[d] = x /\ \A a \in Actors : a # d => UNCHANGED pc[a]
      /\ file_count'[d] = file_count[d] + 1
      /\ \A e \in Dests : e # d => UNCHANGED file_count[e]
  BY <1>1, <1>2 DEF IInv, TypeOK
<1>4. /\ Files' = Files /\ Parts' = Parts /\ \A f : Destination(f)' = Destination(f)
      /\ \A i : Fanout(i)' = Fanout(i) /\ closed' = closed
  BY <1>2, PlanKept, PlanFrame
<1>5. /\ g \in Pending(d) /\ g \in start_time /\ g \notin stop_time /\ Destination(g) = d
      /\ g \in Reading(d)
  BY <1>1 DEF Reading, Pending, IInv, OnePlace, Placed
<1>6. TypeOK'
  <2>1. pc' \in [Actors -> {"begin", "metadata", "flow", "lock", "load", "count",
                            "stamp", "write", "join", "closed"}]
    BY <1>1, <1>2 DEF IInv, TypeOK
  <2>2. file_count' \in [Dests -> Nat] /\ stop_time' \subseteq Files
    BY <1>1, <1>2 DEF IInv, TypeOK
  <2> QED
    BY <1>2, <1>4, <2>1, <2>2, PlanKept DEF IInv, TypeOK, setup
<1>7. Threads'
  BY <1>1, <1>2, <1>3, <1>4 DEF IInv, Threads, Counting, Actors
<1>8. \A a \in Actors : /\ Sending(a)' <=> Sending(a)
                        /\ Active(a)' <=> Active(a)
                        /\ (pc[a] \in {"begin", "write", "stamp", "count"}
                            \/ pc'[a] \in {"begin", "write", "stamp", "count"})
                           => pc'[a] = pc[a]
  BY <1>1, <1>2, <1>3, <1>4 DEF Sending, Active
<1>9. Locking'
  BY <1>1, <1>2, <1>3 DEF IInv, Locking, Actors
<1>10. Order'
  BY <1>2, <1>4, <1>5, <1>8 DEF IInv, Order, Current, Begun, Actors
<1>11. closed => g[1] = req_index
  <2>1. g[1] \in Int /\ req_index \in Int
    BY <1>1, FileShape DEF Iterations, IInv, TypeOK
  <2>2. Begun
    BY <1>5 DEF IInv, Order
  <2> QED
    BY <1>1, <1>5, <2>1, <2>2 DEF IInv, Order, Current
<1>12. CountingFiles'
  BY <1>1, <1>2, <1>3, <1>4, <1>5, <1>11 DEF IInv, CountingFiles, Counting, Actors
<1>13. Counted'
  <2>1. ASSUME closed PROVE Missing' = Missing
    <3>1. \A e \in Dests : Counting(e)' <=> (Counting(e) \/ e = d)
      BY <1>1, <1>3, <2>1 DEF Counting, Actors
    <3>2. g \in {f \in Files \ stop_time : f[1] = req_index}
      BY <1>1, <1>5, <1>11, <2>1
    <3> QED
      BY <1>2, <1>4, <3>1, <3>2 DEF Missing
  <2> QED
    BY <1>1, <1>2, <1>3, <1>4, <1>8, <2>1 DEF IInv, Counted, Begun, Actors
<1>14. Tally'
  <2>1. \A e : dest_file_count(e)' = dest_file_count(e)
    BY <1>2, PlanKept
  <2>2. Got(d)' = Got(d) \union {g} /\ g \notin Got(d)
    BY <1>2, <1>4, <1>5 DEF Got
  <2>3. IsFiniteSet(Got(d)) /\ Cardinality(Got(d)) \in Nat
    <3>1. stop_time \subseteq Files
      BY DEF IInv, TypeOK
    <3>2. Got(d) \subseteq {f \in Files : Destination(f) = d}
      BY <3>1 DEF Got
    <3>3. IsFiniteSet({f \in Files : Destination(f) = d})
      BY <1>1, DestFileCount
    <3> QED
      BY <3>2, <3>3, FS_Subset, FS_CardinalityType
  <2>4. Cardinality(Got(d)') = file_count'[d]
    BY <1>3, <2>2, <2>3, FS_AddElement DEF IInv, Tally
  <2>5. \A e \in Dests : e # d => Got(e)' = Got(e)
    BY <1>2, <1>4, <1>5 DEF Got
  <2>6. x = "closed" => file_count[d] + 1 >= dest_file_count(d)
    <3>1. dest_file_count(d) \in Nat /\ file_count[d] \in Nat
      BY <1>1, DestFileCount DEF IInv, TypeOK
    <3> QED
      BY <1>1, <3>1
  <2>7. status' # "done"
    BY <1>1, <1>2
  <2> QED
    BY <1>3, <2>1, <2>4, <2>5, <2>6, <2>7 DEF IInv, Tally, Actors
<1>15. Streams'
  <2>1. ASSUME NEW e \in Dests PROVE Expected(e)' = Expected(e)
    BY <1>1, <1>2, <1>3 DEF Expected, Actors
  <2> QED
    BY <1>2, <2>1, StreamFrame DEF IInv, Streams
<1>16. /\ Reading(d) = {g} /\ Reading(d)' = {}
       /\ Asked(d)' = Asked(d) /\ AtServer(d)' = AtServer(d) /\ Answered(d)' = Answered(d)
  BY <1>1, <1>2, <1>3 DEF Reading, Asked, AtServer, Answered
<1>17. OnePlace' /\ \A e \in Dests : Pending(e)' \subseteq Pending(e)
  <2>1. ASSUME NEW e \in Dests, e # d PROVE Placed(e)' /\ Pending(e)' = Pending(e)
    <3>1. \A f \in Pending(e) : f \notin stop_time'
      BY <1>2, <1>5, <2>1 DEF IInv, OnePlace, Placed
    <3> QED
      BY <1>2, <1>3, <2>1, <3>1, PlacesFrame, PlacedFrame DEF IInv, OnePlace, Actors
  <2>2. Pending(d)' = Pending(d) \ {g}
    BY <1>16 DEF Pending, IInv, OnePlace, Placed
  <2>3. Placed(d)'
    BY <1>2, <1>4, <1>16, <2>2 DEF IInv, OnePlace, Placed
  <2> QED
    BY <2>1, <2>2, <2>3 DEF OnePlace
<1>18. Writing'
  <2>1. ASSUME NEW a \in Actors, pc[a] = "write" PROVE NextFile(a) # g
    BY <1>5, <2>1 DEF IInv, Writing
  <2> QED
    BY <1>2, <1>4, <1>8, <1>17, <2>1 DEF IInv, Writing, NextFile
<1> QED
  BY <1>6, <1>7, <1>9, <1>10, <1>12, <1>13, <1>14, <1>15, <1>17, <1>18 DEF IInv

(* A step that neither reads nor writes a connection.                      *)
LEMMA SocketsFrame ==
  ASSUME IInv, UNCHANGED <<setup, reader, stop_time, requests, replies, serving>>,
         start_time \subseteq start_time',
         \A d \in Dests : pc'[d] = "flow" <=> pc[d] = "flow"
  PROVE  /\ Streams' /\ OnePlace'
         /\ \A d \in Dests : Pending(d)' = Pending(d)
<1>1. UNCHANGED <<setup, f_index, total, stop_time, requests, replies, server, job, unsent>>
  BY DEF reader, serving
<1>2. Streams'
  BY <1>1, StreamFrame DEF IInv, Streams, Expected
<1>3. ASSUME NEW d \in Dests PROVE Placed(d)' /\ Pending(d)' = Pending(d)
  <2>1. \A f \in Pending(d) : f \notin stop_time'
    BY <1>1 DEF IInv, OnePlace, Placed
  <2> QED
    BY <1>1, <2>1, PlacesFrame, PlacedFrame DEF IInv, OnePlace
<1> QED
  BY <1>2, <1>3 DEF OnePlace

(* The start time of the next file of the one thread that sends.           *)
LEMMA StampInvariant ==
  ASSUME IInv, NEW a \in Actors, Stamp(a)
  PROVE  IInv'
<1> DEFINE g == NextFile(a)
<1>1. /\ PlanTyped /\ pc[a] = "stamp" /\ next[a] <= Fanout(it[a]) /\ it[a] \in Iterations
      /\ next[a] \in Nat \ {0} /\ Fanout(it[a]) \in Nat
  BY PlanIsTyped, RequestShape, TrafficAssumption, FS_CardinalityType DEF IInv, TypeOK, Stamp
<1>2. next[a] \in 1..Fanout(it[a]) /\ g = <<it[a], next[a]>> /\ g \in Files /\ g[1] = it[a]
  BY <1>1, FilesOfShape DEF NextFile
<1>3. /\ start_time' = start_time \union {g}
      /\ pc' = [pc EXCEPT ![a] = "write"]
      /\ UNCHANGED <<setup, status, it, next, f_index, total, file_count, inc_lock,
                     req_file_count, req_index, loaded, stop_time, requests, replies,
                     server, job, unsent>>
  BY DEF Stamp, sender, reader, shared, serving
<1> HIDE DEF g
<1>4. pc'[a] = "write" /\ \A b \in Actors : b # a => UNCHANGED pc[b]
  BY <1>3 DEF IInv, TypeOK
<1>5. /\ Files' = Files /\ Parts' = Parts /\ \A f : Destination(f)' = Destination(f)
      /\ \A i : Fanout(i)' = Fanout(i) /\ closed' = closed
      /\ \A e : dest_file_count(e)' = dest_file_count(e)
  BY <1>3, PlanKept, PlanFrame
<1>6. TypeOK'
  BY <1>2, <1>3, <1>5, PlanKept DEF IInv, TypeOK, setup
<1>7. Threads'
  BY <1>1, <1>3, <1>4, <1>5 DEF IInv, Threads, Counting, Actors
<1>8. Locking'
  BY <1>1, <1>3, <1>4 DEF IInv, Locking, Actors
<1>9. Streams' /\ OnePlace' /\ \A e \in Dests : Pending(e)' = Pending(e)
  <2>1. \A e \in Dests : pc'[e] = "flow" <=> pc[e] = "flow"
    BY <1>1, <1>4 DEF Actors
  <2> QED
    BY <1>3, <2>1, SocketsFrame DEF reader, serving
<1>10. Active(a) /\ Begun /\ Begun'
  BY <1>1, <1>4 DEF Active, Sending, IInv, Order, Begun, Actors
<1>11. g \notin start_time /\ g \notin stop_time
  BY <1>1, <1>2, <1>10 DEF IInv, Order, Active
<1>12. \A b \in Actors : /\ Sending(b)' <=> Sending(b)
                         /\ Active(b)' <=> Active(b)
  BY <1>1, <1>3, <1>4, <1>5 DEF Sending, Active
<1>13. Writing'
  <2>1. \A e \in Dests : g \notin Pending(e)
    BY <1>11 DEF IInv, OnePlace, Placed
  <2> QED
    BY <1>1, <1>2, <1>3, <1>4, <1>5, <1>9, <1>11, <2>1 DEF IInv, Writing, NextFile
<1>14. Order'
  <2>1. g[1] = Current /\ Current' = Current
    BY <1>2, <1>3, <1>5, <1>10 DEF IInv, Order, Current
  <2>2. \A f \in start_time' : f[1] <= Current'
    <3>1. Current \in Int
      BY DEF Current, IInv, TypeOK, Iterations, Actors
    <3> QED
      BY <1>3, <2>1, <3>1 DEF IInv, Order
  <2>3. \A b \in Actors : Sending(b) =>
          \A k \in 1..Fanout(it[b]) :
            k > next[b] \/ (k = next[b] /\ pc'[b] = "stamp") => <<it[b], k>> \notin start_time'
    <3>1. SUFFICES ASSUME NEW b \in Actors, Sending(b), NEW k \in 1..Fanout(it[b]),
                          k > next[b] \/ (k = next[b] /\ pc'[b] = "stamp")
                   PROVE  <<it[b], k>> \notin start_time'
      OBVIOUS
    <3>2. Active(b) /\ next[b] \in Nat
      BY <3>1, <1>1, RequestShape DEF Active, IInv, TypeOK
    <3>3. b = a
      BY <1>10, <3>2 DEF IInv, Order
    <3>4. k > next[a]
      BY <1>4, <3>1, <3>3
    <3> QED
      BY <1>1, <1>2, <1>3, <3>1, <3>3, <3>4 DEF IInv, Order
  <2>4. \A b \in Actors : Sending(b) =>
          \A k \in 1..Fanout(it[b]) : k < next[b] => <<it[b], k>> \in start_time'
    BY <1>3 DEF IInv, Order
  <2>5. /\ stop_time' \subseteq start_time'
        /\ \A f \in Files : f[1] < Current => f \in IF closed THEN stop_time' ELSE start_time'
        /\ \A b \in Actors : Active(b) => it[b] = Current
        /\ \A b, c \in Actors : Active(b) /\ Active(c) => b = c
    BY <1>3, <1>10 DEF IInv, Order
  <2> QED
    BY <1>3, <1>5, <1>10, <1>12, <2>1, <2>2, <2>3, <2>4, <2>5 DEF Order
<1>15. \A e \in Dests : Counting(e)' <=> Counting(e)
  BY <1>1, <1>4 DEF Counting, Actors
<1>16. CountingFiles'
  BY <1>3, <1>5, <1>15 DEF IInv, CountingFiles
<1>17. Counted'
  <2>1. Missing' = Missing
    BY <1>3, <1>5, <1>15 DEF Missing
  <2> QED
    BY <1>1, <1>3, <1>4, <1>5, <1>10, <2>1 DEF IInv, Counted, Actors
<1>18. Tally'
  BY <1>1, <1>3, <1>4, <1>5 DEF IInv, Tally, Got, Actors
<1> QED
  BY <1>6, <1>7, <1>8, <1>9, <1>13, <1>14, <1>16, <1>17, <1>18 DEF IInv

(* The file gets into the socket, or is lost with a dead server.           *)
LEMMA WriteInvariant ==
  ASSUME IInv, NEW a \in Actors, Write(a)
  PROVE  IInv'
<1>1. /\ PlanTyped /\ pc[a] = "write" /\ it[a] \in Iterations /\ next[a] \in Nat \ {0}
      /\ next[a] <= Fanout(it[a]) /\ Fanout(it[a]) \in Nat /\ status = "running"
  BY PlanIsTyped, RequestShape, TrafficAssumption, FS_CardinalityType
     DEF IInv, TypeOK, Writing, Write
<1>2. PICK g \in Files :
        /\ g = NextFile(a) /\ g = <<it[a], next[a]>> /\ next[a] \in 1..Fanout(it[a])
        /\ g \in start_time /\ g \notin stop_time /\ \A e \in Dests : g \notin Pending(e)
  <2>1. /\ NextFile(a) = <<it[a], next[a]>> /\ next[a] \in 1..Fanout(it[a])
        /\ NextFile(a) \in Files
    BY <1>1, FilesOfShape DEF NextFile
  <2>2. /\ NextFile(a) \in start_time \ stop_time
        /\ \A e \in Dests : NextFile(a) \notin Pending(e)
    BY <1>1 DEF IInv, Writing
  <2> QED
    BY <2>1, <2>2
<1>3. PICK d \in Dests : d = Destination(g)
  BY <1>1, <1>2, FileShape
<1>4. /\ next' = [next EXCEPT ![a] = @ + 1]
      /\ pc' = [pc EXCEPT ![a] = "stamp"]
      /\ status' \in {"running", "exited"}
      /\ requests' = requests \/ requests' = [requests EXCEPT ![d] = Append(@, g)]
      /\ UNCHANGED <<setup, it, f_index, total, file_count, inc_lock,
                     req_file_count, req_index, loaded, start_time, stop_time, replies,
                     server, job, unsent>>
  BY <1>1, <1>2, <1>3 DEF Write, reader, shared, times, serving
<1>5. /\ pc'[a] = "stamp" /\ next'[a] = next[a] + 1
      /\ \A b \in Actors : b # a => UNCHANGED <<pc[b], next[b]>>
  BY <1>4 DEF IInv, TypeOK
<1>6. /\ Files' = Files /\ Parts' = Parts /\ \A f : Destination(f)' = Destination(f)
      /\ \A i : Fanout(i)' = Fanout(i) /\ closed' = closed
      /\ \A e : dest_file_count(e)' = dest_file_count(e)
  BY <1>4, PlanKept, PlanFrame
<1>7. TypeOK'
  <2>1. requests' \in [Dests -> Seq(Files)]
    <3>1. requests \in [Dests -> Seq(Files)] /\ Append(requests[d], g) \in Seq(Files)
      BY <1>2, <1>3 DEF IInv, TypeOK
    <3> QED
      BY <1>4, <3>1
  <2>2. next' \in [Actors -> Nat \ {0}]
    <3>1. next \in [Actors -> Nat \ {0}]
      BY DEF IInv, TypeOK
    <3>2. next[a] + 1 \in Nat \ {0}
      BY <1>1
    <3> QED
      BY <1>4, <3>1, <3>2
  <2> QED
    BY <1>4, <1>6, <2>1, <2>2, PlanKept DEF IInv, TypeOK, setup
<1>8. Threads'
  BY <1>1, <1>4, <1>5, <1>6 DEF IInv, Threads, Counting, Actors
<1>9. Locking'
  BY <1>1, <1>4, <1>5 DEF IInv, Locking, Actors
<1>10. \A e \in Dests : pc'[e] = "flow" <=> pc[e] = "flow"
  BY <1>1, <1>5 DEF Actors
<1>11. Streams'
  BY <1>4, <1>10, StreamFrame DEF IInv, Streams, Expected
<1>12. ASSUME NEW e \in Dests, requests'[e] = requests[e]
       PROVE  Placed(e)' /\ Pending(e)' = Pending(e)
  <2>1. \A f \in Pending(e) : f \notin stop_time'
    BY <1>4 DEF IInv, OnePlace, Placed
  <2> QED
    BY <1>4, <1>10, <1>12, <2>1, PlacesFrame, PlacedFrame DEF IInv, OnePlace
<1>13. ASSUME requests'[d] = Append(requests[d], g)
       PROVE  Placed(d)'
  <2>1. /\ Injective(requests[d]) /\ g \notin Asked(d) /\ requests[d] \in Seq(Files)
    BY <1>2, <1>3 DEF IInv, TypeOK, OnePlace, Placed, Pending
  <2>2. Asked(d)' = Asked(d) \union {g} /\ Injective(requests'[d])
    <3>1. g \notin Elements(requests[d])
      BY <2>1 DEF Asked
    <3>2. /\ Elements(Append(requests[d], g)) = Elements(requests[d]) \union {g}
          /\ Injective(Append(requests[d], g))
      BY <2>1, <3>1, ElementsOfAppend
    <3> QED
      BY <1>13, <3>2 DEF Asked
  <2>3. /\ AtServer(d)' = AtServer(d) /\ Answered(d)' = Answered(d)
        /\ Reading(d)' = Reading(d)
    BY <1>3, <1>4, <1>10 DEF AtServer, Answered, Reading
  <2>4. /\ Pending(d)' = Pending(d) \union {g}
        /\ g \notin AtServer(d) \union Answered(d) \union Reading(d)
    BY <1>2, <1>3, <2>2, <2>3 DEF Pending
  <2>5. \A f \in Pending(d)' : f \in start_time \ stop_time /\ Destination(f) = d
    BY <1>2, <1>3, <2>4 DEF IInv, OnePlace, Placed
  <2> QED
    BY <1>3, <1>4, <1>6, <2>2, <2>3, <2>4, <2>5 DEF IInv, OnePlace, Placed
<1>14. OnePlace'
  <2>1. SUFFICES ASSUME NEW e \in Dests PROVE Placed(e)'
    BY DEF OnePlace
  <2>2. CASE requests'[e] = requests[e]
    BY <1>12, <2>2
  <2>3. CASE requests'[e] # requests[e]
    <3>1. e = d /\ requests'[d] = Append(requests[d], g)
      BY <1>3, <1>4, <2>3 DEF IInv, TypeOK
    <3> QED
      BY <1>13, <3>1
  <2> QED
    BY <2>2, <2>3
<1>15. Active(a) /\ Begun /\ Begun'
  BY <1>1, <1>5 DEF Active, Sending, IInv, Order, Begun, Actors
<1>16. \A b \in Actors : /\ Sending(b)' <=> Sending(b)
                         /\ Active(b)' => Active(b)
  <2>1. \A b \in Actors : b # a => (Active(b)' <=> Active(b)) /\ (Sending(b)' <=> Sending(b))
    BY <1>4, <1>5, <1>6 DEF Sending, Active
  <2> QED
    BY <1>1, <1>5, <1>15, <2>1 DEF Sending
<1>17. Writing'
  <2>1. \A b \in Actors : pc'[b] # "write"
    BY <1>5, <1>15 DEF IInv, Order, Writing, Active, Sending
  <2> QED
    BY <2>1 DEF Writing
<1>18. Order'
  <2>1. \A b \in Actors : Sending(b) =>
          \A k \in 1..Fanout(it[b]) : k < next'[b] => <<it[b], k>> \in start_time
    <3>1. SUFFICES ASSUME NEW b \in Actors, Sending(b), NEW k \in 1..Fanout(it[b]),
                          k < next'[b]
                   PROVE  <<it[b], k>> \in start_time
      OBVIOUS
    <3>2. CASE b = a /\ k = next[a]
      BY <1>2, <3>2
    <3>3. CASE b # a \/ k # next[a]
      BY <1>1, <1>5, <3>1, <3>3 DEF IInv, Order
    <3> QED
      BY <3>2, <3>3
  <2>2. \A b \in Actors : Sending(b) =>
          \A k \in 1..Fanout(it[b]) :
            k > next'[b] \/ (k = next'[b] /\ pc'[b] = "stamp") => <<it[b], k>> \notin start_time
    <3>1. SUFFICES ASSUME NEW b \in Actors, Sending(b), NEW k \in 1..Fanout(it[b]),
                          k > next'[b] \/ (k = next'[b] /\ pc'[b] = "stamp")
                   PROVE  <<it[b], k>> \notin start_time
      OBVIOUS
    <3>2. CASE b = a
      <4>1. k > next[a]
        BY <1>1, <1>5, <3>1, <3>2
      <4> QED
        BY <3>1, <3>2, <4>1 DEF IInv, Order
    <3>3. CASE b # a
      BY <1>5, <3>1, <3>3 DEF IInv, Order
    <3> QED
      BY <3>2, <3>3
  <2>3. /\ stop_time \subseteq start_time
        /\ \A f \in start_time : f[1] <= Current
        /\ \A f \in Files : f[1] < Current => f \in IF closed THEN stop_time ELSE start_time
        /\ \A b \in Actors : Active(b) => it[b] = Current
        /\ \A b, c \in Actors : Active(b) /\ Active(c) => b = c
    BY <1>15 DEF IInv, Order
  <2>4. Current' = Current
    BY <1>4, <1>6 DEF Current
  <2> QED
    BY <1>4, <1>6, <1>15, <1>16, <2>1, <2>2, <2>3, <2>4 DEF Order
<1>19. \A e \in Dests : Counting(e)' <=> Counting(e)
  BY <1>1, <1>5 DEF Counting, Actors
<1>20. CountingFiles'
  BY <1>4, <1>6, <1>19 DEF IInv, CountingFiles
<1>21. Counted'
  <2>1. Missing' = Missing
    BY <1>4, <1>6, <1>19 DEF Missing
  <2> QED
    BY <1>1, <1>4, <1>5, <1>6, <1>15, <2>1 DEF IInv, Counted, Actors
<1>22. Tally'
  <2>1. \A e \in Dests : Got(e)' = Got(e) /\ (pc'[e] = "closed" => pc[e] = "closed")
    BY <1>1, <1>4, <1>5, <1>6 DEF Got, Actors
  <2>2. status' # "done"
    BY <1>4
  <2> QED
    BY <1>4, <1>6, <2>1, <2>2 DEF IInv, Tally
<1> QED
  BY <1>7, <1>8, <1>9, <1>11, <1>14, <1>17, <1>18, <1>20, <1>21, <1>22 DEF IInv

(* run_iteration, its entry, for the first request.                        *)
LEMMA BeginInvariant ==
  ASSUME IInv, Begin
  PROVE  IInv'
<1>1. /\ PlanTyped /\ pc[Main] = "begin" /\ Main \in Actors /\ Main \notin Dests
      /\ 1 \in Iterations /\ Fanout(1) \in Nat
      /\ it \in [Actors -> Iterations] /\ next \in [Actors -> Nat \ {0}]
  BY PlanIsTyped, RequestShape, TrafficAssumption, FS_CardinalityType
     DEF IInv, TypeOK, Begin, Actors, Iterations
<1>2. /\ it' = [it EXCEPT ![Main] = 1] /\ next' = [next EXCEPT ![Main] = 1]
      /\ req_file_count' = IF closed THEN Fanout(1) ELSE req_file_count
      /\ req_index' = 1
      /\ pc' = [pc EXCEPT ![Main] = "stamp"]
      /\ UNCHANGED <<setup, status, f_index, total, file_count, inc_lock, loaded,
                     start_time, stop_time, requests, replies, server, job, unsent>>
  BY DEF Begin, RunIteration, reader, times, serving
<1>3. /\ pc'[Main] = "stamp" /\ it'[Main] = 1 /\ next'[Main] = 1
      /\ \A d \in Dests : UNCHANGED pc[d]
  BY <1>1, <1>2 DEF IInv, TypeOK, Actors
<1>4. /\ start_time = {} /\ stop_time = {} /\ req_index = 1
      /\ \A a \in Actors : ~Sending(a)
  BY <1>1 DEF IInv, Order, Begun
<1>5. /\ Files' = Files /\ Parts' = Parts /\ \A f : Destination(f)' = Destination(f)
      /\ \A i : Fanout(i)' = Fanout(i) /\ closed' = closed
      /\ \A e : dest_file_count(e)' = dest_file_count(e)
  BY <1>2, PlanKept, PlanFrame
<1>6. TypeOK'
  <2>1. req_index' \in 1..(Iter + 1) /\ req_file_count' \in Nat
    BY <1>1, <1>2, TrafficAssumption DEF IInv, TypeOK
  <2> QED
    BY <1>1, <1>2, <1>5, <2>1, PlanKept DEF IInv, TypeOK, setup
<1>7. Threads'
  BY <1>1, <1>2, <1>3, <1>5 DEF IInv, Threads, Counting
<1>8. Locking'
  BY <1>2, <1>3 DEF IInv, Locking
<1>9. Streams' /\ OnePlace' /\ \A e \in Dests : Pending(e)' = Pending(e)
  BY <1>2, <1>3, SocketsFrame DEF reader, serving
<1>10. Writing'
  BY <1>1, <1>3, <1>4 DEF Writing, Sending, Actors
<1>11. \A a \in Actors : Sending(a)' => a = Main
  BY <1>3, <1>4 DEF Sending, Actors
<1>12. Order'
  <2>1. Begun' /\ Current' = 1
    BY <1>2, <1>3 DEF Begun, Current
  <2>2. \A f \in Files : ~(f[1] < 1)
    BY <1>1, FileShape DEF Iterations
  <2>3. \A k \in 1..Fanout(1) : ~(k < 1)
    BY <1>1
  <2> QED
    BY <1>2, <1>3, <1>4, <1>5, <1>11, <2>1, <2>2, <2>3 DEF Order, Active
<1>13. \A e \in Dests : ~Counting(e) /\ ~Counting(e)'
  BY <1>3, <1>4 DEF IInv, CountingFiles, Counting
<1>14. CountingFiles'
  BY <1>13 DEF CountingFiles
<1>15. Counted'
  <2>1. Missing' = {f \in Files : f[1] = 1}
    BY <1>2, <1>4, <1>5, <1>13 DEF Missing
  <2>2. Cardinality(Missing') = Fanout(1)
    BY <1>1, <2>1, FilesOfShape
  <2>3. \A e \in Dests : pc'[e] # "count"
    BY <1>13 DEF Counting
  <2> QED
    BY <1>2, <1>5, <2>2, <2>3 DEF Counted
<1>16. Tally'
  BY <1>2, <1>3, <1>5 DEF IInv, Tally, Got
<1> QED
  BY <1>6, <1>7, <1>8, <1>9, <1>10, <1>12, <1>14, <1>15, <1>16 DEF IInv

(* The main thread goes on to the next request, or waits.                  *)
LEMMA MainReturnsInvariant ==
  ASSUME IInv, MainReturns
  PROVE  IInv'
<1>1. /\ PlanTyped /\ pc[Main] = "stamp" /\ Main \in Actors /\ Main \notin Dests
      /\ next[Main] > Fanout(it[Main]) /\ it[Main] \in Iterations
      /\ \A i \in Iterations : Fanout(i) \in Nat
      /\ it \in [Actors -> Iterations] /\ next \in [Actors -> Nat \ {0}]
  <2>1. PlanTyped /\ \A i \in Iterations : Fanout(i) \in Nat
    BY PlanIsTyped, RequestShape, TrafficAssumption, FS_CardinalityType DEF IInv
  <2> QED
    BY <2>1, TrafficAssumption DEF IInv, TypeOK, MainReturns, Actors
<1>2. /\ UNCHANGED <<setup, status, f_index, total, file_count, inc_lock, loaded, req_index,
                     start_time, stop_time, requests, replies, server, job, unsent>>
      /\ \/ /\ ~closed /\ it[Main] < Iter
            /\ it' = [it EXCEPT ![Main] = it[Main] + 1]
            /\ next' = [next EXCEPT ![Main] = 1]
            /\ UNCHANGED <<pc, req_file_count>>
         \/ /\ pc' = [pc EXCEPT ![Main] = "join"]
            /\ UNCHANGED <<it, next, req_file_count>>
  BY DEF MainReturns, RunIteration, sender, reader, times, serving
<1>3. /\ \A d \in Dests : UNCHANGED <<pc[d], it[d], next[d]>>
      /\ pc'[Main] \in {"stamp", "join"}
  BY <1>1, <1>2 DEF IInv, TypeOK, Actors
<1>4. /\ Files' = Files /\ Parts' = Parts /\ \A f : Destination(f)' = Destination(f)
      /\ \A i : Fanout(i)' = Fanout(i) /\ closed' = closed
      /\ \A e : dest_file_count(e)' = dest_file_count(e)
  BY <1>2, PlanKept, PlanFrame
<1>5. TypeOK'
  <2>1. it[Main] < Iter => it[Main] + 1 \in Iterations
    BY <1>1, TrafficAssumption DEF Iterations
  <2>2. it' \in [Actors -> Iterations] /\ next' \in [Actors -> Nat \ {0}]
    BY <1>1, <1>2, <2>1
  <2>3. pc' \in [Actors -> {"begin", "metadata", "flow", "lock", "load", "count",
                            "stamp", "write", "join", "closed"}]
    BY <1>1, <1>2 DEF IInv, TypeOK
  <2>4. req_file_count' = req_file_count
    BY <1>2
  <2> QED
    BY <1>2, <1>4, <2>2, <2>3, <2>4, PlanKept DEF IInv, TypeOK, setup
<1>6. Threads'
  BY <1>1, <1>2, <1>3, <1>4 DEF IInv, Threads, Counting
<1>7. Locking'
  BY <1>2, <1>3 DEF IInv, Locking
<1>8. Streams' /\ OnePlace' /\ \A e \in Dests : Pending(e)' = Pending(e)
  BY <1>2, <1>3, SocketsFrame DEF reader, serving
<1>9. Begun /\ Begun'
  BY <1>1, <1>3 DEF Begun
<1>10. Writing'
  <2>1. pc'[Main] # "write"
    BY <1>3
  <2> QED
    BY <1>2, <1>3, <1>4, <1>8, <2>1 DEF IInv, Writing, NextFile, Actors
<1>11. CountingFiles' /\ Counted'
  <2>1. \A e \in Dests : Counting(e)' <=> Counting(e)
    BY <1>3 DEF Counting
  <2>2. Missing' = Missing
    BY <1>2, <1>4, <2>1 DEF Missing
  <2> QED
    BY <1>2, <1>3, <1>4, <1>9, <2>1, <2>2 DEF IInv, CountingFiles, Counted
<1>12. Tally'
  BY <1>2, <1>3, <1>4 DEF IInv, Tally, Got
<1>13. Order'
  <2>1. CASE pc' = [pc EXCEPT ![Main] = "join"] /\ UNCHANGED <<it, next>>
    <3>1. \A a \in Actors : (Sending(a)' => Sending(a)) /\ (Active(a)' => Active(a))
                            /\ (Sending(a)' => pc'[a] = pc[a])
      BY <1>1, <1>3, <1>4, <2>1 DEF Sending, Active, Actors, IInv, TypeOK
    <3>2. Current' = Current
      BY <1>2, <1>4, <2>1 DEF Current
    <3> QED
      BY <1>2, <1>4, <1>9, <2>1, <3>1, <3>2 DEF IInv, Order
  <2>2. CASE ~closed /\ UNCHANGED pc /\ it' = [it EXCEPT ![Main] = it[Main] + 1]
             /\ next' = [next EXCEPT ![Main] = 1]
    <3>1. Current = it[Main] /\ Current' = it[Main] + 1 /\ it'[Main] = it[Main] + 1
          /\ next'[Main] = 1 /\ it[Main] \in Nat
      BY <1>1, <1>4, <2>2 DEF Current, Iterations
    <3>2. \A a \in Actors : Sending(a)' => a = Main
      BY <1>4, <1>6, <2>2 DEF Threads, Sending, Actors, Counting
    <3>3. \A f \in Files : f[1] < it[Main] + 1 => f \in start_time
      <4>1. SUFFICES ASSUME NEW f \in Files, f[1] < it[Main] + 1 PROVE f \in start_time
        OBVIOUS
      <4>2. /\ f[1] \in Nat /\ f[2] \in 1..Fanout(f[1]) /\ f = <<f[1], f[2]>>
        BY <1>1, FileShape DEF Iterations
      <4>3. CASE f[1] < it[Main]
        BY <1>9, <2>2, <3>1, <4>3 DEF IInv, Order
      <4>4. CASE f[1] = it[Main]
        <5>1. f[2] < next[Main] /\ Sending(Main)
          BY <1>1, <4>2, <4>4 DEF Sending
        <5> QED
          BY <1>1, <4>2, <4>4, <5>1 DEF IInv, Order
      <4> QED
        BY <3>1, <4>1, <4>2, <4>3, <4>4
    <3>4. \A f \in start_time : f[1] <= it[Main] /\ f[1] \in Nat
      BY <1>1, <3>1, FileShape DEF IInv, TypeOK, Order, Iterations
    <3>5. \A f \in start_time : f[1] <= it[Main] + 1 /\ f[1] # it[Main] + 1
      BY <3>1, <3>4
    <3>6. \A k \in 1..Fanout(it[Main] + 1) : ~(k < 1)
                       /\ <<it[Main] + 1, k>> \notin start_time
      BY <3>5
    <3> QED
      BY <1>1, <1>2, <1>4, <1>9, <2>2, <3>1, <3>2, <3>3, <3>5, <3>6
         DEF IInv, Order, Active
  <2> QED
    BY <1>2, <2>1, <2>2
<1> QED
  BY <1>5, <1>6, <1>7, <1>8, <1>10, <1>11, <1>12, <1>13 DEF IInv

(* The steps of the critical section that count nothing.                   *)
LEMMA LockInvariant ==
  ASSUME IInv, NEW d \in Dests, Lock(d) \/ Load(d) \/ ListenerReturns(d)
  PROVE  IInv'
<1>1. /\ PlanTyped /\ pc[d] \in {"lock", "load", "stamp"} /\ d \in Actors /\ d # Main
      /\ d # NoOne /\ closed
  BY PlanIsTyped, TrafficAssumption
     DEF IInv, Threads, Counting, Actors, Lock, Load, ListenerReturns
<1>2. PICK p : /\ pc' = [pc EXCEPT ![d] = p]
               /\ p \in {"load", "count", "metadata", "closed"}
               /\ p = "load" <=> pc[d] = "lock"
               /\ p = "count" <=> pc[d] = "load"
               /\ p = "closed" => ~(file_count[d] < dest_file_count(d))
  BY <1>1, AfterFileValue DEF Lock, Load, ListenerReturns
<1>3. /\ UNCHANGED <<setup, status, it, next, f_index, total, file_count,
                     req_file_count, req_index, start_time, stop_time, requests, replies,
                     server, job, unsent>>
      /\ p = "load" => inc_lock = NoOne /\ inc_lock' = d
      /\ p = "count" => UNCHANGED inc_lock
      /\ p \notin {"load", "count"} => inc_lock' = NoOne
      /\ IF p = "count" THEN loaded' = [loaded EXCEPT ![d] = req_file_count]
                        ELSE UNCHANGED loaded
  BY <1>2 DEF Lock, Load, ListenerReturns, sender, reader, times, serving
<1>4. pc'[d] = p /\ \A a \in Actors : a # d => UNCHANGED pc[a]
  BY <1>1, <1>2 DEF IInv, TypeOK
<1>5. /\ Files' = Files /\ Parts' = Parts /\ \A f : Destination(f)' = Destination(f)
      /\ \A i : Fanout(i)' = Fanout(i) /\ closed' = closed
      /\ \A e : dest_file_count(e)' = dest_file_count(e)
  BY <1>3, PlanKept, PlanFrame
<1>6. TypeOK'
  <2>1. pc' \in [Actors -> {"begin", "metadata", "flow", "lock", "load", "count",
                            "stamp", "write", "join", "closed"}]
    BY <1>2 DEF IInv, TypeOK
  <2>2. loaded' \in [Dests -> Nat] /\ inc_lock' \in Dests \union {NoOne}
    BY <1>2, <1>3 DEF IInv, TypeOK
  <2> QED
    BY <1>3, <1>5, <2>1, <2>2, PlanKept DEF IInv, TypeOK, setup
<1>7. Threads'
  BY <1>1, <1>2, <1>3, <1>4, <1>5 DEF IInv, Threads, Counting, Actors
<1>8. Locking'
  BY <1>1, <1>2, <1>3, <1>4, TrafficAssumption DEF IInv, Locking, Actors
<1>9. Streams' /\ OnePlace' /\ \A e \in Dests : Pending(e)' = Pending(e)
  <2>1. \A e \in Dests : pc'[e] = "flow" <=> pc[e] = "flow"
    BY <1>1, <1>2, <1>4 DEF Actors
  <2> QED
    BY <1>3, <2>1, SocketsFrame DEF reader, serving
<1>10. \A a \in Actors : /\ Sending(a)' => Sending(a) /\ UNCHANGED pc[a]
                         /\ Active(a)' => Active(a)
  BY <1>2, <1>3, <1>4, <1>5 DEF Sending, Active
<1>11. Writing'
  BY <1>2, <1>3, <1>4, <1>5, <1>9 DEF IInv, Writing, NextFile
<1>12. Order'
  <2>1. (Begun' <=> Begun) /\ Current' = Current
    BY <1>1, <1>3, <1>4, <1>5 DEF Begun, Current, Actors
  <2> QED
    BY <1>3, <1>5, <1>10, <2>1 DEF IInv, Order
<1>13. \A e \in Dests : Counting(e)' <=> Counting(e)
  BY <1>1, <1>2, <1>4 DEF Counting, Actors
<1>14. CountingFiles'
  BY <1>3, <1>5, <1>13 DEF IInv, CountingFiles
<1>15. Counted'
  <2>1. Missing' = Missing /\ (Begun' <=> Begun)
    BY <1>1, <1>3, <1>4, <1>5, <1>13 DEF Missing, Begun, Actors
  <2>2. \A e \in Dests : pc'[e] = "count" /\ e # d => pc[e] = "count" /\ loaded'[e] = loaded[e]
    BY <1>3, <1>4 DEF IInv, TypeOK, Actors
  <2>3. pc'[d] = "count" => loaded'[d] = req_file_count
    BY <1>3, <1>4 DEF IInv, TypeOK
  <2> QED
    BY <1>3, <1>5, <2>1, <2>2, <2>3 DEF IInv, Counted
<1>16. Tally'
  <2>1. \A e \in Dests : Got(e)' = Got(e)
    BY <1>3, <1>5 DEF Got
  <2>2. file_count[d] \in Nat /\ dest_file_count(d) \in Nat
    BY <1>1, DestFileCount DEF IInv, TypeOK
  <2>3. pc'[d] = "closed" => file_count[d] >= dest_file_count(d)
    BY <1>2, <1>4, <2>2
  <2>4. status' # "done"
    BY <1>3 DEF Lock, Load, ListenerReturns
  <2> QED
    BY <1>3, <1>4, <1>5, <2>1, <2>3, <2>4 DEF IInv, Tally, Actors
<1> QED
  BY <1>6, <1>7, <1>8, <1>9, <1>11, <1>12, <1>14, <1>15, <1>16 DEF IInv

(* When the counter says that one file is missing, the request has been    *)
(* received in full, and no other thread is counting or sending.           *)
LEMMA LastOneCounts ==
  ASSUME IInv, NEW d \in Dests, pc[d] = "count", loaded[d] = 1
  PROVE  /\ \A f \in Files : f[1] = req_index => f \in stop_time
         /\ \A e \in Dests : Counting(e) => e = d
         /\ \A a \in Actors : ~Active(a)
<1>1. /\ PlanTyped /\ closed /\ Counting(d)
      /\ f_index[d] \in Files /\ f_index[d] \in stop_time /\ f_index[d][1] = req_index
      /\ Destination(f_index[d]) = d /\ Begun
  <2>1. PlanTyped /\ closed /\ Counting(d)
    BY PlanIsTyped DEF IInv, Threads, Counting
  <2>2. /\ f_index[d] \in stop_time /\ f_index[d][1] = req_index /\ f_index[d] \in Files
        /\ Destination(f_index[d]) = d
    BY <2>1 DEF IInv, CountingFiles, TypeOK
  <2> QED
    BY <2>1, <2>2 DEF IInv, Order
<1>2. Missing \subseteq Files /\ f_index[d] \in Missing /\ IsFiniteSet(Missing)
  <2>1. Missing \subseteq Files /\ f_index[d] \in Missing
    BY <1>1 DEF Missing, IInv, Threads
  <2> QED
    BY <1>1, <2>1, FilesFinite, FS_Subset
<1>3. Cardinality(Missing) = 1
  BY <1>1 DEF IInv, Counted
<1>4. Missing = {f_index[d]}
  BY <1>2, <1>3, FS_Singleton
<1>5. ASSUME NEW f \in Files, f[1] = req_index PROVE f \in stop_time
  BY <1>1, <1>4, <1>5 DEF Missing
<1>6. ASSUME NEW e \in Dests, Counting(e) PROVE e = d
  <2>1. f_index[e] = f_index[d]
    BY <1>4, <1>6 DEF Missing
  <2> QED
    BY <1>1, <1>6, <2>1 DEF IInv, CountingFiles
<1>7. ASSUME NEW a \in Actors, Active(a) PROVE FALSE
  <2>1. it[a] = req_index /\ it[a] \in Iterations /\ next[a] \in Nat \ {0}
        /\ next[a] <= Fanout(it[a])
    BY <1>1, <1>7 DEF IInv, Order, Current, TypeOK, Active
  <2>2. Fanout(it[a]) \in Nat
    BY <1>1, <2>1, RequestShape, TrafficAssumption, FS_CardinalityType
  <2>3. /\ next[a] \in 1..Fanout(it[a])
        /\ <<it[a], next[a]>> \in Files /\ <<it[a], next[a]>>[1] = req_index
    BY <1>1, <2>1, <2>2, FilesOfShape
  <2>4. <<it[a], next[a]>> \in stop_time
    BY <1>5, <2>3
  <2>5. CASE pc[a] = "stamp"
    BY <1>7, <2>3, <2>4, <2>5 DEF IInv, Order, Active
  <2>6. CASE pc[a] = "write"
    BY <2>4, <2>6 DEF IInv, Writing, NextFile
  <2> QED
    BY <1>7, <2>5, <2>6 DEF Active, Sending
<1> QED
  BY <1>5, <1>6, <1>7

(* A file is counted: the next request starts only behind the last one.    *)
LEMMA CountInvariant ==
  ASSUME IInv, NEW d \in Dests, Count(d)
  PROVE  IInv'
<1>1. /\ PlanTyped /\ closed /\ Counting(d) /\ pc[d] = "count" /\ inc_lock = d
      /\ d \in Actors /\ d # Main /\ d # NoOne
      /\ f_index[d] \in Files /\ f_index[d] \in stop_time /\ f_index[d][1] = req_index
      /\ Destination(f_index[d]) = d /\ status = "running"
  <2>1. PlanTyped /\ closed /\ Counting(d) /\ pc[d] = "count" /\ inc_lock = d
    BY PlanIsTyped DEF IInv, Threads, Counting, Locking, Count
  <2> QED
    BY <2>1, TrafficAssumption DEF IInv, CountingFiles, TypeOK, Actors, Count
<1>2. /\ req_index \in Iterations /\ Begun /\ loaded[d] = req_file_count
      /\ req_file_count = Cardinality(Missing)
  BY <1>1, FileShape DEF IInv, Order, Counted
<1>3. /\ Missing \subseteq Files /\ IsFiniteSet(Missing) /\ f_index[d] \in Missing
      /\ loaded[d] \in Nat \ {0}
      /\ Cardinality(Missing \ {f_index[d]}) = loaded[d] - 1
  <2>1. Missing \subseteq Files /\ f_index[d] \in Missing
    BY <1>1 DEF Missing, IInv, Threads
  <2>2. IsFiniteSet(Missing)
    BY <1>1, <2>1, FilesFinite, FS_Subset
  <2>3. Cardinality(Missing) \in Nat /\ Cardinality(Missing) # 0
    BY <2>1, <2>2, FS_CardinalityType, FS_EmptySet
  <2>4. Cardinality(Missing \ {f_index[d]}) = Cardinality(Missing) - 1
    BY <2>1, <2>2, FS_RemoveElement
  <2> QED
    BY <1>2, <2>1, <2>2, <2>3, <2>4
<1> DEFINE last == loaded[d] = 1
           i == req_index + 1
<1>4. PICK p : /\ pc' = [pc EXCEPT ![d] = p]
               /\ p \in {"stamp", "metadata", "closed"}
               /\ p = "stamp" <=> last /\ req_index < Iter
               /\ p = "closed" => ~(file_count[d] < dest_file_count(d))
  <2>1. loaded[d] - 1 = 0 <=> last
    BY <1>3
  <2>2. CASE last /\ req_index < Iter
    BY <2>1, <2>2 DEF Count
  <2>3. CASE ~(last /\ req_index < Iter)
    <3>1. pc' = [pc EXCEPT ![d] = AfterFile(d, file_count[d])]
      BY <2>1, <2>3 DEF Count
    <3> QED
      BY <2>3, <3>1, AfterFileValue
  <2> QED
    BY <2>2, <2>3
<1>5. /\ UNCHANGED <<setup, status, f_index, total, file_count, loaded, start_time,
                     stop_time, requests, replies, server, job, unsent>>
      /\ req_index' = IF last THEN i ELSE req_index
      /\ p = "stamp" => /\ it' = [it EXCEPT ![d] = i] /\ next' = [next EXCEPT ![d] = 1]
                        /\ req_file_count' = Fanout(i) /\ UNCHANGED inc_lock
      /\ p # "stamp" => /\ UNCHANGED <<it, next>>
                        /\ req_file_count' = loaded[d] - 1 /\ inc_lock' = NoOne
  BY <1>1, <1>3, <1>4, AfterFileValue DEF Count, RunIteration, sender, reader, times, serving
<1>6. /\ pc'[d] = p /\ \A a \in Actors : a # d => UNCHANGED <<pc[a], it[a], next[a]>>
      /\ p = "stamp" => it'[d] = i /\ next'[d] = 1
  BY <1>1, <1>4, <1>5 DEF IInv, TypeOK
<1>7. /\ Files' = Files /\ Parts' = Parts /\ \A f : Destination(f)' = Destination(f)
      /\ \A j : Fanout(j)' = Fanout(j) /\ closed' = closed
      /\ \A e : dest_file_count(e)' = dest_file_count(e)
  BY <1>5, PlanKept, PlanFrame
<1>8. /\ i \in 1..(Iter + 1) /\ req_index \in Nat
      /\ p = "stamp" => i \in Iterations /\ Fanout(i) \in Nat
  <2>1. i \in 1..(Iter + 1) /\ req_index \in Nat /\ (p = "stamp" => i \in Iterations)
    BY <1>2, <1>4, TrafficAssumption DEF Iterations
  <2> QED
    BY <1>1, <2>1, RequestShape, TrafficAssumption, FS_CardinalityType
<1>9. TypeOK'
  <2>1. pc' \in [Actors -> {"begin", "metadata", "flow", "lock", "load", "count",
                            "stamp", "write", "join", "closed"}]
    BY <1>4 DEF IInv, TypeOK
  <2>2. it' \in [Actors -> Iterations] /\ next' \in [Actors -> Nat \ {0}]
    <3>1. it \in [Actors -> Iterations] /\ next \in [Actors -> Nat \ {0}]
      BY DEF IInv, TypeOK
    <3> QED
      BY <1>5, <1>8, <3>1
  <2>3. req_index' \in 1..(Iter + 1) /\ req_file_count' \in Nat
        /\ inc_lock' \in Dests \union {NoOne}
    BY <1>3, <1>4, <1>5, <1>8 DEF IInv, TypeOK
  <2> QED
    BY <1>5, <1>7, <2>1, <2>2, <2>3, PlanKept DEF IInv, TypeOK, setup
<1> HIDE DEF last, i
<1>10. Threads'
  BY <1>1, <1>4, <1>5, <1>6, <1>7 DEF IInv, Threads, Counting, Actors
<1>11. Locking'
  BY <1>1, <1>4, <1>5, <1>6, TrafficAssumption DEF IInv, Locking, Actors
<1>12. Streams' /\ OnePlace' /\ \A e \in Dests : Pending(e)' = Pending(e)
  <2>1. \A e \in Dests : pc'[e] = "flow" <=> pc[e] = "flow"
    BY <1>1, <1>4, <1>6 DEF Actors
  <2> QED
    BY <1>5, <2>1, SocketsFrame DEF reader, serving
<1>13. Writing'
  BY <1>4, <1>5, <1>6, <1>7, <1>12 DEF IInv, Writing, NextFile
<1>14. /\ last => /\ \A f \in Files : f[1] = req_index => f \in stop_time
                  /\ \A e \in Dests : Counting(e) => e = d
                  /\ \A a \in Actors : ~Active(a)
  BY <1>1, LastOneCounts DEF last
<1>15. \A e \in Dests : Counting(e)' <=> Counting(e) /\ e # d
  BY <1>1, <1>4, <1>6 DEF Counting, Actors
<1>16. CountingFiles'
  BY <1>5, <1>7, <1>14, <1>15 DEF IInv, CountingFiles
<1>17. Begun'
  BY <1>1, <1>2, <1>6 DEF Begun, Actors
<1>18. \A e \in Dests : pc'[e] # "count"
  BY <1>1, <1>4, <1>6 DEF IInv, Locking, Actors
<1>19. ~last => Missing' = Missing \ {f_index[d]}
  <2>1. SUFFICES ASSUME ~last PROVE Missing' = Missing \ {f_index[d]}
    OBVIOUS
  <2>2. \A e \in Dests : Counting(e) /\ e # d => f_index[e] # f_index[d]
    BY <1>1 DEF IInv, CountingFiles
  <2> QED
    BY <1>1, <1>5, <1>7, <1>15, <2>1, <2>2 DEF Missing
<1>20. last => Missing' = {f \in Files : f[1] = i}
  <2>1. SUFFICES ASSUME last PROVE Missing' = {f \in Files : f[1] = i}
    OBVIOUS
  <2>2. \A f \in stop_time : f[1] # i
    <3>1. \A f \in stop_time : f[1] <= req_index /\ f[1] \in Nat
      <4>1. \A f \in stop_time : f \in Files /\ f[1] <= req_index
        BY <1>1 DEF IInv, Order, Current, TypeOK
      <4> QED
        BY <1>1, <4>1, FileShape DEF Iterations
    <3> QED
      BY <1>8, <3>1 DEF i
  <2>3. \A e \in Dests : ~Counting(e)'
    BY <1>14, <1>15, <2>1
  <2> QED
    BY <1>5, <1>7, <2>1, <2>2, <2>3 DEF Missing
<1>21. req_file_count' = Cardinality(Missing')
  <2>1. CASE ~last
    BY <1>3, <1>4, <1>5, <1>19, <2>1
  <2>2. CASE last /\ p = "stamp"
    BY <1>1, <1>5, <1>8, <1>20, <2>2, FilesOfShape
  <2>3. CASE last /\ p # "stamp"
    <3>1. ~(i \in Iterations)
      BY <1>4, <1>8, <2>3, TrafficAssumption DEF Iterations, i
    <3>2. Missing' = {}
      BY <1>1, <1>20, <2>3, <3>1, FileShape
    <3> QED
      BY <1>5, <2>3, <3>2, FS_EmptySet DEF last
  <2> QED
    BY <2>1, <2>2, <2>3
<1>22. Counted'
  BY <1>18, <1>21 DEF Counted
<1>23. Tally'
  <2>1. \A e \in Dests : Got(e)' = Got(e)
    BY <1>5, <1>7 DEF Got
  <2>2. file_count[d] \in Nat /\ dest_file_count(d) \in Nat
    BY <1>1, DestFileCount DEF IInv, TypeOK
  <2>3. pc'[d] = "closed" => file_count[d] >= dest_file_count(d)
    BY <1>4, <1>6, <2>2
  <2>4. status' # "done"
    BY <1>1, <1>5
  <2> QED
    BY <1>5, <1>6, <1>7, <2>1, <2>3, <2>4 DEF IInv, Tally, Actors
<1>24. Order'
  <2>1. CASE ~last
    <3>1. \A a \in Actors : /\ Sending(a)' => Sending(a) /\ UNCHANGED pc[a]
                            /\ Active(a)' => Active(a)
      BY <1>1, <1>4, <1>5, <1>6, <1>7, <2>1 DEF Sending, Active
    <3>2. Current' = Current /\ UNCHANGED <<it, next>>
      BY <1>4, <1>5, <1>7, <2>1 DEF Current
    <3> QED
      BY <1>2, <1>5, <1>7, <1>17, <3>1, <3>2 DEF IInv, Order
  <2>2. CASE last
    <3>1. Current = req_index /\ Current' = i
      BY <1>1, <1>5, <1>7, <2>2 DEF Current
    <3>2. \A f \in Files : f[1] \in Nat
      BY <1>1, FileShape DEF Iterations
    <3>3. /\ stop_time \subseteq start_time
          /\ \A f \in start_time : f[1] <= i /\ f[1] # i
          /\ \A f \in Files : f[1] < i => f \in stop_time
      <4>1. \A f \in start_time : f[1] <= req_index /\ f[1] \in Nat
        BY <3>1, <3>2 DEF IInv, Order, TypeOK
      <4>2. \A f \in Files : f[1] < req_index => f \in stop_time
        BY <1>1, <1>2, <3>1 DEF IInv, Order
      <4>3. \A f \in Files : f[1] < i => f[1] < req_index \/ f[1] = req_index
        BY <1>8, <3>2 DEF i
      <4> QED
        BY <1>8, <1>14, <2>2, <4>1, <4>2, <4>3 DEF i, IInv, Order
    <3>4. \A a \in Actors : a # d => /\ Sending(a)' => Sending(a) /\ UNCHANGED pc[a]
                                     /\ ~Active(a)'
      BY <1>5, <1>6, <1>7, <1>14, <2>2 DEF Sending, Active
    <3>5. CASE p # "stamp"
      <4>1. ~Sending(d)' /\ UNCHANGED <<it, next>>
        BY <1>4, <1>5, <1>6, <3>5 DEF Sending
      <4> QED
        BY <1>5, <1>7, <1>17, <3>1, <3>3, <3>4, <4>1 DEF IInv, Order, Active
    <3>6. CASE p = "stamp"
      <4>1. it'[d] = i /\ next'[d] = 1 /\ \A k \in 1..Fanout(i) : ~(k < 1)
        BY <1>6, <1>8, <3>6
      <4>2. \A k : <<i, k>> \notin start_time
        BY <3>3
      <4>3. \A a \in Actors : a # d /\ Sending(a)' =>
              /\ \A k \in 1..Fanout(it[a]) : k < next[a] => <<it[a], k>> \in start_time
              /\ \A k \in 1..Fanout(it[a]) :
                   k > next[a] \/ (k = next[a] /\ pc[a] = "stamp") => <<it[a], k>> \notin start_time
        BY <3>4 DEF IInv, Order
      <4> QED
        BY <1>1, <1>5, <1>6, <1>7, <1>17, <3>1, <3>3, <3>4, <4>1, <4>2, <4>3 DEF Order
    <3> QED
      BY <3>5, <3>6
  <2> QED
    BY <2>1, <2>2
<1> QED
  BY <1>9, <1>10, <1>11, <1>12, <1>13, <1>16, <1>22, <1>23, <1>24 DEF IInv

(* All listeners have ended.                                               *)
LEMMA JoinInvariant ==
  ASSUME IInv, Join
  PROVE  IInv'
<1>1. /\ UNCHANGED <<setup, pc, it, next, f_index, total, file_count, inc_lock,
                     req_file_count, req_index, loaded, start_time, stop_time,
                     requests, replies, server, job, unsent>>
      /\ status' = "done" /\ \A d \in Dests : pc[d] = "closed"
  BY DEF Join, sender, reader, shared, times, serving
<1>2. /\ Files' = Files /\ Parts' = Parts /\ \A f : Destination(f)' = Destination(f)
      /\ \A i : Fanout(i)' = Fanout(i) /\ closed' = closed
      /\ \A e : dest_file_count(e)' = dest_file_count(e)
  BY <1>1, PlanKept, PlanFrame
<1>3. TypeOK' /\ Threads' /\ Locking'
  BY <1>1, <1>2, PlanKept DEF IInv, TypeOK, setup, Threads, Counting, Locking
<1>4. Streams' /\ OnePlace' /\ \A e \in Dests : Pending(e)' = Pending(e)
  BY <1>1, SocketsFrame DEF reader, serving
<1>5. Writing' /\ Order' /\ CountingFiles'
  BY <1>1, <1>2, <1>4
     DEF IInv, Writing, NextFile, Order, Current, Begun, Active, Sending, CountingFiles, Counting
<1>6. Counted'
  <2>1. Missing' = Missing
    BY <1>1, <1>2 DEF Missing, Counting
  <2> QED
    BY <1>1, <1>2, <2>1 DEF IInv, Counted, Begun
<1>7. Tally'
  BY <1>1, <1>2 DEF IInv, Tally, Got
<1> QED
  BY <1>3, <1>4, <1>5, <1>6, <1>7 DEF IInv

(* Every step keeps the invariant.                                         *)
LEMMA StepInvariant == IInv /\ [Next]_vars => IInv'
<1>1. SUFFICES ASSUME IInv, [Next]_vars PROVE IInv'
  OBVIOUS
<1>2. CASE MainStep
  <2>1. Main \in Actors
    BY DEF Actors
  <2> QED
    BY <1>1, <1>2, <2>1, BeginInvariant, StampInvariant, WriteInvariant,
       MainReturnsInvariant, JoinInvariant DEF MainStep
<1>3. ASSUME NEW d \in Dests, Listen(d) PROVE IInv'
  <2>1. d \in Actors
    BY DEF Actors
  <2>2. CASE Stamp(d) \/ Write(d)
    BY <1>1, <2>1, <2>2, StampInvariant, WriteInvariant
  <2>3. CASE Lock(d) \/ Load(d) \/ ListenerReturns(d)
    BY <1>1, <2>3, LockInvariant
  <2>4. CASE ReadMetadata(d) \/ ReadFlow(d) \/ Received(d)
    BY <1>1, <2>4, ReadMetadataInvariant, ReadFlowInvariant, ReceivedInvariant
  <2>5. CASE FlowBreaksOff(d)
    BY <1>1, <2>5, ExitInvariant DEF FlowBreaksOff
  <2>6. CASE Count(d)
    BY <1>1, <2>6, CountInvariant
  <2> QED
    BY <1>3, <2>2, <2>3, <2>4, <2>5, <2>6 DEF Listen
<1>4. ASSUME NEW d \in Dests, ReadFails(d) PROVE IInv'
  BY <1>1, <1>4, ExitInvariant DEF ReadFails
<1>5. CASE UNCHANGED vars
  BY <1>1, <1>5, ExitInvariant DEF vars
<1>6. ASSUME NEW d \in Dests, HandleConnection(d) \/ Die(d) PROVE IInv'
  BY <1>1, <1>6, ServerInvariant
<1> QED
  BY <1>1, <1>2, <1>3, <1>4, <1>5, <1>6 DEF Next, Spin

LEMMA Invariant == Spec => []IInv
BY InitInvariant, StepInvariant, PTL DEF Spec

-----------------------------------------------------------------------------
(* The theorems.                                                           *)

(* Every variable of the client, the sockets and the servers keeps its     *)
(* type, whatever run set_iteration_variables draws.                       *)
THEOREM TypeCorrect == Spec => []TypeOK
<1>1. IInv => TypeOK
  BY DEF IInv
<1> QED
  BY Invariant, <1>1, PTL

(* In the closed loop req_file_count is the number of files nobody has     *)
(* counted whenever no listener is inside inc_lock, and one thread at most *)
(* has files left to send.                                                 *)
THEOREM CountsAreRight == Spec => []CountsOutstanding
<1>1. ASSUME IInv PROVE CountsOutstanding
  <2>1. SUFFICES ASSUME closed, pc[Main] # "begin"
                 PROVE  /\ inc_lock = NoOne =>
                             req_file_count = IF req_index > Iter THEN 0
                                              ELSE Cardinality(Uncounted)
                        /\ \A a, b \in Actors :
                             {pc[a], pc[b]} \subseteq {"stamp", "write"}
                               /\ next[a] <= Fanout(it[a]) /\ next[b] <= Fanout(it[b]) => a = b
    BY DEF CountsOutstanding
  <2>2. PlanTyped /\ req_file_count = Cardinality(Missing)
    BY <1>1, <2>1, PlanIsTyped DEF IInv, Counted, Begun
  <2>3. ASSUME inc_lock = NoOne, req_index > Iter PROVE req_file_count = 0
    <3>1. \A f \in Files : f[1] # req_index
      BY <1>1, <2>2, <2>3, FileShape, TrafficAssumption DEF Iterations, IInv, TypeOK
    <3>2. \A d \in Dests : ~Counting(d)
      BY <1>1, <3>1 DEF IInv, CountingFiles, TypeOK
    <3>3. Missing = {}
      BY <3>1, <3>2 DEF Missing
    <3> QED
      BY <2>2, <3>3, FS_EmptySet
  <2>4. ASSUME inc_lock = NoOne, ~(req_index > Iter)
        PROVE  req_file_count = Cardinality(Uncounted)
    <3>1. req_index \in Iterations
      BY <1>1, <2>4, TrafficAssumption DEF IInv, TypeOK, Iterations
    <3>2. FilesOf(req_index) = {f \in Files : f[1] = req_index}
      BY <2>2, <3>1, FilesOfShape
    <3>3. \A d \in Dests : Counting(d) <=> pc[d] = "lock"
      BY <1>1, <2>4, TrafficAssumption DEF IInv, Locking, Counting, Actors
    <3>4. Missing = Uncounted
      BY <3>2, <3>3 DEF Missing, Uncounted
    <3> QED
      BY <2>2, <3>4
  <2>5. \A a, b \in Actors :
          {pc[a], pc[b]} \subseteq {"stamp", "write"}
            /\ next[a] <= Fanout(it[a]) /\ next[b] <= Fanout(it[b]) => a = b
    BY <1>1 DEF IInv, Order, Active, Sending
  <2> QED
    BY <2>3, <2>4, <2>5
<1> QED
  BY Invariant, <1>1, PTL

(* A listener never takes a flow for metadata, nor the flow of one file    *)
(* for that of another, whatever the sizes of the files.                   *)
THEOREM StreamsInSync == Spec => []FlowsInSync
<1>1. ASSUME IInv PROVE FlowsInSync
  <2>1. SUFFICES ASSUME NEW d \in Dests, replies[d] # << >>
                 PROVE  /\ pc[d] = "metadata" => Head(replies[d]).part = "metadata"
                        /\ pc[d] = "flow" /\ total[d] > 0 =>
                             Head(replies[d]) = [file |-> f_index[d], part |-> "flow"]
    BY DEF FlowsInSync
  <2>2. /\ PlanTyped /\ replies[d] \in Seq(PartsOf(Files)) /\ Head(replies[d]) = replies[d][1]
        /\ SizeOf \in [Files -> Nat] /\ Owed(d) \in Nat /\ Live(d) \in BOOLEAN
        /\ total[d] \in Nat
    <3>1. PlanTyped /\ replies[d] \in Seq(PartsOf(Files))
      BY <1>1, PlanIsTyped, PartsAreParts DEF IInv, TypeOK
    <3>2. Owed(d) \in Nat /\ Live(d) \in BOOLEAN /\ total[d] \in Nat
      BY <1>1 DEF IInv, TypeOK, Owed, Live, Gone
    <3> QED
      BY <2>1, <3>1, <3>2, SizesAreSizes
  <2>3. Stream(SizeOf, replies[d], Expected(d), f_index[d], Owed(d), job[d], Live(d))
    BY <1>1 DEF IInv, Streams, StreamTo
  <2>4. CASE pc[d] = "metadata"
    <3>1. Expected(d) = 0
      BY <2>4 DEF Expected
    <3>2. Head(replies[d]).part = "metadata"
      BY <2>1, <2>2, <2>3, <3>1, StreamMetadataRead
    <3> QED
      BY <2>4, <3>2
  <2>5. CASE pc[d] = "flow" /\ total[d] > 0
    <3>1. PICK F, z, s, x, y, f, o, j, live :
            /\ F = Files /\ z = SizeOf /\ s = replies[d] /\ x = total[d] /\ y = total[d] - 1
            /\ f = f_index[d] /\ o = Owed(d) /\ j = job[d] /\ live = Live(d)
      OBVIOUS
    <3>2. /\ z \in [F -> Nat] /\ s \in Seq(PartsOf(F)) /\ s # << >>
          /\ x \in Nat /\ y \in Nat /\ y < x /\ x <= y + 1 /\ o \in Nat
          /\ live \in BOOLEAN /\ Stream(z, s, x, f, o, j, live)
      BY <2>1, <2>2, <2>3, <2>5, <3>1 DEF Expected
    <3>3. s[1] = Flow(f) /\ Stream(z, Tail(s), y, f, o, j, live)
      BY ONLY <3>2, StreamFlowRead
    <3> QED
      BY <2>2, <2>5, <3>1, <3>3 DEF Flow
  <2> QED
    BY <2>4, <2>5
<1> QED
  BY Invariant, <1>1, PTL

(* No file has a stop time without a start time, and when process_stats    *)
(* runs all have both.                                                     *)
THEOREM StatsAreComplete == Spec => []StatsComplete
<1>1. ASSUME IInv PROVE StatsComplete
  <2>1. stop_time \subseteq start_time /\ stop_time \subseteq Files /\ PlanTyped
    BY <1>1, PlanIsTyped DEF IInv, Order, TypeOK
  <2>2. ASSUME status = "done", NEW g \in Files PROVE g \in stop_time
    <3>1. PICK d \in Dests : d = Destination(g)
      BY <2>1, FileShape
    <3> DEFINE All == {f \in Files : Destination(f) = d}
    <3>2. /\ pc[d] = "closed" /\ file_count[d] = Cardinality(Got(d))
          /\ file_count[d] >= dest_file_count(d) /\ dest_file_count(d) = Cardinality(All)
      BY <1>1, <2>2 DEF IInv, Tally, dest_file_count
    <3>3. IsFiniteSet(All) /\ Got(d) \subseteq All
      BY <2>1, DestFileCount DEF Got
    <3>4. Cardinality(Got(d)) \in Nat /\ Cardinality(All) \in Nat
          /\ Cardinality(Got(d)) <= Cardinality(All)
      BY <3>3, FS_Subset, FS_CardinalityType
    <3>5. Cardinality(Got(d)) = Cardinality(All)
      BY <3>2, <3>4
    <3>6. Got(d) = All
      BY <3>3, <3>5, FS_Subset
    <3>7. g \in Got(d)
      BY <2>2, <3>1, <3>6
    <3> QED
      BY <3>7 DEF Got
  <2> QED
    BY <2>1, <2>2 DEF StatsComplete
<1> QED
  BY Invariant, <1>1, PTL

-----------------------------------------------------------------------------
(* The refinement.                                                         *)

LEMMA StampIsSend ==
  ASSUME IInv, NEW a \in Actors, Stamp(a)
  PROVE  Loop!Next
<1> DEFINE g == NextFile(a)
<1>1. /\ PlanTyped /\ pc[a] = "stamp" /\ next[a] <= Fanout(it[a]) /\ it[a] \in Iterations
      /\ next[a] \in Nat \ {0} /\ Fanout(it[a]) \in Nat
  BY PlanIsTyped, RequestShape, TrafficAssumption, FS_CardinalityType DEF IInv, TypeOK, Stamp
<1>2. next[a] \in 1..Fanout(it[a]) /\ g = <<it[a], next[a]>> /\ g \in Files /\ g[1] = it[a]
  BY <1>1, FilesOfShape DEF NextFile
<1>3. start_time' = start_time \union {g} /\ UNCHANGED <<setup, stop_time>>
  BY DEF Stamp
<1>4. Files' = Files /\ closed' = closed
  BY <1>3, PlanKept, PlanFrame
<1>5. Begun /\ g \notin start_time /\ it[a] = Current
  BY <1>1, <1>2 DEF IInv, Order, Active, Sending
<1>6. Loop!Earlier(g) \subseteq IF closed THEN stop_time ELSE start_time
  BY <1>2, <1>5 DEF Loop!Earlier, IInv, Order
<1> QED
  BY <1>2, <1>3, <1>4, <1>5, <1>6 DEF Loop!Next, Loop!Send

(* Receiving the last part of a file receives it there.                    *)
LEMMA ReceivedIsReceive ==
  ASSUME IInv, NEW d \in Dests, Received(d)
  PROVE  Loop!Next
<1>1. f_index[d] \in Files /\ f_index[d] \in start_time \ stop_time
  BY DEF IInv, Threads, OnePlace, Placed, Pending, Reading, Received
<1>2. stop_time' = stop_time \union {f_index[d]} /\ UNCHANGED <<setup, start_time>>
  BY DEF Received
<1>3. Files' = Files /\ closed' = closed
  BY <1>2, PlanKept, PlanFrame
<1> QED
  BY <1>1, <1>2, <1>3 DEF Loop!Next, Loop!Receive

(* The threads of the client implement the loop of its README: requests in *)
(* order, no file asked for or received twice and, in the closed loop, one *)
(* request answered in full before any part of the next is sent.           *)
THEOREM LoopIsImplemented == Spec => ImplementsLoop
<1>1. Init => Loop!Init
  BY DEF Init, Loop!Init
<1>2. IInv /\ [Next]_vars => [Loop!Next]_(Loop!vars)
  <2>1. SUFFICES ASSUME IInv, [Next]_vars PROVE [Loop!Next]_(Loop!vars)
    OBVIOUS
  <2>2. ASSUME NEW a \in Actors, Stamp(a) PROVE Loop!Next
    BY <2>1, <2>2, StampIsSend
  <2>3. ASSUME NEW d \in Dests, Received(d) PROVE Loop!Next
    BY <2>1, <2>3, ReceivedIsReceive
  <2>4. CASE UNCHANGED <<setup, start_time, stop_time>>
    <3>1. Files' = Files /\ closed' = closed
      BY <2>4, PlanKept, PlanFrame
    <3> QED
      BY <2>4, <3>1 DEF Loop!vars
  <2> DEFINE Outcome == \/ UNCHANGED <<setup, start_time, stop_time>>
                        \/ \E a \in Actors : Stamp(a)
                        \/ \E d \in Dests : Received(d)
  <2>5. Outcome
    <3>1. CASE MainStep
      BY <3>1 DEF MainStep, Actors, Begin, Write, MainReturns, Join, times
    <3>2. ASSUME NEW d \in Dests, Listen(d) PROVE Outcome
      BY <3>2 DEF Listen, Actors, Write, ListenerReturns, ReadMetadata, ReadFlow,
                  FlowBreaksOff, Lock, Load, Count, times
    <3>3. ASSUME NEW d \in Dests, Spin(d) \/ ReadFails(d) \/ HandleConnection(d) \/ Die(d)
          PROVE  UNCHANGED <<setup, start_time, stop_time>>
      BY <3>3 DEF Spin, ReadFails, HandleConnection, Serve, Echo, SendFlow, Served,
                  CloseConnection, Die, times, vars
    <3>4. CASE UNCHANGED vars
      BY <3>4 DEF vars, times
    <3> QED
      BY <2>1, <3>1, <3>2, <3>3, <3>4 DEF Next
  <2> QED
    BY <2>2, <2>3, <2>4, <2>5
<1> QED
  BY Invariant, <1>1, <1>2, PTL DEF Spec, ImplementsLoop, Loop!Spec
=============================================================================
