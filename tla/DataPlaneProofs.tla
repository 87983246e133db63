-------------------------- MODULE DataPlaneProofs --------------------------
(***************************************************************************)
(* Theorems about DataPlane, for every spine-leaf topology, set of flows,  *)
(* ECMP hash, number of packets and width of the length fields.            *)
(***************************************************************************)
EXTENDS DataPlane, RouteLemmas, TLAPS

-----------------------------------------------------------------------------
(* Lengths: arithmetic modulo Modulus.                                     *)

LEMMA Divide ==
  ASSUME NEW a \in Int
  PROVE  /\ a % Modulus \in Bit16 /\ a \div Modulus \in Int
         /\ a = Modulus * (a \div Modulus) + (a % Modulus)
<1>1. Modulus \in Nat \ {0}
  BY DataPlaneAssumption
<1>2. a % Modulus \in Bit16
  BY <1>1 DEF Bit16
<1>3. a \div Modulus \in Int
  BY <1>1
<1>4. a = Modulus * (a \div Modulus) + (a % Modulus)
  BY <1>1
<1> QED
  BY <1>2, <1>3, <1>4

(* Two numbers a multiple of Modulus apart have the same remainder.        *)
LEMMA SameRemainder ==
  ASSUME NEW q \in Int, NEW k \in Int, NEW r \in Bit16, NEW s \in Bit16,
         Modulus * q + r = Modulus * k + s
  PROVE  r = s
<1>1. Modulus \in Nat \ {0} /\ r \in Int /\ s \in Int
      /\ 0 <= r /\ r < Modulus /\ 0 <= s /\ s < Modulus
  BY DataPlaneAssumption DEF Bit16
<1>2. PICK d \in Int : d = q - k
  OBVIOUS
<1>3. Modulus * d = s - r
  BY <1>1, <1>2
<1>4. d >= 1 => Modulus * d >= Modulus
  BY <1>1
<1>5. d <= -1 => Modulus * d <= -Modulus
  BY <1>1
<1>6. d = 0 => Modulus * d = 0
  BY <1>1
<1>7. PICK m \in Int : m = Modulus * d
  BY <1>1
<1>8. d = 0
  BY <1>1, <1>3, <1>4, <1>5, <1>7
<1> QED
  BY <1>1, <1>3, <1>6, <1>8

LEMMA AddToRemainder ==
  ASSUME NEW a \in Int, NEW b \in Int
  PROVE  ((a % Modulus) + b) % Modulus = (a + b) % Modulus
<1>1. PICK q \in Int, r \in Bit16 : q = a \div Modulus /\ r = a % Modulus /\ a = Modulus * q + r
  BY Divide
<1>2. r + b \in Int /\ a + b \in Int
  BY DataPlaneAssumption DEF Bit16
<1>3. PICK k \in Int, s \in Bit16 : s = (r + b) % Modulus /\ r + b = Modulus * k + s
  BY <1>2, Divide
<1>4. PICK j \in Int, t \in Bit16 : t = (a + b) % Modulus /\ a + b = Modulus * j + t
  BY <1>2, Divide
<1>5. Modulus * (q + k) + s = Modulus * j + t
  <2>1. Modulus \in Int
    BY DataPlaneAssumption
  <2>2. Modulus * (q + k) = Modulus * q + Modulus * k
    BY <2>1
  <2>3. PICK mq \in Int, mk \in Int, mj \in Int :
          mq = Modulus * q /\ mk = Modulus * k /\ mj = Modulus * j
    BY <2>1
  <2>4. r \in Int /\ s \in Int /\ t \in Int
    BY <2>1 DEF Bit16
  <2>5. mq + mk + s = mj + t
    <3>1. a = mq + r /\ r + b = mk + s /\ a + b = mj + t
      BY <1>1, <1>3, <1>4, <2>3
    <3> QED
      BY ONLY <2>3, <2>4, <3>1, a \in Int, b \in Int
  <2> QED
    BY <2>2, <2>3, <2>5
<1>6. s = t
  BY <1>5, SameRemainder
<1> QED
  BY <1>1, <1>3, <1>4, <1>6

LEMMA SmallRemainder ==
  ASSUME NEW a \in Bit16
  PROVE  a % Modulus = a
<1>1. a \in Int
  BY DataPlaneAssumption DEF Bit16
<1>2. PICK q \in Int, r \in Bit16 : r = a % Modulus /\ a = Modulus * q + r
  BY <1>1, Divide
<1>3. Modulus * q + r = Modulus * 0 + a
  BY <1>1, <1>2, DataPlaneAssumption
<1>4. r = a
  BY <1>3, SameRemainder
<1> QED
  BY <1>2, <1>4

(* A length field after n bytes are added to it, and after n bytes are     *)
(* taken off.                                                              *)
Plus(a, n) == (a + n) % Modulus
Minus(a, n) == (a - n) % Modulus

(* What was added to a length and is taken off again leaves no trace.      *)
LEMMA LengthKept ==
  ASSUME NEW a \in Int, NEW b \in Int, NEW x \in Int, NEW y \in Int, y = x + b
  PROVE  Minus(Plus(a, b), y) = Minus(a, x)
<1>1. PICK c \in Int, z \in Int : c = a + b /\ z = -y
  OBVIOUS
<1>2. ((c % Modulus) + z) % Modulus = (c + z) % Modulus
  BY AddToRemainder
<1>3. PICK r \in Int : r = c % Modulus
  BY Divide, DataPlaneAssumption DEF Bit16
<1>4. r + z = r - y /\ c + z = a - x
  BY <1>1
<1> QED
  BY <1>1, <1>2, <1>3, <1>4 DEF Plus, Minus

LEMMA LessTaken ==
  ASSUME NEW a \in Int, NEW b \in Int, NEW y \in Int
  PROVE  Minus(Minus(a, b), y) = Minus(a, y + b)
<1>1. PICK c \in Int, z \in Int : c = a - b /\ z = -y
  OBVIOUS
<1>2. ((c % Modulus) + z) % Modulus = (c + z) % Modulus
  BY AddToRemainder
<1>3. PICK r \in Int : r = c % Modulus
  BY Divide, DataPlaneAssumption DEF Bit16
<1>4. r + z = r - y /\ c + z = a - (y + b)
  BY <1>1
<1> QED
  BY <1>1, <1>2, <1>3, <1>4 DEF Minus

LEMMA LengthTyped ==
  ASSUME NEW a \in Int, NEW b \in Int
  PROVE  Plus(a, b) \in Bit16 /\ Minus(a, b) \in Bit16
BY Divide, a + b \in Int, a - b \in Int DEF Plus, Minus

LEMMA LengthIs ==
  ASSUME NEW a \in Bit16
  PROVE  Minus(a, 0) = a
<1>1. a \in Int
  BY DataPlaneAssumption DEF Bit16
<1> QED
  BY <1>1, SmallRemainder DEF Minus

-----------------------------------------------------------------------------
(* Packets and their headers.                                              *)

(* The bytes that the headers add to what a host sent, and its class.      *)
IntSize(p) == IF p.int = Absent THEN 0 ELSE IntHeaderBytes + HopBytes * Len(p.int.hops)
SrhSize(p) == IF p.srh = Absent THEN 0 ELSE SrhBytes(Len(p.srh.list))
Class(p) == IF p.int = Absent THEN p.dscp ELSE p.int.dscp

LEMMA RestoredIs ==
  ASSUME NEW p
  PROVE  Restored(p) =
           [flow |-> p.flow,
            content |-> [dscp |-> Class(p), bare |-> TRUE,
                         plen |-> Minus(p.plen, IntSize(p) + SrhSize(p)),
                         ulen |-> Minus(p.ulen, IntSize(p))]]
BY DEF Restored, Content, IntSize, SrhSize, Class, Minus

LEMMA SizesAreInt ==
  ASSUME NEW p \in Packet
  PROVE  /\ IntSize(p) \in Int /\ SrhSize(p) \in Int
         /\ p.plen \in Int /\ p.ulen \in Int
<1>1. p.int # Absent => Len(p.int.hops) \in Nat
  BY DEF Packet, IntHeader
<1>2. p.srh # Absent => Len(p.srh.list) \in Nat
  BY DEF Packet, SrhHeader
<1>3. p.plen \in Bit16 /\ p.ulen \in Bit16
  BY DEF Packet
<1> QED
  BY <1>1, <1>2, <1>3, DataPlaneAssumption
     DEF IntSize, SrhSize, SrhBytes, IntHeaderBytes, HopBytes, Bit16

(* What no header may touch on the way through a switch.                   *)
Same(p, q) ==
  /\ q \in Packet
  /\ q.flow = p.flow /\ q.at = p.at /\ q.trail = p.trail /\ q.route = p.route

LEMMA IntSourceKeeps ==
  ASSUME NEW p \in Packet, p.int = Absent, p.dscp \in Dscps
  PROVE  LET q == IntSource(p)
         IN  /\ Same(p, q) /\ q.dst = p.dst /\ q.srh = p.srh /\ q.dscp = DscpInt
             /\ q.int = [len |-> 3, dscp |-> p.dscp, remaining |-> MaxHop,
                         e |-> FALSE, hops |-> <<>>]
             /\ q.int # Absent
             /\ Restored(q) = Restored(p)
<1> DEFINE q == IntSource(p)
<1>1. PICK int : int = [len |-> 3, dscp |-> p.dscp, remaining |-> MaxHop,
                        e |-> FALSE, hops |-> <<>>]
  OBVIOUS
<1>2. int \in IntHeader /\ int # Absent
  <2>1. <<>> \in Seq(Nodes) /\ MaxHop \in Nat
    BY DataPlaneAssumption
  <2>2. int \in IntHeader
    BY <1>1, <2>1 DEF IntHeader
  <2> QED
    BY <2>2, SentinelAssumption
<1>3. IntHeaderBytes \div 4 = 3
  BY DEF IntHeaderBytes
<1>4. PICK a, b : a = Plus(p.plen, 12) /\ b = Plus(p.ulen, 12)
  OBVIOUS
<1>5. a \in Bit16 /\ b \in Bit16
  BY <1>4, SizesAreInt, LengthTyped
<1>6. q = [p EXCEPT !.int = int, !.dscp = DscpInt, !.plen = a, !.ulen = b]
  BY <1>1, <1>3, <1>4 DEF IntSource, Packet, IntHeaderBytes, Plus
<1>7. /\ q \in Packet /\ q.flow = p.flow /\ q.at = p.at /\ q.dst = p.dst /\ q.srh = p.srh
      /\ q.trail = p.trail /\ q.route = p.route
      /\ q.dscp = DscpInt /\ q.int = int /\ q.plen = a /\ q.ulen = b
  BY <1>2, <1>5, <1>6 DEF Packet
<1> HIDE DEF q
<1>8. IntSize(p) = 0 /\ IntSize(q) = 12 /\ SrhSize(q) = SrhSize(p) /\ Class(q) = Class(p)
  BY <1>1, <1>2, <1>7 DEF IntSize, SrhSize, Class, IntHeaderBytes, HopBytes
<1>9. /\ Minus(q.plen, IntSize(q) + SrhSize(q)) = Minus(p.plen, IntSize(p) + SrhSize(p))
      /\ Minus(q.ulen, IntSize(q)) = Minus(p.ulen, IntSize(p))
  BY <1>4, <1>7, <1>8, SizesAreInt, LengthKept
<1>10. Restored(q) = Restored(p)
  BY <1>7, <1>8, <1>9, RestoredIs
<1> QED
  BY <1>1, <1>2, <1>7, <1>10 DEF q, Same

LEMMA ReversedIs ==
  ASSUME NEW S, NEW s \in Seq(S)
  PROVE  /\ Reversed(s) \in Seq(S) /\ Len(Reversed(s)) = Len(s)
         /\ \A j \in 1..Len(s) : Reversed(s)[j] = s[Len(s) + 1 - j]
<1>1. DOMAIN s = 1..Len(s) /\ Len(s) \in Nat /\ \A i \in 1..Len(s) : s[i] \in S
  OBVIOUS
<1>2. \A j \in 1..Len(s) : Len(s) + 1 - j \in 1..Len(s)
  BY <1>1
<1>3. Reversed(s) \in [1..Len(s) -> S]
  BY <1>1, <1>2 DEF Reversed
<1> QED
  BY <1>1, <1>3 DEF Reversed

(* srv6_t_insert: the next segment becomes the destination. *)
LEMMA InsertKeeps ==
  ASSUME NEW p \in Packet, p.srh = Absent,
         NEW segments \in Seq(Nodes), Len(segments) >= 2
  PROVE  LET q == Srv6Insert(p, segments)
         IN  /\ Same(p, q) /\ q.int = p.int /\ q.dscp = p.dscp
             /\ q.dst = segments[1]
             /\ q.srh = [list |-> Reversed(segments), left |-> Len(segments) - 1]
             /\ q.srh # Absent
             /\ Restored(q) = Restored(p)
<1> DEFINE q == Srv6Insert(p, segments)
<1>1. PICK srh : srh = [list |-> Reversed(segments), left |-> Len(segments) - 1]
  OBVIOUS
<1>2. Len(segments) \in Nat /\ Len(segments) - 1 \in Nat /\ segments[1] \in Nodes
  OBVIOUS
<1>3. srh \in SrhHeader /\ srh # Absent /\ Len(srh.list) = Len(segments)
  <2>1. Reversed(segments) \in Seq(Nodes) /\ Len(Reversed(segments)) = Len(segments)
    BY ReversedIs
  <2>2. srh \in SrhHeader
    BY <1>1, <1>2, <2>1 DEF SrhHeader
  <2> QED
    BY <1>1, <2>1, <2>2, SentinelAssumption
<1>4. PICK n \in Int : n = SrhBytes(Len(segments))
  BY <1>2 DEF SrhBytes
<1>5. PICK a : a = Plus(p.plen, n)
  OBVIOUS
<1>6. a \in Bit16
  BY <1>4, <1>5, SizesAreInt, LengthTyped
<1>7. q = [p EXCEPT !.srh = srh, !.dst = segments[1], !.plen = a]
  BY <1>1, <1>4, <1>5 DEF Srv6Insert, Packet, Plus
<1>8. /\ q \in Packet /\ q.flow = p.flow /\ q.at = p.at /\ q.trail = p.trail
      /\ q.route = p.route /\ q.int = p.int /\ q.dscp = p.dscp
      /\ q.dst = segments[1] /\ q.srh = srh /\ q.plen = a /\ q.ulen = p.ulen
  BY <1>2, <1>3, <1>6, <1>7 DEF Packet
<1> HIDE DEF q
<1>9. IntSize(q) = IntSize(p) /\ SrhSize(p) = 0 /\ SrhSize(q) = n /\ Class(q) = Class(p)
  BY <1>3, <1>4, <1>8 DEF IntSize, SrhSize, Class
<1>10. Minus(q.plen, IntSize(q) + SrhSize(q)) = Minus(p.plen, IntSize(p) + SrhSize(p))
  BY <1>4, <1>5, <1>8, <1>9, SizesAreInt, LengthKept
<1>11. Restored(q) = Restored(p)
  BY <1>8, <1>9, <1>10, RestoredIs
<1> QED
  BY <1>1, <1>3, <1>8, <1>11 DEF q, Same

(* srv6_end and srv6_pop: the segment after this one becomes the           *)
(* destination, and the header goes when there is none after that.         *)
LEMMA EndKeeps ==
  ASSUME NEW p \in Packet, p.srh # Absent, p.srh.left \in 1..Len(p.srh.list)
  PROVE  LET q == Srv6Pop(Srv6End(p))
         IN  /\ Same(p, q) /\ q.int = p.int /\ q.dscp = p.dscp
             /\ q.dst = p.srh.list[p.srh.left]
             /\ IF p.srh.left = 1 THEN q.srh = Absent
                ELSE /\ q.srh = [list |-> p.srh.list, left |-> p.srh.left - 1]
                     /\ q.srh # Absent
             /\ Restored(q) = Restored(p)
<1> DEFINE m == Srv6End(p)
           q == Srv6Pop(m)
<1>1. /\ p.srh \in SrhHeader /\ p.srh.list \in Seq(Nodes) /\ p.srh.left \in Nat
      /\ p.srh.left - 1 \in Nat /\ Len(p.srh.list) \in Nat
      /\ p.srh.list[p.srh.left] \in Nodes
  BY DEF Packet, SrhHeader
<1>2. PICK srh : srh = [list |-> p.srh.list, left |-> p.srh.left - 1]
  OBVIOUS
<1>3. srh \in SrhHeader /\ srh # Absent /\ srh = [p.srh EXCEPT !.left = @ - 1]
  BY <1>1, <1>2, SentinelAssumption DEF SrhHeader
<1>4. m = [p EXCEPT !.srh = srh, !.dst = p.srh.list[p.srh.left]]
  BY <1>3 DEF Srv6End, Packet
<1>5. /\ m \in Packet /\ m.flow = p.flow /\ m.at = p.at /\ m.trail = p.trail
      /\ m.route = p.route /\ m.int = p.int /\ m.dscp = p.dscp
      /\ m.dst = p.srh.list[p.srh.left] /\ m.srh = srh /\ m.plen = p.plen /\ m.ulen = p.ulen
  BY <1>1, <1>3, <1>4 DEF Packet
<1> HIDE DEF m
<1>6. CASE p.srh.left # 1
  <2>1. q = m
    BY <1>1, <1>2, <1>5, <1>6 DEF Srv6Pop
  <2>2. IntSize(q) = IntSize(p) /\ SrhSize(q) = SrhSize(p) /\ Class(q) = Class(p)
    BY <1>2, <1>3, <1>5, <2>1 DEF IntSize, SrhSize, Class
  <2>3. Restored(q) = Restored(p)
    BY <1>5, <2>1, <2>2, RestoredIs
  <2> QED
    BY <1>2, <1>3, <1>5, <1>6, <2>1, <2>3 DEF m, Same
<1>7. CASE p.srh.left = 1
  <2>1. PICK n \in Int : n = SrhBytes(Len(p.srh.list))
    BY <1>1 DEF SrhBytes
  <2>2. PICK a : a = Minus(p.plen, n)
    OBVIOUS
  <2>3. a \in Bit16
    BY <2>1, <2>2, SizesAreInt, LengthTyped
  <2>4. q = [m EXCEPT !.srh = Absent, !.plen = a]
    BY <1>1, <1>2, <1>3, <1>5, <1>7, <2>1, <2>2 DEF Srv6Pop, Packet, Minus
  <2>5. /\ q \in Packet /\ q.flow = p.flow /\ q.at = p.at /\ q.trail = p.trail
        /\ q.route = p.route /\ q.int = p.int /\ q.dscp = p.dscp
        /\ q.dst = p.srh.list[p.srh.left] /\ q.srh = Absent /\ q.plen = a /\ q.ulen = p.ulen
    BY <1>5, <2>3, <2>4 DEF Packet
  <2> HIDE DEF q
  <2>6. IntSize(q) = IntSize(p) /\ SrhSize(p) = n /\ SrhSize(q) = 0 /\ Class(q) = Class(p)
    BY <2>1, <2>5 DEF IntSize, SrhSize, Class
  <2>7. Minus(q.plen, IntSize(q) + SrhSize(q)) = Minus(p.plen, IntSize(p) + SrhSize(p))
    <3>1. PICK pl \in Int, x \in Int, y \in Int :
            pl = p.plen /\ x = IntSize(p) + SrhSize(p) /\ y = IntSize(q) + SrhSize(q)
      BY <2>1, <2>6, SizesAreInt
    <3>2. x = y + n
      BY <2>1, <2>6, <3>1, SizesAreInt
    <3>3. Minus(Minus(pl, n), y) = Minus(pl, y + n)
      BY ONLY n \in Int, pl \in Int, y \in Int, LessTaken
    <3> QED
      BY <2>2, <2>5, <3>1, <3>2, <3>3
  <2>8. Restored(q) = Restored(p)
    BY <2>5, <2>6, <2>7, RestoredIs
  <2> QED
    BY <1>7, <2>5, <2>8 DEF m, q, Same
<1> QED
  BY <1>6, <1>7

(* Int_transit: the switch is put on top of the stack. *)
LEMMA TransitKeeps ==
  ASSUME NEW p \in Packet, p.int # Absent, p.int.remaining # 0, ~ p.int.e,
         NEW s \in Nodes
  PROVE  LET q == IntTransit(s, p)
         IN  /\ Same(p, q) /\ q.dst = p.dst /\ q.srh = p.srh /\ q.dscp = p.dscp
             /\ q.int # Absent /\ ~ q.int.e /\ q.int.dscp = p.int.dscp
             /\ q.int.remaining = p.int.remaining - 1
             /\ q.int.len = p.int.len + 2
             /\ q.int.hops = <<s>> \o p.int.hops
             /\ Restored(q) = Restored(p)
<1> DEFINE q == IntTransit(s, p)
<1>1. /\ p.int \in IntHeader /\ p.int.len \in Nat /\ p.int.remaining \in Nat
      /\ p.int.hops \in Seq(Nodes) /\ Len(p.int.hops) \in Nat /\ p.int.e = FALSE
      /\ p.int.dscp \in Dscps
  BY DEF Packet, IntHeader
<1>2. PICK hops : hops = <<s>> \o p.int.hops
  OBVIOUS
<1>3. hops \in Seq(Nodes) /\ Len(hops) = Len(p.int.hops) + 1
  BY <1>1, <1>2
<1>4. PICK int : int = [len |-> p.int.len + 2, dscp |-> p.int.dscp,
                        remaining |-> p.int.remaining - 1, e |-> FALSE, hops |-> hops]
  OBVIOUS
<1>5. int \in IntHeader /\ int # Absent
  <2>1. p.int.len + 2 \in Nat /\ p.int.remaining - 1 \in Nat
    BY <1>1
  <2>2. int \in IntHeader
    BY <1>1, <1>3, <1>4, <2>1 DEF IntHeader
  <2> QED
    BY <2>2, SentinelAssumption
<1>6. PICK a, b : a = Plus(p.plen, 8) /\ b = Plus(p.ulen, 8)
  OBVIOUS
<1>7. a \in Bit16 /\ b \in Bit16
  BY <1>6, SizesAreInt, LengthTyped
<1>8. q = [p EXCEPT !.int = int, !.plen = a, !.ulen = b]
  <2>1. HopBytes = 8 /\ HopBytes \div 4 = 2
    BY DEF HopBytes
  <2>2. [p.int EXCEPT !.remaining = @ - 1, !.hops = <<s>> \o @, !.len = @ + 2] = int
    <3>1. PICK h \in IntHeader, r \in Nat, l \in Nat :
            h = p.int /\ r = h.remaining - 1 /\ l = h.len + 2
      <4>1. p.int.remaining - 1 \in Nat /\ p.int.len + 2 \in Nat
        BY <1>1
      <4> QED
        BY <1>1, <4>1
    <3>2. PICK z : z = [h EXCEPT !.remaining = r, !.hops = hops, !.len = l]
      OBVIOUS
    <3>3. /\ z \in IntHeader
          /\ z.len = l /\ z.remaining = r /\ z.hops = hops /\ z.dscp = h.dscp /\ z.e = h.e
      BY ONLY h \in IntHeader, r \in Nat, l \in Nat, <1>3, <3>2 DEF IntHeader
    <3>4. z = int
      BY <1>1, <1>4, <1>5, <3>1, <3>3 DEF IntHeader
    <3> QED
      BY <1>2, <3>1, <3>2, <3>4
  <2>3. q = [p EXCEPT !.int.remaining = @ - 1, !.int.hops = <<s>> \o @,
                      !.int.len = @ + 2, !.plen = a, !.ulen = b]
    BY <1>1, <1>6, <2>1 DEF IntTransit, Plus
  <2> QED
    BY <2>2, <2>3 DEF Packet
<1>9. /\ q \in Packet /\ q.flow = p.flow /\ q.at = p.at /\ q.trail = p.trail
      /\ q.route = p.route /\ q.int = int /\ q.dscp = p.dscp
      /\ q.dst = p.dst /\ q.srh = p.srh /\ q.plen = a /\ q.ulen = b
  BY <1>5, <1>7, <1>8 DEF Packet
<1> HIDE DEF q
<1>10. IntSize(q) = IntSize(p) + 8 /\ SrhSize(q) = SrhSize(p) /\ Class(q) = Class(p)
  <2>1. q.int.hops = hops /\ q.int.dscp = p.int.dscp /\ q.int # Absent
    BY <1>4, <1>5, <1>9
  <2>2. IntSize(q) = 12 + 8 * Len(hops) /\ IntSize(p) = 12 + 8 * Len(p.int.hops)
    BY <2>1 DEF IntSize, HopBytes, IntHeaderBytes
  <2> QED
    BY <1>1, <1>3, <1>9, <2>1, <2>2 DEF SrhSize, Class
<1>11. /\ Minus(q.plen, IntSize(q) + SrhSize(q)) = Minus(p.plen, IntSize(p) + SrhSize(p))
       /\ Minus(q.ulen, IntSize(q)) = Minus(p.ulen, IntSize(p))
  <2>1. PICK pl \in Int, ul \in Int, x \in Int, y \in Int, i \in Int, j \in Int, c \in Int :
          /\ pl = p.plen /\ ul = p.ulen /\ i = IntSize(p) /\ j = IntSize(q) /\ c = 8
          /\ x = IntSize(p) + SrhSize(p) /\ y = IntSize(q) + SrhSize(q)
    BY <1>10, SizesAreInt
  <2>2. y = x + c /\ j = i + c
    BY <1>10, <2>1, SizesAreInt
  <2>3. Minus(Plus(pl, c), y) = Minus(pl, x) /\ Minus(Plus(ul, c), j) = Minus(ul, i)
    BY <2>1, <2>2, LengthKept
  <2> QED
    BY <1>6, <1>9, <2>1, <2>3
<1>12. Restored(q) = Restored(p)
  BY <1>9, <1>10, <1>11, RestoredIs
<1> QED
  BY <1>2, <1>4, <1>5, <1>9, <1>12 DEF q, Same

(* remove_sink_header: the stack goes, the class comes back. *)
LEMMA RemoveKeeps ==
  ASSUME NEW p \in Packet, p.int # Absent, 4 * p.int.len = IntSize(p)
  PROVE  LET q == RemoveSinkHeader(p)
         IN  /\ Same(p, q) /\ q.dst = p.dst /\ q.srh = p.srh
             /\ q.int = Absent /\ q.dscp = p.int.dscp /\ q.dscp \in Dscps
             /\ Restored(q) = Restored(p)
<1> DEFINE q == RemoveSinkHeader(p)
<1>1. p.int.dscp \in Dscps
  BY DEF Packet, IntHeader
<1>2. PICK n \in Int : n = IntSize(p)
  BY SizesAreInt
<1>3. PICK a, b : a = Minus(p.plen, n) /\ b = Minus(p.ulen, n)
  OBVIOUS
<1>4. a \in Bit16 /\ b \in Bit16
  BY <1>2, <1>3, SizesAreInt, LengthTyped
<1>5. q = [p EXCEPT !.int = Absent, !.dscp = p.int.dscp, !.plen = a, !.ulen = b]
  BY <1>2, <1>3 DEF RemoveSinkHeader, Packet, Minus
<1>6. /\ q \in Packet /\ q.flow = p.flow /\ q.at = p.at /\ q.trail = p.trail
      /\ q.route = p.route /\ q.int = Absent /\ q.dscp = p.int.dscp
      /\ q.dst = p.dst /\ q.srh = p.srh /\ q.plen = a /\ q.ulen = b
  BY <1>1, <1>4, <1>5 DEF Packet
<1> HIDE DEF q
<1>7. IntSize(q) = 0 /\ SrhSize(q) = SrhSize(p) /\ Class(q) = Class(p)
  BY <1>6 DEF IntSize, SrhSize, Class
<1>8. /\ Minus(q.plen, IntSize(q) + SrhSize(q)) = Minus(p.plen, IntSize(p) + SrhSize(p))
      /\ Minus(q.ulen, IntSize(q)) = Minus(p.ulen, IntSize(p))
  <2>1. PICK pl \in Int, ul \in Int, x \in Int, y \in Int, z \in Int :
          /\ pl = p.plen /\ ul = p.ulen /\ z = 0
          /\ x = IntSize(p) + SrhSize(p) /\ y = IntSize(q) + SrhSize(q)
    BY <1>7, SizesAreInt
  <2>2. x = y + n /\ n = z + n
    BY <1>2, <1>7, <2>1, SizesAreInt
  <2>3. /\ Minus(Minus(pl, n), y) = Minus(pl, y + n)
        /\ Minus(Minus(ul, n), z) = Minus(ul, z + n)
    BY ONLY n \in Int, pl \in Int, ul \in Int, y \in Int, z \in Int, LessTaken
  <2> QED
    BY <1>2, <1>3, <1>6, <1>7, <2>1, <2>2, <2>3
<1>9. Restored(q) = Restored(p)
  BY <1>6, <1>7, <1>8, RestoredIs
<1> QED
  BY <1>1, <1>6, <1>9 DEF q, Same

-----------------------------------------------------------------------------
(* Routes: where a packet is on the path it follows.                       *)

(* The packet has come as far as node n of the path r: its SRv6 header     *)
(* holds what follows the source leaf, and what is left of it comes after  *)
(* node n; without one, ECMP leads it along r.                             *)
HeaderFits(p, r, n) ==
  /\ n = Len(r) => p.srh = Absent
  /\ p.srh = Absent /\ n < Len(r) => r = EcmpPath[p.flow] /\ p.dst = Dst[p.flow]
  /\ p.srh # Absent =>
       /\ Len(p.srh.list) = Len(r) - 2
       /\ \A j \in 1..(Len(r) - 2) : p.srh.list[j] = r[Len(r) + 1 - j]
       /\ p.srh.left = Len(r) - n /\ p.dst = r[n]

(* Its INT stack holds the switches before node n, the last one on top.    *)
Recorded(p, r, n) ==
  /\ p.int = Absent => p.dscp \in Dscps
  /\ p.int # Absent =>
       /\ p.dscp = DscpInt /\ ~ p.int.e
       /\ Len(p.int.hops) = n - 2
       /\ \A j \in 1..(n - 2) : p.int.hops[j] = r[n - j]
       /\ p.int.remaining = MaxHop - (n - 2)
       /\ p.int.len = 3 + 2 * (n - 2)

(* A packet that its host sent and its source leaf has yet to handle.      *)
AtSource(p) ==
  LET sent == <<Src[p.flow], LeafOf(Src[p.flow])>>
  IN  /\ p.at = LeafOf(Src[p.flow]) /\ p.dst = Dst[p.flow]
      /\ p.srh = Absent /\ p.int = Absent /\ p.dscp \in Dscps
      /\ p.trail = sent /\ p.route = sent

(* A packet that has left its source leaf.                                 *)
UnderWay(p) ==
  LET r == p.route
      n == Len(p.trail)
  IN  /\ r \in FlowPaths(p.flow) /\ Len(r) <= 5 /\ n \in 3..Len(r)
      /\ p.trail = SubSeq(r, 1, n) /\ p.at = r[n]
      /\ HeaderFits(p, r, n) /\ Recorded(p, r, n)
      /\ n = Len(r) => p.int = Absent

OnRoute(p) == p \in Packet /\ (AtSource(p) \/ UnderWay(p))

(* The collector exports paths with two or three segments. *)
TableOK(table) ==
  /\ table \in [SwitchSet -> [Hosts -> {Segments(p) : p \in AllPaths} \union {NoPath}]]
  /\ Exported(table)
  /\ \A s \in SwitchSet, h \in Hosts : table[s][h] # NoPath => Len(table[s][h]) \in {2, 3}

(* The inductive invariant. *)
IInv ==
  /\ TableOK(srv6_transit)
  /\ packets \in [Slots -> Packet \union {Idle}]
  /\ \A k \in Slots : packets[k] # Idle => OnRoute(packets[k])
  /\ ReportTellsRoute

(* The uplinks of a flow's hosts are the leaves of its paths.              *)
LEMMA LeafOfIs ==
  ASSUME NEW f \in Flows, NEW p \in FlowPaths(f)
  PROVE  /\ LeafOf(Src[f]) = p[2] /\ LeafOf(Dst[f]) = p[Len(p) - 1]
         /\ p[2] \in SwitchSet /\ IsLeaf(p[2])
<1>1. /\ Len(p) \in Nat /\ Len(p) >= 3 /\ p[1] = Src[f] /\ p[Len(p)] = Dst[f]
      /\ \A i \in 1..(Len(p) - 1) : <<p[i], p[i+1]>> \in Links
      /\ \A i \in 2..(Len(p) - 1) : p[i] \in SwitchSet
  BY PathNodes
<1>2. Src[f] \in Hosts /\ Dst[f] \in Hosts
  BY FlowsAssumption
<1>3. /\ <<p[1], p[2]>> \in Links /\ p[2] \in SwitchSet
      /\ <<p[Len(p) - 1], p[Len(p)]>> \in Links /\ p[Len(p) - 1] \in SwitchSet
  <2>1. /\ 1 \in 1..(Len(p) - 1) /\ 1 + 1 = 2 /\ 2 \in 2..(Len(p) - 1)
        /\ Len(p) - 1 \in 1..(Len(p) - 1) /\ Len(p) - 1 \in 2..(Len(p) - 1)
        /\ (Len(p) - 1) + 1 = Len(p)
    BY <1>1
  <2> QED
    BY <1>1, <2>1
<1>4. <<p[2], Src[f]>> \in Links /\ <<Src[f], p[2]>> \in Links
  BY <1>1, <1>3, Symmetric
<1>5. <<Dst[f], p[Len(p) - 1]>> \in Links
  BY <1>1, <1>3, Symmetric
<1>6. LeafOf(Src[f]) = p[2]
  BY <1>2, <1>3, <1>4, SingleUplink DEF LeafOf
<1>7. LeafOf(Dst[f]) = p[Len(p) - 1]
  BY <1>2, <1>3, <1>5, SingleUplink DEF LeafOf
<1> QED
  BY <1>2, <1>3, <1>4, <1>6, <1>7 DEF IsLeaf

(* Only leaves have entries, and none for the hosts linked to them.        *)
LEMMA EntryAtEdge ==
  ASSUME NEW table, TableOK(table),
         NEW s \in SwitchSet, NEW h \in Hosts, table[s][h] # NoPath
  PROVE  <<s, h>> \notin Links /\ IsLeaf(s)
<1>1. PICK g \in Flows : \E q \in FlowPaths(g) :
        SourceSwitch(q) = s /\ Dst[g] = h /\ table[s][h] = Segments(q)
  BY DEF TableOK, Exported
<1>2. PICK q \in FlowPaths(g) :
        SourceSwitch(q) = s /\ Dst[g] = h /\ table[s][h] = Segments(q)
  BY <1>1
<1>3. q \in Seq(Nodes) /\ Len(q) \in Nat /\ Len(q) >= 3
  BY PathNodes
<1>4. Len(q) >= 4 /\ q[2] = s
  <2>1. Len(table[s][h]) \in {2, 3}
    BY DEF TableOK
  <2>2. Len(Segments(q)) = Len(q) - 2
    BY <1>3 DEF Segments
  <2> QED
    BY <1>2, <1>3, <2>1, <2>2 DEF SourceSwitch
<1>5. IsLeaf(s)
  BY <1>4, LeafOfIs
<1>6. ASSUME <<s, h>> \in Links PROVE FALSE
  <2>1. 2 \in 2..(Len(q) - 1) /\ <<q[2], Dst[g]>> \in Links
    BY <1>2, <1>3, <1>4, <1>6
  <2>2. 2 = Len(q) - 1
    BY <2>1, ShortPath
  <2>3. PICK k \in Nat : k = Len(q)
    BY <1>3
  <2>4. k >= 4 /\ 2 = k - 1
    BY <1>4, <2>2, <2>3
  <2> QED
    BY ONLY <2>4, k \in Nat
<1> QED
  BY <1>5, <1>6

LEMMA NeighbourIs ==
  ASSUME NEW s, NEW n \in Nodes
  PROVE  n \in Neighbours(s) <=> <<s, n>> \in Links
BY DEF Neighbours

-----------------------------------------------------------------------------
(* Ingress.                                                                *)

LEMMA Join ==
  ASSUME NEW S, NEW a \in S, NEW b \in S, NEW e \in Seq(S)
  PROVE  LET r == <<a, b>> \o e
         IN  Len(r) = Len(e) + 2 /\ \A j \in 1..Len(e) : r[2 + j] = e[j]
OBVIOUS

(* The source leaf chooses the path: the entry's, with a header for what   *)
(* follows the leaf, or ECMP's, without one.                               *)
LEMMA SourceIngress ==
  ASSUME TableOK(srv6_transit), NEW p \in Packet, p.dst = Dst[p.flow], p.srh = Absent
  PROVE  LET r == RouteUnder(srv6_transit, p.flow)
             s == LeafOf(Src[p.flow])
             q == SRv6(s, p)
         IN  /\ r \in FlowPaths(p.flow) /\ Len(r) <= 5 /\ s = r[2]
             /\ Same(p, q) /\ q.int = p.int /\ q.dscp = p.dscp
             /\ NextHop(s, q) = r[3] /\ HeaderFits(q, r, 3)
             /\ Restored(q) = Restored(p)
<1> DEFINE r == RouteUnder(srv6_transit, p.flow)
<1>1. PICK f \in Flows : f = p.flow
  BY DEF Packet
<1>2. PICK s \in SwitchSet : s = LeafOf(Src[f]) /\ s = SourceSwitch(EcmpPath[f]) /\ IsLeaf(s)
  BY <1>1, LeafOfIs, FlowsAssumption DEF SourceSwitch
<1>3. PICK entry : entry = srv6_transit[s][Dst[f]]
  OBVIOUS
<1>4. /\ Dst[f] \in Hosts /\ r \in FlowPaths(f)
      /\ entry = NoPath => r = EcmpPath[f]
      /\ entry # NoPath => r = <<Src[f], s>> \o entry
  <2>1. Exported(srv6_transit) /\ r = RouteUnder(srv6_transit, f)
    BY <1>1 DEF TableOK
  <2>2. LET s0 == SourceSwitch(EcmpPath[f])
            r0 == RouteUnder(srv6_transit, f)
        IN  /\ Dst[f] \in Hosts /\ r0 \in FlowPaths(f)
            /\ srv6_transit[s0][Dst[f]] = NoPath => r0 = EcmpPath[f]
            /\ srv6_transit[s0][Dst[f]] # NoPath =>
                 r0 = <<Src[f], s0>> \o srv6_transit[s0][Dst[f]]
    BY <2>1, RouteUnderOwned
  <2> HIDE DEF r
  <2> QED
    BY <1>2, <1>3, <2>1, <2>2
<1>5. Dst[f] # s /\ Dst[f] \in Nodes
  BY <1>2, <1>4, TopologyAssumption DEF Nodes
<1>6. Len(r) \in Nat /\ Len(r) >= 3 /\ s = r[2]
  BY <1>2, <1>4, PathNodes, LeafOfIs
<1>7. CASE entry = NoPath
  <2>1. SRv6(s, p) = p
    <3>1. p.dst # s /\ ~ (p.dst \in Hosts /\ srv6_transit[s][p.dst] # NoPath)
      BY <1>1, <1>3, <1>5, <1>7
    <3> QED
      BY <3>1 DEF SRv6
  <2>2. Len(r) <= 5
    BY <1>4, <1>7, FabricAssumption
  <2>3. NextHop(s, p) = r[3] /\ (Len(r) # 3 => r = EcmpPath[f])
    <3>1. CASE <<s, Dst[f]>> \in Links
      <4>1. 2 \in 2..(Len(r) - 1)
        BY <1>6
      <4>2. r[3] = Dst[f]
        BY <1>4, <1>6, <3>1, <4>1, ShortPath
      <4> QED
        BY <1>1, <1>4, <1>5, <1>7, <3>1, <4>2, NeighbourIs DEF NextHop
    <3>2. CASE <<s, Dst[f]>> \notin Links
      BY <1>1, <1>2, <1>4, <1>5, <1>7, <3>2, NeighbourIs DEF NextHop
    <3> QED
      BY <3>1, <3>2
  <2>4. HeaderFits(p, r, 3)
    BY <1>1, <1>4, <1>7 DEF HeaderFits
  <2>5. Same(p, p)
    BY DEF Same
  <2> QED
    BY <1>1, <1>2, <1>4, <1>6, <2>1, <2>2, <2>3, <2>4, <2>5
<1>8. CASE entry # NoPath
  <2>1. Len(entry) \in {2, 3} /\ entry \in Seq(Nodes)
    <3>1. Len(entry) \in {2, 3}
      BY <1>2, <1>3, <1>4, <1>8 DEF TableOK
    <3>2. PICK g \in Flows : \E x \in FlowPaths(g) : entry = Segments(x)
      BY <1>2, <1>3, <1>4, <1>8 DEF TableOK, Exported
    <3>3. PICK x \in FlowPaths(g) : entry = Segments(x)
      BY <3>2
    <3>4. x \in Seq(Nodes) /\ Len(x) \in Nat /\ Len(x) >= 3
      BY PathNodes
    <3> QED
      BY <3>1, <3>3, <3>4 DEF Segments
  <2> HIDE DEF r
  <2>2. /\ Len(r) = Len(entry) + 2 /\ Len(r) <= 5
        /\ \A j \in 1..Len(entry) : r[2 + j] = entry[j]
    <3>1. Src[f] \in Nodes /\ s \in Nodes
      BY FlowsAssumption DEF Nodes
    <3>2. r = <<Src[f], s>> \o entry /\ entry \in Seq(Nodes)
      BY <1>4, <1>8, <2>1
    <3>3. Len(r) = Len(entry) + 2 /\ \A j \in 1..Len(entry) : r[2 + j] = entry[j]
      BY <3>1, <3>2, Join
    <3>4. PICK k \in {2, 3} : k = Len(entry)
      BY <2>1
    <3>5. k + 2 <= 5
      BY ONLY k \in {2, 3}
    <3> QED
      BY <3>3, <3>4, <3>5
  <2>3. r[3] = entry[1] /\ Len(entry) >= 2
    <3>1. Len(entry) >= 2 /\ 1 \in 1..Len(entry)
      <4>1. PICK k \in {2, 3} : k = Len(entry)
        BY <2>1
      <4>2. k >= 2 /\ 1 \in 1..k
        BY ONLY k \in {2, 3}
      <4> QED
        BY <4>1, <4>2
    <3>2. r[2 + 1] = entry[1]
      BY <2>2, <3>1
    <3> QED
      BY <3>1, <3>2
  <2>4. PICK q : q = Srv6Insert(p, entry)
    OBVIOUS
  <2>5. SRv6(s, p) = q
    <3>1. p.dst # s /\ p.dst \in Hosts /\ srv6_transit[s][p.dst] = entry
          /\ srv6_transit[s][p.dst] # NoPath
      BY <1>1, <1>3, <1>4, <1>5, <1>8
    <3> QED
      BY <2>4, <3>1 DEF SRv6
  <2>6. /\ Same(p, q) /\ q.int = p.int /\ q.dscp = p.dscp
        /\ q.dst = entry[1] /\ q.srh # Absent
        /\ q.srh = [list |-> Reversed(entry), left |-> Len(entry) - 1]
        /\ Restored(q) = Restored(p)
    BY <2>1, <2>3, <2>4, InsertKeeps
  <2>7. NextHop(s, q) = r[3]
    <3>1. r[3] \in Nodes /\ <<s, r[3]>> \in Links
      <4>1. 2 \in 1..(Len(r) - 1) /\ 3 \in 1..Len(r)
        BY <1>6
      <4> QED
        BY <1>1, <1>4, <1>6, <4>1, PathNodes
    <3> QED
      BY <2>3, <2>6, <3>1, NeighbourIs DEF NextHop
  <2>8. HeaderFits(q, r, 3)
    <3>1. q.srh.left = Len(r) - 3 /\ q.dst = r[3] /\ 3 # Len(r)
      BY <2>1, <2>2, <2>3, <2>6
    <3>2. Len(q.srh.list) = Len(r) - 2
      BY <2>1, <2>2, <2>6, ReversedIs
    <3>3. ASSUME NEW j \in 1..(Len(r) - 2) PROVE q.srh.list[j] = r[Len(r) + 1 - j]
      <4>1. j \in 1..Len(entry) /\ Len(entry) + 1 - j \in 1..Len(entry)
        BY <2>1, <2>2
      <4>2. q.srh.list[j] = entry[Len(entry) + 1 - j]
        BY <2>1, <2>6, <4>1, ReversedIs
      <4>3. r[2 + (Len(entry) + 1 - j)] = entry[Len(entry) + 1 - j]
        BY <2>2, <4>1
      <4>4. 2 + (Len(entry) + 1 - j) = Len(r) + 1 - j
        BY <2>1, <2>2
      <4> QED
        BY <4>2, <4>3, <4>4
    <3> QED
      BY <2>6, <3>1, <3>2, <3>3 DEF HeaderFits
  <2> QED
    BY <1>1, <1>2, <1>4, <1>6, <2>2, <2>5, <2>6, <2>7, <2>8 DEF r
<1> QED
  BY <1>7, <1>8

(* Every switch after the source leaf keeps the packet on its path.        *)
LEMMA TransitIngress ==
  ASSUME TableOK(srv6_transit), NEW p \in Packet, NEW r \in FlowPaths(p.flow),
         Len(r) <= 5, NEW n \in 3..(Len(r) - 1), HeaderFits(p, r, n)
  PROVE  LET q == SRv6(r[n], p)
         IN  /\ Same(p, q) /\ q.int = p.int /\ q.dscp = p.dscp
             /\ NextHop(r[n], q) = r[n + 1] /\ HeaderFits(q, r, n + 1)
             /\ Restored(q) = Restored(p)
<1>1. PICK f \in Flows : f = p.flow /\ r \in FlowPaths(f)
  BY DEF Packet
<1>2. PICK len \in Nat : len = Len(r) /\ len <= 5
  BY <1>1, PathNodes
<1>3. /\ r[1] = Src[f] /\ r[len] = Dst[f]
      /\ \A i \in 1..len : r[i] \in Nodes
      /\ \A i \in 1..(len - 1) : <<r[i], r[i+1]>> \in Links
      /\ \A i \in 2..(len - 1) : r[i] \in SwitchSet
  BY <1>1, <1>2, PathNodes
<1>4. n \in 3..(len - 1)
  BY <1>2
<1>5. n + 1 \in 1..len /\ n \in 1..(len - 1) /\ n \in 2..(len - 1) /\ n # len
  BY <1>4
<1>6. PICK s \in SwitchSet : s = r[n]
  BY <1>3, <1>5
<1>7. r[n + 1] \in Nodes /\ <<s, r[n + 1]>> \in Links /\ s \notin Hosts
  BY <1>3, <1>5, <1>6, TopologyAssumption
<1>8. CASE p.srh = Absent
  <2>1. r = EcmpPath[f] /\ p.dst = Dst[f]
    BY <1>1, <1>2, <1>4, <1>5, <1>8 DEF HeaderFits
  <2>2. Dst[f] \in Hosts /\ Dst[f] \in Nodes /\ Dst[f] # s
    BY <1>7, FlowsAssumption DEF Nodes
  <2>3. CASE <<s, Dst[f]>> \in Links
    <3>1. srv6_transit[s][Dst[f]] = NoPath
      BY <2>2, <2>3, EntryAtEdge
    <3>2. SRv6(s, p) = p
      BY <2>1, <2>2, <3>1 DEF SRv6
    <3>3. n = len - 1 /\ r[n + 1] = Dst[f]
      BY <1>1, <1>2, <1>5, <1>6, <2>3, ShortPath
    <3>4. NextHop(s, p) = r[n + 1]
      BY <2>1, <2>2, <2>3, <3>3, NeighbourIs DEF NextHop
    <3>5. HeaderFits(p, r, n + 1)
      BY <1>2, <1>5, <1>8, <3>3 DEF HeaderFits
    <3> QED
      BY <1>6, <3>2, <3>4, <3>5 DEF Same
  <2>4. CASE <<s, Dst[f]>> \notin Links
    <3>1. n + 1 # len
      BY <1>3, <1>7, <2>4
    <3>2. n = 3 /\ len = 5
      BY <1>2, <1>4, <3>1
    <3>3. ~ IsLeaf(s)
      BY <1>1, <1>2, <1>6, <2>1, <3>2, FabricAssumption
    <3>4. srv6_transit[s][Dst[f]] = NoPath
      BY <2>2, <3>3, EntryAtEdge
    <3>5. SRv6(s, p) = p
      BY <2>1, <2>2, <3>4 DEF SRv6
    <3>6. LeafOf(Dst[f]) = r[n + 1]
      <4>1. LeafOf(Dst[f]) = r[len - 1]
        BY <1>1, <1>2, LeafOfIs
      <4> QED
        BY <3>2, <4>1
    <3>7. NextHop(s, p) = r[n + 1]
      BY <2>1, <2>2, <2>4, <3>3, <3>6, NeighbourIs DEF NextHop
    <3>8. HeaderFits(p, r, n + 1)
      BY <1>1, <1>2, <1>8, <2>1, <3>1 DEF HeaderFits
    <3> QED
      BY <1>6, <3>5, <3>7, <3>8 DEF Same
  <2> QED
    BY <2>3, <2>4
<1>9. CASE p.srh # Absent
  <2>1. /\ Len(p.srh.list) = len - 2 /\ p.srh.left = len - n /\ p.dst = s
        /\ \A j \in 1..(len - 2) : p.srh.list[j] = r[len + 1 - j]
    BY <1>2, <1>6, <1>9 DEF HeaderFits
  <2>2. PICK left \in 1..(len - 2) : left = p.srh.left /\ left = len - n
    BY <1>2, <1>4, <2>1
  <2>3. p.srh.list[left] = r[n + 1]
    <3>1. len + 1 - left = n + 1
      BY <1>2, <1>4, <2>2
    <3> QED
      BY <2>1, <2>2, <3>1
  <2>4. PICK q : q = Srv6Pop(Srv6End(p))
    OBVIOUS
  <2>5. SRv6(s, p) = q
    BY <1>7, <2>1, <2>4 DEF SRv6
  <2>6. /\ Same(p, q) /\ q.int = p.int /\ q.dscp = p.dscp
        /\ q.dst = r[n + 1]
        /\ left = 1 => q.srh = Absent
        /\ left # 1 => q.srh # Absent /\ q.srh = [list |-> p.srh.list, left |-> left - 1]
        /\ Restored(q) = Restored(p)
    <3>1. p.srh.left \in 1..Len(p.srh.list)
      BY <2>1, <2>2
    <3> QED
      BY <1>9, <2>2, <2>3, <2>4, <3>1, EndKeeps
  <2>7. NextHop(s, q) = r[n + 1]
    BY <1>7, <2>6, NeighbourIs DEF NextHop
  <2>8. left = 1 <=> n + 1 = len
    BY <1>2, <1>4, <2>2
  <2>9. HeaderFits(q, r, n + 1)
    <3>1. CASE left = 1
      BY <1>2, <2>6, <2>8, <3>1 DEF HeaderFits
    <3>2. CASE left # 1
      <4>1. left - 1 = len - (n + 1)
        BY <1>2, <1>4, <2>2
      <4>2. q.srh # Absent /\ q.srh.left = Len(r) - (n + 1) /\ q.srh.list = p.srh.list
        BY <1>2, <2>6, <3>2, <4>1
      <4> QED
        BY <1>2, <2>1, <2>6, <2>8, <3>2, <4>2 DEF HeaderFits
    <3> QED
      BY <3>1, <3>2
  <2> QED
    BY <1>6, <2>5, <2>6, <2>7, <2>9
<1> QED
  BY <1>8, <1>9

-----------------------------------------------------------------------------
(* Egress.                                                                 *)

(* The stack of a recorded packet says how long it is. *)
LEMMA StackSize ==
  ASSUME NEW p \in Packet, NEW r, NEW n \in 2..5, p.int # Absent, Recorded(p, r, n)
  PROVE  4 * p.int.len = IntSize(p)
<1>1. Len(p.int.hops) = n - 2 /\ p.int.len = 3 + 2 * (n - 2)
  BY DEF Recorded
<1>2. IntSize(p) = 12 + 8 * Len(p.int.hops)
  BY DEF IntSize, IntHeaderBytes, HopBytes
<1>3. 4 * (3 + 2 * (n - 2)) = 12 + 8 * (n - 2)
  OBVIOUS
<1> QED
  BY <1>1, <1>2, <1>3

(* Int_transit records one more switch, for which there is room. *)
LEMMA TransitRecords ==
  ASSUME NEW p \in Packet, NEW r \in Seq(Nodes), NEW n \in 2..4, n <= Len(r),
         p.int # Absent, Recorded(p, r, n)
  PROVE  LET q == IntTransit(r[n], p)
         IN  /\ Same(p, q) /\ q.dst = p.dst /\ q.srh = p.srh /\ q.int # Absent
             /\ q.int.dscp = p.int.dscp
             /\ q.int.hops = <<r[n]>> \o p.int.hops
             /\ Recorded(q, r, n + 1)
             /\ Restored(q) = Restored(p)
<1>1. /\ p.dscp = DscpInt /\ ~ p.int.e /\ Len(p.int.hops) = n - 2
      /\ \A j \in 1..(n - 2) : p.int.hops[j] = r[n - j]
      /\ p.int.remaining = MaxHop - (n - 2) /\ p.int.len = 3 + 2 * (n - 2)
  BY DEF Recorded
<1>2. p.int.hops \in Seq(Nodes) /\ r[n] \in Nodes
  BY DEF Packet, IntHeader
<1>3. MaxHop \in Nat /\ MaxHop >= 3
  BY DataPlaneAssumption, FabricAssumption
<1>4. p.int.remaining # 0
  BY <1>1, <1>3
<1>5. PICK q : q = IntTransit(r[n], p)
  OBVIOUS
<1>6. /\ Same(p, q) /\ q.dst = p.dst /\ q.srh = p.srh /\ q.dscp = p.dscp
      /\ q.int # Absent /\ ~ q.int.e /\ q.int.dscp = p.int.dscp
      /\ q.int.remaining = p.int.remaining - 1
      /\ q.int.len = p.int.len + 2
      /\ q.int.hops = <<r[n]>> \o p.int.hops
      /\ Restored(q) = Restored(p)
  BY <1>1, <1>2, <1>4, <1>5, TransitKeeps
<1>7. q.int.remaining = MaxHop - ((n + 1) - 2) /\ q.int.len = 3 + 2 * ((n + 1) - 2)
  <2>1. (MaxHop - (n - 2)) - 1 = MaxHop - ((n + 1) - 2)
    BY <1>3
  <2>2. (3 + 2 * (n - 2)) + 2 = 3 + 2 * ((n + 1) - 2)
    OBVIOUS
  <2> QED
    BY <1>1, <1>6, <2>1, <2>2
<1>8. /\ Len(q.int.hops) = (n + 1) - 2
      /\ \A j \in 1..((n + 1) - 2) : q.int.hops[j] = r[(n + 1) - j]
  <2>1. PICK hops \in Seq(Nodes), x \in Nodes :
          hops = p.int.hops /\ x = r[n] /\ q.int.hops = <<x>> \o hops
    BY <1>2, <1>6
  <2>2. Len(hops) = n - 2 /\ \A j \in 1..(n - 2) : hops[j] = r[n - j]
    BY <1>1, <2>1
  <2>3. /\ Len(<<x>> \o hops) = 1 + Len(hops) /\ (<<x>> \o hops)[1] = x
        /\ \A j \in 1..Len(hops) : (<<x>> \o hops)[1 + j] = hops[j]
    OBVIOUS
  <2>4. Len(q.int.hops) = (n + 1) - 2
    BY <2>1, <2>2, <2>3
  <2>5. ASSUME NEW j \in 1..((n + 1) - 2) PROVE q.int.hops[j] = r[(n + 1) - j]
    <3>1. CASE j = 1
      BY <2>1, <2>3, <3>1
    <3>2. CASE j # 1
      <4>1. PICK i \in 1..(n - 2) : j = 1 + i /\ n - i = (n + 1) - j
        <5>1. j - 1 \in 1..(n - 2) /\ j = 1 + (j - 1) /\ n - (j - 1) = (n + 1) - j
          BY <3>2
        <5> QED
          BY <5>1
      <4> QED
        BY <2>1, <2>2, <2>3, <4>1
    <3> QED
      BY <3>1, <3>2
  <2> QED
    BY <2>4, <2>5
<1> QED
  BY <1>1, <1>5, <1>6, <1>7, <1>8 DEF Recorded

(* Egress: the stack grows until the sink leaf takes it off. *)
LEMMA EgressFits ==
  ASSUME NEW i \in Packet, NEW r \in FlowPaths(i.flow), Len(r) <= 5,
         NEW n \in 2..(Len(r) - 1), HeaderFits(i, r, n + 1), Recorded(i, r, n)
  PROVE  LET sink == r[n + 1] \in Hosts /\ i.int # Absent
             egress == IntTransit(r[n], i)
             z == IF sink THEN RemoveSinkHeader(egress) ELSE egress
         IN  /\ Same(i, z) /\ HeaderFits(z, r, n + 1) /\ Recorded(z, r, n + 1)
             /\ n + 1 = Len(r) => z.int = Absent
             /\ Restored(z) = Restored(i)
<1>1. PICK f \in Flows : f = i.flow /\ r \in FlowPaths(f)
  BY DEF Packet
<1>2. PICK len \in Nat : len = Len(r) /\ len <= 5
  BY <1>1, PathNodes
<1>3. /\ r \in Seq(Nodes) /\ n \in 2..4 /\ n <= Len(r) /\ n + 1 \in 2..5
      /\ (n + 1 = len <=> r[n + 1] \in Hosts)
  <2>1. n \in 2..(len - 1)
    BY <1>2
  <2>2. n + 1 \in 1..len /\ n + 1 # 1 /\ n \in 2..4 /\ n <= len /\ n + 1 \in 2..5
    BY <1>2, <2>1
  <2> QED
    BY <1>1, <1>2, <2>2, PathNodes
<1>4. PICK egress : egress = IntTransit(r[n], i)
  OBVIOUS
<1>5. CASE i.int = Absent
  <2>1. egress = i
    BY <1>4, <1>5 DEF IntTransit
  <2>2. Recorded(i, r, n + 1)
    BY <1>5 DEF Recorded
  <2> QED
    BY <1>4, <1>5, <2>1, <2>2 DEF Same
<1>6. CASE i.int # Absent
  <2>1. /\ Same(i, egress) /\ egress.dst = i.dst /\ egress.srh = i.srh
        /\ egress.int # Absent /\ Recorded(egress, r, n + 1)
        /\ Restored(egress) = Restored(i)
    BY <1>3, <1>4, <1>6, TransitRecords
  <2>2. CASE r[n + 1] \notin Hosts
    <3>1. HeaderFits(egress, r, n + 1)
      BY <2>1 DEF HeaderFits, Same
    <3> QED
      BY <1>2, <1>3, <1>4, <2>1, <2>2, <3>1
  <2>3. CASE r[n + 1] \in Hosts
    <3>1. PICK z : z = RemoveSinkHeader(egress)
      OBVIOUS
    <3>2. egress \in Packet /\ 4 * egress.int.len = IntSize(egress)
      BY <1>3, <2>1, StackSize DEF Same
    <3>3. /\ Same(egress, z) /\ z.dst = egress.dst /\ z.srh = egress.srh
          /\ z.int = Absent /\ z.dscp \in Dscps /\ Restored(z) = Restored(egress)
      BY <2>1, <3>1, <3>2, RemoveKeeps
    <3>4. HeaderFits(z, r, n + 1)
      BY <2>1, <3>3 DEF HeaderFits, Same
    <3>5. Recorded(z, r, n + 1)
      BY <3>3 DEF Recorded
    <3> QED
      BY <1>4, <1>6, <2>1, <2>3, <3>1, <3>3, <3>4, <3>5 DEF Same
  <2> QED
    BY <2>2, <2>3
<1> QED
  BY <1>5, <1>6

-----------------------------------------------------------------------------
(* A switch traversal, ingress to egress: the packet as Forward makes it.  *)
Ingress(p, sampled) == SRv6(p.at, IF sampled THEN IntSource(p) ELSE p)

Sunk(p, sampled) ==
  /\ NextHop(p.at, Ingress(p, sampled)) \in Hosts
  /\ Ingress(p, sampled).int # Absent

Onward(p, sampled) ==
  LET egress == IntTransit(p.at, Ingress(p, sampled))
  IN  IF Sunk(p, sampled) THEN RemoveSinkHeader(egress) ELSE egress

TrailOn(p, sampled) == Append(p.trail, NextHop(p.at, Ingress(p, sampled)))

Moved(p, sampled) ==
  [Onward(p, sampled) EXCEPT
     !.at = NextHop(p.at, Ingress(p, sampled)), !.trail = TrailOn(p, sampled),
     !.route = IF FromHost(p) THEN RouteUnder(srv6_transit, p.flow) ELSE @]

LEMMA ForwardIs ==
  ASSUME NEW k, NEW sampled, Forward(k, sampled)
  PROVE  LET p == packets[k]
         IN  /\ p # Idle /\ p.at \in SwitchSet /\ (sampled => FromHost(p))
             /\ packets' = [packets EXCEPT ![k] = Moved(p, sampled)]
             /\ report' = IF Sunk(p, sampled) /\ p.int # Absent
                          THEN MakeReport(IntTransit(p.at, p), TrailOn(p, sampled))
                          ELSE report
BY DEF Forward, Ingress, Sunk, Onward, TrailOn, Moved

(* Where a packet is depends on at, trail and route alone. *)
Placed(z, at, trail, route) == [z EXCEPT !.at = at, !.trail = trail, !.route = route]

LEMMA MoveKeeps ==
  ASSUME NEW z \in Packet, NEW at \in Nodes, NEW trail \in Seq(Nodes),
         NEW route \in Seq(Nodes), NEW w, w = Placed(z, at, trail, route)
  PROVE  /\ w \in Packet /\ w.flow = z.flow /\ w.at = at /\ w.trail = trail
         /\ w.route = route /\ w.dst = z.dst /\ w.dscp = z.dscp
         /\ w.srh = z.srh /\ w.int = z.int
         /\ Restored(w) = Restored(z)
<1>1. /\ w \in Packet /\ w.flow = z.flow /\ w.at = at /\ w.trail = trail
      /\ w.route = route /\ w.dst = z.dst /\ w.dscp = z.dscp
      /\ w.srh = z.srh /\ w.int = z.int /\ w.plen = z.plen /\ w.ulen = z.ulen
  BY DEF Packet, Placed
<1>2. IntSize(w) = IntSize(z) /\ SrhSize(w) = SrhSize(z) /\ Class(w) = Class(z)
  BY <1>1 DEF IntSize, SrhSize, Class
<1>3. Restored(w) = Restored(z)
  BY <1>1, <1>2, RestoredIs
<1> QED
  BY <1>1, <1>3

(* One node further on the path. *)
LEMMA OneFurther ==
  ASSUME NEW r \in Seq(Nodes), NEW n \in 2..(Len(r) - 1)
  PROVE  /\ Append(SubSeq(r, 1, n), r[n + 1]) = SubSeq(r, 1, n + 1)
         /\ Len(SubSeq(r, 1, n + 1)) = n + 1 /\ SubSeq(r, 1, n + 1) \in Seq(Nodes)
<1>1. Len(r) \in Nat /\ n + 1 \in 1..Len(r) /\ n \in 1..Len(r)
  OBVIOUS
<1>2. \A i \in 1..Len(r) : r[i] \in Nodes
  OBVIOUS
<1>3. /\ SubSeq(r, 1, n) \in Seq(Nodes) /\ Len(SubSeq(r, 1, n)) = n
      /\ \A i \in 1..n : SubSeq(r, 1, n)[i] = r[i]
  BY <1>1, <1>2
<1>4. /\ SubSeq(r, 1, n + 1) \in Seq(Nodes) /\ Len(SubSeq(r, 1, n + 1)) = n + 1
      /\ \A i \in 1..(n + 1) : SubSeq(r, 1, n + 1)[i] = r[i]
  BY <1>1, <1>2
<1>5. PICK a \in Seq(Nodes), b \in Seq(Nodes), x \in Nodes :
        a = SubSeq(r, 1, n) /\ b = SubSeq(r, 1, n + 1) /\ x = r[n + 1]
  BY <1>1, <1>2, <1>3, <1>4
<1>6. Append(a, x) = b
  <2>1. Len(a) = n /\ Len(b) = n + 1 /\ b[n + 1] = x /\ \A i \in 1..n : a[i] = b[i]
    BY <1>3, <1>4, <1>5
  <2>2. Len(Append(a, x)) = n + 1 /\ Append(a, x) \in Seq(Nodes)
    BY <2>1
  <2>3. \A i \in 1..(n + 1) : Append(a, x)[i] = b[i]
    BY <2>1
  <2> QED
    BY <2>1, <2>2, <2>3
<1> QED
  BY <1>4, <1>5, <1>6

(* The path r that a packet is on when it has left the switch where it is. *)
Heads(p, sampled, r, n) ==
  LET i == Ingress(p, sampled)
  IN  /\ r \in FlowPaths(p.flow) /\ Len(r) <= 5 /\ n \in 2..(Len(r) - 1)
      /\ p.at = r[n] /\ p.trail = SubSeq(r, 1, n)
      /\ r = (IF FromHost(p) THEN RouteUnder(srv6_transit, p.flow) ELSE p.route)
      /\ Same(p, i) /\ NextHop(p.at, i) = r[n + 1]
      /\ HeaderFits(i, r, n + 1) /\ Recorded(i, r, n) /\ Restored(i) = Restored(p)
      /\ p.int # Absent => n >= 3 /\ HeaderFits(p, r, n) /\ Recorded(p, r, n)

LEMMA FirstTwo ==
  ASSUME NEW S, NEW r \in Seq(S), Len(r) >= 2
  PROVE  SubSeq(r, 1, 2) = <<r[1], r[2]>>
<1>1. PICK t : t = SubSeq(r, 1, 2)
  OBVIOUS
<1>2. Len(r) \in Nat /\ \A i \in 1..Len(r) : r[i] \in S
  OBVIOUS
<1>3. t \in Seq(S) /\ Len(t) = 2 /\ t[1] = r[1] /\ t[2] = r[2]
  BY <1>1, <1>2
<1>4. PICK a \in S, b \in S : a = r[1] /\ b = r[2]
  OBVIOUS
<1>5. t = <<a, b>>
  BY <1>3, <1>4
<1> QED
  BY <1>1, <1>4, <1>5

(* From its host. *)
LEMMA HeadsOff ==
  ASSUME TableOK(srv6_transit), NEW p \in Packet, AtSource(p), NEW sampled \in BOOLEAN
  PROVE  Heads(p, sampled, RouteUnder(srv6_transit, p.flow), 2)
<1>1. PICK r : r = RouteUnder(srv6_transit, p.flow)
  OBVIOUS
<1>2. PICK f \in Flows : f = p.flow
  BY DEF Packet
<1>3. /\ p.at = LeafOf(Src[f]) /\ p.dst = Dst[f]
      /\ p.srh = Absent /\ p.int = Absent /\ p.dscp \in Dscps
      /\ p.trail = <<Src[f], LeafOf(Src[f])>>
  BY <1>2 DEF AtSource
<1>4. PICK m : m = IF sampled THEN IntSource(p) ELSE p
  OBVIOUS
<1>5. /\ Same(p, m) /\ m.dst = p.dst /\ m.srh = p.srh
      /\ Recorded(m, r, 2) /\ Restored(m) = Restored(p)
  <2>1. CASE sampled
    <3>1. /\ Same(p, m) /\ m.dst = p.dst /\ m.srh = p.srh /\ m.dscp = DscpInt
          /\ m.int = [len |-> 3, dscp |-> p.dscp, remaining |-> MaxHop,
                      e |-> FALSE, hops |-> <<>>]
          /\ m.int # Absent /\ Restored(m) = Restored(p)
      BY <1>3, <1>4, <2>1, IntSourceKeeps
    <3>2. Recorded(m, r, 2)
      <4>1. /\ ~ m.int.e /\ Len(m.int.hops) = 2 - 2 /\ m.int.remaining = MaxHop
            /\ m.int.len = 3
        BY <3>1
      <4>2. MaxHop = MaxHop - (2 - 2) /\ 3 = 3 + 2 * (2 - 2)
            /\ \A j \in 1..(2 - 2) : m.int.hops[j] = r[2 - j]
        BY DataPlaneAssumption
      <4> QED
        BY <3>1, <4>1, <4>2 DEF Recorded
    <3> QED
      BY <3>1, <3>2
  <2>2. CASE ~ sampled
    BY <1>3, <1>4, <2>2 DEF Same, Recorded
  <2> QED
    BY <2>1, <2>2
<1>6. PICK i : i = SRv6(p.at, m) /\ i = Ingress(p, sampled)
  BY <1>4 DEF Ingress
<1>7. /\ m \in Packet /\ m.flow = f /\ m.dst = Dst[m.flow] /\ m.srh = Absent
  BY <1>2, <1>3, <1>5 DEF Same
<1>8. /\ r \in FlowPaths(f) /\ Len(r) <= 5 /\ p.at = r[2]
      /\ Same(m, i) /\ i.int = m.int /\ i.dscp = m.dscp
      /\ NextHop(p.at, i) = r[3] /\ HeaderFits(i, r, 3) /\ Restored(i) = Restored(m)
  BY <1>1, <1>2, <1>3, <1>6, <1>7, SourceIngress
<1>9. Len(r) \in Nat /\ Len(r) >= 3 /\ r[1] = Src[f] /\ r \in Seq(Nodes)
  BY <1>8, PathNodes
<1>10. p.trail = SubSeq(r, 1, 2)
  <2>1. SubSeq(r, 1, 2) = <<r[1], r[2]>>
    BY <1>9, FirstTwo
  <2> QED
    BY <1>3, <1>8, <1>9, <2>1
<1>11. FromHost(p)
  BY <1>3 DEF FromHost
<1>12. Recorded(i, r, 2)
  BY <1>5, <1>8 DEF Recorded
<1>13. 2 \in 2..(Len(r) - 1) /\ 2 + 1 = 3
  BY <1>9
<1>14. Same(p, i)
  BY <1>5, <1>8 DEF Same
<1> QED
  BY <1>1, <1>2, <1>3, <1>5, <1>6, <1>8, <1>10, <1>11, <1>12, <1>13, <1>14 DEF Heads

(* From a switch. *)
LEMMA HeadsOn ==
  ASSUME TableOK(srv6_transit), NEW p \in Packet, UnderWay(p), p.at \in SwitchSet
  PROVE  ~ FromHost(p) /\ Heads(p, FALSE, p.route, Len(p.trail))
<1>1. PICK r, n : r = p.route /\ n = Len(p.trail)
  OBVIOUS
<1>2. PICK f \in Flows : f = p.flow
  BY DEF Packet
<1>3. /\ r \in FlowPaths(f) /\ Len(r) <= 5 /\ n \in 3..Len(r)
      /\ p.trail = SubSeq(r, 1, n) /\ p.at = r[n]
      /\ HeaderFits(p, r, n) /\ Recorded(p, r, n)
  BY <1>1, <1>2 DEF UnderWay
<1>4. PICK len \in Nat : len = Len(r) /\ r[len] = Dst[f]
  BY <1>3, PathNodes
<1>5. n # len
  BY <1>3, <1>4, FlowsAssumption, TopologyAssumption
<1>6. n \in 3..(Len(r) - 1) /\ n \in 2..(Len(r) - 1) /\ n >= 3 /\ n # 2
  BY <1>3, <1>4, <1>5
<1>7. ~ FromHost(p)
  BY <1>1, <1>6 DEF FromHost
<1>8. PICK i : i = SRv6(p.at, p) /\ i = Ingress(p, FALSE)
  BY DEF Ingress
<1>9. /\ Same(p, i) /\ i.int = p.int /\ i.dscp = p.dscp
      /\ NextHop(p.at, i) = r[n + 1] /\ HeaderFits(i, r, n + 1) /\ Restored(i) = Restored(p)
  <2>1. r \in FlowPaths(p.flow) /\ n \in 3..(Len(r) - 1) /\ i = SRv6(r[n], p)
    BY <1>2, <1>3, <1>6, <1>8
  <2>2. LET q == SRv6(r[n], p)
        IN  /\ Same(p, q) /\ q.int = p.int /\ q.dscp = p.dscp
            /\ NextHop(r[n], q) = r[n + 1] /\ HeaderFits(q, r, n + 1)
            /\ Restored(q) = Restored(p)
    BY <1>3, <2>1, TransitIngress
  <2> QED
    BY <1>3, <2>1, <2>2
<1>10. Recorded(i, r, n)
  BY <1>3, <1>9 DEF Recorded
<1> QED
  BY <1>1, <1>2, <1>3, <1>6, <1>7, <1>8, <1>9, <1>10 DEF Heads

(* The packet leaves the switch for the next node of its path, and a host  *)
(* would make the same of it as before.                                    *)
LEMMA MovedKeeps ==
  ASSUME NEW p \in Packet, NEW sampled, NEW r, NEW n, Heads(p, sampled, r, n)
  PROVE  LET w == Moved(p, sampled)
         IN  /\ OnRoute(w) /\ Restored(w) = Restored(p)
             /\ TrailOn(p, sampled) = SubSeq(r, 1, n + 1)
             /\ Sunk(p, sampled) => n + 1 = Len(r)
<1>1. PICK f \in Flows : f = p.flow
  BY DEF Packet
<1>2. PICK i : i = Ingress(p, sampled)
  OBVIOUS
<1>3. /\ r \in FlowPaths(f) /\ Len(r) <= 5 /\ n \in 2..(Len(r) - 1)
      /\ p.at = r[n] /\ p.trail = SubSeq(r, 1, n)
      /\ r = (IF FromHost(p) THEN RouteUnder(srv6_transit, f) ELSE p.route)
      /\ Same(p, i) /\ NextHop(p.at, i) = r[n + 1]
      /\ HeaderFits(i, r, n + 1) /\ Recorded(i, r, n) /\ Restored(i) = Restored(p)
  BY <1>1, <1>2 DEF Heads
<1>4. r \in Seq(Nodes) /\ Len(r) \in Nat /\ n + 1 \in 3..Len(r) /\ r[n + 1] \in Nodes
  BY <1>3, PathNodes
<1>5. Sunk(p, sampled) <=> r[n + 1] \in Hosts /\ i.int # Absent
  BY <1>2, <1>3 DEF Sunk
<1>6. PICK z : z = Onward(p, sampled)
  OBVIOUS
<1>7. /\ Same(i, z) /\ HeaderFits(z, r, n + 1) /\ Recorded(z, r, n + 1)
      /\ n + 1 = Len(r) => z.int = Absent
      /\ Restored(z) = Restored(i)
  <2>1. i \in Packet /\ i.flow = f
    BY <1>1, <1>3 DEF Same
  <2>2. z = IF r[n + 1] \in Hosts /\ i.int # Absent
            THEN RemoveSinkHeader(IntTransit(r[n], i)) ELSE IntTransit(r[n], i)
    BY <1>2, <1>3, <1>5, <1>6 DEF Onward
  <2> QED
    BY <1>3, <2>1, <2>2, EgressFits
<1>8. PICK trail : trail = TrailOn(p, sampled)
  OBVIOUS
<1>9. trail = SubSeq(r, 1, n + 1) /\ Len(trail) = n + 1 /\ trail \in Seq(Nodes)
  <2>1. trail = Append(SubSeq(r, 1, n), r[n + 1])
    BY <1>2, <1>3, <1>8 DEF TrailOn
  <2> QED
    BY <1>3, <1>4, <2>1, OneFurther
<1>10. z \in Packet /\ z.flow = f /\ z.route = p.route
  BY <1>1, <1>3, <1>7 DEF Same
<1>11. PICK w : w = Placed(z, r[n + 1], trail, r)
  OBVIOUS
<1>12. Moved(p, sampled) = w
  BY <1>1, <1>2, <1>3, <1>6, <1>8, <1>10, <1>11 DEF Moved, Packet, Placed
<1>13. /\ w \in Packet /\ w.flow = f /\ w.at = r[n + 1] /\ w.trail = trail
       /\ w.route = r /\ w.dst = z.dst /\ w.dscp = z.dscp
       /\ w.srh = z.srh /\ w.int = z.int /\ Restored(w) = Restored(z)
  <2>1. PICK at \in Nodes : at = r[n + 1]
    BY <1>4
  <2>2. z \in Packet /\ trail \in Seq(Nodes) /\ r \in Seq(Nodes)
        /\ w = Placed(z, at, trail, r)
    BY <1>4, <1>9, <1>10, <1>11, <2>1
  <2>3. /\ w \in Packet /\ w.flow = z.flow /\ w.at = at /\ w.trail = trail
        /\ w.route = r /\ w.dst = z.dst /\ w.dscp = z.dscp
        /\ w.srh = z.srh /\ w.int = z.int
        /\ Restored(w) = Restored(z)
    BY <2>2, MoveKeeps
  <2> QED
    BY <1>10, <2>1, <2>3
<1>14. HeaderFits(w, r, n + 1) /\ Recorded(w, r, n + 1)
  BY <1>7, <1>10, <1>13 DEF HeaderFits, Recorded
<1>15. OnRoute(w)
  BY <1>3, <1>4, <1>7, <1>9, <1>13, <1>14 DEF OnRoute, UnderWay
<1>16. Sunk(p, sampled) => n + 1 = Len(r)
  <2>1. n + 1 \in 1..Len(r) /\ n + 1 # 1
    BY <1>4
  <2> QED
    BY <1>3, <1>5, <2>1, PathNodes
<1> QED
  BY <1>3, <1>7, <1>8, <1>9, <1>12, <1>13, <1>15, <1>16

-----------------------------------------------------------------------------
(* Reports.                                                                *)

LEMMA Between ==
  ASSUME NEW S, NEW a \in S, NEW m \in Seq(S), NEW b \in S
  PROVE  LET r == <<a>> \o m \o <<b>>
         IN  /\ r \in Seq(S) /\ Len(r) = Len(m) + 2 /\ r[1] = a /\ r[Len(m) + 2] = b
             /\ \A j \in 1..Len(m) : r[1 + j] = m[j]
<1>1. PICK u \in Seq(S) : u = <<a>> \o m
  <2>1. <<a>> \o m \in Seq(S)
    OBVIOUS
  <2> QED
    BY <2>1
<1>2. Len(u) = 1 + Len(m) /\ u[1] = a /\ \A j \in 1..Len(m) : u[1 + j] = m[j]
  BY <1>1
<1>3. PICK r \in Seq(S) : r = u \o <<b>>
  <2>1. u \o <<b>> \in Seq(S)
    OBVIOUS
  <2> QED
    BY <2>1
<1>4. /\ Len(r) = Len(u) + 1 /\ r[Len(u) + 1] = b
      /\ \A j \in 1..Len(u) : r[j] = u[j]
  BY <1>3
<1>5. Len(m) \in Nat
  OBVIOUS
<1>6. Len(r) = Len(m) + 2 /\ r[1] = a /\ r[Len(m) + 2] = b
  BY <1>2, <1>4, <1>5
<1>7. \A j \in 1..Len(m) : r[1 + j] = m[j]
  BY <1>2, <1>4, <1>5
<1> QED
  BY <1>1, <1>3, <1>6, <1>7

(* The report that the sink leaf mirrors, from the packet as it came in,   *)
(* tells the whole path of the packet.                                     *)
LEMMA ReportTold ==
  ASSUME NEW p \in Packet, NEW sampled, NEW r, NEW n, Heads(p, sampled, r, n),
         Sunk(p, sampled), p.int # Absent
  PROVE  LET m == MakeReport(IntTransit(p.at, p), TrailOn(p, sampled))
         IN  <<m.src>> \o Reversed(m.hops) \o <<m.dst>> = m.trail
<1>1. PICK f \in Flows : f = p.flow
  BY DEF Packet
<1>2. /\ r \in FlowPaths(f) /\ Len(r) <= 5 /\ n \in 2..(Len(r) - 1) /\ p.at = r[n]
      /\ n >= 3 /\ HeaderFits(p, r, n) /\ Recorded(p, r, n)
  BY <1>1 DEF Heads
<1>3. n + 1 = Len(r) /\ TrailOn(p, sampled) = SubSeq(r, 1, n + 1)
  BY MovedKeeps
<1>4. /\ r \in Seq(Nodes) /\ Len(r) \in Nat /\ n + 1 \in 3..Len(r)
      /\ r[1] = Src[f] /\ r[Len(r)] = Dst[f]
  BY <1>2, PathNodes
<1>5. n \in 2..4 /\ n <= Len(r) /\ n < Len(r)
  BY <1>2, <1>3, <1>4
<1>6. PICK q : q = IntTransit(r[n], p)
  OBVIOUS
<1>7. Same(p, q) /\ q.dst = p.dst /\ q.srh = p.srh /\ q.int # Absent /\ Recorded(q, r, n + 1)
  BY <1>2, <1>4, <1>5, <1>6, TransitRecords
<1>8. PICK hops \in Seq(Nodes) : hops = q.int.hops
  BY <1>7 DEF Same, Packet, IntHeader
<1>9. Len(hops) = n - 1 /\ \A j \in 1..(n - 1) : hops[j] = r[(n + 1) - j]
  <2>1. Len(hops) = (n + 1) - 2 /\ \A j \in 1..((n + 1) - 2) : hops[j] = r[(n + 1) - j]
    BY <1>7, <1>8 DEF Recorded
  <2>2. (n + 1) - 2 = n - 1
    BY <1>5
  <2> QED
    BY <2>1, <2>2
<1>10. PICK m : m = MakeReport(q, SubSeq(r, 1, n + 1))
  OBVIOUS
<1>11. /\ m.src = r[1] /\ m.hops = hops /\ m.trail = SubSeq(r, 1, n + 1)
       /\ m.dst = IF p.srh = Absent THEN p.dst ELSE p.srh.list[1]
  BY <1>1, <1>4, <1>7, <1>8, <1>10 DEF MakeReport, Same
<1>12. m.dst = r[n + 1]
  <2>1. CASE p.srh = Absent
    BY <1>1, <1>2, <1>3, <1>4, <1>5, <1>11, <2>1 DEF HeaderFits
  <2>2. CASE p.srh # Absent
    <3>1. 1 \in 1..(Len(r) - 2) /\ Len(r) + 1 - 1 = n + 1
      BY <1>2, <1>3, <1>4
    <3> QED
      BY <1>2, <1>11, <2>2, <3>1 DEF HeaderFits
  <2> QED
    BY <2>1, <2>2
<1>13. PICK back \in Seq(Nodes) : back = Reversed(hops)
  BY ReversedIs
<1>14. Len(back) = n - 1 /\ \A j \in 1..(n - 1) : back[j] = r[1 + j]
  <2>1. Len(back) = n - 1
    BY <1>9, <1>13, ReversedIs
  <2>2. ASSUME NEW j \in 1..(n - 1) PROVE back[j] = r[1 + j]
    <3>1. n - j \in 1..(n - 1) /\ (n - 1) + 1 - j = n - j /\ (n + 1) - (n - j) = 1 + j
      BY <1>5
    <3>2. back[j] = hops[n - j]
      BY <1>9, <1>13, <3>1, ReversedIs
    <3> QED
      BY <1>9, <3>1, <3>2
  <2> QED
    BY <2>1, <2>2
<1>15. PICK a \in Nodes, b \in Nodes : a = r[1] /\ b = r[n + 1]
  BY <1>4
<1>16. PICK t \in Seq(Nodes), u \in Seq(Nodes) :
         t = SubSeq(r, 1, n + 1) /\ u = <<a>> \o back \o <<b>>
  BY <1>2, <1>4, <1>15, OneFurther, Between
<1>17. Len(u) = n + 1 /\ u[1] = a /\ u[n + 1] = b /\ \A j \in 1..(n - 1) : u[1 + j] = back[j]
  <2>1. /\ Len(u) = Len(back) + 2 /\ u[1] = a /\ u[Len(back) + 2] = b
        /\ \A j \in 1..Len(back) : u[1 + j] = back[j]
    BY <1>16, Between
  <2>2. (n - 1) + 2 = n + 1
    BY <1>5
  <2> QED
    BY <1>14, <2>1, <2>2
<1>18. Len(t) = n + 1 /\ \A j \in 1..(n + 1) : t[j] = r[j]
  BY <1>2, <1>4, <1>16
<1>19. \A j \in 1..(n + 1) : u[j] = t[j]
  <2> SUFFICES ASSUME NEW j \in 1..(n + 1) PROVE u[j] = r[j]
    BY <1>18
  <2>1. CASE j = 1
    BY <1>15, <1>17, <2>1
  <2>2. CASE j = n + 1
    BY <1>15, <1>17, <2>2
  <2>3. CASE j # 1 /\ j # n + 1
    <3>1. PICK i \in 1..(n - 1) : j = 1 + i
      <4>1. j - 1 \in 1..(n - 1) /\ j = 1 + (j - 1)
        BY <1>5, <2>3
      <4> QED
        BY <4>1
    <3> QED
      BY <1>14, <1>17, <3>1
  <2> QED
    BY <2>1, <2>2, <2>3
<1>20. u = t
  BY <1>17, <1>18, <1>19
<1>21. <<m.src>> \o Reversed(m.hops) \o <<m.dst>> = m.trail
  BY <1>11, <1>12, <1>13, <1>15, <1>16, <1>20
<1> QED
  BY <1>2, <1>3, <1>6, <1>10, <1>21

-----------------------------------------------------------------------------
(* Steps.                                                                  *)

(* A packet as its host sends it. *)
Sent(f, dscp, len) ==
  [flow |-> f, at |-> LeafOf(Src[f]), dst |-> Dst[f],
   dscp |-> dscp, plen |-> len, ulen |-> len, srh |-> Absent, int |-> Absent,
   trail |-> <<Src[f], LeafOf(Src[f])>>, route |-> <<Src[f], LeafOf(Src[f])>>]

LEMMA SentIs ==
  ASSUME NEW f \in Flows, NEW dscp \in Dscps, NEW len \in Lengths
  PROVE  /\ OnRoute(Sent(f, dscp, len))
         /\ Restored(Sent(f, dscp, len)) =
              [flow |-> f, content |-> [dscp |-> dscp, bare |-> TRUE, plen |-> len, ulen |-> len]]
<1>1. PICK s \in SwitchSet : s = LeafOf(Src[f])
  BY LeafOfIs, FlowsAssumption
<1>2. Src[f] \in Nodes /\ Dst[f] \in Nodes /\ s \in Nodes
  BY <1>1, FlowsAssumption DEF Nodes
<1>3. len \in Bit16
  BY DataPlaneAssumption DEF Bit16
<1>4. PICK w : w = <<Src[f], s>>
  OBVIOUS
<1>5. w \in Seq(Nodes)
  BY <1>2, <1>4
<1>6. PICK p : p = Sent(f, dscp, len)
  OBVIOUS
<1>7. p = [flow |-> f, at |-> s, dst |-> Dst[f], dscp |-> dscp, plen |-> len, ulen |-> len,
           srh |-> Absent, int |-> Absent, trail |-> w, route |-> w]
  BY <1>1, <1>4, <1>6 DEF Sent
<1>8. p \in Packet
  BY <1>2, <1>3, <1>5, <1>7 DEF Packet
<1>9. /\ p.flow = f /\ p.at = s /\ p.dst = Dst[f] /\ p.dscp = dscp /\ p.srh = Absent
      /\ p.int = Absent /\ p.trail = w /\ p.route = w /\ p.plen = len /\ p.ulen = len
  BY <1>7
<1>10. AtSource(p)
  BY <1>1, <1>4, <1>9 DEF AtSource
<1>11. IntSize(p) = 0 /\ SrhSize(p) = 0 /\ IntSize(p) + SrhSize(p) = 0 /\ Class(p) = dscp
  BY <1>9 DEF IntSize, SrhSize, Class
<1>12. Restored(p) =
         [flow |-> f, content |-> [dscp |-> dscp, bare |-> TRUE, plen |-> len, ulen |-> len]]
  BY <1>3, <1>9, <1>11, RestoredIs, LengthIs
<1> QED
  BY <1>6, <1>8, <1>10, <1>12 DEF OnRoute

LEMMA InstallKeeps ==
  ASSUME TableOK(srv6_transit), NEW p \in AllPaths, Install(p)
  PROVE  TableOK(srv6_transit')
<1>1. PICK f \in Flows : p \in FlowPaths(f)
  BY DEF AllPaths
<1>2. PICK s \in SwitchSet, h \in Hosts, e \in {Segments(p)} :
        s = SourceSwitch(p) /\ h = Target(p) /\ e = Segments(p) /\ h = Dst[f]
  <2>1. Target(p) = Dst[f] /\ Dst[f] \in Hosts
    BY <1>1, FlowsAssumption DEF FlowPaths
  <2> QED
    BY <1>1, <2>1, OneSourceSwitch
<1>3. Len(e) \in {2, 3} /\ srv6_transit' = [srv6_transit EXCEPT ![s][h] = e]
  BY <1>2 DEF Install, Exportable
<1>4. PICK E : E = {Segments(q) : q \in AllPaths} \union {NoPath}
  OBVIOUS
<1>5. e \in E
  BY <1>2, <1>4
<1>6. srv6_transit \in [SwitchSet -> [Hosts -> E]]
  BY <1>4 DEF TableOK
<1>7. srv6_transit' \in [SwitchSet -> [Hosts -> E]]
  BY <1>3, <1>5, <1>6
<1>8. ASSUME NEW t \in SwitchSet, NEW g \in Hosts
      PROVE  srv6_transit'[t][g] = IF t = s /\ g = h THEN e ELSE srv6_transit[t][g]
  BY <1>3, <1>6
<1>9. Exported(srv6_transit')
  BY <1>1, <1>2, <1>8 DEF TableOK, Exported
<1>10. \A t \in SwitchSet, g \in Hosts :
         srv6_transit'[t][g] # NoPath => Len(srv6_transit'[t][g]) \in {2, 3}
  BY <1>3, <1>8 DEF TableOK
<1> QED
  BY <1>4, <1>7, <1>9, <1>10 DEF TableOK

(* Wherever a packet is, there is a path it heads along. *)
LEMMA AlwaysHeads ==
  ASSUME TableOK(srv6_transit), NEW p, OnRoute(p), p.at \in SwitchSet,
         NEW sampled \in BOOLEAN, sampled => FromHost(p)
  PROVE  \E r, n : Heads(p, sampled, r, n)
<1>1. CASE AtSource(p)
  BY <1>1, HeadsOff DEF OnRoute
<1>2. CASE UnderWay(p)
  <2>1. ~ FromHost(p) /\ Heads(p, FALSE, p.route, Len(p.trail))
    BY <1>2, HeadsOn DEF OnRoute
  <2>2. sampled = FALSE
    BY <2>1
  <2> QED
    BY <2>1, <2>2
<1> QED
  BY <1>1, <1>2 DEF OnRoute

LEMMA ForwardKeeps ==
  ASSUME IInv, NEW k \in Slots, NEW sampled \in BOOLEAN, Forward(k, sampled)
  PROVE  LET w == Moved(packets[k], sampled)
         IN  /\ packets' = [packets EXCEPT ![k] = w]
             /\ OnRoute(w) /\ Restored(w) = Restored(packets[k])
             /\ ReportTellsRoute'
<1>1. PICK p : p = packets[k]
  OBVIOUS
<1>2. /\ p # Idle /\ p.at \in SwitchSet /\ (sampled => FromHost(p))
      /\ packets' = [packets EXCEPT ![k] = Moved(p, sampled)]
      /\ report' = IF Sunk(p, sampled) /\ p.int # Absent
                   THEN MakeReport(IntTransit(p.at, p), TrailOn(p, sampled))
                   ELSE report
  BY <1>1, ForwardIs
<1>3. OnRoute(p) /\ p \in Packet
  BY <1>1, <1>2 DEF IInv, OnRoute
<1>4. PICK r, n : Heads(p, sampled, r, n)
  BY <1>2, <1>3, AlwaysHeads DEF IInv
<1>5. OnRoute(Moved(p, sampled)) /\ Restored(Moved(p, sampled)) = Restored(p)
  BY <1>3, <1>4, MovedKeeps
<1>6. ReportTellsRoute'
  <2>1. CASE Sunk(p, sampled) /\ p.int # Absent
    BY <1>2, <1>3, <1>4, <2>1, ReportTold DEF ReportTellsRoute
  <2>2. CASE ~ (Sunk(p, sampled) /\ p.int # Absent)
    BY <1>2, <2>2 DEF IInv, ReportTellsRoute
  <2> QED
    BY <2>1, <2>2
<1> QED
  BY <1>1, <1>2, <1>5, <1>6

LEMMA InitHolds == Init => IInv
<1> SUFFICES ASSUME Init PROVE IInv
  OBVIOUS
<1>1. TableOK(srv6_transit)
  BY DEF Init, TableOK, Exported
<1>2. packets \in [Slots -> Packet \union {Idle}] /\ \A k \in Slots : packets[k] = Idle
  BY DEF Init
<1>3. ReportTellsRoute
  BY DEF Init, ReportTellsRoute
<1> QED
  BY <1>1, <1>2, <1>3 DEF IInv

(* A slot that changes holds a packet on its route or none. *)
LEMMA SlotKeeps ==
  ASSUME IInv, NEW k \in Slots, NEW w, OnRoute(w) \/ w = Idle,
         packets' = [packets EXCEPT ![k] = w]
  PROVE  /\ packets' \in [Slots -> Packet \union {Idle}]
         /\ \A j \in Slots : packets'[j] # Idle => OnRoute(packets'[j])
<1>1. w \in Packet \union {Idle}
  BY DEF OnRoute
<1>2. packets' \in [Slots -> Packet \union {Idle}]
  BY <1>1 DEF IInv
<1>3. \A j \in Slots : packets'[j] = IF j = k THEN w ELSE packets[j]
  BY DEF IInv
<1> QED
  BY <1>2, <1>3 DEF IInv

LEMMA StepKeeps == IInv /\ [Next]_vars => IInv'
<1> SUFFICES ASSUME IInv, [Next]_vars PROVE IInv'
  OBVIOUS
<1>1. ASSUME NEW p \in AllPaths, Install(p) PROVE IInv'
  <2>1. TableOK(srv6_transit')
    BY <1>1, InstallKeeps DEF IInv
  <2>2. packets' = packets /\ report' = report
    BY <1>1 DEF Install
  <2> QED
    BY <2>1, <2>2 DEF IInv, ReportTellsRoute, OnRoute, AtSource, UnderWay
<1>2. ASSUME NEW k \in Slots, NEW f \in Flows, NEW dscp \in Dscps, NEW len \in Lengths,
             Send(k, f, dscp, len)
      PROVE  IInv'
  <2>1. /\ packets' = [packets EXCEPT ![k] = Sent(f, dscp, len)]
        /\ srv6_transit' = srv6_transit /\ report' = report
    BY <1>2 DEF Send, Sent
  <2>2. OnRoute(Sent(f, dscp, len))
    BY SentIs
  <2>3. /\ packets' \in [Slots -> Packet \union {Idle}]
        /\ \A j \in Slots : packets'[j] # Idle => OnRoute(packets'[j])
    BY <2>1, <2>2, SlotKeeps
  <2> QED
    BY <2>1, <2>3 DEF IInv, ReportTellsRoute
<1>3. ASSUME NEW k \in Slots, NEW sampled \in BOOLEAN, Forward(k, sampled) PROVE IInv'
  <2>1. /\ packets' = [packets EXCEPT ![k] = Moved(packets[k], sampled)]
        /\ OnRoute(Moved(packets[k], sampled)) /\ ReportTellsRoute'
    BY <1>3, ForwardKeeps
  <2>2. srv6_transit' = srv6_transit
    BY <1>3 DEF Forward
  <2>3. /\ packets' \in [Slots -> Packet \union {Idle}]
        /\ \A j \in Slots : packets'[j] # Idle => OnRoute(packets'[j])
    BY <2>1, SlotKeeps
  <2> QED
    BY <2>1, <2>2, <2>3 DEF IInv
<1>4. ASSUME NEW k \in Slots, Lose(k) \/ Receive(k) PROVE IInv'
  <2>1. /\ packets' = [packets EXCEPT ![k] = Idle]
        /\ srv6_transit' = srv6_transit /\ report' = report
    BY <1>4 DEF Lose, Receive
  <2>2. /\ packets' \in [Slots -> Packet \union {Idle}]
        /\ \A j \in Slots : packets'[j] # Idle => OnRoute(packets'[j])
    BY <2>1, SlotKeeps
  <2> QED
    BY <2>1, <2>2 DEF IInv, ReportTellsRoute
<1>5. CASE UNCHANGED vars
  BY <1>5 DEF vars, IInv, ReportTellsRoute
<1> QED
  BY <1>1, <1>2, <1>3, <1>4, <1>5 DEF Next

LEMMA Invariant == Spec => []IInv
  BY InitHolds, StepKeeps, PTL DEF Spec

-----------------------------------------------------------------------------
(* Safety.                                                                 *)

(* The stacks of headers.p4 are never overrun, and the length in the INT   *)
(* shim says how much metadata a packet carries.                           *)
THEOREM TypeCorrect == Spec => []TypeOK
<1>1. IInv => TypeOK
  <2> SUFFICES ASSUME IInv PROVE TypeOK
    OBVIOUS
  <2>1. srv6_transit \in [SwitchSet -> [Hosts -> {Segments(p) : p \in AllPaths} \union {NoPath}]]
    BY DEF IInv, TableOK
  <2>2. ASSUME NEW p, OnRoute(p)
        PROVE  /\ p.flow \in Flows /\ p.at \in Nodes /\ p.dst \in Nodes
               /\ p.dscp \in Dscps \union {DscpInt} /\ p.plen \in Bit16 /\ p.ulen \in Bit16
               /\ p.srh # Absent => /\ Len(p.srh.list) \in 2..3
                                    /\ p.srh.left \in 1..(Len(p.srh.list) - 1)
               /\ p.int # Absent => /\ p.int.remaining = MaxHop - Len(p.int.hops)
                                    /\ p.int.len = 3 + 2 * Len(p.int.hops)
                                    /\ p.dscp = DscpInt
    <3>1. /\ p.flow \in Flows /\ p.at \in Nodes /\ p.dst \in Nodes
          /\ p.dscp \in Dscps \union {DscpInt} /\ p.plen \in Bit16 /\ p.ulen \in Bit16
      BY <2>2 DEF OnRoute, Packet
    <3>2. CASE AtSource(p)
      BY <3>1, <3>2 DEF AtSource
    <3>3. CASE UnderWay(p)
      <4>1. PICK r, n : r = p.route /\ n = Len(p.trail)
        OBVIOUS
      <4>2. /\ r \in FlowPaths(p.flow) /\ Len(r) <= 5 /\ n \in 3..Len(r)
            /\ HeaderFits(p, r, n) /\ Recorded(p, r, n)
        BY <3>3, <4>1 DEF UnderWay
      <4>3. PICK len \in Nat : len = Len(r) /\ len <= 5 /\ n \in 3..len
        BY <3>1, <4>2, PathNodes
      <4>4. ASSUME p.srh # Absent
            PROVE  /\ Len(p.srh.list) \in 2..3
                   /\ p.srh.left \in 1..(Len(p.srh.list) - 1)
        <5>1. Len(p.srh.list) = len - 2 /\ p.srh.left = len - n /\ n # len
          BY <4>2, <4>3, <4>4 DEF HeaderFits
        <5>2. len - 2 \in 2..3 /\ len - n \in 1..((len - 2) - 1)
          BY <4>3, <5>1
        <5> QED
          BY <5>1, <5>2
      <4>5. ASSUME p.int # Absent
            PROVE  /\ p.int.remaining = MaxHop - Len(p.int.hops)
                   /\ p.int.len = 3 + 2 * Len(p.int.hops)
                   /\ p.dscp = DscpInt
        BY <4>2, <4>5 DEF Recorded
      <4> QED
        BY <3>1, <4>4, <4>5
    <3> QED
      BY <2>2, <3>2, <3>3 DEF OnRoute
  <2> QED
    BY <2>1, <2>2 DEF IInv, TypeOK
<1> QED
  BY Invariant, <1>1, PTL

(* Whatever the collector installs while a packet is under way, the packet *)
(* stays on the path its source leaf chose and reaches the end of it.      *)
THEOREM RouteFollowed == Spec => []FollowsSourceRoute
<1>1. IInv => FollowsSourceRoute
  <2> SUFFICES ASSUME IInv, NEW k \in Slots, packets[k] # Idle
               PROVE  LET p == packets[k]
                      IN  /\ p.trail = SubSeq(p.route, 1, Len(p.trail))
                          /\ p.at \in Hosts => p.trail = p.route
    BY DEF FollowsSourceRoute
  <2>1. PICK p : p = packets[k]
    OBVIOUS
  <2>2. OnRoute(p)
    BY <2>1 DEF IInv
  <2>3. PICK f \in Flows : f = p.flow
    BY <2>2 DEF OnRoute, Packet
  <2>4. CASE AtSource(p)
    <3>1. PICK a \in Nodes, b \in SwitchSet : a = Src[f] /\ b = LeafOf(Src[f])
      BY LeafOfIs, FlowsAssumption DEF Nodes
    <3>2. b \in Nodes /\ b \notin Hosts
      BY TopologyAssumption DEF Nodes
    <3>3. PICK w : w = <<a, b>>
      OBVIOUS
    <3>4. w \in Seq(Nodes) /\ Len(w) = 2 /\ w[1] = a /\ w[2] = b
      BY <3>2, <3>3
    <3>5. SubSeq(w, 1, 2) = w
      <4>1. w \in Seq(Nodes) /\ Len(w) >= 2
        BY ONLY <3>4
      <4>2. SubSeq(w, 1, 2) = <<w[1], w[2]>>
        BY ONLY <4>1, FirstTwo
      <4>3. <<w[1], w[2]>> = <<a, b>>
        BY <3>4
      <4> QED
        BY <3>3, <4>2, <4>3
    <3>6. p.trail = w /\ p.route = w /\ p.at = b
      BY <2>3, <2>4, <3>1, <3>3 DEF AtSource
    <3> QED
      BY <2>1, <3>2, <3>4, <3>5, <3>6
  <2>5. CASE UnderWay(p)
    <3>1. PICK r, n : r = p.route /\ n = Len(p.trail)
      OBVIOUS
    <3>2. /\ r \in FlowPaths(f) /\ n \in 3..Len(r) /\ p.trail = SubSeq(r, 1, n) /\ p.at = r[n]
      BY <2>3, <2>5, <3>1 DEF UnderWay
    <3>3. r \in Seq(Nodes) /\ Len(r) \in Nat
      BY <3>2, PathNodes
    <3>4. p.at \in Hosts => n = Len(r)
      <4>1. n \in 1..Len(r) /\ n # 1
        BY <3>2, <3>3
      <4> QED
        BY <3>2, <4>1, PathNodes
    <3>5. SubSeq(r, 1, Len(r)) = r
      BY <3>3
    <3> QED
      BY <2>1, <3>1, <3>2, <3>4, <3>5
  <2> QED
    BY <2>2, <2>4, <2>5 DEF OnRoute
<1> QED
  BY Invariant, <1>1, PTL

(* A report, rebuilt as the collector does, is the path its packet took.   *)
THEOREM ReportsTellRoute == Spec => []ReportTellsRoute
<1>1. IInv => ReportTellsRoute
  BY DEF IInv
<1> QED
  BY Invariant, <1>1, PTL

-----------------------------------------------------------------------------
(* Refinement.                                                             *)

InFlight == [k \in Slots |-> IF packets[k] = Idle THEN Idle ELSE Restored(packets[k])]

(* What a host would make of a packet under way is a packet.               *)
LEMMA RestoredTyped ==
  ASSUME NEW p, OnRoute(p)
  PROVE  Restored(p) \in HostPacket /\ Restored(p) # Idle
<1>1. p \in Packet
  BY DEF OnRoute
<1>2. Class(p) \in Dscps
  <2>1. CASE p.int = Absent
    BY <2>1 DEF OnRoute, AtSource, UnderWay, Recorded, Class
  <2>2. CASE p.int # Absent
    BY <1>1, <2>2 DEF Packet, IntHeader, Class
  <2> QED
    BY <2>1, <2>2
<1>3. /\ Minus(p.plen, IntSize(p) + SrhSize(p)) \in Bit16
      /\ Minus(p.ulen, IntSize(p)) \in Bit16
  <2>1. PICK x \in Int : x = IntSize(p) + SrhSize(p)
    BY <1>1, SizesAreInt
  <2> QED
    BY <1>1, <2>1, SizesAreInt, LengthTyped
<1>4. Restored(p) \in HostPacket
  BY <1>1, <1>2, <1>3, RestoredIs DEF HostPacket, Packet
<1> QED
  BY <1>4, SentinelAssumption

(* A slot that changes changes InFlight there alone.                       *)
LEMMA InFlightKeeps ==
  ASSUME IInv, NEW k \in Slots, NEW w, OnRoute(w) \/ w = Idle,
         packets' = [packets EXCEPT ![k] = w]
  PROVE  InFlight' = [InFlight EXCEPT ![k] = IF w = Idle THEN Idle ELSE Restored(w)]
<1>1. \A j \in Slots : packets'[j] = IF j = k THEN w ELSE packets[j]
  BY DEF IInv
<1>2. InFlight' = [j \in Slots |-> IF packets'[j] = Idle THEN Idle ELSE Restored(packets'[j])]
  BY DEF InFlight, Restored, Content
<1>3. \A j \in Slots : InFlight'[j] =
        IF j = k THEN IF w = Idle THEN Idle ELSE Restored(w) ELSE InFlight[j]
  BY <1>1, <1>2 DEF InFlight
<1> QED
  BY <1>2, <1>3 DEF InFlight

(* At a host a packet has no header left.                                  *)
LEMMA Arrived ==
  ASSUME NEW p, OnRoute(p), p.at \in Hosts
  PROVE  /\ p.srh = Absent /\ p.int = Absent /\ p.at = Dst[p.flow]
         /\ Content(p, TRUE, p.dscp, [plen |-> 0, ulen |-> 0]) = Restored(p)
<1>1. PICK f \in Flows : f = p.flow
  BY DEF OnRoute, Packet
<1>2. UnderWay(p)
  <2>1. LeafOf(Src[f]) \notin Hosts
    BY LeafOfIs, FlowsAssumption, TopologyAssumption
  <2> QED
    BY <1>1, <2>1 DEF OnRoute, AtSource
<1>3. PICK r, n : r = p.route /\ n = Len(p.trail)
  OBVIOUS
<1>4. /\ r \in FlowPaths(f) /\ n \in 3..Len(r) /\ p.at = r[n]
      /\ HeaderFits(p, r, n) /\ (n = Len(r) => p.int = Absent)
  BY <1>1, <1>2, <1>3 DEF UnderWay
<1>5. n = Len(r) /\ r[n] = Dst[f]
  <2>1. Len(r) \in Nat /\ n \in 1..Len(r) /\ n # 1
    BY <1>4, PathNodes
  <2> QED
    BY <1>4, <2>1, PathNodes
<1>6. p.srh = Absent /\ p.int = Absent
  BY <1>4, <1>5 DEF HeaderFits
<1>7. Content(p, TRUE, p.dscp, [plen |-> 0, ulen |-> 0]) = Restored(p)
  BY <1>6 DEF Restored, Content
<1> QED
  BY <1>1, <1>4, <1>5, <1>6, <1>7

LEMMA StepRefines == IInv /\ Next => [Net!Next]_<<InFlight, received>>
<1> SUFFICES ASSUME IInv, Next PROVE Net!Next \/ UNCHANGED <<InFlight, received>>
  OBVIOUS
<1>1. \A j \in Slots : InFlight[j] = IF packets[j] = Idle THEN Idle ELSE Restored(packets[j])
  BY DEF InFlight
<1>2. ASSUME NEW p \in AllPaths, Install(p) PROVE UNCHANGED <<InFlight, received>>
  BY <1>2 DEF Install, InFlight, Restored, Content
<1>3. ASSUME NEW k \in Slots, NEW f \in Flows, NEW dscp \in Dscps, NEW len \in Lengths,
             Send(k, f, dscp, len)
      PROVE  Net!Next
  <2>1. PICK w : w = Sent(f, dscp, len)
    OBVIOUS
  <2>2. /\ packets[k] = Idle /\ packets' = [packets EXCEPT ![k] = w]
        /\ received' = received
    BY <1>3, <2>1 DEF Send, Sent
  <2>3. PICK p : p = [flow |-> f, content |->
                        [dscp |-> dscp, bare |-> TRUE, plen |-> len, ulen |-> len]]
    OBVIOUS
  <2>4. OnRoute(w) /\ Restored(w) = p /\ w # Idle
    BY <2>1, <2>3, SentIs, SentinelAssumption DEF OnRoute
  <2>5. InFlight' = [InFlight EXCEPT ![k] = p] /\ InFlight[k] = Idle
    BY <1>1, <2>2, <2>4, InFlightKeeps
  <2>6. p \in Net!NetPacket
    BY <2>3 DEF Net!NetPacket
  <2>7. Net!Send(k, p)
    BY <2>2, <2>5 DEF Net!Send, InFlight
  <2> QED
    BY <2>6, <2>7 DEF Net!Next
<1>4. ASSUME NEW k \in Slots, NEW sampled \in BOOLEAN, Forward(k, sampled)
      PROVE  UNCHANGED <<InFlight, received>>
  <2>1. PICK w : w = Moved(packets[k], sampled)
    OBVIOUS
  <2>2. /\ packets' = [packets EXCEPT ![k] = w]
        /\ OnRoute(w) /\ Restored(w) = Restored(packets[k])
    BY <1>4, <2>1, ForwardKeeps
  <2>3. received' = received /\ packets[k] # Idle /\ w # Idle
    BY <1>4, <2>2, SentinelAssumption DEF Forward, OnRoute
  <2>4. InFlight' = [InFlight EXCEPT ![k] = Restored(packets[k])]
    BY <2>2, <2>3, InFlightKeeps
  <2>5. InFlight[k] = Restored(packets[k])
    BY <1>1, <2>3
  <2>6. InFlight' = InFlight
    BY <2>4, <2>5 DEF InFlight
  <2> QED
    BY <2>3, <2>6
<1>5. ASSUME NEW k \in Slots, Lose(k) PROVE Net!Next
  <2>1. /\ packets[k] # Idle /\ packets' = [packets EXCEPT ![k] = Idle]
        /\ received' = received
    BY <1>5 DEF Lose
  <2>2. InFlight' = [InFlight EXCEPT ![k] = Idle]
    BY <2>1, InFlightKeeps
  <2>3. InFlight[k] # Idle
    BY <1>1, <2>1, RestoredTyped DEF IInv
  <2>4. Net!Lose(k)
    BY <2>1, <2>2, <2>3 DEF Net!Lose, InFlight
  <2> QED
    BY <2>4 DEF Net!Next
<1>6. ASSUME NEW k \in Slots, Receive(k) PROVE Net!Next
  <2>1. PICK p : p = packets[k]
    OBVIOUS
  <2>2. /\ p # Idle /\ p.at \in Hosts /\ packets' = [packets EXCEPT ![k] = Idle]
        /\ received' = [at |-> p.at,
                        packet |-> Content(p, p.srh = Absent /\ p.int = Absent, p.dscp,
                                           [plen |-> 0, ulen |-> 0])]
    BY <1>6, <2>1 DEF Receive
  <2>3. OnRoute(p)
    BY <2>1, <2>2 DEF IInv
  <2>4. /\ p.srh = Absent /\ p.int = Absent /\ p.at = Dst[p.flow]
        /\ Content(p, TRUE, p.dscp, [plen |-> 0, ulen |-> 0]) = Restored(p)
    BY <2>2, <2>3, Arrived
  <2>5. received' = [at |-> Dst[p.flow], packet |-> Restored(p)]
    <3>1. (p.srh = Absent /\ p.int = Absent) = TRUE
      BY <2>4
    <3> QED
      BY <2>2, <2>4, <3>1
  <2>6. InFlight[k] = Restored(p) /\ InFlight[k] # Idle
    BY <1>1, <2>1, <2>2, <2>3, RestoredTyped
  <2>7. InFlight[k].flow = p.flow
    <3>1. Restored(p).flow = p.flow
      BY DEF Restored, Content
    <3> QED
      BY <2>6, <3>1
  <2>8. InFlight' = [InFlight EXCEPT ![k] = Idle]
    BY <2>2, InFlightKeeps
  <2>9. Net!Deliver(k)
    BY <2>5, <2>6, <2>7, <2>8 DEF Net!Deliver, InFlight
  <2> QED
    BY <2>9 DEF Net!Next
<1> QED
  BY <1>2, <1>3, <1>4, <1>5, <1>6 DEF Next

(* The fabric is a network that loses packets or delivers them to their    *)
(* target as they were sent: segment routing and telemetry are invisible.  *)
THEOREM FabricIsNetwork == Spec => DeliversAsSent
<1>1. Init => Net!Init
  BY DEF Init, Net!Init
<1>2. IInv /\ [Next]_vars => [Net!Next]_<<InFlight, received>>
  <2>1. SUFFICES ASSUME IInv, [Next]_vars
                 PROVE  Net!Next \/ UNCHANGED <<InFlight, received>>
    OBVIOUS
  <2>2. CASE Next
    BY <2>1, <2>2, StepRefines
  <2>3. CASE UNCHANGED vars
    BY <2>3 DEF vars, InFlight, Restored, Content
  <2> QED
    BY <2>1, <2>2, <2>3
<1> QED
  BY Invariant, <1>1, <1>2, PTL DEF Spec, DeliversAsSent, Net!Spec, InFlight
=============================================================================
