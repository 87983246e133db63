--------------------------- MODULE FlowletProofs ---------------------------
(***************************************************************************)
(* Theorems about Flowlet, for all flows and collisions, every width of    *)
(* the time stamps, every number of packets in the pipeline, and every     *)
(* timeout no shorter than the time a packet spends there.                 *)
(***************************************************************************)
EXTENDS Flowlet, TLAPS

-----------------------------------------------------------------------------
(* Differences of time stamps.                                             *)

LEMMA Stamp ==
  ASSUME NEW a \in Nat
  PROVE  /\ a % Modulus \in Stamps /\ a \div Modulus \in Nat
         /\ a = Modulus * (a \div Modulus) + (a % Modulus)
<1>1. a % Modulus \in Stamps
  BY FlowletAssumption DEF Stamps
<1>2. a = Modulus * (a \div Modulus) + (a % Modulus)
  BY FlowletAssumption
<1>3. a \div Modulus \in Nat
  BY FlowletAssumption
<1> QED
  BY <1>1, <1>2, <1>3

LEMMA StampDifference ==
  ASSUME NEW r \in Stamps, NEW q \in Stamps
  PROVE  (r - q) % Modulus = IF q <= r THEN r - q ELSE r - q + Modulus
BY SMT, FlowletAssumption DEF Stamps

(* A stamp that wrapped makes a gap look shorter, never longer; one that   *)
(* did not tells it exactly.                                               *)
LEMMA ElapsedIsGap ==
  ASSUME NEW a \in Nat, NEW b \in Nat, b <= a
  PROVE  /\ Elapsed(a, b % Modulus) <= a - b
         /\ a - b < Modulus => Elapsed(a, b % Modulus) = a - b
<1> DEFINE r == a % Modulus
           q == b % Modulus
           ra == a \div Modulus
           qb == b \div Modulus
<1>1. /\ r \in Stamps /\ ra \in Nat /\ a = Modulus * ra + r
      /\ q \in Stamps /\ qb \in Nat /\ b = Modulus * qb + q
  BY Stamp
<1>2. Elapsed(a, q) = IF q <= r THEN r - q ELSE r - q + Modulus
  BY <1>1, StampDifference DEF Elapsed
<1> HIDE DEF r, q, ra, qb
<1>3. a - b = Modulus * (ra - qb) + (r - q)
  BY <1>1, FlowletAssumption DEF Stamps
<1>4. PICK k \in Int : k = ra - qb
  BY <1>1
<1>5. k < 0 => Modulus * k <= -Modulus
  BY FlowletAssumption
<1>6. k >= 1 => Modulus * k >= Modulus
  BY FlowletAssumption
<1>7. k >= 2 => Modulus * k >= 2 * Modulus
  BY FlowletAssumption
<1>8. k = 0 => Modulus * k = 0
  BY FlowletAssumption
<1>9. k = 1 => Modulus * k = Modulus
  BY FlowletAssumption
<1>10. PICK m \in Int : m = Modulus * k
  BY FlowletAssumption
<1>11. a - b = m + (r - q)
  BY <1>3, <1>4, <1>10
<1>12. r - q < Modulus /\ q - r < Modulus /\ r \in Int /\ q \in Int /\ Modulus \in Int
  BY <1>1, FlowletAssumption DEF Stamps
<1>13. CASE q <= r
  <2>1. k >= 0
    BY <1>5, <1>10, <1>11, <1>12
  <2> QED
    BY <1>2, <1>6, <1>8, <1>10, <1>11, <1>12, <1>13, <2>1 DEF q
<1>14. CASE r < q
  <2>1. k >= 1
    BY <1>5, <1>8, <1>10, <1>11, <1>12, <1>14
  <2>2. a - b < Modulus => k < 2
    BY <1>7, <1>10, <1>11, <1>12
  <2> QED
    BY <1>2, <1>6, <1>9, <1>10, <1>11, <1>12, <1>14, <2>1, <2>2 DEF q
<1> QED
  BY <1>12, <1>13, <1>14

-----------------------------------------------------------------------------
(* The inductive invariant.                                                *)

Waiting == {s \in Slots : slot[s] # Idle}

(* The registers hold the instants of the last packet and of the last      *)
(* request, modulo the width of a stamp.                                   *)
RegistersTrackTime ==
  \A r \in Registers :
    /\ flowlet_time_stamp[r] = seen[r] % Modulus
    /\ feedback_ts[r] = asked[r] % Modulus

(* The clock is ahead of what the registers stand for.                     *)
ClockAhead == \A r \in Registers : asked[r] <= seen[r] /\ seen[r] <= now

(* A packet in the pipeline came no longer than Latency ago, it is the last *)
(* or an earlier one of its register, and the stamp it took away is that   *)
(* of the packet before it.                                                *)
PacketsTrackTime ==
  \A s \in Waiting :
    /\ slot[s].at <= now /\ now <= slot[s].at + Latency
    /\ slot[s].at <= seen[slot[s].register]
    /\ slot[s].pause <= slot[s].at
    /\ slot[s].last_stamp = (slot[s].at - slot[s].pause) % Modulus

(* The pauses of two packets of one register do not overlap.               *)
PausesApart ==
  \A s, t \in Waiting :
    s # t /\ slot[s].register = slot[t].register =>
      \/ slot[s].at <= slot[t].at - slot[t].pause
      \/ slot[t].at <= slot[s].at - slot[s].pause

(* While a packet that starts a flowlet is in the pipeline, its register   *)
(* does not ask: what the packet read is still true.                       *)
FeedbackFresh ==
  \A s \in Waiting :
    StartsFlowlet(slot[s]) =>
      /\ slot[s].feedback = asked[slot[s].register] % Modulus
      /\ asked[slot[s].register] <= slot[s].at

IInv ==
  /\ TypeOK /\ RegistersTrackTime /\ ClockAhead
  /\ PacketsTrackTime /\ PausesApart /\ FeedbackFresh

(* Facts of one state. *)
LEMMA StartIsPause ==
  ASSUME IInv, NEW s \in Waiting
  PROVE  /\ slot[s] \in Packet
         /\ Elapsed(slot[s].at, slot[s].last_stamp) <= slot[s].pause
         /\ slot[s].pause < Modulus =>
              Elapsed(slot[s].at, slot[s].last_stamp) = slot[s].pause
         /\ StartsFlowlet(slot[s]) => slot[s].pause > Timeout
<1> DEFINE p == slot[s]
<1>1. p \in Packet
  BY DEF IInv, TypeOK, Waiting
<1>2. p.at \in Nat /\ p.pause \in Nat /\ p.last_stamp \in Stamps
  BY <1>1, FlowletAssumption DEF Packet, Times
<1>3. p.pause <= p.at /\ p.last_stamp = (p.at - p.pause) % Modulus
  BY DEF IInv, PacketsTrackTime
<1> HIDE DEF p
<1>4. p.at - p.pause \in Nat /\ p.at - p.pause <= p.at
  BY <1>2, <1>3
<1>5. p.at - (p.at - p.pause) = p.pause
  BY <1>2
<1>6. /\ Elapsed(p.at, p.last_stamp) <= p.pause
      /\ p.pause < Modulus => Elapsed(p.at, p.last_stamp) = p.pause
  BY <1>2, <1>3, <1>4, <1>5, ElapsedIsGap
<1>7. Elapsed(p.at, p.last_stamp) \in Int
  BY <1>2, FlowletAssumption DEF Elapsed, Stamps
<1>8. StartsFlowlet(p) => p.pause > Timeout
  BY <1>2, <1>6, <1>7, FlowletAssumption DEF StartsFlowlet
<1> QED
  BY <1>1, <1>6, <1>8 DEF p

(* A pause that ends with a packet in the pipeline contains no other one   *)
(* that is there too, for it would be longer ago than Latency.             *)
LEMMA OneStarts == IInv => OneFlowletStart
<1> SUFFICES ASSUME IInv, NEW s \in Slots, NEW t \in Slots,
                    slot[s] # Idle, slot[t] # Idle, s # t,
                    slot[s].register = slot[t].register,
                    StartsFlowlet(slot[s]), StartsFlowlet(slot[t])
             PROVE  FALSE
  BY DEF OneFlowletStart
<1>1. s \in Waiting /\ t \in Waiting
  BY DEF Waiting
<1>2. /\ slot[s].pause > Timeout /\ slot[t].pause > Timeout
      /\ slot[s] \in Packet /\ slot[t] \in Packet
  BY <1>1, StartIsPause
<1>3. \/ slot[s].at <= slot[t].at - slot[t].pause
      \/ slot[t].at <= slot[s].at - slot[s].pause
  BY <1>1 DEF IInv, PausesApart
<1>4. /\ slot[s].at <= now /\ now <= slot[s].at + Latency
      /\ slot[t].at <= now /\ now <= slot[t].at + Latency
  BY <1>1 DEF IInv, PacketsTrackTime
<1>5. /\ slot[s].at \in Nat /\ slot[s].pause \in Nat /\ slot[t].at \in Nat
      /\ slot[t].pause \in Nat /\ now \in Nat
  BY <1>2, FlowletAssumption DEF Packet, Times, IInv, TypeOK
<1> QED
  BY <1>2, <1>3, <1>4, <1>5, FlowletAssumption

LEMMA InitInvariant == Init => IInv
<1> SUFFICES ASSUME Init PROVE IInv
  OBVIOUS
<1>1. 0 % Modulus = 0 /\ 0 \in Stamps /\ 0 \in Times
  BY FlowletAssumption DEF Stamps, Times
<1>2. Waiting = {}
  BY DEF Init, Waiting
<1> QED
  BY <1>1, <1>2 DEF Init, IInv, TypeOK, RegistersTrackTime, ClockAhead,
     PacketsTrackTime, PausesApart, FeedbackFresh

(* What a packet's first section leaves. *)
LEMMA ReadInvariant ==
  ASSUME IInv, NEW f \in Flows, NEW s \in Slots, ReadFlowletRegisters(f, s)
  PROVE  IInv'
<1> DEFINE r == RegisterOf[f]
           p == [register |-> r, at |-> now, last_stamp |-> flowlet_time_stamp[r],
                 feedback |-> feedback_ts[r], pause |-> now - seen[r]]
<1>1. r \in Registers
  BY FlowletAssumption
<1>2. /\ now \in Nat /\ now \in Times /\ seen[r] \in Nat /\ asked[r] \in Nat
      /\ asked[r] <= seen[r] /\ seen[r] <= now /\ Latency \in Nat
  BY <1>1, FlowletAssumption DEF IInv, TypeOK, ClockAhead, Times
<1>3. now % Modulus \in Stamps
  BY <1>2, Stamp
<1>4. now - seen[r] \in Times
  BY <1>2, FlowletAssumption DEF Times
<1>5. p \in Packet /\ p # Idle
  BY <1>1, <1>2, <1>4, FlowletAssumption DEF Packet, IInv, TypeOK
<1>6. /\ slot[s] = Idle
      /\ slot' = [slot EXCEPT ![s] = p]
      /\ flowlet_time_stamp' = [flowlet_time_stamp EXCEPT ![r] = now % Modulus]
      /\ seen' = [seen EXCEPT ![r] = now]
      /\ UNCHANGED <<now, feedback_ts, asked>>
  BY DEF ReadFlowletRegisters
<1>7. /\ p.at = now /\ p.register = r /\ p.pause = now - seen[r]
      /\ p.feedback = feedback_ts[r] /\ p.last_stamp = flowlet_time_stamp[r]
  OBVIOUS
<1> HIDE DEF p, r
<1>8. Waiting' = Waiting \union {s} /\ s \notin Waiting
  BY <1>5, <1>6 DEF Waiting, IInv, TypeOK
<1>9. slot'[s] = p /\ \A t \in Waiting : slot'[t] = slot[t]
  BY <1>6, <1>8 DEF Waiting, IInv, TypeOK
<1>10. TypeOK'
  BY <1>1, <1>2, <1>3, <1>5, <1>6 DEF IInv, TypeOK
<1>11. RegistersTrackTime'
  BY <1>1, <1>6 DEF IInv, TypeOK, RegistersTrackTime
<1>12. \A q \in Registers : seen[q] <= seen'[q] /\ seen'[q] \in Nat /\ seen[q] \in Nat
  BY <1>1, <1>2, <1>6, FlowletAssumption DEF IInv, TypeOK, Times
<1>13. ClockAhead'
  BY <1>1, <1>2, <1>6 DEF IInv, TypeOK, ClockAhead
<1>14. now - p.pause = seen[r]
  BY <1>2, <1>7
<1>15. PacketsTrackTime'
  <2>1. ASSUME NEW t \in Waiting
        PROVE  slot[t].at <= seen'[slot[t].register]
    <3>1. /\ slot[t] \in Packet /\ slot[t].at <= seen[slot[t].register]
      BY <2>1, StartIsPause DEF IInv, PacketsTrackTime
    <3>2. slot[t].register \in Registers /\ slot[t].at \in Nat
      BY <3>1, FlowletAssumption DEF Packet, Times
    <3> QED
      BY <3>1, <3>2, <1>12
  <2>2. \A t \in Waiting : slot'[t].at <= seen'[slot'[t].register]
    BY <1>9, <2>1
  <2>3. seen'[r] = now
    BY <1>1, <1>6 DEF IInv, TypeOK
  <2>4. p.last_stamp = (now - p.pause) % Modulus
    BY <1>1, <1>7, <1>14 DEF IInv, RegistersTrackTime
  <2>5. p.pause <= now
    BY <1>2, <1>7
  <2>6. now <= now + Latency
    BY <1>2
  <2> QED
    BY <1>2, <1>6, <1>7, <1>8, <1>9, <2>2, <2>3, <2>4, <2>5, <2>6
       DEF IInv, PacketsTrackTime
<1>16. \A t \in Waiting : slot[t].register = r => slot[t].at <= p.at - p.pause
  BY <1>7, <1>14 DEF IInv, PacketsTrackTime
<1>17. PausesApart'
  BY <1>7, <1>8, <1>9, <1>16 DEF IInv, PausesApart
<1>18. FeedbackFresh'
  <2>1. p.feedback = asked[r] % Modulus
    BY <1>1, <1>7 DEF IInv, RegistersTrackTime
  <2>2. asked[r] <= p.at
    BY <1>2, <1>7
  <2> QED
    BY <1>6, <1>7, <1>8, <1>9, <2>1, <2>2 DEF IInv, FeedbackFresh, StartsFlowlet
<1> QED
  BY <1>10, <1>11, <1>13, <1>15, <1>17, <1>18 DEF IInv

(* A tick is refused while it would keep a packet longer than Latency. *)
LEMMA TickInvariant ==
  ASSUME IInv, Tick
  PROVE  IInv'
<1>1. /\ now' = now + 1 /\ now' \in Times /\ now \in Nat
      /\ \A s \in Waiting : now < slot[s].at + Latency
      /\ UNCHANGED <<flowlet_time_stamp, feedback_ts, slot, seen, asked>>
  BY FlowletAssumption DEF Tick, Waiting, IInv, TypeOK, Times
<1>2. TypeOK' /\ RegistersTrackTime' /\ PausesApart' /\ FeedbackFresh'
  BY <1>1 DEF IInv, TypeOK, RegistersTrackTime, PausesApart, FeedbackFresh,
     Waiting, StartsFlowlet
<1>3. ClockAhead'
  BY <1>1, FlowletAssumption DEF IInv, TypeOK, ClockAhead, Times
<1>4. PacketsTrackTime'
  <2>1. ASSUME NEW s \in Waiting
        PROVE  slot[s].at <= now + 1 /\ now + 1 <= slot[s].at + Latency
    <3>1. slot[s] \in Packet /\ slot[s].at <= now /\ now < slot[s].at + Latency
      BY <1>1, <2>1, StartIsPause DEF IInv, PacketsTrackTime
    <3>2. slot[s].at \in Nat /\ Latency \in Nat
      BY <3>1, FlowletAssumption DEF Packet, Times
    <3> QED
      BY <1>1, <3>1, <3>2
  <2> QED
    BY <1>1, <2>1 DEF IInv, PacketsTrackTime, Waiting
<1> QED
  BY <1>2, <1>3, <1>4 DEF IInv

(* The two outcomes of the second section. *)
Asks(s) ==
  /\ StartsFlowlet(slot[s])
  /\ \E backoff \in MinBackoff..MaxBackoff : BackedOff(slot[s], backoff)
  /\ feedback_ts' = [feedback_ts EXCEPT ![slot[s].register] = slot[s].at % Modulus]
  /\ asked' = [asked EXCEPT ![slot[s].register] = slot[s].at]

LEMMA UpdateOutcome ==
  ASSUME IInv, NEW s \in Slots, UpdatePath(s)
  PROVE  /\ s \in Waiting
         /\ slot' = [slot EXCEPT ![s] = Idle]
         /\ Waiting' = Waiting \ {s}
         /\ \A t \in Waiting' : slot'[t] = slot[t]
         /\ UNCHANGED <<now, flowlet_time_stamp, seen>>
         /\ \/ Asks(s)
            \/ /\ UNCHANGED <<feedback_ts, asked>>
               /\ \/ ~StartsFlowlet(slot[s])
                  \/ \E backoff \in MinBackoff..MaxBackoff : ~BackedOff(slot[s], backoff)
BY DEF UpdatePath, Asks, Waiting, IInv, TypeOK

(* No other packet of the register starts a flowlet, so none of those that *)
(* remain relies on what the register said before.                         *)
LEMMA UpdateInvariant ==
  ASSUME IInv, NEW s \in Slots, UpdatePath(s)
  PROVE  IInv'
<1> DEFINE p == slot[s]
<1>1. /\ s \in Waiting /\ p \in Packet
      /\ slot' = [slot EXCEPT ![s] = Idle]
      /\ Waiting' = Waiting \ {s}
      /\ \A t \in Waiting' : slot'[t] = slot[t]
      /\ UNCHANGED <<now, flowlet_time_stamp, seen>>
      /\ Asks(s) \/ UNCHANGED <<feedback_ts, asked>>
  BY UpdateOutcome, StartIsPause
<1>2. /\ p.register \in Registers /\ p.at \in Times /\ p.at \in Nat
      /\ p.at <= seen[p.register]
  BY <1>1, FlowletAssumption DEF Packet, Times, IInv, PacketsTrackTime
<1>3. p.at % Modulus \in Stamps
  BY <1>2, Stamp
<1>4. TypeOK' /\ RegistersTrackTime' /\ ClockAhead'
  <2>1. CASE Asks(s)
    BY <1>1, <1>2, <1>3, <2>1
       DEF Asks, IInv, TypeOK, RegistersTrackTime, ClockAhead
  <2>2. CASE UNCHANGED <<feedback_ts, asked>>
    BY <1>1, <2>2 DEF IInv, TypeOK, RegistersTrackTime, ClockAhead
  <2> QED
    BY <1>1, <2>1, <2>2
<1>5. PacketsTrackTime' /\ PausesApart'
  BY <1>1 DEF IInv, PacketsTrackTime, PausesApart
<1>6. FeedbackFresh'
  <2>1. CASE Asks(s)
    <3>1. ASSUME NEW t \in Waiting', StartsFlowlet(slot[t])
          PROVE  slot[t].register # p.register
      BY <1>1, <2>1, <3>1, OneStarts DEF OneFlowletStart, Waiting, Asks
    <3>2. ASSUME NEW t \in Waiting', StartsFlowlet(slot[t])
          PROVE  asked'[slot[t].register] = asked[slot[t].register]
      <4>1. t \in Waiting
        BY <1>1
      <4>2. slot[t].register \in Registers
        BY <4>1, StartIsPause DEF Packet
      <4> QED
        BY <2>1, <3>1, <3>2, <4>2 DEF Asks, IInv, TypeOK
    <3> QED
      BY <1>1, <3>2 DEF IInv, FeedbackFresh, StartsFlowlet
  <2>2. CASE UNCHANGED <<feedback_ts, asked>>
    BY <1>1, <2>2 DEF IInv, FeedbackFresh, StartsFlowlet
  <2> QED
    BY <1>1, <2>1, <2>2
<1> QED
  BY <1>4, <1>5, <1>6 DEF IInv

LEMMA Invariant == Spec => []IInv
<1>1. IInv /\ [Next]_vars => IInv'
  <2>1. SUFFICES ASSUME IInv, [Next]_vars PROVE IInv'
    OBVIOUS
  <2>2. CASE Tick
    BY <2>1, <2>2, TickInvariant
  <2>3. ASSUME NEW f \in Flows, NEW s \in Slots, ReadFlowletRegisters(f, s)
        PROVE  IInv'
    BY <2>1, <2>3, ReadInvariant
  <2>4. ASSUME NEW s \in Slots, UpdatePath(s)
        PROVE  IInv'
    BY <2>1, <2>4, UpdateInvariant
  <2>5. CASE UNCHANGED vars
    BY <2>1, <2>5 DEF vars, IInv, TypeOK, RegistersTrackTime, ClockAhead,
       PacketsTrackTime, PausesApart, FeedbackFresh, Waiting, StartsFlowlet
  <2> QED
    BY <2>1, <2>2, <2>3, <2>4, <2>5 DEF Next
<1> QED
  BY InitInvariant, <1>1, PTL DEF Spec

-----------------------------------------------------------------------------
(* The theorems.                                                           *)

(* Flowlet.apply: the registers hold stamps, and a packet carries in its   *)
(* metadata what fits there.                                               *)
THEOREM TypeCorrect == Spec => []TypeOK
<1>1. IInv => TypeOK
  BY DEF IInv
<1> QED
  BY Invariant, <1>1, PTL

(* However packets overtake each other between the two atomic sections,    *)
(* one packet of a register at most starts a flowlet.                      *)
THEOREM AtMostOneStart == Spec => []OneFlowletStart
BY Invariant, OneStarts, PTL

(* The backoff: a register that asks waited longer than MinBackoff since   *)
(* it last did, in real time and not only modulo 2^48.                     *)
THEOREM BackoffKept == Spec => RequestsSpaced
<1>1. ASSUME IInv, NEW s \in Slots, UpdatePath(s), NEW r \in Registers,
             asked'[r] # asked[r]
      PROVE  asked'[r] - asked[r] > MinBackoff
  <2> DEFINE p == slot[s]
  <2>1. Asks(s) /\ s \in Waiting /\ p \in Packet
    BY <1>1, UpdateOutcome, StartIsPause
  <2>2. r = p.register /\ asked'[r] = p.at
    BY <1>1, <2>1 DEF Asks, IInv, TypeOK
  <2>3. p.feedback = asked[r] % Modulus /\ asked[r] <= p.at
    BY <1>1, <2>1, <2>2 DEF Asks, IInv, FeedbackFresh
  <2>4. p.at \in Nat /\ asked[r] \in Nat
    BY <1>1, <2>1, FlowletAssumption DEF Packet, Times, IInv, TypeOK
  <2>5. Elapsed(p.at, p.feedback) <= p.at - asked[r]
    BY <2>3, <2>4, ElapsedIsGap
  <2>6. PICK backoff \in MinBackoff..MaxBackoff : Elapsed(p.at, p.feedback) > backoff
    BY <2>1 DEF Asks, BackedOff
  <2>7. Elapsed(p.at, p.feedback) \in Int
    BY <2>1, <2>4, FlowletAssumption DEF Elapsed, Packet, Stamps
  <2> HIDE DEF p
  <2> QED
    BY <2>2, <2>4, <2>5, <2>6, <2>7, FlowletAssumption
<1>2. IInv /\ [Next]_vars =>
        [\A r \in Registers : asked'[r] # asked[r] => asked'[r] - asked[r] > MinBackoff]_vars
  BY <1>1 DEF Next, vars, Tick, ReadFlowletRegisters
<1> QED
  BY Invariant, <1>2, PTL DEF Spec, RequestsSpaced

(* A request comes from a packet that follows a real pause longer than the *)
(* flowlet timeout, however short the stamps are.                          *)
THEOREM OnlyBetweenFlowlets == Spec => RequestsBetweenFlowlets
<1> DEFINE Good(s) == slot[s] # Idle /\ asked' # asked /\ slot'[s] = Idle
                        => slot[s].pause > Timeout
<1>1. ASSUME IInv, NEW t \in Slots, UpdatePath(t), NEW s \in Slots, slot[s] # Idle,
             asked' # asked, slot'[s] = Idle
      PROVE  slot[s].pause > Timeout
  <2>1. s = t /\ s \in Waiting /\ StartsFlowlet(slot[s])
    BY <1>1, UpdateOutcome DEF Asks, IInv, TypeOK, Waiting
  <2> QED
    BY <1>1, <2>1, StartIsPause
<1>2. IInv /\ [Next]_vars => [\A s \in Slots : Good(s)]_vars
  BY <1>1 DEF Next, vars, Tick, ReadFlowletRegisters
<1> QED
  BY Invariant, <1>2, PTL DEF Spec, RequestsBetweenFlowlets

(* A packet that ends a pause longer than the timeout asks, if its         *)
(* register last asked longer ago than the longest backoff and neither     *)
(* time is so long that the stamps wrap.                                   *)
THEOREM LongPauseNeverMissed == Spec => LongPauseAsks
<1> DEFINE Long(s) == /\ slot[s] # Idle /\ slot'[s] = Idle
                      /\ Timeout < slot[s].pause /\ slot[s].pause < Modulus
                      /\ MaxBackoff < slot[s].at - asked[slot[s].register]
                      /\ slot[s].at - asked[slot[s].register] < Modulus
           Good(s) == Long(s) => asked'[slot[s].register] = slot[s].at
<1>1. ASSUME IInv, NEW t \in Slots, UpdatePath(t), NEW s \in Slots, Long(s)
      PROVE  asked'[slot[s].register] = slot[s].at
  <2> DEFINE p == slot[s]
             r == slot[s].register
  <2>1. s = t /\ s \in Waiting
    BY <1>1, UpdateOutcome DEF IInv, TypeOK, Waiting
  <2>2. /\ p \in Packet
        /\ Elapsed(p.at, p.last_stamp) = p.pause
    BY <1>1, <2>1, StartIsPause
  <2>3. StartsFlowlet(p)
    BY <1>1, <2>2 DEF StartsFlowlet
  <2>4. p.feedback = asked[r] % Modulus /\ asked[r] <= p.at
    BY <1>1, <2>1, <2>3 DEF IInv, FeedbackFresh
  <2>5. p.at \in Nat /\ asked[r] \in Nat
    BY <1>1, <2>2, FlowletAssumption DEF Packet, Times, IInv, TypeOK
  <2>6. Elapsed(p.at, p.feedback) = p.at - asked[r]
    BY <1>1, <2>4, <2>5, ElapsedIsGap
  <2>7. \A backoff \in MinBackoff..MaxBackoff : BackedOff(p, backoff)
    BY <1>1, <2>5, <2>6, FlowletAssumption DEF BackedOff
  <2>8. Asks(s)
    BY <1>1, <2>1, <2>3, <2>7, UpdateOutcome
  <2> QED
    BY <1>1, <2>2, <2>8 DEF Asks, IInv, TypeOK, Packet
<1>2. ASSUME IInv, NEW f \in Flows, NEW t \in Slots, ReadFlowletRegisters(f, t),
             NEW s \in Slots, slot[s] # Idle
      PROVE  slot'[s] # Idle
  BY <1>2 DEF ReadFlowletRegisters, IInv, TypeOK
<1>3. IInv /\ [Next]_vars => [\A s \in Slots : Good(s)]_vars
  <2>1. SUFFICES ASSUME IInv, [Next]_vars, NEW s \in Slots, Long(s),
                        ~ UNCHANGED vars
                 PROVE  asked'[slot[s].register] = slot[s].at
    OBVIOUS
  <2>2. slot'[s] # slot[s]
    BY <2>1
  <2>3. ~ Tick
    BY <2>2 DEF Tick
  <2> QED
    BY <1>1, <1>2, <2>1, <2>3 DEF Next
<1> QED
  BY Invariant, <1>3, PTL DEF Spec, LongPauseAsks
=============================================================================
