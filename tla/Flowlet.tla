------------------------------- MODULE Flowlet -------------------------------
(***************************************************************************)
(* The control Flowlet of the P4 program, which runs in the ingress of the *)
(* sink leaf for packets bound to a host port.  It keeps two registers per *)
(* hash of the 5-tuple and asks the collector for a new path                *)
(* (meta.update_path) when a flow resumes after a pause, but not before a  *)
(* random backoff has passed since the last time it asked.                 *)
(*                                                                         *)
(* The block reads and writes the registers in two @atomic sections.  The  *)
(* model lets other packets run between the two, as the language allows.   *)
(*                                                                         *)
(* now is the switch's clock, unbounded; ingress_global_timestamp is what  *)
(* fits in TIMESTAMP_WIDTH bits of it.                                     *)
(***************************************************************************)
EXTENDS Integers

CONSTANTS
  Flows,          (* the 5-tuples whose egress is a monitored host port    *)
  RegisterOf,     (* crc16 of the 5-tuple modulo REGISTER_SIZE             *)
  Timeout,        (* meta.flowlet_timeout, set by tb_activate_flow_dest    *)
  MinBackoff,     (* the bounds of the random backoff                      *)
  MaxBackoff,
  Modulus,        (* 2^TIMESTAMP_WIDTH                                     *)
  Latency,        (* longest time between the two sections of a packet     *)
  Slots,          (* the packets the pipeline holds at once                *)
  Idle,           (* an empty slot                                         *)
  MaxTime         (* bound: the last instant of a run                      *)

VARIABLES
  now,                 (* the clock of the switch                          *)
  flowlet_time_stamp,  (* register: time stamp of the last packet          *)
  feedback_ts,         (* register: time stamp of the last request         *)
  slot,                (* the packets between the two atomic sections      *)
  seen,                (* when the last packet of a register came          *)
  asked                (* when a register last asked for a path            *)

vars == <<now, flowlet_time_stamp, feedback_ts, slot, seen, asked>>

Registers == {RegisterOf[f] : f \in Flows}
Stamps == 0..(Modulus - 1)
Times == 0..MaxTime

(* The meta fields of a packet after read_flowlet_registers, and the real  *)
(* gap since the previous packet of the register.                          *)
Packet == [register : Registers, at : Times, last_stamp : Stamps,
           feedback : Stamps, pause : Times]

ASSUME FlowletAssumption ==
  /\ RegisterOf \in [Flows -> Registers]
  /\ Modulus \in Nat \ {0} /\ MaxTime \in Nat
  /\ Timeout \in Nat /\ MinBackoff \in Nat /\ MaxBackoff \in Nat
  /\ MinBackoff <= MaxBackoff
  /\ Latency \in Nat /\ Latency <= Timeout
  /\ Idle \notin Packet

(* Subtraction of two bit<48> values. *)
Elapsed(t, stamp) == ((t % Modulus) - stamp) % Modulus

-----------------------------------------------------------------------------

Init ==
  /\ now = 0
  /\ flowlet_time_stamp = [r \in Registers |-> 0]
  /\ feedback_ts = [r \in Registers |-> 0]
  /\ slot = [s \in Slots |-> Idle]
  /\ seen = [r \in Registers |-> 0]
  /\ asked = [r \in Registers |-> 0]

(* Time passes, but no packet stays longer than Latency in the pipeline. *)
Tick ==
  /\ now < MaxTime
  /\ \A s \in Slots : slot[s] # Idle => now < slot[s].at + Latency
  /\ now' = now + 1
  /\ UNCHANGED <<flowlet_time_stamp, feedback_ts, slot, seen, asked>>

(* read_flowlet_registers: the first atomic section. *)
ReadWithoutModulus(f, s) ==                     (* mutant: the stamp is wide *)
  LET r == RegisterOf[f] IN
  /\ slot[s] = Idle
  /\ slot' = [slot EXCEPT ![s] =
       [register |-> r, at |-> now, last_stamp |-> flowlet_time_stamp[r],
        feedback |-> feedback_ts[r], pause |-> now - seen[r]]]
  /\ flowlet_time_stamp' = [flowlet_time_stamp EXCEPT ![r] = now]
  /\ seen' = [seen EXCEPT ![r] = now]
  /\ UNCHANGED <<now, feedback_ts, asked>>

ReadWithoutWriting(f, s) ==                     (* mutant: the stamp stays *)
  LET r == RegisterOf[f] IN
  /\ slot[s] = Idle
  /\ slot' = [slot EXCEPT ![s] =
       [register |-> r, at |-> now, last_stamp |-> flowlet_time_stamp[r],
        feedback |-> feedback_ts[r], pause |-> now - seen[r]]]
  /\ seen' = [seen EXCEPT ![r] = now]
  /\ UNCHANGED <<now, flowlet_time_stamp, feedback_ts, asked>>

ReadFlowletRegisters(f, s) ==
  LET r == RegisterOf[f] IN
  /\ slot[s] = Idle
  /\ slot' = [slot EXCEPT ![s] =
       [register |-> r, at |-> now, last_stamp |-> flowlet_time_stamp[r],
        feedback |-> feedback_ts[r], pause |-> now - seen[r]]]
  /\ flowlet_time_stamp' = [flowlet_time_stamp EXCEPT ![r] = now % Modulus]
  /\ seen' = [seen EXCEPT ![r] = now]
  /\ UNCHANGED <<now, feedback_ts, asked>>

(* The rest of the apply block, with the second atomic section.  A request *)
(* needs a pause longer than the timeout and a backoff that has run out.   *)
Always(p) == TRUE                                                    (* mutant *)
StartsFlowlet(p) == Elapsed(p.at, p.last_stamp) > Timeout
BackedOffAtOnce(p, backoff) == TRUE                                  (* mutant *)
BackedOffSincePacket(p, backoff) == Elapsed(p.at, p.last_stamp) > backoff
                                                   (* mutant: wrong register *)
BackedOff(p, backoff) == Elapsed(p.at, p.feedback) > backoff

UpdatePath(s) ==
  LET p == slot[s] IN
  /\ p # Idle
  /\ slot' = [slot EXCEPT ![s] = Idle]
  /\ \/ /\ StartsFlowlet(p)
        /\ \E backoff \in MinBackoff..MaxBackoff : BackedOff(p, backoff)
        /\ feedback_ts' = [feedback_ts EXCEPT ![p.register] = p.at % Modulus]
        /\ asked' = [asked EXCEPT ![p.register] = p.at]
     \/ /\ \/ ~StartsFlowlet(p)
           \/ \E backoff \in MinBackoff..MaxBackoff : ~BackedOff(p, backoff)
        /\ UNCHANGED <<feedback_ts, asked>>
  /\ UNCHANGED <<now, flowlet_time_stamp, seen>>

Next ==
  \/ Tick
  \/ \E f \in Flows, s \in Slots : ReadFlowletRegisters(f, s)
  \/ \E s \in Slots : UpdatePath(s)

Spec == Init /\ [][Next]_vars

-----------------------------------------------------------------------------
(* Properties.                                                             *)

TypeOK ==
  /\ now \in Times
  /\ flowlet_time_stamp \in [Registers -> Stamps]
  /\ feedback_ts \in [Registers -> Stamps]
  /\ slot \in [Slots -> Packet \union {Idle}]
  /\ seen \in [Registers -> Times]
  /\ asked \in [Registers -> Times]

(* "Avoid changing path too often" (flowlet.p4): two requests of one       *)
(* register are more than the smallest backoff apart in real time, however *)
(* packets interleave in the pipeline and however often the clock wraps.   *)
RequestsSpaced ==
  [][\A r \in Registers : asked'[r] # asked[r] => asked'[r] - asked[r] > MinBackoff]_vars

(* A path is asked for only between flowlets: by a packet whose register   *)
(* saw no other for longer than the timeout.  Moving a flow while packets  *)
(* are on the old path would reorder them.                                 *)
RequestsBetweenFlowlets ==
  [][\A s \in Slots : slot[s] # Idle /\ asked' # asked /\ slot'[s] = Idle
        => slot[s].pause > Timeout]_vars

(* A pause longer than the timeout after the longest backoff is never      *)
(* missed, unless it is so long that the time stamps wrap.                 *)
LongPauseAsks ==
  [][\A s \in Slots :
       /\ slot[s] # Idle /\ slot'[s] = Idle
       /\ Timeout < slot[s].pause /\ slot[s].pause < Modulus
       /\ MaxBackoff < slot[s].at - asked[slot[s].register]
       /\ slot[s].at - asked[slot[s].register] < Modulus
       => asked'[slot[s].register] = slot[s].at]_vars

(* Why the second section may run late: among the packets of a register    *)
(* that are in the pipeline, at most one starts a flowlet.                 *)
OneFlowletStart ==
  \A s, t \in Slots :
    /\ slot[s] # Idle /\ slot[t] # Idle /\ s # t
    /\ slot[s].register = slot[t].register
    => ~(StartsFlowlet(slot[s]) /\ StartsFlowlet(slot[t]))
=============================================================================
