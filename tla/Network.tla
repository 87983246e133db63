------------------------------ MODULE Network ------------------------------
(***************************************************************************)
(* What the fabric promises the hosts: a packet is lost, or arrives at its *)
(* target as it was sent.  Telemetry and segment routing are invisible.    *)
(***************************************************************************)
CONSTANTS Flows, Dst, Payloads, Slots, Idle

VARIABLES inFlight, received

NetPacket == [flow : Flows, content : Payloads]

Init == inFlight = [k \in Slots |-> Idle] /\ received = Idle

Send(k, p) ==
  /\ inFlight[k] = Idle
  /\ inFlight' = [inFlight EXCEPT ![k] = p]
  /\ UNCHANGED received

Lose(k) ==
  /\ inFlight[k] # Idle
  /\ inFlight' = [inFlight EXCEPT ![k] = Idle]
  /\ UNCHANGED received

Deliver(k) ==
  /\ inFlight[k] # Idle
  /\ inFlight' = [inFlight EXCEPT ![k] = Idle]
  /\ received' = [at |-> Dst[inFlight[k].flow], packet |-> inFlight[k]]

Next ==
  \E k \in Slots : \/ \E p \in NetPacket : Send(k, p)
                   \/ Lose(k)
                   \/ Deliver(k)

Spec == Init /\ [][Next]_<<inFlight, received>>
=============================================================================
