----------------------------- MODULE RequestLoop -----------------------------
(* What empirical-traffic-gen/README.md promises of the client: requests in  *)
(* order, each a set of files fetched in parallel, either at a pace of its   *)
(* own (open loop) or "back-to-back" (load 0, the closed loop): then one     *)
(* request is answered in full before any part of the next one is sent.      *)
EXTENDS Naturals

VARIABLES
  closed,    (* the loop is closed                                           *)
  files,     (* all files of the run: <<request, number in the request>>     *)
  sent,      (* those asked for                                              *)
  received   (* those that arrived                                           *)

vars == <<closed, files, sent, received>>

Earlier(f) == {g \in files : g[1] < f[1]}

Init == sent = {} /\ received = {}

Send(f) ==
  /\ f \notin sent
  /\ Earlier(f) \subseteq IF closed THEN received ELSE sent
  /\ sent' = sent \union {f}
  /\ UNCHANGED <<closed, files, received>>

Receive(f) ==
  /\ f \in sent \ received
  /\ received' = received \union {f}
  /\ UNCHANGED <<closed, files, sent>>

Next == \E f \in files : Send(f) \/ Receive(f)

Spec == Init /\ [][Next]_vars
=============================================================================
