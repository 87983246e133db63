---------------------------- MODULE SlidingWindow ----------------------------
(***************************************************************************)
(* What a path's history promises: the last Size samples in the order they *)
(* came, and the instants of the oldest and the newest of them.            *)
(***************************************************************************)
EXTENDS Integers, Sequences

CONSTANTS Weights, Times, Size

VARIABLES window,     (* the samples kept, oldest first *)
          first, last (* the instants of the oldest and the newest sample *)

Sample == [w : Weights, t : Times]

Init == window = <<>> /\ first = 0 /\ last = 0

Kept(s) == IF Len(s) > Size THEN Tail(s) ELSE s

Add(w, t) ==
  /\ window' = Kept(Append(window, [w |-> w, t |-> t]))
  /\ first' = window'[1].t
  /\ last' = t

Next == \E w \in Weights, t \in Times : Add(w, t)

Spec == Init /\ [][Next]_<<window, first, last>>
=============================================================================
