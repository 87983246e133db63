----------------------------- MODULE MCNetworkAPI -----------------------------
(***************************************************************************)
(* A described network to start from: a leaf s1 with a numbered host and a *)
(* named one, and a spine s2 that also runs P4Runtime.  The program may    *)
(* add a second s1-s2 link, in the other direction, and one from h1 to s2. *)
(***************************************************************************)
EXTENDS NetworkAPI

MCNameOrder  == <<"h1", "s1", "s2", "sw-cpu", "web">>
MCKind       == [n \in ToSet(MCNameOrder) |->
                   CASE n \in {"h1", "web"} -> "host"
                     [] n = "s1" -> "p4"
                     [] n = "s2" -> "p4rt"
                     [] n = "sw-cpu" -> "switch"]
MCHostNum    == [n \in {"h1"} |-> 1]
MCStartLinks == {<<"h1", "s1">>, <<"s1", "web">>, <<"s1", "s2">>}
MCPairs      == {<<"s2", "s1">>, <<"h1", "s2">>, <<"s1", "web">>}
=============================================================================
