---------------------------- MODULE MCDiscovery ----------------------------
(* A run of two processes and one outside it; one of each is matched alone *)
(* and two of them, related across the cgroups, together.                  *)
EXTENDS Discovery
MCHome     == [p1 |-> "r1", p2 |-> "r1", p3 |-> "host"]
MCLaunched == [r1 |-> "p1"]
MCMatches  == {{"p1"}, {"p2", "p3"}, {"p3"}}
=============================================================================
