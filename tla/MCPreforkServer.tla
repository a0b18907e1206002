--------------------------- MODULE MCPreforkServer ---------------------------
(* PreforkServer on small instances. *)
EXTENDS PreforkServer

CONSTANTS c1, c2, p1, p2

OneClient == {c1}
TwoClients == {c1, c2}
TwoPids == {p1, p2}
=============================================================================
