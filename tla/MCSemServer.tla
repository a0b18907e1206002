---------------------------- MODULE MCSemServer ----------------------------
(* SemServer on small instances. *)
EXTENDS SemServer, TLC

CONSTANTS c1, c2, c3, p1, p2, p3

ThreeClients == {c1, c2, c3}
OneClient == {c1}
TwoClients == {c1, c2}
ThreePids == {p1, p2, p3}
TwoPids == {p1, p2}

\* Neither clients nor process slots are told apart by the code.
Symmetry == Permutations(Clients) \cup Permutations(Pids)
=============================================================================
