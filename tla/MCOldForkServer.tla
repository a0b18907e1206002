--------------------------- MODULE MCOldForkServer ---------------------------
(* OldForkServer on a small instance. *)
EXTENDS OldForkServer

CONSTANTS p1, p2, p3, p4

FourPids == {p1, p2, p3, p4}
=============================================================================
