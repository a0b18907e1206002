------------------------------ MODULE MCWrappers ------------------------------
(* Wrappers on small instances. *)
EXTENDS Wrappers

SomeSizes == {1, 2, 3}
SomeEnds == {2, 3}
=============================================================================
