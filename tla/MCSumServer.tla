----------------------------- MODULE MCSumServer -----------------------------
(* SumServer on small instances: shorts of 2 bits, ints of 3. *)
EXTENDS SumServer

TypedNumbers == {1, 6}
=============================================================================
