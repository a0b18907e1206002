--------------------------- MODULE MCFileExchange ---------------------------
(* FileExchange on small instances. *)
EXTENDS FileExchange

AllNames == Kinds
=============================================================================
