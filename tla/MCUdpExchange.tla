---------------------------- MODULE MCUdpExchange ----------------------------
(* UdpExchange on a small instance. *)
EXTENDS UdpExchange
=============================================================================
