----------------------------- MODULE MCUdpQuota -----------------------------
(* UdpQuota on a small instance. *)
EXTENDS UdpQuota

CONSTANTS a1, a2, a3

ThreeAddrs == {a1, a2, a3}
=============================================================================
