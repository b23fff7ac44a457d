---------------------------- MODULE MCUdpSession ----------------------------
(* Small instances of UdpSession for TLC. *)
EXTENDS UdpSession, TLC

Symmetry == Permutations(Callers)
=============================================================================
