---------------------------- MODULE MCTcpSession ----------------------------
(* Small instances of TcpSession for TLC. *)
EXTENDS TcpSession, TLC

Symmetry == Permutations(Callers)
=============================================================================
