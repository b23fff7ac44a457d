---------------------------- MODULE MCGresCache ----------------------------
(* Small instances of GresCache for TLC. *)
EXTENDS GresCache, TLC

(* Threads of the same kind are interchangeable. *)
Symmetry == Permutations(Queriers) \cup Permutations(Refreshers)
============================================================================
