----------------------------- MODULE MCBackend -----------------------------
(* Small instances of Backend for TLC. *)
EXTENDS Backend, TLC

CONSTANTS h1, h2

(* Addresses 1 and 2 are two interfaces of one host. *)
TwoHomed == 1 :> h1 @@ 2 :> h1 @@ 3 :> h2

(* A pool of one with one static node; a pool of two, all nodes static. *)
TwoConfigs == {[limit |-> 1, static |-> {1}], [limit |-> 2, static |-> {1, 2, 3}]}
============================================================================
