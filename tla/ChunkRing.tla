----------------------------- MODULE ChunkRing -----------------------------
(***************************************************************************)
(* The ring of neighbour checksums of a chunked UDP frame                  *)
(* (crates/common/src/udp.rs).  Every chunk carries the checksum of the    *)
(* chunk before it and of the chunk after it, the first and the last being *)
(* neighbours; it does not carry its own.                                  *)
(*                                                                         *)
(* An operator whose comment begins with "Deviation" is a variant of the   *)
(* one after it that no specification uses: a slip of the kind the         *)
(* properties have to catch.                                               *)
(***************************************************************************)
EXTENDS Integers

CONSTANTS Parts,        \* the byte strings a chunk can carry
          Checksum(_)   \* crc32fast::hash

(* CRC-32 collisions between the payloads of one exchange are left out. *)
ASSUME ChecksumAssumption ==
    \A p, q \in Parts : Checksum(p) = Checksum(q) => p = q

Before(i, n) == IF i = 0 THEN n - 1 ELSE i - 1
After(i, n) == IF i + 1 = n THEN 0 ELSE i + 1

(* The slot that chunk i of a frame cut into parts[0..n-1] fills. *)
Slot(parts, n, i) ==
    [payload |-> parts[i],
     prev |-> Checksum(parts[Before(i, n)]),
     next |-> Checksum(parts[After(i, n)])]

(* Deviation: only the checksum of the chunk before is compared. *)
VerifyPrevOnly(slots, n) ==
    \A i \in 0..(n - 1) : Checksum(slots[Before(i, n)].payload) = slots[i].prev

(* ChunkGroup::verify_all *)
VerifyAll(slots, n) ==
    \A i \in 0..(n - 1) :
        /\ Checksum(slots[Before(i, n)].payload) = slots[i].prev
        /\ Checksum(slots[After(i, n)].payload) = slots[i].next
============================================================================
