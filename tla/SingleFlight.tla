---------------------------- MODULE SingleFlight ----------------------------
(***************************************************************************)
(* What the snapshot cache promises, without generations, locks or wakeups:*)
(* collections fly one at a time, a caller may join the collection in the  *)
(* air but not the next one, landing releases everybody who joined, and    *)
(* the snapshots that are published never go back in time.                 *)
(***************************************************************************)
EXTENDS Integers

CONSTANTS Threads, NoEntry

VARIABLES flying,     \* the thread whose collection is in the air (or none)
          joined,     \* threads that wait for it
          entry       \* collection time of the published snapshot

sfVars == <<flying, joined, entry>>

Init == flying = {} /\ joined = {} /\ entry = NoEntry

TakeOff(t) ==
    /\ flying = {} /\ joined = {}
    /\ flying' = {t}
    /\ UNCHANGED <<joined, entry>>

Join(t) ==
    /\ flying # {} /\ t \notin flying
    /\ joined' = joined \cup {t}
    /\ UNCHANGED <<flying, entry>>

(* A joined thread looks around; it may join again. *)
Stir(t) ==
    /\ t \in joined
    /\ joined' = joined \ {t}
    /\ UNCHANGED <<flying, entry>>

Publish ==
    /\ flying # {}
    /\ entry' \in Nat
    /\ entry # NoEntry => entry' >= entry
    /\ UNCHANGED <<flying, joined>>

Land ==
    /\ flying # {}
    /\ flying' = {} /\ joined' = {}
    /\ UNCHANGED entry

Next == \/ \E t \in Threads : TakeOff(t) \/ Join(t) \/ Stir(t)
        \/ Publish \/ Land

Spec == Init /\ [][Next]_sfVars
=============================================================================
