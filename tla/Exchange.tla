------------------------------ MODULE Exchange ------------------------------
(***************************************************************************)
(* What a connection to a server promises, without datagrams, request ids, *)
(* handshakes or locks: a query that succeeds returns the values of a      *)
(* snapshot the server has had between the query and its return, together  *)
(* with the metadata of the same or of a later one of these snapshots.     *)
(***************************************************************************)
EXTENDS Integers

CONSTANTS Callers, Snapshots, NoSnapshot

VARIABLES entry,      \* the server's snapshot
          window,     \* the snapshots it has had since a caller asked; {} if it has not
          answer      \* what a caller holds: at most one answer

exVars == <<entry, window, answer>>

Init ==
    /\ entry = NoSnapshot
    /\ window = [t \in Callers |-> {}] /\ answer = [t \in Callers |-> {}]

(* The server's snapshots never go back, nor does the host's metadata. *)
Replace ==
    /\ entry' \in Snapshots /\ entry'.stamp > entry.stamp /\ entry'.meta >= entry.meta
    /\ window' = [t \in Callers |-> IF window[t] = {} THEN {} ELSE window[t] \cup {entry'}]
    /\ UNCHANGED answer

Ask(t) ==
    /\ window[t] = {}
    /\ window' = [window EXCEPT ![t] = {entry}]
    /\ UNCHANGED <<entry, answer>>

(* A caller that begins another query lets go of its answer. *)
Forget(t) ==
    /\ window[t] = {}
    /\ answer' = [answer EXCEPT ![t] = {}]
    /\ UNCHANGED <<entry, window>>

Fail(t) ==
    /\ window[t] # {}
    /\ window' = [window EXCEPT ![t] = {}]
    /\ answer' = [answer EXCEPT ![t] = {}]
    /\ UNCHANGED entry

Succeed(t) ==
    /\ \E s, m \in window[t] :
         /\ s.stamp # NoSnapshot.stamp /\ s.stamp <= m.stamp
         /\ answer' = [answer EXCEPT ![t] = {[runtime |-> s, meta |-> m.meta]}]
    /\ window' = [window EXCEPT ![t] = {}]
    /\ UNCHANGED entry

Next == \/ Replace
        \/ \E t \in Callers : Ask(t) \/ Forget(t) \/ Fail(t) \/ Succeed(t)

Spec == Init /\ [][Next]_exVars
=============================================================================
