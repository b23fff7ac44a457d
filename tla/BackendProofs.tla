--------------------------- MODULE BackendProofs ---------------------------
(* Theorems about Backend, for any threads, addresses, hosts, limits and   *)
(* bounds.                                                                 *)
EXTENDS Backend, FiniteSetTheorems, WellFoundedInduction, TLAPS

(* A finite, nonempty set of addresses has a smallest one. *)
LEMMA Least ==
    ASSUME NEW S \in SUBSET Nat, IsFiniteSet(S), S # {}
    PROVE  \E a \in S : \A b \in S : a <= b
<1> DEFINE Below(a) == {b \in S : b < a}
           D == {Below(a) : a \in S}
<1>1. D \subseteq SUBSET S /\ D # {}
  OBVIOUS
<1>2. IsWellFoundedOn(StrictSubsetOrdering(S), SUBSET S)
  BY FS_FiniteSubsetsOfFinite, FS_StrictSubsetOrderingWellFounded, Zenon
<1>3. PICK m \in D : \A y \in D : ~(<<y, m>> \in StrictSubsetOrdering(S))
  <2> HIDE DEF D
  <2> QED BY <1>1, <1>2, WFMin, Zenon
<1>4. PICK x \in S : m = Below(x)
  OBVIOUS
<1>5. ASSUME NEW y \in S, y < x PROVE FALSE
  <2>0. \A b \in S : b \in Nat
    OBVIOUS
  <2>1. Below(y) \subseteq m /\ y \in m /\ y \notin Below(y)
    <3>1. \A b \in S : b < y => b < x
      BY <2>0, <1>5
    <3>2. ~(y < y)
      BY <2>0
    <3> QED
      BY <1>4, <1>5, <3>1, <3>2, Zenon
  <2>2. Below(y) \in D /\ Below(y) \in SUBSET S /\ m \in SUBSET S
    BY <1>4
  <2>3. <<Below(y), m>> \in StrictSubsetOrdering(S)
    BY <2>1, <2>2 DEF StrictSubsetOrdering
  <2> QED BY <1>3, <2>2, <2>3
<1>6. \A y \in S : x <= y
  BY <1>5
<1> QED BY <1>6

(* The node a thread is at is one of those it has left. *)
LEMMA NodeInList ==
    ASSUME TypeOK, NEW t \in Threads, todo[t] # {}
    PROVE  Node(t) \in todo[t] /\ Node(t) \in Addrs
<1>1. todo[t] \in SUBSET Nat /\ IsFiniteSet(todo[t]) /\ todo[t] \in SUBSET Addrs
  BY BackendAssumption, FS_Subset DEF TypeOK
<1>2. \E a \in todo[t] : \A b \in todo[t] : a <= b
  BY <1>1, Least, Zenon
<1>3. Node(t) \in todo[t]
  BY <1>2, Zenon DEF Node
<1> QED
  BY <1>1, <1>3

(* Every step keeps the types. *)
LEMMA TypeStep == IInv /\ [Next]_vars => TypeOK'
<1> SUFFICES ASSUME IInv, [Next]_vars PROVE TypeOK'
  OBVIOUS
<1>0. config' \in Configs
  BY DEF Next, vars, IInv, TypeOK
<1>1. ASSUME NEW t \in Threads, Check(t) PROVE TypeOK'
  BY <1>0, <1>1, NodeInList, BackendAssumption
    DEF Check, NextNode, IInv, TypeOK, Equipped, Establishing
<1>2. ASSUME NEW t \in Threads, Claim(t) PROVE TypeOK'
  <2>1. Node(t) \in Addrs
    BY <1>2, NodeInList DEF Claim, IInv, Equipped, Establishing
  <2>2. connecting' \subseteq Addrs
    BY <1>0, <1>2, <2>1 DEF Claim, IInv, TypeOK
  <2>3. CASE NextNode(t)
    BY <1>0, <1>2, <2>2, <2>3 DEF Claim, NextNode, IInv, TypeOK
  <2>4. CASE UNCHANGED todo /\ pc' = [pc EXCEPT ![t] = "connect"]
    BY <1>0, <1>2, <2>2, <2>4 DEF Claim, IInv, TypeOK
  <2> QED
    BY <1>2, <2>3, <2>4 DEF Claim
<1>3. ASSUME NEW t \in Threads, ConnectOk(t) PROVE TypeOK'
  BY <1>0, <1>3, NodeInList, BackendAssumption DEF ConnectOk, IInv, TypeOK, Equipped, Establishing
<1>4. ASSUME NEW t \in Threads, ConnectErr(t) PROVE TypeOK'
  <2>1. faults' \in 0..MaxFaults
    BY <1>0, <1>4, BackendAssumption DEF ConnectErr, Fault, IInv, TypeOK
  <2> QED
    BY <1>0, <1>4, <2>1 DEF ConnectErr, NextNode, IInv, TypeOK
<1>5. ASSUME NEW t \in Threads, InstallDuplicate(t) PROVE TypeOK'
  BY <1>0, <1>5, NodeInList, BackendAssumption
    DEF InstallDuplicate, NextNode, IInv, TypeOK, Equipped, Establishing
<1>6. ASSUME NEW t \in Threads, Install(t) PROVE TypeOK'
  <2>1. Node(t) \in Addrs
    BY <1>6, NodeInList DEF Install, IInv, Equipped, Establishing
  <2>2. rows' \in [Addrs -> RowShape \cup {NoRow}] /\ expired' \in [Threads -> SUBSET Addrs]
    BY <1>0, <1>6 DEF Install, IInv, TypeOK
  <2>3. conns' \subseteq Addrs
    BY <1>0, <1>6, <2>1 DEF Install, IInv, TypeOK
  <2>4. CASE NextNode(t)
    BY <1>0, <1>6, <2>2, <2>3, <2>4 DEF Install, NextNode, IInv, TypeOK
  <2>5. CASE UNCHANGED todo /\ pc' = [pc EXCEPT ![t] = "place"]
    BY <1>0, <1>6, <2>2, <2>3, <2>5 DEF Install, IInv, TypeOK
  <2> QED
    BY <1>6, <2>4, <2>5 DEF Install
<1>7. ASSUME NEW t \in Threads, Place(t) PROVE TypeOK'
  BY <1>0, <1>7, NodeInList, BackendAssumption
    DEF Place, NextNode, Row, RowShape, Hosts, IInv, TypeOK, Equipped, Establishing
<1>8. ASSUME NEW t \in Threads, Discover(t) PROVE TypeOK'
  BY <1>0, <1>8, BackendAssumption
    DEF Discover, Establish, Fault, AddDiscovered, Row, RowShape, Hosts, Label, IInv,
      TypeOK, Equipped, Establishing
<1>9. ASSUME NEW t \in Threads, TooEarly(t) PROVE TypeOK'
  BY <1>0, <1>9, BackendAssumption DEF TooEarly, IInv, TypeOK, Equipped, Establishing
<1>10. ASSUME NEW t \in Threads, SetTimer(t) PROVE TypeOK'
  BY <1>0, <1>10, BackendAssumption DEF SetTimer, IInv, TypeOK, Equipped, Establishing
<1>11. ASSUME NEW t \in Threads, CountRows(t) PROVE TypeOK'
  BY <1>0, <1>11, BackendAssumption DEF CountRows, IInv, TypeOK, Equipped, Establishing
<1>12. ASSUME NEW t \in Threads, Inline(t) PROVE TypeOK'
  BY <1>0, <1>12, BackendAssumption DEF Inline, IInv, TypeOK, Equipped, Establishing
<1>13. ASSUME NEW t \in Threads, NEW h \in Helpers, Spawn(t, h) PROVE TypeOK'
  BY <1>0, <1>13, BackendAssumption DEF Threads, Spawn, IInv, TypeOK, Equipped, Establishing
<1>14. ASSUME NEW t \in Threads, StaleTargets(t) PROVE TypeOK'
  BY <1>0, <1>14, BackendAssumption
    DEF StaleTargets, Present, Target, RowShape, IInv, TypeOK, Equipped, Establishing
<1>15. ASSUME NEW t \in Threads, NEW x \in targets[t], Pick(t, x) PROVE TypeOK'
  <2>1. x \in Target /\ x.addr \in Addrs
    BY <1>0 DEF IInv, TypeOK, Target
  <2>2. cur' \in [Threads -> Target \cup {None}] /\ targets' \in [Threads -> SUBSET Target]
    BY <1>0, <1>15, <2>1 DEF Pick, IInv, TypeOK
  <2>3. CASE pc' = [pc EXCEPT ![t] = "query"] /\ UNCHANGED <<todo, back>>
    BY <1>0, <1>15, <2>2, <2>3 DEF Pick, IInv, TypeOK
  <2>4. CASE Establish(t, {x.addr}, "reget")
    BY <1>0, <1>15, <2>1, <2>2, <2>4 DEF Pick, Establish, IInv, TypeOK
  <2> QED
    BY <1>15, <2>3, <2>4 DEF Pick
<1>16. ASSUME NEW t \in Threads, Reget(t) PROVE TypeOK'
  <2>1. cur[t] \in Target
    BY <1>16 DEF Reget, IInv, Equipped
  <2>2. Row(cur[t].host, FALSE) \in RowShape /\ cur[t].addr \in Addrs
    BY <2>1, BackendAssumption DEF Target, Row, RowShape
  <2>3. rows' \in [Addrs -> RowShape \cup {NoRow}]
    BY <1>0, <1>16, <2>2 DEF Reget, IInv, TypeOK
  <2>5. expired' \in [Threads -> SUBSET Addrs]
    <3>1. UNCHANGED expired \/ Settled(cur[t].addr)
      BY <1>16 DEF Reget
    <3> QED
      BY <1>0, <3>1 DEF Settled, IInv, TypeOK
  <2>4. cur' \in [Threads -> Target \cup {None}]
    BY <1>0, <1>16 DEF Reget, IInv, TypeOK
  <2> QED
    BY <1>0, <1>16, <2>3, <2>4, <2>5 DEF Reget, IInv, TypeOK
<1>17. ASSUME NEW t \in Threads, QueryOk(t) PROVE TypeOK'
  <2>1. cur[t] \in Target /\ cur[t].addr \in Addrs
    BY <1>17 DEF QueryOk, IInv, Equipped, Target
  <2>2. Row(Host[cur[t].addr], TRUE) \in RowShape
    <3>1. Host[cur[t].addr] \in Hosts
      BY <2>1 DEF Hosts
    <3>2. 0 \in 0..(TTL + 1)
      BY BackendAssumption
    <3> QED
      BY <3>1, <3>2 DEF Row, RowShape
  <2>3. rows' \in [Addrs -> RowShape \cup {NoRow}]
    BY <1>0, <1>17, <2>2 DEF QueryOk, IInv, TypeOK
  <2>4. expired' \in [Threads -> SUBSET Addrs]
    BY <1>0, <1>17 DEF QueryOk, Settled, IInv, TypeOK
  <2> QED
    BY <1>0, <1>17, <2>3, <2>4 DEF QueryOk, IInv, TypeOK
<1>18. ASSUME NEW t \in Threads, QueryErr(t) PROVE TypeOK'
  <2>1. faults' \in 0..MaxFaults
    BY <1>0, <1>18, BackendAssumption DEF QueryErr, Fault, IInv, TypeOK
  <2> QED
    BY <1>0, <1>18, <2>1 DEF QueryErr, IInv, TypeOK
<1>19. ASSUME NEW t \in Threads, Unrow(t) PROVE TypeOK'
  BY <1>0, <1>19, BackendAssumption DEF Unrow, Settled, IInv, TypeOK, Equipped, Establishing
<1>20. ASSUME NEW t \in Threads, Respond(t) PROVE TypeOK'
  BY <1>0, <1>20, BackendAssumption DEF Respond, IInv, TypeOK, Equipped, Establishing
<1>21. ASSUME NEW t \in Threads, StartQuery(t) PROVE TypeOK'
  BY <1>0, <1>21, BackendAssumption DEF StartQuery, IInv, TypeOK, Equipped, Establishing
<1>22. ASSUME NEW a \in Addrs, Announce(a) PROVE TypeOK'
  BY <1>0, <1>22, BackendAssumption
    DEF Threads, Announce, Establish, AddDiscovered, Row, RowShape, Hosts, IInv, TypeOK,
      Equipped, Establishing
<1>23. ASSUME Tick PROVE TypeOK'
  BY <1>0, <1>23, BackendAssumption DEF Tick, RowShape, IInv, TypeOK, Equipped, Establishing
<1>24. ASSUME UNCHANGED vars PROVE TypeOK'
  BY <1>0, <1>24 DEF vars, IInv, TypeOK
<1> QED
  BY <1>1, <1>2, <1>3, <1>4, <1>5, <1>6, <1>7, <1>8, <1>9, <1>10, <1>11, <1>12, <1>13,
    <1>14, <1>15, <1>16, <1>17, <1>18, <1>19, <1>20, <1>21, <1>22, <1>23, <1>24
    DEF Next, EstablishStep, QueryStep

(* Every step keeps the pool within its bound and at one connection per host. *)
LEMMA PoolStep == IInv /\ [Next]_vars => PoolBounded' /\ OneConnectionPerHost'
<1> SUFFICES ASSUME IInv, [Next]_vars PROVE PoolBounded' /\ OneConnectionPerHost'
  OBVIOUS
<1>0. IsFiniteSet(conns) /\ config' = config /\ config.limit \in Nat
  BY BackendAssumption, FS_Subset DEF IInv, TypeOK, Next, vars
<1>1. ASSUME NEW t \in Threads, Check(t) PROVE PoolBounded' /\ OneConnectionPerHost'
  BY <1>0, <1>1 DEF Check, IInv, PoolBounded, OneConnectionPerHost
<1>2. ASSUME NEW t \in Threads, Claim(t) PROVE PoolBounded' /\ OneConnectionPerHost'
  BY <1>0, <1>2 DEF Claim, IInv, PoolBounded, OneConnectionPerHost
<1>3. ASSUME NEW t \in Threads, ConnectOk(t) PROVE PoolBounded' /\ OneConnectionPerHost'
  BY <1>0, <1>3 DEF ConnectOk, IInv, PoolBounded, OneConnectionPerHost
<1>4. ASSUME NEW t \in Threads, ConnectErr(t) PROVE PoolBounded' /\ OneConnectionPerHost'
  BY <1>0, <1>4 DEF ConnectErr, IInv, PoolBounded, OneConnectionPerHost
<1>5. ASSUME NEW t \in Threads, InstallDuplicate(t)
      PROVE  PoolBounded' /\ OneConnectionPerHost'
  BY <1>0, <1>5 DEF InstallDuplicate, IInv, PoolBounded, OneConnectionPerHost
<1>6. ASSUME NEW t \in Threads, Install(t) PROVE PoolBounded' /\ OneConnectionPerHost'
  <2>1. PICK old \in IF SameHost(Node(t)) = {} THEN {{}} ELSE {{b} : b \in SameHost(Node(t))} :
           \/ conns' = conns \ old
           \/ HasRoom(conns \ old) /\ conns' = (conns \ old) \cup {Node(t)}
    BY <1>6 DEF Install
  <2>2. conns \ old \in SUBSET conns
    OBVIOUS
  <2>3. /\ IsFiniteSet(conns \ old)
        /\ Cardinality(conns \ old) <= Cardinality(conns)
        /\ Cardinality(conns) \in Nat /\ Cardinality(conns \ old) \in Nat
    BY <1>0, <2>2, FS_Subset, FS_CardinalityType
  <2>4. PoolBounded'
    <3>1. CASE conns' = conns \ old
      BY <1>0, <2>3, <3>1, BackendAssumption DEF IInv, PoolBounded
    <3>2. CASE HasRoom(conns \ old) /\ conns' = (conns \ old) \cup {Node(t)}
      <4> DEFINE kept == conns \ old
      <4> HIDE DEF kept
      <4>1. Cardinality(kept \cup {Node(t)}) =
              IF Node(t) \in kept THEN Cardinality(kept) ELSE Cardinality(kept) + 1
        BY <2>3, FS_AddElement, Zenon DEF kept
      <4>2. Cardinality(kept) \in Nat /\ Cardinality(kept) < config.limit
        BY <2>3, <3>2 DEF HasRoom, kept
      <4> QED
        BY <1>0, <3>2, <4>1, <4>2 DEF PoolBounded, kept
    <3> QED
      BY <2>1, <3>1, <3>2
  <2>5. OneConnectionPerHost'
    <3>1. \A b \in conns \ old : Host[b] # Host[Node(t)]
      BY <2>1 DEF SameHost, IInv, OneConnectionPerHost
    <3> QED
      BY <2>1, <3>1 DEF IInv, OneConnectionPerHost
  <2> QED
    BY <2>4, <2>5
<1>7. ASSUME NEW t \in Threads, Place(t) PROVE PoolBounded' /\ OneConnectionPerHost'
  BY <1>0, <1>7 DEF Place, IInv, PoolBounded, OneConnectionPerHost
<1>8. ASSUME NEW t \in Threads, Discover(t) PROVE PoolBounded' /\ OneConnectionPerHost'
  BY <1>0, <1>8 DEF Discover, IInv, PoolBounded, OneConnectionPerHost
<1>9. ASSUME NEW t \in Threads, TooEarly(t) PROVE PoolBounded' /\ OneConnectionPerHost'
  BY <1>0, <1>9 DEF TooEarly, IInv, PoolBounded, OneConnectionPerHost
<1>10. ASSUME NEW t \in Threads, SetTimer(t) PROVE PoolBounded' /\ OneConnectionPerHost'
  BY <1>0, <1>10 DEF SetTimer, IInv, PoolBounded, OneConnectionPerHost
<1>11. ASSUME NEW t \in Threads, CountRows(t) PROVE PoolBounded' /\ OneConnectionPerHost'
  BY <1>0, <1>11 DEF CountRows, IInv, PoolBounded, OneConnectionPerHost
<1>12. ASSUME NEW t \in Threads, Inline(t) PROVE PoolBounded' /\ OneConnectionPerHost'
  BY <1>0, <1>12 DEF Inline, IInv, PoolBounded, OneConnectionPerHost
<1>13. ASSUME NEW t \in Threads, NEW h \in Helpers, Spawn(t, h)
      PROVE  PoolBounded' /\ OneConnectionPerHost'
  BY <1>0, <1>13 DEF Spawn, IInv, PoolBounded, OneConnectionPerHost
<1>14. ASSUME NEW t \in Threads, StaleTargets(t) PROVE PoolBounded' /\ OneConnectionPerHost'
  BY <1>0, <1>14 DEF StaleTargets, IInv, PoolBounded, OneConnectionPerHost
<1>15. ASSUME NEW t \in Threads, NEW x \in targets[t], Pick(t, x)
      PROVE  PoolBounded' /\ OneConnectionPerHost'
  BY <1>0, <1>15 DEF Pick, IInv, PoolBounded, OneConnectionPerHost
<1>16. ASSUME NEW t \in Threads, Reget(t) PROVE PoolBounded' /\ OneConnectionPerHost'
  BY <1>0, <1>16 DEF Reget, IInv, PoolBounded, OneConnectionPerHost
<1>17. ASSUME NEW t \in Threads, QueryOk(t) PROVE PoolBounded' /\ OneConnectionPerHost'
  BY <1>0, <1>17 DEF QueryOk, IInv, PoolBounded, OneConnectionPerHost
<1>18. ASSUME NEW t \in Threads, QueryErr(t) PROVE PoolBounded' /\ OneConnectionPerHost'
  <2>1. conns' \in SUBSET conns
    BY <1>18 DEF QueryErr
  <2>2. Cardinality(conns') <= Cardinality(conns) /\ Cardinality(conns) \in Nat
        /\ Cardinality(conns') \in Nat
    BY <1>0, <2>1, FS_Subset, FS_CardinalityType
  <2> QED
    BY <1>0, <2>1, <2>2, BackendAssumption DEF IInv, PoolBounded, OneConnectionPerHost
<1>19. ASSUME NEW t \in Threads, Unrow(t) PROVE PoolBounded' /\ OneConnectionPerHost'
  BY <1>0, <1>19 DEF Unrow, IInv, PoolBounded, OneConnectionPerHost
<1>20. ASSUME NEW t \in Threads, Respond(t) PROVE PoolBounded' /\ OneConnectionPerHost'
  BY <1>0, <1>20 DEF Respond, IInv, PoolBounded, OneConnectionPerHost
<1>21. ASSUME NEW t \in Threads, StartQuery(t) PROVE PoolBounded' /\ OneConnectionPerHost'
  BY <1>0, <1>21 DEF StartQuery, IInv, PoolBounded, OneConnectionPerHost
<1>22. ASSUME NEW a \in Addrs, Announce(a) PROVE PoolBounded' /\ OneConnectionPerHost'
  BY <1>0, <1>22 DEF Announce, IInv, PoolBounded, OneConnectionPerHost
<1>23. ASSUME Tick PROVE PoolBounded' /\ OneConnectionPerHost'
  BY <1>0, <1>23 DEF Tick, IInv, PoolBounded, OneConnectionPerHost
<1>24. ASSUME UNCHANGED vars PROVE PoolBounded' /\ OneConnectionPerHost'
  BY <1>0, <1>24 DEF vars, IInv, PoolBounded, OneConnectionPerHost
<1> QED
  BY <1>1, <1>2, <1>3, <1>4, <1>5, <1>6, <1>7, <1>8, <1>9, <1>10, <1>11, <1>12, <1>13,
    <1>14, <1>15, <1>16, <1>17, <1>18, <1>19, <1>20, <1>21, <1>22, <1>23, <1>24
    DEF Next, EstablishStep, QueryStep

(* A step that leaves every handshake under way alone, and starts none. *)
LEMMA Undisturbed ==
    ASSUME OneHandshakePerAddress, connecting' = connecting,
           \A s \in Threads : /\ pc[s] = "connect" <=> pc'[s] = "connect"
                              /\ pc[s] = "connect" => todo'[s] = todo[s]
    PROVE  OneHandshakePerAddress'
<1>1. ASSUME NEW s \in Threads, pc[s] = "connect"
      PROVE  Node(s)' = Node(s)
  <2>1. todo'[s] = todo[s]
    BY <1>1
  <2> QED
    BY <2>1, Zenon DEF Node
<1>2. connecting' = {Node(t)' : t \in {s \in Threads : pc'[s] = "connect"}}
  BY <1>1 DEF OneHandshakePerAddress
<1> QED
  BY <1>1, <1>2 DEF OneHandshakePerAddress

(* Every step keeps the connecting set exact. *)
LEMMA HandshakeStep == IInv /\ [Next]_vars => OneHandshakePerAddress'
<1> SUFFICES ASSUME IInv, [Next]_vars PROVE OneHandshakePerAddress'
  OBVIOUS

<1>1. ASSUME NEW t \in Threads, Check(t) PROVE OneHandshakePerAddress'
  BY <1>1, Undisturbed DEF Check, NextNode, IInv, TypeOK
<1>2. ASSUME NEW t \in Threads, Claim(t) PROVE OneHandshakePerAddress'
  <2>1. CASE Node(t) \in connecting /\ NextNode(t) /\ UNCHANGED connecting
    BY <1>2, <2>1, Undisturbed DEF Claim, NextNode, IInv, TypeOK
  <2>2. CASE /\ Node(t) \notin connecting
             /\ connecting' = connecting \cup {Node(t)}
             /\ pc' = [pc EXCEPT ![t] = "connect"]
             /\ UNCHANGED todo
    <3>1. \A s \in Threads : Node(s)' = Node(s)
      BY <2>2 DEF Node
    <3>2. \A s \in Threads : pc'[s] = "connect" <=> s = t \/ pc[s] = "connect"
      BY <2>2 DEF IInv, TypeOK
    <3>3. \A s \in Threads : pc[s] = "connect" => Node(s) # Node(t)
      BY <2>2 DEF IInv, OneHandshakePerAddress
    <3> QED
      BY <2>2, <3>1, <3>2, <3>3 DEF IInv, OneHandshakePerAddress
  <2> QED
    BY <1>2, <2>1, <2>2 DEF Claim
<1>3. ASSUME NEW t \in Threads, ConnectOk(t) PROVE OneHandshakePerAddress'
  <2>1. pc[t] = "connect" /\ connecting' = connecting \ {Node(t)}
    BY <1>3 DEF ConnectOk
  <2>2. \A s \in Threads : pc'[s] = "connect" <=> s # t /\ pc[s] = "connect"
    BY <1>3 DEF ConnectOk, IInv, TypeOK
  <2>3. \A s \in Threads : s # t => Node(s)' = Node(s)
    BY <1>3 DEF ConnectOk, Node, IInv, TypeOK
  <2>4. \A s \in Threads : s # t /\ pc[s] = "connect" => Node(s) # Node(t)
    BY <2>1 DEF IInv, OneHandshakePerAddress
  <2> QED
    BY <2>1, <2>2, <2>3, <2>4 DEF IInv, OneHandshakePerAddress
<1>4. ASSUME NEW t \in Threads, ConnectErr(t) PROVE OneHandshakePerAddress'
  <2>1. pc[t] = "connect" /\ connecting' = connecting \ {Node(t)}
    BY <1>4 DEF ConnectErr
  <2>2. \A s \in Threads : pc'[s] = "connect" <=> s # t /\ pc[s] = "connect"
    BY <1>4 DEF ConnectErr, NextNode, Fault, IInv, TypeOK
  <2>3. \A s \in Threads : s # t => Node(s)' = Node(s)
    BY <1>4 DEF ConnectErr, NextNode, Fault, Node, IInv, TypeOK
  <2>4. \A s \in Threads : s # t /\ pc[s] = "connect" => Node(s) # Node(t)
    BY <2>1 DEF IInv, OneHandshakePerAddress
  <2> QED
    BY <2>1, <2>2, <2>3, <2>4 DEF IInv, OneHandshakePerAddress
<1>5. ASSUME NEW t \in Threads, InstallDuplicate(t) PROVE OneHandshakePerAddress'
  BY <1>5, Undisturbed DEF InstallDuplicate, NextNode, IInv, TypeOK
<1>6. ASSUME NEW t \in Threads, Install(t) PROVE OneHandshakePerAddress'
  BY <1>6, Undisturbed DEF Install, NextNode, IInv, TypeOK
<1>7. ASSUME NEW t \in Threads, Place(t) PROVE OneHandshakePerAddress'
  BY <1>7, Undisturbed DEF Place, NextNode, IInv, TypeOK
<1>8. ASSUME NEW t \in Threads, Discover(t) PROVE OneHandshakePerAddress'
  BY <1>8, Undisturbed DEF Discover, Establish, Fault, IInv, TypeOK
<1>9. ASSUME NEW t \in Threads, TooEarly(t) PROVE OneHandshakePerAddress'
  BY <1>9, Undisturbed DEF TooEarly, IInv, TypeOK
<1>10. ASSUME NEW t \in Threads, SetTimer(t) PROVE OneHandshakePerAddress'
  BY <1>10, Undisturbed DEF SetTimer, IInv, TypeOK
<1>11. ASSUME NEW t \in Threads, CountRows(t) PROVE OneHandshakePerAddress'
  BY <1>11, Undisturbed DEF CountRows, IInv, TypeOK
<1>12. ASSUME NEW t \in Threads, Inline(t) PROVE OneHandshakePerAddress'
  BY <1>12, Undisturbed DEF Inline, IInv, TypeOK
<1>13. ASSUME NEW t \in Threads, NEW h \in Helpers, Spawn(t, h)
      PROVE  OneHandshakePerAddress'
  BY <1>13, Undisturbed DEF Threads, Spawn, IInv, TypeOK
<1>14. ASSUME NEW t \in Threads, StaleTargets(t) PROVE OneHandshakePerAddress'
  BY <1>14, Undisturbed DEF StaleTargets, IInv, TypeOK
<1>15. ASSUME NEW t \in Threads, NEW x \in targets[t], Pick(t, x)
      PROVE  OneHandshakePerAddress'
  BY <1>15, Undisturbed DEF Pick, Establish, IInv, TypeOK
<1>16. ASSUME NEW t \in Threads, Reget(t) PROVE OneHandshakePerAddress'
  BY <1>16, Undisturbed DEF Reget, IInv, TypeOK
<1>17. ASSUME NEW t \in Threads, QueryOk(t) PROVE OneHandshakePerAddress'
  BY <1>17, Undisturbed DEF QueryOk, IInv, TypeOK
<1>18. ASSUME NEW t \in Threads, QueryErr(t) PROVE OneHandshakePerAddress'
  BY <1>18, Undisturbed DEF QueryErr, Fault, IInv, TypeOK
<1>19. ASSUME NEW t \in Threads, Unrow(t) PROVE OneHandshakePerAddress'
  BY <1>19, Undisturbed DEF Unrow, IInv, TypeOK
<1>20. ASSUME NEW t \in Threads, Respond(t) PROVE OneHandshakePerAddress'
  BY <1>20, Undisturbed DEF Respond, IInv, TypeOK
<1>21. ASSUME NEW t \in Threads, StartQuery(t) PROVE OneHandshakePerAddress'
  BY <1>21, Undisturbed DEF StartQuery, IInv, TypeOK
<1>22. ASSUME NEW a \in Addrs, Announce(a) PROVE OneHandshakePerAddress'
  BY <1>22, Undisturbed DEF Threads, Announce, Establish, IInv, TypeOK
<1>23. ASSUME Tick PROVE OneHandshakePerAddress'
  BY <1>23, Undisturbed DEF Tick, IInv, TypeOK
<1>24. ASSUME UNCHANGED vars PROVE OneHandshakePerAddress'
  BY <1>24, Undisturbed DEF vars, IInv, TypeOK
<1> QED
  BY <1>1, <1>2, <1>3, <1>4, <1>5, <1>6, <1>7, <1>8, <1>9, <1>10, <1>11, <1>12, <1>13,
    <1>14, <1>15, <1>16, <1>17, <1>18, <1>19, <1>20, <1>21, <1>22, <1>23, <1>24
    DEF Next, EstablishStep, QueryStep

(* Every step leaves each thread with what it needs where it is. *)
LEMMA EquippedStep == IInv /\ [Next]_vars => Equipped'
<1> SUFFICES ASSUME IInv, [Next]_vars PROVE Equipped'
  OBVIOUS

<1>1. ASSUME NEW t \in Threads, Check(t) PROVE Equipped'
  BY <1>1 DEF Check, NextNode, Equipped, Establishing, IInv, TypeOK
<1>2. ASSUME NEW t \in Threads, Claim(t) PROVE Equipped'
  BY <1>2 DEF Claim, NextNode, Equipped, Establishing, IInv, TypeOK
<1>3. ASSUME NEW t \in Threads, ConnectOk(t) PROVE Equipped'
  BY <1>3 DEF ConnectOk, Equipped, Establishing, IInv, TypeOK
<1>4. ASSUME NEW t \in Threads, ConnectErr(t) PROVE Equipped'
  BY <1>4 DEF ConnectErr, NextNode, Fault, Equipped, Establishing, IInv, TypeOK
<1>5. ASSUME NEW t \in Threads, InstallDuplicate(t) PROVE Equipped'
  BY <1>5 DEF InstallDuplicate, NextNode, Equipped, Establishing, IInv, TypeOK
<1>6. ASSUME NEW t \in Threads, Install(t) PROVE Equipped'
  BY <1>6 DEF Install, NextNode, Equipped, Establishing, IInv, TypeOK
<1>7. ASSUME NEW t \in Threads, Place(t) PROVE Equipped'
  BY <1>7 DEF Place, NextNode, Equipped, Establishing, IInv, TypeOK
<1>8. ASSUME NEW t \in Threads, Discover(t) PROVE Equipped'
  BY <1>8 DEF Discover, Establish, Fault, Equipped, Establishing, IInv, TypeOK
<1>9. ASSUME NEW t \in Threads, TooEarly(t) PROVE Equipped'
  BY <1>9 DEF TooEarly, Equipped, Establishing, IInv, TypeOK
<1>10. ASSUME NEW t \in Threads, SetTimer(t) PROVE Equipped'
  BY <1>10 DEF SetTimer, Equipped, Establishing, IInv, TypeOK
<1>11. ASSUME NEW t \in Threads, CountRows(t) PROVE Equipped'
  BY <1>11 DEF CountRows, Equipped, Establishing, IInv, TypeOK
<1>12. ASSUME NEW t \in Threads, Inline(t) PROVE Equipped'
  BY <1>12 DEF Inline, Equipped, Establishing, IInv, TypeOK
<1>13. ASSUME NEW t \in Threads, NEW h \in Helpers, Spawn(t, h) PROVE Equipped'
  BY <1>13 DEF Threads, Spawn, Equipped, Establishing, IInv, TypeOK
<1>14. ASSUME NEW t \in Threads, StaleTargets(t) PROVE Equipped'
  BY <1>14 DEF StaleTargets, Equipped, Establishing, IInv, TypeOK
<1>15. ASSUME NEW t \in Threads, NEW x \in targets[t], Pick(t, x) PROVE Equipped'
  BY <1>15 DEF Pick, Establish, Equipped, Establishing, IInv, TypeOK
<1>16. ASSUME NEW t \in Threads, Reget(t) PROVE Equipped'
  BY <1>16 DEF Reget, Equipped, Establishing, IInv, TypeOK
<1>17. ASSUME NEW t \in Threads, QueryOk(t) PROVE Equipped'
  BY <1>17 DEF QueryOk, Equipped, Establishing, IInv, TypeOK
<1>18. ASSUME NEW t \in Threads, QueryErr(t) PROVE Equipped'
  BY <1>18 DEF QueryErr, Fault, Equipped, Establishing, IInv, TypeOK
<1>19. ASSUME NEW t \in Threads, Unrow(t) PROVE Equipped'
  BY <1>19 DEF Unrow, Equipped, Establishing, IInv, TypeOK
<1>20. ASSUME NEW t \in Threads, Respond(t) PROVE Equipped'
  BY <1>20 DEF Respond, Equipped, Establishing, IInv, TypeOK
<1>21. ASSUME NEW t \in Threads, StartQuery(t) PROVE Equipped'
  BY <1>21 DEF StartQuery, Equipped, Establishing, IInv, TypeOK
<1>22. ASSUME NEW a \in Addrs, Announce(a) PROVE Equipped'
  BY <1>22 DEF Threads, Announce, Establish, Equipped, Establishing, IInv, TypeOK
<1>23. ASSUME Tick PROVE Equipped'
  BY <1>23 DEF Tick, Equipped, Establishing, IInv, TypeOK
<1>24. ASSUME UNCHANGED vars PROVE Equipped'
  BY <1>24 DEF vars, Equipped, Establishing, IInv, TypeOK
<1> QED
  BY <1>1, <1>2, <1>3, <1>4, <1>5, <1>6, <1>7, <1>8, <1>9, <1>10, <1>11, <1>12, <1>13,
    <1>14, <1>15, <1>16, <1>17, <1>18, <1>19, <1>20, <1>21, <1>22, <1>23, <1>24
    DEF Next, EstablishStep, QueryStep

(* Every step keeps track of the rows a query found expired. *)
LEMMA PendingStep == IInv /\ [Next]_vars => ExpiredPending'
<1> SUFFICES ASSUME IInv, [Next]_vars PROVE ExpiredPending'
  OBVIOUS

<1>1. ASSUME NEW t \in Threads, Check(t) PROVE ExpiredPending'
  BY <1>1 DEF Check, NextNode, ExpiredPending, Refreshing, Establishing, IInv, TypeOK
<1>2. ASSUME NEW t \in Threads, Claim(t) PROVE ExpiredPending'
  BY <1>2 DEF Claim, NextNode, ExpiredPending, Refreshing, Establishing, IInv, TypeOK
<1>3. ASSUME NEW t \in Threads, ConnectOk(t) PROVE ExpiredPending'
  BY <1>3 DEF ConnectOk, ExpiredPending, Refreshing, Establishing, IInv, TypeOK
<1>4. ASSUME NEW t \in Threads, ConnectErr(t) PROVE ExpiredPending'
  BY <1>4
    DEF ConnectErr, NextNode, Fault, ExpiredPending, Refreshing, Establishing, IInv, TypeOK
<1>5. ASSUME NEW t \in Threads, InstallDuplicate(t) PROVE ExpiredPending'
  BY <1>5
    DEF InstallDuplicate, NextNode, ExpiredPending, Refreshing, Establishing, IInv, TypeOK
<1>6. ASSUME NEW t \in Threads, Install(t) PROVE ExpiredPending'
  BY <1>6 DEF Install, NextNode, ExpiredPending, Refreshing, Establishing, IInv, TypeOK
<1>7. ASSUME NEW t \in Threads, Place(t) PROVE ExpiredPending'
  BY <1>7 DEF Place, NextNode, ExpiredPending, Refreshing, Establishing, IInv, TypeOK
<1>8. ASSUME NEW t \in Threads, Discover(t) PROVE ExpiredPending'
  BY <1>8
    DEF Discover, Establish, Fault, ExpiredPending, Refreshing, Establishing, IInv, TypeOK
<1>9. ASSUME NEW t \in Threads, TooEarly(t) PROVE ExpiredPending'
  BY <1>9 DEF TooEarly, ExpiredPending, Refreshing, Establishing, IInv, TypeOK
<1>10. ASSUME NEW t \in Threads, SetTimer(t) PROVE ExpiredPending'
  BY <1>10 DEF SetTimer, ExpiredPending, Refreshing, Establishing, IInv, TypeOK
<1>11. ASSUME NEW t \in Threads, CountRows(t) PROVE ExpiredPending'
  BY <1>11 DEF CountRows, ExpiredPending, Refreshing, Establishing, IInv, TypeOK
<1>12. ASSUME NEW t \in Threads, Inline(t) PROVE ExpiredPending'
  BY <1>12 DEF Inline, ExpiredPending, Refreshing, Establishing, IInv, TypeOK
<1>13. ASSUME NEW t \in Threads, NEW h \in Helpers, Spawn(t, h) PROVE ExpiredPending'
  BY <1>13 DEF Threads, Spawn, ExpiredPending, Refreshing, Establishing, IInv, TypeOK
<1>14. ASSUME NEW t \in Threads, StaleTargets(t) PROVE ExpiredPending'
  <2> SUFFICES ASSUME NEW s \in Threads, Refreshing(s)', NEW a \in expired'[s]
               PROVE  (\E y \in targets'[s] : y.addr = a) \/ (pc'[s] # "pick" /\ cur'[s].addr = a)
    BY DEF ExpiredPending
  <2>1. CASE s = t
    <3>1. a \in Present /\ IsStale(a)
      BY <1>14, <2>1 DEF StaleTargets, IsStale, IInv, TypeOK
    <3>2. [addr |-> a, host |-> rows[a].host, had |-> rows[a].snap] \in targets'[s]
      BY <1>14, <2>1, <3>1 DEF StaleTargets, IInv, TypeOK
    <3> QED
      BY <3>2
  <2>2. CASE s # t
    BY <1>14, <2>2 DEF StaleTargets, ExpiredPending, Refreshing, IInv, TypeOK
  <2> QED
    BY <2>1, <2>2
<1>15. ASSUME NEW t \in Threads, NEW x \in targets[t], Pick(t, x) PROVE ExpiredPending'
  <2> SUFFICES ASSUME NEW s \in Threads, Refreshing(s)', NEW a \in expired'[s]
               PROVE  (\E y \in targets'[s] : y.addr = a) \/ (pc'[s] # "pick" /\ cur'[s].addr = a)
    BY DEF ExpiredPending
  <2>1. CASE s = t
    <3>1. /\ pc[t] = "pick" /\ expired' = expired
          /\ cur'[t] = x /\ targets'[t] = targets[t] \ {x} /\ pc'[t] # "pick"
      BY <1>15 DEF Pick, Establish, IInv, TypeOK
    <3>2. \E y \in targets[t] : y.addr = a
      BY <2>1, <3>1 DEF IInv, ExpiredPending, Refreshing
    <3> QED
      BY <2>1, <3>1, <3>2
  <2>2. CASE s # t
    BY <1>15, <2>2 DEF Pick, Establish, ExpiredPending, Refreshing, IInv, TypeOK
  <2> QED
    BY <2>1, <2>2
<1>16. ASSUME NEW t \in Threads, Reget(t) PROVE ExpiredPending'
  <2> SUFFICES ASSUME NEW s \in Threads, Refreshing(s)', NEW a \in expired'[s]
               PROVE  (\E y \in targets'[s] : y.addr = a) \/ (pc'[s] # "pick" /\ cur'[s].addr = a)
    BY DEF ExpiredPending
  <2>1. CASE /\ pc' = [pc EXCEPT ![t] = "query"]
             /\ UNCHANGED <<rows, expired, cur>>
    BY <1>16, <2>1 DEF Reget, ExpiredPending, Refreshing, IInv, TypeOK
  <2>2. CASE /\ Settled(cur[t].addr)
             /\ cur' = [cur EXCEPT ![t] = None]
             /\ pc' = [pc EXCEPT ![t] = "pick"]
    <3>1. pc[t] = "reget" /\ UNCHANGED <<targets, back>>
      BY <1>16 DEF Reget
    <3>2. a \in expired[s] /\ a # cur[t].addr
      BY <2>2 DEF Settled
    <3> QED
      BY <2>2, <3>1, <3>2 DEF ExpiredPending, Refreshing, IInv, TypeOK
  <2> QED
    BY <1>16, <2>1, <2>2 DEF Reget
<1>17. ASSUME NEW t \in Threads, QueryOk(t) PROVE ExpiredPending'
  BY <1>17 DEF QueryOk, Settled, ExpiredPending, Refreshing, Establishing, IInv, TypeOK
<1>18. ASSUME NEW t \in Threads, QueryErr(t) PROVE ExpiredPending'
  BY <1>18 DEF QueryErr, Fault, ExpiredPending, Refreshing, Establishing, IInv, TypeOK
<1>19. ASSUME NEW t \in Threads, Unrow(t) PROVE ExpiredPending'
  BY <1>19 DEF Unrow, Settled, ExpiredPending, Refreshing, Establishing, IInv, TypeOK
<1>20. ASSUME NEW t \in Threads, Respond(t) PROVE ExpiredPending'
  BY <1>20 DEF Respond, ExpiredPending, Refreshing, Establishing, IInv, TypeOK
<1>21. ASSUME NEW t \in Threads, StartQuery(t) PROVE ExpiredPending'
  BY <1>21 DEF StartQuery, ExpiredPending, Refreshing, Establishing, IInv, TypeOK
<1>22. ASSUME NEW a \in Addrs, Announce(a) PROVE ExpiredPending'
  BY <1>22
    DEF Threads, Announce, Establish, ExpiredPending, Refreshing, Establishing, IInv, TypeOK
<1>23. ASSUME Tick PROVE ExpiredPending'
  BY <1>23 DEF Tick, ExpiredPending, Refreshing, Establishing, IInv, TypeOK
<1>24. ASSUME UNCHANGED vars PROVE ExpiredPending'
  BY <1>24 DEF vars, ExpiredPending, Refreshing, Establishing, IInv, TypeOK
<1> QED
  BY <1>1, <1>2, <1>3, <1>4, <1>5, <1>6, <1>7, <1>8, <1>9, <1>10, <1>11, <1>12, <1>13,
    <1>14, <1>15, <1>16, <1>17, <1>18, <1>19, <1>20, <1>21, <1>22, <1>23, <1>24
    DEF Next, EstablishStep, QueryStep

(* The initial state satisfies the inductive invariant. *)
LEMMA InitIInv == Init => IInv
<1> SUFFICES ASSUME Init PROVE IInv
  OBVIOUS
<1>1. TypeOK
  <2>1. config \in Configs /\ config.static \subseteq Addrs
    BY BackendAssumption DEF Init
  <2>2. ASSUME NEW a \in Addrs PROVE Row(Label[a], FALSE) \in RowShape
    <3>1. Host[a] \in Hosts
      BY DEF Hosts
    <3>2. Label[a] \in Hosts \cup Addrs
      BY <3>1 DEF Label
    <3>3. 0 \in 0..(TTL + 1)
      BY BackendAssumption
    <3> QED
      BY <3>2, <3>3 DEF Row, RowShape
  <2>3. PICK found \in SUBSET Addrs :
           /\ rows = [a \in Addrs |-> IF a \in found \cup config.static
                                     THEN Row(Label[a], FALSE) ELSE NoRow]
           /\ todo = [t \in Threads |-> IF t = Startup THEN found \cup config.static ELSE {}]
    BY DEF Init
  <2>4. rows \in [Addrs -> RowShape \cup {NoRow}] /\ todo \in [Threads -> SUBSET Addrs]
    BY <2>1, <2>2, <2>3
  <2>5. /\ conns = {} /\ connecting = {} /\ sinceReconcile = DiscoverWait
        /\ pc \in [Threads -> {"check", "idle"}] /\ back = [t \in Threads |-> "idle"]
        /\ targets = [t \in Threads |-> {}] /\ cur = [t \in Threads |-> None]
        /\ expired = [t \in Threads |-> {}] /\ faults = 0 /\ announces = 0
    BY DEF Init
  <2> QED
    BY <2>1, <2>4, <2>5, BackendAssumption DEF TypeOK
<1>2. Equipped /\ OneConnectionPerHost
  BY DEF Init, Equipped, Establishing, OneConnectionPerHost
<1>3. PoolBounded
  BY FS_EmptySet, BackendAssumption DEF Init, PoolBounded
<1>4. OneHandshakePerAddress
  BY DEF Init, OneHandshakePerAddress
<1>5. ExpiredPending
  BY DEF Init, ExpiredPending
<1> QED
  BY <1>1, <1>2, <1>3, <1>4, <1>5 DEF IInv

(* The invariant holds throughout every behaviour of the backend. *)
THEOREM InductiveInvariant == Spec => []IInv
<1>1. IInv /\ [Next]_vars => IInv'
  <2> SUFFICES ASSUME IInv, [Next]_vars PROVE IInv'
    OBVIOUS
  <2>1. TypeOK' /\ Equipped'
    BY TypeStep, EquippedStep
  <2>2. PoolBounded' /\ OneConnectionPerHost' /\ OneHandshakePerAddress'
    BY PoolStep, HandshakeStep
  <2>3. ExpiredPending'
    BY PendingStep
  <2> QED
    BY <2>1, <2>2, <2>3 DEF IInv
<1> QED
  BY InitIInv, <1>1, PTL DEF Spec

(* Rows, pool, connecting set and thread states are always well formed. *)
THEOREM TypeCorrect == Spec => []TypeOK
<1>1. IInv => TypeOK
  BY DEF IInv
<1> QED
  BY InductiveInvariant, <1>1, PTL

(* However many threads connect at once, the pool never exceeds            *)
(* max_connections (establish_one_connection checks before and after the   *)
(* handshake).                                                             *)
THEOREM PoolNeverOverflows == Spec => []PoolBounded
<1>1. IInv => PoolBounded
  BY DEF IInv
<1> QED
  BY InductiveInvariant, <1>1, PTL

(* There is at most one pooled connection per host, however many addresses *)
(* it is found under (establish_one_connection, duplicate_host_replaced).  *)
THEOREM HostsConnectedOnce == Spec => []OneConnectionPerHost
<1>1. IInv => OneConnectionPerHost
  BY DEF IInv
<1> QED
  BY InductiveInvariant, <1>1, PTL

(* An address is in the connecting set exactly while one thread shakes     *)
(* hands with it (establish_one_connection).                               *)
THEOREM HandshakesExclusive == Spec => []OneHandshakePerAddress
<1>1. IInv => OneHandshakePerAddress
  BY DEF IInv
<1> QED
  BY InductiveInvariant, <1>1, PTL

(* No answer shows a snapshot that was past the TTL when its query began:  *)
(* by this thread or another, each was refreshed, marked or removed        *)
(* (refresh_stale_cache_for_query).                                        *)
THEOREM AnswersNotExpired == Spec => []NoExpiredSnapshotShown
<1>1. IInv => NoExpiredSnapshotShown
  BY DEF IInv, ExpiredPending, Refreshing, NoExpiredSnapshotShown, Threads
<1> QED
  BY InductiveInvariant, <1>1, PTL
============================================================================
