-------------------------- MODULE CollectorProofs ---------------------------
(* Every snapshot is in contract, and what a backend puts together is what was
   collected, for every inventory, driver and torn text. *)
EXTENDS Collector, TLAPS

-----------------------------------------------------------------------------
(* Snapshots. *)

(* The fields of one device of a snapshot. *)
DeviceShape(r) ==
    r = [index |-> r.index, name |-> r.name, uuid |-> r.uuid, total |-> r.total,
         temp |-> r.temp, used |-> r.used, util |-> r.util, memutil |-> r.memutil,
         procs |-> r.procs]

IsSnapshot(snap) ==
    /\ snap = [host |-> snap.host, driver |-> snap.driver, gres |-> snap.gres]
    /\ \E n \in Nat : snap.gres = [i \in 1..n |-> snap.gres[i]]
    /\ \A i \in DOMAIN snap.gres : DeviceShape(snap.gres[i])
    /\ DevicesInContract(snap)

(* Values that a device may be given: whole numbers, however large. *)
IsValues(rt) == \A r \in rt : r.used \in Nat /\ r.util \in Nat /\ r.memutil \in Nat

(* Least cuts a number down to its bound. *)
LEMMA LeastBelow ==
    ASSUME NEW a \in Nat, NEW b \in Nat
    PROVE  Least(a, b) \in Nat /\ Least(a, b) <= b
BY DEF Least

(* The values the writer writes are of that kind. *)
LEMMA TickValues ==
    ASSUME NEW inv \in Inventories, NEW t \in Nat
    PROVE  IsValues(runtime_for_tick(inv, t))
<1> SUFFICES ASSUME NEW i \in DOMAIN inv.gres
             PROVE  LET r == runtime_resource(inv.gres[i], t)
                    IN r.used \in Nat /\ r.util \in Nat /\ r.memutil \in Nat
  BY DEF IsValues, runtime_for_tick
<1> DEFINE res == inv.gres[i]
           idx == res.index
           max_used == Most(1, res.total - 1)
           raw == (1234 + idx * 512 + t * 257) % max_used
           used == Least(max_used, Most(1, raw))
           uraw == (Most(1, 87 - idx * 7) + t * 13) % 101
           quot == (used * 100) \div Most(1, res.total)
<1>1. idx \in Nat /\ res.total \in Nat
  BY CollectorAssumption
<1> HIDE DEF res, idx
<1>2. max_used \in Nat /\ max_used > 0
  BY <1>1 DEF Most
<1> HIDE DEF max_used
<1>3. idx * 512 \in Nat /\ t * 257 \in Nat /\ t * 13 \in Nat
  BY <1>1
<1>4. raw \in Nat
  BY <1>2, <1>3
<1> HIDE DEF raw
<1>5. used \in Nat
  BY <1>2, <1>4 DEF Least, Most
<1> HIDE DEF used
<1>6. Most(1, 87 - idx * 7) \in Nat
  BY <1>1 DEF Most
<1>7. uraw \in Nat
  BY <1>3, <1>6
<1>8. Most(1, res.total) \in Nat /\ Most(1, res.total) > 0
  BY <1>1 DEF Most
<1>9. quot \in Nat
  BY <1>5, <1>8
<1> HIDE DEF uraw, quot
<1>10. Most(1, uraw) \in Nat /\ Least(100, quot) \in Nat
  BY <1>7, <1>9 DEF Least, Most
<1>11. /\ runtime_resource(res, t).used = used
       /\ runtime_resource(res, t).util = Most(1, uraw)
       /\ runtime_resource(res, t).memutil = Least(100, quot)
  BY DEF runtime_resource, used, uraw, quot, raw, max_used, idx
<1> QED
  BY <1>5, <1>10, <1>11 DEF res

(* validate_inventory looks at the values of one tick only; it is enough, since
   the values of any other are cut down to what they may be. *)
LEMMA TestSnapshot ==
    ASSUME NEW inv \in Inventories, validate_inventory(inv), NEW rt, IsValues(rt)
    PROVE  IsSnapshot(snapshot_from_inventory_runtime(inv, rt))
<1> DEFINE first == snapshot_from_inventory_runtime(inv, runtime_for_tick(inv, 0))
           snap == snapshot_from_inventory_runtime(inv, rt)
           Values(i) == LET mine == {r \in rt : r.index = inv.gres[i].index}
                        IN IF mine = {} THEN NoValues ELSE CHOOSE r \in mine : TRUE
<1>1. DevicesInContract(first)
  BY DEF validate_inventory, validate_gres_node_snapshot_contract
<1>2. /\ Len(inv.gres) \in Nat /\ DOMAIN inv.gres = 1..Len(inv.gres)
      /\ \A i \in DOMAIN inv.gres : inv.gres[i].total \in Nat
  BY CollectorAssumption
<1>3. /\ snap = [host |-> inv.host, driver |-> inv.driver, gres |-> snap.gres]
      /\ snap.gres = [i \in DOMAIN inv.gres |-> Resource(inv.gres[i], Values(i))]
  BY DEF snapshot_from_inventory_runtime
<1>4. /\ first.host = inv.host /\ first.driver = inv.driver
      /\ DOMAIN first.gres = DOMAIN inv.gres
      /\ \A i \in DOMAIN inv.gres :
             /\ first.gres[i].index = inv.gres[i].index /\ first.gres[i].name = inv.gres[i].name
             /\ first.gres[i].total = inv.gres[i].total /\ first.gres[i].uuid = inv.gres[i].uuid
  BY DEF snapshot_from_inventory_runtime, Resource
<1>5. ASSUME NEW i \in DOMAIN inv.gres
      PROVE  Values(i).used \in Nat /\ Values(i).util \in Nat /\ Values(i).memutil \in Nat
  <2> DEFINE mine == {r \in rt : r.index = inv.gres[i].index}
  <2>1. CASE mine = {}
    BY <2>1 DEF NoValues
  <2>2. CASE mine # {}
    <3>1. Values(i) \in mine
      BY <2>2
    <3> QED
      BY <3>1 DEF IsValues
  <2> QED
    BY <2>1, <2>2
<1> HIDE DEF Values, snap, first
<1>6. ASSUME NEW i \in DOMAIN inv.gres
      PROVE  /\ DeviceShape(snap.gres[i])
             /\ snap.gres[i].index = inv.gres[i].index /\ snap.gres[i].name = inv.gres[i].name
             /\ snap.gres[i].total = inv.gres[i].total /\ snap.gres[i].uuid = inv.gres[i].uuid
             /\ snap.gres[i].used <= snap.gres[i].total
             /\ snap.gres[i].util <= 100 /\ snap.gres[i].memutil <= 100
  <2>1. snap.gres[i] = Resource(inv.gres[i], Values(i))
    BY <1>3
  <2>2. /\ Least(Values(i).used, inv.gres[i].total) <= inv.gres[i].total
        /\ Least(Values(i).util, 100) <= 100 /\ Least(Values(i).memutil, 100) <= 100
    BY <1>2, <1>5, LeastBelow
  <2> QED
    BY <2>1, <2>2 DEF Resource, DeviceShape
<1>7. DOMAIN snap.gres = 1..Len(inv.gres)
  BY <1>2, <1>3
<1>8. DevicesInContract(snap)
  <2>1. snap.host = inv.host /\ snap.driver = inv.driver
    BY <1>3
  <2>2. inv.host # "" /\ inv.driver # ""
    BY <1>1, <1>4 DEF DevicesInContract
  <2>3. ASSUME NEW i \in DOMAIN inv.gres
        PROVE  /\ inv.gres[i].index = i - 1 /\ i <= IndexMax /\ inv.gres[i].name # ""
               /\ inv.gres[i].total > 0 /\ inv.gres[i].uuid # ""
               /\ \A j \in 1..(i - 1) : inv.gres[i].uuid # None => inv.gres[i].uuid # inv.gres[j].uuid
    <3>1. /\ first.gres[i].index = i - 1 /\ i <= IndexMax /\ first.gres[i].name # ""
          /\ first.gres[i].total > 0 /\ first.gres[i].uuid # ""
          /\ \A j \in 1..(i - 1) :
                 first.gres[i].uuid # None => first.gres[i].uuid # first.gres[j].uuid
      BY <1>1, <1>4 DEF DevicesInContract
    <3>2. \A j \in 1..(i - 1) : j \in DOMAIN inv.gres
      BY <1>2
    <3> QED
      BY <1>4, <3>1, <3>2
  <2>4. \A i \in DOMAIN inv.gres : \A j \in 1..(i - 1) : j \in DOMAIN inv.gres
    BY <1>2
  <2>5. DOMAIN snap.gres = DOMAIN inv.gres
    BY <1>2, <1>7
  <2> QED
    <3>1. ASSUME NEW i \in DOMAIN snap.gres
          PROVE  /\ snap.gres[i].index = i - 1 /\ i <= IndexMax /\ snap.gres[i].name # ""
                 /\ snap.gres[i].total > 0 /\ snap.gres[i].uuid # ""
                 /\ snap.gres[i].used <= snap.gres[i].total
                 /\ snap.gres[i].util <= 100 /\ snap.gres[i].memutil <= 100
      BY <1>6, <2>3, <2>5
    <3>2. ASSUME NEW i \in DOMAIN snap.gres, NEW j \in 1..(i - 1), snap.gres[i].uuid # None
          PROVE  snap.gres[i].uuid # snap.gres[j].uuid
      <4>1. i \in DOMAIN inv.gres /\ j \in DOMAIN inv.gres
        BY <2>4, <2>5
      <4>2. snap.gres[i].uuid = inv.gres[i].uuid /\ snap.gres[j].uuid = inv.gres[j].uuid
        BY <1>6, <4>1
      <4> QED
        BY <2>3, <3>2, <4>1, <4>2
    <3>3. snap.host # "" /\ snap.driver # ""
      BY <2>1, <2>2
    <3> QED
      BY <3>1, <3>2, <3>3 DEF DevicesInContract
<1>9. snap.gres = [i \in 1..Len(inv.gres) |-> snap.gres[i]]
  BY <1>2, <1>3
<1>10. IsSnapshot(snap)
  BY <1>2, <1>3, <1>6, <1>7, <1>8, <1>9 DEF IsSnapshot
<1> QED
  BY <1>10 DEF snap

(* What the driver is asked about its devices, one after the other. *)
Scanned(r, i) ==
    /\ DeviceShape(r)
    /\ r.index = i - 1 /\ r.name \in {Devices[i].name, "unknown"}
    /\ r.uuid \in {Devices[i].uuid, None} /\ r.total = Devices[i].total \div MiB
    /\ r.used <= r.total /\ r.util <= 100 /\ r.memutil <= 100

AllScanned(g) ==
    /\ Len(g) \in 0..Len(Devices) /\ g = [i \in 1..Len(g) |-> g[i]]
    /\ \A i \in 1..Len(g) : Scanned(g[i], i)

(* What CollectorAssumption says of the devices, by their numbers. *)
LEMMA DevicesKnown ==
    /\ Len(Devices) \in Nat /\ DOMAIN Devices = 1..Len(Devices)
    /\ \A i \in 1..Len(Devices) : /\ Devices[i].name # "" /\ Devices[i].uuid # ""
                                  /\ Devices[i].total \in Nat /\ Devices[i].total >= MiB
    /\ \A i, j \in 1..Len(Devices) : i # j /\ Devices[i].uuid # None => Devices[i].uuid # Devices[j].uuid
<1>1. Len(Devices) \in Nat /\ DOMAIN Devices = 1..Len(Devices)
  BY CollectorAssumption
<1>2. \A i \in DOMAIN Devices : /\ Devices[i].name # "" /\ Devices[i].uuid # ""
                                /\ Devices[i].total \in Nat /\ Devices[i].total >= MiB
  BY CollectorAssumption
<1>3. \A i, j \in DOMAIN Devices : i # j /\ Devices[i].uuid # None => Devices[i].uuid # Devices[j].uuid
  BY CollectorAssumption
<1> QED
  BY <1>1, <1>2, <1>3, Zenon

(* Facts about numbers that the proofs below use beside sequences. *)
LEMMA Counting ==
    /\ 0 \in Nat /\ \A n \in Nat : 0 <= n
    /\ \A n \in Nat : n = (n + 1) - 1 /\ n \in 0..n /\ \A m \in 0..n : m \in Nat
    /\ \A m \in Nat, n \in Nat : m <= n => \A i \in 1..m : i <= n
OBVIOUS

(* Rounding down to MiB leaves a device some memory and keeps the order. *)
LEMMA Rounding ==
    ASSUME NEW a \in Nat, NEW b \in Nat, a <= b, b >= MiB
    PROVE  b \div MiB > 0 /\ a \div MiB <= b \div MiB
BY DEF MiB

(* The devices before one that was read were read. *)
LEMMA Below ==
    ASSUME NEW n \in Nat, NEW m \in 0..n, NEW i \in 1..m
    PROVE  i \in 1..n /\ \A j \in 1..(i - 1) : j \in 1..m /\ j # i
OBVIOUS

(* Devices read one by one make a snapshot in contract. *)
LEMMA NvmlSnapshot ==
    ASSUME NEW g, AllScanned(g), Len(g) <= IndexMax,
           NEW host, host # "", NEW driver, driver # ""
    PROVE  IsSnapshot([host |-> host, driver |-> driver, gres |-> g])
<1> DEFINE snap == [host |-> host, driver |-> driver, gres |-> g]
<1>1. Len(g) \in Nat /\ DOMAIN g = 1..Len(g) /\ \A i \in 1..Len(g) : i \in 1..Len(Devices)
  <2>1. Len(g) \in 0..Len(Devices) /\ g = [i \in 1..Len(g) |-> g[i]]
    BY DEF AllScanned
  <2>2. Len(Devices) \in Nat
    BY DevicesKnown
  <2>3. DOMAIN g = 1..Len(g)
    BY <2>1, Zenon
  <2>4. Len(g) \in Nat
    BY <2>1, <2>2, Counting, Zenon
  <2> QED
    BY <2>1, <2>2, <2>3, <2>4, Below
<1>2. ASSUME NEW i \in DOMAIN g
      PROVE  /\ DeviceShape(g[i])
             /\ g[i].index = i - 1 /\ i <= IndexMax /\ g[i].name # "" /\ g[i].total > 0
             /\ g[i].used <= g[i].total /\ g[i].util <= 100 /\ g[i].memutil <= 100
             /\ g[i].uuid # ""
             /\ \A j \in 1..(i - 1) : g[i].uuid # None => g[i].uuid # g[j].uuid
  <2>1. Scanned(g[i], i) /\ i \in 1..Len(Devices)
    BY <1>1 DEF AllScanned
  <2>2. /\ Devices[i].name # "" /\ Devices[i].uuid # ""
        /\ Devices[i].total \in Nat /\ Devices[i].total >= MiB /\ None # ""
    BY <2>1, DevicesKnown, CollectorAssumption
  <2>3. ASSUME NEW j \in 1..(i - 1), g[i].uuid # None PROVE g[i].uuid # g[j].uuid
    <3>0. Len(g) \in Nat /\ Len(g) \in 0..Len(g) /\ i \in 1..Len(g)
      BY <1>1, Counting, Zenon
    <3>1. j \in 1..Len(g) /\ j \in 1..Len(Devices) /\ j # i
      BY <1>1, <3>0, Below
    <3>2. Scanned(g[j], j)
      BY <3>1 DEF AllScanned
    <3>3. Devices[i].uuid # None
      BY <2>1, <2>3 DEF Scanned
    <3>4. Devices[i].uuid # Devices[j].uuid
      BY <2>1, <3>1, <3>3, DevicesKnown
    <3> QED
      BY <2>1, <2>3, <3>2, <3>4 DEF Scanned
  <2>4. i <= IndexMax
    BY <1>1, Counting, CollectorAssumption
  <2>5. g[i].total > 0
    <3>1. 0 \in Nat /\ 0 <= Devices[i].total
      BY <2>2, Counting, Zenon
    <3>2. Devices[i].total \div MiB > 0
      BY <2>2, <3>1, Rounding
    <3> QED
      BY <2>1, <3>2 DEF Scanned
  <2>6. /\ DeviceShape(g[i]) /\ g[i].index = i - 1 /\ g[i].name # "" /\ g[i].uuid # ""
        /\ g[i].used <= g[i].total /\ g[i].util <= 100 /\ g[i].memutil <= 100
    BY <2>1, <2>2 DEF Scanned
  <2> QED
    BY <2>3, <2>4, <2>5, <2>6
<1>3. DevicesInContract(snap)
  BY <1>2 DEF DevicesInContract
<1>4. snap.gres = [i \in 1..Len(g) |-> snap.gres[i]]
  BY DEF AllScanned
<1>5. \A i \in DOMAIN snap.gres : DeviceShape(snap.gres[i])
  BY <1>2
<1> QED
  BY <1>1, <1>3, <1>4, <1>5 DEF IsSnapshot

-----------------------------------------------------------------------------
(* The two halves of a snapshot. *)

(* Two texts that are not empty and hash alike are the same or both missing. *)
LEMMA Texts ==
    ASSUME NEW x, NEW y, x # "", y # "", OrEmpty(x) = OrEmpty(y)
    PROVE  x = y
BY DEF OrEmpty

(* A missing text hashes like an empty one, but the contract rules those out. *)
LEMMA SameHash ==
    ASSUME NEW s, IsSnapshot(s), NEW t, IsSnapshot(t),
           metadata_hash(HostMetadata(s)) = metadata_hash(HostMetadata(t))
    PROVE  HostMetadata(s) = HostMetadata(t)
<1> DEFINE Dev(snap, i) == <<snap.gres[i].index, snap.gres[i].name, OrEmpty(snap.gres[i].uuid),
                             snap.gres[i].total>>
<1>1. \A u \in {s, t} :
          metadata_hash(HostMetadata(u)) =
              <<u.host, OrEmpty(u.driver), [i \in DOMAIN u.gres |-> Dev(u, i)]>>
  BY DEF metadata_hash, HostMetadata
<1> HIDE DEF Dev
<1>2. /\ s.host = t.host /\ OrEmpty(s.driver) = OrEmpty(t.driver)
      /\ [i \in DOMAIN s.gres |-> Dev(s, i)] = [i \in DOMAIN t.gres |-> Dev(t, i)]
  BY <1>1
<1>3. DOMAIN s.gres = DOMAIN t.gres /\ \A i \in DOMAIN s.gres : Dev(s, i) = Dev(t, i)
  <2>1. /\ DOMAIN [i \in DOMAIN s.gres |-> Dev(s, i)] = DOMAIN s.gres
        /\ DOMAIN [i \in DOMAIN t.gres |-> Dev(t, i)] = DOMAIN t.gres
    OBVIOUS
  <2>2. DOMAIN s.gres = DOMAIN t.gres
    BY <1>2, <2>1
  <2>3. ASSUME NEW i \in DOMAIN s.gres PROVE Dev(s, i) = Dev(t, i)
    <3>1. /\ [k \in DOMAIN s.gres |-> Dev(s, k)][i] = Dev(s, i)
          /\ [k \in DOMAIN t.gres |-> Dev(t, k)][i] = Dev(t, i)
      BY <2>2
    <3> QED
      BY <1>2, <3>1
  <2> QED
    BY <2>2, <2>3
<1>4. s.driver = t.driver
  BY <1>2, Texts DEF IsSnapshot, DevicesInContract
<1>5. ASSUME NEW i \in DOMAIN s.gres
      PROVE  /\ s.gres[i].index = t.gres[i].index /\ s.gres[i].name = t.gres[i].name
             /\ s.gres[i].uuid = t.gres[i].uuid /\ s.gres[i].total = t.gres[i].total
  <2>1. /\ s.gres[i].index = t.gres[i].index /\ s.gres[i].name = t.gres[i].name
        /\ OrEmpty(s.gres[i].uuid) = OrEmpty(t.gres[i].uuid) /\ s.gres[i].total = t.gres[i].total
    BY <1>3 DEF Dev
  <2>2. s.gres[i].uuid # "" /\ t.gres[i].uuid # ""
    BY <1>3 DEF IsSnapshot, DevicesInContract
  <2> QED
    BY <2>1, <2>2, Texts
<1> QED
  BY <1>2, <1>3, <1>4, <1>5 DEF HostMetadata

(* Put together again, the two halves are the snapshot. *)
LEMMA Rebuilt ==
    ASSUME NEW s, IsSnapshot(s)
    PROVE  to_snapshot(RuntimeSnapshot(s), HostMetadata(s)) = s
<1> DEFINE meta == HostMetadata(s)
           rt == RuntimeSnapshot(s)
           Place(index) == {i \in DOMAIN meta.gres : meta.gres[i].index = index}
           Static(index) ==
               IF Place(index) = {} THEN [name |-> "unknown", uuid |-> None, total |-> 0]
               ELSE meta.gres[CHOOSE i \in Place(index) : \A j \in Place(index) : i <= j]
           Dev(i) == [index |-> rt.gres[i].index, name |-> Static(rt.gres[i].index).name,
                      uuid |-> Static(rt.gres[i].index).uuid,
                      total |-> Static(rt.gres[i].index).total,
                      temp |-> rt.gres[i].temp, used |-> rt.gres[i].used,
                      util |-> rt.gres[i].util, memutil |-> rt.gres[i].memutil,
                      procs |-> rt.gres[i].procs]
<1>1. PICK n \in Nat : s.gres = [i \in 1..n |-> s.gres[i]]
  BY DEF IsSnapshot
<1>2. DOMAIN s.gres = 1..n
  BY <1>1, Zenon
<1>3. \A i \in 1..n : DeviceShape(s.gres[i]) /\ s.gres[i].index = i - 1
  BY <1>2 DEF IsSnapshot, DevicesInContract
<1>4. /\ meta.host = s.host /\ meta.driver = s.driver /\ DOMAIN meta.gres = 1..n
      /\ \A i \in 1..n : /\ meta.gres[i].index = s.gres[i].index
                         /\ meta.gres[i].name = s.gres[i].name
                         /\ meta.gres[i].uuid = s.gres[i].uuid
                         /\ meta.gres[i].total = s.gres[i].total
  BY <1>2 DEF HostMetadata
<1>5. /\ DOMAIN rt.gres = 1..n
      /\ \A i \in 1..n : /\ rt.gres[i].index = s.gres[i].index /\ rt.gres[i].temp = s.gres[i].temp
                         /\ rt.gres[i].used = s.gres[i].used /\ rt.gres[i].util = s.gres[i].util
                         /\ rt.gres[i].memutil = s.gres[i].memutil
                         /\ rt.gres[i].procs = s.gres[i].procs
  BY <1>2 DEF RuntimeSnapshot
<1>6. to_snapshot(rt, meta) = [host |-> meta.host, driver |-> meta.driver,
                               gres |-> [i \in DOMAIN rt.gres |-> Dev(i)]]
  BY DEF to_snapshot
<1> HIDE DEF meta, rt
<1>7. ASSUME NEW i \in 1..n PROVE Static(s.gres[i].index) = meta.gres[i]
  <2>1. \A j \in 1..n : meta.gres[j].index = j - 1
    BY <1>3, <1>4
  <2>2. Place(s.gres[i].index) = {i}
    <3>1. \A j \in 1..n : meta.gres[j].index = s.gres[i].index <=> j = i
      BY <1>3, <2>1
    <3> QED
      BY <1>4, <3>1
  <2> HIDE DEF Place
  <2>3. i <= i
    OBVIOUS
  <2>4. (CHOOSE k \in {i} : \A j \in {i} : k <= j) = i
    BY <2>3
  <2> QED
    BY <2>2, <2>4
<1> HIDE DEF Static
<1>8. ASSUME NEW i \in 1..n PROVE Dev(i) = s.gres[i]
  <2>1. rt.gres[i].index = s.gres[i].index
    BY <1>5
  <2>2. /\ Static(rt.gres[i].index).name = s.gres[i].name
        /\ Static(rt.gres[i].index).uuid = s.gres[i].uuid
        /\ Static(rt.gres[i].index).total = s.gres[i].total
    BY <1>4, <1>7, <2>1
  <2>3. DeviceShape(s.gres[i])
    BY <1>3
  <2>4. Dev(i) = [index |-> s.gres[i].index, name |-> s.gres[i].name, uuid |-> s.gres[i].uuid,
                  total |-> s.gres[i].total, temp |-> s.gres[i].temp, used |-> s.gres[i].used,
                  util |-> s.gres[i].util, memutil |-> s.gres[i].memutil, procs |-> s.gres[i].procs]
    BY <1>5, <2>2
  <2> QED
    BY <2>3, <2>4 DEF DeviceShape
<1> HIDE DEF Dev
<1>9. [i \in DOMAIN rt.gres |-> Dev(i)] = s.gres
  BY <1>1, <1>5, <1>8
<1>10. s = [host |-> s.host, driver |-> s.driver, gres |-> s.gres]
  BY DEF IsSnapshot
<1> QED
  BY <1>4, <1>6, <1>9, <1>10 DEF meta, rt

-----------------------------------------------------------------------------
(* The invariant. *)

(* The writer thread and the inventories. *)
Writing ==
    /\ tick \in Nat /\ mem \in [length : Nat, text : Nat]
    /\ inventory \in Inventories \cup {None} /\ file \in Inventories \cup {None}
    /\ wpc # "off" => inventory \in Inventories

(* The collectors: an inventory is validated before it is used, and the devices
   read so far are the driver's first ones. *)
Reading == cpc \in {"length", "text"} => cinv \in Inventories /\ validate_inventory(cinv)
Scanning == cpc = "device" => /\ mode = "nvml" /\ AllScanned(got)
                              /\ count \in 0..Len(Devices) /\ count <= IndexMax
                              /\ device = Len(got) /\ device <= count

(* The backend: whatever it holds was part of a snapshot in contract, though
   not of one and the same. *)
IsMetadata(meta) == \E s : IsSnapshot(s) /\ meta = HostMetadata(s)
Collected == latest # None => /\ IsSnapshot(latest) /\ SnapshotInContract
                              /\ cpc # "start"
Asking ==
    /\ metadata # None => IsSnapshot(latest) /\ IsMetadata(metadata)
    /\ qpc \in {"metadata", "build"} => /\ IsSnapshot(latest) /\ IsSnapshot(source)
                                        /\ runtime = RuntimeSnapshot(source)
    /\ qpc = "build" => IsMetadata(metadata)

IInv == Writing /\ Reading /\ Scanning /\ Collected /\ Asking

(* Nothing is collected at first. *)
LEMMA InitIInv == Init => IInv
<1> SUFFICES ASSUME Init PROVE IInv
  OBVIOUS
<1>1. Writing
  BY DEF Init, Writing
<1> QED
  BY <1>1 DEF Init, IInv, Reading, Scanning, Collected, Asking

(* A sequence is the function of its elements. *)
LEMMA SequenceForm ==
    ASSUME NEW S, NEW q \in Seq(S)
    PROVE  q = [i \in 1..Len(q) |-> q[i]]
OBVIOUS

(* One more device. *)
LEMMA OneMore ==
    ASSUME NEW g, AllScanned(g), NEW m \in 0..Len(Devices), Len(g) < m, NEW r,
           Scanned(r, Len(g) + 1)
    PROVE  AllScanned(Append(g, r))
<1>1. Len(g) \in 0..Len(Devices) /\ g = [i \in 1..Len(g) |-> g[i]]
  BY DEF AllScanned
<1>2. Len(Devices) \in Nat
  BY DevicesKnown
<1>3. Len(g) \in Nat /\ Len(g) + 1 \in 0..Len(Devices)
  BY <1>1, <1>2
<1> DEFINE S == {g[i] : i \in 1..Len(g)} \cup {r}
<1>4. g \in Seq(S) /\ r \in S
  BY <1>1, <1>3
<1> HIDE DEF S
<1>5. /\ Append(g, r) \in Seq(S) /\ Len(Append(g, r)) = Len(g) + 1
      /\ \A i \in 1..Len(g) : Append(g, r)[i] = g[i]
      /\ Append(g, r)[Len(g) + 1] = r
  BY <1>4
<1>6. Append(g, r) = [i \in 1..Len(Append(g, r)) |-> Append(g, r)[i]]
  BY <1>5, SequenceForm
<1>7. ASSUME NEW i \in 1..Len(Append(g, r)) PROVE Scanned(Append(g, r)[i], i)
  <2>1. i \in 1..Len(g) \/ i = Len(g) + 1
    BY <1>3, <1>5
  <2> QED
    BY <1>5, <2>1 DEF AllScanned
<1> QED
  BY <1>3, <1>5, <1>6, <1>7 DEF AllScanned

(* One more device makes the list longer by one. *)
LEMMA OneLonger ==
    ASSUME NEW g, AllScanned(g), NEW r
    PROVE  Len(Append(g, r)) = Len(g) + 1
<1>1. Len(g) \in Nat /\ g = [i \in 1..Len(g) |-> g[i]]
  BY DevicesKnown, Counting DEF AllScanned
<1> DEFINE S == {g[i] : i \in 1..Len(g)} \cup {r}
<1>2. g \in Seq(S) /\ r \in S
  BY <1>1
<1> HIDE DEF S
<1> QED
  BY <1>2

(* Devices read one after the other. *)
LEMMA DeviceScanned ==
    ASSUME AllScanned(got), device = Len(got), NEW m \in 0..Len(Devices), device < m,
           NEW name, name \in {Devices[device + 1].name, "unknown"},
           NEW uuid, uuid \in {Devices[device + 1].uuid, None},
           NEW reading \in Readings, reading.used <= Devices[device + 1].total, NEW lists
    PROVE  AllScanned(Append(got, NvmlDevice(name, uuid, reading, lists)))
<1>1. /\ Len(got) \in Nat /\ Len(Devices) \in Nat /\ Len(got) \in 0..Len(Devices)
  BY DevicesKnown, Counting DEF AllScanned
<1>2. PICK k : k = device + 1
  OBVIOUS
<1>3. k \in 1..Len(Devices) /\ device = k - 1
  <2>1. \A l \in Nat, n \in Nat : \A o \in 0..n : l < o => l + 1 \in 1..n /\ l = (l + 1) - 1
    OBVIOUS
  <2> QED
    BY <1>1, <1>2, <2>1
<1>4. /\ Devices[k].total \in Nat /\ Devices[k].total >= MiB
      /\ reading.used \in Nat /\ reading.util \in Nat /\ reading.memutil \in Nat
  BY <1>3, DevicesKnown, CollectorAssumption
<1>5. Scanned(NvmlDevice(name, uuid, reading, lists), k)
  <2>1. PICK r : r = NvmlDevice(name, uuid, reading, lists)
    OBVIOUS
  <2>2. /\ DeviceShape(r) /\ r.index = device /\ r.name = name /\ r.uuid = uuid
        /\ r.total = Devices[device + 1].total \div MiB /\ r.used = reading.used \div MiB
        /\ r.util = Least(reading.util, 100) /\ r.memutil = Least(reading.memutil, 100)
    BY <2>1 DEF NvmlDevice, DeviceShape
  <2>3. reading.used <= Devices[k].total
    BY <1>2
  <2>4. reading.used \div MiB <= Devices[k].total \div MiB
    BY <1>4, <2>3, Rounding
  <2>5. 100 \in Nat
    OBVIOUS
  <2>6. Least(reading.util, 100) <= 100 /\ Least(reading.memutil, 100) <= 100
    BY <1>4, <2>5, LeastBelow
  <2>7. /\ r.index = k - 1 /\ r.name \in {Devices[k].name, "unknown"}
        /\ r.uuid \in {Devices[k].uuid, None} /\ r.total = Devices[k].total \div MiB
        /\ r.used <= r.total /\ r.util <= 100 /\ r.memutil <= 100
    BY <1>2, <1>3, <2>2, <2>4, <2>6
  <2> QED
    BY <2>1, <2>2, <2>7 DEF Scanned
<1> QED
  BY <1>2, <1>5, OneMore

(* What read_runtime_mmap returns are values, torn or not. *)
LEMMA ReadableValues ==
    ASSUME Writing, NEW rt \in Readable, rt # None
    PROVE  IsValues(rt)
<1>1. /\ wpc # "off" /\ inventory \in Inventories
  BY DEF Readable, Writing
<1>2. tick \in Nat /\ mem.text \in Nat
  BY DEF Writing
<1>3. /\ IsValues(runtime_for_tick(inventory, mem.text))
      /\ IsValues(runtime_for_tick(inventory, tick))
  BY <1>1, <1>2, TickValues
<1>4. \A x \in Garbage : IsValues(x)
  BY CollectorAssumption DEF IsValues
<1>5. \/ rt \in {runtime_for_tick(inventory, mem.text), runtime_for_tick(inventory, tick)}
      \/ rt \in Garbage
  BY <1>1, Zenon DEF Readable
<1> QED
  BY <1>3, <1>4, <1>5

(* The writer and the editors of the file leave numbers and inventories. *)
LEMMA StepWriting == Writing /\ [Next]_vars => Writing'
<1> SUFFICES ASSUME Writing, [Next]_vars PROVE Writing'
  OBVIOUS
<1>1. CASE StartTest
  BY <1>1 DEF Writing, StartTest, queryVars
<1>2. CASE EditBegin \/ EditEnd
  BY <1>2 DEF Writing, EditBegin, EditEnd
<1>3. CASE WriteLength
  BY <1>3 DEF Writing, WriteLength
<1>4. CASE WriteText
  BY <1>4 DEF Writing, WriteText
<1>5. CASE UNCHANGED <<tick, mem, inventory, file, wpc>>
  BY <1>5 DEF Writing
<1>6. CASE UNCHANGED vars
  BY <1>5, <1>6 DEF vars, collVars
<1> QED
  BY <1>1, <1>2, <1>3, <1>4, <1>5, <1>6 DEF Next, StartNvml, CollectTest, ReadLength, ReadText,
     CollectNvml, ReadDevice, DeviceFails, NvmlDone, Handshake, QueryRuntime, QueryMetadata, Build,
     collVars

(* Between the length and the text the inventory stays the validated one. *)
LEMMA StepReading == Writing /\ Reading /\ [Next]_vars => Reading'
<1> SUFFICES ASSUME Writing, Reading, [Next]_vars PROVE Reading'
  OBVIOUS
<1>1. CASE CollectTest
  <2>1. /\ cinv' # None /\ validate_inventory(cinv')
        /\ cinv' \in Inventories \cup {None}
    BY <1>1 DEF CollectTest, Writing
  <2> QED
    BY <2>1 DEF Reading
<1>2. CASE ReadLength
  BY <1>2 DEF Reading, ReadLength
<1>3. CASE cpc' \notin {"length", "text"}
  BY <1>3 DEF Reading
<1>4. CASE UNCHANGED <<cpc, cinv>>
  BY <1>4 DEF Reading
<1>5. CASE UNCHANGED vars
  BY <1>4, <1>5 DEF vars, collVars
<1> QED
  BY <1>1, <1>2, <1>3, <1>4, <1>5 DEF Next, StartTest, StartNvml, EditBegin, EditEnd, WriteLength,
     WriteText, ReadText, CollectNvml, ReadDevice, DeviceFails, NvmlDone, Handshake, QueryRuntime,
     QueryMetadata, Build, collVars

(* NVML devices are read in their order, none is left out. *)
LEMMA StepScanning == Scanning /\ [Next]_vars => Scanning'
<1> SUFFICES ASSUME Scanning, [Next]_vars PROVE Scanning'
  OBVIOUS
<1>1. CASE CollectNvml
  <2>1. Len(Devices) \in Nat /\ IndexMax \in Nat
    BY DevicesKnown, CollectorAssumption
  <2>2. count' \in 0..Len(Devices) /\ count' <= IndexMax /\ 0 <= count'
    BY <1>1, <2>1 DEF CollectNvml, Least
  <2>3. AllScanned(<<>>) /\ Len(<<>>) = 0
    BY <2>1 DEF AllScanned
  <2> QED
    BY <1>1, <2>2, <2>3 DEF Scanning, CollectNvml
<1>2. CASE ReadDevice
  <2>1. /\ AllScanned(got) /\ count \in 0..Len(Devices) /\ device < count /\ device = Len(got)
        /\ mode = "nvml" /\ count <= IndexMax
        /\ UNCHANGED <<mode, count, cpc>> /\ device' = device + 1
    BY <1>2 DEF Scanning, ReadDevice
  <2>2. PICK name, uuid, reading, lists :
            /\ got' = Append(got, NvmlDevice(name, uuid, reading, lists))
            /\ name \in {Devices[device + 1].name, "unknown"}
            /\ uuid \in {Devices[device + 1].uuid, None}
            /\ reading \in Readings /\ reading.used <= Devices[device + 1].total
    BY <1>2 DEF ReadDevice
  <2>3. AllScanned(got')
    BY <2>1, <2>2, DeviceScanned
  <2>4. Len(got') = Len(got) + 1
    BY <2>1, <2>2, OneLonger
  <2>5. device + 1 <= count
    <3>1. Len(got) \in Nat /\ Len(Devices) \in Nat
      BY <2>1, DevicesKnown, Counting DEF AllScanned
    <3> QED
      BY <2>1, <3>1
  <2> QED
    BY <2>1, <2>3, <2>4, <2>5 DEF Scanning
<1>3. CASE cpc' # "device"
  BY <1>3 DEF Scanning
<1>4. CASE UNCHANGED <<mode, cpc, scanVars>>
  BY <1>4 DEF Scanning, scanVars
<1>5. CASE UNCHANGED vars
  BY <1>4, <1>5 DEF vars, collVars
<1> QED
  BY <1>1, <1>2, <1>3, <1>4, <1>5 DEF Next, StartTest, StartNvml, EditBegin, EditEnd, WriteLength,
     WriteText, CollectTest, ReadLength, ReadText, DeviceFails, NvmlDone, Handshake, QueryRuntime,
     QueryMetadata, Build, collVars

(* What a snapshot of the test collector is made of is what it was to have. *)
LEMMA TestDue ==
    ASSUME IInv, ReadText
    PROVE  IsSnapshot(latest') /\ SnapshotInContract'
<1>1. cinv \in Inventories /\ validate_inventory(cinv) /\ Writing
  BY DEF ReadText, IInv, Reading
<1>2. PICK rt \in Readable :
          latest' = snapshot_from_inventory_runtime(cinv,
                        IF rt = None THEN runtime_for_tick(cinv, 0) ELSE rt)
  BY DEF ReadText
<1>3. PICK values : values = IF rt = None THEN runtime_for_tick(cinv, 0) ELSE rt
  OBVIOUS
<1>4. IsValues(runtime_for_tick(cinv, 0))
  BY <1>1, TickValues
<1>5. IsValues(values)
  BY <1>1, <1>3, <1>4, ReadableValues
<1>6. IsSnapshot(latest')
  BY <1>1, <1>2, <1>3, <1>5, TestSnapshot
<1>7. Whole(latest', due')
  <2>1. due' = [i \in DOMAIN cinv.gres |->
                  [name |-> cinv.gres[i].name, uuid |-> cinv.gres[i].uuid,
                   total |-> cinv.gres[i].total]]
    BY DEF ReadText
  <2>2. /\ DOMAIN latest'.gres = DOMAIN cinv.gres
        /\ \A i \in DOMAIN cinv.gres : /\ latest'.gres[i].name = cinv.gres[i].name
                                       /\ latest'.gres[i].uuid = cinv.gres[i].uuid
                                       /\ latest'.gres[i].total = cinv.gres[i].total
    BY <1>2 DEF snapshot_from_inventory_runtime, Resource
  <2> QED
    BY <2>1, <2>2 DEF Whole
<1>8. ASSUME wpc' = "off" PROVE ProcessesInContract(latest')
  <2>1. wpc = "off"
    BY <1>8 DEF ReadText
  <2>2. rt = None
    BY <2>1 DEF Readable
  <2> QED
    BY <1>1, <1>2, <2>2 DEF validate_inventory, validate_gres_node_snapshot_contract
<1>9. DevicesInContract(latest')
  BY <1>6 DEF IsSnapshot
<1> QED
  BY <1>6, <1>7, <1>8, <1>9 DEF SnapshotInContract

(* What a snapshot of the NVML collector is made of is what it was to have. *)
LEMMA NvmlDue ==
    ASSUME IInv, NvmlDone
    PROVE  IsSnapshot(latest') /\ SnapshotInContract'
<1>1. /\ AllScanned(got) /\ Len(got) = count /\ count <= IndexMax
      /\ mode' = "nvml" /\ count \in 0..Len(Devices)
  BY DEF NvmlDone, IInv, Scanning
<1>2. None # ""
  BY CollectorAssumption
<1>3. PICK driver : driver # "" /\ latest' = [host |-> "node", driver |-> driver, gres |-> got]
  BY <1>2 DEF NvmlDone
<1>4. IsSnapshot(latest')
  BY <1>1, <1>3, NvmlSnapshot
<1>5. Whole(latest', due')
  <2>1. due' = [i \in 1..count |-> [name |-> Devices[i].name, uuid |-> Devices[i].uuid,
                                   total |-> Devices[i].total \div MiB]]
    BY DEF NvmlDone
  <2>2. latest'.gres = got
    BY <1>3
  <2>3. DOMAIN got = 1..count /\ \A i \in 1..count : Scanned(got[i], i)
    BY <1>1, Zenon DEF AllScanned
  <2>4. \A i \in 1..count : /\ due'[i].name = Devices[i].name /\ due'[i].uuid = Devices[i].uuid
                            /\ due'[i].total = Devices[i].total \div MiB
    BY <2>1
  <2>5. DOMAIN due' = 1..count
    BY <2>1
  <2> QED
    BY <2>2, <2>3, <2>4, <2>5, Zenon DEF Whole, Scanned
<1>6. DevicesInContract(latest') /\ mode' # "test"
  BY <1>1, <1>4 DEF IsSnapshot
<1> QED
  BY <1>4, <1>5, <1>6 DEF SnapshotInContract

(* The last snapshot stays, or another one takes its place. *)
LEMMA StepLatest ==
    ASSUME IInv, [Next]_vars
    PROVE  \/ UNCHANGED latest /\ Collected'
           \/ IsSnapshot(latest') /\ Collected' /\ UNCHANGED queryVars
<1>1. CASE ReadText
  BY <1>1, TestDue DEF ReadText, Collected
<1>2. CASE NvmlDone
  BY <1>2, NvmlDue DEF NvmlDone, Collected
<1>3. CASE /\ UNCHANGED <<latest, due, mode>>
           /\ cpc # "start" => UNCHANGED wpc \/ (wpc # "off" /\ wpc' # "off")
           /\ cpc # "start" => cpc' # "start"
  BY <1>3 DEF IInv, Collected, SnapshotInContract
<1>4. CASE UNCHANGED vars
  BY <1>3, <1>4 DEF vars, collVars
<1>5. CASE WriteLength \/ WriteText
  <2>1. UNCHANGED <<latest, due, mode, cpc>> /\ wpc # "off" /\ wpc' # "off"
    BY <1>5 DEF WriteLength, WriteText
  <2> QED
    BY <1>3, <2>1
<1>6. CASE StartTest \/ StartNvml
  <2>1. UNCHANGED <<latest, due, mode>> /\ cpc = "start"
    BY <1>6 DEF StartTest, StartNvml
  <2> QED
    BY <1>3, <2>1
<1>7. CASE EditBegin \/ EditEnd \/ CollectTest \/ ReadLength \/ CollectNvml \/ ReadDevice \/ DeviceFails
  <2>1. UNCHANGED <<latest, due, mode, wpc>> /\ (cpc # "start" => cpc' # "start")
    BY <1>7 DEF EditBegin, EditEnd, CollectTest, ReadLength, CollectNvml, ReadDevice, DeviceFails
  <2> QED
    BY <1>3, <2>1
<1>8. CASE Handshake \/ QueryRuntime \/ QueryMetadata \/ Build
  <2>1. UNCHANGED <<latest, due, mode, wpc, cpc>>
    BY <1>8 DEF Handshake, QueryRuntime, QueryMetadata, Build, collVars
  <2> QED
    BY <1>3, <2>1
<1> QED
  BY <1>1, <1>2, <1>4, <1>5, <1>6, <1>7, <1>8 DEF Next

(* The sources of the two halves are snapshots in contract. *)
LEMMA StepAsking == IInv /\ [Next]_vars => Asking'
<1> SUFFICES ASSUME IInv, [Next]_vars PROVE Asking'
  OBVIOUS
<1>0. Collected /\ Asking
  BY DEF IInv
<1>1. CASE IsSnapshot(latest') /\ UNCHANGED queryVars
  BY <1>0, <1>1 DEF Asking, queryVars
<1>2. CASE UNCHANGED <<latest, queryVars>>
  BY <1>0, <1>2 DEF Asking, queryVars
<1>3. CASE Handshake
  <2>1. IsSnapshot(latest) /\ latest' = latest
    BY <1>0, <1>3 DEF Handshake, Collected, collVars
  <2>2. IsMetadata(metadata')
    BY <1>3, <2>1 DEF Handshake, IsMetadata
  <2> QED
    BY <1>0, <1>3, <2>1, <2>2 DEF Handshake, Asking
<1>4. CASE QueryRuntime
  <2>1. IsSnapshot(latest) /\ IsMetadata(metadata) /\ latest' = latest /\ metadata' = metadata
    BY <1>0, <1>4 DEF QueryRuntime, Asking, collVars
  <2>2. source' = latest /\ runtime' = RuntimeSnapshot(latest)
    BY <1>4 DEF QueryRuntime
  <2> QED
    BY <1>0, <2>1, <2>2 DEF Asking
<1>5. CASE QueryMetadata
  <2>1. /\ IsSnapshot(latest) /\ IsSnapshot(source) /\ runtime = RuntimeSnapshot(source)
        /\ UNCHANGED <<latest, source, runtime>> /\ metadata' = HostMetadata(latest)
    BY <1>0, <1>5 DEF QueryMetadata, Asking, collVars
  <2>2. IsMetadata(metadata')
    BY <2>1 DEF IsMetadata
  <2> QED
    BY <1>0, <2>1, <2>2 DEF Asking
<1>6. CASE Build
  BY <1>0, <1>6 DEF Build, Asking, collVars
<1> QED
  <2>1. Handshake \/ QueryRuntime \/ QueryMetadata \/ Build \/ UNCHANGED queryVars
    BY DEF Next, vars, StartTest, StartNvml, EditBegin, EditEnd, WriteLength, WriteText, CollectTest,
       ReadLength, ReadText, CollectNvml, ReadDevice, DeviceFails, NvmlDone
  <2> QED
    BY <1>1, <1>2, <1>3, <1>4, <1>5, <1>6, <2>1, StepLatest

(* Every step keeps the invariant. *)
LEMMA StepIInv == IInv /\ [Next]_vars => IInv'
BY StepWriting, StepReading, StepScanning, StepLatest, StepAsking DEF IInv

(* Every snapshot has every device that was there when it was begun, in its
   place, and meets the contract's demands on devices, whatever the writer of
   the mapped file, a torn text, the editor of the inventory file and the driver
   do meanwhile; without a mapped file it meets those on processes too. *)
THEOREM SnapshotsInContract == Spec => []SnapshotInContract
<1>1. IInv => SnapshotInContract
  BY DEF IInv, Collected, SnapshotInContract
<1> QED
  BY <1>1, InitIInv, StepIInv, PTL DEF Spec

(* What the backend makes of values and metadata with one hash is the snapshot
   the server collected, although the two halves were asked for apart and other
   snapshots may have been collected between. *)
THEOREM RebuiltAsCollected == Spec => []RebuiltIsCollected
<1>1. IInv => RebuiltIsCollected
  <2> SUFFICES ASSUME IInv, qpc = "build", metadata_hash(metadata) = runtime.hash
               PROVE  to_snapshot(runtime, metadata) = source
    BY DEF RebuiltIsCollected
  <2>1. IsSnapshot(source) /\ runtime = RuntimeSnapshot(source)
    BY DEF IInv, Asking
  <2>2. PICK s : IsSnapshot(s) /\ metadata = HostMetadata(s)
    BY DEF IInv, Asking, IsMetadata
  <2>3. runtime.hash = metadata_hash(HostMetadata(source))
    BY <2>1 DEF RuntimeSnapshot
  <2>4. metadata = HostMetadata(source)
    BY <2>1, <2>2, <2>3, SameHash
  <2> QED
    BY <2>1, <2>4, Rebuilt
<1> QED
  BY <1>1, InitIInv, StepIInv, PTL DEF Spec

=============================================================================
