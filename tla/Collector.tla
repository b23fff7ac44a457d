----------------------------- MODULE Collector ------------------------------
(***************************************************************************)
(* Where snapshots come from and what becomes of them                      *)
(* (crates/server/src/collector.rs, crates/common/src/protocol.rs).        *)
(*                                                                         *)
(* The test collector reads an inventory file, again for every snapshot if *)
(* asked to, and the values of a moment from a file mapped into memory,    *)
(* which a writer thread rewrites in place: length first, then text, with  *)
(* nothing to keep a reader out.  The NVML collector asks the driver for   *)
(* one device after the other.  A snapshot is sent in two halves, metadata *)
(* and runtime values; the backend asks for the metadata again when the    *)
(* hash that comes with the values is not that of the metadata it has.     *)
(*                                                                         *)
(* A torn text either does not parse or yields some other values: Garbage. *)
(* Only one snapshot is collected at a time (GresCache), so there is one   *)
(* reader.                                                                 *)
(*                                                                         *)
(* Operators whose comment begins with "Deviation" are used by no          *)
(* specification: slips that the properties have to catch.                 *)
(***************************************************************************)
EXTENDS Integers, Sequences, FiniteSets, SequencesExt, TLC

CONSTANTS Inventories,   \* bound: what the inventory file may hold
          Garbage,       \* bound: runtime values a torn text may decode to
          IndexMax,      \* u8::MAX
          Devices,       \* the devices NVML knows, as [name, uuid, total], in bytes
          Readings,      \* bound: [used, util, memutil] the driver may report of a device
          RunningLists,  \* bound: lists of [pid, uid, used] of one device, in bytes
          None,
          MaxTicks,      \* bound: rewrites of the mapped file
          MaxEdits,      \* bound: edits of the inventory file
          MaxFaults      \* bound: NVML calls that fail

MiB == 1024 * 1024

(* Indexes and sizes are unsigned, whatever a text says.  What the driver calls
   its devices is not blank, no two have the same uuid, and none has less than
   one MiB of memory. *)
ASSUME CollectorAssumption ==
    /\ Inventories # {} /\ None \notin Inventories /\ None # ""
    /\ \A inv \in Inventories :
           /\ Len(inv.gres) \in Nat /\ DOMAIN inv.gres = 1..Len(inv.gres)
           /\ \A i \in DOMAIN inv.gres : inv.gres[i].index \in Nat /\ inv.gres[i].total \in Nat
    /\ \A rt \in Garbage : \A r \in rt : r.used \in Nat /\ r.util \in Nat /\ r.memutil \in Nat
    /\ Len(Devices) \in Nat /\ DOMAIN Devices = 1..Len(Devices)
    /\ \A i \in DOMAIN Devices : /\ Devices[i].name # "" /\ Devices[i].uuid # ""
                                 /\ Devices[i].total \in Nat /\ Devices[i].total >= MiB
    /\ \A i, j \in DOMAIN Devices :
           i # j /\ Devices[i].uuid # None => Devices[i].uuid # Devices[j].uuid
    /\ \A r \in Readings : r.used \in Nat /\ r.util \in Nat /\ r.memutil \in Nat
    /\ IndexMax \in Nat /\ MaxTicks \in Nat /\ MaxEdits \in Nat /\ MaxFaults \in Nat

VARIABLES mode,          \* build_collector: test or nvml
          reload,        \* test_inventory_reload
          inventory,     \* the collector's own inventory
          file,          \* the inventory file; None while it is being written
          tick, wpc,     \* the writer thread
          mem,           \* the mapped file: the ticks of its length and its text
          cpc,           \* where collect_gres is
          cinv, chead,   \* ... its inventory, and the length it has read
          count, device,  \* ... number of devices, and the one it is at
          got,           \* ... devices read
          latest,        \* the last snapshot collected
          due,           \* the devices it was to have (history)
          qpc,           \* where the backend's query is
          runtime, source, \* the values it got, and the snapshot they are from
          metadata,      \* the metadata it has
          edits, faults

scanVars == <<count, device, got>>
collVars == <<mode, reload, inventory, file, tick, wpc, mem, cpc, cinv, chead, scanVars,
              latest, due, edits, faults>>
queryVars == <<qpc, runtime, source, metadata>>
vars == <<collVars, queryVars>>

Least(a, b) == IF a < b THEN a ELSE b
Most(a, b) == IF a < b THEN b ELSE a

-----------------------------------------------------------------------------
(* The test collector's values. *)

runtime_resource(res, t) ==
    LET idx == res.index
        max_used == Most(1, res.total - 1)
        used == Least(max_used, Most(1, (1234 + idx * 512 + t * 257) % max_used))
    IN [index |-> idx,
        temp |-> 28 + ((t + idx) % 55),
        used |-> used,
        util |-> Most(1, (Most(1, 87 - idx * 7) + t * 13) % 101),
        memutil |-> Least(100, (used * 100) \div Most(1, res.total)),
        procs |-> <<[pid |-> 4242 + idx * 10, uid |-> 1000 + idx, used |-> 768 + idx * 128 + (t % 64)],
                    [pid |-> 4243 + idx * 10, uid |-> 2000 + idx, used |-> 128]>>]

runtime_for_tick(inv, t) == {runtime_resource(inv.gres[i], t) : i \in DOMAIN inv.gres}

(* Deviation: values are taken as they are. *)
Resource_unclamped(res, rt) ==
    [index |-> res.index, name |-> res.name, uuid |-> res.uuid, total |-> res.total,
     temp |-> rt.temp, used |-> rt.used, util |-> rt.util, memutil |-> rt.memutil,
     procs |-> rt.procs]

(* One device: the inventory's facts, the values cut down to what they may be. *)
Resource(res, rt) ==
    [index |-> res.index, name |-> res.name, uuid |-> res.uuid, total |-> res.total,
     temp |-> rt.temp, used |-> Least(rt.used, res.total), util |-> Least(rt.util, 100),
     memutil |-> Least(rt.memutil, 100), procs |-> rt.procs]

NoValues == [temp |-> None, used |-> 0, util |-> 0, memutil |-> 0, procs |-> <<>>]

(* The inventory says which devices there are; a device without values has
   zeroes, values without a device are dropped. *)
snapshot_from_inventory_runtime(inv, rt) ==
    [host |-> inv.host, driver |-> inv.driver,
     gres |-> [i \in DOMAIN inv.gres |->
                  LET mine == {r \in rt : r.index = inv.gres[i].index}
                  IN Resource(inv.gres[i],
                              IF mine = {} THEN NoValues ELSE CHOOSE r \in mine : TRUE)]]

(* validate_gres_node_snapshot_contract: what it says of the host and the
   devices, which are numbered from zero, ... *)
DevicesInContract(snap) ==
    /\ snap.host # "" /\ snap.driver # ""
    /\ \A i \in DOMAIN snap.gres :
           LET r == snap.gres[i]
           IN /\ r.index = i - 1 /\ i <= IndexMax /\ r.name # "" /\ r.total > 0
              /\ r.used <= r.total /\ r.util <= 100 /\ r.memutil <= 100
              /\ r.uuid # ""
              /\ \A j \in 1..(i - 1) : r.uuid # None => r.uuid # snap.gres[j].uuid

(* ... and of their processes. *)
ProcessesInContract(snap) ==
    \A i \in DOMAIN snap.gres : \A p \in ToSet(snap.gres[i].procs) :
        p.pid # 0 /\ p.used <= snap.gres[i].total

validate_gres_node_snapshot_contract(snap) == DevicesInContract(snap) /\ ProcessesInContract(snap)

(* Looks at the values of tick 0 only. *)
validate_inventory(inv) ==
    validate_gres_node_snapshot_contract(
        snapshot_from_inventory_runtime(inv, runtime_for_tick(inv, 0)))

-----------------------------------------------------------------------------
(* Two halves of a snapshot.  Commands of processes are in neither: both
   collectors and the cache drop them. *)
HostMetadata(snap) ==
    [host |-> snap.host, driver |-> snap.driver,
     gres |-> [i \in DOMAIN snap.gres |->
                  [index |-> snap.gres[i].index, name |-> snap.gres[i].name,
                   uuid |-> snap.gres[i].uuid, total |-> snap.gres[i].total]]]

OrEmpty(x) == IF x = None THEN "" ELSE x

(* Deviation: the memory of a device is not part of the hash. *)
metadata_hash_short(meta) ==
    <<meta.host, OrEmpty(meta.driver),
      [i \in DOMAIN meta.gres |->
          <<meta.gres[i].index, meta.gres[i].name, OrEmpty(meta.gres[i].uuid)>>]>>

(* Injective, but for a missing text, which hashes like an empty one. *)
metadata_hash(meta) ==
    <<meta.host, OrEmpty(meta.driver),
      [i \in DOMAIN meta.gres |->
          <<meta.gres[i].index, meta.gres[i].name, OrEmpty(meta.gres[i].uuid),
            meta.gres[i].total>>]>>

RuntimeSnapshot(snap) ==
    [hash |-> metadata_hash(HostMetadata(snap)),
     gres |-> [i \in DOMAIN snap.gres |->
                  [index |-> snap.gres[i].index, temp |-> snap.gres[i].temp,
                   used |-> snap.gres[i].used, util |-> snap.gres[i].util,
                   memutil |-> snap.gres[i].memutil, procs |-> snap.gres[i].procs]]]

(* A device the metadata does not list is called unknown and has no memory. *)
to_snapshot(rt, meta) ==
    LET Static(index) ==
            LET at == {i \in DOMAIN meta.gres : meta.gres[i].index = index}
            IN IF at = {} THEN [name |-> "unknown", uuid |-> None, total |-> 0]
               ELSE meta.gres[CHOOSE i \in at : \A j \in at : i <= j]
    IN [host |-> meta.host, driver |-> meta.driver,
        gres |-> [i \in DOMAIN rt.gres |->
                     LET r == rt.gres[i]
                     IN [index |-> r.index, name |-> Static(r.index).name,
                         uuid |-> Static(r.index).uuid, total |-> Static(r.index).total,
                         temp |-> r.temp, used |-> r.used, util |-> r.util,
                         memutil |-> r.memutil, procs |-> r.procs]]]

-----------------------------------------------------------------------------
(* The NVML collector has no inventory file. *)
Init ==
    /\ \/ mode = "test" /\ reload \in BOOLEAN /\ file \in Inventories
       \/ mode = "nvml" /\ reload = FALSE /\ file = None
    /\ inventory = None
    /\ tick = 0 /\ wpc = "off" /\ mem = [length |-> 0, text |-> 0]
    /\ cpc = "start" /\ cinv = None /\ chead = 0
    /\ count = 0 /\ device = 0 /\ got = <<>> /\ latest = None /\ due = <<>>
    /\ qpc = "idle" /\ runtime = None /\ source = None /\ metadata = None
    /\ edits = 0 /\ faults = 0

(* A call fails. *)
Fault == faults < MaxFaults /\ faults' = faults + 1

(* build_collector: the inventory must be valid, and the writer is started if
   test_runtime_path is set. *)
StartTest ==
    /\ cpc = "start" /\ mode = "test" /\ file # None
    /\ IF validate_inventory(file)
       THEN inventory' = file /\ cpc' = "idle" /\ wpc' \in {"idle", "off"}
       ELSE cpc' = "failed" /\ UNCHANGED <<inventory, wpc>>
    /\ UNCHANGED <<mode, reload, file, tick, mem, cinv, chead, scanVars, latest, due, edits,
                   faults, queryVars>>

StartNvml ==
    /\ cpc = "start" /\ mode = "nvml"
    /\ \/ cpc' = "idle" /\ UNCHANGED faults
       \/ cpc' = "failed" /\ Fault
    /\ UNCHANGED <<mode, reload, inventory, file, tick, wpc, mem, cinv, chead, scanVars, latest,
                   due, edits, queryVars>>

(* Somebody writes the inventory file anew: it is empty, then complete. *)
EditBegin ==
    /\ mode = "test" /\ cpc # "start" /\ file # None /\ edits < MaxEdits
    /\ edits' = edits + 1 /\ file' = None
    /\ UNCHANGED <<mode, reload, inventory, tick, wpc, mem, cpc, cinv, chead, scanVars, latest,
                   due, faults, queryVars>>

EditEnd ==
    /\ mode = "test" /\ file = None /\ file' \in Inventories
    /\ UNCHANGED <<mode, reload, inventory, tick, wpc, mem, cpc, cinv, chead, scanVars, latest,
                   due, edits, faults, queryVars>>

(* write_runtime_mmap *)
WriteLength ==
    /\ wpc = "idle" /\ tick < MaxTicks
    /\ mem' = [mem EXCEPT !.length = tick] /\ wpc' = "text"
    /\ UNCHANGED <<mode, reload, inventory, file, tick, cpc, cinv, chead, scanVars, latest, due,
                   edits, faults, queryVars>>

WriteText ==
    /\ wpc = "text"
    /\ mem' = [mem EXCEPT !.text = tick] /\ tick' = tick + 1 /\ wpc' = "idle"
    /\ UNCHANGED <<mode, reload, inventory, file, cpc, cinv, chead, scanVars, latest, due, edits,
                   faults, queryVars>>

-----------------------------------------------------------------------------
(* collect_gres of the test collector: an inventory that cannot be read or is
   not valid is ConfigInvalid, and there is no snapshot. *)
CollectTest ==
    /\ cpc = "idle" /\ mode = "test"
    /\ LET inv == IF reload THEN file ELSE inventory
       IN /\ inv # None /\ validate_inventory(inv)
          /\ cinv' = inv
    /\ cpc' = "length"
    /\ UNCHANGED <<mode, reload, inventory, file, tick, wpc, mem, chead, scanVars, latest, due,
                   edits, faults, queryVars>>

ReadLength ==
    /\ cpc = "length"
    /\ chead' = mem.length /\ cpc' = "text"
    /\ UNCHANGED <<mode, reload, inventory, file, tick, wpc, mem, cinv, scanVars, latest, due,
                   edits, faults, queryVars>>

(* What read_runtime_mmap may return; None is an error, or no path to read. *)
Readable ==
    IF wpc = "off" THEN {None}
    ELSE IF wpc = "text"
    THEN {None, runtime_for_tick(inventory, mem.text), runtime_for_tick(inventory, tick)} \cup Garbage
    ELSE {runtime_for_tick(inventory, mem.text)} \cup (IF chead = mem.text THEN {} ELSE {None})

(* Values that cannot be read are those of tick 0. *)
ReadText ==
    /\ cpc = "text"
    /\ \E rt \in Readable :
           latest' = snapshot_from_inventory_runtime(cinv,
                         IF rt = None THEN runtime_for_tick(cinv, 0) ELSE rt)
    /\ due' = [i \in DOMAIN cinv.gres |->
                  [name |-> cinv.gres[i].name, uuid |-> cinv.gres[i].uuid,
                   total |-> cinv.gres[i].total]]
    /\ cpc' = "idle" /\ cinv' = None /\ chead' = 0
    /\ UNCHANGED <<mode, reload, inventory, file, tick, wpc, mem, scanVars, edits, faults,
                   queryVars>>

(* The NVML collector: the number of devices, which is less when the driver
   has lost some, then each of them.  A count that fails changes nothing. *)
CollectNvml ==
    /\ cpc = "idle" /\ mode = "nvml"
    /\ \E n \in 0..Len(Devices) :
           /\ count' = Least(n, IndexMax)
           /\ IF n = Len(Devices) THEN UNCHANGED faults ELSE Fault
    /\ cpc' = "device" /\ device' = 0 /\ got' = <<>>
    /\ UNCHANGED <<mode, reload, inventory, file, tick, wpc, mem, cinv, chead, latest, due, edits,
                   queryVars>>

(* A process listed twice for a device is kept once; memory the driver does not
   know of is none. *)
collect_processes(compute, graphics) ==
    FoldLeft(LAMBDA out, p :
                 IF \E i \in DOMAIN out : out[i].pid = p.pid THEN out
                 ELSE Append(out, [p EXCEPT !.used = IF @ = None THEN 0 ELSE @ \div MiB]),
             <<>>, compute \o graphics)

NvmlDevice(name, uuid, reading, lists) ==
    [index |-> device, name |-> name, uuid |-> uuid, total |-> Devices[device + 1].total \div MiB,
     temp |-> None, used |-> reading.used \div MiB, util |-> Least(reading.util, 100),
     memutil |-> Least(reading.memutil, 100), procs |-> collect_processes(lists[1], lists[2])]

(* The driver reports no more memory in use than there is. *)
ReadDevice ==
    /\ cpc = "device" /\ device < count
    /\ LET d == Devices[device + 1]
       IN \E lists \in RunningLists, reading \in {r \in Readings : r.used <= d.total} :
           \/ got' = Append(got, NvmlDevice(d.name, d.uuid, reading, lists)) /\ UNCHANGED faults
           \/ got' = Append(got, NvmlDevice("unknown", d.uuid, reading, lists)) /\ Fault
           \/ got' = Append(got, NvmlDevice(d.name, None, reading, lists)) /\ Fault
    /\ device' = device + 1
    /\ UNCHANGED <<mode, reload, inventory, file, tick, wpc, mem, cpc, cinv, chead, count, latest,
                   due, edits, queryVars>>

(* Deviation: a device that cannot be read is left out. *)
DeviceSkipped ==
    /\ cpc = "device" /\ device < count /\ Fault
    /\ device' = device + 1
    /\ UNCHANGED <<mode, reload, inventory, file, tick, wpc, mem, cpc, cinv, chead, count, got,
                   latest, due, edits, queryVars>>

(* A device that cannot be read, or only in part, is the end of the snapshot. *)
DeviceFails ==
    /\ cpc = "device" /\ device < count /\ Fault
    /\ cpc' = "idle" /\ count' = 0 /\ device' = 0 /\ got' = <<>>
    /\ UNCHANGED <<mode, reload, inventory, file, tick, wpc, mem, cinv, chead, latest, due, edits,
                   queryVars>>

NvmlDone ==
    /\ cpc = "device" /\ device = count
    /\ \/ latest' = [host |-> "node", driver |-> "535", gres |-> got] /\ UNCHANGED faults
       \/ latest' = [host |-> "node", driver |-> None, gres |-> got] /\ Fault
    /\ due' = [i \in 1..count |-> [name |-> Devices[i].name, uuid |-> Devices[i].uuid,
                                   total |-> Devices[i].total \div MiB]]
    /\ cpc' = "idle" /\ count' = 0 /\ device' = 0 /\ got' = <<>>
    /\ UNCHANGED <<mode, reload, inventory, file, tick, wpc, mem, cinv, chead, edits, queryVars>>

-----------------------------------------------------------------------------
(* The backend's connection to one node. *)

(* connect_node: the handshake brings the first metadata. *)
Handshake ==
    /\ metadata = None /\ latest # None
    /\ metadata' = HostMetadata(latest)
    /\ UNCHANGED <<qpc, runtime, source, collVars>>

(* Deviation: the metadata of the handshake is used for good. *)
NeedsMetadataOnce(rt) == FALSE

(* No hash is 0, which would count as known. *)
NeedsMetadata(rt) == metadata_hash(metadata) # rt.hash

QueryRuntime ==
    /\ qpc = "idle" /\ metadata # None
    /\ runtime' = RuntimeSnapshot(latest) /\ source' = latest
    /\ qpc' = IF NeedsMetadata(RuntimeSnapshot(latest)) THEN "metadata" ELSE "build"
    /\ UNCHANGED <<metadata, collVars>>

(* Another snapshot may have been collected meanwhile. *)
QueryMetadata ==
    /\ qpc = "metadata"
    /\ metadata' = HostMetadata(latest) /\ qpc' = "build"
    /\ UNCHANGED <<runtime, source, collVars>>

Build ==
    /\ qpc = "build"
    /\ qpc' = "idle" /\ runtime' = None /\ source' = None
    /\ UNCHANGED <<metadata, collVars>>

-----------------------------------------------------------------------------
Next ==
    \/ StartTest \/ StartNvml \/ EditBegin \/ EditEnd \/ WriteLength \/ WriteText
    \/ CollectTest \/ ReadLength \/ ReadText
    \/ CollectNvml \/ ReadDevice \/ DeviceFails \/ NvmlDone
    \/ Handshake \/ QueryRuntime \/ QueryMetadata \/ Build

(* The backend connects and asks again and again, and its exchanges end. *)
Spec == Init /\ [][Next]_vars /\ WF_vars(Handshake \/ QueryRuntime \/ QueryMetadata \/ Build)

-----------------------------------------------------------------------------
(* Every device that was there when the snapshot began is in it, in its place;
   only its name and its uuid may be missing. *)
Whole(snap, devices) ==
    /\ DOMAIN snap.gres = DOMAIN devices
    /\ \A i \in DOMAIN devices : /\ snap.gres[i].name \in {devices[i].name, "unknown"}
                                 /\ snap.gres[i].uuid \in {devices[i].uuid, None}
                                 /\ snap.gres[i].total = devices[i].total

(* Every snapshot that is served is whole and meets what
   validate_gres_node_snapshot_contract asks of the devices, whatever the
   writer, a torn text, the editor of the inventory file and the driver do
   meanwhile.  What the contract asks of processes is only certain of a test
   collector without a mapped file, whose values are the ones the inventory was
   validated with: those of a later tick, of a torn text or of the driver are
   passed on as they are, pid 0 and more memory than the device has included. *)
SnapshotInContract ==
    latest # None => /\ DevicesInContract(latest) /\ Whole(latest, due)
                     /\ mode = "test" /\ wpc = "off" => ProcessesInContract(latest)

(* What the backend makes of values and metadata with one hash is the snapshot
   the server collected. *)
RebuiltIsCollected ==
    qpc = "build" /\ metadata_hash(metadata) = runtime.hash
        => to_snapshot(runtime, metadata) = source

(* The metadata a backend shows with the values becomes the server's again
   after any number of changes of the devices. *)
MetadataHeals == <>[](latest # None => metadata = HostMetadata(latest))
=============================================================================
