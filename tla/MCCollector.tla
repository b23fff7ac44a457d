---------------------------- MODULE MCCollector -----------------------------
(* Small inventories, three NVML devices of which two can be numbered, and
   what a torn text may say. *)
EXTENDS Collector

Dev(i, name, total) == [index |-> i, name |-> name, uuid |-> name, total |-> total]
Node(gres) == [host |-> "node", driver |-> None, gres |-> gres]
One == Node(<<Dev(0, "a", 2048)>>)
Half == Node(<<Dev(0, "a", 1024)>>)
Two == Node(<<Dev(0, "a", 1024), Dev(1, "b", 2048)>>)
Sparse == Node(<<Dev(1, "a", 2048)>>)
Small == Node(<<Dev(0, "a", 100)>>)
Three == Node(<<Dev(0, "a", 1024), Dev(1, "b", 2048), Dev(2, "c", 2048)>>)
MCInventories == {One, Half, Two, Sparse, Small, Three}

Wild(i) == [index |-> i, temp |-> 999, used |-> 9999, util |-> 255, memutil |-> 255,
            procs |-> <<[pid |-> 0, uid |-> 0, used |-> 9999]>>]
MCGarbage == {{}, {Wild(0), Wild(7)}}

Gpu(uuid, total) == [name |-> "x", uuid |-> uuid, total |-> total]
MCDevices == <<Gpu("u0", 2 * MiB - 1), Gpu("u1", 3 * MiB), Gpu("u2", 3 * MiB)>>
MCReadings == {[used |-> 2 * MiB - 1, util |-> 120, memutil |-> 3],
               [used |-> 3 * MiB, util |-> 100, memutil |-> 255]}
P(used) == [pid |-> 5, uid |-> 1, used |-> used]
MCRunningLists == {<<<<>>, <<>>>>, <<<<P(3 * MiB)>>, <<P(None)>>>>}
=============================================================================
