------------------------------- MODULE MCCli --------------------------------
(* A small cluster, its users and the command lines of their CLIs. *)
EXTENDS Cli

NodeA == [id |-> <<"c", "1">>, host |-> <<"a", "b">>, ip |-> <<"7", ".", "1">>,
          addr |-> <<"7", ".", "1", ":", "5">>]
NodeB == [id |-> <<"c", "2">>, host |-> <<"b", "b">>, ip |-> <<"7", ".", "1", "2">>,
          addr |-> <<"7", ".", "1", "2", ":", "5">>]
MCNodes == {NodeA, NodeB}
MCIpTexts == {n.ip : n \in MCNodes}
MCAddrTexts == {n.addr : n \in MCNodes}

MCAccount == 1 :> "ann" @@ 2 :> "bob"
Busy == <<{[pid |-> 10, uid |-> 1], [pid |-> 11, uid |-> 2]}, {[pid |-> 12, uid |-> 9]}>>
MCSnapshots == {Busy}

MCArgLists == {<<"-h">>, <<"-i", "--json">>, <<"-user">>,
               <<"-user", "ann", "--json">>, <<"-i", "2", "-n", "*b">>}
MCFilterArg == "*b" :> <<"*", "b">>
MCUserArg == "ann" :> [name |-> "ann", pad |-> FALSE]
MCStems == {<<"a">>, <<"b", "-">>}
=============================================================================
