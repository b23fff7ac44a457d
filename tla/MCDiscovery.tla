---------------------------- MODULE MCDiscovery ----------------------------
(* Small instances of Discovery for TLC. *)
EXTENDS Discovery, TLC

CONSTANTS i1, i2

Default ==
    [readable |-> TRUE, port_range |-> <<1, 2>>, udp |-> 0, tcp |-> 0, group |-> "multicast",
     protocol |-> "udp", least |-> 1, outbound |-> {"ipv4", "blank"},
     log |-> [number |-> 5, unit |-> "mb"], test_paths |-> {}, debug |-> FALSE]

OnlyDefault == {Default}

(* The configurations a test suite has one by one, and some with two errors. *)
Various ==
    {Default,
     [Default EXCEPT !.udp = 2, !.test_paths = {"inventory"}, !.debug = TRUE],
     [Default EXCEPT !.tcp = 2, !.group = "name", !.test_paths = {"runtime"}, !.debug = TRUE],
     [Default EXCEPT !.udp = 2, !.tcp = 2], [Default EXCEPT !.port_range = <<2, 2>>],
     [Default EXCEPT !.readable = FALSE],
     [Default EXCEPT !.port_range = <<2, 1>>, !.group = "unicast"],
     [Default EXCEPT !.port_range = <<0, 2>>],
     [Default EXCEPT !.group = "unresolved", !.protocol = "other"],
     [Default EXCEPT !.protocol = "other"], [Default EXCEPT !.least = 0],
     [Default EXCEPT !.outbound = {"ipv4", "other"}],
     [Default EXCEPT !.log = [number |-> 0, unit |-> "kb"]],
     [Default EXCEPT !.log = [number |-> -1, unit |-> "b"]],
     [Default EXCEPT !.log = [number |-> 5, unit |-> "gb"]],
     [Default EXCEPT !.log = [number |-> 5, unit |-> "other"]],
     [Default EXCEPT !.port_range = <<2, 2>>, !.tcp = 1, !.test_paths = {"runtime"}]}
============================================================================
