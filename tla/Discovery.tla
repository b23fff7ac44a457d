----------------------------- MODULE Discovery -----------------------------
(***************************************************************************)
(* How a server starts, gets its ports, and a backend learns of them       *)
(* (crates/server/src/main.rs: run, load_config, pick_udp_port_excluding,  *)
(* pick_tcp_port, port_candidates, build_collector, start_runtime_loops,   *)
(* announce_startup_once and discovery_query_loop;                         *)
(* crates/client-backend/src/discovery.rs).                                *)
(*                                                                         *)
(* A server checks its configuration, chooses its ports, opens its         *)
(* collector and starts its threads, in this order; the first thing that   *)
(* is wrong ends it with an error code, and it may be started again with   *)
(* another configuration.                                                  *)
(*                                                                         *)
(* A port is chosen by binding it and letting it go again; the thread that *)
(* serves it binds it once more, later.  Between the two any other program *)
(* may take it.  A server announces itself by multicast when it starts,    *)
(* and answers the discovery queries of backends.  Multicast and answers   *)
(* may be lost and may arrive late, even after the server was restarted    *)
(* with other ports.                                                       *)
(*                                                                         *)
(* An operator whose comment begins with "Deviation" is a variant of the   *)
(* one after it that no specification uses: a slip of the kind the         *)
(* properties have to catch.                                               *)
(***************************************************************************)
EXTENDS Integers, FiniteSets, Sequences

CONSTANTS MaxPort,          \* bound: the largest port number
          Settings,         \* bound: the configurations a server is started with
          Kilo,             \* the factor from one unit of log.max_size to the next
          WordMax,          \* the largest u64
          Interfaces,       \* multicast_outbound_ip, or the default one
          RetryLimit,       \* multicast_retry_limit
          Protocol,         \* the backend's connecting.protocol
          MaxTaken,         \* bound: ports other programs take
          MaxRestarts       \* bound: restarts of the server

Transports == {"udp", "tcp"}
Ports == 1..MaxPort

(* What the server reads from its configuration.  The values that must be  *)
(* positive are represented by their least; a multicast group is given as  *)
(* an address or as a name, which may be resolved or not; a log size is a  *)
(* number, -1 if there is none, and a unit; test_paths are the ones set.   *)
Config ==
    [readable : BOOLEAN, port_range : (Nat \X Nat), udp : Nat, tcp : Nat,
     group : {"multicast", "unicast", "unresolved", "name"},
     protocol : Transports \cup {"other"}, least : Nat,
     outbound : SUBSET {"ipv4", "blank", "other"},
     log : [number : Nat \cup {-1}, unit : {"b", "kb", "mb", "gb", "other"}],
     test_paths : SUBSET {"inventory", "runtime"}, debug : BOOLEAN]

ASSUME DiscoveryAssumption ==
    /\ MaxPort \in Nat \ {0}
    /\ Settings # {} /\ Settings \subseteq Config
    /\ \A s \in Settings :
           /\ s.port_range \in (0..MaxPort) \X (0..MaxPort)
           /\ s.udp \in 0..MaxPort /\ s.tcp \in 0..MaxPort
    /\ Kilo \in Nat \ {0} /\ WordMax \in Nat
    /\ Interfaces # {} /\ IsFiniteSet(Interfaces)
    /\ RetryLimit \in Nat \ {0}                        \* validate_positive
    /\ Protocol \in Transports
    /\ MaxTaken \in Nat /\ MaxRestarts \in Nat

VARIABLES settings,   \* the configuration of this start
          taken,      \* ports other programs have bound, by transport
          main,       \* where run is
          failure,    \* the code of its StartupError
          port,       \* the ports chosen; 0 is none
          offset,     \* where port_candidates begins
          tries,      \* candidates tried in this choice
          refused,    \* history: ports found busy or excluded in this choice
          listener,   \* server_loop and query_server_loop
          answering,  \* discovery_query_loop
          announcer,  \* announce_startup_once: its attempt, the interfaces
                      \* left, whether one was reached, and whether it is over
          tried,      \* history: its sends, as <<attempt, interface, outcome>>
          asked,      \* a backend's discovery query is on the wire
          wire,       \* announces on the wire
          found,      \* nodes the backend found
          takes, restarts

serverVars == <<settings, main, failure, port, offset, tries, refused, listener, answering,
                announcer, tried>>
vars == <<taken, serverVars, asked, wire, found, takes, restarts>>

Fresh == [attempt |-> 1, left |-> Interfaces, sent |-> FALSE, over |-> FALSE]
Announce == [udp : Ports, tcp : Ports]

Lo == settings.port_range[1]
Hi == settings.port_range[2]
Range == Lo..Hi
Count == Hi - Lo + 1

TypeOK ==
    /\ settings \in Settings
    /\ taken \in [Transports -> SUBSET Ports]
    /\ main \in {"config", "group", "udp", "tcp", "collector", "running", "failed"}
    /\ failure \in {"", "ConfigInvalid", "MulticastFailed", "PortExhausted", "NvmlUnavailable"}
    /\ port \in [Transports -> Ports \cup {0}]
    /\ offset \in 0..(MaxPort - 1) /\ tries \in 0..MaxPort
    /\ refused \subseteq Ports
    /\ listener \in [Transports -> {"down", "up", "dead"}]
    /\ answering \in {"down", "up", "dead"}
    /\ announcer \in [attempt : 1..(RetryLimit + 1), left : SUBSET Interfaces,
                      sent : BOOLEAN, over : BOOLEAN]
    /\ tried \subseteq (1..RetryLimit) \X Interfaces \X {"sent", "failed"}
    /\ asked \in BOOLEAN
    /\ wire \subseteq Announce
    /\ found \subseteq Ports
    /\ takes \in 0..MaxTaken /\ restarts \in 0..MaxRestarts

(* main calls run, which begins with nothing done. *)
Startup ==
    /\ settings' \in Settings
    /\ main' = "config" /\ failure' = "" /\ port' = [x \in Transports |-> 0]
    /\ offset' = 0 /\ tries' = 0 /\ refused' = {}
    /\ listener' = [x \in Transports |-> "down"]
    /\ answering' = "down" /\ announcer' = Fresh /\ tried' = {}

Init ==
    /\ settings \in Settings
    /\ taken \in [Transports -> SUBSET Ports]
    /\ main = "config" /\ failure = "" /\ port = [x \in Transports |-> 0]
    /\ offset = 0 /\ tries = 0 /\ refused = {}
    /\ listener = [x \in Transports |-> "down"]
    /\ answering = "down" /\ announcer = Fresh /\ tried = {}
    /\ asked = FALSE /\ wire = {} /\ found = {}
    /\ takes = 0 /\ restarts = 0

-----------------------------------------------------------------------------
(* The configuration. *)

validate_port_range(r) == r[1] # 0 /\ r[2] # 0 /\ r[1] <= r[2]

(* What validate_multicast_addr may find: a name is resolved, or just now  *)
(* is not.                                                                 *)
Resolved(group) == IF group = "name" THEN {"multicast", "unresolved"} ELSE {group}

validate_protocol(p) == p \in Transports

validate_positive(least) == least # 0

(* Entries are trimmed, blank ones dropped. *)
validate_multicast_outbound_ips(items) == items \ {"blank"} \subseteq {"ipv4"}

Multiplier(unit) ==
    CASE unit = "b" -> 1 [] unit = "kb" -> Kilo [] unit = "mb" -> Kilo * Kilo
      [] unit = "gb" -> Kilo * Kilo * Kilo [] OTHER -> 0

(* Whether there is a size: a missing, zero or too large number, an        *)
(* unknown unit and a product of more than 64 bits are refused.            *)
parse_log_size_bytes(log) ==
    /\ log.number \in 1..WordMax /\ Multiplier(log.unit) # 0
    /\ log.number * Multiplier(log.unit) <= WordMax

(* load_config and validate_config: the checks in their order, each with   *)
(* the code of its error.                                                  *)
Checks(s, group) ==
    << <<s.readable, "ConfigInvalid">>,
       <<validate_port_range(s.port_range), "ConfigInvalid">>,
       <<group = "multicast", "MulticastFailed">>,
       <<validate_protocol(s.protocol), "ConfigInvalid">>,
       <<validate_positive(s.least), "ConfigInvalid">>,
       <<validate_multicast_outbound_ips(s.outbound), "ConfigInvalid">>,
       <<parse_log_size_bytes(s.log), "ConfigInvalid">> >>

Fail(code) == main' = "failed" /\ failure' = code

LoadConfig ==
    /\ main = "config"
    /\ \E group \in Resolved(settings.group) :
           LET checks == Checks(settings, group)
               failed == {i \in DOMAIN checks : ~checks[i][1]}
           IN IF failed = {} THEN main' = "group" /\ UNCHANGED failure
              ELSE Fail(checks[CHOOSE i \in failed : \A j \in failed : i <= j][2])
    /\ UNCHANGED <<settings, taken, port, offset, tries, refused, listener, answering, announcer,
                   tried, asked, wire, found, takes, restarts>>

(* run resolves the group once more, for use. *)
ResolveGroup ==
    /\ main = "group"
    /\ \E group \in Resolved(settings.group) :
           IF group = "multicast"
           THEN /\ main' = "udp" /\ offset' \in 0..(Count - 1) /\ UNCHANGED failure
           ELSE Fail("MulticastFailed") /\ UNCHANGED offset
    /\ UNCHANGED <<settings, taken, port, tries, refused, listener, answering, announcer,
                   tried, asked, wire, found, takes, restarts>>

-----------------------------------------------------------------------------
(* Choosing the ports. *)

(* The TCP port is chosen second and must differ from the UDP port. *)
Excluded(x) == IF x = "tcp" THEN {port["udp"]} ELSE {}

(* Deviation: the range without its last port. *)
CandidateShort(i) == IF Count = 1 THEN Lo ELSE Lo + ((offset + i) % (Count - 1))

(* port_candidates: the range, from a random place on and round. *)
Candidate(i) == Lo + ((offset + i) % Count)

(* The port may be used and a socket can be bound to it just now. *)
Free(x, p) == p \notin taken[x] /\ p \notin Excluded(x)

Chosen(x, p) ==
    /\ port' = [port EXCEPT ![x] = p]
    /\ main' = IF x = "udp" THEN "tcp" ELSE "collector"
    /\ \E o \in 0..(Count - 1) : offset' = IF x = "udp" THEN o ELSE offset
    /\ tries' = 0 /\ refused' = {} /\ UNCHANGED failure

(* A configured port is used or the server does not start. *)
PickRequested(x) ==
    /\ main = x /\ settings[x] # 0
    /\ \/ Free(x, settings[x]) /\ Chosen(x, settings[x])
       \/ ~Free(x, settings[x]) /\ Fail("PortExhausted") /\ refused' = {settings[x]}
            /\ UNCHANGED <<port, offset, tries>>
    /\ UNCHANGED <<settings, taken, listener, answering, announcer, tried, asked, wire, found,
                   takes, restarts>>

TryCandidate(x) ==
    /\ main = x /\ settings[x] = 0 /\ tries < Count
    /\ LET p == Candidate(tries) IN
       \/ Free(x, p) /\ Chosen(x, p)
       \/ /\ ~Free(x, p)
          /\ refused' = refused \cup {p} /\ tries' = tries + 1
          /\ UNCHANGED <<main, failure, port, offset>>
    /\ UNCHANGED <<settings, taken, listener, answering, announcer, tried, asked, wire, found,
                   takes, restarts>>

PortExhausted(x) ==
    /\ main = x /\ settings[x] = 0 /\ tries = Count
    /\ Fail("PortExhausted")
    /\ UNCHANGED <<settings, taken, port, offset, tries, refused, listener, answering, announcer,
                   tried, asked, wire, found, takes, restarts>>

(* build_collector: only a debug build has the test collector, which then  *)
(* needs a valid inventory; any other collector is NVML's.                 *)
BuildCollector ==
    /\ main = "collector"
    /\ \/ /\ settings.debug \/ settings.test_paths = {}
          /\ main' = "running" /\ UNCHANGED failure
       \/ /\ IF settings.debug THEN "inventory" \in settings.test_paths
             ELSE settings.test_paths # {}
          /\ Fail("ConfigInvalid")
       \/ /\ IF settings.debug THEN "inventory" \notin settings.test_paths
             ELSE settings.test_paths = {}
          /\ Fail("NvmlUnavailable")
    /\ UNCHANGED <<settings, taken, port, offset, tries, refused, listener, answering, announcer,
                   tried, asked, wire, found, takes, restarts>>

-----------------------------------------------------------------------------
(* The threads of start_runtime_loops. *)

(* server_loop, query_server_loop: bind, or log and return. *)
Bind(x) ==
    /\ main = "running" /\ listener[x] = "down"
    /\ listener' = [listener EXCEPT ![x] = IF port[x] \in taken[x] THEN "dead" ELSE "up"]
    /\ UNCHANGED <<settings, taken, main, failure, port, offset, tries, refused, answering,
                   announcer, tried, asked, wire, found, takes, restarts>>

(* discovery_query_loop: bind and join the group, or return. *)
Join ==
    /\ main = "running" /\ answering = "down"
    /\ answering' \in {"up", "dead"}
    /\ UNCHANGED <<settings, taken, main, failure, port, offset, tries, refused, listener,
                   announcer, tried, asked, wire, found, takes, restarts>>

(* discovery_announce *)
ThisServer == [udp |-> port["udp"], tcp |-> port["tcp"]]

(* A query is answered to the socket it came from. *)
AnswerQuery ==
    /\ answering = "up" /\ asked
    /\ wire' = wire \cup {ThisServer}
    /\ asked' = FALSE
    /\ UNCHANGED <<taken, serverVars, found, takes, restarts>>

(* announce_startup_once has its turn on one interface. *)
Turn(i, outcome) ==
    /\ main = "running" /\ ~announcer.over /\ i \in announcer.left
    /\ wire' = IF outcome = "sent" THEN wire \cup {ThisServer} ELSE wire
    /\ tried' = tried \cup {<<announcer.attempt, i, outcome>>}
    /\ UNCHANGED <<settings, taken, main, failure, port, offset, tries, refused, listener,
                   answering, asked, found, takes, restarts>>

(* Deviation: the first interface that fails ends the attempt. *)
SendAnnounceBreak(i) ==
    \/ Turn(i, "sent") /\ announcer' = [announcer EXCEPT !.left = @ \ {i}, !.sent = TRUE]
    \/ Turn(i, "failed") /\ announcer' = [announcer EXCEPT !.left = {}]

(* After a failure, of the socket or of the send, the next interface has   *)
(* its turn, and so it has after a success.                                *)
SendAnnounce(i) ==
    \/ Turn(i, "sent") /\ announcer' = [announcer EXCEPT !.left = @ \ {i}, !.sent = TRUE]
    \/ Turn(i, "failed") /\ announcer' = [announcer EXCEPT !.left = @ \ {i}]

(* An attempt that reached an interface is the last. *)
AttemptOver == announcer.left = {} /\ announcer.sent

EndAnnounce ==
    /\ main = "running" /\ ~announcer.over
    /\ AttemptOver \/ announcer.attempt > RetryLimit
    /\ announcer' = [announcer EXCEPT !.over = TRUE]
    /\ UNCHANGED <<settings, taken, main, failure, port, offset, tries, refused, listener,
                   answering, tried, asked, wire, found, takes, restarts>>

NextAttempt ==
    /\ main = "running" /\ ~announcer.over
    /\ announcer.left = {} /\ ~AttemptOver /\ announcer.attempt <= RetryLimit
    /\ announcer' = [announcer EXCEPT !.attempt = @ + 1,
                       !.left = IF announcer.attempt = RetryLimit THEN {} ELSE Interfaces]
    /\ UNCHANGED <<settings, taken, main, failure, port, offset, tries, refused, listener,
                   answering, tried, asked, wire, found, takes, restarts>>

-----------------------------------------------------------------------------
(* The backend. *)

(* discover_nodes sends a query. *)
Ask ==
    /\ asked' = TRUE
    /\ UNCHANGED <<taken, serverVars, wire, found, takes, restarts>>

(* Deviation: the port for clients that know of no other. *)
NodePortAny(a) == a.udp

(* parse_announce_for_protocol: the announce's port for this protocol. *)
NodePort(a) == a[Protocol]

(* discover_nodes and recv_announce_for_protocol. *)
Receive(a) ==
    /\ a \in wire
    /\ found' = found \cup {NodePort(a)}
    /\ UNCHANGED <<taken, serverVars, asked, wire, takes, restarts>>

-----------------------------------------------------------------------------
(* The rest of the world. *)

(* Another program binds a port, unless the server holds it, *)
Take(x, p) ==
    /\ takes < MaxTaken /\ takes' = takes + 1
    /\ p \notin taken[x] /\ ~(listener[x] = "up" /\ port[x] = p)
    /\ taken' = [taken EXCEPT ![x] = @ \cup {p}]
    /\ UNCHANGED <<serverVars, asked, wire, found, restarts>>

(* or lets one go. *)
Release(x, p) ==
    /\ p \in taken[x]
    /\ taken' = [taken EXCEPT ![x] = @ \ {p}]
    /\ UNCHANGED <<serverVars, asked, wire, found, takes, restarts>>

(* The server is started again, from wherever it was, perhaps after its   *)
(* configuration was edited.                                               *)
Restart ==
    /\ restarts < MaxRestarts /\ restarts' = restarts + 1
    /\ Startup
    /\ UNCHANGED <<taken, asked, wire, found, takes>>

Next ==
    \/ LoadConfig \/ ResolveGroup \/ BuildCollector
    \/ \E x \in Transports : PickRequested(x) \/ TryCandidate(x) \/ PortExhausted(x) \/ Bind(x)
    \/ Join \/ AnswerQuery \/ \E i \in Interfaces : SendAnnounce(i)
    \/ EndAnnounce \/ NextAttempt
    \/ Ask \/ \E a \in wire : Receive(a)
    \/ \E x \in Transports, p \in Ports : Take(x, p) \/ Release(x, p)
    \/ Restart

Spec == Init /\ [][Next]_vars

(* The server answers and the answer is delivered. *)
FairSpec ==
    /\ Spec
    /\ WF_vars(AnswerQuery)
    /\ \A a \in Announce : WF_vars(Receive(a))

-----------------------------------------------------------------------------
(* The code a server gives up with is true of its configuration and of     *)
(* what it tried: PortExhausted only after every port of the range, or the *)
(* configured one, was busy or excluded when it was tried (port_candidates *)
(* covers the range from wherever it begins); NvmlUnavailable and          *)
(* PortExhausted only with a configuration that is valid, MulticastFailed  *)
(* only if no other error comes before.  And a server that runs has a      *)
(* valid configuration and two different ports, as configured.             *)
Usable(s) ==
    /\ s.readable /\ s.port_range[1] \in 1..s.port_range[2]
    /\ s.group \in {"multicast", "name"} /\ s.protocol \in Transports
    /\ s.least > 0 /\ "other" \notin s.outbound
    /\ \E k \in 1..4 :
         LET bytes == <<1, Kilo, Kilo * Kilo, Kilo * Kilo * Kilo>>[k]
         IN  /\ s.log.unit = <<"b", "kb", "mb", "gb">>[k]
             /\ s.log.number > 0 /\ s.log.number <= WordMax \div bytes
StartupIsExplained ==
    /\ failure = "PortExhausted" =>
           LET x == IF port["udp"] = 0 THEN "udp" ELSE "tcp"
           IN  refused = IF settings[x] = 0 THEN Range ELSE {settings[x]}
    /\ failure \in {"PortExhausted", "NvmlUnavailable"} \/ main = "running" => Usable(settings)
    /\ failure = "MulticastFailed" =>
           /\ settings.group # "multicast" /\ settings.readable
           /\ settings.port_range[1] \in 1..settings.port_range[2]
    /\ failure = "ConfigInvalid" => ~Usable(settings) \/ settings.test_paths # {}
    /\ main = "running" =>
           /\ port["udp"] # port["tcp"]
           /\ \A x \in Transports : IF settings[x] = 0 THEN port[x] \in Range
                                    ELSE port[x] = settings[x]

(* A query that reaches a server that answers makes the backend find the   *)
(* server at its port for the backend's protocol, unless it is restarted   *)
(* meanwhile.                                                              *)
AskedIsFound ==
    \A p \in Ports :
        asked /\ answering = "up" /\ port[Protocol] = p ~> p \in found \/ port[Protocol] # p

(* When the startup announce is over, it was tried once on every interface *)
(* in each attempt, and failed everywhere before the last attempt: neither *)
(* a failure nor a success on one interface takes another's turn away.     *)
(* The last attempt reached some interface, and the announce with the      *)
(* ports of this start is on the wire, or it is that of the retry limit.   *)
AnnounceTriesAll ==
    announcer.over =>
        \E last \in 1..RetryLimit, reached \in SUBSET Interfaces :
            /\ tried = ((1..(last - 1)) \X Interfaces \X {"failed"})
                          \cup ({last} \X (Interfaces \ reached) \X {"failed"})
                          \cup ({last} \X reached \X {"sent"})
            /\ IF reached = {} THEN last = RetryLimit ELSE ThisServer \in wire

(* README.md: with port 0 the server picks a port that is available and    *)
(* tells the clients in its announce; so what it announces it listens on.  *)
AnnouncedIsServed ==
    ThisServer \in wire => \A x \in Transports : listener[x] # "dead"
============================================================================
