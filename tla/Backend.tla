------------------------------ MODULE Backend ------------------------------
(***************************************************************************)
(* The client backend (crates/client-backend/src/local_api.rs, cache.rs,   *)
(* discovery.rs, main.rs): a cache of node rows and a pool of connections, *)
(* shared by one thread per CLI client, the announce listener, the startup *)
(* thread and the reconcile threads that queries spawn.                    *)
(*                                                                         *)
(* Grain of atomicity.  One action per critical section: the pool, the     *)
(* set of addresses being connected, the rows and the reconcile timer have *)
(* a mutex each.  A network exchange is merged with the critical section   *)
(* that follows it.  Sections nested in the pool's lock (Install, Reget)   *)
(* are one action.                                                         *)
(*                                                                         *)
(* A connection is represented by its address, a snapshot by its age.      *)
(* Ages stop at the value past which the code no longer tells them apart.  *)
(*                                                                         *)
(* An operator whose comment begins with "Deviation" is a variant of the   *)
(* one after it that no specification uses: a slip of the kind the         *)
(* properties have to catch.                                               *)
(***************************************************************************)
EXTENDS Integers, FiniteSets

CONSTANTS Clients,         \* threads serving a CLI (handle_client)
          Helpers,         \* startup and background reconcile threads (bound)
          Listener,        \* the announce listener thread
          Addrs,           \* node addresses, as numbers
          Host,            \* the hostname a node answers with
          Configs,         \* bound: what a backend may be configured with
          TTL,             \* cache_ttl_ms
          DiscoverWait,    \* discover_wait, the minimum reconcile interval
          NoRow, None,
          MaxFaults,       \* bound: exchanges that fail
          MaxAnnounces     \* bound: multicast announces received

Threads == Clients \cup Helpers \cup {Listener}
Hosts == {Host[a] : a \in Addrs}

ASSUME BackendAssumption ==
    /\ Addrs \subseteq Nat /\ IsFiniteSet(Addrs)
    /\ Configs # {} /\ Configs \subseteq [limit : Nat \ {0}, static : SUBSET Addrs]
    /\ TTL \in Nat /\ DiscoverWait \in Nat \ {0}
    /\ Clients \cap Helpers = {} /\ Listener \notin Clients \cup Helpers
    /\ Helpers # {}
    /\ MaxFaults \in Nat /\ MaxAnnounces \in Nat

VARIABLES config,          \* connecting.max_connections, CLUSTAT_STATIC_NODES
          rows,            \* SharedCache, by address
          conns,           \* addresses in the connection pool
          connecting,      \* addresses with a handshake under way
          sinceReconcile,  \* age of last_discovery_reconcile_ms
          pc, todo, back,  \* establish_connections: nodes left, and what follows
          targets, cur,    \* refresh_stale_cache_for_query: targets left, current one
          expired,         \* history: rows a query found expired and still has to replace
          faults, announces

vars == <<config, rows, conns, connecting, sinceReconcile, pc, todo, back, targets, cur,
          expired, faults, announces>>

(* Deviation: freshness by the server's clock, which may run ahead. *)
RowServerStamped(h, snap) == [host |-> h, snap |-> snap, age |-> IF snap THEN -1 ELSE 0]

(* A row: the hostname shown, whether there is a snapshot, its age by the  *)
(* backend's own clock (from_snapshot stamps it with now_ms).              *)
Row(h, snap) == [host |-> h, snap |-> snap, age |-> 0]

(* The names in a merged discovery result: an entry from                   *)
(* CLUSTAT_STATIC_NODES wins and is named by its address.                  *)
Label == [a \in Addrs |-> IF a \in config.static THEN a ELSE Host[a]]

Present == {a \in Addrs : rows[a] # NoRow}
RowShape == [host : Hosts \cup Addrs, snap : BOOLEAN, age : 0..(TTL + 1)]
Target == [addr : Addrs, host : Hosts \cup Addrs, had : BOOLEAN]

TypeOK ==
    /\ config \in Configs
    /\ rows \in [Addrs -> RowShape \cup {NoRow}]
    /\ conns \subseteq Addrs /\ connecting \subseteq Addrs
    /\ sinceReconcile \in 0..DiscoverWait
    /\ pc \in [Threads -> {"idle", "timer", "reset", "count", "pool", "discover",
                           "check", "claim", "connect", "install", "place",
                           "stale", "pick", "reget", "query", "unrow"}]
    /\ todo \in [Threads -> SUBSET Addrs]
    /\ back \in [Threads -> {"idle", "stale", "reget"}]
    /\ targets \in [Threads -> SUBSET Target]
    /\ cur \in [Threads -> Target \cup {None}]
    /\ expired \in [Threads -> SUBSET Addrs]
    /\ faults \in 0..MaxFaults /\ announces \in 0..MaxAnnounces

-----------------------------------------------------------------------------
(* add_discovered_nodes: existing rows are kept, and a node gets a row     *)
(* unless one shows its name already.  Of several nodes of one name the    *)
(* first whose address has no row gets it.                                 *)
AddDiscovered(nodes, name) ==
    [a \in Addrs |->
        IF /\ a \in nodes /\ rows[a] = NoRow
           /\ \A b \in Present : rows[b].host # name[a]
           /\ \A b \in nodes : b < a /\ rows[b] = NoRow => name[b] # name[a]
        THEN Row(name[a], FALSE) ELSE rows[a]]

(* Writing or removing the row of a settles it for every query. *)
Settled(a) == expired' = [t \in Threads |-> expired[t] \ {a}]

Fault == faults < MaxFaults /\ faults' = faults + 1

(* establish_connections takes its nodes in the order of their addresses   *)
(* (merge_discovered_nodes sorted them).                                   *)
Node(t) == CHOOSE a \in todo[t] : \A b \in todo[t] : a <= b

(* Thread t is done with the node at hand. *)
NextNode(t) ==
    /\ todo' = [todo EXCEPT ![t] = @ \ {Node(t)}]
    /\ pc' = [pc EXCEPT ![t] = IF todo[t] = {Node(t)} THEN back[t] ELSE "check"]

(* Thread t calls establish_connections(nodes) and goes to b afterwards. *)
Establish(t, nodes, b) ==
    /\ todo' = [todo EXCEPT ![t] = nodes]
    /\ back' = [back EXCEPT ![t] = b]
    /\ pc' = [pc EXCEPT ![t] = IF nodes = {} THEN b ELSE "check"]

-----------------------------------------------------------------------------
(* main.rs: the rows of the first discovery, one per address, and a thread *)
(* that connects to them.                                                  *)
Startup == CHOOSE h \in Helpers : TRUE

Init ==
    /\ config \in Configs
    /\ \E found \in SUBSET Addrs :
           LET nodes == found \cup config.static IN
           /\ rows = [a \in Addrs |-> IF a \in nodes THEN Row(Label[a], FALSE) ELSE NoRow]
           /\ conns = {} /\ connecting = {} /\ sinceReconcile = DiscoverWait
           /\ pc = [t \in Threads |-> IF t = Startup /\ nodes # {} THEN "check" ELSE "idle"]
           /\ todo = [t \in Threads |-> IF t = Startup THEN nodes ELSE {}]
           /\ back = [t \in Threads |-> "idle"]
           /\ targets = [t \in Threads |-> {}] /\ cur = [t \in Threads |-> None]
           /\ expired = [t \in Threads |-> {}]
           /\ faults = 0 /\ announces = 0

(* spawn_announce_listener: one announced node. *)
Announce(a) ==
    /\ pc[Listener] = "idle" /\ announces < MaxAnnounces
    /\ announces' = announces + 1
    /\ rows' = AddDiscovered({a}, Host)
    /\ Establish(Listener, {a}, "idle")
    /\ UNCHANGED <<conns, connecting, sinceReconcile, targets, cur, expired, faults>>

(* Deviation: off by one. *)
HasRoomAtLimit(pool) == Cardinality(pool) <= config.limit

(* The test of max_connections, before and again after the handshake. *)
HasRoom(pool) == Cardinality(pool) < config.limit

(* establish_one_connection, first part: pool lookup. *)
Check(t) ==
    /\ pc[t] = "check"
    /\ LET a == Node(t) IN
       \/ /\ a \in conns \/ ~HasRoom(conns)
          /\ NextNode(t)
       \/ /\ a \notin conns /\ HasRoom(conns)
          /\ pc' = [pc EXCEPT ![t] = "claim"]
          /\ UNCHANGED todo
    /\ UNCHANGED <<rows, conns, connecting, sinceReconcile, back, targets, cur,
                   expired, faults, announces>>

(* connecting.insert(addr): one handshake per address at a time. *)
Claim(t) ==
    /\ pc[t] = "claim"
    /\ LET a == Node(t) IN
       \/ a \in connecting /\ NextNode(t) /\ UNCHANGED connecting
       \/ /\ a \notin connecting
          /\ connecting' = connecting \cup {a}
          /\ pc' = [pc EXCEPT ![t] = "connect"]
          /\ UNCHANGED todo
    /\ UNCHANGED <<rows, conns, sinceReconcile, back, targets, cur, expired,
                   faults, announces>>

(* connect_with_retry, then connecting.remove(addr). *)
ConnectOk(t) ==
    /\ pc[t] = "connect"
    /\ connecting' = connecting \ {Node(t)}
    /\ pc' = [pc EXCEPT ![t] = "install"]
    /\ UNCHANGED <<rows, conns, sinceReconcile, todo, back, targets, cur, expired,
                   faults, announces>>

(* Deviation: the address is released on success only. *)
ConnectErrStillClaimed(t) ==
    /\ pc[t] = "connect"
    /\ Fault
    /\ NextNode(t)
    /\ UNCHANGED <<rows, conns, connecting, sinceReconcile, back, targets, cur, expired,
                   announces>>

ConnectErr(t) ==
    /\ pc[t] = "connect"
    /\ Fault
    /\ connecting' = connecting \ {Node(t)}
    /\ NextNode(t)
    /\ UNCHANGED <<rows, conns, sinceReconcile, back, targets, cur, expired, announces>>

(* Deviation: connections told apart by address only. *)
SameAddr(a) == {b \in conns : b = a}

(* The pooled connections to the host that a belongs to. *)
SameHost(a) == {b \in conns : Host[b] = Host[a]}

(* Second part, under the pool's lock: an address that got in meanwhile    *)
(* wins; another connection to the host is replaced and its row dropped;   *)
(* then the bound is checked again.                                        *)
InstallDuplicate(t) ==
    /\ pc[t] = "install" /\ Node(t) \in conns
    /\ NextNode(t)
    /\ UNCHANGED <<rows, conns, connecting, sinceReconcile, back, targets, cur,
                   expired, faults, announces>>

Install(t) ==
    /\ pc[t] = "install" /\ Node(t) \notin conns
    /\ \E old \in IF SameHost(Node(t)) = {} THEN {{}}
                  ELSE {{b} : b \in SameHost(Node(t))} :
        LET kept == conns \ old IN
        /\ rows' = [a \in Addrs |-> IF a \in old THEN NoRow ELSE rows[a]]
        /\ expired' = [s \in Threads |-> expired[s] \ old]
        /\ \/ /\ ~HasRoom(kept)
              /\ conns' = kept
              /\ NextNode(t)
           \/ /\ HasRoom(kept)
              /\ conns' = kept \cup {Node(t)}
              /\ pc' = [pc EXCEPT ![t] = "place"]
              /\ UNCHANGED todo
    /\ UNCHANGED <<connecting, sinceReconcile, back, targets, cur, faults, announces>>

(* upsert_connection_placeholder *)
Place(t) ==
    /\ pc[t] = "place"
    /\ LET a == Node(t) IN
       rows' = [rows EXCEPT ![a] = IF @ = NoRow THEN Row(Host[a], FALSE)
                                   ELSE [@ EXCEPT !.host = Host[a]]]
    /\ NextNode(t)
    /\ UNCHANGED <<conns, connecting, sinceReconcile, back, targets, cur, expired,
                   faults, announces>>

-----------------------------------------------------------------------------
(* QUERY, step 1, should_skip_query_discovery_reconcile: the rows are      *)
(* counted, then the timer is read and set under its own lock.             *)
StartQuery(t) ==
    /\ t \in Clients /\ pc[t] = "idle"
    /\ pc' = [pc EXCEPT ![t] = IF Present = {} THEN "reset"
                               ELSE IF Cardinality(Present) >= config.limit THEN "stale"
                               ELSE "timer"]
    /\ UNCHANGED <<rows, conns, connecting, sinceReconcile, todo, back, targets, cur,
                   expired, faults, announces>>

TooEarly(t) ==
    /\ pc[t] = "timer" /\ sinceReconcile < DiscoverWait
    /\ pc' = [pc EXCEPT ![t] = "stale"]
    /\ UNCHANGED <<rows, conns, connecting, sinceReconcile, todo, back, targets, cur,
                   expired, faults, announces>>

SetTimer(t) ==
    /\ \/ pc[t] = "timer" /\ sinceReconcile = DiscoverWait
       \/ pc[t] = "reset"
    /\ sinceReconcile' = 0
    /\ pc' = [pc EXCEPT ![t] = "count"]
    /\ UNCHANGED <<rows, conns, connecting, todo, back, targets, cur, expired,
                   faults, announces>>

(* Step 2, reconcile_discovery_for_query: rows and pool are counted, each  *)
(* under its lock; with something in both, a thread of its own reconciles, *)
(* otherwise the query does it inline.                                     *)
CountRows(t) ==
    /\ pc[t] = "count"
    /\ pc' = [pc EXCEPT ![t] = IF Present = {} THEN "discover" ELSE "pool"]
    /\ UNCHANGED <<rows, conns, connecting, sinceReconcile, todo, back, targets, cur,
                   expired, faults, announces>>

Inline(t) ==
    /\ pc[t] = "pool" /\ conns = {}
    /\ pc' = [pc EXCEPT ![t] = "discover"]
    /\ UNCHANGED <<rows, conns, connecting, sinceReconcile, todo, back, targets, cur,
                   expired, faults, announces>>

Spawn(t, h) ==
    /\ pc[t] = "pool" /\ conns # {}
    /\ pc[h] = "idle"
    /\ pc' = [pc EXCEPT ![t] = "stale", ![h] = "discover"]
    /\ UNCHANGED <<rows, conns, connecting, sinceReconcile, todo, back, targets, cur,
                   expired, faults, announces>>

(* run_discovery_reconcile: multicast may miss nodes, static ones are      *)
(* always there.                                                           *)
Discover(t) ==
    /\ pc[t] = "discover"
    /\ \E missed \in SUBSET (Addrs \ config.static) :
        /\ IF missed = {} THEN UNCHANGED faults ELSE Fault
        /\ rows' = AddDiscovered(Addrs \ missed, Label)
        /\ Establish(t, Addrs \ missed, IF t \in Clients THEN "stale" ELSE "idle")
    /\ UNCHANGED <<conns, connecting, sinceReconcile, targets, cur, expired, announces>>

(* Deviation: an expired snapshot is not refreshed. *)
IsStaleIfEmpty(a) == ~rows[a].snap

(* Step 3, refresh_stale_cache_for_query: the rows without a snapshot or   *)
(* with one older than the TTL, in any order (they come from a HashMap).   *)
IsStale(a) == ~rows[a].snap \/ rows[a].age > TTL

StaleTargets(t) ==
    /\ pc[t] = "stale"
    /\ targets' = [targets EXCEPT ![t] =
          {[addr |-> a, host |-> rows[a].host, had |-> rows[a].snap] :
              a \in {b \in Present : IsStale(b)}}]
    /\ expired' = [expired EXCEPT ![t] = {a \in Present : rows[a].snap /\ rows[a].age > TTL}]
    /\ pc' = [pc EXCEPT ![t] = "pick"]
    /\ UNCHANGED <<rows, conns, connecting, sinceReconcile, todo, back, cur, faults, announces>>

Pick(t, x) ==
    /\ pc[t] = "pick" /\ x \in targets[t]
    /\ cur' = [cur EXCEPT ![t] = x]
    /\ targets' = [targets EXCEPT ![t] = @ \ {x}]
    /\ \/ /\ x.addr \in conns
          /\ pc' = [pc EXCEPT ![t] = "query"]
          /\ UNCHANGED <<todo, back>>
       \/ x.addr \notin conns /\ Establish(t, {x.addr}, "reget")
    /\ UNCHANGED <<rows, conns, connecting, sinceReconcile, expired, faults, announces>>

(* No connection after all: a row that had a snapshot is shown with the    *)
(* error once (mark_stale), one that never had disappears.                 *)
Reget(t) ==
    /\ pc[t] = "reget"
    /\ LET a == cur[t].addr IN
       \/ /\ a \in conns
          /\ pc' = [pc EXCEPT ![t] = "query"]
          /\ UNCHANGED <<rows, expired, cur>>
       \/ /\ a \notin conns
          /\ rows' = [rows EXCEPT ![a] = IF cur[t].had THEN Row(cur[t].host, FALSE) ELSE NoRow]
          /\ Settled(a)
          /\ cur' = [cur EXCEPT ![t] = None]
          /\ pc' = [pc EXCEPT ![t] = "pick"]
    /\ UNCHANGED <<conns, connecting, sinceReconcile, todo, back, targets, faults, announces>>

(* connection.query, then upsert_snapshot with the local time. *)
QueryOk(t) ==
    /\ pc[t] = "query"
    /\ LET a == cur[t].addr IN
       /\ rows' = [rows EXCEPT ![a] = Row(Host[a], TRUE)]
       /\ Settled(a)
    /\ cur' = [cur EXCEPT ![t] = None]
    /\ pc' = [pc EXCEPT ![t] = "pick"]
    /\ UNCHANGED <<conns, connecting, sinceReconcile, todo, back, targets, faults, announces>>

(* A failed query: whatever connection the pool holds for the address is   *)
(* removed, and then, under another lock, the row.                         *)
QueryErr(t) ==
    /\ pc[t] = "query"
    /\ Fault
    /\ conns' = conns \ {cur[t].addr}
    /\ pc' = [pc EXCEPT ![t] = "unrow"]
    /\ UNCHANGED <<rows, connecting, sinceReconcile, todo, back, targets, cur, expired, announces>>

Unrow(t) ==
    /\ pc[t] = "unrow"
    /\ rows' = [rows EXCEPT ![cur[t].addr] = NoRow]
    /\ Settled(cur[t].addr)
    /\ cur' = [cur EXCEPT ![t] = None]
    /\ pc' = [pc EXCEPT ![t] = "pick"]
    /\ UNCHANGED <<conns, connecting, sinceReconcile, todo, back, targets, faults, announces>>

(* Step 4: build_query_response from the rows as they are. *)
Respond(t) ==
    /\ pc[t] = "pick" /\ targets[t] = {}
    /\ pc' = [pc EXCEPT ![t] = "idle"]
    /\ UNCHANGED <<rows, conns, connecting, sinceReconcile, todo, back, targets, cur,
                   expired, faults, announces>>

(* Time passes. *)
Tick ==
    /\ rows' = [a \in Addrs |->
                  IF rows[a] # NoRow /\ rows[a].snap /\ rows[a].age <= TTL
                  THEN [rows[a] EXCEPT !.age = @ + 1] ELSE rows[a]]
    /\ sinceReconcile' = IF sinceReconcile < DiscoverWait THEN sinceReconcile + 1
                         ELSE sinceReconcile
    /\ UNCHANGED <<conns, connecting, pc, todo, back, targets, cur, expired, faults, announces>>

EstablishStep(t) ==
    \/ Check(t) \/ Claim(t) \/ ConnectOk(t) \/ ConnectErr(t)
    \/ InstallDuplicate(t) \/ Install(t) \/ Place(t) \/ Discover(t)

QueryStep(t) ==
    \/ TooEarly(t) \/ SetTimer(t) \/ CountRows(t)
    \/ Inline(t) \/ \E h \in Helpers : Spawn(t, h)
    \/ StaleTargets(t) \/ \E x \in targets[t] : Pick(t, x)
    \/ Reget(t) \/ QueryOk(t) \/ QueryErr(t) \/ Unrow(t) \/ Respond(t)

Next ==
    /\ \/ \E t \in Threads : EstablishStep(t) \/ QueryStep(t) \/ StartQuery(t)
       \/ \E a \in Addrs : Announce(a)
       \/ Tick
    /\ UNCHANGED config

Spec == Init /\ [][Next]_vars

-----------------------------------------------------------------------------
(* The pool never holds more than max_connections connections, although    *)
(* the bound is checked before the handshake and many threads connect at   *)
(* once (README: the number of servers the backend may connect to).        *)
PoolBounded == Cardinality(conns) <= config.limit

(* One persistent connection per server: two addresses of one host are     *)
(* never pooled together, whoever connects to them and in which order.     *)
OneConnectionPerHost == \A a, b \in conns : Host[a] = Host[b] => a = b

(* The connecting set is exact: an address is in it while, and only while, *)
(* one thread is shaking hands with it, so a failed handshake never blocks *)
(* a later one and two never run together.                                 *)
OneHandshakePerAddress ==
    /\ connecting = {Node(t) : t \in {s \in Threads : pc[s] = "connect"}}
    /\ \A s, t \in Threads :
         pc[s] = "connect" /\ pc[t] = "connect" /\ Node(s) = Node(t) => s = t

(* When a query is answered, no row still shows a snapshot that was past   *)
(* the TTL when the query began: each was refreshed, marked or removed,    *)
(* by this thread or another (refresh_stale_cache_for_query).              *)
NoExpiredSnapshotShown ==
    \A t \in Clients : pc[t] = "pick" /\ targets[t] = {} => expired[t] = {}

(* Where a thread is, it has what it needs there: a node to connect to     *)
(* inside establish_connections, a target inside the loop of               *)
(* refresh_stale_cache_for_query, also while it connects for that target.  *)
Establishing == {"check", "claim", "connect", "install", "place"}
Equipped ==
    \A t \in Threads :
        /\ pc[t] \in Establishing => todo[t] # {}
        /\ pc[t] \in {"reget", "query", "unrow"} => cur[t] \in Target
        /\ pc[t] \in Establishing /\ back[t] = "reget" => cur[t] \in Target

(* Inside that loop, every row the query found expired is still a target,  *)
(* or the one at hand, unless it was settled.                              *)
Refreshing(t) == \/ pc[t] \in {"pick", "reget", "query", "unrow"}
                 \/ pc[t] \in Establishing /\ back[t] = "reget"
ExpiredPending ==
    \A t \in Threads : Refreshing(t) =>
        \A a \in expired[t] : \/ \E x \in targets[t] : x.addr = a
                              \/ pc[t] # "pick" /\ cur[t].addr = a

(* The inductive invariant behind the theorems. *)
IInv ==
    /\ TypeOK
    /\ Equipped
    /\ PoolBounded
    /\ OneConnectionPerHost
    /\ OneHandshakePerAddress
    /\ ExpiredPending
============================================================================
