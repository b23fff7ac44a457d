----------------------------- MODULE UdpSession -----------------------------
(***************************************************************************)
(* One UDP connection of the backend to one server                         *)
(* (crates/client-backend/src/udp_client.rs and transport.rs on one side,  *)
(* crates/server/src/udp_transport.rs and transport.rs on the other).      *)
(*                                                                         *)
(* A connection begins with a handshake that fetches the host's metadata;  *)
(* then any number of backend threads query it, one at a time: the socket  *)
(* is behind a mutex (io).  A runtime payload names the metadata it        *)
(* belongs to by a hash; when that is not the metadata the connection has, *)
(* the thread fetches the metadata again before it lets go of the socket.  *)
(*                                                                         *)
(* Datagrams are lost, repeated, delayed and reordered.  One stands for a  *)
(* whole frame here (UdpChunks has the chunks), and a receive that fails   *)
(* for whatever reason (timeout, damaged chunk, mixed answers) is one      *)
(* action.  A host's metadata is a version number, which also stands for   *)
(* its hash; a snapshot is its metadata and the number of its collection.  *)
(*                                                                         *)
(* An operator whose comment begins with "Deviation" is a variant of the   *)
(* one after it that no specification uses: a slip of the kind the         *)
(* properties have to catch.                                               *)
(***************************************************************************)
EXTENDS Integers, FiniteSets

CONSTANTS Callers,      \* backend threads that hold the connection
          Nobody,       \* the io mutex is free
          MaxId,        \* bound: request ids used on a connection
          MaxMeta,      \* bound: versions of the host's metadata
          MaxStamp      \* bound: snapshots the server collects

ASSUME SessionAssumption ==
    /\ Nobody \notin Callers
    /\ MaxId \in Nat \ {0} /\ MaxMeta \in Nat \ {0} /\ MaxStamp \in Nat

VARIABLES entry,        \* the snapshot in the server's cache; stamp 0 is none
          requests,     \* frames sent to the server
          replies,      \* frames sent to the client
          state,        \* the connection: closed, handshaking or open
          metadata,     \* ConnectedUdpNode.metadata
          nextId,       \* ConnectedUdpNode.next_request_id
          io,           \* who holds the socket
          pc,           \* where each thread is in query_connected
          id,           \* the request id of its query, and
          refreshId,    \* of its metadata refresh
          runtime,      \* the runtime payload a thread has received
          result,       \* what the last query of each thread returned
          held,         \* history: the snapshots that have been the server's entry, and
          sentAt        \* the entry when a request id was sent

server == <<entry, held, requests, replies>>
vars == <<entry, held, requests, replies, state, metadata, nextId, io, pc, id, refreshId,
          runtime, result, sentAt>>

Ids == 1..MaxId
Snapshots == [meta : 0..MaxMeta, stamp : 0..MaxStamp]
NoSnapshot == [meta |-> 0, stamp |-> 0]
Requests == [type : {"HandshakeRequest", "QueryRequest"}, id : Ids]
Replies == [type : {"MetadataPayload", "RuntimePayload", "QueryResponse"}, id : Ids,
            snap : Snapshots]
Results == [kind : {"none", "err", "ok"}, id : 0..MaxId, runtime : Snapshots, meta : 0..MaxMeta]
NoResult == [kind |-> "none", id |-> 0, runtime |-> NoSnapshot, meta |-> 0]

TypeOK ==
    /\ entry \in Snapshots /\ held \subseteq Snapshots
    /\ requests \subseteq Requests
    /\ replies \subseteq Replies
    /\ state \in {"closed", "handshaking", "open"}
    /\ metadata \in 0..MaxMeta
    /\ nextId \in 1..(MaxId + 1)
    /\ io \in Callers \cup {Nobody}
    /\ pc \in [Callers -> {"idle", "lock", "runtime", "metadata"}]
    /\ id \in [Callers -> 0..MaxId] /\ refreshId \in [Callers -> 0..MaxId]
    /\ runtime \in [Callers -> Snapshots]
    /\ result \in [Callers -> Results]
    /\ sentAt \in [Ids -> Snapshots]

Init ==
    /\ entry = NoSnapshot /\ held = {NoSnapshot}
    /\ requests = {} /\ replies = {}
    /\ state = "closed" /\ metadata = 0 /\ nextId = 1 /\ io = Nobody
    /\ pc = [t \in Callers |-> "idle"]
    /\ id = [t \in Callers |-> 0] /\ refreshId = [t \in Callers |-> 0]
    /\ runtime = [t \in Callers |-> NoSnapshot]
    /\ result = [t \in Callers |-> NoResult]
    /\ sentAt = [i \in Ids |-> NoSnapshot]

-----------------------------------------------------------------------------
(* The server. *)

(* GresCache stores a new snapshot (GresCache!EntryNeverRegresses). *)
Collect ==
    /\ entry.stamp < MaxStamp
    /\ \E m \in {entry.meta, entry.meta + 1} \cap 1..MaxMeta :
         entry' = [meta |-> m, stamp |-> entry.stamp + 1]
    /\ held' = held \cup {entry'}
    /\ UNCHANGED <<requests, replies, state, metadata, nextId, io, pc, id, refreshId,
                   runtime, result, sentAt>>

(* The answer to a request, from get_latest_or_refresh: metadata or        *)
(* runtime of the stored snapshot under the request's id, or the error of  *)
(* the collector.                                                          *)
Answer(r) ==
    [type |-> IF entry.stamp = 0 THEN "QueryResponse"
              ELSE IF r.type = "HandshakeRequest" THEN "MetadataPayload"
              ELSE "RuntimePayload",
     id |-> r.id, snap |-> entry]

(* server_loop: a request is answered each time it arrives. *)
Serve(r) ==
    /\ r \in requests
    /\ replies' = replies \cup {Answer(r)}
    /\ UNCHANGED <<entry, held, requests, state, metadata, nextId, io, pc, id, refreshId,
                   runtime, result, sentAt>>

-----------------------------------------------------------------------------
(* The client. *)

SendRequest(type, i) ==
    /\ requests' = requests \cup {[type |-> type, id |-> i]}
    /\ sentAt' = [sentAt EXCEPT ![i] = entry]

(* Deviation: whatever arrives is taken for the answer. *)
AnyReply(d, i) == TRUE

(* recv_frame skips frames of another request. *)
ReplyTo(d, i) == d.id = i

(* connect_node: handshake with request id 1 on a socket of its own. *)
StartHandshake ==
    /\ state = "closed"
    /\ SendRequest("HandshakeRequest", 1)
    /\ state' = "handshaking"
    /\ nextId' = 2
    /\ UNCHANGED <<entry, held, replies, metadata, io, pc, id, refreshId, runtime, result>>

HandshakeOk(d) ==
    /\ state = "handshaking" /\ d \in replies /\ ReplyTo(d, 1)
    /\ d.type = "MetadataPayload"
    /\ metadata' = d.snap.meta
    /\ state' = "open"
    /\ UNCHANGED <<server, nextId, io, pc, id, refreshId, runtime, result, sentAt>>

(* An error answer or no answer: the socket is dropped, and what is still  *)
(* on its way to it with it.                                               *)
HandshakeErr ==
    /\ state = "handshaking"
    /\ state' = "closed"
    /\ requests' = {} /\ replies' = {}
    /\ UNCHANGED <<entry, held, metadata, nextId, io, pc, id, refreshId, runtime, result, sentAt>>

(* query_connected: the id is taken before the socket is locked. *)
StartQuery(t) ==
    /\ state = "open" /\ pc[t] = "idle"
    /\ nextId <= MaxId
    /\ id' = [id EXCEPT ![t] = nextId]
    /\ nextId' = nextId + 1
    /\ pc' = [pc EXCEPT ![t] = "lock"]
    /\ result' = [result EXCEPT ![t] = NoResult]
    /\ UNCHANGED <<server, state, metadata, io, refreshId, runtime, sentAt>>

SendQuery(t) ==
    /\ pc[t] = "lock" /\ io = Nobody
    /\ io' = t
    /\ SendRequest("QueryRequest", id[t])
    /\ pc' = [pc EXCEPT ![t] = "runtime"]
    /\ UNCHANGED <<entry, held, replies, state, metadata, nextId, id, refreshId, runtime, result>>

(* Leave query_connected with result r. *)
Return(t, r) ==
    /\ result' = [result EXCEPT ![t] = r]
    /\ io' = Nobody
    /\ pc' = [pc EXCEPT ![t] = "idle"]
    /\ id' = [id EXCEPT ![t] = 0] /\ refreshId' = [refreshId EXCEPT ![t] = 0]
    /\ runtime' = [runtime EXCEPT ![t] = NoSnapshot]

Failed(t) == [kind |-> "err", id |-> id[t], runtime |-> NoSnapshot, meta |-> 0]

(* Deviation: the connection's metadata is used without comparing hashes. *)
AlwaysKnown(snap) == TRUE

(* runtime.metadata_hash is that of the metadata at hand.  A hash of 0     *)
(* means "none" and would also pass; no metadata is taken to hash to 0.    *)
MetadataKnown(snap) == snap.meta = metadata

(* The runtime payload arrived and its metadata is known. *)
RuntimeOk(t, d) ==
    /\ pc[t] = "runtime" /\ d \in replies /\ ReplyTo(d, id[t])
    /\ d.type = "RuntimePayload" /\ MetadataKnown(d.snap)
    /\ Return(t, [kind |-> "ok", id |-> id[t], runtime |-> d.snap, meta |-> metadata])
    /\ UNCHANGED <<server, state, metadata, nextId, sentAt>>

(* It belongs to other metadata: refresh_metadata, the socket still locked. *)
RuntimeNewMetadata(t, d) ==
    /\ pc[t] = "runtime" /\ d \in replies /\ ReplyTo(d, id[t])
    /\ d.type = "RuntimePayload" /\ ~MetadataKnown(d.snap)
    /\ nextId <= MaxId
    /\ nextId' = nextId + 1
    /\ SendRequest("HandshakeRequest", nextId)
    /\ runtime' = [runtime EXCEPT ![t] = d.snap]
    /\ refreshId' = [refreshId EXCEPT ![t] = nextId]
    /\ pc' = [pc EXCEPT ![t] = "metadata"]
    /\ UNCHANGED <<entry, held, replies, state, metadata, io, id, result>>

MetadataOk(t, d) ==
    /\ pc[t] = "metadata" /\ d \in replies /\ ReplyTo(d, refreshId[t])
    /\ d.type = "MetadataPayload"
    /\ metadata' = d.snap.meta
    /\ Return(t, [kind |-> "ok", id |-> id[t], runtime |-> runtime[t], meta |-> d.snap.meta])
    /\ UNCHANGED <<server, state, nextId, sentAt>>

(* An error answer, a frame of another type, a timeout or damaged chunks. *)
QueryErr(t) ==
    /\ pc[t] \in {"runtime", "metadata"}
    /\ Return(t, Failed(t))
    /\ UNCHANGED <<server, state, metadata, nextId, sentAt>>

Next ==
    \/ Collect
    \/ \E r \in requests : Serve(r)
    \/ StartHandshake \/ HandshakeErr
    \/ \E d \in replies : HandshakeOk(d)
    \/ \E t \in Callers :
         \/ StartQuery(t) \/ SendQuery(t) \/ QueryErr(t)
         \/ \E d \in replies : RuntimeOk(t, d) \/ RuntimeNewMetadata(t, d) \/ MetadataOk(t, d)

Spec == Init /\ [][Next]_vars

-----------------------------------------------------------------------------
(* A query is answered by a snapshot the server had when it was sent or    *)
(* collected later: neither a late answer to an earlier query that timed   *)
(* out, nor a repeated one, nor another thread's is taken for it.          *)
AnswerIsOwn ==
    \A t \in Callers :
        result[t].kind = "ok" => result[t].runtime.stamp >= sentAt[result[t].id].stamp

(* The runtime values a query returns are never put together with metadata *)
(* older than their own, however the host's metadata changes while the     *)
(* query and the refresh are under way (metadata_hash, refresh_metadata).  *)
MetadataNotOlder ==
    \A t \in Callers : result[t].kind = "ok" => result[t].meta >= result[t].runtime.meta

(* An open connection never goes back to older metadata: a late or         *)
(* repeated handshake answer does not overwrite what a refresh fetched.    *)
MetadataNeverRegresses == [][state = "open" => metadata' >= metadata]_vars

-----------------------------------------------------------------------------
(* How a connection implements Exchange: a caller asks when its request is *)
(* sent, with the socket, and holds the answer its last query returned.    *)
Window(t) ==
    IF io = t THEN {s \in held : s.stamp >= sentAt[id[t]].stamp} ELSE {}
Shown(t) ==
    IF result[t].kind = "ok"
    THEN {[runtime |-> result[t].runtime, meta |-> result[t].meta]} ELSE {}

Asked == INSTANCE Exchange
    WITH window <- [t \in Callers |-> Window(t)], answer <- [t \in Callers |-> Shown(t)]

(* Every query that succeeds returns values, and metadata, that the server *)
(* has had between the moment the query was sent and its return, the       *)
(* metadata no older than the values: retries, repeated requests, late     *)
(* answers and refreshes of metadata cannot be told from one exchange.     *)
ImplementsExchange == Asked!Spec
=============================================================================
