----------------------------- MODULE TcpSession -----------------------------
(***************************************************************************)
(* One TCP connection of the backend to one server                         *)
(* (crates/client-backend/src/tcp_client.rs, the error path of             *)
(* refresh_stale_cache_for_query in local_api.rs, and handle_query_stream  *)
(* in crates/server/src/main.rs).                                          *)
(*                                                                         *)
(* Frames travel in two byte streams that lose and reorder nothing.  The   *)
(* client numbers its requests 1 (handshake), 2 (query) and 3 (refresh)    *)
(* and never looks at the number of an answer: it takes the next frame     *)
(* for its own.  What keeps answers and queries together is that a query   *)
(* that fails gets the connection closed; but the stream is unlocked       *)
(* before it is closed, and another thread may get in between.             *)
(*                                                                         *)
(* A read that times out has consumed nothing, or part of a frame; then    *)
(* the stream is torn, and what is read next is not a frame header.  That  *)
(* no payload has the bytes of a header in it is an assumption.            *)
(* Metadata and snapshots are represented as in UdpSession.                *)
(*                                                                         *)
(* An operator whose comment begins with "Deviation" is a variant of the   *)
(* one after it that no specification uses: a slip of the kind the         *)
(* properties have to catch.                                               *)
(***************************************************************************)
EXTENDS Integers, Sequences, FiniteSets

CONSTANTS Callers,      \* backend threads that query the node
          Nobody,       \* the io mutex is free
          MaxSends,     \* bound: requests sent on one connection
          MaxMeta,      \* bound: versions of the host's metadata
          MaxStamp      \* bound: snapshots the server collects

ASSUME SessionAssumption ==
    /\ Nobody \notin Callers
    /\ MaxSends \in Nat \ {0} /\ MaxMeta \in Nat \ {0} /\ MaxStamp \in Nat

VARIABLES entry,        \* the snapshot in the server's cache; stamp 0 is none
          c2s, s2c,     \* the two directions of the stream, in whole frames
          sends,        \* requests sent on this connection
          serving,      \* handle_query_stream is running
          torn,         \* a frame was read in part
          shut,         \* the client shut the stream down
          state,        \* the connection: closed, handshaking or open
          pooled,       \* it is in the pool
          metadata,     \* ConnectedTcpNode.metadata
          io,           \* who holds the stream
          pc,           \* where each thread is in its query
          mine,         \* history: which request of the connection a thread sent last
          runtime,      \* the runtime payload a thread has received
          result        \* what the last query of each thread returned

stream == <<c2s, s2c, sends, serving, torn, shut>>
vars == <<entry, stream, state, pooled, metadata, io, pc, mine, runtime, result>>

Snapshots == [meta : 0..MaxMeta, stamp : 0..MaxStamp]
NoSnapshot == [meta |-> 0, stamp |-> 0]
Requests == [type : {"HandshakeRequest", "QueryRequest", "Disconnect", "partial"},
             seq : 1..MaxSends + 1]
Replies == [type : {"MetadataPayload", "RuntimePayload", "QueryResponse"},
            seq : 1..MaxSends, snap : Snapshots]
Results == [kind : {"none", "err", "ok"}, own : BOOLEAN, runtime : Snapshots,
            meta : 0..MaxMeta]
NoResult == [kind |-> "none", own |-> TRUE, runtime |-> NoSnapshot, meta |-> 0]
Failure == [kind |-> "err", own |-> TRUE, runtime |-> NoSnapshot, meta |-> 0]

Reading == {"runtime", "metadata"}

TypeOK ==
    /\ entry \in Snapshots
    /\ c2s \in Seq(Requests) /\ s2c \in Seq(Replies)
    /\ sends \in 0..MaxSends
    /\ serving \in BOOLEAN /\ torn \in BOOLEAN /\ shut \in BOOLEAN
    /\ state \in {"closed", "handshaking", "open"} /\ pooled \in BOOLEAN
    /\ metadata \in 0..MaxMeta
    /\ pc \in [Callers -> {"idle", "lock", "close", "evict"} \cup Reading]
    /\ io \in Callers \cup {Nobody}
    /\ \A t \in Callers : pc[t] \in Reading <=> io = t
    /\ mine \in [Callers -> 0..MaxSends]
    /\ runtime \in [Callers -> Snapshots]
    /\ result \in [Callers -> Results]

Init ==
    /\ entry = NoSnapshot
    /\ c2s = <<>> /\ s2c = <<>> /\ sends = 0
    /\ serving = FALSE /\ torn = FALSE /\ shut = FALSE
    /\ state = "closed" /\ pooled = FALSE /\ metadata = 0 /\ io = Nobody
    /\ pc = [t \in Callers |-> "idle"] /\ mine = [t \in Callers |-> 0]
    /\ runtime = [t \in Callers |-> NoSnapshot]
    /\ result = [t \in Callers |-> NoResult]

client == <<state, pooled, metadata, io, pc, mine, runtime, result>>

-----------------------------------------------------------------------------
(* The server. *)

(* GresCache stores a new snapshot (GresCache!EntryNeverRegresses). *)
Collect ==
    /\ entry.stamp < MaxStamp
    /\ \E m \in {entry.meta, entry.meta + 1} \cap 1..MaxMeta :
         entry' = [meta |-> m, stamp |-> entry.stamp + 1]
    /\ UNCHANGED <<stream, client>>

Answer(r) ==
    [type |-> IF entry.stamp = 0 THEN "QueryResponse"
              ELSE IF r.type = "HandshakeRequest" THEN "MetadataPayload"
              ELSE "RuntimePayload",
     seq |-> r.seq, snap |-> entry]

(* Deviation: requests are answered by threads that overtake one another. *)
ServeOvertaking ==
    /\ serving /\ c2s # <<>>
    /\ Head(c2s).type \in {"HandshakeRequest", "QueryRequest"}
    /\ s2c' = <<Answer(Head(c2s))>> \o s2c
    /\ c2s' = Tail(c2s)
    /\ UNCHANGED <<entry, sends, serving, torn, shut, client>>

(* handle_query_stream reads a frame and answers it. *)
Serve ==
    /\ serving /\ c2s # <<>>
    /\ Head(c2s).type \in {"HandshakeRequest", "QueryRequest"}
    /\ s2c' = Append(s2c, Answer(Head(c2s)))
    /\ c2s' = Tail(c2s)
    /\ UNCHANGED <<entry, sends, serving, torn, shut, client>>

(* It returns on Disconnect, at the end of the stream, on a frame that     *)
(* does not decode and on a failed write; the server may also be stopped.  *)
ServerEnds ==
    /\ serving
    /\ serving' = FALSE
    /\ UNCHANGED <<entry, c2s, s2c, sends, torn, shut, client>>

-----------------------------------------------------------------------------
(* The client. *)

Send(type) ==
    /\ sends < MaxSends
    /\ sends' = sends + 1
    /\ c2s' = Append(c2s, [type |-> type, seq |-> sends + 1])

(* read_frame: the next frame of the stream, whosoever it is. *)
Arrived(type) == ~torn /\ s2c # <<>> /\ Head(s2c).type = type
Consume == s2c' = Tail(s2c) /\ UNCHANGED <<serving, torn, shut>>

(* connect_node: a new stream and its handshake. *)
Connect ==
    /\ state = "closed"
    /\ Send("HandshakeRequest")
    /\ serving' = TRUE
    /\ state' = "handshaking"
    /\ UNCHANGED <<entry, s2c, torn, shut, pooled, metadata, io, pc, mine, runtime, result>>

HandshakeOk ==
    /\ state = "handshaking" /\ Arrived("MetadataPayload")
    /\ metadata' = Head(s2c).snap.meta
    /\ Consume
    /\ state' = "open" /\ pooled' = TRUE
    /\ UNCHANGED <<entry, c2s, sends, io, pc, mine, runtime, result>>

NewStream ==
    /\ c2s' = <<>> /\ s2c' = <<>> /\ sends' = 0
    /\ serving' = FALSE /\ torn' = FALSE /\ shut' = FALSE
    /\ state' = "closed"

(* An error answer or none: the stream is dropped. *)
HandshakeErr ==
    /\ state = "handshaking"
    /\ NewStream
    /\ UNCHANGED <<entry, pooled, metadata, io, pc, mine, runtime, result>>

(* Nobody holds the connection any more. *)
Drop ==
    /\ state = "open" /\ ~pooled /\ \A t \in Callers : pc[t] = "idle"
    /\ NewStream
    /\ UNCHANGED <<entry, pooled, metadata, io, pc, mine, runtime, result>>

(* A thread takes the connection from the pool, and waits for the stream. *)
StartQuery(t) ==
    /\ pooled /\ pc[t] = "idle"
    /\ pc' = [pc EXCEPT ![t] = "lock"]
    /\ UNCHANGED <<entry, stream, state, pooled, metadata, io, mine, runtime, result>>

(* Deviation: the stream is not locked. *)
SendQueryUnlocked(t) ==
    /\ pc[t] = "lock" /\ ~shut
    /\ Send("QueryRequest")
    /\ io' = t /\ mine' = [mine EXCEPT ![t] = sends + 1]
    /\ pc' = [pc EXCEPT ![t] = "runtime"]
    /\ UNCHANGED <<entry, s2c, serving, torn, shut, state, pooled, metadata, runtime, result>>

SendQuery(t) ==
    /\ pc[t] = "lock" /\ io = Nobody /\ ~shut
    /\ Send("QueryRequest")
    /\ io' = t /\ mine' = [mine EXCEPT ![t] = sends + 1]
    /\ pc' = [pc EXCEPT ![t] = "runtime"]
    /\ UNCHANGED <<entry, s2c, serving, torn, shut, state, pooled, metadata, runtime, result>>

Leave(t, r, next) ==
    /\ result' = [result EXCEPT ![t] = r]
    /\ io' = Nobody
    /\ pc' = [pc EXCEPT ![t] = next]
    /\ runtime' = [runtime EXCEPT ![t] = NoSnapshot]
    /\ mine' = [mine EXCEPT ![t] = 0]

(* Deviation: the connection is kept after a failed query. *)
FailKeeping(t) == Leave(t, Failure, "idle")

(* query_connected returns an error and the stream is unlocked; the caller *)
(* goes on to close the connection.                                        *)
Fail(t) == Leave(t, Failure, "close")

(* write_all returns an error: the stream was shut down, the peer is gone  *)
(* or the write timed out, perhaps with part of the frame written.         *)
WriteErr ==
    \/ UNCHANGED c2s
    \/ ~shut /\ c2s' = Append(c2s, [type |-> "partial", seq |-> sends + 1])

(* The request cannot be written. *)
SendErr(t) ==
    /\ pc[t] = "lock" /\ io = Nobody
    /\ Fail(t)
    /\ WriteErr
    /\ UNCHANGED <<entry, s2c, sends, serving, torn, shut, state, pooled, metadata>>

(* Deviation: the connection's metadata is used without comparing hashes. *)
AlwaysKnown(snap) == TRUE

(* As in UdpSession: the hash in the payload is that of the metadata. *)
MetadataKnown(snap) == snap.meta = metadata

Ok(t, snap, seq, meta) == [kind |-> "ok", own |-> seq = mine[t], runtime |-> snap, meta |-> meta]

RuntimeOk(t) ==
    /\ pc[t] = "runtime" /\ Arrived("RuntimePayload")
    /\ LET d == Head(s2c) IN
       /\ MetadataKnown(d.snap)
       /\ Leave(t, Ok(t, d.snap, d.seq, metadata), "idle")
    /\ Consume
    /\ UNCHANGED <<entry, c2s, sends, state, pooled, metadata>>

(* refresh_metadata on the same stream, still locked. *)
RuntimeNewMetadata(t) ==
    /\ pc[t] = "runtime" /\ Arrived("RuntimePayload")
    /\ ~MetadataKnown(Head(s2c).snap)
    /\ runtime' = [runtime EXCEPT ![t] = Head(s2c).snap]
    /\ mine' = [mine EXCEPT ![t] = IF Head(s2c).seq = @ THEN sends + 1 ELSE 0]
    /\ Consume
    /\ Send("HandshakeRequest")
    /\ pc' = [pc EXCEPT ![t] = "metadata"]
    /\ UNCHANGED <<entry, state, pooled, metadata, io, result>>

(* The refresh cannot be written, the runtime payload is used up. *)
RefreshErr(t) ==
    /\ pc[t] = "runtime" /\ Arrived("RuntimePayload")
    /\ ~MetadataKnown(Head(s2c).snap)
    /\ Fail(t)
    /\ Consume
    /\ WriteErr
    /\ UNCHANGED <<entry, sends, state, pooled, metadata>>

MetadataOk(t) ==
    /\ pc[t] = "metadata" /\ Arrived("MetadataPayload")
    /\ LET d == Head(s2c) IN
       /\ metadata' = d.snap.meta
       /\ Leave(t, Ok(t, runtime[t], d.seq, d.snap.meta), "idle")
    /\ Consume
    /\ UNCHANGED <<entry, c2s, sends, state, pooled>>

(* A frame of another type: an error answer of the server, or an answer    *)
(* that was not meant for this query.  It is used up.                      *)
Unexpected(t) ==
    /\ \/ pc[t] = "runtime" /\ (Arrived("QueryResponse") \/ Arrived("MetadataPayload"))
       \/ pc[t] = "metadata" /\ (Arrived("QueryResponse") \/ Arrived("RuntimePayload"))
    /\ Fail(t)
    /\ Consume
    /\ UNCHANGED <<entry, c2s, sends, state, pooled, metadata>>

(* The read times out, before or within a frame, finds the stream ended,   *)
(* or finds no frame header where the stream is torn.                      *)
ReadErr(t) ==
    /\ pc[t] \in Reading
    /\ Fail(t)
    /\ torn' \in {torn, torn \/ s2c # <<>>}
    /\ UNCHANGED <<entry, c2s, s2c, sends, serving, shut, state, pooled, metadata>>

(* connection.close(), which waits for the stream. *)
Close(t) ==
    /\ pc[t] = "close" /\ io = Nobody
    /\ shut' = TRUE
    /\ pc' = [pc EXCEPT ![t] = "evict"]
    /\ UNCHANGED <<entry, c2s, s2c, sends, serving, torn, state, pooled, metadata, io, mine,
                   runtime, result>>

(* connections.remove *)
Evict(t) ==
    /\ pc[t] = "evict"
    /\ pooled' = FALSE
    /\ pc' = [pc EXCEPT ![t] = "idle"]
    /\ UNCHANGED <<entry, stream, state, metadata, io, mine, runtime, result>>

(* establish_one_connection replaces the connection by one to another      *)
(* address of the host: removed from the pool, then disconnected.  If the  *)
(* frame cannot be written, disconnect returns before it shuts the stream  *)
(* down, and the threads that already have the connection go on with it.   *)
Disconnect ==
    /\ pooled /\ io = Nobody
    /\ pooled' = FALSE
    /\ \/ /\ ~shut /\ shut' = TRUE
          /\ c2s' = Append(c2s, [type |-> "Disconnect", seq |-> sends + 1])
       \/ WriteErr /\ UNCHANGED shut
    /\ UNCHANGED <<entry, s2c, sends, serving, torn, state, metadata, io, pc, mine, runtime,
                   result>>

Next ==
    \/ Collect \/ Serve \/ ServerEnds
    \/ Connect \/ HandshakeOk \/ HandshakeErr \/ Drop \/ Disconnect
    \/ \E t \in Callers :
         \/ StartQuery(t) \/ SendQuery(t) \/ SendErr(t)
         \/ RuntimeOk(t) \/ RuntimeNewMetadata(t) \/ RefreshErr(t) \/ MetadataOk(t)
         \/ Unexpected(t) \/ ReadErr(t) \/ Close(t) \/ Evict(t)

Spec == Init /\ [][Next]_vars

-----------------------------------------------------------------------------
(* Whenever the stream is free and nobody is about to close it, it is in   *)
(* step: nothing unanswered, nothing unread, no frame cut in two.  This is *)
(* what lets the client do without request ids.  There is one exception:   *)
(* a disconnect whose frame could be written only in part leaves the       *)
(* stream open with that part in it, but out of the pool, and nothing that *)
(* a thread sends behind it is answered.                                   *)
InStepOrDoomed ==
    state = "open" /\ io = Nobody /\ ~shut /\ (\A t \in Callers : pc[t] # "close")
        => /\ s2c = <<>> /\ ~torn
           /\ \/ c2s = <<>>
              \/ ~pooled /\ Len(c2s) = 1 /\ c2s[1].type = "partial"

(* A query returns the answer to another one only in the gap in which a    *)
(* query that failed has unlocked the stream and not yet closed it.        *)
ForeignOnlyBeforeClose ==
    [][\A t \in Callers :
         result'[t] # result[t] /\ result'[t].kind = "ok" /\ ~result'[t].own
             => \E u \in Callers \ {t} : pc[u] = "close"]_vars

(* Even then answers come in order: no query returns a snapshot older than *)
(* one that a query returned before it, by this thread or another.         *)
AnswersInOrder ==
    [][\A t, u \in Callers :
         result'[t] # result[t] /\ result'[t].kind = "ok" /\ result[u].kind = "ok"
             => result'[t].runtime.stamp >= result[u].runtime.stamp]_vars

(* Runtime values are never put together with metadata older than their    *)
(* own, also when the answers are those of other queries.                  *)
MetadataNotOlder ==
    \A t \in Callers : result[t].kind = "ok" => result[t].meta >= result[t].runtime.meta
=============================================================================
