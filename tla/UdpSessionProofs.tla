-------------------------- MODULE UdpSessionProofs --------------------------
(* The safety properties of UdpSession, for any number of threads, requests *)
(* and snapshots, and whatever the network does with the datagrams.         *)
EXTENDS UdpSession, TLAPS

Older(a, b) == a.meta <= b.meta /\ a.stamp <= b.stamp

(* Request ids that have been sent: handed out, and not in the hands of a   *)
(* thread that waits for the socket.                                        *)
Sent == {i \in Ids : i < nextId /\ \A t \in Callers : pc[t] = "lock" => id[t] # i}

(* The io mutex. *)
Exclusive == \A t \in Callers : pc[t] \in {"runtime", "metadata"} <=> io = t

(* Nobody queries before the handshake is over, and a handshake begins on a *)
(* socket of its own.                                                       *)
Unopened ==
    /\ state # "open" => \A t \in Callers : pc[t] = "idle" /\ result[t].kind = "none"
    /\ state = "closed" => requests = {} /\ replies = {}

(* No id is sent twice: what is on the wire, what a thread waits for and    *)
(* what was returned is about ids that were sent.                           *)
SentOnce ==
    /\ \A r \in requests : r.id \in Sent
    /\ \A d \in replies : d.id \in Sent
    /\ \A t \in Callers : pc[t] # "idle" => id[t] \in Ids /\ id[t] < nextId
    /\ \A t, u \in Callers : pc[t] = "lock" /\ pc[u] # "idle" /\ id[t] = id[u] => t = u
    /\ \A t \in Callers : pc[t] = "metadata" => refreshId[t] \in Sent
    /\ \A t \in Callers : result[t].kind = "ok" => result[t].id \in Sent

(* A request's answer is not older than the entry when it was sent, and not *)
(* newer than the entry now; so are the payload in the hands of a thread    *)
(* and the metadata it is about to replace.                                 *)
Ordered ==
    /\ \A i \in Ids : Older(sentAt[i], entry)
    /\ \A d \in replies : Older(sentAt[d.id], d.snap) /\ Older(d.snap, entry)
    /\ metadata <= entry.meta
    /\ \A t \in Callers : pc[t] = "metadata" =>
         /\ runtime[t].stamp >= sentAt[id[t]].stamp
         /\ Older(runtime[t], sentAt[refreshId[t]])
         /\ metadata <= sentAt[refreshId[t]].meta

IInv ==
    /\ TypeOK /\ Exclusive /\ Unopened /\ SentOnce /\ Ordered
    /\ AnswerIsOwn /\ MetadataNotOlder

-----------------------------------------------------------------------------
(* The initial state satisfies the inductive invariant. *)
LEMMA InitIInv == Init => IInv
<1> SUFFICES ASSUME Init PROVE IInv
  OBVIOUS
<1> USE SessionAssumption DEF Init
<1>1. NoSnapshot \in Snapshots /\ NoResult \in Results /\ NoResult.kind = "none"
  BY DEF Snapshots, NoSnapshot, Results, NoResult
<1>2. TypeOK
  BY <1>1 DEF TypeOK, Ids
<1>3. Exclusive /\ Unopened /\ SentOnce
  BY <1>1 DEF Exclusive, Unopened, SentOnce, Sent
<1>4. Ordered /\ AnswerIsOwn /\ MetadataNotOlder
  BY <1>1 DEF Ordered, AnswerIsOwn, MetadataNotOlder, Older, NoSnapshot
<1> QED
  BY <1>2, <1>3, <1>4 DEF IInv

-----------------------------------------------------------------------------
(* The fields of well-formed state are numbers. *)
LEMMA Numbers ==
    ASSUME TypeOK
    PROVE  /\ MaxId \in Nat /\ MaxMeta \in Nat /\ MaxStamp \in Nat /\ nextId \in Nat
           /\ metadata \in Nat /\ entry.meta \in Nat /\ entry.stamp \in Nat
           /\ \A i \in Ids : i \in Nat /\ sentAt[i].meta \in Nat /\ sentAt[i].stamp \in Nat
           /\ \A d \in replies : /\ d.id \in Ids /\ d.snap \in Snapshots
                                 /\ d.snap.meta \in Nat /\ d.snap.stamp \in Nat
           /\ \A t \in Callers : /\ runtime[t].meta \in Nat /\ runtime[t].stamp \in Nat
                                 /\ result[t].id \in Nat /\ result[t].meta \in Nat
                                 /\ result[t].runtime.meta \in Nat
                                 /\ result[t].runtime.stamp \in Nat
<1> USE SessionAssumption DEF TypeOK
<1>1. \A s \in Snapshots : s.meta \in Nat /\ s.stamp \in Nat
  BY DEF Snapshots
<1>2. \A d \in replies : d.id \in Ids /\ d.snap \in Snapshots
  BY DEF Replies
<1>3. \A i \in Ids : i \in Nat /\ sentAt[i] \in Snapshots
  BY DEF Ids
<1>4. \A t \in Callers : /\ runtime[t] \in Snapshots /\ result[t].id \in Nat
                         /\ result[t].meta \in Nat /\ result[t].runtime \in Snapshots
  BY DEF Results
<1>5. MaxId \in Nat /\ MaxMeta \in Nat /\ MaxStamp \in Nat /\ nextId \in Nat
      /\ metadata \in Nat /\ entry \in Snapshots
  OBVIOUS
<1> QED
  BY <1>1, <1>2, <1>3, <1>4, <1>5

(* A request sent under an id no answer, thread or result is about leaves  *)
(* what is known of the others.                                            *)
LEMMA SendKeeps ==
    ASSUME TypeOK, NEW i \in Ids, NEW type \in {"HandshakeRequest", "QueryRequest"},
           SendRequest(type, i)
    PROVE  /\ requests' \subseteq Requests /\ sentAt' \in [Ids -> Snapshots]
           /\ sentAt'[i] = entry
           /\ \A j \in Ids : j # i => sentAt'[j] = sentAt[j]
           /\ \A r \in requests' : r \in requests \/ r.id = i
<1>1. [type |-> type, id |-> i] \in Requests
  BY DEF Requests
<1> QED
  BY <1>1 DEF SendRequest, TypeOK

(* A thread that leaves query_connected keeps the state well formed. *)
LEMMA ReturnType ==
    ASSUME TypeOK, NEW t \in Callers, NEW r \in Results, Return(t, r)
    PROVE  /\ io' = Nobody /\ pc' \in [Callers -> {"idle", "lock", "runtime", "metadata"}]
           /\ id' \in [Callers -> 0..MaxId] /\ refreshId' \in [Callers -> 0..MaxId]
           /\ runtime' \in [Callers -> Snapshots] /\ result' \in [Callers -> Results]
           /\ pc'[t] = "idle" /\ result'[t] = r
           /\ \A u \in Callers : u # t =>
                /\ pc'[u] = pc[u] /\ id'[u] = id[u] /\ refreshId'[u] = refreshId[u]
                /\ runtime'[u] = runtime[u] /\ result'[u] = result[u]
<1>1. NoSnapshot \in Snapshots /\ 0 \in 0..MaxId
  BY SessionAssumption DEF Snapshots, NoSnapshot
<1> QED
  BY <1>1 DEF Return, TypeOK

-----------------------------------------------------------------------------
(* The state stays well formed. *)
LEMMA StepType == IInv /\ [Next]_vars => TypeOK'
<1> SUFFICES ASSUME IInv, [Next]_vars PROVE TypeOK'
  OBVIOUS
<1>0. TypeOK
  BY DEF IInv
<1>1. ASSUME Collect PROVE TypeOK'
  <2>1. entry' \in Snapshots
    BY <1>0, <1>1, Numbers DEF Collect, Snapshots
  <2> QED
    BY <1>0, <1>1, <2>1 DEF Collect, TypeOK
<1>2. ASSUME NEW r \in requests, Serve(r) PROVE TypeOK'
  <2>1. Answer(r) \in Replies
    BY <1>0 DEF TypeOK, Answer, Replies, Requests
  <2> QED
    BY <1>0, <1>2, <2>1 DEF Serve, TypeOK
<1>3. ASSUME StartHandshake PROVE TypeOK'
  <2>1. 1 \in Ids /\ 2 \in 1..(MaxId + 1)
    BY SessionAssumption DEF Ids
  <2>2. requests' \subseteq Requests /\ sentAt' \in [Ids -> Snapshots]
    BY <1>0, <1>3, <2>1, SendKeeps DEF StartHandshake
  <2> QED
    BY <1>0, <1>3, <2>1, <2>2 DEF StartHandshake, TypeOK
<1>4. ASSUME HandshakeErr PROVE TypeOK'
  BY <1>0, <1>4 DEF HandshakeErr, TypeOK
<1>5. ASSUME NEW d \in replies, HandshakeOk(d) PROVE TypeOK'
  <2>1. metadata' \in 0..MaxMeta
    BY <1>0, <1>5, Numbers DEF HandshakeOk, Snapshots
  <2> QED
    BY <1>0, <1>5, <2>1 DEF HandshakeOk, TypeOK, server
<1>6. ASSUME NEW t \in Callers, StartQuery(t) PROVE TypeOK'
  <2>1. NoResult \in Results
    BY SessionAssumption DEF NoResult, Results, NoSnapshot, Snapshots
  <2>2. nextId \in 0..MaxId /\ nextId' \in 1..(MaxId + 1)
    BY <1>0, <1>6, SessionAssumption DEF StartQuery, TypeOK
  <2> QED
    BY <1>0, <1>6, <2>1, <2>2 DEF StartQuery, TypeOK, server
<1>7. ASSUME NEW t \in Callers, SendQuery(t) PROVE TypeOK'
  <2>1. id[t] \in Ids
    BY <1>7 DEF IInv, SentOnce, SendQuery
  <2>2. requests' \subseteq Requests /\ sentAt' \in [Ids -> Snapshots]
    BY <1>0, <1>7, <2>1, SendKeeps DEF SendQuery
  <2> QED
    BY <1>0, <1>7, <2>2 DEF SendQuery, TypeOK
<1>8. ASSUME NEW t \in Callers, QueryErr(t) PROVE TypeOK'
  <2>1. Failed(t) \in Results
    BY <1>0, SessionAssumption DEF Failed, Results, TypeOK, NoSnapshot, Snapshots
  <2>2. Return(t, Failed(t))
    BY <1>8 DEF QueryErr
  <2> QED
    BY <1>0, <1>8, <2>1, <2>2, ReturnType DEF QueryErr, TypeOK, server
<1>9. ASSUME NEW t \in Callers, NEW d \in replies, RuntimeOk(t, d) PROVE TypeOK'
  <2> DEFINE r == [kind |-> "ok", id |-> id[t], runtime |-> d.snap, meta |-> metadata]
  <2>1. r \in Results
    BY <1>0, Numbers DEF Results, TypeOK
  <2>2. Return(t, r)
    BY <1>9 DEF RuntimeOk
  <2> HIDE DEF r
  <2> QED
    BY <1>0, <1>9, <2>1, <2>2, ReturnType DEF RuntimeOk, TypeOK, server
<1>10. ASSUME NEW t \in Callers, NEW d \in replies, RuntimeNewMetadata(t, d) PROVE TypeOK'
  <2>1. nextId \in Ids /\ nextId \in 0..MaxId /\ nextId' \in 1..(MaxId + 1)
    BY <1>0, <1>10, SessionAssumption DEF RuntimeNewMetadata, TypeOK, Ids
  <2>2. requests' \subseteq Requests /\ sentAt' \in [Ids -> Snapshots]
    BY <1>0, <1>10, <2>1, SendKeeps DEF RuntimeNewMetadata
  <2>3. d.snap \in Snapshots
    BY <1>0, Numbers
  <2> QED
    BY <1>0, <1>10, <2>1, <2>2, <2>3 DEF RuntimeNewMetadata, TypeOK
<1>11. ASSUME NEW t \in Callers, NEW d \in replies, MetadataOk(t, d) PROVE TypeOK'
  <2> DEFINE r == [kind |-> "ok", id |-> id[t], runtime |-> runtime[t], meta |-> d.snap.meta]
  <2>1. d.snap.meta \in 0..MaxMeta
    BY <1>0, Numbers DEF Snapshots
  <2>2. r \in Results
    BY <1>0, <2>1 DEF Results, TypeOK
  <2>3. Return(t, r)
    BY <1>11 DEF MetadataOk
  <2> HIDE DEF r
  <2> QED
    BY <1>0, <1>11, <2>1, <2>2, <2>3, ReturnType DEF MetadataOk, TypeOK, server
<1>12. ASSUME UNCHANGED vars PROVE TypeOK'
  BY <1>0, <1>12 DEF vars, TypeOK
<1> QED
  BY <1>1, <1>2, <1>3, <1>4, <1>5, <1>6, <1>7, <1>8, <1>9, <1>10, <1>11, <1>12 DEF Next

-----------------------------------------------------------------------------
(* The rest of the inductive invariant, for the steps that send nothing. *)
Rest == Exclusive /\ Unopened /\ SentOnce /\ Ordered /\ AnswerIsOwn /\ MetadataNotOlder

(* A new snapshot on the server is newer than all that is under way. *)
LEMMA CollectRest == IInv /\ Collect => Rest'
<1> SUFFICES ASSUME IInv, Collect PROVE Rest'
  OBVIOUS
<1>1. Exclusive' /\ Unopened' /\ SentOnce' /\ AnswerIsOwn' /\ MetadataNotOlder'
  BY DEF IInv, Collect, Exclusive, Unopened, SentOnce, Sent, AnswerIsOwn, MetadataNotOlder
<1>2. entry'.meta \in Nat /\ entry'.stamp \in Nat /\ Older(entry, entry')
  BY Numbers DEF IInv, Collect, Older
<1>3. Ordered'
  BY <1>2, Numbers DEF IInv, Collect, Ordered, Older
<1> QED
  BY <1>1, <1>3 DEF Rest

(* An answer is made from the entry at that moment. *)
LEMMA ServeRest == ASSUME IInv, NEW r \in requests, Serve(r) PROVE Rest'
<1>1. Answer(r).id = r.id /\ Answer(r).snap = entry /\ r.id \in Ids
  BY DEF Answer, IInv, TypeOK, Requests
<1>2. Exclusive' /\ Unopened' /\ AnswerIsOwn' /\ MetadataNotOlder'
  BY DEF IInv, Serve, Exclusive, Unopened, AnswerIsOwn, MetadataNotOlder
<1>3. SentOnce'
  BY <1>1 DEF IInv, Serve, SentOnce, Sent
<1>4. Ordered'
  BY <1>1, Numbers DEF IInv, Serve, Ordered, Older
<1> QED
  BY <1>2, <1>3, <1>4 DEF Rest

(* The handshake. *)
LEMMA HandshakeRest ==
    ASSUME IInv, \/ StartHandshake \/ HandshakeErr \/ \E d \in replies : HandshakeOk(d)
    PROVE  Rest'
<1>1. CASE StartHandshake
  <2>1. 1 \in Ids
    BY SessionAssumption DEF Ids
  <2>2. /\ sentAt'[1] = entry /\ \A j \in Ids : j # 1 => sentAt'[j] = sentAt[j]
        /\ \A r \in requests' : r \in requests \/ r.id = 1
    BY <1>1, <2>1, SendKeeps DEF IInv, StartHandshake
  <2>3. requests = {} /\ replies = {} /\ \A t \in Callers : pc[t] = "idle" /\ result[t].kind = "none"
    BY <1>1 DEF IInv, Unopened, StartHandshake
  <2>4. Exclusive' /\ Unopened' /\ SentOnce' /\ AnswerIsOwn' /\ MetadataNotOlder'
    BY <1>1, <2>1, <2>2, <2>3 DEF IInv, StartHandshake, Exclusive, Unopened, SentOnce, Sent,
                            AnswerIsOwn, MetadataNotOlder
  <2>5. Ordered'
    BY <1>1, <2>1, <2>2, <2>3, Numbers DEF IInv, StartHandshake, Ordered, Older
  <2> QED
    BY <2>4, <2>5 DEF Rest
<1>2. CASE HandshakeErr
  <2>1. Exclusive' /\ Unopened' /\ SentOnce' /\ AnswerIsOwn' /\ MetadataNotOlder'
    BY <1>2 DEF IInv, HandshakeErr, Exclusive, Unopened, SentOnce, Sent, AnswerIsOwn,
                MetadataNotOlder
  <2>2. Ordered'
    BY <1>2 DEF IInv, HandshakeErr, Ordered, Older
  <2> QED
    BY <2>1, <2>2 DEF Rest
<1>3. ASSUME NEW d \in replies, HandshakeOk(d) PROVE Rest'
  <2>1. \A t \in Callers : pc[t] = "idle" /\ result[t].kind = "none"
    BY <1>3 DEF IInv, Unopened, HandshakeOk
  <2>2. Exclusive' /\ Unopened' /\ SentOnce' /\ AnswerIsOwn' /\ MetadataNotOlder'
    BY <1>3, <2>1 DEF IInv, HandshakeOk, server, Exclusive, Unopened, SentOnce, Sent,
                      AnswerIsOwn, MetadataNotOlder
  <2>3. Ordered'
    BY <1>3, <2>1, Numbers DEF IInv, HandshakeOk, server, Ordered, Older
  <2> QED
    BY <2>2, <2>3 DEF Rest
<1> QED
  BY <1>1, <1>2, <1>3

(* A query takes an id nobody has. *)
LEMMA StartRest == ASSUME IInv, NEW t \in Callers, StartQuery(t) PROVE Rest'
<1>1. nextId \in Ids /\ nextId \in Nat /\ \A u \in Callers : id[u] \in Int
  BY SessionAssumption DEF IInv, TypeOK, StartQuery, Ids
<1>2. \A i \in Sent : i # nextId /\ i \in Sent'
  BY <1>1 DEF IInv, TypeOK, StartQuery, Sent, Ids
<1>3. Exclusive' /\ Unopened'
  BY DEF IInv, StartQuery, Exclusive, Unopened, TypeOK, server
<1>4. \A u \in Callers : result'[u].kind = "ok" => u # t /\ result'[u] = result[u]
  BY DEF IInv, StartQuery, TypeOK, NoResult
<1>5. SentOnce'
  <2>1. requests' = requests /\ replies' = replies /\ \A r \in requests : r.id \in Ids
    BY DEF IInv, StartQuery, server, TypeOK, Requests
  <2>2. /\ \A r \in requests' : r.id \in Sent'
        /\ \A d \in replies' : d.id \in Sent'
    BY <1>2, <2>1, Numbers DEF IInv, SentOnce
  <2>3. \A u \in Callers : pc'[u] = "metadata" => refreshId'[u] \in Sent'
    BY <1>2 DEF IInv, SentOnce, StartQuery, TypeOK
  <2>4. \A u \in Callers : result'[u].kind = "ok" => result'[u].id \in Sent'
    BY <1>2, <1>4 DEF IInv, SentOnce
  <2>5. \A u \in Callers : pc'[u] # "idle" => id'[u] \in Ids /\ id'[u] < nextId'
    BY <1>1 DEF IInv, SentOnce, StartQuery, TypeOK, Ids
  <2>6. \A u, v \in Callers : pc'[u] = "lock" /\ pc'[v] # "idle" /\ id'[u] = id'[v] => u = v
    BY <1>1 DEF IInv, SentOnce, StartQuery, TypeOK
  <2> QED
    BY <2>2, <2>3, <2>4, <2>5, <2>6 DEF SentOnce
<1>6. Ordered'
  BY DEF IInv, StartQuery, TypeOK, server, Ordered, Older
<1>7. AnswerIsOwn' /\ MetadataNotOlder'
  BY <1>4 DEF IInv, StartQuery, AnswerIsOwn, MetadataNotOlder
<1> QED
  BY <1>3, <1>5, <1>6, <1>7 DEF Rest

(* A query is sent with the socket locked, under an id that was not sent. *)
LEMMA SendRest == ASSUME IInv, NEW t \in Callers, SendQuery(t) PROVE Rest'
<1>1. id[t] \in Ids /\ id[t] \notin Sent /\ id[t] < nextId
  BY DEF IInv, SentOnce, SendQuery, Sent
<1>2. /\ sentAt'[id[t]] = entry
      /\ \A j \in Ids : j # id[t] => sentAt'[j] = sentAt[j]
      /\ \A r \in requests' : r \in requests \/ r.id = id[t]
  BY <1>1, SendKeeps DEF IInv, SendQuery
<1>3. \A u \in Callers : pc[u] = "lock" /\ id[u] = id[t] => u = t
  BY DEF IInv, SentOnce, SendQuery
<1>4. \A i \in Sent : i \in Sent' /\ i # id[t]
  BY <1>1 DEF IInv, TypeOK, SendQuery, Sent
<1>5. id[t] \in Sent'
  BY <1>1, <1>3 DEF IInv, TypeOK, SendQuery, Sent, Ids
<1>6. Exclusive' /\ Unopened'
  BY SessionAssumption DEF IInv, SendQuery, Exclusive, Unopened, TypeOK
<1>7. SentOnce'
  <2>1. /\ \A r \in requests' : r.id \in Sent'
        /\ \A d \in replies' : d.id \in Sent'
    BY <1>2, <1>4, <1>5 DEF IInv, SentOnce, SendQuery
  <2>2. \A u \in Callers : /\ pc'[u] = "metadata" => refreshId'[u] \in Sent'
                           /\ result'[u].kind = "ok" => result'[u].id \in Sent'
    BY <1>4 DEF IInv, SentOnce, SendQuery, TypeOK
  <2>3. /\ \A u \in Callers : pc'[u] # "idle" => id'[u] \in Ids /\ id'[u] < nextId'
        /\ \A u, v \in Callers : pc'[u] = "lock" /\ pc'[v] # "idle" /\ id'[u] = id'[v] => u = v
    BY DEF IInv, SentOnce, SendQuery, TypeOK
  <2> QED
    BY <2>1, <2>2, <2>3 DEF SentOnce
<1>8. Ordered'
  <2>1. \A u \in Callers : pc'[u] # "metadata"
    BY SessionAssumption DEF IInv, SendQuery, Exclusive, TypeOK
  <2>2. \A d \in replies : d.id # id[t] /\ sentAt'[d.id] = sentAt[d.id]
    BY <1>1, <1>2, Numbers DEF IInv, SentOnce
  <2> QED
    BY <1>1, <1>2, <2>1, <2>2, Numbers DEF IInv, SendQuery, Ordered, Older
<1>9. AnswerIsOwn' /\ MetadataNotOlder'
  BY <1>1, <1>2, <1>4 DEF IInv, SentOnce, Sent, SendQuery, AnswerIsOwn, MetadataNotOlder
<1> QED
  BY <1>6, <1>7, <1>8, <1>9 DEF Rest

(* A thread that leaves with its own answer, or with none. *)
LEMMA ReturnRest ==
    ASSUME IInv, NEW t \in Callers, NEW r \in Results,
           pc[t] \in {"runtime", "metadata"}, Return(t, r),
           UNCHANGED <<server, state, nextId, sentAt>>,
           metadata' \in Nat, metadata' <= entry.meta,
           r.kind = "ok" => /\ r.id = id[t] /\ r.runtime.stamp >= sentAt[id[t]].stamp
                            /\ r.meta >= r.runtime.meta
    PROVE  Rest'
<1>1. /\ io = t /\ io' = Nobody /\ pc'[t] = "idle" /\ result'[t] = r
      /\ \A u \in Callers : u # t =>
           /\ pc'[u] = pc[u] /\ id'[u] = id[u] /\ refreshId'[u] = refreshId[u]
           /\ runtime'[u] = runtime[u] /\ result'[u] = result[u]
  BY ReturnType DEF IInv, Exclusive
<1>2. \A u \in Callers : u # t => pc[u] \notin {"runtime", "metadata"}
  BY <1>1 DEF IInv, Exclusive
<1>3. id[t] \in Sent
  BY DEF IInv, SentOnce, Sent
<1>4. \A i \in Sent : i \in Sent'
  BY <1>1 DEF Sent
<1>5. Exclusive' /\ Unopened'
  BY <1>1, <1>2, SessionAssumption DEF IInv, Exclusive, Unopened, server
<1>6. SentOnce'
  <2>1. requests' = requests /\ replies' = replies
    BY DEF server
  <2>2. \A u \in Callers : result'[u].kind = "ok" => result'[u].id \in Sent'
    BY <1>1, <1>3, <1>4 DEF IInv, SentOnce
  <2>3. /\ \A u \in Callers : pc'[u] # "idle" => id'[u] \in Ids /\ id'[u] < nextId'
        /\ \A u, v \in Callers : pc'[u] = "lock" /\ pc'[v] # "idle" /\ id'[u] = id'[v] => u = v
        /\ \A u \in Callers : pc'[u] = "metadata" => refreshId'[u] \in Sent'
    BY <1>1, <1>4 DEF IInv, SentOnce
  <2> QED
    BY <1>4, <2>1, <2>2, <2>3 DEF IInv, SentOnce
<1>7. Ordered'
  BY <1>1, <1>2 DEF IInv, Ordered, Older, server
<1>8. AnswerIsOwn' /\ MetadataNotOlder'
  BY <1>1 DEF IInv, AnswerIsOwn, MetadataNotOlder
<1> QED
  BY <1>5, <1>6, <1>7, <1>8 DEF Rest

(* The ways out of query_connected. *)
LEMMA LeaveRest ==
    ASSUME IInv, NEW t \in Callers,
           QueryErr(t) \/ \E d \in replies : RuntimeOk(t, d) \/ MetadataOk(t, d)
    PROVE  Rest'
<1>1. CASE QueryErr(t)
  <2>1. Failed(t) \in Results /\ Failed(t).kind = "err"
    BY SessionAssumption DEF IInv, Failed, Results, TypeOK, NoSnapshot, Snapshots
  <2>2. metadata \in Nat /\ metadata <= entry.meta
    BY Numbers DEF IInv, Ordered
  <2> QED
    BY <1>1, <2>1, <2>2, ReturnRest DEF QueryErr
<1>2. ASSUME NEW d \in replies, RuntimeOk(t, d) PROVE Rest'
  <2> DEFINE r == [kind |-> "ok", id |-> id[t], runtime |-> d.snap, meta |-> metadata]
  <2>1. r \in Results
    BY Numbers DEF IInv, Results, TypeOK
  <2>2. r.id = id[t] /\ r.runtime.stamp >= sentAt[id[t]].stamp /\ r.meta >= r.runtime.meta
    BY <1>2, Numbers DEF IInv, RuntimeOk, MetadataKnown, ReplyTo, Ordered, Older
  <2>3. metadata \in Nat /\ metadata <= entry.meta
    BY Numbers DEF IInv, Ordered
  <2>4. Return(t, r)
    BY <1>2 DEF RuntimeOk
  <2> HIDE DEF r
  <2> QED
    BY <1>2, <2>1, <2>2, <2>3, <2>4, ReturnRest DEF RuntimeOk
<1>3. ASSUME NEW d \in replies, MetadataOk(t, d) PROVE Rest'
  <2> DEFINE r == [kind |-> "ok", id |-> id[t], runtime |-> runtime[t], meta |-> d.snap.meta]
  <2>1. pc[t] = "metadata" /\ d.id = refreshId[t] /\ d.id \in Ids
    BY <1>3, Numbers DEF IInv, MetadataOk, ReplyTo
  <2>2. r \in Results
    <3>1. d.snap.meta \in 0..MaxMeta
      BY Numbers DEF IInv, Snapshots
    <3> QED
      BY <3>1 DEF IInv, Results, TypeOK
  <2>3. r.id = id[t] /\ r.runtime.stamp >= sentAt[id[t]].stamp /\ r.meta >= r.runtime.meta
    BY <2>1, Numbers DEF IInv, Ordered, Older
  <2>4. d.snap.meta \in Nat /\ d.snap.meta <= entry.meta
    BY Numbers DEF IInv, Ordered, Older
  <2>5. Return(t, r)
    BY <1>3 DEF MetadataOk
  <2> HIDE DEF r
  <2> QED
    BY <1>3, <2>2, <2>3, <2>4, <2>5, ReturnRest DEF MetadataOk
<1> QED
  BY <1>1, <1>2, <1>3

(* The refresh takes a new id, and the entry it asks for is not older than *)
(* the payload it is for, nor than the metadata at hand.                   *)
LEMMA RefreshRest ==
    ASSUME IInv, NEW t \in Callers, NEW d \in replies, RuntimeNewMetadata(t, d)
    PROVE  Rest'
<1>1. nextId \in Ids /\ nextId \in Nat
  BY SessionAssumption DEF IInv, TypeOK, RuntimeNewMetadata, Ids
<1>2. /\ sentAt'[nextId] = entry
      /\ \A j \in Ids : j # nextId => sentAt'[j] = sentAt[j]
      /\ \A r \in requests' : r \in requests \/ r.id = nextId
  BY <1>1, SendKeeps DEF IInv, RuntimeNewMetadata
<1>3. \A i \in Sent : i # nextId /\ i \in Sent'
  BY DEF IInv, TypeOK, RuntimeNewMetadata, Sent, Ids
<1>4. nextId \in Sent'
  <2>1. \A u \in Callers : pc'[u] = "lock" => id'[u] \in Int /\ id'[u] < nextId
    BY DEF IInv, TypeOK, SentOnce, RuntimeNewMetadata
  <2>2. nextId < nextId'
    BY <1>1 DEF RuntimeNewMetadata
  <2> QED
    BY <1>1, <2>1, <2>2 DEF Sent
<1>5. io = t /\ \A u \in Callers : u # t => pc[u] # "metadata" /\ pc'[u] = pc[u]
  BY DEF IInv, TypeOK, Exclusive, RuntimeNewMetadata
<1>6. /\ pc'[t] = "metadata" /\ refreshId'[t] = nextId /\ runtime'[t] = d.snap
      /\ \A u \in Callers : u # t => refreshId'[u] = refreshId[u]
  BY DEF IInv, TypeOK, RuntimeNewMetadata
<1>7. Exclusive' /\ Unopened'
  BY <1>5, <1>6 DEF IInv, RuntimeNewMetadata, Exclusive, Unopened
<1>8. SentOnce'
  <2>1. /\ \A r \in requests' : r.id \in Sent'
        /\ \A x \in replies' : x.id \in Sent'
    BY <1>2, <1>3, <1>4 DEF IInv, SentOnce, RuntimeNewMetadata
  <2>2. \A u \in Callers : /\ pc'[u] = "metadata" => refreshId'[u] \in Sent'
                           /\ result'[u].kind = "ok" => result'[u].id \in Sent'
    BY <1>3, <1>4, <1>5, <1>6 DEF IInv, SentOnce, RuntimeNewMetadata
  <2>3. /\ \A u \in Callers : pc'[u] # "idle" => id'[u] \in Ids /\ id'[u] < nextId'
        /\ \A u, v \in Callers : pc'[u] = "lock" /\ pc'[v] # "idle" /\ id'[u] = id'[v] => u = v
    BY <1>5, <1>6 DEF IInv, SentOnce, RuntimeNewMetadata, TypeOK, Ids
  <2> QED
    BY <2>1, <2>2, <2>3 DEF SentOnce
<1>9. Ordered'
  <2>1. \A x \in replies : x.id # nextId /\ sentAt'[x.id] = sentAt[x.id]
    BY <1>2, <1>3, Numbers DEF IInv, SentOnce
  <2>2. id[t] \in Ids /\ id[t] # nextId
    BY DEF IInv, SentOnce, TypeOK, RuntimeNewMetadata, Ids
  <2>3. d.snap.stamp >= sentAt[id[t]].stamp /\ Older(d.snap, entry)
    BY Numbers DEF IInv, Ordered, Older, RuntimeNewMetadata, ReplyTo
  <2>4. \A u \in Callers : pc'[u] = "metadata" =>
          /\ u = t /\ runtime'[u].stamp >= sentAt'[id'[u]].stamp
          /\ Older(runtime'[u], sentAt'[refreshId'[u]]) /\ metadata' <= sentAt'[refreshId'[u]].meta
    BY <1>2, <1>5, <1>6, <2>2, <2>3 DEF IInv, Ordered, RuntimeNewMetadata
  <2>5. \A i \in Ids : Older(sentAt'[i], entry')
    BY <1>1, <1>2, Numbers DEF IInv, Ordered, Older, RuntimeNewMetadata
  <2> QED
    BY <2>1, <2>4, <2>5 DEF IInv, Ordered, Older, RuntimeNewMetadata
<1>10. AnswerIsOwn' /\ MetadataNotOlder'
  BY <1>2, <1>3 DEF IInv, SentOnce, Sent, RuntimeNewMetadata, AnswerIsOwn, MetadataNotOlder
<1> QED
  BY <1>7, <1>8, <1>9, <1>10 DEF Rest

-----------------------------------------------------------------------------
(* Every step keeps the inductive invariant. *)
LEMMA StepIInv == IInv /\ [Next]_vars => IInv'
<1> SUFFICES ASSUME IInv, [Next]_vars PROVE Rest'
  BY StepType DEF IInv, Rest
<1>1. ASSUME UNCHANGED vars PROVE Rest'
  BY <1>1 DEF vars, IInv, Rest, Exclusive, Unopened, SentOnce, Sent, Ordered, Older, AnswerIsOwn,
              MetadataNotOlder
<1> QED
  BY <1>1, CollectRest, ServeRest, HandshakeRest, StartRest, SendRest, LeaveRest, RefreshRest
     DEF Next

(* The invariant holds in every state. *)
LEMMA AlwaysIInv == Spec => []IInv
  BY InitIInv, StepIInv, PTL DEF Spec

(* The state of a connection is well formed. *)
THEOREM TypeCorrect == Spec => []TypeOK
<1>1. IInv => TypeOK
  BY DEF IInv
<1> QED
  BY <1>1, AlwaysIInv, PTL

(* Whatever datagrams are lost, repeated, delayed or reordered, and however *)
(* many threads share the connection, a query is answered by a snapshot the *)
(* server had when it was sent, or by a later one.                          *)
THEOREM AnswersAreOwn == Spec => []AnswerIsOwn
<1>1. IInv => AnswerIsOwn
  BY DEF IInv
<1> QED
  BY <1>1, AlwaysIInv, PTL

(* Runtime values are never returned with metadata older than their own. *)
THEOREM MetadataIsNotOlder == Spec => []MetadataNotOlder
<1>1. IInv => MetadataNotOlder
  BY DEF IInv
<1> QED
  BY <1>1, AlwaysIInv, PTL

(* An open connection never goes back to older metadata, although a refresh *)
(* may be answered by repeated datagrams and other threads refresh too: the *)
(* metadata only moves under the io mutex, to what is not older than the    *)
(* entry when the refresh was sent.                                         *)
THEOREM MetadataMonotone == Spec => MetadataNeverRegresses
<1>1. ASSUME IInv, [Next]_vars, state = "open" PROVE metadata' >= metadata
  <2>1. CASE metadata' = metadata
    BY <1>1, <2>1, Numbers DEF IInv
  <2>2. ASSUME NEW t \in Callers, NEW d \in replies, MetadataOk(t, d)
        PROVE  metadata' >= metadata
    <3>1. pc[t] = "metadata" /\ d.id = refreshId[t] /\ d.id \in Ids /\ metadata' = d.snap.meta
      BY <1>1, <2>2, Numbers DEF IInv, MetadataOk, ReplyTo
    <3> QED
      BY <1>1, <3>1, Numbers DEF IInv, Ordered, Older
  <2> QED
    BY <1>1, <2>1, <2>2 DEF Next, vars, Collect, Serve, StartHandshake, HandshakeErr, HandshakeOk,
                            StartQuery, SendQuery, QueryErr, RuntimeOk, RuntimeNewMetadata
<1>2. IInv /\ [Next]_vars => [state = "open" => metadata' >= metadata]_vars
  BY <1>1
<1> QED
  BY <1>2, AlwaysIInv, PTL DEF Spec, MetadataNeverRegresses

-----------------------------------------------------------------------------
(* Refinement of Exchange. *)

(* The snapshots the server has had: the entry is the newest of them, and   *)
(* what is on the wire or in the hands of a thread is one of them, not the  *)
(* one that stands for none.                                                *)
Seen ==
    /\ entry \in held
    /\ \A s \in held : s.stamp <= entry.stamp /\ (s.stamp = entry.stamp => s = entry)
    /\ \A d \in replies : d.snap \in held /\ (d.type # "QueryResponse" => d.snap.stamp # 0)
    /\ \A t \in Callers : pc[t] = "metadata" => runtime[t] \in held /\ runtime[t].stamp # 0

(* Nothing has been seen at the start but that there is no snapshot. *)
LEMMA InitSeen == Init => Seen
<1> SUFFICES ASSUME Init PROVE Seen
  OBVIOUS
<1>1. NoSnapshot.stamp \in Nat
  BY DEF NoSnapshot
<1> QED
  BY <1>1 DEF Init, Seen

(* Every step keeps to the snapshots the server has had. *)
LEMMA StepSeen == IInv /\ Seen /\ [Next]_vars => Seen'
<1> SUFFICES ASSUME IInv, Seen, [Next]_vars PROVE Seen'
  OBVIOUS
<1>0. TypeOK /\ \A s \in held : s.stamp \in Nat
  BY SessionAssumption DEF IInv, TypeOK, Snapshots
<1>1. ASSUME Collect PROVE Seen'
  <2>1. /\ entry' \in held' /\ held' = held \cup {entry'} /\ entry'.stamp = entry.stamp + 1
        /\ UNCHANGED <<replies, pc, runtime>> /\ entry.stamp \in Nat
    BY <1>0, <1>1, Numbers DEF Collect
  <2> QED
    BY <1>0, <2>1 DEF Seen
<1>2. ASSUME NEW r \in requests, Serve(r) PROVE Seen'
  <2>1. Answer(r).snap = entry /\ (Answer(r).type # "QueryResponse" => entry.stamp # 0)
    BY DEF Answer
  <2> QED
    BY <1>2, <2>1 DEF Serve, Seen
<1>3. ASSUME StartHandshake \/ HandshakeErr \/ \E d \in replies : HandshakeOk(d) PROVE Seen'
  BY <1>3 DEF StartHandshake, HandshakeErr, HandshakeOk, server, Seen
<1>4. ASSUME NEW t \in Callers, StartQuery(t) \/ SendQuery(t) PROVE Seen'
  BY <1>0, <1>4 DEF StartQuery, SendQuery, server, Seen, TypeOK
<1>5. ASSUME NEW t \in Callers, NEW d \in replies, RuntimeNewMetadata(t, d) PROVE Seen'
  BY <1>0, <1>5 DEF RuntimeNewMetadata, Seen, TypeOK
<1>6. ASSUME NEW t \in Callers,
             QueryErr(t) \/ \E d \in replies : RuntimeOk(t, d) \/ MetadataOk(t, d)
      PROVE  Seen'
  <2>1. UNCHANGED <<entry, held, replies>> /\ \E r : Return(t, r)
    BY <1>6 DEF QueryErr, RuntimeOk, MetadataOk, server
  <2>2. /\ pc'[t] = "idle"
        /\ \A u \in Callers : u # t => pc'[u] = pc[u] /\ runtime'[u] = runtime[u]
    BY <1>0, <2>1 DEF Return, TypeOK
  <2> QED
    BY <2>1, <2>2 DEF Seen
<1>7. ASSUME UNCHANGED vars PROVE Seen'
  BY <1>7 DEF vars, Seen
<1> QED
  BY <1>1, <1>2, <1>3, <1>4, <1>5, <1>6, <1>7 DEF Next

(* The functions Exchange is about. *)
Windows == [t \in Callers |-> Window(t)]
Answers == [t \in Callers |-> Shown(t)]

(* A thread has a window exactly while it has the socket. *)
LEMMA WindowOpen ==
    ASSUME IInv, Seen, NEW t \in Callers
    PROVE  /\ Window(t) # {} <=> io = t
           /\ io = t => id[t] \in Ids /\ entry \in Window(t)
<1>1. ASSUME io = t PROVE id[t] \in Ids /\ entry \in Window(t)
  <2>1. id[t] \in Ids
    BY <1>1 DEF IInv, Exclusive, SentOnce
  <2> QED
    BY <1>1, <2>1, Numbers DEF IInv, Ordered, Older, Seen, Window
<1> QED
  BY <1>1 DEF Window

(* A step that keeps the snapshots, the socket, the ids of who has it and   *)
(* the results is invisible to Exchange.                                    *)
LEMMA Invisible ==
    ASSUME UNCHANGED <<entry, held, io, result>>,
           \A t \in Callers : io = t => sentAt'[id'[t]] = sentAt[id[t]]
    PROVE  UNCHANGED Asked!exVars
<1>1. \A t \in Callers : Window(t)' = Window(t) /\ Shown(t)' = Shown(t)
  BY DEF Window, Shown
<1> QED
  BY <1>1 DEF Asked!exVars

(* A thread that returns closes its window and leaves the others'. *)
LEMMA ReturnCloses ==
    ASSUME IInv, NEW t \in Callers, NEW r \in Results, Return(t, r), io = t,
           UNCHANGED <<entry, held, sentAt>>
    PROVE  /\ Windows' = [Windows EXCEPT ![t] = {}]
           /\ Answers' = [Answers EXCEPT ![t] =
                  IF r.kind = "ok" THEN {[runtime |-> r.runtime, meta |-> r.meta]} ELSE {}]
<1>1. /\ io' = Nobody /\ result'[t] = r
      /\ \A u \in Callers : u # t => result'[u] = result[u]
  BY ReturnType DEF IInv
<1>2. \A u \in Callers : Window(u)' = {} /\ (u # t => Window(u) = {})
  BY <1>1, SessionAssumption DEF Window
<1>3. \A u \in Callers : u # t => Shown(u)' = Shown(u)
  BY <1>1 DEF Shown
<1>4. Shown(t)' = IF r.kind = "ok" THEN {[runtime |-> r.runtime, meta |-> r.meta]} ELSE {}
  BY <1>1 DEF Shown
<1> QED
  BY <1>2, <1>3, <1>4 DEF Windows, Answers

(* Values and metadata a thread returns, taken from its window, are a       *)
(* successful query of Exchange.                                            *)
LEMMA ReturnSucceeds ==
    ASSUME IInv, NEW t \in Callers, NEW s \in Window(t), NEW m \in Window(t),
           NEW r \in Results, Return(t, r), io = t, UNCHANGED <<entry, held, sentAt>>,
           r.kind = "ok", r.runtime = s, r.meta = m.meta,
           s.stamp # 0, s.stamp <= m.stamp
    PROVE  Asked!Succeed(t)
<1>1. /\ Windows' = [Windows EXCEPT ![t] = {}]
      /\ Answers' = [Answers EXCEPT ![t] = {[runtime |-> s, meta |-> m.meta]}]
  BY ReturnCloses
<1>2. Windows[t] = Window(t) /\ NoSnapshot.stamp = 0
  BY DEF Windows, NoSnapshot
<1>3. \E a, b \in Windows[t] :
         /\ a.stamp # NoSnapshot.stamp /\ a.stamp <= b.stamp
         /\ Answers' = [Answers EXCEPT ![t] = {[runtime |-> a, meta |-> b.meta]}]
  BY <1>1, <1>2
<1> QED
  BY <1>1, <1>3 DEF Asked!Succeed, Windows, Answers

-----------------------------------------------------------------------------
(* Every step of a connection is a step of Exchange, or invisible. *)
LEMMA ExchangeSimulation == IInv /\ Seen /\ [Next]_vars => [Asked!Next]_(Asked!exVars)
<1> SUFFICES ASSUME IInv, Seen, [Next]_vars PROVE [Asked!Next]_(Asked!exVars)
  OBVIOUS
<1>0. TypeOK /\ \A s \in held : s.stamp \in Nat
  BY SessionAssumption DEF IInv, TypeOK, Snapshots
<1>1. ASSUME Collect PROVE Asked!Next
  <2>1. /\ entry' \in Snapshots /\ entry'.stamp = entry.stamp + 1 /\ entry'.meta >= entry.meta
        /\ held' = held \cup {entry'} /\ UNCHANGED <<io, id, sentAt, result>>
        /\ entry.stamp \in Nat
    BY <1>0, <1>1, Numbers DEF Collect, Snapshots
  <2>2. \A t \in Callers : Shown(t)' = Shown(t)
    BY <2>1 DEF Shown
  <2>3. ASSUME NEW t \in Callers
        PROVE  Window(t)' = IF Window(t) = {} THEN {} ELSE Window(t) \cup {entry'}
    <3>1. CASE io # t
      BY <2>1, <3>1 DEF Window
    <3>2. CASE io = t
      <4>1. Window(t) # {} /\ id[t] \in Ids
        BY <3>2, WindowOpen
      <4>2. entry'.stamp >= sentAt[id[t]].stamp
        BY <2>1, <4>1, Numbers DEF IInv, Ordered, Older
      <4>3. Window(t)' = Window(t) \cup {entry'}
        BY <2>1, <3>2, <4>2 DEF Window
      <4> QED
        BY <4>1, <4>3
    <3> QED
      BY <3>1, <3>2
  <2>4. Windows' = [t \in Callers |-> IF Windows[t] = {} THEN {} ELSE Windows[t] \cup {entry'}]
        /\ Answers' = Answers
    BY <2>2, <2>3 DEF Windows, Answers
  <2>5. entry'.stamp > entry.stamp
    BY <2>1
  <2>6. Asked!Replace
    BY <2>1, <2>4, <2>5 DEF Asked!Replace, Windows, Answers
  <2> QED
    BY <2>6 DEF Asked!Next
<1>2. ASSUME \/ \E r \in requests : Serve(r)
             \/ HandshakeErr
             \/ \E d \in replies : HandshakeOk(d)
      PROVE  UNCHANGED Asked!exVars
  BY <1>2, Invisible DEF Serve, HandshakeErr, HandshakeOk, server
<1>3. ASSUME StartHandshake PROVE UNCHANGED Asked!exVars
  <2>1. \A t \in Callers : io # t
    BY <1>3 DEF StartHandshake, IInv, Unopened, Exclusive
  <2> QED
    BY <1>3, <2>1, Invisible DEF StartHandshake
<1>4. ASSUME NEW t \in Callers, StartQuery(t) PROVE Asked!Next
  <2>1. io # t /\ UNCHANGED <<entry, held, io, sentAt>>
    BY <1>4 DEF StartQuery, IInv, Exclusive, server
  <2>2. \A u \in Callers : Window(u)' = Window(u)
    BY <1>0, <1>4, <2>1 DEF StartQuery, Window, TypeOK
  <2>3. Shown(t)' = {} /\ \A u \in Callers : u # t => Shown(u)' = Shown(u)
    BY <1>0, <1>4 DEF StartQuery, Shown, NoResult, TypeOK
  <2>4. /\ Windows' = Windows /\ Windows[t] = {}
        /\ Answers' = [Answers EXCEPT ![t] = {}]
    BY <2>1, <2>2, <2>3 DEF Windows, Answers, Window
  <2>5. Asked!Forget(t)
    BY <2>1, <2>4 DEF Asked!Forget, Windows, Answers
  <2> QED
    BY <2>5 DEF Asked!Next
<1>5. ASSUME NEW t \in Callers, SendQuery(t) PROVE Asked!Next
  <2>1. id[t] \in Ids /\ io = Nobody /\ io' = t /\ UNCHANGED <<entry, held, id, result>>
    BY <1>5 DEF SendQuery, IInv, SentOnce
  <2>2. sentAt'[id'[t]] = entry
    BY <1>0, <1>5, <2>1, SendKeeps DEF SendQuery
  <2>3. Window(t)' = {entry}
    BY <1>0, <2>1, <2>2 DEF Window, Seen
  <2>4. \A u \in Callers : Window(u) = {} /\ (u # t => Window(u)' = {}) /\ Shown(u)' = Shown(u)
    BY <2>1, SessionAssumption DEF Window, Shown
  <2>5. /\ Windows' = [Windows EXCEPT ![t] = {entry}] /\ Windows[t] = {}
        /\ Answers' = Answers
    BY <2>3, <2>4 DEF Windows, Answers
  <2>6. Asked!Ask(t)
    BY <2>1, <2>5 DEF Asked!Ask, Windows, Answers
  <2> QED
    BY <2>6 DEF Asked!Next
<1>6. ASSUME NEW t \in Callers, QueryErr(t) PROVE Asked!Next
  <2>1. io = t /\ Return(t, Failed(t)) /\ UNCHANGED <<entry, held, sentAt>>
    BY <1>6 DEF QueryErr, IInv, Exclusive, server
  <2>2. Failed(t) \in Results /\ Failed(t).kind = "err"
    BY <1>0, SessionAssumption DEF Failed, Results, TypeOK, NoSnapshot, Snapshots
  <2>3. Windows' = [Windows EXCEPT ![t] = {}] /\ Answers' = [Answers EXCEPT ![t] = {}]
    BY <2>1, <2>2, ReturnCloses
  <2>4. Windows[t] # {}
    BY <2>1, WindowOpen DEF Windows
  <2>5. Asked!Fail(t)
    BY <2>1, <2>3, <2>4 DEF Asked!Fail, Windows, Answers
  <2> QED
    BY <2>5 DEF Asked!Next
<1>7. ASSUME NEW t \in Callers, NEW d \in replies, RuntimeOk(t, d) PROVE Asked!Next
  <2> DEFINE r == [kind |-> "ok", id |-> id[t], runtime |-> d.snap, meta |-> metadata]
  <2>1. /\ io = t /\ Return(t, r) /\ UNCHANGED <<entry, held, sentAt>>
        /\ d.id = id[t] /\ d.snap.meta = metadata /\ d.type = "RuntimePayload"
    BY <1>7 DEF RuntimeOk, ReplyTo, MetadataKnown, IInv, Exclusive, server
  <2>2. r \in Results /\ r.kind = "ok" /\ r.runtime = d.snap /\ r.meta = d.snap.meta
    BY <1>0, <2>1, Numbers DEF Results, TypeOK
  <2>3. d.snap \in Window(t) /\ d.snap.stamp # 0 /\ d.snap.stamp <= d.snap.stamp
    BY <1>0, <2>1, Numbers DEF Window, Seen, IInv, Ordered, Older
  <2> HIDE DEF r
  <2>4. Asked!Succeed(t)
    BY <2>1, <2>2, <2>3, ReturnSucceeds
  <2> QED
    BY <2>4 DEF Asked!Next
<1>8. ASSUME NEW t \in Callers, NEW d \in replies, MetadataOk(t, d) PROVE Asked!Next
  <2> DEFINE r == [kind |-> "ok", id |-> id[t], runtime |-> runtime[t], meta |-> d.snap.meta]
  <2>1. /\ io = t /\ pc[t] = "metadata" /\ Return(t, r) /\ UNCHANGED <<entry, held, sentAt>>
        /\ d.id = refreshId[t] /\ d.id \in Ids
    BY <1>0, <1>8, Numbers DEF MetadataOk, ReplyTo, IInv, Exclusive, server
  <2>2. r \in Results /\ r.kind = "ok" /\ r.runtime = runtime[t] /\ r.meta = d.snap.meta
    <3>1. d.snap.meta \in 0..MaxMeta
      BY <1>0, Numbers DEF Snapshots
    <3> QED
      BY <1>0, <3>1 DEF Results, TypeOK
  <2>3. /\ runtime[t] \in held /\ runtime[t].stamp # 0 /\ runtime[t].stamp \in Nat
        /\ runtime[t].stamp >= sentAt[id[t]].stamp /\ runtime[t].stamp <= d.snap.stamp
    BY <1>0, <2>1, Numbers DEF Seen, IInv, Ordered, Older
  <2>4. id[t] \in Ids
    BY <2>1, WindowOpen
  <2>5. runtime[t] \in Window(t) /\ d.snap \in Window(t)
    BY <1>0, <2>1, <2>3, <2>4, Numbers DEF Window, Seen
  <2> HIDE DEF r
  <2>6. Asked!Succeed(t)
    BY <2>1, <2>2, <2>3, <2>5, ReturnSucceeds
  <2> QED
    BY <2>6 DEF Asked!Next
<1>9. ASSUME NEW t \in Callers, NEW d \in replies, RuntimeNewMetadata(t, d)
      PROVE  UNCHANGED Asked!exVars
  <2>1. io = t /\ id[t] \in Ids /\ id[t] # nextId
    BY <1>0, <1>9 DEF IInv, Exclusive, SentOnce, TypeOK, RuntimeNewMetadata, Ids
  <2>2. nextId \in Ids
    BY <1>0, <1>9, SessionAssumption DEF RuntimeNewMetadata, TypeOK, Ids
  <2>3. sentAt'[id[t]] = sentAt[id[t]]
    BY <1>0, <1>9, <2>1, <2>2, SendKeeps DEF RuntimeNewMetadata
  <2> QED
    BY <1>9, <2>1, <2>3, Invisible DEF RuntimeNewMetadata
<1>10. ASSUME UNCHANGED vars PROVE UNCHANGED Asked!exVars
  BY <1>10, Invisible DEF vars
<1> QED
  BY <1>1, <1>2, <1>3, <1>4, <1>5, <1>6, <1>7, <1>8, <1>9, <1>10 DEF Next

(* A UDP connection implements Exchange, for any number of threads and       *)
(* whatever the network does: each successful query looks like one exchange  *)
(* with a server that answers from a snapshot of its own, recent, time.      *)
THEOREM SessionImplementsExchange == Spec => ImplementsExchange
<1>1. Init => Asked!Init
  BY SessionAssumption DEF Init, Asked!Init, Window, Shown, NoResult
<1>2. Spec => [](IInv /\ Seen)
  BY InitIInv, InitSeen, StepIInv, StepSeen, PTL DEF Spec
<1> QED
  BY <1>1, <1>2, ExchangeSimulation, PTL DEF Spec, ImplementsExchange, Asked!Spec
=============================================================================
