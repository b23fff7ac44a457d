-------------------------- MODULE TcpSessionProofs --------------------------
(* The safety properties of TcpSession, for any number of threads, requests *)
(* and snapshots, and at the end those of TcpServer.                        *)
EXTENDS TcpSession, TcpServer, SequenceTheorems, TLAPS

(* A request that will be answered was counted by sends. *)
Numbered ==
    \A i \in 1..Len(c2s) :
        c2s[i].type \in {"HandshakeRequest", "QueryRequest"} => c2s[i].seq <= MaxSends

(* Only an open connection is used. *)
Quiet ==
    /\ state # "open" => ~pooled /\ ~torn /\ ~shut /\ \A t \in Callers : pc[t] = "idle"
    /\ state = "closed" => c2s = <<>> /\ s2c = <<>> /\ sends = 0
    /\ shut => io = Nobody

(* Exactly one frame is under way, the request n or the answer to it. *)
Pending(n) ==
    /\ ~torn
    /\ Len(c2s) + Len(s2c) = 1
    /\ c2s # <<>> => c2s[1].seq = n
    /\ s2c # <<>> => s2c[1].seq = n

(* The disconnect that took the connection out of the pool was written in  *)
(* part; the server does not get past it, and nothing is ever answered.    *)
CutOff ==
    /\ ~pooled /\ ~torn /\ s2c = <<>>
    /\ c2s # <<>> /\ c2s[1].type = "partial"

Safe == state = "open" /\ ~shut /\ \A t \in Callers : pc[t] # "close"

(* While nobody is about to close it, the stream holds the exchange of the *)
(* thread that has it locked and nothing else, unless it is cut off.       *)
InStep ==
    /\ state = "handshaking" => Len(c2s) + Len(s2c) = 1
    /\ Safe /\ io = Nobody => \/ c2s = <<>> /\ s2c = <<>> /\ ~torn
                              \/ CutOff /\ Len(c2s) = 1
    /\ \A t \in Callers : Safe /\ io = t => Pending(mine[t]) \/ CutOff

Older(a, b) == a.meta <= b.meta /\ a.stamp <= b.stamp

(* What was returned, what a thread holds, what is in the stream from the  *)
(* front on, and the server's entry come in this order.                    *)
InOrder ==
    /\ \A i \in 1..Len(s2c) : Older(s2c[i].snap, entry)
    /\ \A i, j \in 1..Len(s2c) : i <= j => Older(s2c[i].snap, s2c[j].snap)
    /\ \A t \in Callers : pc[t] = "metadata" =>
         /\ Older(runtime[t], entry)
         /\ \A i \in 1..Len(s2c) : Older(runtime[t], s2c[i].snap)
    /\ \A u \in Callers : result[u].kind = "ok" =>
         /\ result[u].runtime.stamp <= entry.stamp
         /\ \A i \in 1..Len(s2c) : result[u].runtime.stamp <= s2c[i].snap.stamp
         /\ \A t \in Callers :
              pc[t] = "metadata" => result[u].runtime.stamp <= runtime[t].stamp

IInv == TypeOK /\ Numbered /\ Quiet /\ InStep /\ InOrder /\ MetadataNotOlder

-----------------------------------------------------------------------------
(* Taking a frame from a stream leaves the others in their order. *)
LEMMA TailFacts ==
    ASSUME NEW S, NEW s \in Seq(S), s # <<>>
    PROVE  /\ Len(s) \in Nat \ {0} /\ Head(s) = s[1] /\ s[1] \in S
           /\ Tail(s) \in Seq(S) /\ Len(Tail(s)) = Len(s) - 1
           /\ Len(s) = 1 => Tail(s) = <<>>
           /\ \A i \in 1..Len(Tail(s)) : i + 1 \in 1..Len(s) /\ Tail(s)[i] = s[i + 1]
<1>1. Len(s) \in Nat \ {0}
  BY EmptySeq
<1>2. Tail(s) \in Seq(S) /\ Len(Tail(s)) = Len(s) - 1
      /\ \A i \in 1..(Len(s) - 1) : Tail(s)[i] = s[i + 1]
  BY HeadTailProperties
<1>3. Tail(s) # <<>> => Len(Tail(s)) \in Nat \ {0}
  BY <1>2, EmptySeq, Zenon
<1>4. Len(s) = 1 => Tail(s) = <<>>
  BY <1>1, <1>2, <1>3
<1> QED
  BY <1>1, <1>2, <1>4

(* A frame put into a stream comes after the others. *)
LEMMA AppendFacts ==
    ASSUME NEW S, NEW s \in Seq(S), NEW e \in S
    PROVE  /\ Append(s, e) \in Seq(S) /\ Append(s, e) # <<>>
           /\ Len(s) \in Nat /\ Len(Append(s, e)) = Len(s) + 1
           /\ Append(s, e)[Len(s) + 1] = e
           /\ \A i \in 1..Len(s) : Append(s, e)[i] = s[i]
           /\ s = <<>> <=> Len(s) = 0
<1>1. Append(s, e) \in Seq(S) /\ Append(s, e) # <<>> /\ Len(s) \in Nat
      /\ Len(Append(s, e)) = Len(s) + 1
  BY AppendProperties
<1> QED
  BY <1>1, AppendProperties, EmptySeq

(* The initial state satisfies the inductive invariant. *)
LEMMA InitIInv == Init => IInv
<1> SUFFICES ASSUME Init PROVE IInv
  OBVIOUS
<1> USE SessionAssumption DEF Init
<1>1. NoSnapshot \in Snapshots /\ NoResult \in Results
  BY DEF Snapshots, NoSnapshot, Results, NoResult
<1>2. c2s \in Seq(Requests) /\ s2c \in Seq(Replies) /\ Len(c2s) = 0 /\ Len(s2c) = 0
  OBVIOUS
<1>3. TypeOK
  <2>1. runtime \in [Callers -> Snapshots] /\ result \in [Callers -> Results]
    BY <1>1
  <2>2. entry \in Snapshots /\ sends \in 0..MaxSends /\ metadata \in 0..MaxMeta
        /\ mine \in [Callers -> 0..MaxSends]
    BY <1>1
  <2> QED
    BY <1>2, <2>1, <2>2 DEF TypeOK, Reading
<1>4. Numbered /\ Quiet /\ InStep
  BY <1>2 DEF Numbered, Quiet, InStep, Safe
<1>5. InOrder /\ MetadataNotOlder
  BY <1>2 DEF InOrder, MetadataNotOlder, NoResult
<1> QED
  BY <1>3, <1>4, <1>5 DEF IInv

-----------------------------------------------------------------------------
(* The part of the type invariant that is about threads. *)
ThreadsOK ==
    /\ pc \in [Callers -> {"idle", "lock", "close", "evict"} \cup Reading]
    /\ io \in Callers \cup {Nobody}
    /\ \A t \in Callers : pc[t] \in Reading <=> io = t
    /\ mine \in [Callers -> 0..MaxSends]
    /\ runtime \in [Callers -> Snapshots]
    /\ result \in [Callers -> Results]

(* A thread that leaves the stream, with a result of either kind. *)
LEMMA LeaveType ==
    ASSUME TypeOK, NEW t \in Callers, NEW r \in Results, NEW next \in {"idle", "close"},
           io = t \/ io = Nobody, Leave(t, r, next)
    PROVE  ThreadsOK'
<1>1. NoSnapshot \in Snapshots /\ 0 \in 0..MaxSends
  BY SessionAssumption DEF Snapshots, NoSnapshot
<1>2. pc' \in [Callers -> {"idle", "lock", "close", "evict"} \cup Reading]
  BY DEF TypeOK, Leave
<1>3. mine' \in [Callers -> 0..MaxSends] /\ runtime' \in [Callers -> Snapshots]
  BY <1>1 DEF TypeOK, Leave
<1>4. result' \in [Callers -> Results]
  BY DEF TypeOK, Leave
<1>5. ASSUME NEW u \in Callers PROVE pc'[u] \notin Reading /\ io' # u
  BY SessionAssumption DEF TypeOK, Leave, Reading
<1> QED
  BY <1>2, <1>3, <1>4, <1>5 DEF ThreadsOK, Leave

(* A request that is sent keeps the stream well formed. *)
LEMMA SendType ==
    ASSUME TypeOK, Numbered, NEW type \in {"HandshakeRequest", "QueryRequest"}, Send(type)
    PROVE  /\ sends' \in 0..MaxSends /\ sends + 1 \in 0..MaxSends
           /\ c2s' \in Seq(Requests) /\ Numbered'
<1> DEFINE r == [type |-> type, seq |-> sends + 1]
<1>1. r \in Requests /\ r.seq <= MaxSends
  BY SessionAssumption DEF TypeOK, Send, Requests
<1>2. c2s \in Seq(Requests) /\ c2s' = Append(c2s, r)
  BY DEF TypeOK, Send
<1> HIDE DEF r
<1>3. Numbered'
  BY <1>1, <1>2, AppendFacts DEF Numbered
<1> QED
  BY <1>1, <1>2, <1>3, AppendFacts, SessionAssumption DEF TypeOK, Send

(* So does a write that fails. *)
LEMMA WriteErrType ==
    ASSUME TypeOK, Numbered, WriteErr
    PROVE  c2s' \in Seq(Requests) /\ Numbered'
<1> DEFINE r == [type |-> "partial", seq |-> sends + 1]
<1>1. c2s \in Seq(Requests) /\ r \in Requests /\ r.type = "partial"
  BY SessionAssumption DEF TypeOK, Requests
<1>2. c2s' = c2s \/ c2s' = Append(c2s, r)
  BY DEF WriteErr
<1> HIDE DEF r
<1>3. c2s' \in Seq(Requests)
  BY <1>1, <1>2, AppendFacts
<1>4. CASE c2s' = c2s
  BY <1>4, <1>1 DEF Numbered
<1>5. CASE c2s' = Append(c2s, r)
  BY <1>1, <1>5, AppendFacts DEF Numbered
<1> QED
  BY <1>2, <1>3, <1>4, <1>5

(* So does taking an answer. *)
LEMMA ArrivedType ==
    ASSUME TypeOK, NEW type, Arrived(type)
    PROVE  /\ Head(s2c) = s2c[1] /\ Head(s2c) \in Replies
           /\ Head(s2c).snap \in Snapshots /\ Head(s2c).snap.meta \in 0..MaxMeta
           /\ Len(s2c) \in Nat \ {0}
           /\ Tail(s2c) \in Seq(Replies)
<1>1. s2c \in Seq(Replies) /\ s2c # <<>>
  BY DEF TypeOK, Arrived
<1>2. Head(s2c) = s2c[1] /\ s2c[1] \in Replies /\ Tail(s2c) \in Seq(Replies)
      /\ Len(s2c) \in Nat \ {0}
  BY <1>1, TailFacts
<1>3. Head(s2c).snap \in Snapshots
  BY <1>2 DEF Replies
<1>4. Head(s2c).snap.meta \in 0..MaxMeta
  BY <1>3 DEF Snapshots
<1> QED
  BY <1>2, <1>3, <1>4

(* Every step keeps the type invariant and the numbering of requests. *)
LEMMA TypeStep ==
    ASSUME TypeOK, Numbered, Quiet, Next
    PROVE  TypeOK' /\ Numbered'
<1> USE SessionAssumption
<1>1. CASE Collect
  <2>1. entry' \in Snapshots
    <3>1. PICK m \in {entry.meta, entry.meta + 1} \cap 1..MaxMeta :
             entry' = [meta |-> m, stamp |-> entry.stamp + 1]
      BY <1>1 DEF Collect
    <3>2. entry.stamp \in Nat /\ entry.stamp < MaxStamp
      BY <1>1 DEF Collect, TypeOK, Snapshots
    <3> QED
      BY <3>1, <3>2 DEF Snapshots
  <2> QED
    BY <1>1, <2>1 DEF Collect, stream, client, TypeOK, Numbered
<1>2. CASE Serve
  <2>1. c2s \in Seq(Requests) /\ s2c \in Seq(Replies) /\ c2s # <<>>
    BY <1>2 DEF TypeOK, Serve
  <2>2. Head(c2s) \in Requests /\ Head(c2s).seq <= MaxSends
    BY <1>2, <2>1, TailFacts DEF Serve, Numbered
  <2>3. Answer(Head(c2s)) \in Replies
    BY <2>2 DEF Answer, Replies, Requests, TypeOK
  <2>4. s2c' \in Seq(Replies)
    BY <1>2, <2>1, <2>3, AppendFacts DEF Serve
  <2>5. c2s' \in Seq(Requests) /\ Numbered'
    BY <1>2, <2>1, TailFacts DEF Serve, Numbered
  <2> QED
    BY <1>2, <2>4, <2>5 DEF Serve, client, TypeOK
<1>3. CASE ServerEnds
  BY <1>3 DEF ServerEnds, client, TypeOK, Numbered
<1>4. CASE Connect
  <2>1. sends' \in 0..MaxSends /\ c2s' \in Seq(Requests) /\ Numbered'
    BY <1>4, SendType DEF Connect
  <2> QED
    BY <1>4, <2>1 DEF Connect, TypeOK
<1>5. CASE HandshakeOk
  <2>1. metadata' \in 0..MaxMeta /\ s2c' \in Seq(Replies)
    BY <1>5, ArrivedType DEF HandshakeOk, Consume
  <2> QED
    BY <1>5, <2>1 DEF HandshakeOk, Consume, TypeOK, Numbered
<1>6. CASE HandshakeErr \/ Drop
  <2>1. /\ c2s' = <<>> /\ s2c' = <<>> /\ sends' = 0 /\ state' = "closed"
        /\ serving' = FALSE /\ torn' = FALSE /\ shut' = FALSE
        /\ UNCHANGED <<entry, pooled, metadata, io, pc, mine, runtime, result>>
    BY <1>6 DEF HandshakeErr, Drop, NewStream
  <2>2. c2s' \in Seq(Requests) /\ s2c' \in Seq(Replies) /\ Len(c2s') = 0
    BY <2>1
  <2>3. Numbered'
    BY <2>2 DEF Numbered
  <2>4. sends' \in 0..MaxSends
    BY <2>1
  <2> QED
    BY <2>1, <2>2, <2>3, <2>4 DEF TypeOK
<1>7. CASE Disconnect
  <2> DEFINE r == [type |-> "Disconnect", seq |-> sends + 1]
  <2>1. c2s \in Seq(Requests) /\ r \in Requests /\ r.type = "Disconnect"
    BY DEF TypeOK, Requests
  <2>2. c2s' = Append(c2s, r) \/ WriteErr
    BY <1>7 DEF Disconnect
  <2> HIDE DEF r
  <2>3. c2s' \in Seq(Requests) /\ Numbered'
    BY <2>1, <2>2, AppendFacts, WriteErrType DEF Numbered
  <2> QED
    BY <1>7, <2>3 DEF Disconnect, TypeOK
<1>8. ASSUME NEW t \in Callers, StartQuery(t) \/ Close(t) \/ Evict(t)
      PROVE  TypeOK' /\ Numbered'
  <2>1. pc' \in [Callers -> {"idle", "lock", "close", "evict"} \cup Reading] /\ io' = io
    BY <1>8 DEF StartQuery, Close, Evict, TypeOK
  <2>2. \A u \in Callers : pc'[u] \in Reading <=> pc[u] \in Reading
    BY <1>8 DEF StartQuery, Close, Evict, TypeOK, Reading
  <2>3. UNCHANGED <<mine, runtime, result, entry, c2s, s2c, sends, serving, torn, state, metadata>>
        /\ shut' \in BOOLEAN /\ pooled' \in BOOLEAN
    BY <1>8 DEF StartQuery, Close, Evict, stream, TypeOK
  <2> QED
    BY <2>1, <2>2, <2>3 DEF TypeOK, Numbered
<1>9. ASSUME NEW t \in Callers, SendQuery(t) PROVE TypeOK' /\ Numbered'
  <2>1. /\ sends' \in 0..MaxSends /\ sends + 1 \in 0..MaxSends
        /\ c2s' \in Seq(Requests) /\ Numbered'
    BY <1>9, SendType DEF SendQuery
  <2>2. ThreadsOK'
    <3>1. pc' \in [Callers -> {"idle", "lock", "close", "evict"} \cup Reading] /\ io' = t
          /\ mine' \in [Callers -> 0..MaxSends]
      BY <1>9, <2>1 DEF SendQuery, TypeOK, Reading
    <3>2. ASSUME NEW u \in Callers PROVE pc'[u] \in Reading <=> io' = u
      BY <1>9 DEF SendQuery, TypeOK, Reading
    <3> QED
      BY <1>9, <3>1, <3>2 DEF SendQuery, TypeOK, ThreadsOK
  <2> QED
    BY <1>9, <2>1, <2>2 DEF SendQuery, TypeOK, ThreadsOK
<1>10. Failure \in Results
  BY DEF Failure, Results, Snapshots, NoSnapshot
<1>11. ASSUME NEW t \in Callers, SendErr(t) PROVE TypeOK' /\ Numbered'
  <2>1. c2s' \in Seq(Requests) /\ Numbered'
    BY <1>11, WriteErrType DEF SendErr
  <2>2. ThreadsOK'
    BY <1>10, <1>11, LeaveType DEF SendErr, Fail
  <2> QED
    BY <1>11, <2>1, <2>2 DEF SendErr, TypeOK, ThreadsOK
<1>12. ASSUME NEW t \in Callers, RuntimeOk(t) PROVE TypeOK' /\ Numbered'
  <2>1. io = t /\ Head(s2c).snap \in Snapshots /\ s2c' \in Seq(Replies)
    BY <1>12, ArrivedType DEF RuntimeOk, Consume, TypeOK, Reading
  <2>2. Ok(t, Head(s2c).snap, Head(s2c).seq, metadata) \in Results
    BY <2>1 DEF Ok, Results, TypeOK
  <2>3. ThreadsOK'
    BY <1>12, <2>1, <2>2, LeaveType DEF RuntimeOk
  <2> QED
    BY <1>12, <2>1, <2>3 DEF RuntimeOk, Consume, TypeOK, ThreadsOK, Numbered
<1>13. ASSUME NEW t \in Callers, RuntimeNewMetadata(t) PROVE TypeOK' /\ Numbered'
  <2>1. io = t /\ Head(s2c).snap \in Snapshots /\ s2c' \in Seq(Replies)
    BY <1>13, ArrivedType DEF RuntimeNewMetadata, Consume, TypeOK, Reading
  <2>2. /\ sends' \in 0..MaxSends /\ sends + 1 \in 0..MaxSends
        /\ c2s' \in Seq(Requests) /\ Numbered'
    BY <1>13, SendType DEF RuntimeNewMetadata
  <2>3. ThreadsOK'
    <3>1. pc' \in [Callers -> {"idle", "lock", "close", "evict"} \cup Reading] /\ io' = io
          /\ mine' \in [Callers -> 0..MaxSends]
      BY <1>13, <2>2 DEF RuntimeNewMetadata, TypeOK, Reading
    <3>2. runtime' \in [Callers -> Snapshots] /\ result' = result
      BY <1>13, <2>1 DEF RuntimeNewMetadata, TypeOK
    <3>3. ASSUME NEW u \in Callers PROVE pc'[u] \in Reading <=> io' = u
      BY <1>13 DEF RuntimeNewMetadata, TypeOK, Reading
    <3> QED
      BY <3>1, <3>2, <3>3 DEF TypeOK, ThreadsOK
  <2> QED
    BY <1>13, <2>1, <2>2, <2>3 DEF RuntimeNewMetadata, Consume, TypeOK, ThreadsOK
<1>14. ASSUME NEW t \in Callers, RefreshErr(t) \/ Unexpected(t) PROVE TypeOK' /\ Numbered'
  <2>1. io = t /\ s2c' \in Seq(Replies)
    BY <1>14, ArrivedType DEF RefreshErr, Unexpected, Consume, TypeOK, Reading
  <2>2. ThreadsOK'
    BY <1>10, <1>14, <2>1, LeaveType DEF RefreshErr, Unexpected, Fail
  <2>3. c2s' \in Seq(Requests) /\ Numbered'
    BY <1>14, WriteErrType DEF RefreshErr, Unexpected, TypeOK, Numbered
  <2> QED
    BY <1>14, <2>1, <2>2, <2>3 DEF RefreshErr, Unexpected, Consume, TypeOK, ThreadsOK
<1>15. ASSUME NEW t \in Callers, MetadataOk(t) PROVE TypeOK' /\ Numbered'
  <2>1. io = t /\ Head(s2c).snap.meta \in 0..MaxMeta /\ s2c' \in Seq(Replies)
    BY <1>15, ArrivedType DEF MetadataOk, Consume, TypeOK, Reading
  <2>2. Ok(t, runtime[t], Head(s2c).seq, Head(s2c).snap.meta) \in Results
    BY <2>1 DEF Ok, Results, TypeOK
  <2>3. ThreadsOK'
    BY <1>15, <2>1, <2>2, LeaveType DEF MetadataOk
  <2> QED
    BY <1>15, <2>1, <2>3 DEF MetadataOk, Consume, TypeOK, ThreadsOK, Numbered
<1>16. ASSUME NEW t \in Callers, ReadErr(t) PROVE TypeOK' /\ Numbered'
  <2>1. ThreadsOK'
    BY <1>10, <1>16, LeaveType DEF ReadErr, Fail, TypeOK
  <2> QED
    BY <1>16, <2>1 DEF ReadErr, TypeOK, ThreadsOK, Numbered
<1> QED
  BY <1>1, <1>2, <1>3, <1>4, <1>5, <1>6, <1>7, <1>8, <1>9, <1>11, <1>12, <1>13, <1>14, <1>15,
     <1>16 DEF Next

-----------------------------------------------------------------------------
(* A thread in a query has an open connection. *)
LEMMA ThreadsNeedOpen ==
    ASSUME Quiet, NEW t \in Callers, pc[t] # "idle" \/ pooled
    PROVE  state = "open"
  BY DEF Quiet

(* Every step keeps Quiet. *)
LEMMA QuietStep ==
    ASSUME TypeOK, Quiet, Next
    PROVE  Quiet'
<1> USE SessionAssumption
<1>1. CASE Collect \/ Serve \/ ServerEnds
  <2>1. UNCHANGED <<state, pooled, torn, shut, pc, io, sends>>
    BY <1>1 DEF Collect, Serve, ServerEnds, stream, client
  <2>2. state = "closed" => c2s' = c2s /\ s2c' = s2c
    BY <1>1 DEF Collect, Serve, ServerEnds, stream, Quiet
  <2> QED
    BY <2>1, <2>2 DEF Quiet
<1>2. CASE Connect \/ HandshakeOk
  BY <1>2 DEF Connect, HandshakeOk, Consume, Quiet
<1>3. CASE HandshakeErr \/ Drop
  BY <1>3 DEF HandshakeErr, Drop, NewStream, Quiet, TypeOK
<1>4. CASE Disconnect
  BY <1>4 DEF Disconnect, Quiet
<1>5. ASSUME NEW t \in Callers, StartQuery(t) \/ Close(t) \/ Evict(t) PROVE Quiet'
  <2>1. state = "open" /\ state' = state /\ io' = io /\ (shut' => shut \/ io = Nobody)
    BY <1>5, ThreadsNeedOpen DEF StartQuery, Close, Evict, stream
  <2> QED
    BY <2>1 DEF Quiet
<1>6. ASSUME NEW t \in Callers, SendQuery(t) \/ SendErr(t) PROVE Quiet'
  <2>1. state = "open" /\ state' = state /\ shut' = shut /\ (~shut \/ io' = Nobody)
    BY <1>6, ThreadsNeedOpen DEF SendQuery, SendErr, Fail, Leave
  <2> QED
    BY <2>1 DEF Quiet
<1>7. ASSUME NEW t \in Callers,
             RuntimeOk(t) \/ RuntimeNewMetadata(t) \/ RefreshErr(t) \/ MetadataOk(t)
               \/ Unexpected(t) \/ ReadErr(t)
      PROVE  Quiet'
  <2>1. pc[t] \in Reading
    BY <1>7 DEF RuntimeOk, RuntimeNewMetadata, RefreshErr, MetadataOk, Unexpected, ReadErr, Reading
  <2>2. state = "open" /\ ~shut
    BY <2>1, ThreadsNeedOpen DEF Quiet, TypeOK, Reading
  <2>3. state' = state /\ shut' = shut
    BY <1>7 DEF RuntimeOk, RuntimeNewMetadata, RefreshErr, MetadataOk, Unexpected, ReadErr, Consume
  <2> QED
    BY <2>2, <2>3 DEF Quiet
<1> QED
  BY <1>1, <1>2, <1>3, <1>4, <1>5, <1>6, <1>7 DEF Next

(* A step that takes the answer of the exchange under way, or sends its    *)
(* request, keeps the stream in step.                                      *)
LEMMA InStepStep ==
    ASSUME TypeOK, Numbered, Quiet, InStep, Next, TypeOK'
    PROVE  InStep'
<1> USE SessionAssumption
<1>0. /\ Len(c2s) \in Nat /\ Len(s2c) \in Nat
      /\ c2s = <<>> <=> Len(c2s) = 0
      /\ s2c = <<>> <=> Len(s2c) = 0
  BY EmptySeq DEF TypeOK
<1>0a. /\ Len(c2s') \in Nat /\ Len(s2c') \in Nat
       /\ c2s' = <<>> <=> Len(c2s') = 0
       /\ s2c' = <<>> <=> Len(s2c') = 0
  BY EmptySeq DEF TypeOK
<1>1. CASE Collect \/ ServerEnds
  BY <1>1 DEF Collect, ServerEnds, stream, client, InStep, Safe, Pending, CutOff
<1>2. CASE Serve
  <2>1. /\ Len(c2s') = Len(c2s) - 1 /\ Len(s2c') = Len(s2c) + 1 /\ Len(c2s) > 0
        /\ s2c = <<>> => s2c'[1].seq = c2s[1].seq
    <3>1. c2s \in Seq(Requests) /\ s2c \in Seq(Replies) /\ c2s # <<>>
      BY <1>2 DEF TypeOK, Serve
    <3>2. Head(c2s) \in Requests /\ Head(c2s) = c2s[1] /\ Head(c2s).seq <= MaxSends
      BY <1>2, <3>1, TailFacts DEF Serve, Numbered
    <3>3. Answer(Head(c2s)) \in Replies /\ Answer(Head(c2s)).seq = c2s[1].seq
      BY <3>2 DEF Answer, Replies, Requests, TypeOK
    <3>4. s2c' = Append(s2c, Answer(Head(c2s))) /\ c2s' = Tail(c2s)
      BY <1>2 DEF Serve
    <3> QED
      BY <1>0, <3>1, <3>3, <3>4, AppendFacts, TailFacts
  <2>2. UNCHANGED <<state, shut, torn, io, pc, mine>>
    BY <1>2 DEF Serve, client
  <2>2a. ~CutOff
    BY <1>2, TailFacts DEF Serve, CutOff, TypeOK
  <2>3. state' = "handshaking" => Len(c2s') + Len(s2c') = 1
    BY <1>0, <2>1, <2>2 DEF InStep
  <2>4. Safe' /\ io' = Nobody => c2s' = <<>> /\ s2c' = <<>> /\ ~torn'
    BY <1>0, <2>1, <2>2, <2>2a DEF InStep, Safe
  <2>5. ASSUME NEW t \in Callers, Safe', io' = t PROVE Pending(mine[t])'
    <3>1. Pending(mine[t])
      BY <2>2, <2>2a, <2>5 DEF InStep, Safe
    <3> QED
      BY <1>0, <1>0a, <2>1, <2>2, <3>1 DEF Pending
  <2> QED
    BY <2>3, <2>4, <2>5 DEF InStep
<1>3. CASE Connect
  <2>1. Len(c2s') = 1 /\ Len(s2c') = 0 /\ state' = "handshaking"
    <3> DEFINE r == [type |-> "HandshakeRequest", seq |-> sends + 1]
    <3>1. r \in Requests /\ c2s \in Seq(Requests) /\ c2s' = Append(c2s, r)
      BY <1>3 DEF Connect, Send, TypeOK, Requests
    <3> HIDE DEF r
    <3>2. Len(c2s') = Len(c2s) + 1
      BY <3>1, AppendFacts
    <3> QED
      BY <1>0, <1>3, <3>2 DEF Connect, Quiet
  <2> QED
    BY <2>1 DEF InStep, Safe
<1>4. CASE HandshakeOk
  <2>1. Len(s2c') = Len(s2c) - 1 /\ s2c # <<>> /\ c2s' = c2s /\ state = "handshaking"
    BY <1>4, TailFacts DEF HandshakeOk, Arrived, Consume, TypeOK
  <2>2. io' = Nobody /\ ~torn' /\ state' = "open"
    BY <1>4 DEF HandshakeOk, Consume, Quiet, TypeOK, Reading
  <2>3. c2s' = <<>> /\ s2c' = <<>>
    BY <1>0, <1>0a, <2>1 DEF InStep
  <2> QED
    BY <2>2, <2>3 DEF InStep
<1>5. CASE HandshakeErr \/ Drop
  BY <1>5 DEF HandshakeErr, Drop, NewStream, InStep, Safe
<1>6. CASE Disconnect
  <2>1. state = "open" /\ state' = state
    BY <1>6, ThreadsNeedOpen DEF Disconnect, Quiet
  <2>2. CASE shut'
    BY <2>1, <2>2 DEF InStep, Safe
  <2>3. CASE ~shut'
    <3>1. /\ WriteErr /\ ~shut /\ pooled /\ ~pooled' /\ io = Nobody
          /\ UNCHANGED <<s2c, torn, io, pc>>
      BY <1>6, <2>3 DEF Disconnect
    <3>2. SUFFICES ASSUME Safe' PROVE InStep'
      BY <2>1 DEF InStep
    <3>3. c2s = <<>> /\ s2c = <<>> /\ ~torn
      BY <2>1, <3>1, <3>2 DEF InStep, Safe, CutOff
    <3> DEFINE r == [type |-> "partial", seq |-> sends + 1]
    <3>4. c2s \in Seq(Requests) /\ r \in Requests /\ r.type = "partial"
      BY DEF TypeOK, Requests
    <3>5. c2s' = c2s \/ c2s' = Append(c2s, r)
      BY <3>1 DEF WriteErr
    <3> HIDE DEF r
    <3>6. c2s' = <<>> \/ (Len(c2s') = 1 /\ c2s' # <<>> /\ c2s'[1].type = "partial")
      BY <1>0, <3>3, <3>4, <3>5, AppendFacts
    <3> QED
      BY <2>1, <3>1, <3>3, <3>6 DEF InStep, CutOff
  <2> QED
    BY <2>2, <2>3
<1>7. ASSUME NEW t \in Callers, StartQuery(t) \/ Evict(t) PROVE InStep'
  <2>1. UNCHANGED <<c2s, s2c, torn, state, shut, io, mine>> /\ (CutOff => CutOff')
    BY <1>7 DEF StartQuery, Evict, stream, CutOff
  <2>2. Safe' => Safe
    <3>1. SUFFICES ASSUME Safe', NEW u \in Callers PROVE pc[u] # "close"
      BY <2>1 DEF Safe
    <3> QED
      BY <1>7, <3>1 DEF StartQuery, Evict, Safe, TypeOK
  <2> QED
    BY <2>1, <2>2 DEF InStep, Pending
<1>8. ASSUME NEW t \in Callers, Close(t) PROVE InStep'
  BY <1>8, ThreadsNeedOpen DEF Close, InStep, Safe
<1>9. ASSUME NEW t \in Callers, SendQuery(t) PROVE InStep'
  <2> DEFINE r == [type |-> "QueryRequest", seq |-> sends + 1]
  <2>1. r \in Requests /\ c2s \in Seq(Requests) /\ c2s' = Append(c2s, r) /\ r.seq = sends + 1
    BY <1>9 DEF SendQuery, Send, TypeOK, Requests
  <2> HIDE DEF r
  <2>2. Len(c2s') = Len(c2s) + 1 /\ c2s'[Len(c2s) + 1].seq = sends + 1
    BY <2>1, AppendFacts
  <2>3. UNCHANGED <<s2c, torn, state, shut, pooled>> /\ io = Nobody /\ io' = t
        /\ mine'[t] = sends + 1
        /\ state = "open"
    BY <1>9, ThreadsNeedOpen DEF SendQuery, TypeOK
  <2>4. Safe' => Safe
    <3>1. SUFFICES ASSUME Safe', NEW u \in Callers PROVE pc[u] # "close"
      BY <2>3 DEF Safe
    <3> QED
      BY <1>9, <3>1 DEF SendQuery, Safe, TypeOK
  <2>5. Safe' /\ ~CutOff => Pending(mine[t])'
    BY <1>0, <1>0a, <2>2, <2>3, <2>4 DEF InStep, Pending
  <2>6. CutOff => CutOff'
    BY <1>0, <1>0a, <2>1, <2>3, AppendFacts DEF CutOff
  <2> QED
    BY <2>3, <2>5, <2>6 DEF InStep
<1>10. ASSUME NEW t \in Callers,
              SendErr(t) \/ RefreshErr(t) \/ Unexpected(t) \/ ReadErr(t)
       PROVE  InStep'
  <2>1. pc'[t] = "close" /\ pc[t] # "idle" /\ state' = state
    BY <1>10 DEF SendErr, RefreshErr, Unexpected, ReadErr, Fail, Leave, TypeOK, Reading
  <2> QED
    BY <2>1, ThreadsNeedOpen DEF InStep, Safe
<1>11. ASSUME NEW t \in Callers, RuntimeOk(t) \/ MetadataOk(t) PROVE InStep'
  <2>1. /\ Len(s2c') = Len(s2c) - 1 /\ s2c # <<>> /\ state = "open" /\ io = t
        /\ UNCHANGED <<c2s, torn, state, shut>> /\ io' = Nobody
    BY <1>11, TailFacts, ThreadsNeedOpen
       DEF RuntimeOk, MetadataOk, Arrived, Consume, Leave, TypeOK, Reading
  <2>2. Safe' => Safe
    <3>1. SUFFICES ASSUME Safe', NEW u \in Callers PROVE pc[u] # "close"
      BY <2>1 DEF Safe
    <3> QED
      BY <1>11, <3>1 DEF RuntimeOk, MetadataOk, Leave, Safe, TypeOK
  <2>3. Safe' => c2s' = <<>> /\ s2c' = <<>> /\ ~torn'
    BY <1>0, <1>0a, <2>1, <2>2 DEF InStep, Pending, CutOff
  <2> QED
    BY <2>1, <2>3 DEF InStep
<1>12. ASSUME NEW t \in Callers, RuntimeNewMetadata(t) PROVE InStep'
  <2> DEFINE r == [type |-> "HandshakeRequest", seq |-> sends + 1]
  <2>1. r \in Requests /\ c2s \in Seq(Requests) /\ c2s' = Append(c2s, r) /\ r.seq = sends + 1
    BY <1>12 DEF RuntimeNewMetadata, Send, TypeOK, Requests
  <2> HIDE DEF r
  <2>2. Len(c2s') = Len(c2s) + 1 /\ c2s'[Len(c2s) + 1].seq = sends + 1
    BY <2>1, AppendFacts
  <2>3. /\ Len(s2c') = Len(s2c) - 1 /\ s2c # <<>> /\ Head(s2c) = s2c[1]
        /\ state = "open" /\ io = t /\ UNCHANGED <<torn, state, shut, io>>
    BY <1>12, TailFacts, ThreadsNeedOpen
       DEF RuntimeNewMetadata, Arrived, Consume, TypeOK, Reading
  <2>4. mine'[t] = IF s2c[1].seq = mine[t] THEN sends + 1 ELSE 0
    BY <1>12, <2>3 DEF RuntimeNewMetadata, TypeOK
  <2>5. Safe' => Safe
    <3>1. SUFFICES ASSUME Safe', NEW u \in Callers PROVE pc[u] # "close"
      BY <2>3 DEF Safe
    <3> QED
      BY <1>12, <3>1 DEF RuntimeNewMetadata, Safe, TypeOK
  <2>6. Safe' => Pending(mine[t])'
    <3>1. SUFFICES ASSUME Safe' PROVE Pending(mine[t])'
      OBVIOUS
    <3>2. Pending(mine[t])
      BY <2>3, <2>5, <3>1 DEF InStep, CutOff
    <3>3. Len(c2s) = 0 /\ Len(s2c) = 1 /\ s2c[1].seq = mine[t]
      BY <1>0, <2>3, <3>2 DEF Pending
    <3> QED
      BY <1>0a, <2>2, <2>3, <2>4, <3>2, <3>3 DEF Pending
  <2> QED
    BY <2>3, <2>6 DEF InStep
<1> QED
  BY <1>1, <1>2, <1>3, <1>4, <1>5, <1>6, <1>7, <1>8, <1>9, <1>10, <1>11, <1>12 DEF Next

-----------------------------------------------------------------------------
(* Snapshots have a number for their metadata and one for themselves. *)
LEMMA SnapTypes ==
    ASSUME TypeOK
    PROVE  /\ entry.meta \in Nat /\ entry.stamp \in Nat
           /\ \A i \in 1..Len(s2c) : s2c[i].snap.meta \in Nat /\ s2c[i].snap.stamp \in Nat
           /\ \A t \in Callers : /\ runtime[t].meta \in Nat /\ runtime[t].stamp \in Nat
                                 /\ result[t].runtime.meta \in Nat
                                 /\ result[t].runtime.stamp \in Nat
                                 /\ result[t].meta \in Nat
<1>1. \A x \in Snapshots : x.meta \in Nat /\ x.stamp \in Nat
  BY SessionAssumption DEF Snapshots
<1>2. \A d \in Replies : d.snap \in Snapshots
  BY DEF Replies
<1>3. \A r \in Results : r.runtime \in Snapshots /\ r.meta \in Nat
  BY SessionAssumption DEF Results
<1>4. \A i \in 1..Len(s2c) : s2c[i] \in Replies
  BY DEF TypeOK
<1> QED
  BY <1>1, <1>2, <1>3, <1>4 DEF TypeOK

(* What a query may return without breaking the order. *)
Returnable(x) ==
    /\ x.stamp \in Nat
    /\ x.stamp <= entry.stamp
    /\ \A i \in 1..Len(s2c) : x.stamp <= s2c[i].snap.stamp

(* A thread that leaves the stream with a new result or a failure, having  *)
(* taken the first frame or not, keeps the order.                          *)
LEMMA LeaveOrder ==
    ASSUME TypeOK, InOrder, NEW t \in Callers, NEW r, NEW next \in {"idle", "close"},
           Leave(t, r, next), io = t \/ io = Nobody, entry' = entry,
           \/ s2c' = s2c
           \/ s2c # <<>> /\ s2c' = Tail(s2c),
           r.kind = "ok" => Returnable(r.runtime)
    PROVE  InOrder'
<1>1. /\ Len(s2c) \in Nat /\ Len(s2c') \in Nat
      /\ \E k \in 0..1 : \A j \in 1..Len(s2c') :
            s2c'[j] = s2c[j + k] /\ j + k \in 1..Len(s2c)
  <2>1. CASE s2c' = s2c
    <3>1. Len(s2c) \in Nat
      BY DEF TypeOK
    <3>2. ASSUME NEW j \in 1..Len(s2c') PROVE s2c'[j] = s2c[j + 0] /\ j + 0 \in 1..Len(s2c)
      BY <2>1, <3>1
    <3> QED
      BY <2>1, <3>1, <3>2
  <2>2. CASE s2c # <<>> /\ s2c' = Tail(s2c)
    <3>1. Len(s2c) \in Nat /\ Len(s2c') = Len(s2c) - 1 /\ Len(s2c) # 0
          /\ \A j \in 1..Len(s2c') : s2c'[j] = s2c[j + 1] /\ j + 1 \in 1..Len(s2c)
      BY <2>2, TailFacts DEF TypeOK
    <3> QED
      BY <3>1
  <2> QED
    BY <2>1, <2>2
<1>2. ASSUME NEW u \in Callers PROVE pc'[u] # "metadata"
  BY SessionAssumption DEF Leave, TypeOK, Reading
<1>3. \A i \in 1..Len(s2c') : Older(s2c'[i].snap, entry')
  BY <1>1 DEF InOrder
<1>4. \A i, j \in 1..Len(s2c') : i <= j => Older(s2c'[i].snap, s2c'[j].snap)
  <2> SUFFICES ASSUME NEW i \in 1..Len(s2c'), NEW j \in 1..Len(s2c'), i <= j
               PROVE  Older(s2c'[i].snap, s2c'[j].snap)
    OBVIOUS
  <2>1. PICK k \in 0..1 : /\ s2c'[i] = s2c[i + k] /\ i + k \in 1..Len(s2c)
                          /\ s2c'[j] = s2c[j + k] /\ j + k \in 1..Len(s2c)
    BY <1>1
  <2>2. i + k <= j + k
    OBVIOUS
  <2> QED
    BY <2>1, <2>2 DEF InOrder
<1>5. ASSUME NEW u \in Callers, result'[u].kind = "ok"
      PROVE  /\ result'[u].runtime.stamp <= entry'.stamp
             /\ \A i \in 1..Len(s2c') : result'[u].runtime.stamp <= s2c'[i].snap.stamp
  <2>1. result'[u].runtime.stamp <= entry.stamp
        /\ \A i \in 1..Len(s2c) : result'[u].runtime.stamp <= s2c[i].snap.stamp
    <3>1. CASE u = t
      BY <1>5, <3>1 DEF Leave, TypeOK, Returnable
    <3>2. CASE u # t
      BY <1>5, <3>2 DEF Leave, TypeOK, InOrder
    <3> QED
      BY <3>1, <3>2
  <2> QED
    BY <1>1, <2>1
<1> QED
  BY <1>2, <1>3, <1>4, <1>5 DEF InOrder

(* The frame at the front is not newer than the rest of the stream. *)
LEMMA HeadReturnable ==
    ASSUME TypeOK, InOrder, NEW type, Arrived(type)
    PROVE  Returnable(Head(s2c).snap)
<1>1. Head(s2c) = s2c[1] /\ 1 \in 1..Len(s2c) /\ Len(s2c) \in Nat
  BY ArrivedType
<1> QED
  BY <1>1, SnapTypes DEF InOrder, Returnable, Older

(* Every step keeps the order of snapshots. *)
LEMMA InOrderStep ==
    ASSUME TypeOK, Numbered, Quiet, InOrder, MetadataNotOlder, Next, TypeOK'
    PROVE  InOrder' /\ MetadataNotOlder'
<1> USE SessionAssumption
<1>1. CASE Collect
  <2>1. PICK m \in {entry.meta, entry.meta + 1} \cap 1..MaxMeta :
           entry' = [meta |-> m, stamp |-> entry.stamp + 1]
    BY <1>1 DEF Collect
  <2>2. entry'.meta >= entry.meta /\ entry'.stamp >= entry.stamp
        /\ entry'.meta \in Nat /\ entry'.stamp \in Nat
    BY <2>1, SnapTypes
  <2>3. UNCHANGED <<s2c, pc, runtime, result>>
    BY <1>1 DEF Collect, stream, client
  <2> QED
    BY <2>2, <2>3, SnapTypes DEF InOrder, Older, MetadataNotOlder
<1>2. CASE Serve
  <2>1. c2s \in Seq(Requests) /\ s2c \in Seq(Replies) /\ c2s # <<>>
    BY <1>2 DEF TypeOK, Serve
  <2>2. Head(c2s) \in Requests /\ Head(c2s).seq <= MaxSends
    BY <1>2, <2>1, TailFacts DEF Serve, Numbered
  <2>3. Answer(Head(c2s)) \in Replies /\ Answer(Head(c2s)).snap = entry
    BY <2>2 DEF Answer, Replies, Requests, TypeOK
  <2>4. /\ Len(s2c) \in Nat /\ Len(s2c') = Len(s2c) + 1
        /\ s2c'[Len(s2c) + 1].snap = entry
        /\ \A i \in 1..Len(s2c) : s2c'[i] = s2c[i]
    BY <1>2, <2>1, <2>3, AppendFacts DEF Serve
  <2>5. UNCHANGED <<entry, pc, runtime, result>>
    BY <1>2 DEF Serve, client
  <2>6. \A i \in 1..Len(s2c') : i \in 1..Len(s2c) \/ i = Len(s2c) + 1
    BY <2>4
  <2>7. \A i \in 1..Len(s2c') : Older(s2c'[i].snap, entry')
    BY <2>4, <2>5, <2>6, SnapTypes DEF InOrder, Older
  <2>8. \A i, j \in 1..Len(s2c') : i <= j => Older(s2c'[i].snap, s2c'[j].snap)
    BY <2>4, <2>6, SnapTypes DEF InOrder, Older
  <2>9. \A t \in Callers : pc'[t] = "metadata" =>
           /\ Older(runtime'[t], entry')
           /\ \A i \in 1..Len(s2c') : Older(runtime'[t], s2c'[i].snap)
    BY <2>4, <2>5, <2>6 DEF InOrder
  <2>10. \A u \in Callers : result'[u].kind = "ok" =>
           /\ result'[u].runtime.stamp <= entry'.stamp
           /\ \A i \in 1..Len(s2c') : result'[u].runtime.stamp <= s2c'[i].snap.stamp
           /\ \A t \in Callers :
                pc'[t] = "metadata" => result'[u].runtime.stamp <= runtime'[t].stamp
    BY <2>4, <2>5, <2>6 DEF InOrder
  <2>11. MetadataNotOlder'
    BY <2>5 DEF MetadataNotOlder
  <2> QED
    BY <2>7, <2>8, <2>9, <2>10, <2>11 DEF InOrder
<1>3. CASE ServerEnds \/ Connect \/ Disconnect
  BY <1>3 DEF ServerEnds, Connect, Disconnect, client, InOrder, MetadataNotOlder
<1>4. CASE HandshakeOk
  <2>1. /\ Len(s2c) \in Nat /\ Len(s2c') = Len(s2c) - 1
        /\ \A i \in 1..Len(s2c') : i + 1 \in 1..Len(s2c) /\ s2c'[i] = s2c[i + 1]
    BY <1>4, TailFacts DEF HandshakeOk, Arrived, Consume, TypeOK
  <2>2. UNCHANGED <<entry, pc, runtime, result>>
    BY <1>4 DEF HandshakeOk
  <2>3. \A i, j \in 1..Len(s2c') : i <= j => i + 1 <= j + 1
    BY <2>1
  <2>4. \A i, j \in 1..Len(s2c') : i <= j => Older(s2c'[i].snap, s2c'[j].snap)
    BY <2>1, <2>3 DEF InOrder
  <2> QED
    BY <2>1, <2>2, <2>4 DEF InOrder, MetadataNotOlder
<1>5. CASE HandshakeErr \/ Drop
  <2>1. s2c' = <<>> /\ UNCHANGED <<entry, pc, runtime, result>>
    BY <1>5 DEF HandshakeErr, Drop, NewStream
  <2>2. Len(s2c') = 0
    BY <2>1
  <2> QED
    BY <2>1, <2>2 DEF InOrder, MetadataNotOlder
<1>6. ASSUME NEW t \in Callers, StartQuery(t) \/ Close(t) \/ Evict(t) \/ SendQuery(t)
      PROVE  InOrder' /\ MetadataNotOlder'
  <2>1. UNCHANGED <<entry, s2c, runtime, result>>
    BY <1>6 DEF StartQuery, Close, Evict, SendQuery, stream
  <2>2. \A u \in Callers : pc'[u] = "metadata" => pc[u] = "metadata"
    BY <1>6 DEF StartQuery, Close, Evict, SendQuery, TypeOK
  <2> QED
    BY <2>1, <2>2 DEF InOrder, MetadataNotOlder
<1>7. Failure.kind = "err"
  BY DEF Failure
<1>8. ASSUME NEW t \in Callers, SendErr(t) \/ RefreshErr(t) \/ Unexpected(t) \/ ReadErr(t)
      PROVE  InOrder' /\ MetadataNotOlder'
  <2>1. /\ Leave(t, Failure, "close") /\ entry' = entry
        /\ s2c' = s2c \/ (s2c # <<>> /\ s2c' = Tail(s2c))
        /\ io = t \/ io = Nobody
    BY <1>8 DEF SendErr, RefreshErr, Unexpected, ReadErr, Fail, Consume, Arrived, TypeOK, Reading
  <2>2. InOrder'
    BY <1>7, <2>1, LeaveOrder
  <2>3. MetadataNotOlder'
    BY <1>7, <2>1 DEF Leave, MetadataNotOlder, TypeOK
  <2> QED
    BY <2>2, <2>3
<1>9. ASSUME NEW t \in Callers, RuntimeOk(t) PROVE InOrder' /\ MetadataNotOlder'
  <2> DEFINE r == Ok(t, Head(s2c).snap, Head(s2c).seq, metadata)
  <2>1. /\ Leave(t, r, "idle") /\ entry' = entry /\ io = t
        /\ s2c # <<>> /\ s2c' = Tail(s2c) /\ MetadataKnown(Head(s2c).snap)
    BY <1>9 DEF RuntimeOk, Consume, Arrived, TypeOK, Reading
  <2>2. r.runtime = Head(s2c).snap /\ r.meta = metadata
    BY DEF Ok
  <2>3. Returnable(r.runtime)
    BY <1>9, <2>2, HeadReturnable DEF RuntimeOk
  <2>4. r.meta >= r.runtime.meta
    BY <2>1, <2>2 DEF MetadataKnown, TypeOK
  <2> HIDE DEF r
  <2>5. InOrder'
    BY <2>1, <2>3, LeaveOrder
  <2>6. MetadataNotOlder'
    BY <2>1, <2>4 DEF Leave, MetadataNotOlder, TypeOK
  <2> QED
    BY <2>5, <2>6
<1>10. ASSUME NEW t \in Callers, MetadataOk(t) PROVE InOrder' /\ MetadataNotOlder'
  <2> DEFINE r == Ok(t, runtime[t], Head(s2c).seq, Head(s2c).snap.meta)
  <2>1. /\ Leave(t, r, "idle") /\ entry' = entry /\ io = t /\ pc[t] = "metadata"
        /\ s2c # <<>> /\ s2c' = Tail(s2c)
    BY <1>10 DEF MetadataOk, Consume, Arrived, TypeOK, Reading
  <2>2. Head(s2c) = s2c[1] /\ 1 \in 1..Len(s2c)
    BY <1>10, ArrivedType DEF MetadataOk
  <2>3. r.runtime = runtime[t] /\ r.meta = s2c[1].snap.meta
    BY <2>2 DEF Ok
  <2>4. Returnable(r.runtime) /\ r.meta >= r.runtime.meta
    BY <2>1, <2>2, <2>3, SnapTypes DEF Returnable, InOrder, Older
  <2> HIDE DEF r
  <2>5. InOrder'
    BY <2>1, <2>4, LeaveOrder
  <2>6. MetadataNotOlder'
    BY <2>1, <2>4 DEF Leave, MetadataNotOlder, TypeOK
  <2> QED
    BY <2>5, <2>6
<1>11. ASSUME NEW t \in Callers, RuntimeNewMetadata(t) PROVE InOrder' /\ MetadataNotOlder'
  <2>1. /\ Len(s2c) \in Nat /\ Len(s2c') = Len(s2c) - 1 /\ 1 \in 1..Len(s2c)
        /\ \A i \in 1..Len(s2c') : i + 1 \in 1..Len(s2c) /\ s2c'[i] = s2c[i + 1]
        /\ Head(s2c) = s2c[1]
    BY <1>11, TailFacts DEF RuntimeNewMetadata, Arrived, Consume, TypeOK
  <2>2. /\ UNCHANGED <<entry, result>> /\ io = t /\ runtime'[t] = s2c[1].snap
        /\ \A u \in Callers : pc'[u] = "metadata" => u = t
    BY <1>11, <2>1 DEF RuntimeNewMetadata, TypeOK, Reading
  <2>3. \A i, j \in 1..Len(s2c') : i <= j => i + 1 <= j + 1 /\ 1 <= i + 1
    BY <2>1
  <2>4. \A i, j \in 1..Len(s2c') : i <= j => Older(s2c'[i].snap, s2c'[j].snap)
    BY <2>1, <2>3 DEF InOrder
  <2>5. /\ Older(runtime'[t], entry')
        /\ \A i \in 1..Len(s2c') : Older(runtime'[t], s2c'[i].snap)
    BY <2>1, <2>2, <2>3 DEF InOrder
  <2> QED
    BY <2>1, <2>2, <2>4, <2>5 DEF InOrder, MetadataNotOlder
<1> QED
  BY <1>1, <1>2, <1>3, <1>4, <1>5, <1>6, <1>8, <1>9, <1>10, <1>11 DEF Next

(* The inductive invariant is kept by every step. *)
LEMMA IInvStep == IInv /\ [Next]_vars => IInv'
<1> SUFFICES ASSUME IInv, [Next]_vars PROVE IInv'
  OBVIOUS
<1>1. CASE Next
  <2>1. TypeOK' /\ Numbered'
    BY <1>1, TypeStep DEF IInv
  <2> QED
    BY <1>1, <2>1, QuietStep, InStepStep, InOrderStep DEF IInv
<1>2. CASE UNCHANGED vars
  BY <1>2 DEF vars, stream, IInv, TypeOK, Numbered, Quiet, InStep, Pending, CutOff, Safe, InOrder,
              MetadataNotOlder
<1> QED
  BY <1>1, <1>2

(* The invariant holds in every state. *)
LEMMA AlwaysIInv == Spec => []IInv
  BY InitIInv, IInvStep, PTL DEF Spec

-----------------------------------------------------------------------------
(* TypeOK always holds. *)
THEOREM TypeCorrect == Spec => []TypeOK
<1>1. IInv => TypeOK
  BY DEF IInv
<1> QED
  BY <1>1, AlwaysIInv, PTL

(* A stream that is free and that nobody is about to close is in step:     *)
(* query_connected may take the next frame for its answer.  After a        *)
(* disconnect that failed half-way it is out of the pool instead, and no   *)
(* frame comes that could be taken for one.                                *)
THEOREM StreamInStep == Spec => []InStepOrDoomed
<1>1. IInv => InStepOrDoomed
  BY DEF IInv, InStep, Safe, CutOff, InStepOrDoomed
<1> QED
  BY <1>1, AlwaysIInv, PTL

(* Runtime values are never put together with older metadata, although the *)
(* client checks no request ids.                                           *)
THEOREM MetadataIsNotOlder == Spec => []MetadataNotOlder
<1>1. IInv => MetadataNotOlder
  BY DEF IInv
<1> QED
  BY <1>1, AlwaysIInv, PTL

(* A result other than a failure comes from the first frame of the stream. *)
LEMMA OkStep ==
    ASSUME IInv, [Next]_vars, NEW t \in Callers,
           result'[t] # result[t], result'[t].kind = "ok"
    PROVE  /\ io = t /\ 1 \in 1..Len(s2c)
           /\ result'[t].own = (s2c[1].seq = mine[t])
           /\ \/ result'[t].runtime = s2c[1].snap
              \/ pc[t] = "metadata" /\ result'[t].runtime = runtime[t]
<1> USE DEF IInv
<1>1. PICK u \in Callers : RuntimeOk(u) \/ MetadataOk(u) \/ (\E next : Leave(u, Failure, next))
  BY DEF Next, vars, stream, client, Collect, Serve, ServerEnds, Connect, HandshakeOk, HandshakeErr,
         Drop, Disconnect, StartQuery, SendQuery, SendErr, RuntimeNewMetadata, RefreshErr,
         Unexpected, ReadErr, Close, Evict, Fail
<1>2. u = t
  BY <1>1 DEF RuntimeOk, MetadataOk, Leave, TypeOK
<1>3. ASSUME NEW next, Leave(u, Failure, next) PROVE FALSE
  BY <1>2, <1>3 DEF Leave, Failure, TypeOK
<1>4. CASE RuntimeOk(t)
  <2>1. Head(s2c) = s2c[1] /\ Len(s2c) \in Nat \ {0}
    BY <1>4, ArrivedType DEF RuntimeOk
  <2>2. io = t /\ result'[t] = Ok(t, s2c[1].snap, s2c[1].seq, metadata)
    BY <1>4, <2>1 DEF RuntimeOk, Leave, TypeOK, Reading
  <2> QED
    BY <2>1, <2>2 DEF Ok
<1>5. CASE MetadataOk(t)
  <2>1. Head(s2c) = s2c[1] /\ Len(s2c) \in Nat \ {0}
    BY <1>5, ArrivedType DEF MetadataOk
  <2>2. io = t /\ result'[t] = Ok(t, runtime[t], s2c[1].seq, s2c[1].snap.meta)
        /\ pc[t] = "metadata"
    BY <1>5, <2>1 DEF MetadataOk, Leave, TypeOK, Reading
  <2> QED
    BY <2>1, <2>2 DEF Ok
<1> QED
  BY <1>1, <1>2, <1>3, <1>4, <1>5

(* Only between the unlock and the close of a failed query can a query of  *)
(* another thread return an answer that is not its own.                    *)
THEOREM ForeignAnswers == Spec => ForeignOnlyBeforeClose
<1>1. ASSUME IInv, [Next]_vars, NEW t \in Callers,
             result'[t] # result[t], result'[t].kind = "ok", ~result'[t].own
      PROVE  \E u \in Callers \ {t} : pc[u] = "close"
  <2>1. io = t /\ 1 \in 1..Len(s2c) /\ s2c[1].seq # mine[t]
    BY <1>1, OkStep
  <2>2. s2c # <<>>
    BY <2>1
  <2>3. ~Pending(mine[t]) /\ ~CutOff
    BY <2>1, <2>2 DEF Pending, CutOff
  <2>4. ~Safe
    BY <1>1, <2>1, <2>3 DEF IInv, InStep
  <2>5. pc[t] \in Reading /\ io # Nobody
    BY <1>1, <2>1, SessionAssumption DEF IInv, TypeOK
  <2>6. state = "open" /\ ~shut /\ pc[t] # "close"
    BY <1>1, <2>5 DEF IInv, Quiet, Reading
  <2> QED
    BY <2>4, <2>6 DEF Safe
<1>2. IInv /\ [Next]_vars =>
        [\A t \in Callers :
           result'[t] # result[t] /\ result'[t].kind = "ok" /\ ~result'[t].own
             => \E u \in Callers \ {t} : pc[u] = "close"]_vars
  BY <1>1
<1> QED
  BY <1>2, AlwaysIInv, PTL DEF Spec, ForeignOnlyBeforeClose

(* No query returns a snapshot older than one a query returned before it,  *)
(* not even in that gap.                                                   *)
THEOREM OrderedAnswers == Spec => AnswersInOrder
<1>1. ASSUME IInv, [Next]_vars, NEW t \in Callers, NEW u \in Callers,
             result'[t] # result[t], result'[t].kind = "ok", result[u].kind = "ok"
      PROVE  result'[t].runtime.stamp >= result[u].runtime.stamp
  <2>1. \/ 1 \in 1..Len(s2c) /\ result'[t].runtime = s2c[1].snap
        \/ pc[t] = "metadata" /\ result'[t].runtime = runtime[t]
    BY <1>1, OkStep
  <2> QED
    BY <1>1, <2>1, SnapTypes DEF IInv, InOrder
<1>2. IInv /\ [Next]_vars =>
        [\A t, u \in Callers :
           result'[t] # result[t] /\ result'[t].kind = "ok" /\ result[u].kind = "ok"
             => result'[t].runtime.stamp >= result[u].runtime.stamp]_vars
  BY <1>1
<1> QED
  BY <1>2, AlwaysIInv, PTL DEF Spec, AnswersInOrder

-----------------------------------------------------------------------------
(* The server's threads, one per connection (TcpServer). *)

(* A peer that is away has no thread and left nothing behind; every other one *)
(* has a thread, and what it is owed is counted, gone or not.                 *)
AllCounted ==
    /\ ServerTypeOK
    /\ \A p \in Peers :
         /\ peer[p] = "away" <=> handler[p] = "none"
         /\ owed[p] = unread[p] + (IF handler[p] = "answering" THEN 1 ELSE 0)

(* What clients are owed is counted in every state of the server. *)
THEOREM ServerInvariant == ServerSpec => []AllCounted
<1>1. ServerInit => AllCounted
  BY ServerAssumption DEF ServerInit, AllCounted, ServerTypeOK
<1>2. AllCounted /\ [ServerNext]_serverVars => AllCounted'
  <2> SUFFICES ASSUME AllCounted, [ServerNext]_serverVars PROVE AllCounted'
    OBVIOUS
  <2> USE ServerAssumption DEF AllCounted, ServerTypeOK
  <2>1. ASSUME NEW p \in Peers, Request(p) PROVE AllCounted'
    BY <2>1 DEF Request
  <2>2. ASSUME NEW p \in Peers, Hangup(p) \/ Vanish(p) PROVE AllCounted'
    BY <2>2 DEF Hangup, Vanish
  <2>3. ASSUME NEW p \in Peers, Accept(p) PROVE AllCounted'
    BY <2>3 DEF Accept
  <2>4. ASSUME NEW p \in Peers, ReadFrame(p) PROVE AllCounted'
    BY <2>4 DEF ReadFrame
  <2>5. ASSUME NEW p \in Peers, WriteAnswer(p) PROVE AllCounted'
    BY <2>5 DEF WriteAnswer, Answered
  <2>6. ASSUME NEW p \in Peers, HandleErr(p) \/ ReadEnd(p) PROVE AllCounted'
    BY <2>6 DEF HandleErr, ReadEnd, End
  <2>7. CASE UNCHANGED serverVars
    BY <2>7 DEF serverVars
  <2> QED
    BY <2>1, <2>2, <2>3, <2>4, <2>5, <2>6, <2>7 DEF ServerNext, Handle
<1> QED
  BY <1>1, <1>2, PTL DEF ServerSpec

(* The counts of the server's clients are well formed: query_server_loop and  *)
(* handle_query_stream owe nobody more than was asked.                        *)
THEOREM ServerTypeCorrect == ServerSpec => []ServerTypeOK
<1>1. AllCounted => ServerTypeOK
  BY DEF AllCounted
<1> QED
  BY <1>1, ServerInvariant, PTL

(* No request of a connected client is dropped between two frames: what the *)
(* client is owed is on its way to a thread of handle_query_stream or being *)
(* answered by it, for any number of clients and requests.                  *)
THEOREM RequestsNotDropped == ServerSpec => []NothingDropped
<1>1. AllCounted => NothingDropped
  BY DEF AllCounted, NothingDropped
<1> QED
  BY <1>1, ServerInvariant, PTL
=============================================================================
