----------------------------- MODULE TcpServer -----------------------------
(***************************************************************************)
(* The server's TCP side (crates/server/src/main.rs): query_server_loop    *)
(* accepts connections and starts a thread for each, handle_query_stream   *)
(* reads a frame, answers it and reads the next, until the stream ends.    *)
(* The stream has a write timeout and no read timeout.                     *)
(*                                                                         *)
(* A peer is a client process; what is in its requests is the business of  *)
(* TcpSession, a module that can be extended together with this one.       *)
(*                                                                         *)
(* An operator whose comment begins with "Deviation" is a variant of the   *)
(* one after it that no specification uses: a slip of the kind the         *)
(* properties have to catch.                                               *)
(***************************************************************************)
EXTENDS Integers, FiniteSets

CONSTANTS Peers,            \* clients that may connect
          MaxUnread,        \* bound: requests a peer has on the wire
          MaxVanished       \* bound: peers whose host dies

ASSUME ServerAssumption ==
    /\ IsFiniteSet(Peers)
    /\ MaxUnread \in Nat \ {0} /\ MaxVanished \in Nat

VARIABLES peer,      \* away, connected, closed (it closed the stream) or
                     \* vanished (its host died: no data and no end of stream)
          handler,   \* the thread of a peer's connection
          unread,    \* requests sent and not yet read
          owed,      \* history: requests sent and not yet answered
          vanished

serverVars == <<peer, handler, unread, owed, vanished>>

ServerTypeOK ==
    /\ peer \in [Peers -> {"away", "connected", "closed", "vanished"}]
    /\ handler \in [Peers -> {"none", "reading", "answering"}]
    /\ unread \in [Peers -> 0..MaxUnread]
    /\ owed \in [Peers -> 0..(MaxUnread + 1)]
    /\ vanished \in 0..MaxVanished

ServerInit ==
    /\ peer = [p \in Peers |-> "away"]
    /\ handler = [p \in Peers |-> "none"]
    /\ unread = [p \in Peers |-> 0] /\ owed = [p \in Peers |-> 0]
    /\ vanished = 0

-----------------------------------------------------------------------------
(* The peers. *)

Request(p) ==
    /\ peer[p] = "connected"
    /\ unread[p] < MaxUnread
    /\ unread' = [unread EXCEPT ![p] = @ + 1]
    /\ owed' = [owed EXCEPT ![p] = @ + 1]
    /\ UNCHANGED <<peer, handler, vanished>>

Hangup(p) ==
    /\ peer[p] = "connected"
    /\ peer' = [peer EXCEPT ![p] = "closed"]
    /\ UNCHANGED <<handler, unread, owed, vanished>>

Vanish(p) ==
    /\ peer[p] = "connected" /\ vanished < MaxVanished
    /\ peer' = [peer EXCEPT ![p] = "vanished"]
    /\ vanished' = vanished + 1
    /\ UNCHANGED <<handler, unread, owed>>

-----------------------------------------------------------------------------
(* The server. *)

(* query_server_loop: every connection is accepted and gets a thread;      *)
(* max_connections is not looked at.                                       *)
Accept(p) ==
    /\ peer[p] = "away" /\ handler[p] = "none"
    /\ peer' = [peer EXCEPT ![p] = "connected"]
    /\ handler' = [handler EXCEPT ![p] = "reading"]
    /\ UNCHANGED <<unread, owed, vanished>>

(* read_tcp_frame returns a request. *)
ReadFrame(p) ==
    /\ handler[p] = "reading" /\ unread[p] > 0
    /\ unread' = [unread EXCEPT ![p] = @ - 1]
    /\ handler' = [handler EXCEPT ![p] = "answering"]
    /\ UNCHANGED <<peer, owed, vanished>>

(* Deviation: the thread stops after one answer. *)
AnsweredOnce == "none"

(* The loop goes on with the next frame. *)
Answered == "reading"

WriteAnswer(p) ==
    /\ handler[p] = "answering"
    /\ owed' = [owed EXCEPT ![p] = @ - 1]
    /\ handler' = [handler EXCEPT ![p] = Answered]
    /\ UNCHANGED <<peer, unread, vanished>>

(* The thread returns and the stream is dropped: the peer is rid of it. *)
End(p) ==
    /\ handler' = [handler EXCEPT ![p] = "none"]
    /\ peer' = [peer EXCEPT ![p] = "away"]
    /\ unread' = [unread EXCEPT ![p] = 0] /\ owed' = [owed EXCEPT ![p] = 0]
    /\ UNCHANGED vanished

(* The frame does not decode or cannot be handled, or write_all fails or   *)
(* times out: the thread gives the connection up, whatever the peer does.  *)
HandleErr(p) ==
    /\ handler[p] = "answering"
    /\ End(p)

(* Deviation: the end of the stream is taken for a frame not yet there. *)
ReadEndIgnored(p) ==
    /\ handler[p] = "reading" /\ unread[p] = 0 /\ peer[p] = "closed"
    /\ UNCHANGED serverVars

(* read_tcp_frame finds the end of the stream, or a Disconnect frame. *)
ReadEnd(p) ==
    /\ handler[p] = "reading" /\ unread[p] = 0 /\ peer[p] = "closed"
    /\ End(p)

Handle(p) == ReadFrame(p) \/ WriteAnswer(p) \/ HandleErr(p) \/ ReadEnd(p)

ServerNext == \E p \in Peers : Request(p) \/ Hangup(p) \/ Vanish(p) \/ Accept(p) \/ Handle(p)

ServerSpec == ServerInit /\ [][ServerNext]_serverVars

(* Threads are scheduled; clients may do nothing for ever. *)
FairSpec == ServerSpec /\ \A p \in Peers : WF_serverVars(Handle(p))

-----------------------------------------------------------------------------
(* A connected client always has a thread, and what it is owed is on its   *)
(* way to that thread or being answered: no request is dropped between     *)
(* two frames (handle_query_stream).                                       *)
NothingDropped ==
    \A p \in Peers : peer[p] = "connected" =>
        /\ handler[p] # "none"
        /\ owed[p] = unread[p] + (IF handler[p] = "answering" THEN 1 ELSE 0)

(* The thread of a client that closed its connection ends. *)
ClosedIsReleased == \A p \in Peers : peer[p] = "closed" ~> handler[p] = "none"

(* README.md: connection_idle_timeout is the idle timeout of UDP and TCP   *)
(* connections: one whose client is gone without a word is given up.       *)
VanishedIsReleased == \A p \in Peers : peer[p] = "vanished" ~> handler[p] = "none"
============================================================================
