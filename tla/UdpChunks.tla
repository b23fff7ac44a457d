----------------------------- MODULE UdpChunks -----------------------------
(***************************************************************************)
(* Chunked frames over UDP (crates/common/src/udp.rs): encode_udp_chunks   *)
(* on one side, a UdpFrameReassembler on the other, and a network between  *)
(* them that loses, repeats and reorders datagrams.                        *)
(*                                                                         *)
(* A frame is a sequence of cells, a cell standing for a run of bytes; the *)
(* first cell is the frame header.  The sender may answer a request more   *)
(* than once (its datagram was repeated), with different frames that carry *)
(* the same request id: the server answers from whatever its cache holds.  *)
(*                                                                         *)
(* An operator whose comment begins with "Deviation" is a variant of the   *)
(* one after it that no specification uses: a slip of the kind the         *)
(* properties have to catch.                                               *)
(***************************************************************************)
EXTENDS ChunkRing, Sequences, FiniteSets, SequencesExt

CONSTANTS Frames,       \* frames that may be sent
          MaxPayload,   \* effective_udp_payload_capacity, in cells
          NoSlot,       \* a chunk of a group that has not arrived
          MaxSends,     \* bound: frames sent
          MaxExpiries   \* bound: times the reassembler is replaced

VARIABLES sent,         \* frames handed to encode_udp_chunks so far
          net,          \* datagrams on the wire; delivery leaves them there
          groups,       \* UdpFrameReassembler.groups
          arrived,      \* history: datagrams delivered to this reassembler
          got,          \* frames returned by the decoder
          expiries

vars == <<sent, net, groups, arrived, got, expiries>>

-----------------------------------------------------------------------------
(* Frames: encode_frame puts a header in front, decode_frame checks it. *)
Header(type, id, len) == [cell |-> "header", type |-> type, id |-> id, len |-> len]
Data(v) == [cell |-> "data", value |-> v]
EncodeFrame(type, id, payload) == <<Header(type, id, Len(payload))>> \o payload

DecodesAs(frame, type, id) ==
    /\ frame # <<>>
    /\ frame[1].cell = "header"
    /\ frame[1].len = Len(frame) - 1
    /\ frame[1].type = type
    /\ frame[1].id = id

Ids == {f[1].id : f \in Frames}

(* Deviation: the division rounds down. *)
TotalChunksRoundedDown(f) == Len(f) \div MaxPayload

(* encode_udp_chunks: frame.chunks(max_payload), numbered from 0; with one *)
(* part it is encode_udp_single_chunk, whose neighbours are itself.        *)
TotalChunks(f) == (Len(f) + MaxPayload - 1) \div MaxPayload
PartsOf(f) ==
    [i \in 0..(TotalChunks(f) - 1) |->
        SubSeq(f, i * MaxPayload + 1,
               IF (i + 1) * MaxPayload < Len(f) THEN (i + 1) * MaxPayload ELSE Len(f))]
EncodeUdpChunks(f) ==
    {[type |-> f[1].type, id |-> f[1].id, frameLen |-> Len(f), chunk |-> i,
      total |-> TotalChunks(f), slot |-> Slot(PartsOf(f), TotalChunks(f), i)]
        : i \in 0..(TotalChunks(f) - 1)}

-----------------------------------------------------------------------------
(* A frame begins with a header that counts the cells after it, and its    *)
(* parts are what the checksum tells apart.                                *)
ASSUME ChunksAssumption ==
    /\ MaxPayload \in Nat \ {0} /\ MaxSends \in Nat /\ MaxExpiries \in Nat
    /\ Frames \subseteq Seq(UNION {ToSet(f) : f \in Frames})
    /\ \A f \in Frames :
         /\ DecodesAs(f, f[1].type, f[1].id)
         /\ \A i \in 0..(TotalChunks(f) - 1) :
              PartsOf(f)[i] \in Parts /\ Slot(PartsOf(f), TotalChunks(f), i) # NoSlot

-----------------------------------------------------------------------------
(* decode_udp_single_chunk *)
SingleOk(d) ==
    /\ d.slot.prev = Checksum(d.slot.payload)
    /\ d.slot.next = Checksum(d.slot.payload)
    /\ DecodesAs(d.slot.payload, d.type, d.id)

(* No entry for a request id in groups. *)
NoGroup == [type |-> "", frameLen |-> 0, total |-> 0, slots |-> <<>>]

(* groups.entry(request_id).or_insert_with(ChunkGroup::new) *)
GroupFor(d) ==
    IF groups[d.id] # NoGroup THEN groups[d.id]
    ELSE [type |-> d.type, frameLen |-> d.frameLen, total |-> d.total,
          slots |-> [i \in 0..(d.total - 1) |-> NoSlot]]

SameMetadata(g, d) ==
    g.type = d.type /\ g.frameLen = d.frameLen /\ g.total = d.total

IsComplete(g) == \A i \in 0..(g.total - 1) : g.slots[i] # NoSlot

(* The payloads in order, cut to frame_len. *)
Assembled(g) ==
    LET all == FlattenSeq([i \in 1..g.total |-> g.slots[i - 1].payload])
    IN  SubSeq(all, 1, IF Len(all) < g.frameLen THEN Len(all) ELSE g.frameLen)

Accepts(g, id) ==
    /\ IsComplete(g)
    /\ VerifyAll(g.slots, g.total)
    /\ DecodesAs(Assembled(g), g.type, id)

-----------------------------------------------------------------------------
(* A group has the shape of a frame that was sent for its request, and     *)
(* each chunk in it arrived before, as a chunk of a frame of that shape.   *)
GroupOK(g, id) ==
    /\ g = [type |-> g.type, frameLen |-> g.frameLen, total |-> g.total, slots |-> g.slots]
    /\ \E f \in sent : /\ f[1].id = id /\ f[1].type = g.type
                       /\ Len(f) = g.frameLen /\ TotalChunks(f) = g.total
    /\ DOMAIN g.slots = 0..(g.total - 1)
    /\ \A i \in 0..(g.total - 1) : g.slots[i] # NoSlot =>
         \E d \in arrived : /\ d.id = id /\ SameMetadata(g, d)
                            /\ d.chunk = i /\ d.slot = g.slots[i]

TypeOK ==
    /\ sent \subseteq Frames
    /\ net = UNION {EncodeUdpChunks(f) : f \in sent}
    /\ arrived \subseteq net
    /\ DOMAIN groups = Ids
    /\ \A id \in Ids : groups[id] # NoGroup => GroupOK(groups[id], id)
    /\ expiries \in 0..MaxExpiries

Init ==
    /\ sent = {} /\ net = {} /\ got = {} /\ arrived = {}
    /\ groups = [id \in Ids |-> NoGroup]
    /\ expiries = 0

Send(f) ==
    /\ Cardinality(sent) < MaxSends
    /\ f \notin sent
    /\ sent' = sent \cup {f}
    /\ net' = net \cup EncodeUdpChunks(f)
    /\ UNCHANGED <<groups, arrived, got, expiries>>

(* A datagram with total_chunks = 1 never enters the reassembler. *)
DeliverSingle(d) ==
    /\ d.total = 1
    /\ got' = IF SingleOk(d) THEN got \cup {d.slot.payload} ELSE got
    /\ arrived' = arrived \cup {d}
    /\ UNCHANGED <<sent, net, groups, expiries>>

(* ChunkGroup::insert refuses a chunk of a frame of another shape ...      *)
DeliverMismatch(d) ==
    /\ d.total # 1
    /\ ~SameMetadata(GroupFor(d), d)
    /\ arrived' = arrived \cup {d}
    /\ UNCHANGED <<sent, net, groups, got, expiries>>

(* ... and otherwise overwrites the slot; a group that is complete after   *)
(* that returns its frame if it passes the checks.  It is not removed.     *)
DeliverChunk(d) ==
    /\ d.total # 1
    /\ SameMetadata(GroupFor(d), d)
    /\ LET g == [GroupFor(d) EXCEPT !.slots[d.chunk] = d.slot]
       IN  /\ groups' = [groups EXCEPT ![d.id] = g]
           /\ got' = IF Accepts(g, d.id) THEN got \cup {Assembled(g)} ELSE got
    /\ arrived' = arrived \cup {d}
    /\ UNCHANGED <<sent, net, expiries>>

(* Deviation: the groups survive the deadline. *)
ExpireKeepingGroups ==
    /\ expiries < MaxExpiries
    /\ arrived # {}
    /\ expiries' = expiries + 1
    /\ arrived' = {}
    /\ UNCHANGED <<sent, net, got, groups>>

(* The deadline, counted from creation, passes: the next datagram finds a  *)
(* new reassembler (server_loop), or the next exchange starts one          *)
(* (recv_frame).                                                           *)
Expire ==
    /\ expiries < MaxExpiries
    /\ arrived # {}
    /\ expiries' = expiries + 1
    /\ groups' = [id \in Ids |-> NoGroup]
    /\ arrived' = {}
    /\ UNCHANGED <<sent, net, got>>

Next ==
    \/ \E f \in Frames : Send(f)
    \/ \E d \in net : DeliverSingle(d) \/ DeliverMismatch(d) \/ DeliverChunk(d)
    \/ Expire

Spec == Init /\ [][Next]_vars

-----------------------------------------------------------------------------
(* Whatever is lost, repeated, reordered or answered twice, a frame that   *)
(* comes out of the decoder is a frame that was sent: chunks of two        *)
(* answers to one request are never mixed (verify_all, MetadataMismatch).  *)
GotWasSent == got \subseteq sent

(* A frame all of whose chunks arrived within one deadline, with no chunk  *)
(* of another frame for its request among them, has been delivered: the    *)
(* order and the repetitions do not matter.                                *)
CompleteIsDelivered ==
    \A f \in sent :
        /\ EncodeUdpChunks(f) \subseteq arrived
        /\ \A d \in arrived : d.id = f[1].id => d \in EncodeUdpChunks(f)
        => f \in got

(* A frame is never completed by chunks from before the deadline: an       *)
(* incomplete group dies with its reassembler.                             *)
PartialDiesAtDeadline ==
    [][\A f \in got' \ got : \A i \in DOMAIN PartsOf(f) :
         \E d \in arrived' : /\ d.id = f[1].id /\ d.chunk = i
                             /\ d.slot.payload = PartsOf(f)[i]]_vars
============================================================================
