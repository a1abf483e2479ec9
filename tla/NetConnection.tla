--------------------------- MODULE NetConnection ---------------------------
(***************************************************************************)
(* The reliable stream of vital chunks between the two ends of an          *)
(* established connection (engine/shared/network_conn.cpp and the unpacker *)
(* of network.cpp), over a network that loses, duplicates and reorders     *)
(* packets.                                                                *)
(*                                                                         *)
(* Both ends run the same code.  An end numbers its vital chunks modulo    *)
(* NET_MAX_SEQUENCE, packs them into the packet under construction, keeps  *)
(* a copy in its resend buffer until the peer has acknowledged it, and     *)
(* takes from the peer only the chunk that follows the last one it took.   *)
(* Every packet carries the number of that last chunk; a packet asks for a *)
(* resend after a chunk that came too early.                               *)
(*                                                                         *)
(* Chunks that are not vital have no number, are kept nowhere and touch    *)
(* nothing here but the packet under construction; they are left out, as   *)
(* are the contents of the chunks: "data" is the place of the chunk in the *)
(* stream, and "taken" the chunks its sender had taken when a packet left; *)
(* no code reads them.  Time is left out: what a timer guards may happen   *)
(* whenever the rest of its guard holds.                                   *)
(***************************************************************************)
EXTENDS Naturals, Sequences, SequencesExt, FiniteSets

CONSTANTS
    MaxSequence,   \* NET_MAX_SEQUENCE: the sequence numbers are below it
    BufferSize,    \* how many chunks the resend buffer holds
    PacketSize,    \* how many chunks fit into a packet
    First,         \* the number both ends stand at when the model begins
    ServerSends,   \* bound: the vital chunks the server queues
    ClientSends,   \* bound: the vital chunks the client queues
    MaxInFlight,   \* bound: the packets under way to one end
    MaxFaults      \* bound: packets lost, repeated or overtaken

(***************************************************************************)
(* The copies of the unacknowledged chunks fill 32 KiB (NET_CONN_BUFFERSIZE)*)
(* with at least 72 bytes each, so there are fewer than half the sequence  *)
(* numbers of them: 455 against 512.                                       *)
(***************************************************************************)
ASSUME ConnectionAssumption ==
    /\ MaxSequence \in Nat /\ BufferSize \in Nat \ {0} /\ PacketSize \in Nat \ {0}
    /\ BufferSize < MaxSequence \div 2
    /\ First \in 0..(MaxSequence - 1)
    /\ {ServerSends, ClientSends, MaxInFlight, MaxFaults} \subseteq Nat

End == {"server", "client"}

Other(e) == IF e = "server" THEN "client" ELSE "server"

MaxSent(e) == IF e = "server" THEN ServerSends ELSE ClientSends

Number == 0..(MaxSequence - 1)

Chunk == [seq : Number, data : Nat]

Packet == [ack : Number, resend : BOOLEAN, taken : Nat, chunks : Seq(Chunk)]

VARIABLES
    sequence,   \* m_Sequence: the number of the last vital chunk queued
    ack,        \* m_Ack: the number of the last vital chunk taken
    peerAck,    \* m_PeerAck: what the peer acknowledged last
    buffer,     \* m_Buffer: the chunks kept for sending them again
    construct,  \* m_Construct: the chunks of the packet under construction
    resend,     \* the NET_PACKETFLAG_RESEND flag of m_Construct
    unpacker,   \* m_RecvUnpacker: the chunks still to fetch
    net,        \* the packets under way to an end, the oldest first
    faults,     \* how many packets the network has lost, repeated or let overtake
    sent,       \* how many vital chunks an end has queued
    received,   \* the chunks an end has handed over, in their order
    overflow    \* an end has queued a chunk without keeping it

outgoing == <<sequence, buffer, construct, resend, sent, overflow>>
network == <<net, faults>>
vars == <<ack, peerAck, unpacker, received, outgoing, network>>

Init ==
    /\ sequence = [e \in End |-> First]
    /\ ack = [e \in End |-> First]
    /\ peerAck = [e \in End |-> First]
    /\ buffer = [e \in End |-> <<>>]
    /\ construct = [e \in End |-> <<>>]
    /\ resend = [e \in End |-> FALSE]
    /\ unpacker = [e \in End |-> <<>>]
    /\ net = [e \in End |-> <<>>]
    /\ faults = 0
    /\ sent = [e \in End |-> 0]
    /\ received = [e \in End |-> <<>>]
    /\ overflow = [e \in End |-> FALSE]

-----------------------------------------------------------------------------
(* Sequence numbers *)

\* CNetBase::IsSeqInBackroom: "seq" is one of the half of the numbers that
\* end with "a".
InBackroom(seq, a) ==
    IF a < MaxSequence \div 2
    THEN seq <= a \/ seq >= a + MaxSequence - MaxSequence \div 2
    ELSE seq <= a /\ seq >= a - MaxSequence \div 2

\* A wrong version of AckChunks: the chunk after the one acknowledged goes too.
AckChunksOneMore(b, a) ==
    LET kept == {i \in 1..Len(b) : ~ InBackroom(b[i].seq, (a + 1) % MaxSequence)}
        from == IF kept = {} THEN Len(b) + 1 ELSE CHOOSE i \in kept : \A j \in kept : i <= j
    IN SubSeq(b, from, Len(b))

\* The chunks of the buffer that an acknowledgement leaves: AckChunks pops them
\* while they are in the half of the numbers that it closes.
AckChunks(b, a) ==
    LET kept == {i \in 1..Len(b) : ~ InBackroom(b[i].seq, a)}
        from == IF kept = {} THEN Len(b) + 1 ELSE CHOOSE i \in kept : \A j \in kept : i <= j
    IN SubSeq(b, from, Len(b))

\* A wrong version of ValidAck: it forgets that the numbers start again from zero.
ValidAckNoWrap(e, a) == a >= peerAck[e] /\ a <= sequence[e]

\* The test of Feed: the acknowledgement lies between the last one and the
\* number of the last chunk queued.
ValidAck(e, a) ==
    IF sequence[e] >= peerAck[e]
    THEN a >= peerAck[e] /\ a <= sequence[e]
    ELSE a >= peerAck[e] \/ a <= sequence[e]

-----------------------------------------------------------------------------
(* Sending *)

\* The packets of chunks "cs" filled one after the other, and the chunks that
\* stay in construction: QueueChunkEx flushes a packet when the next chunk does
\* not fit.
FullPackets(cs) == IF cs = <<>> THEN 0 ELSE (Len(cs) - 1) \div PacketSize

Remaining(cs) == SubSeq(cs, FullPackets(cs) * PacketSize + 1, Len(cs))

Flushed(e, cs) ==
    [i \in 1..FullPackets(cs) |->
        [ack |-> ack[e],
         resend |-> resend[e] /\ i = 1,
         taken |-> Len(received[e]),
         chunks |-> SubSeq(cs, (i - 1) * PacketSize + 1, i * PacketSize)]]

HasRoom(e) == Len(net[e]) < MaxInFlight

\* net_udp_send. Packets that would be more than MaxInFlight are lost.
Put(underWay, packets) ==
    LET all == underWay \o packets
    IN SubSeq(all, 1, Min({Len(all), MaxInFlight}))

\* CNetConnection::QueueChunkEx for chunks "cs", one after the other, by an
\* end that is ONLINE.
QueueChunkEx(e, cs) ==
    LET all == construct[e] \o cs IN
    /\ construct' = [construct EXCEPT ![e] = Remaining(all)]
    /\ resend' = [resend EXCEPT ![e] = @ /\ FullPackets(all) = 0]

\* A wrong version of QueueChunk: no look at the room in the buffer.
QueueChunkNoCheck(e) ==
    LET seq == (sequence[e] + 1) % MaxSequence
        chunk == [seq |-> seq, data |-> sent[e] + 1]
    IN
    /\ sent[e] < MaxSent(e)
    /\ sequence' = [sequence EXCEPT ![e] = seq]
    /\ sent' = [sent EXCEPT ![e] = @ + 1]
    /\ QueueChunkEx(e, <<chunk>>)
    /\ net' = [net EXCEPT ![Other(e)] = Put(@, Flushed(e, construct[e] \o <<chunk>>))]
    /\ buffer' = [buffer EXCEPT ![e] = Append(@, chunk)]
    /\ UNCHANGED <<ack, peerAck, unpacker, received, faults, overflow>>

\* CNetConnection::QueueChunk with NET_CHUNKFLAG_VITAL. A full buffer does
\* not stop the chunk: it is sent and not kept, and the caller
\* (CNetServer::Send) ignores the -1.
QueueChunk(e) ==
    LET seq == (sequence[e] + 1) % MaxSequence
        chunk == [seq |-> seq, data |-> sent[e] + 1]
        saved == Len(buffer[e]) < BufferSize
    IN
    /\ sent[e] < MaxSent(e)
    /\ sequence' = [sequence EXCEPT ![e] = seq]
    /\ sent' = [sent EXCEPT ![e] = @ + 1]
    /\ QueueChunkEx(e, <<chunk>>)
    /\ net' = [net EXCEPT ![Other(e)] =
                  Put(@, Flushed(e, construct[e] \o <<chunk>>))]
    /\ buffer' = [buffer EXCEPT ![e] = IF saved THEN Append(@, chunk) ELSE @]
    /\ overflow' = [overflow EXCEPT ![e] = @ \/ ~saved]
    /\ UNCHANGED <<ack, peerAck, unpacker, received, faults>>

\* CNetConnection::Flush, from a message sent with NETSENDFLAG_FLUSH or from
\* Update when nothing was sent for half a second.
Flush(e) ==
    /\ construct[e] # <<>> \/ resend[e]
    /\ HasRoom(Other(e))
    /\ net' = [net EXCEPT ![Other(e)] =
                  Append(@, [ack |-> ack[e], resend |-> resend[e],
                             taken |-> Len(received[e]), chunks |-> construct[e]])]
    /\ construct' = [construct EXCEPT ![e] = <<>>]
    /\ resend' = [resend EXCEPT ![e] = FALSE]
    /\ UNCHANGED <<sequence, ack, peerAck, buffer, unpacker, faults,
                   sent, received, overflow>>

\* A wrong version of ResendChunk: the last chunk that waits is forgotten.
ResendChunkNotLast(e) ==
    /\ unpacker[e] = <<>>
    /\ Len(buffer[e]) > 1
    /\ Head(buffer[e]) \notin Range(construct[e])
    /\ HasRoom(Other(e))
    /\ QueueChunkEx(e, <<Head(buffer[e])>>)
    /\ net' = [net EXCEPT ![Other(e)] =
                  Put(@, Flushed(e, construct[e] \o <<Head(buffer[e])>>))]
    /\ UNCHANGED <<sequence, ack, peerAck, buffer, unpacker, faults,
                   sent, received, overflow>>

\* Another one: the chunk goes out with the number of the last one queued.
ResendChunkRenumbered(e) ==
    LET chunk == [Head(buffer[e]) EXCEPT !.seq = sequence[e]] IN
    /\ unpacker[e] = <<>>
    /\ buffer[e] # <<>>
    /\ Head(buffer[e]) \notin Range(construct[e])
    /\ HasRoom(Other(e))
    /\ QueueChunkEx(e, <<chunk>>)
    /\ net' = [net EXCEPT ![Other(e)] = Put(@, Flushed(e, construct[e] \o <<chunk>>))]
    /\ UNCHANGED <<sequence, ack, peerAck, buffer, unpacker, faults,
                   sent, received, overflow>>

\* Update: the oldest chunk was sent a second ago and is not acknowledged. The
\* packet it was put into has left by then, since Update flushes after half a
\* second.
ResendChunk(e) ==
    /\ unpacker[e] = <<>>
    /\ buffer[e] # <<>>
    /\ Head(buffer[e]) \notin Range(construct[e])
    /\ HasRoom(Other(e))
    /\ QueueChunkEx(e, <<Head(buffer[e])>>)
    /\ net' = [net EXCEPT ![Other(e)] =
                  Put(@, Flushed(e, construct[e] \o <<Head(buffer[e])>>))]
    /\ UNCHANGED <<sequence, ack, peerAck, buffer, unpacker, faults,
                   sent, received, overflow>>

\* Update: nothing to flush and nothing sent for a second.
KeepAlive(e) ==
    /\ unpacker[e] = <<>>
    /\ construct[e] = <<>> /\ ~ resend[e]
    /\ HasRoom(Other(e))
    /\ net' = [net EXCEPT ![Other(e)] =
                  Append(@, [ack |-> ack[e], resend |-> FALSE,
                             taken |-> Len(received[e]), chunks |-> <<>>])]
    /\ UNCHANGED <<ack, peerAck, unpacker, received, outgoing, faults>>

-----------------------------------------------------------------------------
(* Receiving *)

\* CNetConnection::Feed of the i-th packet under way: it may overtake others, and
\* leave a copy behind. A resend that the packet asks for comes before its
\* acknowledgement takes chunks from the buffer.
Feed(e) ==
    \E i \in 1..Len(net[e]), repeated \in BOOLEAN :
      LET p == net[e][i]
          left == IF repeated THEN net[e] ELSE RemoveAt(net[e], i)
          valid == ValidAck(e, p.ack)
          again == IF valid /\ p.resend THEN buffer[e] ELSE <<>>
      IN
      /\ unpacker[e] = <<>>
      /\ faults' = faults + (IF i > 1 THEN 1 ELSE 0) + (IF repeated THEN 1 ELSE 0)
      /\ faults' <= MaxFaults
      /\ net' = [net EXCEPT ![e] = left,
                            ![Other(e)] = Put(@, Flushed(e, construct[e] \o again))]
      /\ QueueChunkEx(e, again)
      /\ IF valid
         THEN /\ peerAck' = [peerAck EXCEPT ![e] = p.ack]
              /\ buffer' = [buffer EXCEPT ![e] = AckChunks(@, p.ack)]
              /\ unpacker' = [unpacker EXCEPT ![e] = p.chunks]
         ELSE UNCHANGED <<peerAck, buffer, unpacker>>
      /\ UNCHANGED <<sequence, ack, sent, received, overflow>>

\* CNetRecvUnpacker::FetchChunk, one chunk of the loop: the next chunk of the
\* stream is taken and handed over, an old one is passed over, any other one
\* makes the next packet ask for a resend.
FetchChunk(e) ==
    LET chunk == Head(unpacker[e])
        next == chunk.seq = (ack[e] + 1) % MaxSequence
        old == InBackroom(chunk.seq, ack[e])
    IN
    /\ unpacker[e] # <<>>
    /\ unpacker' = [unpacker EXCEPT ![e] = Tail(@)]
    /\ ack' = [ack EXCEPT ![e] = IF next THEN chunk.seq ELSE @]
    /\ received' = [received EXCEPT ![e] = IF next THEN Append(@, chunk.data) ELSE @]
    /\ resend' = [resend EXCEPT ![e] = @ \/ (~next /\ ~old)]
    /\ UNCHANGED <<sequence, peerAck, buffer, construct, sent, overflow, network>>

\* The network loses a packet.
Lose(e) ==
    /\ faults < MaxFaults
    /\ \E i \in 1..Len(net[e]) : net' = [net EXCEPT ![e] = RemoveAt(@, i)]
    /\ faults' = faults + 1
    /\ UNCHANGED <<ack, peerAck, unpacker, received, outgoing>>

-----------------------------------------------------------------------------
EndNext(e) ==
    \/ QueueChunk(e) \/ Flush(e) \/ ResendChunk(e) \/ KeepAlive(e)
    \/ Feed(e) \/ FetchChunk(e)

Next == \E e \in End : EndNext(e) \/ Lose(e)

Spec == Init /\ [][Next]_vars

(***************************************************************************)
(* The main loops of both programs call Update, where the timers are, and  *)
(* take every packet that has arrived, again and again.  A timer that is   *)
(* due is due whether or not MaxInFlight lets a packet through: fairness   *)
(* of the timers is strong because that bound is not in the code.          *)
(***************************************************************************)
Fairness ==
    \A e \in End : /\ SF_vars(Flush(e)) /\ SF_vars(ResendChunk(e)) /\ SF_vars(KeepAlive(e))
                   /\ WF_vars(Feed(e)) /\ WF_vars(FetchChunk(e))

FairSpec == Spec /\ Fairness

-----------------------------------------------------------------------------
TypeOK ==
    /\ {sequence, ack, peerAck} \subseteq [End -> Number]
    /\ {buffer, construct, unpacker} \subseteq [End -> Seq(Chunk)]
    /\ {resend, overflow} \subseteq [End -> BOOLEAN]
    /\ net \in [End -> Seq(Packet)]
    /\ \A e \in End : /\ Len(buffer[e]) <= BufferSize /\ Len(construct[e]) <= PacketSize
                      /\ Len(net[e]) <= MaxInFlight
    /\ faults \in 0..MaxFaults
    /\ sent \in [End -> Nat]
    /\ received \in [End -> Seq(Nat)]

-----------------------------------------------------------------------------
(* Correctness *)

Stream == INSTANCE ReliableStream WITH
              sent <- sent["server"],
              received <- received["client"],
              overflow <- overflow["server"]

\* What the server queues, the client receives in order and once: the
\* sequence numbers, the acknowledgements, the resends and the unpacker of the
\* two ends implement a reliable stream over the unreliable network.
InOrderOnce == Stream!Spec

\* AckChunks never drops what may still be asked for: every chunk that the peer
\* has not taken is in the resend buffer, in order.
KeptUntilTaken ==
    \A e \in End : overflow[e] \/
        \A n \in (Len(received[Other(e)]) + 1)..sent[e] :
            \E i \in 1..Len(buffer[e]) : buffer[e][i].data = n

\* Feed drops a packet whose acknowledgement is not between the last one and
\* the last chunk queued, the chunks in it included. What the peer acknowledges
\* now is always there, also when the numbers start again from zero, and counts
\* what it has taken: neither end can stop listening to the other.
PeerHeard ==
    \A e \in End : overflow[e] \/
        /\ ValidAck(e, ack[Other(e)])
        /\ sent[e] - Len(received[Other(e)]) =
               (sequence[e] + MaxSequence - ack[Other(e)]) % MaxSequence

\* Every chunk the server queues and keeps arrives, whatever the network has
\* lost, repeated or let overtake before: the two ends never wait for each other.
Arrives == <>[](overflow["server"] \/ Len(received["client"]) = sent["server"])
=============================================================================
