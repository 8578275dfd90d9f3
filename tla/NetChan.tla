------------------------------- MODULE NetChan -------------------------------
(***************************************************************************)
(* The netchan of net_chan.c between one client and the server: numbered   *)
(* packets over UDP, one reliable message in flight per direction, carried *)
(* under an even/odd bit and acknowledged by every packet of the peer.     *)
(*                                                                         *)
(* Each field of netchan_t is a variable, a function of the endpoint.  A   *)
(* sequence of data stands for a buffer, one datum per byte: datum n is    *)
(* the n-th byte its endpoint wrote, svc_disconnect that of a drop and     *)
(* svc_print a line the server prints at a drop.  Unreliable payloads,     *)
(* rates and statistics are left out: no reliable datum depends on them,   *)
(* but that the rate may choke a reply.  The server's program is taken to  *)
(* write to the message itself; the back buffers in front of it, and the   *)
(* commands that clear it, are those of ClientReliable.                    *)
(***************************************************************************)
EXTENDS Integers, Sequences, FiniteSets

CONSTANTS MaxSize,       \* message.maxsize, in bytes
          BlockSizes,    \* bytes written by one MSG_Write*
          MaxWritten,    \* bound: bytes each endpoint writes
          MaxSeq,        \* bound: packet numbers each endpoint uses
          MaxInFlight,   \* bound: packets of one direction in flight
          MaxFaults      \* bound: lost, repeated and overtaken packets, chokes,
                         \* packets not sent and unsolicited replies, together

ASSUME NetChanAssumption ==
    /\ MaxSize \in Nat \ {0}
    /\ BlockSizes \subseteq 1 .. MaxSize
    /\ MaxWritten \in Nat /\ MaxSeq \in Nat
    /\ MaxInFlight \in Nat /\ MaxFaults \in Nat

Ends == {"NS_CLIENT", "NS_SERVER"}
Peer(e) == IF e = "NS_CLIENT" THEN "NS_SERVER" ELSE "NS_CLIENT"

PACKET_HEADER == 8
(* The bytes Netchan_Transmit writes before the reliable message: a client *)
(* adds its qport to the two sequence words.                               *)
HeaderSize(e) == IF e = "NS_CLIENT" THEN PACKET_HEADER + 2 ELSE PACKET_HEADER
(* The size given to the buffer a packet is assembled in.                  *)
SendSize == MaxSize + PACKET_HEADER

svc_disconnect == 0
svc_print == -1

VARIABLES
    outgoing_sequence, incoming_sequence, incoming_acknowledged,
    incoming_reliable_acknowledged, incoming_reliable_sequence,
    reliable_sequence, last_reliable_sequence,
    message,        \* message_buf: written, not yet part of a packet
    overflowed,     \* message.overflowed
    reliable_buf,   \* the reliable message in flight, empty when reliable_length = 0
    send_message,   \* the server owes the client a reply (client_t)
    dropped,        \* the server has dropped the client for its overflow
    dropcount,      \* packets the client has left out in a row (CL_SendCmd)
    sys_error,      \* the program at this end has stopped in Sys_Error
    net,            \* net[e]: packets of e in flight
    faults,         \* faults so far
    written,        \* history: bytes written
    staged,         \* history: everything that has entered reliable_buf
    delivered       \* history: reliable payloads handed to the program

chan == <<outgoing_sequence, incoming_sequence, incoming_acknowledged,
          incoming_reliable_acknowledged, incoming_reliable_sequence,
          reliable_sequence, last_reliable_sequence>>
buffers == <<message, overflowed, reliable_buf>>
program == <<send_message, dropped, dropcount, sys_error>>
history == <<written, staged, delivered>>
vars == <<chan, buffers, program, net, faults, history>>

-----------------------------------------------------------------------------
Bytes == {svc_print, svc_disconnect} \cup 1 .. MaxWritten

(* A packet: both sequence words with their top bits, and the payload.     *)
Packets ==
    [seq : 0 .. MaxSeq, rel : BOOLEAN, ack : 0 .. MaxSeq, relack : {0, 1},
     data : Seq(Bytes)]

ChanTypeOK ==
    /\ outgoing_sequence \in [Ends -> 0 .. MaxSeq]
    /\ incoming_sequence \in [Ends -> 0 .. MaxSeq]
    /\ incoming_acknowledged \in [Ends -> 0 .. MaxSeq]
    /\ incoming_reliable_acknowledged \in [Ends -> {0, 1}]
    /\ incoming_reliable_sequence \in [Ends -> {0, 1}]
    /\ reliable_sequence \in [Ends -> {0, 1}]
    /\ last_reliable_sequence \in [Ends -> 0 .. MaxSeq]

BuffersTypeOK ==
    /\ message \in [Ends -> Seq(Bytes)]
    /\ overflowed \in [Ends -> BOOLEAN]
    /\ reliable_buf \in [Ends -> Seq(Bytes)]

ProgramTypeOK ==
    /\ send_message \in BOOLEAN
    /\ dropped \in BOOLEAN
    /\ dropcount \in 0 .. 2
    /\ sys_error \in [Ends -> BOOLEAN]

NetworkTypeOK ==
    /\ net \in [Ends -> SUBSET Packets]
    /\ faults \in 0 .. MaxFaults

HistoryTypeOK ==
    /\ written \in [Ends -> 0 .. MaxWritten]
    /\ staged \in [Ends -> Seq(Bytes)]
    /\ delivered \in [Ends -> Seq(Bytes)]

TypeOK == ChanTypeOK /\ BuffersTypeOK /\ ProgramTypeOK /\ NetworkTypeOK /\ HistoryTypeOK

(* Netchan_Setup at both ends.                                             *)
Init ==
    /\ outgoing_sequence = [e \in Ends |-> 0]
    /\ incoming_sequence = [e \in Ends |-> 0]
    /\ incoming_acknowledged = [e \in Ends |-> 0]
    /\ incoming_reliable_acknowledged = [e \in Ends |-> 0]
    /\ incoming_reliable_sequence = [e \in Ends |-> 0]
    /\ reliable_sequence = [e \in Ends |-> 0]
    /\ last_reliable_sequence = [e \in Ends |-> 0]
    /\ message = [e \in Ends |-> <<>>]
    /\ overflowed = [e \in Ends |-> FALSE]
    /\ reliable_buf = [e \in Ends |-> <<>>]
    /\ send_message = FALSE
    /\ dropped = FALSE
    /\ dropcount = 0
    /\ sys_error = [e \in Ends |-> FALSE]
    /\ net = [e \in Ends |-> {}]
    /\ faults = 0
    /\ written = [e \in Ends |-> 0]
    /\ staged = [e \in Ends |-> <<>>]
    /\ delivered = [e \in Ends |-> <<>>]

-----------------------------------------------------------------------------
(* k faults more, within the bound.                                        *)
Disturb(k) == faults' = faults + k /\ faults + k <= MaxFaults

(* MSG_Write* on netchan.message: SZ_GetSpace empties the buffer and marks *)
(* it overflowed when the block does not fit.                              *)
Write(e, n) ==
    LET block == [i \in 1 .. n |-> written[e] + i]
        fits  == Len(message[e]) + n <= MaxSize
    IN  /\ ~sys_error[e]
        /\ written[e] + n <= MaxWritten
        /\ written' = [written EXCEPT ![e] = @ + n]
        /\ message' = [message EXCEPT ![e] = IF fits THEN @ \o block ELSE block]
        /\ overflowed' = [overflowed EXCEPT ![e] = @ \/ ~fits]
        /\ UNCHANGED <<chan, reliable_buf, program, net, faults, staged, delivered>>

-----------------------------------------------------------------------------
(* Mutants: the acknowledged number is not looked at, and the bit is       *)
(* compared the wrong way round.                                           *)
RemoteDropped_AnyAck(e) == incoming_reliable_acknowledged[e] # reliable_sequence[e]
RemoteDropped_WrongBit(e) ==
    /\ incoming_acknowledged[e] > last_reliable_sequence[e]
    /\ incoming_reliable_acknowledged[e] = reliable_sequence[e]

(* The peer has acknowledged a packet later than the one that carried the  *)
(* reliable message, and its even/odd bit says the message did not arrive. *)
RemoteDropped(e) ==
    /\ incoming_acknowledged[e] > last_reliable_sequence[e]
    /\ incoming_reliable_acknowledged[e] # reliable_sequence[e]

(* Netchan_Transmit of e whose message buffer holds queued.                *)
Netchan_Transmit(e, queued) ==
    LET fresh == reliable_buf[e] = <<>> /\ queued # <<>>
        send_reliable == fresh \/ RemoteDropped(e)
        buf == IF fresh THEN queued ELSE reliable_buf[e]
        packet == [seq    |-> outgoing_sequence[e],
                   rel    |-> send_reliable,
                   ack    |-> incoming_sequence[e],
                   relack |-> incoming_reliable_sequence[e],
                   data   |-> IF send_reliable THEN buf ELSE <<>>]
        too_long == HeaderSize(e) + Len(packet.data) > SendSize
    IN  /\ outgoing_sequence[e] < MaxSeq
        /\ Cardinality(net[e]) < MaxInFlight
        /\ message' = [message EXCEPT ![e] = IF fresh THEN <<>> ELSE queued]
        /\ reliable_buf' = [reliable_buf EXCEPT ![e] = buf]
        /\ staged' = [staged EXCEPT ![e] = IF fresh THEN @ \o queued ELSE @]
        /\ reliable_sequence' = [reliable_sequence EXCEPT ![e] = IF fresh THEN 1 - @ ELSE @]
        /\ outgoing_sequence' = [outgoing_sequence EXCEPT ![e] = @ + 1]
        /\ IF too_long
           THEN /\ sys_error' = [sys_error EXCEPT ![e] = TRUE]
                /\ UNCHANGED <<last_reliable_sequence, net>>
           ELSE /\ last_reliable_sequence' = [last_reliable_sequence EXCEPT
                       ![e] = IF send_reliable THEN outgoing_sequence'[e] ELSE @]
                /\ net' = [net EXCEPT ![e] = @ \cup {packet}]
                /\ UNCHANGED sys_error
        /\ UNCHANGED <<incoming_sequence, incoming_acknowledged,
                       incoming_reliable_acknowledged, incoming_reliable_sequence,
                       written, delivered>>

(* CL_SendCmd, once per client frame.  An overflowed channel only sets     *)
(* fatal_error, which nothing reads: the client falls silent.              *)
CL_SendCmd ==
    /\ ~sys_error["NS_CLIENT"]
    /\ ~overflowed["NS_CLIENT"]
    /\ Netchan_Transmit("NS_CLIENT", message["NS_CLIENT"])
    /\ dropcount' = 0
    /\ UNCHANGED <<overflowed, send_message, dropped, faults>>

(* CL_SendCmd under cl_c2spps: the packet is numbered but not sent, never  *)
(* more than twice in a row.                                               *)
CL_DropCmd ==
    /\ ~sys_error["NS_CLIENT"]
    /\ dropcount < 2
    /\ outgoing_sequence["NS_CLIENT"] < MaxSeq
    /\ Disturb(1)
    /\ dropcount' = dropcount + 1
    /\ outgoing_sequence' = [outgoing_sequence EXCEPT !["NS_CLIENT"] = @ + 1]
    /\ UNCHANGED <<incoming_sequence, incoming_acknowledged,
                   incoming_reliable_acknowledged, incoming_reliable_sequence,
                   reliable_sequence, last_reliable_sequence, buffers,
                   send_message, dropped, sys_error, net, history>>

(* Mutant: the overflow is not looked at before the message is sent.       *)
SV_SendClientMessages_NoDrop ==
    /\ send_message
    /\ send_message' = FALSE
    /\ Netchan_Transmit("NS_SERVER", message["NS_SERVER"])
    /\ UNCHANGED <<overflowed, dropped, dropcount, faults>>

(* A line printed to the client, which goes to q if it fits there, as      *)
(* ClientReliableWrite_Begin has it, and to a back buffer otherwise.       *)
Printed(q, prints) == IF prints /\ Len(q) + 1 < MaxSize THEN Append(q, svc_print) ELSE q

(* What a client is told whose buffer has overflowed: that it did, if it   *)
(* has connected (SV_BroadcastPrintf), that it is dropped, and what the    *)
(* game has to say to this if it has spawned (SV_DropClient).              *)
Farewell(notice, parting) == Printed(Append(Printed(<<>>, notice), svc_disconnect), parting)

(* SV_SendClientMessages for this client: one that has overflowed is       *)
(* dropped, with the farewell in the emptied buffer; then the reply, if    *)
(* owed, is sent unless the rate chokes it.                                *)
SV_SendClientMessages ==
    LET s == "NS_SERVER"
        overflow == overflowed[s]
    IN  /\ overflow \/ send_message
        /\ send_message' = FALSE
        /\ overflowed' = [overflowed EXCEPT ![s] = FALSE]
        /\ dropped' = (dropped \/ overflow)
        /\ \E notice, parting \in BOOLEAN :
              Netchan_Transmit(s, IF overflow THEN Farewell(notice, parting) ELSE message[s])
        /\ UNCHANGED <<dropcount, faults>>

SV_ChokeClient ==
    /\ send_message
    /\ ~overflowed["NS_SERVER"]
    /\ Disturb(1)
    /\ send_message' = FALSE
    /\ UNCHANGED <<chan, buffers, dropped, dropcount, sys_error, net, history>>

(* SV_SendMessagesToAll: a reply to every client, asked for or not; the    *)
(* same call goes on to SV_SendClientMessages.                             *)
SV_SendMessagesToAll ==
    /\ ~send_message
    /\ ~overflowed["NS_SERVER"]
    /\ ~dropped
    /\ Disturb(1)
    /\ Netchan_Transmit("NS_SERVER", message["NS_SERVER"])
    /\ UNCHANGED <<overflowed, send_message, dropped, dropcount>>

-----------------------------------------------------------------------------
Oldest(e, m) == \A n \in net[e] : m.seq <= n.seq

(* Mutant: a newer acknowledgement alone frees the reliable buffer.        *)
Netchan_Process_AckFrees(e, m) ==
    /\ reliable_buf' = [reliable_buf EXCEPT
           ![e] = IF m.ack >= last_reliable_sequence[e] THEN <<>> ELSE @]
    /\ incoming_sequence' = [incoming_sequence EXCEPT ![e] = m.seq]
    /\ incoming_acknowledged' = [incoming_acknowledged EXCEPT ![e] = m.ack]
    /\ incoming_reliable_acknowledged' = [incoming_reliable_acknowledged EXCEPT ![e] = m.relack]
    /\ incoming_reliable_sequence' = [incoming_reliable_sequence EXCEPT
           ![e] = IF m.rel THEN 1 - @ ELSE @]
    /\ delivered' = [delivered EXCEPT ![e] = @ \o m.data]
    /\ UNCHANGED <<reliable_sequence, last_reliable_sequence, message, overflowed,
                   written, staged>>

(* Netchan_Process of packet m at endpoint e, for a packet that is not     *)
(* stale.                                                                  *)
Netchan_Process(e, m) ==
    /\ reliable_buf' = [reliable_buf EXCEPT
           ![e] = IF m.relack = reliable_sequence[e] THEN <<>> ELSE @]
    /\ incoming_sequence' = [incoming_sequence EXCEPT ![e] = m.seq]
    /\ incoming_acknowledged' = [incoming_acknowledged EXCEPT ![e] = m.ack]
    /\ incoming_reliable_acknowledged' = [incoming_reliable_acknowledged EXCEPT ![e] = m.relack]
    /\ incoming_reliable_sequence' = [incoming_reliable_sequence EXCEPT
           ![e] = IF m.rel THEN 1 - @ ELSE @]
    /\ delivered' = [delivered EXCEPT ![e] = @ \o m.data]
    /\ UNCHANGED <<reliable_sequence, last_reliable_sequence, message, overflowed,
                   written, staged>>

(* The reply takes the number of the packet it answers, unless packets the *)
(* client did not ask for have put the server ahead.                       *)
SV_ExecuteClientMessage(m) ==
    LET s == "NS_SERVER"
    IN  IF m.seq >= outgoing_sequence[s]
        THEN /\ outgoing_sequence' = [outgoing_sequence EXCEPT ![s] = m.seq]
             /\ send_message' = TRUE
        ELSE /\ send_message' = FALSE
             /\ UNCHANGED outgoing_sequence

(* Mutant: a packet with the number of the last one is not stale.          *)
ReadPacket_Repeats(e, m, copy) ==
    /\ ~sys_error[e]
    /\ Disturb((IF Oldest(Peer(e), m) THEN 0 ELSE 1) + (IF copy THEN 1 ELSE 0))
    /\ net' = IF copy THEN net ELSE [net EXCEPT ![Peer(e)] = @ \ {m}]
    /\ IF m.seq < incoming_sequence[e]
       THEN UNCHANGED <<chan, buffers, send_message, history>>
       ELSE /\ Netchan_Process(e, m)
            /\ IF e = "NS_SERVER"
               THEN SV_ExecuteClientMessage(m)
               ELSE UNCHANGED <<outgoing_sequence, send_message>>
    /\ UNCHANGED <<dropped, dropcount, sys_error>>

(* One datagram read at e.  Reading it out of order, and leaving a copy of *)
(* it in flight, are faults of the network.                                *)
ReadPacket(e, m, copy) ==
    /\ ~sys_error[e]
    /\ Disturb((IF Oldest(Peer(e), m) THEN 0 ELSE 1) + (IF copy THEN 1 ELSE 0))
    /\ net' = IF copy THEN net ELSE [net EXCEPT ![Peer(e)] = @ \ {m}]
    /\ IF m.seq <= incoming_sequence[e]
       THEN UNCHANGED <<chan, buffers, send_message, history>>
       ELSE /\ Netchan_Process(e, m)
            /\ IF e = "NS_SERVER"
               THEN SV_ExecuteClientMessage(m)
               ELSE UNCHANGED <<outgoing_sequence, send_message>>
    /\ UNCHANGED <<dropped, dropcount, sys_error>>

(* The network loses a packet.                                             *)
Lose(e, m) ==
    /\ Disturb(1)
    /\ net' = [net EXCEPT ![e] = @ \ {m}]
    /\ UNCHANGED <<chan, buffers, program, history>>

-----------------------------------------------------------------------------
CL_ReadPackets == \E m \in net["NS_SERVER"], copy \in BOOLEAN : ReadPacket("NS_CLIENT", m, copy)
SV_ReadPackets == \E m \in net["NS_CLIENT"], copy \in BOOLEAN : ReadPacket("NS_SERVER", m, copy)

Next ==
    \/ \E e \in Ends, n \in BlockSizes : Write(e, n)
    \/ CL_SendCmd
    \/ CL_DropCmd
    \/ SV_SendClientMessages
    \/ SV_ChokeClient
    \/ SV_SendMessagesToAll
    \/ CL_ReadPackets
    \/ SV_ReadPackets
    \/ \E e \in Ends : \E m \in net[e] : Lose(e, m)

Spec == Init /\ [][Next]_vars

-----------------------------------------------------------------------------
(* What e has put in flight and the peer has not been given.  The bits     *)
(* differ exactly while the peer lacks the message.                        *)
Pending(e) ==
    IF incoming_reliable_sequence[Peer(e)] # reliable_sequence[e]
    THEN reliable_buf[e] ELSE <<>>

(* Every reliable message the sender has put in flight has been given to   *)
(* the peer's program exactly once and in order, but for the one still in  *)
(* reliable_buf; the sender has not let go of that one.                    *)
ExactlyOnce == \A e \in Ends : staged[e] = delivered[Peer(e)] \o Pending(e)

(* The peer of e has the current reliable message of e.                    *)
Received(e) == incoming_reliable_sequence[Peer(e)] = reliable_sequence[e]

(* Packet m of e can still be processed by the peer.                       *)
Acceptable(e, m) == m.seq > incoming_sequence[Peer(e)]

(* Numbers never run ahead: of what was sent, or of what was read.         *)
NumbersInv(e) ==
    /\ incoming_sequence[Peer(e)] <= outgoing_sequence[e]
    /\ incoming_acknowledged[e] <= incoming_sequence[Peer(e)]
    /\ \A m \in net[e] : /\ m.seq < outgoing_sequence[e]
                         /\ m.ack <= incoming_sequence[e]

(* A reliable packet the peer can still process is the last one that e     *)
(* sent, carries the message the peer lacks, and so is alone.              *)
ReliableInv(e) ==
    \A m \in net[e] :
       /\ m.rel /\ Acceptable(e, m) => /\ ~Received(e)
                                  /\ m.data = reliable_buf[e]
                                  /\ m.seq + 1 = last_reliable_sequence[e]
       /\ ~m.rel => m.data = <<>>

(* The even/odd bit of an answer e can still process tells the truth: it   *)
(* is only right once the peer has the message, it stays right, and it is  *)
(* wrong above the last reliable packet only if the message was dropped.   *)
AckInv(e) ==
    LET p == Peer(e)
        right(k) == k.relack = reliable_sequence[e]
    IN  /\ reliable_buf[e] = <<>> => Received(e)
        /\ \A k \in net[p] : Acceptable(p, k) =>
              /\ right(k) => Received(e)
              /\ reliable_buf[e] = <<>> => right(k)
              /\ k.ack >= last_reliable_sequence[e] /\ ~right(k) => ~Received(e)
              /\ \A l \in net[p] : k.seq <= l.seq /\ right(k) => right(l)
        /\ incoming_acknowledged[e] >= last_reliable_sequence[e]
             /\ incoming_reliable_acknowledged[e] # reliable_sequence[e] => ~Received(e)

ChannelInv == \A e \in Ends : NumbersInv(e) /\ ReliableInv(e) /\ AckInv(e)

(* The types, and what the two ends and the packets in flight know of each *)
(* other (Netchan_Transmit, Netchan_Process).                              *)
NetChanInv == TypeOK /\ ChannelInv

(* What was written, from the first byte on.                               *)
Plain(s) == \A i \in 1 .. Len(s) : s[i] = i

(* ... and then a gap, with the disconnect right behind it or the notice   *)
(* of the overflow and the disconnect.                                     *)
Told(s) ==
    \E g \in 0 .. Len(s) - 1 :
       /\ \A i \in 1 .. g : s[i] = i
       /\ \/ s[g + 1] = svc_disconnect
          \/ s[g + 1] = svc_print /\ g + 2 <= Len(s) /\ s[g + 2] = svc_disconnect

(* No byte is skipped unnoticed: what the peer's program reads is what was *)
(* written, from the first byte on, and behind a gap that an overflow made *)
(* the client reads nothing but the notice of it before it is disconnected *)
(* (SZ_GetSpace, SV_SendClientMessages).                                   *)
NoSilentGap ==
    \A e \in Ends : Plain(delivered[e]) \/ (e = "NS_CLIENT" /\ Told(delivered[e]))

(* A retransmission is never for nothing: whenever the sender concludes    *)
(* that its message was dropped, the peer does lack it.                    *)
NoSpuriousResend ==
    [][\A e \in Ends :
         (outgoing_sequence'[e] # outgoing_sequence[e] /\ last_reliable_sequence'[e] # last_reliable_sequence[e]
            /\ reliable_sequence'[e] = reliable_sequence[e])
         => incoming_reliable_sequence[Peer(e)] # reliable_sequence[e]]_vars

(* The packet the client assembles always fits its send buffer, so that it *)
(* never stops in SZ_GetSpace.                                             *)
NoSendOverflow == ~sys_error["NS_CLIENT"]

(* The abstract stream that the channel implements: what is staged and     *)
(* what is queued behind it, unless an overflow has emptied the queue.     *)
Stream == INSTANCE ReliableStream WITH
    Endpoints <- Ends,
    Other <- [e \in Ends |-> Peer(e)],
    Data <- Bytes,
    sent <- [e \in Ends |-> staged[e] \o (IF overflowed[e] THEN <<>> ELSE message[e])],
    rcvd <- delivered

ImplementsStream == Stream!StreamSpec
=============================================================================
