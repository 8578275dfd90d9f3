---------------------------- MODULE NetChanProofs ----------------------------
(***************************************************************************)
(* Theorems about NetChan for every buffer size, set of block sizes and    *)
(* bound: the types, the inductive invariant of the channel, and what it   *)
(* is for, that a reliable message is delivered exactly once and in order  *)
(* (net_chan.c).                                                           *)
(***************************************************************************)
EXTENDS NetChan, TLAPS, SequenceTheorems

(* What a sequence is with one element more.                               *)
LEMMA AppendFacts ==
    ASSUME NEW S, NEW s \in Seq(S), NEW x \in S
    PROVE  /\ Append(s, x) \in Seq(S) /\ Len(Append(s, x)) = Len(s) + 1 /\ Len(s) \in Nat
           /\ Append(s, x)[Len(s) + 1] = x
           /\ \A i \in 1 .. Len(s) : Append(s, x)[i] = s[i]
OBVIOUS

(* A farewell is a disconnect, with or without a notice in front of it.    *)
LEMMA FarewellFacts ==
    ASSUME NEW notice \in BOOLEAN, NEW parting \in BOOLEAN, NEW q,
           q = Farewell(notice, parting)
    PROVE  /\ q \in Seq(Bytes) /\ Len(q) \in Nat /\ Len(q) >= 1
           /\ q[1] = svc_disconnect
              \/ (q[1] = svc_print /\ 2 <= Len(q) /\ q[2] = svc_disconnect)
<1> DEFINE a == Printed(<<>>, notice)
           b == Append(a, svc_disconnect)
<1>1. svc_print \in Bytes /\ svc_disconnect \in Bytes
  BY DEF Bytes
<1>2. a = <<>> \/ a = Append(<<>>, svc_print)
  BY DEF Printed
<1> HIDE DEF a
<1>3. /\ b \in Seq(Bytes) /\ Len(b) \in Nat /\ Len(b) >= 1
      /\ b[1] = svc_disconnect
         \/ (b[1] = svc_print /\ 2 <= Len(b) /\ b[2] = svc_disconnect)
  <2>0. a \in Seq(Bytes)
    <3>1. <<>> \in Seq(Bytes)
      OBVIOUS
    <3>2. Append(<<>>, svc_print) \in Seq(Bytes)
      BY <1>1, <3>1, AppendFacts
    <3> QED BY <1>2, <3>1, <3>2
  <2>1. /\ b \in Seq(Bytes) /\ Len(b) = Len(a) + 1 /\ Len(a) \in Nat
        /\ b[Len(a) + 1] = svc_disconnect /\ \A i \in 1 .. Len(a) : b[i] = a[i]
    BY <1>1, <2>0, AppendFacts
  <2>2. Len(a) = 0 \/ (Len(a) = 1 /\ a[1] = svc_print)
    <3>1. /\ Len(Append(<<>>, svc_print)) = Len(<<>>) + 1
          /\ Append(<<>>, svc_print)[Len(<<>>) + 1] = svc_print
      BY <1>1, AppendFacts
    <3> QED BY <1>2, <3>1
  <2> HIDE DEF b
  <2> QED BY <2>1, <2>2
<1> HIDE DEF b
<1>4. q = b \/ q = Append(b, svc_print)
  BY DEF Farewell, Printed, a, b
<1> QED BY <1>1, <1>3, <1>4, AppendFacts

(* Netchan_Transmit keeps the types of what it changes.                    *)
LEMMA TransmitType ==
    ASSUME TypeOK, NEW e \in Ends, NEW queued \in Seq(Bytes), Netchan_Transmit(e, queued)
    PROVE  /\ ChanTypeOK'
           /\ message' \in [Ends -> Seq(Bytes)]
           /\ reliable_buf' \in [Ends -> Seq(Bytes)]
           /\ sys_error' \in [Ends -> BOOLEAN]
           /\ net' \in [Ends -> SUBSET Packets]
           /\ HistoryTypeOK'
<1> USE NetChanAssumption
<1> DEFINE fresh == reliable_buf[e] = <<>> /\ queued # <<>>
           rel == fresh \/ RemoteDropped(e)
           buf == IF fresh THEN queued ELSE reliable_buf[e]
           packet == [seq    |-> outgoing_sequence[e],
                   rel    |-> rel,
                   ack    |-> incoming_sequence[e],
                   relack |-> incoming_reliable_sequence[e],
                   data   |-> IF rel THEN buf ELSE <<>>]
<1>1. buf \in Seq(Bytes)
  BY DEF TypeOK, BuffersTypeOK
<1>2. packet \in Packets
  <2>1. rel \in BOOLEAN
    BY DEF RemoteDropped
  <2>2. (IF rel THEN buf ELSE <<>>) \in Seq(Bytes)
    BY <1>1
  <2> HIDE DEF rel, buf
  <2> QED BY <2>1, <2>2 DEF Packets, Bytes, TypeOK, ChanTypeOK
<1>3. net' = net \/ net' = [net EXCEPT ![e] = @ \cup {packet}]
  BY DEF Netchan_Transmit
<1>4. net' \in [Ends -> SUBSET Packets]
  <2> HIDE DEF packet
  <2> QED BY <1>2, <1>3 DEF TypeOK, NetworkTypeOK
<1>5. outgoing_sequence' \in [Ends -> 0 .. MaxSeq]
  BY DEF Netchan_Transmit, TypeOK, ChanTypeOK
<1>6. last_reliable_sequence' \in [Ends -> 0 .. MaxSeq]
  BY <1>5 DEF Netchan_Transmit, TypeOK, ChanTypeOK
<1>7. reliable_sequence' \in [Ends -> {0, 1}]
  BY DEF Netchan_Transmit, TypeOK, ChanTypeOK
<1>8. ChanTypeOK'
  BY <1>5, <1>6, <1>7 DEF Netchan_Transmit, TypeOK, ChanTypeOK
<1>9. message' \in [Ends -> Seq(Bytes)] /\ reliable_buf' \in [Ends -> Seq(Bytes)]
  BY DEF Netchan_Transmit, TypeOK, BuffersTypeOK
<1>10. sys_error' \in [Ends -> BOOLEAN]
  BY DEF Netchan_Transmit, TypeOK, ProgramTypeOK
<1>11. HistoryTypeOK'
  <2>1. staged' \in [Ends -> Seq(Bytes)]
    BY DEF Netchan_Transmit, TypeOK, HistoryTypeOK
  <2> QED BY <2>1 DEF Netchan_Transmit, TypeOK, HistoryTypeOK
<1>12. QED
  BY <1>4, <1>8, <1>9, <1>10, <1>11

(* Every variable of the channel keeps its type: numbers stay in their     *)
(* range, the two bits stay bits, buffers and packets hold bytes.          *)
THEOREM TypeCorrect == Spec => []TypeOK
<1>1. Init => TypeOK
  <2> SUFFICES ASSUME Init PROVE TypeOK
    OBVIOUS
  <2>1. ChanTypeOK
    BY NetChanAssumption DEF Init, ChanTypeOK
  <2>2. BuffersTypeOK
    BY DEF Init, BuffersTypeOK
  <2>4. ProgramTypeOK
    <3>1. sys_error \in [Ends -> BOOLEAN] /\ dropcount \in 0 .. 2
      BY DEF Init
    <3>2. send_message \in BOOLEAN /\ dropped \in BOOLEAN
      BY DEF Init
    <3> QED BY <3>1, <3>2 DEF ProgramTypeOK
  <2>3. NetworkTypeOK /\ HistoryTypeOK
    BY NetChanAssumption DEF Init, NetworkTypeOK, HistoryTypeOK
  <2> QED BY <2>1, <2>2, <2>3, <2>4 DEF TypeOK
<1>2. TypeOK /\ [Next]_vars => TypeOK'
  <2> SUFFICES ASSUME TypeOK, [Next]_vars PROVE TypeOK'
    OBVIOUS
  <2> USE NetChanAssumption
  <2>0. (\E k \in {0, 1, 2} : Disturb(k)) => faults' \in 0 .. MaxFaults
    BY DEF Disturb, TypeOK, NetworkTypeOK
  <2>1. ASSUME NEW e \in Ends, NEW n \in BlockSizes, Write(e, n) PROVE TypeOK'
    <3> DEFINE block == [i \in 1 .. n |-> written[e] + i]
    <3>0. n \in Nat /\ written[e] \in Nat /\ written[e] + n <= MaxWritten
      BY <2>1 DEF Write, TypeOK, HistoryTypeOK
    <3>1. block \in Seq(Bytes)
      BY <3>0 DEF Bytes
    <3>2. HistoryTypeOK'
      BY <3>0, <2>1 DEF Write, TypeOK, HistoryTypeOK
    <3>3. message' \in [Ends -> Seq(Bytes)]
      <4>1. message' = [message EXCEPT ![e] = @ \o block] \/ message' = [message EXCEPT ![e] = block]
        BY <2>1 DEF Write
      <4>2. message \in [Ends -> Seq(Bytes)] /\ message[e] \in Seq(Bytes)
        BY DEF TypeOK, BuffersTypeOK
      <4> HIDE DEF block
      <4>3. message[e] \o block \in Seq(Bytes)
        BY <3>1, <4>2
      <4> QED BY <3>1, <4>1, <4>2, <4>3
    <3>4. BuffersTypeOK'
      BY <3>3, <2>1 DEF Write, TypeOK, BuffersTypeOK
    <3>5. ChanTypeOK' /\ ProgramTypeOK' /\ NetworkTypeOK'
      <4>1. UNCHANGED <<chan, program, net, faults>>
        BY <2>1 DEF Write
      <4> QED BY <4>1 DEF chan, program, TypeOK, ChanTypeOK, ProgramTypeOK, NetworkTypeOK
    <3> QED BY <3>2, <3>4, <3>5 DEF TypeOK
  <2>2. CASE CL_SendCmd
    <3>1. message["NS_CLIENT"] \in Seq(Bytes)
      BY DEF Ends, TypeOK, BuffersTypeOK
    <3>2. "NS_CLIENT" \in Ends /\ Netchan_Transmit("NS_CLIENT", message["NS_CLIENT"])
      BY <2>2 DEF CL_SendCmd, Ends
    <3> QED BY <2>2, <3>1, <3>2, TransmitType
        DEF CL_SendCmd, TypeOK, BuffersTypeOK, ProgramTypeOK, NetworkTypeOK
  <2>3. CASE CL_DropCmd
    <3>1. outgoing_sequence' \in [Ends -> 0 .. MaxSeq]
      BY <2>3 DEF CL_DropCmd, TypeOK, ChanTypeOK, Ends
    <3>2. ChanTypeOK'
      BY <2>3, <3>1 DEF CL_DropCmd, TypeOK, ChanTypeOK
    <3>3. BuffersTypeOK' /\ HistoryTypeOK'
      BY <2>3 DEF CL_DropCmd, TypeOK, BuffersTypeOK, HistoryTypeOK, buffers, history
    <3>4. ProgramTypeOK'
      BY <2>3 DEF CL_DropCmd, TypeOK, ProgramTypeOK
    <3>5. NetworkTypeOK'
      BY <2>0, <2>3 DEF CL_DropCmd, TypeOK, NetworkTypeOK
    <3> QED BY <3>2, <3>3, <3>4, <3>5 DEF TypeOK
  <2>4. CASE SV_SendClientMessages
    <3>1. message["NS_SERVER"] \in Seq(Bytes)
      BY DEF Ends, TypeOK, BuffersTypeOK
    <3>2. PICK q \in Seq(Bytes) : Netchan_Transmit("NS_SERVER", q)
      BY <2>4, <3>1, FarewellFacts DEF SV_SendClientMessages
    <3>3. "NS_SERVER" \in Ends
      BY DEF Ends
    <3>4. overflowed' \in [Ends -> BOOLEAN] /\ send_message' \in BOOLEAN /\ dropped' \in BOOLEAN
      BY <2>4 DEF SV_SendClientMessages, TypeOK, BuffersTypeOK, ProgramTypeOK
    <3> QED BY <2>4, <3>2, <3>3, <3>4, TransmitType
        DEF SV_SendClientMessages, TypeOK, BuffersTypeOK, ProgramTypeOK, NetworkTypeOK
  <2>5. CASE SV_ChokeClient
    <3>1. NetworkTypeOK'
      BY <2>0, <2>5 DEF SV_ChokeClient, TypeOK, NetworkTypeOK
    <3> QED BY <2>5, <3>1 DEF SV_ChokeClient, buffers, history, chan, TypeOK,
          ChanTypeOK, BuffersTypeOK, ProgramTypeOK, HistoryTypeOK
  <2>6. CASE SV_SendMessagesToAll
    <3>1. message["NS_SERVER"] \in Seq(Bytes) /\ "NS_SERVER" \in Ends
      BY DEF Ends, TypeOK, BuffersTypeOK
    <3> QED BY <2>0, <2>6, <3>1, TransmitType
        DEF SV_SendMessagesToAll, TypeOK, BuffersTypeOK, ProgramTypeOK, NetworkTypeOK
  <2>7. ASSUME NEW e \in Ends, NEW m \in net[Peer(e)], NEW copy \in BOOLEAN, ReadPacket(e, m, copy) PROVE TypeOK'
    <3>1. m \in Packets
      BY DEF Ends, Peer, TypeOK, NetworkTypeOK
    <3>2. NetworkTypeOK'
      <4>1. net' \in [Ends -> SUBSET Packets]
        BY <2>7 DEF ReadPacket, TypeOK, NetworkTypeOK
      <4>2. \E k \in {0, 1, 2} : Disturb(k)
        BY <2>7 DEF ReadPacket
      <4> QED BY <2>0, <4>1, <4>2 DEF NetworkTypeOK
    <3>3. CASE m.seq <= incoming_sequence[e]
      BY <2>7, <3>2, <3>3 DEF ReadPacket, chan, buffers, history, TypeOK,
          ChanTypeOK, BuffersTypeOK, ProgramTypeOK, HistoryTypeOK
    <3>4. CASE ~(m.seq <= incoming_sequence[e])
      <4>0. /\ m.seq \in 0 .. MaxSeq /\ m.ack \in 0 .. MaxSeq
            /\ m.relack \in {0, 1} /\ m.data \in Seq(Bytes)
        BY <3>1 DEF Packets, Bytes
      <4>1. Netchan_Process(e, m)
        BY <2>7, <3>4 DEF ReadPacket
      <4>2. outgoing_sequence' \in [Ends -> 0 .. MaxSeq] /\ send_message' \in BOOLEAN
        BY <2>7, <3>4, <4>0 DEF ReadPacket, SV_ExecuteClientMessage, TypeOK, ChanTypeOK, ProgramTypeOK
      <4>3. incoming_reliable_sequence' \in [Ends -> {0, 1}]
        BY <4>1 DEF Netchan_Process, TypeOK, ChanTypeOK
      <4>4. ChanTypeOK'
        BY <4>0, <4>1, <4>2, <4>3 DEF Netchan_Process, TypeOK, ChanTypeOK
      <4>5. BuffersTypeOK'
        BY <4>1 DEF Netchan_Process, TypeOK, BuffersTypeOK
      <4>6. HistoryTypeOK'
        BY <4>0, <4>1 DEF Netchan_Process, TypeOK, HistoryTypeOK
      <4>7. ProgramTypeOK'
        BY <2>7, <4>2 DEF ReadPacket, TypeOK, ProgramTypeOK
      <4> QED BY <3>2, <4>4, <4>5, <4>6, <4>7 DEF TypeOK
    <3> QED BY <3>3, <3>4
  <2>8. ASSUME NEW e \in Ends, NEW m \in net[e], Lose(e, m) PROVE TypeOK'
    <3>1. net' \in [Ends -> SUBSET Packets]
      BY <2>8 DEF Lose, TypeOK, NetworkTypeOK
    <3> QED BY <2>0, <2>8, <3>1 DEF Lose, chan, buffers, program, history, TypeOK,
          ChanTypeOK, BuffersTypeOK, ProgramTypeOK, NetworkTypeOK, HistoryTypeOK
  <2>9. CASE UNCHANGED vars
    BY <2>9 DEF vars, chan, buffers, program, history, TypeOK,
          ChanTypeOK, BuffersTypeOK, ProgramTypeOK, NetworkTypeOK, HistoryTypeOK
  <2>10. QED
    BY <2>1, <2>2, <2>3, <2>4, <2>5, <2>6, <2>7, <2>8, <2>9
    DEF Next, CL_ReadPackets, SV_ReadPackets, Ends, Peer
<1>3. QED
  BY <1>1, <1>2, PTL DEF Spec

(***************************************************************************)
(* The inductive invariant.  A step is looked at from both ends: from the  *)
(* endpoint that acts, and from its peer.                                  *)
(***************************************************************************)
(* There are two endpoints, each the other's peer.                         *)
LEMMA PeerFacts ==
    \A e \in Ends : Peer(e) \in Ends /\ Peer(e) # e /\ Peer(Peer(e)) = e
                   /\ \A d \in Ends : d = e \/ d = Peer(e)
BY DEF Ends, Peer

(* The types of single fields, as the later proofs use them.               *)
LEMMA TypedFacts ==
    ASSUME TypeOK
    PROVE  /\ \A d \in Ends : /\ outgoing_sequence[d] \in Nat /\ incoming_sequence[d] \in Nat
                              /\ incoming_acknowledged[d] \in Nat /\ last_reliable_sequence[d] \in Nat
                              /\ reliable_sequence[d] \in {0, 1}
                              /\ incoming_reliable_sequence[d] \in {0, 1}
           /\ \A d \in Ends : \A m \in net[d] :
                 m.seq \in Nat /\ m.ack \in Nat /\ m.relack \in {0, 1} /\ m.data \in Seq(Bytes)
<1>1. \A d \in Ends : /\ outgoing_sequence[d] \in Nat /\ incoming_sequence[d] \in Nat
                     /\ incoming_acknowledged[d] \in Nat /\ last_reliable_sequence[d] \in Nat
                     /\ reliable_sequence[d] \in {0, 1}
                     /\ incoming_reliable_sequence[d] \in {0, 1}
  BY NetChanAssumption DEF TypeOK, ChanTypeOK
<1>2. \A d \in Ends : \A m \in net[d] :
         m.seq \in Nat /\ m.ack \in Nat /\ m.relack \in {0, 1} /\ m.data \in Seq(Bytes)
  BY NetChanAssumption DEF TypeOK, NetworkTypeOK, Packets, Bytes
<1>3. QED
  BY <1>1, <1>2

(* Netchan_Transmit keeps the invariant of the channel: a fresh message    *)
(* flips the bit while the peer has the old one, and a retransmission      *)
(* finds no reliable packet in flight that could still be processed.       *)
LEMMA TransmitInv ==
    ASSUME TypeOK, ChannelInv, NEW e \in Ends, NEW queued \in Seq(Bytes),
           Netchan_Transmit(e, queued)
    PROVE  ChannelInv'
<1> DEFINE p == Peer(e)
           fresh == reliable_buf[e] = <<>> /\ queued # <<>>
           rel == fresh \/ RemoteDropped(e)
           buf == IF fresh THEN queued ELSE reliable_buf[e]
           packet == [seq    |-> outgoing_sequence[e],
                   rel    |-> rel,
                   ack    |-> incoming_sequence[e],
                   relack |-> incoming_reliable_sequence[e],
                   data   |-> IF rel THEN buf ELSE <<>>]
<1>1. p \in Ends /\ p # e /\ Peer(p) = e /\ \A d \in Ends : d = e \/ d = p
  BY PeerFacts
<1>2. UNCHANGED <<incoming_sequence, incoming_acknowledged,
                  incoming_reliable_acknowledged, incoming_reliable_sequence>>
  BY DEF Netchan_Transmit
<1>3. /\ outgoing_sequence'[e] = outgoing_sequence[e] + 1
      /\ outgoing_sequence'[p] = outgoing_sequence[p]
  BY <1>1 DEF Netchan_Transmit, TypeOK, ChanTypeOK
<1>4. /\ reliable_sequence'[e] = IF fresh THEN 1 - reliable_sequence[e] ELSE reliable_sequence[e]
      /\ reliable_sequence'[p] = reliable_sequence[p]
  BY <1>1 DEF Netchan_Transmit, TypeOK, ChanTypeOK
<1>5. reliable_buf'[e] = buf /\ reliable_buf'[p] = reliable_buf[p]
  BY <1>1 DEF Netchan_Transmit, TypeOK, BuffersTypeOK
<1>6. /\ net'[p] = net[p] /\ last_reliable_sequence'[p] = last_reliable_sequence[p]
      /\ \/ /\ net'[e] = net[e]
            /\ last_reliable_sequence'[e] = last_reliable_sequence[e]
         \/ /\ net'[e] = net[e] \cup {packet}
            /\ last_reliable_sequence'[e] =
                  IF rel THEN outgoing_sequence[e] + 1 ELSE last_reliable_sequence[e]
  BY <1>1, <1>3 DEF Netchan_Transmit, TypeOK, ChanTypeOK, NetworkTypeOK
<1>7. /\ packet.seq = outgoing_sequence[e] /\ packet.ack = incoming_sequence[e]
      /\ packet.relack = incoming_reliable_sequence[e]
      /\ packet.rel = rel /\ packet.data = IF rel THEN buf ELSE <<>>
  OBVIOUS
<1>8. /\ \A d \in Ends : NumbersInv(d) /\ ReliableInv(d) /\ AckInv(d)
      /\ \A d \in Ends : /\ outgoing_sequence[d] \in Nat /\ incoming_sequence[d] \in Nat
                         /\ incoming_acknowledged[d] \in Nat /\ last_reliable_sequence[d] \in Nat
                         /\ reliable_sequence[d] \in {0, 1}
                         /\ incoming_reliable_sequence[d] \in {0, 1}
      /\ \A d \in Ends : \A m \in net[d] :
            m.seq \in Nat /\ m.ack \in Nat /\ m.relack \in {0, 1}
  BY TypedFacts DEF ChannelInv
<1> HIDE DEF packet
<1>9. NumbersInv(e)' /\ NumbersInv(p)'
  BY <1>1, <1>2, <1>3, <1>6, <1>7, <1>8 DEF NumbersInv
<1>10. ReliableInv(p)'
  BY <1>1, <1>2, <1>4, <1>5, <1>6, <1>8 DEF ReliableInv, Received, Acceptable
<1>11. AckInv(p)'
  BY <1>1, <1>2, <1>4, <1>5, <1>6, <1>7, <1>8 DEF AckInv, NumbersInv, Received, Acceptable
<1>12. fresh => Received(e) /\ ~Received(e)'
  BY <1>1, <1>2, <1>4, <1>8 DEF AckInv, Received
<1>13. RemoteDropped(e) => ~Received(e)
  BY <1>1, <1>8 DEF AckInv, RemoteDropped
<1>14. ReliableInv(e)'
  <2>1. ~rel => ~fresh /\ buf = reliable_buf[e]
    OBVIOUS
  <2>2. rel => ~Received(e)'
    BY <1>2, <1>4, <1>12, <1>13 DEF Received
  <2>3. \A m \in net[e] : m.rel /\ Acceptable(e, m) => ~rel
    BY <1>1, <1>8, <1>12 DEF ReliableInv, NumbersInv, Acceptable, RemoteDropped
  <2> HIDE DEF rel, fresh, buf
  <2> SUFFICES ASSUME NEW m \in net'[e]
               PROVE  /\ m.rel /\ Acceptable(e, m)' => /\ ~Received(e)'
                                                     /\ m.data = reliable_buf'[e]
                                                     /\ m.seq + 1 = last_reliable_sequence'[e]
                      /\ ~m.rel => m.data = <<>>
    BY DEF ReliableInv
  <2>4. CASE m \in net[e]
    <3>1. ~m.rel => m.data = <<>>
      BY <1>8, <2>4 DEF ReliableInv
    <3>2. ASSUME m.rel, Acceptable(e, m)'
          PROVE  ~Received(e)' /\ m.data = reliable_buf'[e] /\ m.seq + 1 = last_reliable_sequence'[e]
      <4>1. Acceptable(e, m)
        BY <1>2, <3>2 DEF Acceptable
      <4>2. ~rel
        BY <2>3, <2>4, <3>2, <4>1
      <4>3. ~Received(e) /\ m.data = reliable_buf[e] /\ m.seq + 1 = last_reliable_sequence[e]
        BY <1>8, <2>4, <3>2, <4>1 DEF ReliableInv
      <4>4. reliable_sequence'[e] = reliable_sequence[e]
        BY <1>4, <2>1, <4>2
      <4> QED BY <1>2, <1>5, <1>6, <2>1, <4>2, <4>3, <4>4 DEF Received
    <3> QED BY <3>1, <3>2
  <2>5. CASE m = packet /\ m \notin net[e]
    BY <1>3, <1>5, <1>6, <1>7, <1>8, <2>2, <2>5
  <2> QED BY <1>6, <2>4, <2>5
<1>15. AckInv(e)'
  BY <1>1, <1>2, <1>3, <1>4, <1>5, <1>6, <1>7, <1>8, <1>12, <1>13
  DEF AckInv, NumbersInv, Received, Acceptable, RemoteDropped
<1>16. QED
  BY <1>1, <1>9, <1>10, <1>11, <1>14, <1>15 DEF ChannelInv

(* Netchan_Transmit keeps ExactlyOnce: a fresh message becomes pending.    *)
LEMMA TransmitExactlyOnce ==
    ASSUME TypeOK, ChannelInv, ExactlyOnce, NEW e \in Ends, NEW queued \in Seq(Bytes),
           Netchan_Transmit(e, queued)
    PROVE  ExactlyOnce'
<1> DEFINE p == Peer(e)
           fresh == reliable_buf[e] = <<>> /\ queued # <<>>
<1>1. p \in Ends /\ p # e /\ Peer(p) = e /\ \A d \in Ends : d = e \/ d = p
  BY PeerFacts
<1>2. UNCHANGED <<incoming_reliable_sequence, delivered>>
  BY DEF Netchan_Transmit
<1>3. /\ reliable_sequence'[e] = IF fresh THEN 1 - reliable_sequence[e] ELSE reliable_sequence[e]
      /\ reliable_sequence'[p] = reliable_sequence[p]
  BY <1>1 DEF Netchan_Transmit, TypeOK, ChanTypeOK
<1>4. /\ reliable_buf'[e] = (IF fresh THEN queued ELSE reliable_buf[e])
      /\ reliable_buf'[p] = reliable_buf[p]
  BY <1>1 DEF Netchan_Transmit, TypeOK, BuffersTypeOK
<1>5. /\ staged'[e] = (IF fresh THEN staged[e] \o queued ELSE staged[e])
      /\ staged'[p] = staged[p]
  BY <1>1 DEF Netchan_Transmit, TypeOK, HistoryTypeOK
<1>6. staged'[p] = delivered'[e] \o Pending(p)'
  BY <1>1, <1>2, <1>3, <1>4, <1>5 DEF ExactlyOnce, Pending
<1>7. CASE fresh
  <2>1. incoming_reliable_sequence[p] = reliable_sequence[e]
    BY <1>7 DEF ChannelInv, AckInv, Received
  <2>2. staged[e] = delivered[p] \o <<>>
    BY <2>1 DEF ExactlyOnce, Pending
  <2>3. staged[e] = delivered[p]
    BY <1>1, <2>2 DEF TypeOK, HistoryTypeOK
  <2>4. incoming_reliable_sequence[p] # reliable_sequence'[e]
    BY <1>3, <1>7, <2>1, TypedFacts
  <2> QED BY <1>1, <1>2, <1>4, <1>5, <1>6, <1>7, <2>3, <2>4 DEF ExactlyOnce, Pending
<1>8. CASE ~fresh
  BY <1>1, <1>2, <1>3, <1>4, <1>5, <1>6, <1>8 DEF ExactlyOnce, Pending
<1>9. QED
  BY <1>7, <1>8

(* A packet that is not stale keeps the invariant and ExactlyOnce: a       *)
(* reliable one makes the pending message delivered, any other delivers    *)
(* nothing.                                                                *)
LEMMA ProcessInv ==
    ASSUME TypeOK, ChannelInv, ExactlyOnce, NEW e \in Ends, NEW m \in net[Peer(e)], NEW copy \in BOOLEAN,
           ReadPacket(e, m, copy), ~(m.seq <= incoming_sequence[e])
    PROVE  ChannelInv' /\ ExactlyOnce'
<1> DEFINE p == Peer(e)
<1>1. p \in Ends /\ p # e /\ Peer(p) = e /\ \A d \in Ends : d = e \/ d = p
  BY PeerFacts
<1>2. Netchan_Process(e, m) /\ UNCHANGED <<reliable_sequence, last_reliable_sequence, staged>>
  BY DEF ReadPacket, Netchan_Process
<1>3. /\ incoming_sequence'[e] = m.seq /\ incoming_sequence'[p] = incoming_sequence[p]
      /\ incoming_acknowledged'[e] = m.ack /\ incoming_acknowledged'[p] = incoming_acknowledged[p]
      /\ incoming_reliable_acknowledged'[e] = m.relack
      /\ incoming_reliable_acknowledged'[p] = incoming_reliable_acknowledged[p]
  BY <1>1, <1>2 DEF Netchan_Process, TypeOK, ChanTypeOK
<1>4. /\ incoming_reliable_sequence'[e] = IF m.rel THEN 1 - incoming_reliable_sequence[e]
                                         ELSE incoming_reliable_sequence[e]
      /\ incoming_reliable_sequence'[p] = incoming_reliable_sequence[p]
  BY <1>1, <1>2 DEF Netchan_Process, TypeOK, ChanTypeOK
<1>5. /\ reliable_buf'[e] = (IF m.relack = reliable_sequence[e] THEN <<>> ELSE reliable_buf[e])
      /\ reliable_buf'[p] = reliable_buf[p]
  BY <1>1, <1>2 DEF Netchan_Process, TypeOK, BuffersTypeOK
<1>6. net'[e] = net[e] /\ net'[p] \subseteq net[p]
  BY <1>1 DEF ReadPacket, TypeOK, NetworkTypeOK
<1>7. outgoing_sequence'[e] >= outgoing_sequence[e] /\ outgoing_sequence'[p] = outgoing_sequence[p]
  <2>1. CASE e = "NS_SERVER"
    <3>1. \/ /\ outgoing_sequence' = [outgoing_sequence EXCEPT ![e] = m.seq]
             /\ m.seq >= outgoing_sequence[e]
          \/ outgoing_sequence' = outgoing_sequence
      BY <2>1 DEF ReadPacket, SV_ExecuteClientMessage
    <3> QED BY <1>1, <3>1, TypedFacts DEF TypeOK, ChanTypeOK
  <2>2. CASE e # "NS_SERVER"
    BY <1>1, <2>2, TypedFacts DEF ReadPacket
  <2> QED BY <2>1, <2>2
<1>8. /\ \A d \in Ends : NumbersInv(d) /\ ReliableInv(d) /\ AckInv(d)
      /\ \A d \in Ends : /\ outgoing_sequence[d] \in Nat /\ incoming_sequence[d] \in Nat
                         /\ incoming_acknowledged[d] \in Nat /\ last_reliable_sequence[d] \in Nat
                         /\ reliable_sequence[d] \in {0, 1}
                         /\ incoming_reliable_sequence[d] \in {0, 1}
      /\ \A d \in Ends : \A k \in net[d] :
            k.seq \in Nat /\ k.ack \in Nat /\ k.relack \in {0, 1}
  BY TypedFacts DEF ChannelInv
<1>9. /\ m \in net[p] /\ Acceptable(p, m) /\ m.seq > incoming_sequence[e]
      /\ outgoing_sequence'[e] \in Nat
  <2>1. outgoing_sequence'[e] \in Nat
    BY <1>1, <1>8 DEF ReadPacket, SV_ExecuteClientMessage, TypeOK, ChanTypeOK
  <2> QED BY <1>1, <1>8, <2>1 DEF Acceptable
<1>10. NumbersInv(e)' /\ NumbersInv(p)'
  BY <1>1, <1>3, <1>6, <1>7, <1>8, <1>9 DEF NumbersInv
<1>11. m.rel => ~Received(p) /\ Received(p)' /\ m.data = reliable_buf[p] /\ m.seq + 1 = last_reliable_sequence[p]
  BY <1>1, <1>2, <1>4, <1>8, <1>9 DEF ReliableInv, Received
<1>12. ~m.rel => m.data = <<>> /\ Received(p)' = Received(p)
  BY <1>1, <1>2, <1>4, <1>8, <1>9 DEF ReliableInv, Received
<1>13. Received(e)' = Received(e) /\ (m.relack = reliable_sequence[e] => Received(e))
  BY <1>1, <1>2, <1>4, <1>8, <1>9 DEF AckInv, Received
<1>14. ReliableInv(p)'
  BY <1>1, <1>2, <1>3, <1>5, <1>6, <1>8, <1>9, <1>11, <1>12 DEF ReliableInv, Acceptable
<1>15. ReliableInv(e)'
  BY <1>1, <1>2, <1>3, <1>5, <1>6, <1>8, <1>9, <1>13 DEF ReliableInv, Acceptable
<1>16. AckInv(p)'
  BY <1>1, <1>2, <1>3, <1>5, <1>6, <1>8, <1>9, <1>11, <1>12 DEF AckInv, NumbersInv, Acceptable
<1>17. AckInv(e)'
  BY <1>1, <1>2, <1>3, <1>5, <1>6, <1>8, <1>9, <1>13 DEF AckInv, Acceptable
<1>18. ChannelInv'
  BY <1>1, <1>10, <1>14, <1>15, <1>16, <1>17 DEF ChannelInv
<1>19. staged'[e] = delivered'[p] \o Pending(e)'
  <2>1. delivered'[p] = delivered[p]
    BY <1>1, <1>2 DEF Netchan_Process, TypeOK, HistoryTypeOK
  <2>2. Pending(e)' = Pending(e)
    BY <1>1, <1>2, <1>5, <1>13 DEF Pending, Received
  <2> QED BY <1>2, <2>1, <2>2 DEF ExactlyOnce
<1>20. staged'[p] = delivered'[e] \o Pending(p)'
  <2>1. delivered'[e] = delivered[e] \o m.data
    BY <1>2 DEF Netchan_Process, TypeOK, HistoryTypeOK
  <2>2. staged[p] = delivered[e] \o Pending(p)
    BY <1>1 DEF ExactlyOnce
  <2>3. CASE m.rel
    <3>1. staged[p] = delivered'[e] /\ Pending(p)' = <<>>
      BY <1>1, <1>11, <2>1, <2>2, <2>3 DEF Pending, Received
    <3>2. staged[p] \in Seq(Bytes)
      BY <1>1 DEF TypeOK, HistoryTypeOK
    <3> QED BY <1>2, <3>1, <3>2
  <2>4. CASE ~m.rel
    <3>1. Pending(p)' = Pending(p)
      BY <1>1, <1>2, <1>5, <1>12, <2>4 DEF Pending, Received
    <3>2. delivered[e] \in Seq(Bytes)
      BY DEF TypeOK, HistoryTypeOK
    <3>3. delivered'[e] = delivered[e]
      <4>1. delivered[e] \o <<>> = delivered[e]
        BY <3>2
      <4> QED BY <1>12, <2>1, <2>4, <4>1
    <3> QED BY <1>2, <2>2, <3>1, <3>3
  <2> QED BY <2>3, <2>4
<1>21. QED
  BY <1>1, <1>18, <1>19, <1>20 DEF ExactlyOnce

(* Steps that neither send nor process a packet.                           *)
LEMMA QuietInv ==
    ASSUME TypeOK, TypeOK', ChannelInv, ExactlyOnce,
           UNCHANGED <<incoming_sequence, incoming_acknowledged,
                       incoming_reliable_acknowledged, incoming_reliable_sequence,
                       reliable_sequence, last_reliable_sequence, reliable_buf,
                       staged, delivered>>,
           \A d \in Ends : /\ outgoing_sequence'[d] >= outgoing_sequence[d]
                          /\ net'[d] \subseteq net[d]
    PROVE  ChannelInv' /\ ExactlyOnce'
<1>1. ASSUME NEW d \in Ends PROVE NumbersInv(d)' /\ ReliableInv(d)' /\ AckInv(d)'
  <2>1. /\ Peer(d) \in Ends /\ NumbersInv(d) /\ ReliableInv(d) /\ AckInv(d)
        /\ outgoing_sequence[d] \in Nat /\ outgoing_sequence'[d] \in Nat
        /\ outgoing_sequence'[d] >= outgoing_sequence[d]
        /\ incoming_sequence[Peer(d)] \in Nat
        /\ net'[d] \subseteq net[d] /\ net'[Peer(d)] \subseteq net[Peer(d)]
        /\ \A m \in net[d] : m.seq \in Nat
    <3>1. Peer(d) \in Ends
      BY PeerFacts
    <3>2. NumbersInv(d) /\ ReliableInv(d) /\ AckInv(d)
      BY DEF ChannelInv
    <3>3. outgoing_sequence[d] \in Nat /\ incoming_sequence[Peer(d)] \in Nat
      BY <3>1, NetChanAssumption DEF TypeOK, ChanTypeOK
    <3>4. outgoing_sequence'[d] \in Nat
      BY NetChanAssumption DEF TypeOK, ChanTypeOK
    <3>5. \A m \in net[d] : m.seq \in Nat
      BY TypedFacts
    <3> QED BY <3>1, <3>2, <3>3, <3>4, <3>5
  <2>2. NumbersInv(d)'
    BY <2>1 DEF NumbersInv
  <2>3. ReliableInv(d)'
    BY <2>1 DEF ReliableInv, Acceptable, Received
  <2>4. AckInv(d)'
    BY <2>1 DEF AckInv, Acceptable, Received
  <2> QED BY <2>2, <2>3, <2>4
<1>2. ExactlyOnce'
  BY DEF ExactlyOnce, Pending
<1>3. QED
  BY <1>1, <1>2 DEF ChannelInv

(* Every step of the channel keeps the invariant.                          *)
LEMMA InductiveStep ==
    ASSUME TypeOK, TypeOK', ChannelInv, ExactlyOnce, [Next]_vars
    PROVE  ChannelInv' /\ ExactlyOnce'
<1>1. ASSUME NEW e \in Ends, NEW n \in BlockSizes, Write(e, n)
      PROVE  ChannelInv' /\ ExactlyOnce'
  <2>1. UNCHANGED <<chan, reliable_buf, net, staged, delivered>>
    BY <1>1 DEF Write
  <2> QED BY <2>1, QuietInv, TypedFacts DEF chan
<1>2. CASE CL_SendCmd
  <2>1. message["NS_CLIENT"] \in Seq(Bytes) /\ "NS_CLIENT" \in Ends
    BY DEF Ends, TypeOK, BuffersTypeOK
  <2> QED BY <1>2, <2>1, TransmitInv, TransmitExactlyOnce DEF CL_SendCmd
<1>3. CASE CL_DropCmd
  <2>1. \A d \in Ends : outgoing_sequence'[d] >= outgoing_sequence[d]
    BY <1>3, TypedFacts DEF CL_DropCmd, Ends, TypeOK, ChanTypeOK
  <2> QED BY <1>3, <2>1, QuietInv DEF CL_DropCmd, buffers, history
<1>4. CASE SV_SendClientMessages
  <2>1. message["NS_SERVER"] \in Seq(Bytes) /\ "NS_SERVER" \in Ends
    BY DEF Ends, TypeOK, BuffersTypeOK
  <2>2. PICK q \in Seq(Bytes) : Netchan_Transmit("NS_SERVER", q)
    BY <1>4, <2>1, FarewellFacts DEF SV_SendClientMessages
  <2> QED BY <2>1, <2>2, TransmitInv, TransmitExactlyOnce
<1>5. CASE SV_ChokeClient
  <2>1. UNCHANGED <<chan, buffers, net, history>>
    BY <1>5 DEF SV_ChokeClient
  <2> QED BY <2>1, QuietInv, TypedFacts DEF chan, buffers, history
<1>6. CASE SV_SendMessagesToAll
  <2>1. message["NS_SERVER"] \in Seq(Bytes) /\ "NS_SERVER" \in Ends
    BY DEF Ends, TypeOK, BuffersTypeOK
  <2> QED BY <1>6, <2>1, TransmitInv, TransmitExactlyOnce DEF SV_SendMessagesToAll
<1>7. ASSUME NEW e \in Ends, NEW m \in net[Peer(e)], NEW copy \in BOOLEAN, ReadPacket(e, m, copy)
      PROVE  ChannelInv' /\ ExactlyOnce'
  <2>1. CASE m.seq <= incoming_sequence[e]
    <3>1. UNCHANGED <<chan, buffers, history>>
      BY <1>7, <2>1 DEF ReadPacket
    <3>2. \A d \in Ends : net'[d] \subseteq net[d]
      BY <1>7 DEF ReadPacket, TypeOK, NetworkTypeOK
    <3> QED BY <3>1, <3>2, QuietInv, TypedFacts DEF chan, buffers, history
  <2>2. CASE ~(m.seq <= incoming_sequence[e])
    BY <1>7, <2>2, ProcessInv
  <2> QED BY <2>1, <2>2
<1>8. ASSUME NEW e \in Ends, NEW m \in net[e], Lose(e, m)
      PROVE  ChannelInv' /\ ExactlyOnce'
  <2>1. UNCHANGED <<chan, buffers, history>>
    BY <1>8 DEF Lose
  <2>2. \A d \in Ends : net'[d] \subseteq net[d]
    BY <1>8 DEF Lose, TypeOK, NetworkTypeOK
  <2> QED BY <2>1, <2>2, QuietInv, TypedFacts DEF chan, buffers, history
<1>9. CASE UNCHANGED vars
  <2>1. UNCHANGED <<chan, buffers, net, history>>
    BY <1>9 DEF vars
  <2> QED BY <2>1, QuietInv, TypedFacts DEF chan, buffers, history
<1>10. QED
  BY <1>1, <1>2, <1>3, <1>4, <1>5, <1>6, <1>7, <1>8, <1>9
  DEF Next, CL_ReadPackets, SV_ReadPackets, Ends, Peer

(* In every state of the channel the numbers, the packets in flight and    *)
(* the bits agree as NumbersInv, ReliableInv and AckInv say, and delivery  *)
(* is exactly once.                                                        *)
THEOREM ChannelInvariant == Spec => [](TypeOK /\ ChannelInv /\ ExactlyOnce)
<1>1. Init => ChannelInv /\ ExactlyOnce
  <2> SUFFICES ASSUME Init PROVE ChannelInv /\ ExactlyOnce
    OBVIOUS
  <2>1. ChannelInv
    BY PeerFacts DEF Init, ChannelInv, NumbersInv, ReliableInv, AckInv, Received
  <2>2. ExactlyOnce
    BY PeerFacts DEF Init, ExactlyOnce, Pending
  <2> QED BY <2>1, <2>2
<1>2. TypeOK /\ TypeOK' /\ ChannelInv /\ ExactlyOnce /\ [Next]_vars => ChannelInv' /\ ExactlyOnce'
  BY InductiveStep
<1>3. QED
  BY <1>1, <1>2, TypeCorrect, PTL DEF Spec

(* What the two ends and the packets in flight know of each other, and the *)
(* types (Netchan_Transmit, Netchan_Process).                              *)
THEOREM ChannelCorrect == Spec => []NetChanInv
<1>1. TypeOK /\ ChannelInv => NetChanInv
  BY DEF NetChanInv
<1> QED BY <1>1, ChannelInvariant, PTL

(* What the peer's program has been given is what was put in flight, each  *)
(* message once and in order, but for the one still pending in             *)
(* reliable_buf.                                                           *)
THEOREM ReliableExactlyOnce == Spec => []ExactlyOnce
BY ChannelInvariant, PTL

(* A step that sends a reliable packet under an unchanged bit is taken     *)
(* only while the peer lacks the message.                                  *)
LEMMA ResendStep ==
    ASSUME TypeOK, ChannelInv, [Next]_vars, NEW e \in Ends,
           outgoing_sequence'[e] # outgoing_sequence[e],
           last_reliable_sequence'[e] # last_reliable_sequence[e],
           reliable_sequence'[e] = reliable_sequence[e]
    PROVE  incoming_reliable_sequence[Peer(e)] # reliable_sequence[e]
<1>1. ASSUME NEW d \in Ends, NEW q, Netchan_Transmit(d, q)
      PROVE  incoming_reliable_sequence[Peer(e)] # reliable_sequence[e]
  <2>1. d = e
    BY <1>1 DEF Netchan_Transmit, TypeOK, ChanTypeOK
  <2>2. ~(reliable_buf[e] = <<>> /\ q # <<>>)
    <3>1. (reliable_buf[e] = <<>> /\ q # <<>>) => reliable_sequence'[e] = 1 - reliable_sequence[e]
      BY <1>1, <2>1 DEF Netchan_Transmit, TypeOK, ChanTypeOK
    <3>2. reliable_sequence[e] \in {0, 1}
      BY TypedFacts
    <3> QED BY <3>1, <3>2
  <2>3. RemoteDropped(e)
    BY <1>1, <2>1, <2>2 DEF Netchan_Transmit, TypeOK, ChanTypeOK
  <2> QED BY <2>3, PeerFacts, TypedFacts DEF RemoteDropped, ChannelInv, AckInv, Received
<1>2. CASE CL_SendCmd
  BY <1>1, <1>2 DEF CL_SendCmd, Ends
<1>3. CASE SV_SendClientMessages
  BY <1>1, <1>3 DEF SV_SendClientMessages, Ends
<1>4. CASE SV_SendMessagesToAll
  BY <1>1, <1>4 DEF SV_SendMessagesToAll, Ends
<1>5. CASE \E d \in Ends, n \in BlockSizes : Write(d, n)
  BY <1>5 DEF Write, chan
<1>6. CASE CL_DropCmd
  BY <1>6 DEF CL_DropCmd
<1>7. CASE SV_ChokeClient
  BY <1>7 DEF SV_ChokeClient, chan
<1>8. CASE CL_ReadPackets \/ SV_ReadPackets
  BY <1>8 DEF CL_ReadPackets, SV_ReadPackets, ReadPacket, Netchan_Process, chan
<1>9. CASE \E d \in Ends : \E m \in net[d] : Lose(d, m)
  BY <1>9 DEF Lose, chan
<1>10. CASE UNCHANGED vars
  BY <1>10 DEF vars, chan
<1>11. QED
  BY <1>2, <1>3, <1>4, <1>5, <1>6, <1>7, <1>8, <1>9, <1>10 DEF Next

(* Netchan_Transmit retransmits a reliable message only while the peer     *)
(* does not have it: no acknowledgement, late or not, makes it conclude    *)
(* wrongly that the message was dropped.                                   *)
THEOREM ResendOnlyTheMissing == Spec => NoSpuriousResend
<1>1. TypeOK /\ ChannelInv /\ [Next]_vars =>
        [\A e \in Ends :
           (outgoing_sequence'[e] # outgoing_sequence[e] /\ last_reliable_sequence'[e] # last_reliable_sequence[e]
              /\ reliable_sequence'[e] = reliable_sequence[e])
           => incoming_reliable_sequence[Peer(e)] # reliable_sequence[e]]_vars
  BY ResendStep
<1>2. QED
  BY <1>1, ChannelInvariant, PTL DEF Spec, NoSpuriousResend

(***************************************************************************)
(* No byte is skipped.  The bytes in flight and the bytes queued behind    *)
(* them form a line; without an overflow it holds all that was written.    *)
(***************************************************************************)
(* Sequences that are built by concatenation, element by element.          *)
LEMMA ConcatFacts ==
    ASSUME NEW S, NEW s \in Seq(S), NEW t \in Seq(S)
    PROVE  /\ s \o t \in Seq(S) /\ Len(s \o t) = Len(s) + Len(t)
           /\ \A i \in 1 .. Len(s) : (s \o t)[i] = s[i]
           /\ \A i \in 1 .. Len(t) : (s \o t)[Len(s) + i] = t[i]
           /\ Len(s) \in Nat /\ Len(t) \in Nat
OBVIOUS

(* What e has put in flight and what waits behind it.                      *)
Line(e) == staged[e] \o message[e]

(* A stream of e without a silent gap; only the server knows a farewell.   *)
Good(e, s) == Plain(s) \/ (e = "NS_SERVER" /\ Told(s))

(* What the peer has read and what is in flight have no silent gap, and    *)
(* without an overflow neither has what waits: up to the first farewell it *)
(* is all that was written.                                                *)
GapInv(e) ==
    /\ Good(e, delivered[Peer(e)]) /\ Good(e, staged[e])
    /\ \/ overflowed[e]
       \/ Plain(Line(e)) /\ Len(Line(e)) = written[e]
       \/ e = "NS_SERVER" /\ Told(Line(e))

LinesInv == \A e \in Ends : GapInv(e)

(* Whatever is written behind a farewell, it stays one.                    *)
LEMMA ToldConcat ==
    ASSUME NEW s \in Seq(Bytes), NEW t \in Seq(Bytes), Told(s)
    PROVE  Told(s \o t)
<1> DEFINE w == s \o t
<1>1. PICK g \in 0 .. Len(s) - 1 :
         /\ \A i \in 1 .. g : s[i] = i
         /\ \/ s[g + 1] = svc_disconnect
            \/ s[g + 1] = svc_print /\ g + 2 <= Len(s) /\ s[g + 2] = svc_disconnect
  BY DEF Told
<1>2. /\ Len(w) = Len(s) + Len(t) /\ Len(s) \in Nat /\ Len(t) \in Nat
      /\ \A i \in 1 .. Len(s) : w[i] = s[i]
  BY ConcatFacts
<1> HIDE DEF w
<1>3. g \in 0 .. Len(w) - 1 /\ g + 1 \in 1 .. Len(s)
  BY <1>2
<1>4. \A i \in 1 .. g : w[i] = i
  BY <1>1, <1>2
<1>5. w[g + 1] = s[g + 1]
  BY <1>2, <1>3
<1>6. g + 2 <= Len(s) => w[g + 2] = s[g + 2] /\ g + 2 <= Len(w)
  BY <1>2
<1>7. Told(w)
  BY <1>1, <1>3, <1>4, <1>5, <1>6 DEF Told
<1> QED BY <1>7 DEF w

(* A farewell behind what was written leaves no silent gap.                *)
LEMMA PlainFarewell ==
    ASSUME NEW s \in Seq(Bytes), NEW q \in Seq(Bytes), Plain(s), Len(q) >= 1,
           q[1] = svc_disconnect
           \/ (q[1] = svc_print /\ 2 <= Len(q) /\ q[2] = svc_disconnect)
    PROVE  Told(s \o q)
<1> DEFINE w == s \o q
           g == Len(s)
<1>1. /\ Len(w) = g + Len(q) /\ g \in Nat /\ Len(q) \in Nat
      /\ \A i \in 1 .. g : w[i] = s[i]
      /\ \A i \in 1 .. Len(q) : w[g + i] = q[i]
  BY ConcatFacts
<1> HIDE DEF w
<1>2. \A i \in 1 .. g : w[i] = i
  BY <1>1 DEF Plain
<1> HIDE DEF g
<1>3. w[g + 1] = q[1] /\ (2 <= Len(q) => w[g + 2] = q[2] /\ g + 2 <= Len(w))
  BY <1>1
<1>4. g \in 0 .. Len(w) - 1
  BY <1>1
<1>5. Told(w)
  BY <1>2, <1>3, <1>4 DEF Told
<1> QED BY <1>5 DEF w

(* Both buffers hold sequences of bytes.                                   *)
LEMMA LineType ==
    ASSUME TypeOK, NEW e \in Ends
    PROVE  /\ staged[e] \in Seq(Bytes) /\ message[e] \in Seq(Bytes) /\ Line(e) \in Seq(Bytes)
           /\ delivered[e] \in Seq(Bytes) /\ reliable_buf[e] \in Seq(Bytes)
           /\ Len(Line(e)) = Len(staged[e]) + Len(message[e]) /\ Len(Line(e)) \in Nat
           /\ Len(Line(e)) >= Len(staged[e]) /\ Len(staged[e]) \in Nat /\ Len(message[e]) \in Nat /\ written[e] \in Nat
           /\ \A i \in 1 .. Len(staged[e]) : Line(e)[i] = staged[e][i]
<1>1. /\ staged[e] \in Seq(Bytes) /\ message[e] \in Seq(Bytes)
      /\ delivered[e] \in Seq(Bytes) /\ reliable_buf[e] \in Seq(Bytes)
  BY DEF TypeOK, HistoryTypeOK, BuffersTypeOK
<1>2. written[e] \in Nat
  BY NetChanAssumption DEF TypeOK, HistoryTypeOK
<1>3. /\ Line(e) \in Seq(Bytes) /\ Len(Line(e)) = Len(staged[e]) + Len(message[e])
      /\ Len(Line(e)) \in Nat /\ Len(Line(e)) >= Len(staged[e]) /\ Len(staged[e]) \in Nat /\ Len(message[e]) \in Nat
      /\ \A i \in 1 .. Len(staged[e]) : Line(e)[i] = staged[e][i]
  <2> DEFINE s == staged[e]
             t == message[e]
  <2>1. s \in Seq(Bytes) /\ t \in Seq(Bytes) /\ Line(e) = s \o t
    BY <1>1 DEF Line
  <2> HIDE DEF s, t
  <2>2. /\ s \o t \in Seq(Bytes) /\ Len(s \o t) = Len(s) + Len(t)
        /\ Len(s) \in Nat /\ Len(t) \in Nat
        /\ \A i \in 1 .. Len(s) : (s \o t)[i] = s[i]
    BY <2>1, ConcatFacts
  <2>3. /\ Line(e) \in Seq(Bytes) /\ Len(Line(e)) = Len(s) + Len(t)
        /\ Len(Line(e)) \in Nat /\ Len(Line(e)) >= Len(s)
        /\ Len(s) \in Nat /\ Len(t) \in Nat
        /\ \A i \in 1 .. Len(s) : Line(e)[i] = s[i]
    BY <2>1, <2>2
  <2> QED BY <2>3 DEF s, t
<1> QED BY <1>1, <1>2, <1>3

(* What is queued for Netchan_Transmit stays in line, whether or not it is *)
(* put in flight.                                                          *)
LEMMA TransmitLine ==
    ASSUME TypeOK, NEW e \in Ends, NEW queued \in Seq(Bytes), Netchan_Transmit(e, queued)
    PROVE  /\ Line(e)' = staged[e] \o queued
           /\ staged'[e] = staged[e] \/ staged'[e] = Line(e)'
           /\ UNCHANGED <<written, delivered>>
           /\ staged'[Peer(e)] = staged[Peer(e)] /\ message'[Peer(e)] = message[Peer(e)]
<1> DEFINE fresh == reliable_buf[e] = <<>> /\ queued # <<>>
<1>1. /\ message'[e] = (IF fresh THEN <<>> ELSE queued)
      /\ staged'[e] = (IF fresh THEN staged[e] \o queued ELSE staged[e])
  BY DEF Netchan_Transmit, TypeOK, BuffersTypeOK, HistoryTypeOK
<1>2. staged[e] \in Seq(Bytes)
  BY LineType
<1>3. (staged[e] \o queued) \o <<>> = staged[e] \o queued
  <2>1. staged[e] \o queued \in Seq(Bytes)
    BY <1>2, ConcatFacts
  <2> HIDE DEF fresh
  <2> QED BY <2>1
<1>4. Line(e)' = staged[e] \o queued
  BY <1>1, <1>3 DEF Line
<1>5. staged'[e] = staged[e] \/ staged'[e] = Line(e)'
  BY <1>1, <1>4
<1> QED BY <1>4, <1>5, PeerFacts DEF Netchan_Transmit, TypeOK, BuffersTypeOK, HistoryTypeOK

(* The lines depend on nothing else.                                       *)
LEMMA LinesUnchanged ==
    ASSUME LinesInv, UNCHANGED <<staged, delivered, message, overflowed, written>>
    PROVE  LinesInv'
BY DEF LinesInv, GapInv, Line

(* A message that is sent leaves no silent gap if its line has none.       *)
LEMMA TransmitLines ==
    ASSUME TypeOK, LinesInv, NEW e \in Ends, NEW q \in Seq(Bytes), Netchan_Transmit(e, q),
           overflowed' = [overflowed EXCEPT ![e] = FALSE],
           \/ Plain(staged[e] \o q) /\ Len(staged[e] \o q) = written[e]
           \/ e = "NS_SERVER" /\ Told(staged[e] \o q)
    PROVE  LinesInv'
<1>0. PICK p \in Ends : p = Peer(e) /\ p # e /\ Peer(p) = e /\ \A d \in Ends : d = e \/ d = p
  BY PeerFacts
<1>1. /\ Line(e)' = staged[e] \o q /\ UNCHANGED <<written, delivered>>
      /\ staged'[e] = staged[e] \/ staged'[e] = Line(e)'
      /\ staged'[p] = staged[p] /\ message'[p] = message[p]
  BY <1>0, TransmitLine
<1>2. overflowed'[e] = FALSE /\ overflowed'[p] = overflowed[p]
  BY <1>0 DEF TypeOK, BuffersTypeOK
<1>3. /\ Good(e, delivered[p]) /\ Good(e, staged[e]) /\ Good(e, Line(e)')
      /\ \/ Plain(Line(e)') /\ Len(Line(e)') = written[e]
         \/ e = "NS_SERVER" /\ Told(Line(e)')
  BY <1>0, <1>1 DEF LinesInv, GapInv, Good
<1>4. Good(e, staged'[e])
  BY <1>1, <1>3
<1>5. GapInv(e)'
  BY <1>0, <1>1, <1>3, <1>4 DEF GapInv, Good
<1>6. GapInv(p)'
  BY <1>0, <1>1, <1>2 DEF LinesInv, GapInv, Line
<1> QED BY <1>0, <1>5, <1>6 DEF LinesInv

(* ... as one that is sent as it is queued has none.                       *)
LEMMA PlainTransmit ==
    ASSUME TypeOK, LinesInv, NEW e \in Ends, Netchan_Transmit(e, message[e]),
           overflowed' = overflowed, ~overflowed[e]
    PROVE  LinesInv'
<1>1. message[e] \in Seq(Bytes)
  BY LineType
<1>2. overflowed' = [overflowed EXCEPT ![e] = FALSE]
  BY DEF TypeOK, BuffersTypeOK
<1>3. \/ Plain(staged[e] \o message[e]) /\ Len(staged[e] \o message[e]) = written[e]
      \/ e = "NS_SERVER" /\ Told(staged[e] \o message[e])
  BY DEF LinesInv, GapInv, Line
<1> QED BY <1>1, <1>2, <1>3, TransmitLines

(* A packet that is read delivers what is in flight, or nothing.           *)
LEMMA DeliveredStaged ==
    ASSUME TypeOK, ChannelInv, ExactlyOnce, NEW e \in Ends, NEW m \in net[Peer(e)], NEW copy \in BOOLEAN,
           ReadPacket(e, m, copy)
    PROVE  /\ delivered'[Peer(e)] = delivered[Peer(e)]
           /\ delivered'[e] = delivered[e] \/ delivered'[e] = staged[Peer(e)]
<1> DEFINE p == Peer(e)
<1>0. p \in Ends /\ p # e /\ Peer(p) = e
  BY PeerFacts
<1>1. CASE m.seq <= incoming_sequence[e]
  BY <1>1 DEF ReadPacket, history
<1>2. CASE ~(m.seq <= incoming_sequence[e])
  <2>1. delivered' = [delivered EXCEPT ![e] = @ \o m.data]
    BY <1>2 DEF ReadPacket, Netchan_Process
  <2>2. delivered'[e] = delivered[e] \o m.data /\ delivered'[p] = delivered[p]
    BY <1>0, <2>1 DEF TypeOK, HistoryTypeOK
  <2>3. ReliableInv(p) /\ staged[p] = delivered[e] \o Pending(p)
    BY <1>0 DEF ChannelInv, ExactlyOnce
  <2>4. Acceptable(p, m)
    BY <1>0, <1>2, TypedFacts DEF Acceptable
  <2>5. CASE m.rel
    <3>1. m.data = Pending(p)
      BY <1>0, <2>3, <2>4, <2>5 DEF ReliableInv, Received, Pending
    <3> QED BY <2>2, <2>3, <3>1
  <2>6. CASE ~m.rel
    <3>1. m.data = <<>>
      BY <1>0, <2>3, <2>6 DEF ReliableInv
    <3>2. delivered[e] \in Seq(Bytes)
      BY LineType
    <3>3. delivered[e] \o <<>> = delivered[e]
      BY <3>2
    <3> QED BY <2>2, <3>1, <3>3
  <2> QED BY <2>5, <2>6
<1> QED BY <1>1, <1>2

(* Every step keeps the lines in order.                                    *)
LEMMA LinesStep ==
    ASSUME TypeOK, TypeOK', ChannelInv, ExactlyOnce, LinesInv, [Next]_vars PROVE LinesInv'
<1>1. ASSUME NEW e \in Ends, NEW n \in BlockSizes, Write(e, n) PROVE LinesInv'
  <2>0. PICK p \in Ends : p = Peer(e) /\ p # e /\ Peer(p) = e /\ \A d \in Ends : d = e \/ d = p
    BY PeerFacts
  <2> DEFINE block == [i \in 1 .. n |-> written[e] + i]
             fits  == Len(message[e]) + n <= MaxSize
  <2>1. n \in Nat /\ written[e] \in Nat /\ written[e] + n <= MaxWritten /\ MaxWritten \in Nat
    <3>1. n \in 1 .. MaxSize /\ MaxSize \in Nat /\ MaxWritten \in Nat
      BY NetChanAssumption
    <3>2. written[e] \in Nat
      BY LineType
    <3>3. written[e] + n <= MaxWritten
      BY <1>1 DEF Write
    <3> QED BY <3>1, <3>2, <3>3
  <2>2. block \in Seq(Bytes) /\ Len(block) = n /\ \A i \in 1 .. n : block[i] = written[e] + i
    BY <2>1 DEF Bytes
  <2>3. /\ UNCHANGED <<staged, delivered>>
        /\ written'[e] = written[e] + n /\ written'[p] = written[p]
        /\ message'[e] = (IF fits THEN message[e] \o block ELSE block)
        /\ message'[p] = message[p]
        /\ overflowed'[e] = (overflowed[e] \/ ~fits) /\ overflowed'[p] = overflowed[p]
    BY <1>1, <2>0 DEF Write, TypeOK, HistoryTypeOK, BuffersTypeOK
  <2> HIDE DEF block, fits
  <2>4. GapInv(p)'
    BY <2>0, <2>3 DEF LinesInv, GapInv, Line
  <2>5. Good(e, delivered'[p]) /\ Good(e, staged'[e])
    BY <2>0, <2>3 DEF LinesInv, GapInv
  <2>6. CASE overflowed'[e]
    BY <2>0, <2>4, <2>5, <2>6 DEF LinesInv, GapInv, Good
  <2>7. CASE ~overflowed'[e]
    <3>1. fits /\ ~overflowed[e]
      BY <2>3, <2>7
    <3>2. \/ Plain(Line(e)) /\ Len(Line(e)) = written[e]
          \/ e = "NS_SERVER" /\ Told(Line(e))
      BY <3>1 DEF LinesInv, GapInv
    <3>3. Line(e)' = Line(e) \o block
      <4>1. staged[e] \o (message[e] \o block) = (staged[e] \o message[e]) \o block
        <5>1. staged[e] \in Seq(Bytes) /\ message[e] \in Seq(Bytes) /\ block \in Seq(Bytes)
          BY <2>2, LineType
        <5> DEFINE a == staged[e]
                   b == message[e]
        <5> HIDE DEF a, b
        <5>2. a \in Seq(Bytes) /\ b \in Seq(Bytes) /\ block \in Seq(Bytes)
          BY <5>1 DEF a, b
        <5>3. a \o (b \o block) = (a \o b) \o block
          BY <5>2, ConcatAssociative
        <5> QED BY <5>3 DEF a, b
      <4> QED BY <2>3, <3>1, <4>1 DEF Line
    <3> DEFINE l == Line(e)
               w == l \o block
    <3>5. CASE Plain(l) /\ Len(l) = written[e]
      <4>1. Len(w) = written[e] + n /\ Plain(w)
        <5>0. l \in Seq(Bytes) /\ Len(l) = written[e] /\ \A i \in 1 .. Len(l) : l[i] = i
          BY <3>5, LineType DEF Plain
        <5> HIDE DEF l
        <5>1. /\ Len(w) = Len(l) + Len(block)
              /\ \A i \in 1 .. Len(l) : w[i] = l[i]
              /\ \A i \in 1 .. Len(block) : w[Len(l) + i] = block[i]
          <6>1. l \in Seq(Bytes) /\ block \in Seq(Bytes)
            BY <2>2, <5>0
          <6> QED BY <6>1, ConcatFacts
        <5> HIDE DEF w
        <5>2. /\ Len(w) = written[e] + n
              /\ \A i \in 1 .. written[e] : w[i] = i
              /\ \A i \in 1 .. n : w[written[e] + i] = written[e] + i
          BY <2>2, <5>0, <5>1
        <5>3. ASSUME NEW i \in 1 .. written[e] + n PROVE w[i] = i
          <6>1. CASE i <= written[e]
            BY <2>1, <5>2, <6>1
          <6>2. CASE i > written[e]
            <7>1. i - written[e] \in 1 .. n /\ i = written[e] + (i - written[e])
              BY <2>1, <6>2
            <7> QED BY <5>2, <7>1
          <6> QED BY <2>1, <6>1, <6>2
        <5> QED BY <5>2, <5>3 DEF Plain
      <4>2. GapInv(e)'
        BY <2>0, <2>3, <2>5, <3>3, <4>1 DEF GapInv, Good
      <4> QED BY <2>0, <2>4, <4>2 DEF LinesInv
    <3>6. CASE e = "NS_SERVER" /\ Told(l)
      <4>1. Told(w)
        BY <2>2, <3>6, ToldConcat, LineType
      <4>2. GapInv(e)'
        BY <2>0, <2>3, <2>5, <3>3, <3>6, <4>1 DEF GapInv, Good
      <4> QED BY <2>0, <2>4, <4>2 DEF LinesInv
    <3> QED BY <3>2, <3>5, <3>6
  <2> QED BY <2>6, <2>7
<1>2. CASE CL_SendCmd
  BY <1>2, PlainTransmit DEF CL_SendCmd, Ends
<1>3. CASE CL_DropCmd
  BY <1>3, LinesUnchanged DEF CL_DropCmd, buffers, history
<1>4. CASE SV_SendClientMessages
  <2>0. PICK s \in Ends : s = "NS_SERVER"
    BY DEF Ends
  <2>1. /\ overflowed' = [overflowed EXCEPT ![s] = FALSE]
        /\ \E notice, parting \in BOOLEAN :
              Netchan_Transmit(s, IF overflowed[s] THEN Farewell(notice, parting) ELSE message[s])
    BY <1>4, <2>0 DEF SV_SendClientMessages
  <2>2. CASE ~overflowed[s]
    <3>1. overflowed' = overflowed
      BY <2>1, <2>2 DEF TypeOK, BuffersTypeOK
    <3> QED BY <2>1, <2>2, <3>1, PlainTransmit
  <2>3. CASE overflowed[s]
    <3>1. PICK notice \in BOOLEAN, parting \in BOOLEAN : Netchan_Transmit(s, Farewell(notice, parting))
      BY <2>1, <2>3
    <3>2. PICK q : q = Farewell(notice, parting)
      OBVIOUS
    <3>3. /\ q \in Seq(Bytes) /\ Len(q) >= 1
          /\ q[1] = svc_disconnect
             \/ (q[1] = svc_print /\ 2 <= Len(q) /\ q[2] = svc_disconnect)
      BY <3>2, FarewellFacts
    <3>4. staged[s] \in Seq(Bytes) /\ (Plain(staged[s]) \/ Told(staged[s]))
      BY LineType DEF LinesInv, GapInv, Good
    <3>5. Told(staged[s] \o q)
      BY <3>3, <3>4, PlainFarewell, ToldConcat
    <3> QED BY <2>0, <2>1, <3>1, <3>2, <3>3, <3>5, TransmitLines
  <2> QED BY <2>2, <2>3
<1>5. CASE SV_ChokeClient
  BY <1>5, LinesUnchanged DEF SV_ChokeClient, buffers, history
<1>6. CASE SV_SendMessagesToAll
  BY <1>6, PlainTransmit DEF SV_SendMessagesToAll, Ends
<1>7. ASSUME NEW e \in Ends, NEW m \in net[Peer(e)], NEW copy \in BOOLEAN, ReadPacket(e, m, copy)
      PROVE  LinesInv'
  <2>0. PICK p \in Ends : p = Peer(e) /\ p # e /\ Peer(p) = e /\ \A d \in Ends : d = e \/ d = p
    BY PeerFacts
  <2>1. UNCHANGED <<staged, message, overflowed, written>>
    BY <1>7 DEF ReadPacket, Netchan_Process, buffers, history
  <2>2. delivered'[p] = delivered[p] /\ (delivered'[e] = delivered[e] \/ delivered'[e] = staged[p])
    BY <1>7, <2>0, DeliveredStaged
  <2>3. GapInv(e)'
    BY <2>0, <2>1, <2>2 DEF LinesInv, GapInv, Line
  <2>4. Good(p, delivered'[e])
    BY <2>0, <2>2 DEF LinesInv, GapInv
  <2>5. GapInv(p)'
    BY <2>0, <2>1, <2>4 DEF LinesInv, GapInv, Line, Good
  <2> QED BY <2>0, <2>3, <2>5 DEF LinesInv
<1>8. ASSUME NEW e \in Ends, NEW m \in net[e], Lose(e, m) PROVE LinesInv'
  BY <1>8, LinesUnchanged DEF Lose, buffers, program, history
<1>9. CASE UNCHANGED vars
  BY <1>9, LinesUnchanged DEF vars, buffers, program, history
<1> QED BY <1>1, <1>2, <1>3, <1>4, <1>5, <1>6, <1>7, <1>8, <1>9
  DEF Next, CL_ReadPackets, SV_ReadPackets, Ends, Peer

(* The peer's program reads every byte that was written, from the first    *)
(* on; behind a gap the client reads nothing but the notice of the         *)
(* overflow before it is disconnected (Netchan_Transmit,                   *)
(* SV_SendClientMessages, SZ_GetSpace).                                    *)
THEOREM NothingSkipped == Spec => []NoSilentGap
<1>1. Init => LinesInv
  BY PeerFacts DEF Init, LinesInv, GapInv, Good, Line, Plain
<1>2. TypeOK /\ TypeOK' /\ ChannelInv /\ ExactlyOnce /\ LinesInv /\ [Next]_vars => LinesInv'
  BY LinesStep
<1>3. LinesInv => NoSilentGap
  <2> SUFFICES ASSUME LinesInv, NEW e \in Ends
               PROVE  Plain(delivered[e]) \/ (e = "NS_CLIENT" /\ Told(delivered[e]))
    BY DEF NoSilentGap
  <2>1. Peer(e) \in Ends /\ Peer(Peer(e)) = e /\ (Peer(e) = "NS_SERVER" => e = "NS_CLIENT")
    BY PeerFacts DEF Ends, Peer
  <2>2. Good(Peer(e), delivered[e])
    BY <2>1 DEF LinesInv, GapInv
  <2> QED BY <2>1, <2>2 DEF Good
<1> QED BY <1>1, <1>2, <1>3, ChannelInvariant, TypeCorrect, PTL DEF Spec

(***************************************************************************)
(* The refinement of the abstract stream.                                  *)
(***************************************************************************)
(* A sequence is a prefix of what is built by appending to it.             *)
LEMMA PrefixConcat ==
    ASSUME NEW S, NEW s \in Seq(S), NEW t \in Seq(S)
    PROVE  Stream!IsPrefix(s, s \o t)
<1>1. /\ s \o t \in Seq(S) /\ Len(s \o t) = Len(s) + Len(t)
      /\ Len(s) \in Nat /\ Len(t) \in Nat
  BY ConcatFacts
<1>2. SubSeq(s, 1, Len(s)) = SubSeq(s \o t, 1, Len(s))
  <2>1. CASE Len(s) = 0
    BY <1>1, <2>1, SubSeqEmpty
  <2>2. CASE Len(s) # 0
    <3>1. 1 \in 1 .. Len(s) /\ Len(s) \in 1 .. Len(s)
      BY <1>1, <2>2
    <3> QED BY <3>1, SubSeqOfConcat1
  <2> QED BY <2>1, <2>2
<1> QED BY <1>1, <1>2 DEF Stream!IsPrefix

(* ... however often one appends.                                          *)
LEMMA PrefixConcatTwice ==
    ASSUME NEW S, NEW s \in Seq(S), NEW t \in Seq(S), NEW u \in Seq(S)
    PROVE  Stream!IsPrefix(s, (s \o t) \o u)
<1>1. (s \o t) \o u = s \o (t \o u)
  BY ConcatAssociative
<1>2. t \o u \in Seq(S)
  BY ConcatFacts
<1> QED BY <1>1, <1>2, PrefixConcat

(* What e has on the channel and has not lost: the abstract stream.        *)
Queue(e) == IF overflowed[e] THEN <<>> ELSE message[e]
Sent(e) == staged[e] \o Queue(e)

(* A step that appends t to the stream of e submits t.                     *)
LEMMA SubmitStep ==
    ASSUME NEW e \in Ends, NEW d, NEW r, NEW q, NEW t,
           d \in Seq(Bytes), r \in Seq(Bytes), q \in Seq(Bytes), t \in Seq(Bytes),
           Sent(e) \in Seq(Bytes), delivered[Peer(e)] = d, delivered' = delivered,
           Sent(e)' = (d \o r) \o q, Sent(e)' = Sent(e) \o t,
           Sent(Peer(e))' = Sent(Peer(e))
    PROVE  Stream!StreamNext
<1>1. Stream!IsPrefix(Sent(e), Sent(e)') /\ Stream!IsPrefix(d, Sent(e)')
  BY PrefixConcat, PrefixConcatTwice
<1>2. Peer(e) \in Ends /\ \A c \in Ends : c = e \/ c = Peer(e)
  BY PeerFacts
<1>3. [c \in Ends |-> Sent(c)]' = [[c \in Ends |-> Sent(c)] EXCEPT ![e] = Sent(e)']
  BY <1>2
<1>4. Stream!Submit(e)
  BY <1>1, <1>2, <1>3 DEF Stream!Submit, Stream!NewStream, Sent, Queue
<1> QED BY <1>4 DEF Stream!StreamNext
(* A step that empties the buffer of e withdraws what was in it.           *)
LEMMA WithdrawStep ==
    ASSUME NEW e \in Ends, NEW d, NEW r, NEW q,
           d \in Seq(Bytes), r \in Seq(Bytes), q \in Seq(Bytes),
           delivered[Peer(e)] = d, delivered' = delivered,
           Sent(e)' = d \o r, Sent(e) = (d \o r) \o q,
           Sent(Peer(e))' = Sent(Peer(e))
    PROVE  Stream!StreamNext
<1>1. Stream!IsPrefix(Sent(e)', Sent(e)) /\ Stream!IsPrefix(d, Sent(e)')
  <2>1. d \o r \in Seq(Bytes)
    BY ConcatFacts
  <2>2. Stream!IsPrefix(d \o r, (d \o r) \o q)
    BY <2>1, PrefixConcat
  <2> QED BY <2>2, PrefixConcat
<1>2. Peer(e) \in Ends /\ \A c \in Ends : c = e \/ c = Peer(e)
  BY PeerFacts
<1>3. [c \in Ends |-> Sent(c)]' = [[c \in Ends |-> Sent(c)] EXCEPT ![e] = Sent(e)']
  BY <1>2
<1>4. Stream!Withdraw(e)
  BY <1>1, <1>2, <1>3 DEF Stream!Withdraw, Stream!NewStream, Sent, Queue
<1> QED BY <1>4 DEF Stream!StreamNext

(* A step that gives the program at e what is in flight delivers it.       *)
LEMMA DeliverStep ==
    ASSUME NEW e \in Ends, NEW d, NEW t, NEW r, NEW q,
           d \in Seq(Bytes), t \in Seq(Bytes), r \in Seq(Bytes), q \in Seq(Bytes),
           delivered \in [Ends -> Seq(Bytes)], delivered[e] = d,
           delivered' = [delivered EXCEPT ![e] = d \o t],
           Sent(Peer(e)) = ((d \o t) \o r) \o q,
           \A c \in Ends : Sent(c)' = Sent(c)
    PROVE  Stream!StreamNext
<1>1. Stream!IsPrefix(d, d \o t) /\ Stream!IsPrefix(d \o t, Sent(Peer(e)))
  <2>1. d \o t \in Seq(Bytes)
    BY ConcatFacts
  <2>2. Stream!IsPrefix(d \o t, ((d \o t) \o r) \o q)
    BY <2>1, PrefixConcatTwice
  <2> QED BY <2>2, PrefixConcat
<1>2. Peer(e) \in Ends
  BY PeerFacts
<1>3. [c \in Ends |-> Sent(c)]' = [c \in Ends |-> Sent(c)]
  OBVIOUS
<1>4. delivered'[e] = d \o t /\ delivered' = [delivered EXCEPT ![e] = delivered'[e]]
  OBVIOUS
<1>5. Stream!Deliver(e)
  BY <1>1, <1>2, <1>3, <1>4 DEF Stream!Deliver, Sent, Queue
<1> QED BY <1>5 DEF Stream!StreamNext

(* The stream of an endpoint starts with what its peer has been given.     *)
StreamInv ==
    \A e \in Ends :
       /\ Sent(e) = (delivered[Peer(e)] \o Pending(e)) \o Queue(e)
       /\ staged[e] = delivered[Peer(e)] \o Pending(e)
       /\ delivered[Peer(e)] \in Seq(Bytes) /\ Pending(e) \in Seq(Bytes)
       /\ Queue(e) \in Seq(Bytes) /\ Sent(e) \in Seq(Bytes)

(* ... because every message is delivered exactly once, but the last.      *)
LEMMA StreamShape == TypeOK /\ ExactlyOnce => StreamInv
<1> SUFFICES ASSUME TypeOK, ExactlyOnce, NEW e \in Ends
             PROVE  /\ Sent(e) = (delivered[Peer(e)] \o Pending(e)) \o Queue(e)
                    /\ staged[e] = delivered[Peer(e)] \o Pending(e)
                    /\ delivered[Peer(e)] \in Seq(Bytes) /\ Pending(e) \in Seq(Bytes)
                    /\ Queue(e) \in Seq(Bytes) /\ Sent(e) \in Seq(Bytes)
  BY DEF StreamInv
<1>1. /\ delivered[Peer(e)] \in Seq(Bytes) /\ staged[e] \in Seq(Bytes)
      /\ reliable_buf[e] \in Seq(Bytes) /\ message[e] \in Seq(Bytes)
  BY LineType, PeerFacts
<1>2. <<>> \in Seq(Bytes)
  OBVIOUS
<1>3. Pending(e) \in Seq(Bytes) /\ Queue(e) \in Seq(Bytes)
  BY <1>1, <1>2 DEF Pending, Queue
<1>4. staged[e] = delivered[Peer(e)] \o Pending(e)
  BY DEF ExactlyOnce
<1> DEFINE s == staged[e]
           q == Queue(e)
<1>5. s \o q \in Seq(Bytes)
  <2>1. s \in Seq(Bytes) /\ q \in Seq(Bytes)
    BY <1>1, <1>3
  <2> HIDE DEF s, q
  <2> QED BY <2>1, ConcatFacts
<1> QED BY <1>1, <1>3, <1>4, <1>5 DEF Sent

(* A message that is sent as it is queued is the abstract stream's stutter.*)
LEMMA TransmitStutter ==
    ASSUME TypeOK, NEW e \in Ends, Netchan_Transmit(e, message[e]),
           overflowed' = overflowed, ~overflowed[e]
    PROVE  delivered' = delivered /\ \A c \in Ends : Sent(c)' = Sent(c)
<1>1. message[e] \in Seq(Bytes)
  BY LineType
<1>2. /\ Line(e)' = Line(e) /\ delivered' = delivered
      /\ staged'[Peer(e)] = staged[Peer(e)] /\ message'[Peer(e)] = message[Peer(e)]
  BY <1>1, TransmitLine DEF Line
<1>3. Sent(e)' = Sent(e)
  BY <1>2 DEF Sent, Queue, Line
<1>4. Sent(Peer(e))' = Sent(Peer(e))
  BY <1>2 DEF Sent, Queue
<1> QED BY <1>2, <1>3, <1>4, PeerFacts

(* Every step of the channel is a step of the abstract stream, or none.    *)
LEMMA StreamStep ==
    ASSUME TypeOK, TypeOK', StreamInv, StreamInv', [Next]_vars
    PROVE  [Stream!StreamNext]_(Stream!svars)
<1>0. SUFFICES ASSUME ~(delivered' = delivered /\ \A c \in Ends : Sent(c)' = Sent(c))
               PROVE  Stream!StreamNext
  <2>1. (\A c \in Ends : Sent(c)' = Sent(c)) => [c \in Ends |-> Sent(c)]' = [c \in Ends |-> Sent(c)]
    OBVIOUS
  <2> QED BY <2>1 DEF Stream!svars, Sent, Queue
<1>1. ASSUME NEW e \in Ends, NEW n \in BlockSizes, Write(e, n) PROVE Stream!StreamNext
  <2>0. PICK p \in Ends : p = Peer(e) /\ p # e /\ \A c \in Ends : c = e \/ c = p
    BY PeerFacts
  <2> DEFINE block == [i \in 1 .. n |-> written[e] + i]
             fits  == Len(message[e]) + n <= MaxSize
             st == staged[e]
             ms == message[e]
  <2>1. block \in Seq(Bytes)
    <3>1. n \in 1 .. MaxSize /\ MaxSize \in Nat /\ MaxWritten \in Nat
      BY NetChanAssumption
    <3>2. written[e] \in Nat
      BY LineType
    <3>3. written[e] + n <= MaxWritten
      BY <1>1 DEF Write
    <3> QED BY <3>1, <3>2, <3>3 DEF Bytes
  <2>2. /\ staged' = staged /\ delivered' = delivered
        /\ message'[e] = (IF fits THEN ms \o block ELSE block)
        /\ message'[p] = message[p]
        /\ overflowed'[e] = (overflowed[e] \/ ~fits) /\ overflowed'[p] = overflowed[p]
    BY <1>1, <2>0 DEF Write, TypeOK, BuffersTypeOK
  <2>3. Sent(p)' = Sent(p)
    BY <2>2 DEF Sent, Queue
  <2>4. st \in Seq(Bytes) /\ ms \in Seq(Bytes)
    BY LineType
  <2>5. /\ Sent(e) = (delivered[p] \o Pending(e)) \o Queue(e)
        /\ st = delivered[p] \o Pending(e)
        /\ delivered[p] \in Seq(Bytes) /\ Pending(e) \in Seq(Bytes)
        /\ Queue(e) \in Seq(Bytes) /\ Sent(e) \in Seq(Bytes)
    BY <2>0 DEF StreamInv
  <2>6. /\ Sent(e)' = (delivered'[p] \o Pending(e)') \o Queue(e)'
        /\ Pending(e)' \in Seq(Bytes) /\ Queue(e)' \in Seq(Bytes)
    BY <2>0 DEF StreamInv
  <2>7. Sent(e) = st \o Queue(e) /\ Sent(e)' = st \o Queue(e)'
    BY <2>2 DEF Sent
  <2> HIDE DEF block, fits, st, ms
  <2>8. CASE fits /\ ~overflowed[e]
    <3>1. Queue(e) = ms /\ Queue(e)' = ms \o block
      BY <2>2, <2>8 DEF Queue, ms
    <3>2. Sent(e)' = Sent(e) \o block
      <4>1. st \o (ms \o block) = (st \o ms) \o block
        BY <2>1, <2>4, ConcatAssociative
      <4> QED BY <2>7, <3>1, <4>1
    <3> QED BY <2>0, <2>1, <2>2, <2>3, <2>5, <2>6, <3>2, SubmitStep
  <2>9. CASE overflowed[e]
    <3>1. Queue(e) = <<>> /\ Queue(e)' = <<>>
      BY <2>2, <2>9 DEF Queue
    <3> QED BY <1>0, <2>0, <2>2, <2>3, <2>7, <3>1
  <2>10. CASE ~fits /\ ~overflowed[e]
    <3>1. Queue(e) = ms /\ Queue(e)' = <<>>
      BY <2>2, <2>10 DEF Queue, ms
    <3>2. st \o <<>> = st
      BY <2>4
    <3>3. Sent(e)' = delivered[p] \o Pending(e)
      BY <2>5, <2>7, <3>1, <3>2
    <3> QED BY <2>0, <2>2, <2>3, <2>5, <3>3, WithdrawStep
  <2> QED BY <2>8, <2>9, <2>10
<1>2. CASE CL_SendCmd
  BY <1>0, <1>2, TransmitStutter DEF CL_SendCmd, Ends
<1>3. CASE CL_DropCmd
  BY <1>0, <1>3 DEF CL_DropCmd, buffers, history, Sent, Queue
<1>4. CASE SV_SendClientMessages
  <2>0. PICK s \in Ends, p \in Ends : s = "NS_SERVER" /\ p = Peer(s) /\ p # s /\ \A c \in Ends : c = s \/ c = p
    BY PeerFacts DEF Ends
  <2>1. /\ overflowed'[s] = FALSE /\ overflowed'[p] = overflowed[p]
        /\ overflowed' = [overflowed EXCEPT ![s] = FALSE]
        /\ \E notice, parting \in BOOLEAN :
              Netchan_Transmit(s, IF overflowed[s] THEN Farewell(notice, parting) ELSE message[s])
    BY <1>4, <2>0 DEF SV_SendClientMessages, TypeOK, BuffersTypeOK
  <2>2. CASE ~overflowed[s]
    <3>1. overflowed' = overflowed
      BY <2>1, <2>2 DEF TypeOK, BuffersTypeOK
    <3> QED BY <1>0, <2>1, <2>2, <3>1, TransmitStutter
  <2>3. CASE overflowed[s]
    <3>1. PICK q \in Seq(Bytes) : Netchan_Transmit(s, q)
      BY <2>1, <2>3, FarewellFacts
    <3>2. /\ Line(s)' = staged[s] \o q /\ delivered' = delivered
          /\ staged'[p] = staged[p] /\ message'[p] = message[p]
      BY <2>0, <2>1, <2>3, <3>1, TransmitLine
    <3>3. Sent(p)' = Sent(p)
      BY <2>1, <3>2 DEF Sent, Queue
    <3>4. staged[s] \in Seq(Bytes)
      BY LineType
    <3>5. Sent(s) = staged[s] /\ Sent(s)' = staged[s] \o q
      <4>1. staged[s] \o <<>> = staged[s]
        BY <3>4
      <4> QED BY <2>1, <2>3, <3>2, <4>1 DEF Sent, Queue, Line
    <3>6. /\ Sent(s)' = (delivered'[p] \o Pending(s)') \o Queue(s)'
          /\ Pending(s)' \in Seq(Bytes) /\ Queue(s)' \in Seq(Bytes)
          /\ delivered[p] \in Seq(Bytes) /\ Sent(s) \in Seq(Bytes)
      BY <2>0 DEF StreamInv
    <3> QED BY <2>0, <3>1, <3>2, <3>3, <3>5, <3>6, SubmitStep
  <2> QED BY <2>2, <2>3
<1>5. CASE SV_ChokeClient
  BY <1>0, <1>5 DEF SV_ChokeClient, buffers, history, Sent, Queue
<1>6. CASE SV_SendMessagesToAll
  BY <1>0, <1>6, TransmitStutter DEF SV_SendMessagesToAll, Ends
<1>7. ASSUME NEW e \in Ends, NEW m \in net[Peer(e)], NEW copy \in BOOLEAN, ReadPacket(e, m, copy)
      PROVE  Stream!StreamNext
  <2>1. UNCHANGED <<staged, message, overflowed>>
    BY <1>7 DEF ReadPacket, Netchan_Process, buffers, history
  <2>2. \A c \in Ends : Sent(c)' = Sent(c)
    BY <2>1 DEF Sent, Queue
  <2>3. CASE m.seq <= incoming_sequence[e]
    BY <1>0, <1>7, <2>2, <2>3 DEF ReadPacket, history
  <2>4. CASE ~(m.seq <= incoming_sequence[e])
    <3>0. PICK p \in Ends : p = Peer(e) /\ p # e /\ Peer(p) = e
      BY PeerFacts
    <3>1. delivered' = [delivered EXCEPT ![e] = delivered[e] \o m.data]
      BY <1>7, <2>4 DEF ReadPacket, Netchan_Process
    <3>2. m.data \in Seq(Bytes) /\ delivered[e] \in Seq(Bytes) /\ delivered \in [Ends -> Seq(Bytes)]
      BY <3>0, TypedFacts, LineType DEF TypeOK, HistoryTypeOK
    <3>3. delivered'[e] = delivered[e] \o m.data
      BY <3>1, <3>2
    <3>4. /\ Sent(p)' = (delivered'[e] \o Pending(p)') \o Queue(p)'
          /\ Pending(p)' \in Seq(Bytes) /\ Queue(p)' \in Seq(Bytes)
      BY <3>0 DEF StreamInv
    <3>5. Sent(p) = ((delivered[e] \o m.data) \o Pending(p)') \o Queue(p)'
      BY <2>2, <3>3, <3>4
    <3> QED BY <2>2, <3>0, <3>1, <3>2, <3>4, <3>5, DeliverStep
  <2> QED BY <2>3, <2>4
<1>8. ASSUME NEW e \in Ends, NEW m \in net[e], Lose(e, m) PROVE Stream!StreamNext
  BY <1>0, <1>8 DEF Lose, buffers, program, history, Sent, Queue
<1>9. CASE UNCHANGED vars
  BY <1>0, <1>9 DEF vars, buffers, program, history, Sent, Queue
<1> QED BY <1>1, <1>2, <1>3, <1>4, <1>5, <1>6, <1>7, <1>8, <1>9
  DEF Next, CL_ReadPackets, SV_ReadPackets, Ends, Peer

(* The channel implements the reliable stream: every datum once, in order, *)
(* and only what is not yet in flight can be taken back (net_chan.c).      *)
THEOREM ChannelImplementsStream == Spec => ImplementsStream
<1>1. Init => Stream!StreamInit
  BY PeerFacts DEF Init, Stream!StreamInit, Ends
<1>2. TypeOK /\ TypeOK' /\ StreamInv /\ StreamInv' /\ [Next]_vars => [Stream!StreamNext]_(Stream!svars)
  BY StreamStep
<1>3. TypeOK /\ ExactlyOnce => StreamInv
  BY StreamShape
<1> QED BY <1>1, <1>2, <1>3, ChannelInvariant, PTL DEF Spec, ImplementsStream, Stream!StreamSpec
=============================================================================
