------------------------------ MODULE MCNetChan ------------------------------
(***************************************************************************)
(* NetChan under the pace of the two main loops, for liveness: the client  *)
(* sends a packet per frame while a reliable message is outstanding, and   *)
(* the answers of the server keep up with it to within MaxLag packets.     *)
(***************************************************************************)
EXTENDS NetChan

CONSTANT MaxLag          \* bound: packets sent since the last one acknowledged

Outstanding(e) == message[e] # <<>> \/ reliable_buf[e] # <<>>

Paced ==
    /\ \E e \in Ends : Outstanding(e)
    /\ outgoing_sequence["NS_CLIENT"] - incoming_acknowledged["NS_CLIENT"] < MaxLag * (1 + faults)

PacedNext == Next /\ (outgoing_sequence'["NS_CLIENT"] # outgoing_sequence["NS_CLIENT"] => Paced)

(* Each program runs its frames, and each frame sends and reads.           *)
PacedSpec ==
    /\ Init /\ [][PacedNext]_vars
    /\ WF_vars(CL_SendCmd /\ Paced)
    /\ WF_vars(SV_SendClientMessages)
    /\ WF_vars(CL_ReadPackets)
    /\ WF_vars(SV_ReadPackets)

(* The channel has given up: a program has stopped, or an overflow has     *)
(* silenced the client or had it dropped.                                  *)
Failed == sys_error["NS_CLIENT"] \/ overflowed["NS_CLIENT"] \/ dropped

(* Whatever the faults, a reliable message gets through and is known to    *)
(* have got through.                                                       *)
ReliableArrives == \A e \in Ends : Outstanding(e) ~> (~Outstanding(e) \/ Failed)
=============================================================================
