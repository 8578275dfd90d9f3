--------------------------- MODULE ReliableStream ---------------------------
(***************************************************************************)
(* What the netchan promises the two programs that talk over it.  Each     *)
(* endpoint hands the channel a stream of data; the other endpoint is      *)
(* given that stream in order, each datum once and nothing else.  Data     *)
(* that no packet has carried yet may be taken back: the buffer of queued  *)
(* data is emptied when it overflows or when a program clears it.          *)
(***************************************************************************)
EXTENDS Integers, Sequences, SequencesExt

CONSTANTS Endpoints,      \* the two ends of the channel
          Other,          \* Other[e]: the endpoint e talks to
          Data            \* what a stream is made of

VARIABLES sent,           \* sent[e]: what e has put on the channel and not taken back
          rcvd            \* rcvd[e]: what the program at e has been given

svars == <<sent, rcvd>>

StreamTypeOK ==
    /\ sent \in [Endpoints -> Seq(Data)]
    /\ rcvd \in [Endpoints -> Seq(Data)]

StreamInit ==
    /\ sent = [e \in Endpoints |-> <<>>]
    /\ rcvd = [e \in Endpoints |-> <<>>]

(* The stream of e changes to s, which keeps all that the peer has seen.   *)
NewStream(e, s) ==
    /\ IsPrefix(rcvd[Other[e]], s)
    /\ sent' = [sent EXCEPT ![e] = s]
    /\ UNCHANGED rcvd

Submit(e) ==
    /\ IsPrefix(sent[e], sent'[e])
    /\ NewStream(e, sent'[e])

Withdraw(e) ==
    /\ IsPrefix(sent'[e], sent[e])
    /\ NewStream(e, sent'[e])

Deliver(e) ==
    /\ rcvd' = [rcvd EXCEPT ![e] = rcvd'[e]]
    /\ IsPrefix(rcvd[e], rcvd'[e])
    /\ IsPrefix(rcvd'[e], sent[Other[e]])
    /\ UNCHANGED sent

StreamNext == \E e \in Endpoints : Submit(e) \/ Withdraw(e) \/ Deliver(e)

StreamSpec == StreamInit /\ [][StreamNext]_svars
=============================================================================
