---------------------------- MODULE DelayQueues ----------------------------
(***************************************************************************)
(* What the lists of delayed packets promise: each connection has a queue  *)
(* from which its packets are executed in the order in which they arrived, *)
(* and one whose delay is over overtakes none that waits.  All queues      *)
(* share a number of places.  A queue whose slot is cleared loses its      *)
(* packets, and its places for good.                                       *)
(***************************************************************************)
EXTENDS Naturals, Sequences

CONSTANTS Slots,     \* of the clients, one queue each
          Numbers,   \* packets, numbered in the order of arrival
          Places

VARIABLES held,  \* packets that wait, oldest first
          done,  \* the last packet executed
          room   \* places left

vars == <<held, done, room>>

Init ==
    /\ held = [c \in Slots |-> <<>>]
    /\ done = [c \in Slots |-> 0]
    /\ room = Places

Latest(c) == IF held[c] = <<>> THEN done[c] ELSE held[c][Len(held[c])]

Hold(c, n) ==
    /\ room > 0 /\ n > Latest(c)
    /\ held' = [held EXCEPT ![c] = Append(held[c], n)]
    /\ room' = room - 1
    /\ UNCHANGED done

Release(c) ==
    /\ held[c] # <<>>
    /\ done' = [done EXCEPT ![c] = Head(held[c])]
    /\ held' = [held EXCEPT ![c] = Tail(held[c])]
    /\ room' = room + 1

Execute(c, n) ==
    /\ held[c] = <<>> /\ n > done[c]
    /\ done' = [done EXCEPT ![c] = n]
    /\ UNCHANGED <<held, room>>

(* Another connection takes the slot, or the server is shut down.          *)
Clear(C) ==
    /\ held' = [c \in Slots |-> IF c \in C THEN <<>> ELSE held[c]]
    /\ done' \in [Slots -> Numbers \cup {0}]
    /\ \A c \in Slots \ C : done'[c] = done[c]
    /\ UNCHANGED room

Next ==
    \/ \E c \in Slots :
          \/ Release(c)
          \/ \E n \in Numbers : Hold(c, n) \/ Execute(c, n)
    \/ \E C \in SUBSET Slots : Clear(C)

Spec == Init /\ [][Next]_vars
=============================================================================
