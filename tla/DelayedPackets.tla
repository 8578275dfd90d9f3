--------------------------- MODULE DelayedPackets ---------------------------
(***************************************************************************)
(* Packets the server holds back (sv_main.c, SV_ReadPackets).              *)
(*                                                                         *)
(* With sv_minping a client whose ping is too good is given a delay: its   *)
(* packets are taken from the socket, put in a list of the client's slot   *)
(* and executed when they are old enough.  All slots take the entries of   *)
(* their lists from one pool, svs.free_packets.  The lists are modelled    *)
(* with the pointers of the code.  A frame of the server first releases    *)
(* what is ripe, slot after slot, then reads the socket; an execution may  *)
(* change the delay, drop the client or pause the game, and a connect      *)
(* among the new packets may give a slot away.                             *)
(***************************************************************************)
EXTENDS Integers, Sequences, FiniteSets

CONSTANTS
    MAX_CLIENTS,            \* slots
    MAX_DELAYED_PACKETS,    \* entries of the pool
    Addresses,              \* where packets come from
    MaxDelay,               \* largest delay, in steps of a millisecond
    MaxArrivals,            \* bound: packets that arrive in a behaviour
    MaxSocket               \* bound: packets that wait in the socket

ASSUME DelayedPacketsAssumption ==
    /\ {MAX_CLIENTS, MAX_DELAYED_PACKETS, MaxDelay, MaxArrivals, MaxSocket}
          \subseteq Nat \ {0}
    /\ IsFiniteSet(Addresses)

NULL == 0
Slots == 1 .. MAX_CLIENTS
Blocks == 1 .. MAX_DELAYED_PACKETS
Pointers == Blocks \cup {NULL}
Nobody == "nobody"

VARIABLES
    state,          \* of each slot; the three connected states are one here
    remote_address,
    delay,
    packets,        \* head of the list of each slot
    last_packet,    \* its tail, valid while there is a head
    free_packets,   \* head of the pool
    next,           \* link of each block
    msg,            \* the packet in it
    age,            \* realtime - time, up to MaxDelay
    paused,
    socket,         \* datagrams not read yet, in the order of arrival
    arrived,        \* number of the last of them
    pc,             \* what SV_Frame does: nothing, the first loop, the second
    cl,             \* slot of the first loop
    executed        \* last packet executed for the connection of each slot

lists == <<packets, last_packet, free_packets, next, msg, age>>
slots == <<state, remote_address, delay, executed>>
vars == <<lists, slots, paused, socket, arrived, pc, cl>>

States == {"cs_free", "cs_zombie", "cs_connected"}
Kinds == {"connect", "data"}
Datagrams == [kind : Kinds, from : Addresses, n : 1 .. MaxArrivals]

Init ==
    /\ state = [s \in Slots |-> "cs_free"]
    /\ remote_address = [s \in Slots |-> Nobody]
    /\ delay = [s \in Slots |-> 0]
    /\ packets = [s \in Slots |-> NULL]
    /\ last_packet = [s \in Slots |-> NULL]
    /\ free_packets = 1
    /\ next = [b \in Blocks |-> IF b = MAX_DELAYED_PACKETS THEN NULL ELSE b + 1]
    /\ msg = [b \in Blocks |-> 0]
    /\ age = [b \in Blocks |-> 0]
    /\ paused = FALSE
    /\ socket = <<>>
    /\ arrived = 0
    /\ pc = "idle"
    /\ cl = 1
    /\ executed = [s \in Slots |-> 0]

-----------------------------------------------------------------------------
(* A datagram reaches the socket.  The second loop reads until the socket  *)
(* is empty, so one that comes while it runs counts as one that came       *)
(* before the frame.                                                       *)
Arrive(k, a) ==
    /\ pc = "idle"
    /\ arrived < MaxArrivals /\ Len(socket) < MaxSocket
    /\ arrived' = arrived + 1
    /\ socket' = Append(socket, [kind |-> k, from |-> a, n |-> arrived + 1])
    /\ UNCHANGED <<lists, slots, paused, pc, cl>>

(* The slots SV_CheckTimeouts may free: zombies whose two seconds are over *)
(* and clients that have been silent for long.  Only the state changes.  A *)
(* paused game goes on when nobody plays in it; those connected may all be *)
(* spectators.                                                             *)
SV_CheckTimeouts(freed) ==
    /\ state' = [s \in Slots |-> IF s \in freed THEN "cs_free" ELSE state[s]]
    /\ paused' \in {paused, FALSE}

(* The start of a frame: time passes unless the game is paused.            *)
SV_Frame(freed) ==
    /\ pc = "idle"
    /\ \A s \in freed : state[s] # "cs_free"
    /\ SV_CheckTimeouts(freed)
    /\ age' = [b \in Blocks |->
                 IF paused \/ msg[b] = 0 \/ age[b] = MaxDelay THEN age[b] ELSE age[b] + 1]
    /\ pc' = "delayed"
    /\ cl' = 1
    /\ UNCHANGED <<packets, last_packet, free_packets, next, msg, remote_address,
                   delay, executed, socket, arrived>>

(* SV_Shutdown forgets the slots; the next game starts on the same pool.   *)
SV_Shutdown ==
    /\ pc = "idle"
    /\ \E s \in Slots : state[s] # "cs_free"
    /\ state' = [s \in Slots |-> "cs_free"]
    /\ remote_address' = [s \in Slots |-> Nobody]
    /\ delay' = [s \in Slots |-> 0]
    /\ executed' = [s \in Slots |-> 0]
    /\ packets' = [s \in Slots |-> NULL]
    /\ last_packet' = [s \in Slots |-> NULL]
    /\ socket' = <<>>
    /\ paused' = FALSE
    /\ UNCHANGED <<free_packets, next, msg, age, arrived, pc, cl>>

-----------------------------------------------------------------------------
(* What executing packet n for slot s may do: move the delay one step      *)
(* towards the wanted ping, not while paused nor for a spectator or a      *)
(* packet the channel refuses; drop the client, or revive it with a begin; *)
(* pause or resume the game.                                               *)
SV_ExecuteClientMessage(s, n) ==
    /\ executed' = [executed EXCEPT ![s] = n]
    /\ \E d \in {x \in {delay[s] - 1, delay[s], delay[s] + 1} : x \in 0 .. MaxDelay} :
          /\ paused => d = delay[s]
          /\ delay' = [delay EXCEPT ![s] = d]
    /\ \E new \in States \ {"cs_free"} : state' = [state EXCEPT ![s] = new]
    /\ paused' \in BOOLEAN
    /\ UNCHANGED remote_address

(* Mutant: the block is taken off the list and not given back.             *)
SV_FreeHeadDelayedPacket_Loses(s) ==
    /\ packets' = [packets EXCEPT ![s] = next[packets[s]]]
    /\ UNCHANGED <<last_packet, free_packets, next, msg, age>>

(* The head of the list goes back to the pool; what it held is not read    *)
(* again.                                                                  *)
SV_FreeHeadDelayedPacket(s) ==
    LET b == packets[s] IN
    /\ packets' = [packets EXCEPT ![s] = next[b]]
    /\ next' = [next EXCEPT ![b] = free_packets]
    /\ free_packets' = b
    /\ msg' = [msg EXCEPT ![b] = 0]
    /\ age' = [age EXCEPT ![b] = 0]
    /\ UNCHANGED last_packet

(* Mutant: only clients that are connected are looked at.                  *)
Ripe_Connected(s) ==
    /\ state[s] = "cs_connected"
    /\ packets[s] # NULL
    /\ age[packets[s]] >= delay[s] \/ paused

Ripe(s) ==
    /\ state[s] # "cs_free"
    /\ packets[s] # NULL
    /\ age[packets[s]] >= delay[s] \/ paused

(* The first loop of SV_ReadPackets: one held packet ...                   *)
ReleaseDelayed ==
    /\ pc = "delayed"
    /\ Ripe(cl)
    /\ SV_ExecuteClientMessage(cl, msg[packets[cl]])
    /\ SV_FreeHeadDelayedPacket(cl)
    /\ UNCHANGED <<socket, arrived, pc, cl>>

(* ... or on to the next slot, and after the last one to the second loop.  *)
NextDelayed ==
    /\ pc = "delayed"
    /\ ~Ripe(cl)
    /\ IF cl = MAX_CLIENTS THEN cl' = 1 /\ pc' = "new" ELSE cl' = cl + 1 /\ pc' = pc
    /\ UNCHANGED <<lists, slots, paused, socket, arrived>>

-----------------------------------------------------------------------------
(* The slot a datagram belongs to, the first one that matches.             *)
Matching(a) == {s \in Slots : state[s] # "cs_free" /\ remote_address[s] = a}
First(S) == CHOOSE s \in S : \A t \in S : s <= t

(* Mutant: the list of the slot outlives its client.                       *)
SVC_DirectConnect_KeepsPackets(a, n) ==
    LET own == IF Matching(a) = {} THEN {} ELSE {First(Matching(a))}
        free == {s \in Slots : state[s] = "cs_free"} \cup own
        new == First(free)
        left == [s \in Slots |-> IF s \in own THEN "cs_free" ELSE state[s]]
    IN  IF free = {}
        THEN UNCHANGED <<slots, lists>>
        ELSE /\ state' = [left EXCEPT ![new] = "cs_connected"]
             /\ remote_address' = [remote_address EXCEPT ![new] = a]
             /\ delay' = [delay EXCEPT ![new] = 0]
             /\ executed' = [executed EXCEPT ![new] = n]
             /\ UNCHANGED lists

(* A connect gives the address's own slot away (CheckReConnect), takes the *)
(* first free one and clears all of it; if it comes before                 *)
(* sv_reconnectlimit is over, it is refused.                               *)
SVC_DirectConnect(a, n) ==
    LET own == IF Matching(a) = {} THEN {} ELSE {First(Matching(a))}
        free == {s \in Slots : state[s] = "cs_free"} \cup own
        new == First(free)
        left == [s \in Slots |-> IF s \in own THEN "cs_free" ELSE state[s]]
    IN  \/ /\ free = {} \/ own # {}
           /\ UNCHANGED <<slots, lists>>
        \/ /\ free # {}
           /\ state' = [left EXCEPT ![new] = "cs_connected"]
           /\ remote_address' = [remote_address EXCEPT ![new] = a]
           /\ delay' = [delay EXCEPT ![new] = 0]
           /\ executed' = [executed EXCEPT ![new] = n]
           /\ packets' = [packets EXCEPT ![new] = NULL]
           /\ last_packet' = [last_packet EXCEPT ![new] = NULL]
           /\ UNCHANGED <<free_packets, next, msg, age>>

(* Mutant: the tail is not moved to the block just added.                  *)
HoldPacket_OldTail(s, n) ==
    LET b == free_packets IN
    /\ IF packets[s] = NULL
       THEN /\ packets' = [packets EXCEPT ![s] = b]
            /\ next' = [next EXCEPT ![b] = NULL]
            /\ last_packet' = [last_packet EXCEPT ![s] = b]
       ELSE /\ UNCHANGED <<packets, last_packet>>
            /\ next' = [next EXCEPT ![last_packet[s]] = b, ![b] = NULL]
    /\ free_packets' = next[b]
    /\ msg' = [msg EXCEPT ![b] = n]
    /\ age' = [age EXCEPT ![b] = 0]

(* Mutant: the block becomes the head of the list.                         *)
HoldPacket_AtHead(s, n) ==
    LET b == free_packets IN
    /\ packets' = [packets EXCEPT ![s] = b]
    /\ next' = [next EXCEPT ![b] = packets[s]]
    /\ last_packet' = [last_packet EXCEPT ![s] = IF packets[s] = NULL THEN b ELSE @]
    /\ free_packets' = next[b]
    /\ msg' = [msg EXCEPT ![b] = n]
    /\ age' = [age EXCEPT ![b] = 0]

(* A block of the pool is linked to the end of the slot's list.            *)
HoldPacket(s, n) ==
    LET b == free_packets IN
    /\ packets' = [packets EXCEPT ![s] = IF @ = NULL THEN b ELSE @]
    /\ next' = [p \in Blocks |->
                  IF p = b THEN NULL
                  ELSE IF packets[s] # NULL /\ p = last_packet[s] THEN b
                  ELSE next[p]]
    /\ last_packet' = [last_packet EXCEPT ![s] = b]
    /\ free_packets' = next[b]
    /\ msg' = [msg EXCEPT ![b] = n]
    /\ age' = [age EXCEPT ![b] = 0]

(* The second loop: a connect, ...                                         *)
ReadConnect ==
    /\ pc = "new" /\ socket # <<>>
    /\ Head(socket).kind = "connect"
    /\ SVC_DirectConnect(Head(socket).from, Head(socket).n)
    /\ socket' = Tail(socket)
    /\ UNCHANGED <<paused, arrived, pc, cl>>

(* ... a packet of a client, held back, executed at once, or lost together *)
(* with the rest of the loop because the pool is empty, ...                *)
ReadData ==
    /\ pc = "new" /\ socket # <<>>
    /\ Head(socket).kind = "data"
    /\ LET n == Head(socket).n
           of == Matching(Head(socket).from)
           s == First(of)
       IN  /\ socket' = Tail(socket)
           /\ pc' = IF of # {} /\ delay[s] > 0 /\ free_packets = NULL THEN "idle" ELSE pc
           /\ IF of = {} \/ (delay[s] > 0 /\ free_packets = NULL)
              THEN UNCHANGED <<lists, slots, paused>>
              ELSE IF delay[s] > 0
              THEN HoldPacket(s, n) /\ UNCHANGED <<slots, paused>>
              ELSE SV_ExecuteClientMessage(s, n) /\ UNCHANGED lists
    /\ UNCHANGED <<arrived, cl>>

(* ... until the socket is empty.                                          *)
SocketEmpty ==
    /\ pc = "new" /\ socket = <<>>
    /\ pc' = "idle"
    /\ UNCHANGED <<lists, slots, paused, socket, arrived, cl>>

Next ==
    \/ \E k \in Kinds, a \in Addresses : Arrive(k, a)
    \/ \E freed \in SUBSET Slots : SV_Frame(freed)
    \/ SV_Shutdown
    \/ ReleaseDelayed
    \/ NextDelayed
    \/ ReadConnect
    \/ ReadData
    \/ SocketEmpty

Spec == Init /\ [][Next]_vars

(* The host runs frames, and each of them to its end.                      *)
FairSpec ==
    /\ Spec
    /\ WF_vars(SV_Frame({}))
    /\ WF_vars(ReleaseDelayed \/ NextDelayed)
    /\ WF_vars(ReadConnect \/ ReadData \/ SocketEmpty)

-----------------------------------------------------------------------------
(* The list that starts at p: the blocks one comes upon along nx until it  *)
(* ends, none of them twice.                                               *)
Injective(q) == \A i, j \in DOMAIN q : i # j => q[i] # q[j]
Elements(q) == {q[i] : i \in DOMAIN q}
Chains == {q \in UNION {[1 .. n -> Blocks] : n \in 0 .. MAX_DELAYED_PACKETS} : Injective(q)}
Linked(nx, p, q) ==
    IF q = <<>>
    THEN p = NULL
    ELSE /\ p = q[1]
         /\ \A i \in DOMAIN q : nx[q[i]] = IF i = Len(q) THEN NULL ELSE q[i + 1]

List(nx, p) == CHOOSE q \in Chains : Linked(nx, p, q)
Pool == List(next, free_packets)
Held(s) == List(next, packets[s])
Waiting(s) == [i \in DOMAIN Held(s) |-> msg[Held(s)[i]]]

TypeOK ==
    /\ state \in [Slots -> States]
    /\ remote_address \in [Slots -> Addresses \cup {Nobody}]
    /\ delay \in [Slots -> 0 .. MaxDelay]
    /\ packets \in [Slots -> Pointers]
    /\ last_packet \in [Slots -> Pointers]
    /\ free_packets \in Pointers
    /\ next \in [Blocks -> Pointers]
    /\ msg \in [Blocks -> 0 .. MaxArrivals]
    /\ age \in [Blocks -> 0 .. MaxDelay]
    /\ paused \in BOOLEAN
    /\ socket \in Seq(Datagrams) /\ Len(socket) <= MaxSocket
    /\ arrived \in 0 .. MaxArrivals
    /\ pc \in {"idle", "delayed", "new"}
    /\ cl \in Slots
    /\ executed \in [Slots -> 0 .. MaxArrivals]

(* The links never mix up the lists: the pool and the lists of the slots   *)
(* have no block in common and none twice, what lies in a slot's list is a *)
(* packet, and last_packet is the end of a list that is not empty          *)
(* (SV_ReadPackets and SV_FreeHeadDelayedPacket together; also after a     *)
(* slot or the whole server has been cleared around them).                 *)
ListsEnd ==
    \A p \in {free_packets} \cup {packets[s] : s \in Slots} :
        \E q \in Chains : Linked(next, p, q)
ListsApart ==
    /\ ListsEnd
    /\ \A s \in Slots :
          /\ Elements(Held(s)) \cap Elements(Pool) = {}
          /\ \A t \in Slots : t # s => Elements(Held(s)) \cap Elements(Held(t)) = {}
          /\ \A b \in Elements(Held(s)) : msg[b] # 0
          /\ packets[s] # NULL => last_packet[s] = Held(s)[Len(Held(s))]

(* The types, and lists that stay apart.                                   *)
ListsInv == TypeOK /\ ListsApart

(* The packets of a connection are executed in the order they arrived in,  *)
(* each at most once and none of an earlier connection's, although the     *)
(* delay changes with every one of them and some are executed from the     *)
(* list and others straight from the socket: the last one executed, those  *)
(* held and those in the socket are in order (SV_ReadPackets).             *)
Ordered(e, q, r) ==
    /\ \A i \in DOMAIN q : e < q[i]
    /\ \A i, j \in DOMAIN q : i < j => q[i] < q[j]
    /\ \A k \in DOMAIN r : e < r[k].n /\ \A i \in DOMAIN q : q[i] < r[k].n
InArrivalOrder ==
    \A s \in Slots : state[s] # "cs_free" => Ordered(executed[s], Waiting(s), socket)

Holding(s) == state[s] # "cs_free" /\ packets[s] # NULL

(* Nothing waits for ever: once no more packets arrive, the list of every  *)
(* slot in use runs empty, a zombie's as well, and so does the socket,     *)
(* although a frame stops reading when the pool is empty, and even when    *)
(* the pool stays empty for ever (the two loops of SV_ReadPackets).        *)
PacketsMoveOn ==
    /\ \A s \in Slots : Holding(s) ~> ~Holding(s)
    /\ socket # <<>> ~> socket = <<>>

(* A block leaves the pool and the lists only when its slot is cleared     *)
(* around it, by a connect or by SV_Shutdown; whatever else happens to a   *)
(* client, its packets come back.  (That clearing a slot loses them is a   *)
(* flaw of the code: SV_FreeDelayedPackets is never called.)               *)
InUse == Elements(Pool) \cup UNION {Elements(Held(s)) : s \in Slots}
LostOnlyWithSlot ==
    [][\A b \in InUse \ InUse' :
          \E s \in Slots :
             /\ b \in Elements(Held(s))
             /\ packets'[s] = NULL
             /\ \/ state'[s] = "cs_free" /\ remote_address'[s] = Nobody
                \/ pc = "new" /\ Head(socket).kind = "connect"]_lists

(* The blocks and their links are queues: whatever order the slots take    *)
(* them from the pool and give them back in, each slot sees its own        *)
(* packets, first come, first executed (SV_ReadPackets).                   *)
Queues == INSTANCE DelayQueues WITH
            Numbers <- 1 .. MaxArrivals, Places <- MAX_DELAYED_PACKETS,
            held <- [s \in Slots |-> Waiting(s)],
            done <- executed,
            room <- Len(Pool)
ImplementsQueues == Queues!Spec
=============================================================================
