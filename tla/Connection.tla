----------------------------- MODULE Connection -----------------------------
(***************************************************************************)
(* How a client gets a slot on the server, and how both sides get rid of   *)
(* the connection (cl_main.c, sv_main.c, sv_user.c).                       *)
(*                                                                         *)
(* A client that wants to play asks for a challenge every five seconds,    *)
(* answers each challenge with a connect, and sets up its channel at the   *)
(* first connection message.  Over the channel it then sends new, the      *)
(* signon commands (spawn stands for soundlist to spawn) and begin, one    *)
(* after the other's answer.  The server gives a connect from an address   *)
(* in use a fresh slot, keeps dropped clients as zombies for two seconds   *)
(* and times out the silent ones, as the client does with the server.      *)
(*                                                                         *)
(* The channel is what module NetChan promises between one pair of ends: a *)
(* command is executed once and its answer arrives.  What NetChan does not *)
(* cover is modelled here: the two ends of a connection are set up at      *)
(* different times, and packets of an earlier connection of the same       *)
(* client have larger sequence numbers, so that they are accepted and make *)
(* the receiver deaf to the present one.  The qport would tell them apart, *)
(* but every connect sets it back to the cvar's value (cl_main.c:768).     *)
(***************************************************************************)
EXTENDS Integers, FiniteSets

CONSTANTS
    Clients,
    MAX_CLIENTS,    \* slots
    MaxPlayers,     \* maxclients, the limit PlayerCanConnect looks at
    MaxWishes,      \* bound: connect commands of each player
    MaxRequests,    \* bound: datagrams of a client under way when it sends one more
    MaxFaults       \* bound: datagrams lost or repeated, outages and kicks

Nobody == "nobody"

ASSUME ConnectionAssumption ==
    /\ {MAX_CLIENTS, MaxPlayers, MaxWishes, MaxRequests} \subseteq Nat \ {0}
    /\ MaxFaults \in Nat
    /\ IsFiniteSet(Clients) /\ Nobody \notin Clients

Slots == 1 .. MAX_CLIENTS
Commands == 1 .. 3          \* new, spawn, begin
Sessions == 1 .. MaxWishes
Any == MaxWishes + 1      \* nothing accepted yet: packets of any session count

VARIABLES
    cls_state,      \* of each client
    connect_time,   \* whether it is not 0: the client wants to connect
    session,        \* number of its channel
    qport,          \* whether cls.qport is that of a connect of this wish
    asked,          \* last command put into it
    acked,          \* whether that is acknowledged
    oldest,         \* oldest session a packet was accepted from
    state,          \* of each slot
    remote_address,
    got,            \* last command executed on its channel
    answer,         \* last command answered
    bye,            \* whether svc_disconnect is in its message
    sv_oldest,
    in_game,        \* whether the game knows the player
    net,            \* datagrams under way
    wishes, faults,
    overtaken       \* the client's slot was set up anew behind its back

client == <<cls_state, connect_time, session, qport, asked, acked, oldest>>
server == <<state, remote_address, got, answer, bye, sv_oldest, in_game>>
bounds == <<wishes, faults, overtaken>>
vars == <<client, server, net, bounds>>

Handshake == [type : {"getchallenge", "connect", "challenge", "connection"}, of : Clients]
ClientPackets ==
    [type : {"clc"}, of : Clients, session : Sessions, qport : BOOLEAN,
     command : Commands \cup {0}, drop : BOOLEAN]
ServerPackets ==
    [type : {"svc"}, of : Clients, session : Sessions, heard : Commands \cup {0},
     answer : Commands \cup {0}, bye : BOOLEAN]

Init ==
    /\ cls_state = [c \in Clients |-> "ca_disconnected"]
    /\ connect_time = [c \in Clients |-> FALSE]
    /\ session = [c \in Clients |-> 0]
    /\ qport = [c \in Clients |-> FALSE]
    /\ asked = [c \in Clients |-> 0]
    /\ acked = [c \in Clients |-> FALSE]
    /\ oldest = [c \in Clients |-> Any]
    /\ state = [s \in Slots |-> "cs_free"]
    /\ remote_address = [s \in Slots |-> Nobody]
    /\ got = [s \in Slots |-> 0]
    /\ answer = [s \in Slots |-> 0]
    /\ bye = [s \in Slots |-> FALSE]
    /\ sv_oldest = [s \in Slots |-> Any]
    /\ in_game = [s \in Slots |-> FALSE]
    /\ net = {}
    /\ wishes = [c \in Clients |-> 0]
    /\ faults = 0
    /\ overtaken = [c \in Clients |-> FALSE]

SlotsOf(c) == {s \in Slots : state[s] # "cs_free" /\ remote_address[s] = c}
First(S) == CHOOSE s \in S : \A t \in S : s <= t
Connected(c) == cls_state[c] # "ca_disconnected"

(* The datagram m is taken from the network, and the answers go into it.   *)
(* The network may keep a copy of m.                                       *)
Exchange(m, answers) ==
    \/ net' = (net \ {m}) \cup answers /\ UNCHANGED faults
    \/ net' = net \cup answers /\ faults < MaxFaults /\ faults' = faults + 1

-----------------------------------------------------------------------------
(* The client.                                                             *)

(* CL_Disconnect: three drops with the last packets of the channel, which  *)
(* are one datagram here, nothing is remembered of it, and cls.qport++.    *)
CL_Disconnect(c, wanted) ==
    /\ cls_state' = [cls_state EXCEPT ![c] = "ca_disconnected"]
    /\ connect_time' = [connect_time EXCEPT ![c] = wanted]
    /\ qport' = [qport EXCEPT ![c] = FALSE]
    /\ asked' = [asked EXCEPT ![c] = 0]
    /\ acked' = [acked EXCEPT ![c] = FALSE]
    /\ oldest' = [oldest EXCEPT ![c] = Any]
    /\ UNCHANGED session

Drops(c) ==
    IF Connected(c)
    THEN {[type |-> "clc", of |-> c, session |-> session[c], qport |-> qport[c],
           command |-> IF acked[c] THEN 0 ELSE asked[c], drop |-> TRUE]}
    ELSE {}

(* The player's connect: whatever was before ends (Host_EndGame), and the  *)
(* challenge is asked for.                                                 *)
CL_Connect_f(c) ==
    /\ wishes[c] < MaxWishes
    /\ wishes' = [wishes EXCEPT ![c] = @ + 1]
    /\ CL_Disconnect(c, TRUE)
    /\ net' = net \cup Drops(c) \cup {[type |-> "getchallenge", of |-> c]}
    /\ UNCHANGED <<server, faults, overtaken>>

(* The player's disconnect.                                                *)
CL_Disconnect_f(c) ==
    /\ Connected(c) \/ connect_time[c]
    /\ CL_Disconnect(c, FALSE)
    /\ net' = net \cup Drops(c)
    /\ UNCHANGED <<server, bounds>>

(* Every five seconds, however long the answers take.                      *)
CL_CheckForResend(c) ==
    LET m == [type |-> "getchallenge", of |-> c] IN
    /\ ~Connected(c) /\ connect_time[c]
    /\ m \notin net /\ Cardinality({x \in net : x.of = c}) < MaxRequests
    /\ net' = net \cup {m}
    /\ UNCHANGED <<client, server, bounds>>

(* S2C_CHALLENGE: answered as long as there is no connection.  server_adr  *)
(* is set while the client wants one.                                      *)
S2C_CHALLENGE(c) ==
    LET m == [type |-> "challenge", of |-> c]
        answers == ~Connected(c) /\ connect_time[c]
    IN
    /\ m \in net
    /\ Exchange(m, IF answers THEN {[type |-> "connect", of |-> c]} ELSE {})
    /\ qport' = [qport EXCEPT ![c] = @ \/ answers]
    /\ UNCHANGED <<cls_state, connect_time, session, asked, acked, oldest,
                   server, wishes, overtaken>>

(* S2C_CONNECTION: the first one sets the channel up and writes new.  One  *)
(* that answers an earlier wish may come before the connect of this one:   *)
(* then the channel has a qport the server does not know.                  *)
S2C_CONNECTION(c) ==
    LET m == [type |-> "connection", of |-> c] IN
    /\ m \in net
    /\ Exchange(m, {})
    /\ IF ~Connected(c) /\ connect_time[c]
       THEN /\ cls_state' = [cls_state EXCEPT ![c] = "ca_connected"]
            /\ session' = [session EXCEPT ![c] = @ + 1]
            /\ asked' = [asked EXCEPT ![c] = 1]
            /\ acked' = [acked EXCEPT ![c] = FALSE]
            /\ oldest' = [oldest EXCEPT ![c] = Any]
            /\ overtaken' = [overtaken EXCEPT ![c] = FALSE]
            /\ UNCHANGED <<connect_time, qport>>
       ELSE UNCHANGED <<client, overtaken>>
    /\ UNCHANGED <<server, wishes>>

(* A frame of a connected client: what is not acknowledged is sent again.  *)
CL_SendCmd(c) ==
    LET m == [type |-> "clc", of |-> c, session |-> session[c], qport |-> qport[c],
              command |-> IF acked[c] THEN 0 ELSE asked[c], drop |-> FALSE] IN
    /\ Connected(c)
    /\ m \notin net /\ Cardinality({x \in net : x.of = c}) < MaxRequests
    /\ net' = net \cup {m}
    /\ UNCHANGED <<client, server, bounds>>

(* A packet of the server.  A disconnect ends the connection; the answer   *)
(* to the last command brings the next one, and the last makes the client  *)
(* active.                                                                 *)
CL_ReadPacket(m) ==
    LET c == m.of
        answered == m.answer = asked[c]
    IN
    /\ m.type = "svc"
    /\ IF ~Connected(c) \/ m.session > oldest[c]
       THEN Exchange(m, {}) /\ UNCHANGED client
       ELSE IF m.bye
       THEN Exchange(m, Drops(c)) /\ CL_Disconnect(c, FALSE)
       ELSE /\ Exchange(m, {})
            /\ oldest' = [oldest EXCEPT ![c] = m.session]
            /\ cls_state' = [cls_state EXCEPT ![c] =
                 CASE answered /\ asked[c] = 1 -> "ca_onserver"
                   [] answered /\ asked[c] = 3 -> "ca_active"
                   [] OTHER -> @]
            /\ asked' = [asked EXCEPT ![c] = IF answered /\ @ < 3 THEN @ + 1 ELSE @]
            /\ acked' = [acked EXCEPT ![c] =
                 IF answered THEN asked[c] = 3 ELSE @ \/ m.heard >= asked[c]]
            /\ UNCHANGED <<connect_time, session, qport>>
    /\ UNCHANGED <<server, wishes, overtaken>>

-----------------------------------------------------------------------------
(* The server.                                                             *)

Challenge(c) ==
    LET m == [type |-> "getchallenge", of |-> c] IN
    /\ m \in net
    /\ Exchange(m, {[type |-> "challenge", of |-> c]})
    /\ UNCHANGED <<client, server, wishes, overtaken>>

(* What the slots S know of their channels is set back.  (The code does    *)
(* that when it gives a slot away; nothing looks at a free one before.)    *)
SetUp(S) ==
    /\ got' = [s \in Slots |-> IF s \in S THEN 0 ELSE got[s]]
    /\ answer' = [s \in Slots |-> IF s \in S THEN 0 ELSE answer[s]]
    /\ bye' = [s \in Slots |-> s \notin S /\ bye[s]]
    /\ sv_oldest' = [s \in Slots |-> IF s \in S THEN Any ELSE sv_oldest[s]]

(* Mutant: the client is a zombie before the game could be told.           *)
Dropped_Late(st, game) == game

(* SV_DropClient, as far as the game goes.                                 *)
Dropped(st, game) == IF st = "cs_spawned" THEN FALSE ELSE game

(* Mutant: the slot of the same address is not looked for.                 *)
SVC_DirectConnect_Another(c) ==
    LET m == [type |-> "connect", of |-> c]
        free == {s \in Slots : state[s] = "cs_free"}
        full == free = {} \/ Cardinality(Slots \ free) >= MaxPlayers
        taken == IF full THEN {} ELSE {First(free)}
    IN
    /\ m \in net
    /\ state' = [s \in Slots |-> IF s \in taken THEN "cs_preconnected" ELSE state[s]]
    /\ remote_address' = [s \in Slots |-> IF s \in taken THEN c ELSE remote_address[s]]
    /\ SetUp(taken)
    /\ Exchange(m, IF full THEN {} ELSE {[type |-> "connection", of |-> c]})
    /\ UNCHANGED <<in_game, client, wishes, overtaken>>

(* A connect: CheckReConnect frees the slot of the same address, dropping  *)
(* the client in it; then the first free slot is set up, if the server is  *)
(* not full.  A client that is in its slot for less than sv_reconnectlimit *)
(* seconds is refused instead.                                             *)
SVC_DirectConnect(c) ==
    LET m == [type |-> "connect", of |-> c]
        own == IF SlotsOf(c) = {} THEN {} ELSE {First(SlotsOf(c))}
        freed == [s \in Slots |-> IF s \in own THEN "cs_free" ELSE state[s]]
        left == [s \in Slots |->
                   IF s \in own THEN Dropped(state[s], in_game[s]) ELSE in_game[s]]
        free == {s \in Slots : freed[s] = "cs_free"}
        full == free = {} \/ Cardinality(Slots \ free) >= MaxPlayers
        taken == IF full THEN {} ELSE {First(free)}
    IN
    /\ m \in net
    /\ \/ own # {} /\ Exchange(m, {}) /\ UNCHANGED <<server, overtaken>>
       \/ /\ state' = [s \in Slots |-> IF s \in taken THEN "cs_preconnected" ELSE freed[s]]
          /\ in_game' = left
          /\ remote_address' = [s \in Slots |->
                IF s \in taken THEN c ELSE IF s \in own THEN Nobody ELSE remote_address[s]]
          /\ SetUp(own \cup taken)
          /\ Exchange(m, IF full THEN {} ELSE {[type |-> "connection", of |-> c]})
          /\ overtaken' = [overtaken EXCEPT ![c] = @ \/ Connected(c)]
    /\ UNCHANGED <<client, wishes>>

(* Mutant: spawn is answered only to a client that is new.                 *)
Answers_Strict(n, st) ==
    CASE n = 1 -> st # "cs_spawned"
      [] n = 2 -> st = "cs_preconnected"
      [] n = 3 -> st # "cs_spawned"
      [] OTHER -> FALSE

(* The commands: what becomes of the state, and whether they are answered. *)
Executed(n, st) ==
    CASE n = 1 /\ st = "cs_preconnected" -> "cs_connected"
      [] n = 3 -> "cs_spawned"
      [] OTHER -> st

Answers(n, st) ==
    CASE n = 1 -> st # "cs_spawned"
      [] n = 2 -> st = "cs_connected"
      [] n = 3 -> st # "cs_spawned"
      [] OTHER -> FALSE

(* A packet for a slot in use: the command it carries, unless this channel *)
(* has had it, then the drop, which is the last of its session, and the    *)
(* answer at the end of the frame.                                         *)
SV_ReadPacket(m) ==
    LET s == First(SlotsOf(m.of))
        n == IF m.command > got[s] THEN m.command ELSE 0
        st == Executed(n, state[s])
        game == in_game[s] \/ (n = 3 /\ state[s] # "cs_spawned")
        drop == m.drop /\ st # "cs_zombie"
    IN
    /\ m.type = "clc"
    /\ IF SlotsOf(m.of) = {} \/ ~m.qport \/ m.session > sv_oldest[s]
       THEN Exchange(m, {}) /\ UNCHANGED server
       ELSE /\ sv_oldest' = [sv_oldest EXCEPT ![s] = IF m.drop THEN m.session - 1 ELSE m.session]
            /\ got' = [got EXCEPT ![s] = IF n # 0 THEN n ELSE @]
            /\ answer' = [answer EXCEPT ![s] = IF Answers(n, state[s]) THEN n ELSE @]
            /\ state' = [state EXCEPT ![s] = IF drop THEN "cs_zombie" ELSE st]
            /\ in_game' = [in_game EXCEPT ![s] = IF drop THEN Dropped(st, game) ELSE game]
            /\ bye' = [bye EXCEPT ![s] = @ \/ drop]
            /\ Exchange(m, {[type |-> "svc", of |-> m.of, session |-> m.session,
                             heard |-> got'[s], answer |-> answer'[s], bye |-> bye'[s]]})
            /\ UNCHANGED remote_address
    /\ UNCHANGED <<client, wishes, overtaken>>

(* The client of slot s sends packets that the slot's channel accepts.     *)
Heard(s) ==
    LET c == remote_address[s] IN
    c = Nobody \/ (Connected(c) /\ qport[c] /\ session[c] <= sv_oldest[s])

(* Mutant: only clients in the game are timed out.                         *)
SV_CheckTimeouts_Spawned(s) ==
    /\ state[s] = "cs_zombie" \/ (state[s] = "cs_spawned" /\ ~Heard(s))
    /\ state' = [state EXCEPT ![s] = "cs_free"]
    /\ remote_address' = [remote_address EXCEPT ![s] = Nobody]
    /\ in_game' = [in_game EXCEPT ![s] = Dropped(state[s], @)]
    /\ SetUp({s})
    /\ UNCHANGED <<client, net, bounds>>

(* SV_CheckTimeouts for one slot: a zombie's two seconds are over, or its  *)
(* client has been silent for long.                                        *)
SV_CheckTimeouts(s) ==
    /\ state[s] = "cs_zombie" \/ (state[s] # "cs_free" /\ ~Heard(s))
    /\ state' = [state EXCEPT ![s] = "cs_free"]
    /\ remote_address' = [remote_address EXCEPT ![s] = Nobody]
    /\ in_game' = [in_game EXCEPT ![s] = Dropped(state[s], @)]
    /\ SetUp({s})
    /\ UNCHANGED <<client, net, bounds>>

(* A client is kicked, by the console, a vote or the game.                 *)
SV_DropClient(s) ==
    /\ faults < MaxFaults
    /\ faults' = faults + 1
    /\ state[s] \notin {"cs_free", "cs_zombie"} /\ remote_address[s] # Nobody
    /\ state' = [state EXCEPT ![s] = "cs_zombie"]
    /\ in_game' = [in_game EXCEPT ![s] = Dropped(state[s], @)]
    /\ bye' = [bye EXCEPT ![s] = TRUE]
    /\ UNCHANGED <<remote_address, got, answer, sv_oldest, client, net, wishes, overtaken>>

(* The other players, as far as the slots notice them: one has connected   *)
(* and begun, or is dropped.                                               *)
OtherPlayer(s) ==
    /\ IF state[s] = "cs_free"
       THEN /\ s = First({t \in Slots : state[t] = "cs_free"})
            /\ Cardinality({t \in Slots : state[t] # "cs_free"}) < MaxPlayers
            /\ state' = [state EXCEPT ![s] = "cs_spawned"]
            /\ in_game' = [in_game EXCEPT ![s] = TRUE]
       ELSE /\ state[s] = "cs_spawned" /\ remote_address[s] = Nobody
            /\ state' = [state EXCEPT ![s] = "cs_zombie"]
            /\ in_game' = [in_game EXCEPT ![s] = FALSE]
    /\ UNCHANGED <<remote_address, got, answer, bye, sv_oldest, client, net, bounds>>

-----------------------------------------------------------------------------
(* The client has had nothing from the server for long.                    *)
Answered(c) ==
    qport[c] /\ session[c] <= oldest[c] /\ \E s \in SlotsOf(c) : session[c] <= sv_oldest[s]

CL_Timeout(c) ==
    /\ Connected(c) /\ ~Answered(c)
    /\ CL_Disconnect(c, FALSE)
    /\ net' = net \cup Drops(c)
    /\ UNCHANGED <<server, bounds>>

(* Faults: a datagram is lost; the network is down until one side gives up.*)
Lose(m) ==
    /\ faults < MaxFaults
    /\ faults' = faults + 1
    /\ net' = net \ {m}
    /\ UNCHANGED <<client, server, wishes, overtaken>>

ServerGivesUp(s) ==
    /\ faults < MaxFaults
    /\ faults' = faults + 1
    /\ state[s] \notin {"cs_free", "cs_zombie"} /\ remote_address[s] # Nobody
    /\ state' = [state EXCEPT ![s] = "cs_free"]
    /\ in_game' = [in_game EXCEPT ![s] = Dropped(state[s], @)]
    /\ net' = {m \in net : m.of # remote_address[s]}
    /\ remote_address' = [remote_address EXCEPT ![s] = Nobody]
    /\ SetUp({s})
    /\ UNCHANGED <<client, wishes, overtaken>>

Next ==
    \/ \E c \in Clients :
          \/ CL_Connect_f(c) \/ CL_Disconnect_f(c)
          \/ CL_CheckForResend(c) \/ CL_SendCmd(c) \/ CL_Timeout(c)
          \/ S2C_CHALLENGE(c) \/ S2C_CONNECTION(c)
          \/ Challenge(c) \/ SVC_DirectConnect(c)
    \/ \E m \in net : CL_ReadPacket(m) \/ SV_ReadPacket(m) \/ Lose(m)
    \/ \E s \in Slots : 
          \/ SV_CheckTimeouts(s) \/ SV_DropClient(s) \/ ServerGivesUp(s)
          \/ OtherPlayer(s)

Spec == Init /\ [][Next]_vars

(* Both programs run their frames, and a datagram that is sent again and   *)
(* again arrives.  Silence is noticed by either side.                      *)
FairSpec ==
    /\ Spec
    /\ \A c \in Clients :
          /\ WF_vars(CL_CheckForResend(c))
          /\ WF_vars(CL_SendCmd(c))
          /\ WF_vars(CL_Timeout(c))
          /\ WF_vars(Challenge(c))
          /\ WF_vars(S2C_CHALLENGE(c))
          /\ WF_vars(SVC_DirectConnect(c))
          /\ WF_vars(S2C_CONNECTION(c))
          /\ WF_vars(\E m \in net : m.of = c /\ SV_ReadPacket(m))
          /\ WF_vars(\E m \in net : m.of = c /\ CL_ReadPacket(m))
    /\ \A s \in Slots : WF_vars(SV_CheckTimeouts(s))

-----------------------------------------------------------------------------
ClientTypeOK ==
    /\ cls_state \in [Clients -> {"ca_disconnected", "ca_connected", "ca_onserver",
                                  "ca_active"}]
    /\ connect_time \in [Clients -> BOOLEAN]
    /\ session \in [Clients -> 0 .. MaxWishes]
    /\ qport \in [Clients -> BOOLEAN]
    /\ asked \in [Clients -> 0 .. 3]
    /\ acked \in [Clients -> BOOLEAN]
    /\ oldest \in [Clients -> 1 .. Any]

ServerTypeOK ==
    /\ state \in [Slots -> {"cs_free", "cs_zombie", "cs_preconnected", "cs_connected",
                            "cs_spawned"}]
    /\ remote_address \in [Slots -> Clients \cup {Nobody}]
    /\ got \in [Slots -> 0 .. 3]
    /\ answer \in [Slots -> 0 .. 3]
    /\ bye \in [Slots -> BOOLEAN]
    /\ sv_oldest \in [Slots -> 0 .. Any]
    /\ in_game \in [Slots -> BOOLEAN]

NetTypeOK == net \subseteq Handshake \cup ClientPackets \cup ServerPackets

BoundsTypeOK ==
    /\ wishes \in [Clients -> 0 .. MaxWishes]
    /\ faults \in 0 .. MaxFaults
    /\ overtaken \in [Clients -> BOOLEAN]

TypeOK == ClientTypeOK /\ ServerTypeOK /\ NetTypeOK /\ BoundsTypeOK

(* The game has been told of exactly the clients that are spawned: each is *)
(* announced once, and taken back whatever way it goes.                    *)
GameMatchesSlots == \A s \in Slots : in_game[s] = (state[s] = "cs_spawned")

(* Connect commands outnumber channels: the client that wants to connect   *)
(* can still set one up, one that is connected has done so.                *)
SessionsInv ==
    \A c \in Clients :
        /\ session[c] <= wishes[c]
        /\ Connected(c) => session[c] # 0
        /\ ~Connected(c) /\ connect_time[c] => session[c] < wishes[c]

(* However often a client connects, drops out and comes back, and whatever *)
(* is late or repeated of that, it never holds two slots; a free slot is   *)
(* nobody's.                                                               *)
SlotsInv ==
    /\ \A s \in Slots : state[s] = "cs_free" => remote_address[s] = Nobody
    /\ \A s, t \in Slots : remote_address[s] = remote_address[t] =>
           remote_address[s] = Nobody \/ s = t

(* The types and what keeps them, and one slot for a client at most.       *)
ConnectionInv == TypeOK /\ SessionsInv /\ SlotsInv

FullFor(c) ==
    Cardinality({s \in Slots : state[s] # "cs_free" /\ remote_address[s] # c}) >= MaxPlayers

(* A client that wants to connect gets into the game or learns that it     *)
(* does not: it is disconnected, or others fill the server at some time. The  *)
(* exception is a client whose slot a late or repeated connect has set up  *)
(* anew behind its back: it waits on, and neither side notices.            *)
PlaysOrIsTold ==
    \A c \in Clients :
        connect_time[c] ~> \/ cls_state[c] = "ca_active" \/ ~connect_time[c]
                           \/ overtaken[c] \/ FullFor(c)

Gone(c) == ~Connected(c) /\ ~connect_time[c]
HalfOpen(c) == Connected(c) /\ SlotsOf(c) = {}

(* Nobody is left alone on one end: the slot of a client that has gone is  *)
(* freed, also if its drops are lost, and a client without a slot notices. *)
HalfOpenEnds ==
    \A c \in Clients :
        /\ Gone(c) ~> SlotsOf(c) = {} \/ ~Gone(c)
        /\ HalfOpen(c) ~> ~HalfOpen(c)
=============================================================================
