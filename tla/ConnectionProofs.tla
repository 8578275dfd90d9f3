------------------------- MODULE ConnectionProofs -------------------------
(***************************************************************************)
(* Theorems about Connection for any clients, number of slots and bounds:  *)
(* the types, that the game knows exactly the spawned clients, and that no *)
(* client ever holds two slots (sv_main.c, sv_user.c).                     *)
(***************************************************************************)
EXTENDS Connection, FiniteSetTheorems, TLAPS

-----------------------------------------------------------------------------
(* Sets and functions *)

(* Every set of slots that is not empty has a first one.                   *)
LEMMA FirstSlot ==
    ASSUME NEW S \in SUBSET Slots, S # {}
    PROVE  First(S) \in S
<1>1. S \subseteq Nat
  BY ConnectionAssumption DEF Slots
<1>2. PICK s \in S : \A t \in S : ~(<<t, s>> \in OpToRel(<, Nat))
  BY <1>1, WFMin, NatLessThanWellFounded
<1>3. \A t \in S : ~(t < s)
  BY <1>1, <1>2 DEF OpToRel
<1>4. \E x \in S : \A t \in S : x <= t
  BY <1>1, <1>3
<1> QED BY <1>4 DEF First

(* A function stays in its set when one value changes within its range.    *)
LEMMA Update ==
    ASSUME NEW S, NEW T, NEW f \in [S -> T], NEW x, NEW b \in T
    PROVE  [f EXCEPT ![x] = b] \in [S -> T]
OBVIOUS

(* The same for some of the values.                                        *)
LEMMA Updates ==
    ASSUME NEW S, NEW T, NEW U, NEW f \in [S -> T], NEW b \in T
    PROVE  [s \in S |-> IF s \in U THEN b ELSE f[s]] \in [S -> T]
OBVIOUS

-----------------------------------------------------------------------------
(* The initial state *)

(* Nothing has happened when the programs start.                           *)
LEMMA InitInv == Init => ConnectionInv /\ GameMatchesSlots
<1> SUFFICES ASSUME Init PROVE ConnectionInv /\ GameMatchesSlots
  OBVIOUS
<1>0. MaxWishes \in Nat /\ Any \in 1 .. Any /\ Any \in 0 .. Any
  BY ConnectionAssumption DEF Any
<1>1. ClientTypeOK
  BY <1>0 DEF Init, ClientTypeOK
<1>2. ServerTypeOK
  BY <1>0 DEF Init, ServerTypeOK
<1>3. NetTypeOK /\ BoundsTypeOK
  BY <1>0, ConnectionAssumption DEF Init, NetTypeOK, BoundsTypeOK
<1>4. SessionsInv
  BY DEF Init, SessionsInv, Connected
<1>5. SlotsInv /\ GameMatchesSlots
  BY DEF Init, SlotsInv, GameMatchesSlots
<1> QED BY <1>1, <1>2, <1>3, <1>4, <1>5 DEF ConnectionInv, TypeOK

-----------------------------------------------------------------------------
(* The client *)

(* What a packet carries.                                                  *)
LEMMA PacketTypes ==
    ASSUME TypeOK, NEW m \in net
    PROVE  /\ m.of \in Clients
           /\ m.type = "clc" => m \in ClientPackets
           /\ m.type = "svc" => m \in ServerPackets
<1>1. m \in Handshake \/ m \in ClientPackets \/ m \in ServerPackets
  BY DEF TypeOK, NetTypeOK
<1> QED BY <1>1 DEF Handshake, ClientPackets, ServerPackets

(* Leaving a server breaks no type.                                        *)
LEMMA DisconnectType ==
    ASSUME TypeOK, NEW c \in Clients, NEW w \in BOOLEAN, CL_Disconnect(c, w)
    PROVE  ClientTypeOK'
<1>0. MaxWishes \in Nat /\ Any \in 1 .. Any
  BY ConnectionAssumption DEF Any
<1>1. /\ cls_state' \in [Clients -> {"ca_disconnected", "ca_connected", "ca_onserver", "ca_active"}]
      /\ connect_time' \in [Clients -> BOOLEAN]
      /\ qport' \in [Clients -> BOOLEAN]
      /\ acked' \in [Clients -> BOOLEAN]
  BY Update DEF CL_Disconnect, TypeOK, ClientTypeOK
<1>2. /\ asked' \in [Clients -> 0 .. 3]
      /\ oldest' \in [Clients -> 1 .. Any]
  <2>1. 0 \in 0 .. 3
    OBVIOUS
  <2> QED BY <1>0, <2>1, Update DEF CL_Disconnect, TypeOK, ClientTypeOK
<1> QED BY <1>1, <1>2 DEF CL_Disconnect, TypeOK, ClientTypeOK

(* Setting a channel up breaks no type, as there is a wish for it.         *)
LEMMA ConnectionType ==
    ASSUME TypeOK, SessionsInv, NEW c \in Clients, S2C_CONNECTION(c)
    PROVE  ClientTypeOK'
<1>0. MaxWishes \in Nat /\ Any \in 1 .. Any
  BY ConnectionAssumption DEF Any
<1>1. CASE ~Connected(c) /\ connect_time[c]
  <2>1. session[c] + 1 \in 0 .. MaxWishes
    BY <1>0, <1>1 DEF SessionsInv, TypeOK, ClientTypeOK, BoundsTypeOK
  <2>2. /\ cls_state' \in [Clients -> {"ca_disconnected", "ca_connected", "ca_onserver", "ca_active"}]
        /\ acked' \in [Clients -> BOOLEAN]
    BY <1>1, Update DEF S2C_CONNECTION, TypeOK, ClientTypeOK
  <2>3. /\ session' \in [Clients -> 0 .. MaxWishes]
        /\ asked' \in [Clients -> 0 .. 3]
        /\ oldest' \in [Clients -> 1 .. Any]
    <3>1. 1 \in 0 .. 3
      OBVIOUS
    <3>2. /\ session' = [session EXCEPT ![c] = session[c] + 1]
          /\ asked' = [asked EXCEPT ![c] = 1]
          /\ oldest' = [oldest EXCEPT ![c] = Any]
      BY <1>1 DEF S2C_CONNECTION
    <3> QED BY <1>0, <2>1, <3>1, <3>2, Update DEF TypeOK, ClientTypeOK
  <2> QED BY <1>1, <2>2, <2>3 DEF S2C_CONNECTION, TypeOK, ClientTypeOK
<1>2. CASE ~(~Connected(c) /\ connect_time[c])
  BY <1>2 DEF S2C_CONNECTION, client, TypeOK, ClientTypeOK
<1> QED BY <1>1, <1>2

(* A packet of the server breaks no type.                                  *)
LEMMA ReadPacketType ==
    ASSUME TypeOK, NEW m \in net, CL_ReadPacket(m)
    PROVE  ClientTypeOK'
<1>0. MaxWishes \in Nat /\ Any = MaxWishes + 1
  BY ConnectionAssumption DEF Any
<1>1. m.of \in Clients /\ m \in ServerPackets
  BY PacketTypes DEF CL_ReadPacket
<1>2. CASE UNCHANGED client
  BY <1>2 DEF client, TypeOK, ClientTypeOK
<1>3. CASE CL_Disconnect(m.of, FALSE)
  BY <1>1, <1>3, DisconnectType
<1>4. CASE ~UNCHANGED client /\ ~CL_Disconnect(m.of, FALSE)
  <2> DEFINE c == m.of
             answered == m.answer = asked[c]
  <2>1. /\ oldest' = [oldest EXCEPT ![c] = m.session]
        /\ cls_state' = [cls_state EXCEPT ![c] =
             CASE answered /\ asked[c] = 1 -> "ca_onserver"
               [] answered /\ asked[c] = 3 -> "ca_active"
               [] OTHER -> cls_state[c]]
        /\ asked' = [asked EXCEPT ![c] = IF answered /\ asked[c] < 3 THEN asked[c] + 1 ELSE asked[c]]
        /\ acked' = [acked EXCEPT ![c] =
             IF answered THEN asked[c] = 3 ELSE acked[c] \/ m.heard >= asked[c]]
        /\ UNCHANGED <<connect_time, session, qport>>
    BY <1>4 DEF CL_ReadPacket
  <2>2. m.session \in 1 .. Any /\ asked[c] \in 0 .. 3
    BY <1>0, <1>1 DEF ServerPackets, Sessions, TypeOK, ClientTypeOK
  <2>3. (IF answered /\ asked[c] < 3 THEN asked[c] + 1 ELSE asked[c]) \in 0 .. 3
    BY <2>2
  <2>4. (CASE answered /\ asked[c] = 1 -> "ca_onserver"
           [] answered /\ asked[c] = 3 -> "ca_active"
           [] OTHER -> cls_state[c])
          \in {"ca_disconnected", "ca_connected", "ca_onserver", "ca_active"}
    BY <1>1 DEF TypeOK, ClientTypeOK
  <2>5. acked[c] \in BOOLEAN
    BY <1>1 DEF TypeOK, ClientTypeOK
  <2>6. (IF answered THEN asked[c] = 3 ELSE acked[c] \/ m.heard >= asked[c]) \in BOOLEAN
    BY <2>5
  <2> HIDE DEF answered
  <2>7. oldest' \in [Clients -> 1 .. Any] /\ asked' \in [Clients -> 0 .. 3]
    BY <2>1, <2>2, <2>3, Update DEF TypeOK, ClientTypeOK
  <2>8. cls_state' \in [Clients -> {"ca_disconnected", "ca_connected", "ca_onserver", "ca_active"}]
    BY <2>1, <2>4, Update DEF TypeOK, ClientTypeOK
  <2>9. acked' \in [Clients -> BOOLEAN]
    BY <2>1, <2>6, Update DEF TypeOK, ClientTypeOK
  <2> QED BY <2>1, <2>7, <2>8, <2>9 DEF TypeOK, ClientTypeOK
<1> QED BY <1>2, <1>3, <1>4

(* No step breaks the types of the client.                                 *)
LEMMA ClientType == TypeOK /\ SessionsInv /\ [Next]_vars => ClientTypeOK'
<1> SUFFICES ASSUME TypeOK, SessionsInv, [Next]_vars PROVE ClientTypeOK'
  OBVIOUS
<1>1. CASE UNCHANGED client
  BY <1>1 DEF client, TypeOK, ClientTypeOK
<1>2. ASSUME NEW c \in Clients, CL_Connect_f(c) PROVE ClientTypeOK'
  BY <1>2, DisconnectType DEF CL_Connect_f
<1>3. ASSUME NEW c \in Clients, CL_Disconnect_f(c) \/ CL_Timeout(c) PROVE ClientTypeOK'
  BY <1>3, DisconnectType DEF CL_Disconnect_f, CL_Timeout
<1>4. ASSUME NEW c \in Clients, S2C_CHALLENGE(c) PROVE ClientTypeOK'
  <2>1. PICK b \in BOOLEAN : qport' = [qport EXCEPT ![c] = b]
    BY <1>4 DEF S2C_CHALLENGE, TypeOK, ClientTypeOK
  <2>2. qport' \in [Clients -> BOOLEAN]
    BY <2>1, Update DEF TypeOK, ClientTypeOK
  <2> QED BY <1>4, <2>2 DEF S2C_CHALLENGE, TypeOK, ClientTypeOK
<1>5. CASE UNCHANGED vars
  BY <1>1, <1>5 DEF vars
<1> QED
  BY <1>1, <1>2, <1>3, <1>4, <1>5, ConnectionType, ReadPacketType
  DEF Next, CL_CheckForResend, CL_SendCmd, Challenge, SVC_DirectConnect, SV_ReadPacket, Lose,
      SV_CheckTimeouts, SV_DropClient, ServerGivesUp, OtherPlayer

(* No step sets up a channel that was not wished for.                      *)
LEMMA NextSessions == TypeOK /\ SessionsInv /\ [Next]_vars => SessionsInv'
<1> SUFFICES ASSUME TypeOK, SessionsInv, [Next]_vars PROVE SessionsInv'
  OBVIOUS
<1>t. /\ cls_state \in [Clients -> {"ca_disconnected", "ca_connected", "ca_onserver", "ca_active"}]
      /\ connect_time \in [Clients -> BOOLEAN]
      /\ session \in [Clients -> 0 .. MaxWishes] /\ wishes \in [Clients -> 0 .. MaxWishes]
      /\ MaxWishes \in Nat
  BY ConnectionAssumption DEF TypeOK, ClientTypeOK, BoundsTypeOK
<1>1. CASE UNCHANGED <<cls_state, connect_time, session, wishes>>
  BY <1>1 DEF SessionsInv, Connected
<1>2. ASSUME NEW c \in Clients, CL_Connect_f(c) PROVE SessionsInv'
  BY <1>2, <1>t DEF CL_Connect_f, CL_Disconnect, SessionsInv, Connected
<1>3. ASSUME NEW c \in Clients, CL_Disconnect(c, FALSE), wishes' = wishes PROVE SessionsInv'
  BY <1>3, <1>t DEF CL_Disconnect, SessionsInv, Connected
<1>4. ASSUME NEW c \in Clients, S2C_CONNECTION(c) PROVE SessionsInv'
  <2>1. CASE ~Connected(c) /\ connect_time[c]
    <3>1. /\ session' = [session EXCEPT ![c] = session[c] + 1]
          /\ cls_state' = [cls_state EXCEPT ![c] = "ca_connected"]
          /\ UNCHANGED <<connect_time, wishes>>
      BY <1>4, <2>1 DEF S2C_CONNECTION
    <3> QED BY <1>t, <2>1, <3>1 DEF SessionsInv, Connected
  <2>2. CASE ~(~Connected(c) /\ connect_time[c])
    BY <1>1, <1>4, <2>2 DEF S2C_CONNECTION, client
  <2> QED BY <2>1, <2>2
<1>5. ASSUME NEW m \in net, CL_ReadPacket(m) PROVE SessionsInv'
  <2>1. m.of \in Clients /\ wishes' = wishes
    BY <1>5, PacketTypes DEF CL_ReadPacket
  <2>2. CASE UNCHANGED client
    BY <1>1, <2>1, <2>2 DEF client
  <2>3. CASE CL_Disconnect(m.of, FALSE)
    BY <1>3, <2>1, <2>3
  <2>4. CASE ~UNCHANGED client /\ ~CL_Disconnect(m.of, FALSE)
    <3>1. Connected(m.of) /\ UNCHANGED <<connect_time, session>>
      BY <1>5, <2>4 DEF CL_ReadPacket
    <3>2. \A c \in Clients : cls_state'[c] = cls_state[c] \/ (c = m.of /\ cls_state'[c] # "ca_disconnected")
      BY <1>5, <1>t, <2>1, <2>4, <3>1 DEF CL_ReadPacket, Connected
    <3> QED BY <2>1, <3>1, <3>2 DEF SessionsInv, Connected
  <2> QED BY <2>2, <2>3, <2>4
<1> QED
  BY <1>1, <1>2, <1>3, <1>4, <1>5
  DEF Next, CL_CheckForResend, CL_SendCmd, Challenge, SVC_DirectConnect, SV_ReadPacket, Lose,
      SV_CheckTimeouts, SV_DropClient, ServerGivesUp, OtherPlayer, CL_Disconnect_f, CL_Timeout,
      S2C_CHALLENGE, client, bounds, vars

-----------------------------------------------------------------------------
(* The server                                                              *)

(* Setting slots up breaks no type.                                        *)
LEMMA SetUpType ==
    ASSUME ServerTypeOK, NEW S, SetUp(S)
    PROVE  /\ got' \in [Slots -> 0 .. 3] /\ answer' \in [Slots -> 0 .. 3]
           /\ bye' \in [Slots -> BOOLEAN] /\ sv_oldest' \in [Slots -> 0 .. Any]
<1>1. Any \in 0 .. Any /\ 0 \in 0 .. 3
  BY ConnectionAssumption DEF Any
<1>2. bye' \in [Slots -> BOOLEAN]
  <2>1. \A s \in Slots : (s \notin S /\ bye[s]) \in BOOLEAN
    BY DEF ServerTypeOK
  <2> QED BY <2>1 DEF SetUp
<1> QED BY <1>1, <1>2, Updates DEF SetUp, ServerTypeOK

(* The slots a connect takes: its own is given up, and the first free one  *)
(* taken.                                                                  *)
Connects(c, own, taken) ==
    /\ own = {} <=> SlotsOf(c) = {}
    /\ own \subseteq SlotsOf(c)
    /\ \A s, t \in taken : s = t
    /\ \A s \in taken : s \in own \/ state[s] = "cs_free"
    /\ state' = [s \in Slots |-> IF s \in taken THEN "cs_preconnected"
                                 ELSE IF s \in own THEN "cs_free" ELSE state[s]]
    /\ in_game' = [s \in Slots |->
          IF s \in own THEN Dropped(state[s], in_game[s]) ELSE in_game[s]]
    /\ remote_address' = [s \in Slots |->
          IF s \in taken THEN c ELSE IF s \in own THEN Nobody ELSE remote_address[s]]
    /\ SetUp(own \cup taken)

(* Every connect that is not refused as too early is of that kind.         *)
LEMMA ConnectSlots ==
    ASSUME NEW c \in Clients, SVC_DirectConnect(c), ~UNCHANGED server
    PROVE  \E own \in SUBSET Slots, taken \in SUBSET Slots : Connects(c, own, taken)
<1> DEFINE own == IF SlotsOf(c) = {} THEN {} ELSE {First(SlotsOf(c))}
           freed == [s \in Slots |-> IF s \in own THEN "cs_free" ELSE state[s]]
           free == {s \in Slots : freed[s] = "cs_free"}
           full == free = {} \/ Cardinality(Slots \ free) >= MaxPlayers
           taken == IF full THEN {} ELSE {First(free)}
<1>1. /\ state' = [s \in Slots |-> IF s \in taken THEN "cs_preconnected" ELSE freed[s]]
      /\ in_game' = [s \in Slots |->
            IF s \in own THEN Dropped(state[s], in_game[s]) ELSE in_game[s]]
      /\ remote_address' = [s \in Slots |->
            IF s \in taken THEN c ELSE IF s \in own THEN Nobody ELSE remote_address[s]]
      /\ SetUp(own \cup taken)
  BY DEF SVC_DirectConnect
<1>2. own \subseteq SlotsOf(c) /\ (own = {} <=> SlotsOf(c) = {})
  BY FirstSlot DEF SlotsOf
<1>3. taken \subseteq free /\ \A s, t \in taken : s = t
  <2> HIDE DEF free
  <2>1. CASE full
    BY <2>1
  <2>2. CASE ~full
    <3>1. free \subseteq Slots /\ free # {}
      BY <2>2 DEF free
    <3> HIDE DEF full
    <3> QED BY <2>2, <3>1, FirstSlot
  <2> QED BY <2>1, <2>2
<1> HIDE DEF own, full, taken
<1>4. \A s \in taken : s \in Slots /\ (s \in own \/ state[s] = "cs_free")
  BY <1>3
<1>5. own \in SUBSET Slots /\ taken \in SUBSET Slots
  BY <1>2, <1>4 DEF SlotsOf
<1>6. state' = [s \in Slots |-> IF s \in taken THEN "cs_preconnected"
                               ELSE IF s \in own THEN "cs_free" ELSE state[s]]
  BY <1>1
<1>7. Connects(c, own, taken)
  BY <1>1, <1>2, <1>3, <1>4, <1>6 DEF Connects
<1> QED BY <1>5, <1>7

(* The slot a packet of a client is for.                                   *)
LEMMA PacketSlot ==
    ASSUME NEW m, SlotsOf(m.of) # {}
    PROVE  First(SlotsOf(m.of)) \in SlotsOf(m.of) /\ First(SlotsOf(m.of)) \in Slots
BY FirstSlot DEF SlotsOf

(* What a command of a client makes of its slot.                           *)
Command(m, s, st, game, n, a, o, b) ==
    /\ s \in SlotsOf(m.of)
    /\ in_game[s] = (state[s] = "cs_spawned") => game = (st = "cs_spawned")
    /\ state' = [state EXCEPT ![s] = st]
    /\ in_game' = [in_game EXCEPT ![s] = game]
    /\ got' = [got EXCEPT ![s] = n]
    /\ answer' = [answer EXCEPT ![s] = a]
    /\ sv_oldest' = [sv_oldest EXCEPT ![s] = o]
    /\ bye' = [bye EXCEPT ![s] = b]
    /\ Exchange(m, {[type |-> "svc", of |-> m.of, session |-> m.session,
                     heard |-> got'[s], answer |-> answer'[s], bye |-> bye'[s]]})
    /\ UNCHANGED remote_address

Taken == {"cs_zombie", "cs_preconnected", "cs_connected", "cs_spawned"}

(* A packet is ignored or carries such a command.                          *)
LEMMA ReadPacketSlot ==
    ASSUME TypeOK, NEW m \in net, SV_ReadPacket(m), ~(Exchange(m, {}) /\ UNCHANGED server)
    PROVE  \E s \in Slots, st \in Taken, game \in BOOLEAN, n \in 0 .. 3, a \in 0 .. 3,
              o \in 0 .. Any, b \in BOOLEAN : Command(m, s, st, game, n, a, o, b)
<1> DEFINE s == First(SlotsOf(m.of))
           k == IF m.command > got[s] THEN m.command ELSE 0
           st == Executed(k, state[s])
           game == in_game[s] \/ (k = 3 /\ state[s] # "cs_spawned")
           drop == m.drop /\ st # "cs_zombie"
           st2 == IF drop THEN "cs_zombie" ELSE st
           game2 == IF drop THEN Dropped(st, game) ELSE game
           n == IF k # 0 THEN k ELSE got[s]
           a == IF Answers(k, state[s]) THEN k ELSE answer[s]
           o == IF m.drop THEN m.session - 1 ELSE m.session
           b == bye[s] \/ drop
<1>1. m \in ClientPackets
  BY PacketTypes DEF SV_ReadPacket
<1>2. SlotsOf(m.of) # {}
  BY DEF SV_ReadPacket
<1>3. s \in Slots /\ s \in SlotsOf(m.of)
  BY <1>2, PacketSlot
<1>4. /\ state' = [state EXCEPT ![s] = st2]
      /\ in_game' = [in_game EXCEPT ![s] = game2]
      /\ got' = [got EXCEPT ![s] = n]
      /\ answer' = [answer EXCEPT ![s] = a]
      /\ sv_oldest' = [sv_oldest EXCEPT ![s] = o]
      /\ bye' = [bye EXCEPT ![s] = b]
      /\ Exchange(m, {[type |-> "svc", of |-> m.of, session |-> m.session,
                       heard |-> got'[s], answer |-> answer'[s], bye |-> bye'[s]]})
      /\ UNCHANGED remote_address
  BY DEF SV_ReadPacket
<1>5. /\ m.command \in 0 .. 3 /\ m.drop \in BOOLEAN /\ m.session \in 1 .. MaxWishes
      /\ MaxWishes \in Nat /\ Any = MaxWishes + 1
  BY <1>1, ConnectionAssumption DEF ClientPackets, Commands, Sessions, Any
<1>6. /\ state[s] \in {"cs_zombie", "cs_preconnected", "cs_connected", "cs_spawned"}
      /\ got[s] \in 0 .. 3 /\ answer[s] \in 0 .. 3
  BY <1>3 DEF TypeOK, ServerTypeOK, SlotsOf
<1>7. bye[s] \in BOOLEAN /\ in_game[s] \in BOOLEAN
  BY <1>3 DEF TypeOK, ServerTypeOK
<1> HIDE DEF s
<1>8. k \in 0 .. 3 /\ n \in 0 .. 3 /\ a \in 0 .. 3
  BY <1>5, <1>6 DEF Answers
<1>9. o \in 0 .. Any
  BY <1>5
<1>10. st \in {"cs_zombie", "cs_preconnected", "cs_connected", "cs_spawned"}
  BY <1>6 DEF Executed
<1>11. game \in BOOLEAN
  BY <1>7
<1>12. drop \in BOOLEAN /\ b \in BOOLEAN
  BY <1>5, <1>7
<1>13. st2 \in {"cs_zombie", "cs_preconnected", "cs_connected", "cs_spawned"}
  BY <1>10
<1>14. game2 \in BOOLEAN
  BY <1>11 DEF Dropped
<1>15. ASSUME in_game[s] = (state[s] = "cs_spawned") PROVE game2 = (st2 = "cs_spawned")
  <2>1. game = (st = "cs_spawned")
    <3>1. in_game[s] <=> state[s] = "cs_spawned"
      BY <1>15
    <3>2. st = "cs_spawned" <=> k = 3 \/ state[s] = "cs_spawned"
      BY DEF Executed
    <3>3. game <=> st = "cs_spawned"
      BY <3>1, <3>2
    <3>4. \A x, y \in BOOLEAN : (x <=> y) => x = y
      OBVIOUS
    <3> HIDE DEF game, st
    <3> QED BY <1>11, <3>3, <3>4
  <2>2. CASE drop
    BY <2>1, <2>2 DEF Dropped
  <2>3. CASE ~drop
    BY <2>1, <2>3
  <2> QED BY <2>2, <2>3
<1> HIDE DEF st2, game2, n, a, o, b
<1>16. Command(m, s, st2, game2, n, a, o, b)
  BY <1>3, <1>4, <1>15 DEF Command
<1> QED BY <1>3, <1>8, <1>9, <1>12, <1>13, <1>14, <1>16 DEF Taken

(* A slot that is freed.                                                   *)
Freed(s) ==
    /\ state' = [state EXCEPT ![s] = "cs_free"]
    /\ remote_address' = [remote_address EXCEPT ![s] = Nobody]
    /\ in_game' = [in_game EXCEPT ![s] = Dropped(state[s], @)]
    /\ SetUp({s})

(* No step breaks the types of the server.                                 *)
LEMMA ServerType == TypeOK /\ [Next]_vars => ServerTypeOK'
<1> SUFFICES ASSUME TypeOK, [Next]_vars PROVE ServerTypeOK'
  OBVIOUS
<1>t. /\ state \in [Slots -> {"cs_free", "cs_zombie", "cs_preconnected", "cs_connected", "cs_spawned"}]
      /\ remote_address \in [Slots -> Clients \cup {Nobody}]
      /\ in_game \in [Slots -> BOOLEAN]
  BY DEF TypeOK, ServerTypeOK
<1>d. \A s \in Slots : Dropped(state[s], in_game[s]) \in BOOLEAN
  BY <1>t DEF Dropped
<1>1. CASE UNCHANGED server
  BY <1>1 DEF server, TypeOK, ServerTypeOK
<1>2. ASSUME NEW c \in Clients, SVC_DirectConnect(c), ~UNCHANGED server PROVE ServerTypeOK'
  <2>0. PICK own \in SUBSET Slots, taken \in SUBSET Slots : Connects(c, own, taken)
    BY <1>2, ConnectSlots
  <2>1. /\ state' = [s \in Slots |-> IF s \in taken THEN "cs_preconnected"
                                      ELSE IF s \in own THEN "cs_free" ELSE state[s]]
        /\ in_game' = [s \in Slots |->
               IF s \in own THEN Dropped(state[s], in_game[s]) ELSE in_game[s]]
        /\ remote_address' = [s \in Slots |->
               IF s \in taken THEN c ELSE IF s \in own THEN Nobody ELSE remote_address[s]]
        /\ SetUp(own \cup taken)
    BY <2>0 DEF Connects
  <2>2. state' \in [Slots -> {"cs_free", "cs_zombie", "cs_preconnected", "cs_connected", "cs_spawned"}]
    BY <1>t, <2>1
  <2>3. remote_address' \in [Slots -> Clients \cup {Nobody}]
    BY <1>t, <2>1
  <2>4. in_game' \in [Slots -> BOOLEAN]
    <3>1. \A s \in Slots : (IF s \in own THEN Dropped(state[s], in_game[s]) ELSE in_game[s]) \in BOOLEAN
      BY <1>t, <1>d
    <3> QED BY <2>1, <3>1
  <2> QED BY <2>1, <2>2, <2>3, <2>4, SetUpType DEF TypeOK, ServerTypeOK
<1>3. ASSUME NEW m \in net, SV_ReadPacket(m) PROVE ServerTypeOK'
  <2>1. CASE UNCHANGED server
    BY <1>1, <2>1
  <2>2. CASE ~UNCHANGED server
    <3>1. PICK s \in Slots, st \in Taken, game \in BOOLEAN, n \in 0 .. 3, a \in 0 .. 3,
               o \in 0 .. Any, b \in BOOLEAN : Command(m, s, st, game, n, a, o, b)
      BY <1>3, <2>2, ReadPacketSlot
    <3>2. /\ got' \in [Slots -> 0 .. 3] /\ answer' \in [Slots -> 0 .. 3]
          /\ sv_oldest' \in [Slots -> 0 .. Any]
      BY <3>1, Update DEF Command, TypeOK, ServerTypeOK
    <3>3. in_game' \in [Slots -> BOOLEAN] /\ bye' \in [Slots -> BOOLEAN]
      BY <3>1, Update DEF Command, TypeOK, ServerTypeOK
    <3>4. state' \in [Slots -> {"cs_free", "cs_zombie", "cs_preconnected", "cs_connected", "cs_spawned"}]
      BY <1>t, <3>1 DEF Command, Taken
    <3> QED BY <3>1, <3>2, <3>3, <3>4 DEF Command, TypeOK, ServerTypeOK
  <2> QED BY <2>1, <2>2
<1>4. ASSUME NEW s \in Slots, Freed(s) PROVE ServerTypeOK'
  <2>1. state' \in [Slots -> {"cs_free", "cs_zombie", "cs_preconnected", "cs_connected", "cs_spawned"}]
    BY <1>t, <1>4 DEF Freed
  <2>2. remote_address' \in [Slots -> Clients \cup {Nobody}]
    BY <1>t, <1>4 DEF Freed
  <2>3. in_game' \in [Slots -> BOOLEAN]
    BY <1>t, <1>d, <1>4, Update DEF Freed
  <2> QED BY <1>4, <2>1, <2>2, <2>3, SetUpType DEF Freed, TypeOK, ServerTypeOK
<1>5. ASSUME NEW s \in Slots, SV_DropClient(s) PROVE ServerTypeOK'
  <2>1. in_game' \in [Slots -> BOOLEAN] /\ bye' \in [Slots -> BOOLEAN]
    BY <1>d, <1>5, Update DEF SV_DropClient, TypeOK, ServerTypeOK
  <2> QED BY <1>5, <2>1 DEF SV_DropClient, TypeOK, ServerTypeOK
<1>6. ASSUME NEW s \in Slots, OtherPlayer(s) PROVE ServerTypeOK'
  <2>1. in_game' \in [Slots -> BOOLEAN]
    BY <1>6, Update DEF OtherPlayer, TypeOK, ServerTypeOK
  <2> QED BY <1>6, <2>1 DEF OtherPlayer, TypeOK, ServerTypeOK
<1> QED
  BY <1>1, <1>2, <1>3, <1>4, <1>5, <1>6
  DEF Next, CL_Connect_f, CL_Disconnect_f, CL_CheckForResend, CL_SendCmd, CL_Timeout,
      S2C_CHALLENGE, S2C_CONNECTION, Challenge, CL_ReadPacket, Lose, SV_CheckTimeouts,
      ServerGivesUp, Freed, vars

(* Whatever comes late or twice, a client gets no second slot.             *)
LEMMA NextSlots == TypeOK /\ SlotsInv /\ [Next]_vars => SlotsInv'
<1> SUFFICES ASSUME TypeOK, SlotsInv, [Next]_vars PROVE SlotsInv'
  OBVIOUS
<1>t. /\ state \in [Slots -> {"cs_free", "cs_zombie", "cs_preconnected", "cs_connected", "cs_spawned"}]
      /\ remote_address \in [Slots -> Clients \cup {Nobody}]
      /\ Nobody \notin Clients
  BY ConnectionAssumption DEF TypeOK, ServerTypeOK
<1>1. CASE UNCHANGED server
  BY <1>1 DEF server, SlotsInv
<1>2. ASSUME NEW c \in Clients, SVC_DirectConnect(c), ~UNCHANGED server PROVE SlotsInv'
  <2>0. PICK own \in SUBSET Slots, taken \in SUBSET Slots : Connects(c, own, taken)
    BY <1>2, ConnectSlots
  <2>1. /\ own = {} <=> SlotsOf(c) = {}
        /\ own \subseteq SlotsOf(c)
        /\ \A s, t \in taken : s = t
        /\ \A s \in taken : s \in own \/ state[s] = "cs_free"
        /\ state' = [s \in Slots |-> IF s \in taken THEN "cs_preconnected"
                                      ELSE IF s \in own THEN "cs_free" ELSE state[s]]
        /\ remote_address' = [s \in Slots |->
               IF s \in taken THEN c ELSE IF s \in own THEN Nobody ELSE remote_address[s]]
    BY <2>0 DEF Connects
  <2>2. \A s \in Slots : remote_address[s] = c => s \in own
    <3>1. \A s \in Slots : remote_address[s] = c => s \in SlotsOf(c)
      BY <1>t DEF SlotsInv, SlotsOf
    <3>2. \A s, t \in SlotsOf(c) : s = t
      BY <1>t DEF SlotsInv, SlotsOf
    <3> QED BY <2>1, <3>1, <3>2
  <2>3. \A s \in Slots : state'[s] = "cs_free" => remote_address'[s] = Nobody
    BY <2>1 DEF SlotsInv
  <2>4. \A s \in Slots : remote_address'[s] = c => s \in taken
    BY <1>t, <2>1, <2>2
  <2>5. ASSUME NEW s \in Slots, NEW t \in Slots,
               remote_address'[s] = remote_address'[t], remote_address'[s] # Nobody
        PROVE  s = t
    <3>1. CASE remote_address'[s] = c
      BY <2>1, <2>4, <2>5, <3>1
    <3>2. CASE remote_address'[s] # c
      BY <2>1, <2>5, <3>2 DEF SlotsInv
    <3> QED BY <3>1, <3>2
  <2> QED BY <2>3, <2>5 DEF SlotsInv
<1>3. ASSUME NEW m \in net, SV_ReadPacket(m) PROVE SlotsInv'
  <2>1. CASE UNCHANGED server
    BY <1>1, <2>1
  <2>2. CASE ~UNCHANGED server
    <3>1. PICK s \in Slots, st \in Taken, game \in BOOLEAN, n \in 0 .. 3, a \in 0 .. 3,
               o \in 0 .. Any, b \in BOOLEAN : Command(m, s, st, game, n, a, o, b)
      BY <1>3, <2>2, ReadPacketSlot
    <3>2. /\ state' = [state EXCEPT ![s] = st] /\ st # "cs_free"
          /\ UNCHANGED remote_address
      BY <3>1 DEF Command, Taken
    <3> QED BY <1>t, <3>2 DEF SlotsInv
  <2> QED BY <2>1, <2>2
<1>4. ASSUME NEW s \in Slots, Freed(s) PROVE SlotsInv'
  BY <1>t, <1>4 DEF Freed, SlotsInv
<1>5. ASSUME NEW s \in Slots, SV_DropClient(s) PROVE SlotsInv'
  BY <1>t, <1>5 DEF SV_DropClient, SlotsInv
<1>6. ASSUME NEW s \in Slots, OtherPlayer(s) PROVE SlotsInv'
  BY <1>t, <1>6 DEF OtherPlayer, SlotsInv
<1> QED
  BY <1>1, <1>2, <1>3, <1>4, <1>5, <1>6
  DEF Next, CL_Connect_f, CL_Disconnect_f, CL_CheckForResend, CL_SendCmd, CL_Timeout,
      S2C_CHALLENGE, S2C_CONNECTION, Challenge, CL_ReadPacket, Lose, SV_CheckTimeouts,
      ServerGivesUp, Freed, vars

(* The game is told of every client that comes and of every one that goes. *)
LEMMA NextGame == TypeOK /\ GameMatchesSlots /\ [Next]_vars => GameMatchesSlots'
<1> SUFFICES ASSUME TypeOK, GameMatchesSlots, [Next]_vars PROVE GameMatchesSlots'
  OBVIOUS
<1>t. /\ state \in [Slots -> {"cs_free", "cs_zombie", "cs_preconnected", "cs_connected", "cs_spawned"}]
      /\ in_game \in [Slots -> BOOLEAN]
      /\ \A s \in Slots : in_game[s] = (state[s] = "cs_spawned")
  BY DEF TypeOK, ServerTypeOK, GameMatchesSlots
<1>d. \A s \in Slots : Dropped(state[s], in_game[s]) = FALSE
  <2> SUFFICES ASSUME NEW s \in Slots PROVE Dropped(state[s], in_game[s]) = FALSE
    OBVIOUS
  <2>1. CASE state[s] = "cs_spawned"
    BY <2>1 DEF Dropped
  <2>2. CASE state[s] # "cs_spawned"
    <3>1. in_game[s] = FALSE
      BY <1>t, <2>2
    <3> QED BY <2>2, <3>1 DEF Dropped
  <2> QED BY <2>1, <2>2
<1>1. CASE UNCHANGED server
  BY <1>1, <1>t DEF server, GameMatchesSlots
<1>2. ASSUME NEW c \in Clients, SVC_DirectConnect(c), ~UNCHANGED server PROVE GameMatchesSlots'
  <2>0. PICK own \in SUBSET Slots, taken \in SUBSET Slots : Connects(c, own, taken)
    BY <1>2, ConnectSlots
  <2>1. /\ \A s \in taken : s \in own \/ state[s] = "cs_free"
        /\ state' = [s \in Slots |-> IF s \in taken THEN "cs_preconnected"
                                      ELSE IF s \in own THEN "cs_free" ELSE state[s]]
        /\ in_game' = [s \in Slots |->
               IF s \in own THEN Dropped(state[s], in_game[s]) ELSE in_game[s]]
    BY <2>0 DEF Connects
  <2> SUFFICES ASSUME NEW s \in Slots PROVE in_game'[s] = (state'[s] = "cs_spawned")
    BY DEF GameMatchesSlots
  <2>2. CASE s \in own \/ s \in taken
    <3>1. state'[s] # "cs_spawned"
      BY <2>1, <2>2
    <3>2. in_game'[s] = FALSE
      <4>1. CASE s \in own
        BY <1>d, <2>1, <4>1
      <4>2. CASE s \notin own
        BY <1>t, <2>1, <2>2, <4>2
      <4> QED BY <4>1, <4>2
    <3> QED BY <3>1, <3>2
  <2>3. CASE s \notin own /\ s \notin taken
    <3>1. state'[s] = state[s] /\ in_game'[s] = in_game[s]
      BY <2>1, <2>3
    <3> QED BY <1>t, <3>1
  <2> QED BY <2>2, <2>3
<1>l. ASSUME NEW s \in Slots, NEW st, NEW game, game = (st = "cs_spawned"),
             state' = [state EXCEPT ![s] = st], in_game' = [in_game EXCEPT ![s] = game]
      PROVE  GameMatchesSlots'
  <2> SUFFICES ASSUME NEW t \in Slots PROVE in_game'[t] = (state'[t] = "cs_spawned")
    BY DEF GameMatchesSlots
  <2>1. CASE t = s
    BY <1>t, <1>l, <2>1
  <2>2. CASE t # s
    <3>1. state'[t] = state[t] /\ in_game'[t] = in_game[t]
      BY <1>t, <1>l, <2>2
    <3> QED BY <1>t, <3>1
  <2> QED BY <2>1, <2>2
<1>3. ASSUME NEW m \in net, SV_ReadPacket(m) PROVE GameMatchesSlots'
  <2>1. CASE UNCHANGED server
    BY <1>1, <2>1
  <2>2. CASE ~UNCHANGED server
    <3>1. PICK s \in Slots, st \in Taken, game \in BOOLEAN, n \in 0 .. 3, a \in 0 .. 3,
               o \in 0 .. Any, b \in BOOLEAN : Command(m, s, st, game, n, a, o, b)
      BY <1>3, <2>2, ReadPacketSlot
    <3>2. /\ in_game[s] = (state[s] = "cs_spawned") => game = (st = "cs_spawned")
          /\ state' = [state EXCEPT ![s] = st] /\ in_game' = [in_game EXCEPT ![s] = game]
      BY <3>1 DEF Command
    <3>3. game = (st = "cs_spawned")
      BY <1>t, <3>1, <3>2
    <3> QED BY <1>l, <3>1, <3>2, <3>3
  <2> QED BY <2>1, <2>2
<1>4. ASSUME NEW s \in Slots, Freed(s) PROVE GameMatchesSlots'
  <2>1. in_game' = [in_game EXCEPT ![s] = FALSE] /\ state' = [state EXCEPT ![s] = "cs_free"]
    BY <1>d, <1>4 DEF Freed
  <2>2. FALSE = ("cs_free" = "cs_spawned")
    OBVIOUS
  <2> QED BY <1>l, <2>1, <2>2
<1>5. ASSUME NEW s \in Slots, SV_DropClient(s) PROVE GameMatchesSlots'
  <2>1. in_game' = [in_game EXCEPT ![s] = FALSE] /\ state' = [state EXCEPT ![s] = "cs_zombie"]
    BY <1>d, <1>5 DEF SV_DropClient
  <2>2. FALSE = ("cs_zombie" = "cs_spawned")
    OBVIOUS
  <2> QED BY <1>l, <2>1, <2>2
<1>6. ASSUME NEW s \in Slots, OtherPlayer(s) PROVE GameMatchesSlots'
  <2>1. \/ in_game' = [in_game EXCEPT ![s] = TRUE] /\ state' = [state EXCEPT ![s] = "cs_spawned"]
        \/ in_game' = [in_game EXCEPT ![s] = FALSE] /\ state' = [state EXCEPT ![s] = "cs_zombie"]
    BY <1>6 DEF OtherPlayer
  <2>2. TRUE = ("cs_spawned" = "cs_spawned") /\ FALSE = ("cs_zombie" = "cs_spawned")
    OBVIOUS
  <2> QED BY <1>l, <2>1, <2>2
<1> QED
  BY <1>1, <1>2, <1>3, <1>4, <1>5, <1>6
  DEF Next, CL_Connect_f, CL_Disconnect_f, CL_CheckForResend, CL_SendCmd, CL_Timeout,
      S2C_CHALLENGE, S2C_CONNECTION, Challenge, CL_ReadPacket, Lose, SV_CheckTimeouts,
      ServerGivesUp, Freed, vars

-----------------------------------------------------------------------------
(* The network and the history                                             *)

(* A connected client's packet is one.                                     *)
LEMMA ClientPacket ==
    ASSUME TypeOK, SessionsInv, NEW c \in Clients, Connected(c), NEW d \in BOOLEAN
    PROVE  [type |-> "clc", of |-> c, session |-> session[c], qport |-> qport[c],
            command |-> IF acked[c] THEN 0 ELSE asked[c], drop |-> d] \in ClientPackets
<1>1. session[c] \in Sessions
  BY ConnectionAssumption DEF SessionsInv, Sessions, TypeOK, ClientTypeOK
<1>2. (IF acked[c] THEN 0 ELSE asked[c]) \in Commands \cup {0}
  <2>1. asked[c] \in 0 .. 3
    BY DEF TypeOK, ClientTypeOK
  <2> QED BY <2>1 DEF Commands
<1>3. qport[c] \in BOOLEAN
  BY DEF TypeOK, ClientTypeOK
<1> QED BY <1>1, <1>2, <1>3 DEF ClientPackets

(* So are its last ones.                                                   *)
LEMMA DropsType ==
    ASSUME TypeOK, SessionsInv, NEW c \in Clients
    PROVE  Drops(c) \subseteq ClientPackets
<1>1. CASE Connected(c)
  BY <1>1, ClientPacket DEF Drops
<1>2. CASE ~Connected(c)
  BY <1>2 DEF Drops
<1> QED BY <1>1, <1>2

(* The answers to a datagram are all that comes into the network.          *)
LEMMA ExchangeType ==
    ASSUME TypeOK, NEW m \in net,
           NEW answers \in SUBSET (Handshake \cup ClientPackets \cup ServerPackets),
           Exchange(m, answers)
    PROVE  NetTypeOK' /\ faults' \in 0 .. MaxFaults
<1>1. NetTypeOK'
  BY DEF Exchange, TypeOK, NetTypeOK
<1>2. faults' \in 0 .. MaxFaults
  BY ConnectionAssumption DEF Exchange, TypeOK, BoundsTypeOK
<1> QED BY <1>1, <1>2

(* One fault more is still within the bound.                               *)
LEMMA FaultType ==
    ASSUME TypeOK, faults < MaxFaults, faults' = faults + 1
    PROVE  faults' \in 0 .. MaxFaults
BY ConnectionAssumption DEF TypeOK, BoundsTypeOK

(* No step sends what is not a datagram, or makes more faults than bound.  *)
LEMMA NetType ==
    TypeOK /\ SessionsInv /\ [Next]_vars => NetTypeOK' /\ faults' \in 0 .. MaxFaults
<1> SUFFICES ASSUME TypeOK, SessionsInv, [Next]_vars
             PROVE  NetTypeOK' /\ faults' \in 0 .. MaxFaults
  OBVIOUS
<1> DEFINE Goal == NetTypeOK' /\ faults' \in 0 .. MaxFaults
<1>t. net \subseteq Handshake \cup ClientPackets \cup ServerPackets /\ faults \in 0 .. MaxFaults
  BY DEF TypeOK, NetTypeOK, BoundsTypeOK
<1>1. ASSUME net' \subseteq net, faults' = faults PROVE Goal
  BY <1>1, <1>t DEF NetTypeOK
<1>2. ASSUME NEW c \in Clients, CL_Connect_f(c) PROVE Goal
  <2>1. [type |-> "getchallenge", of |-> c] \in Handshake
    BY DEF Handshake
  <2>2. net' = net \cup Drops(c) \cup {[type |-> "getchallenge", of |-> c]} /\ faults' = faults
    BY <1>2 DEF CL_Connect_f
  <2> QED BY <1>t, <2>1, <2>2, DropsType DEF NetTypeOK
<1>3. ASSUME NEW c \in Clients, CL_Disconnect_f(c) \/ CL_Timeout(c) PROVE Goal
  <2>1. net' = net \cup Drops(c) /\ faults' = faults
    BY <1>3 DEF CL_Disconnect_f, CL_Timeout, bounds
  <2> QED BY <1>t, <2>1, DropsType DEF NetTypeOK
<1>4. ASSUME NEW c \in Clients, CL_CheckForResend(c) PROVE Goal
  <2>1. [type |-> "getchallenge", of |-> c] \in Handshake
    BY DEF Handshake
  <2> QED BY <1>4, <1>t, <2>1 DEF CL_CheckForResend, NetTypeOK, bounds
<1>5. ASSUME NEW c \in Clients, CL_SendCmd(c) PROVE Goal
  <2>1. Connected(c) /\ faults' = faults
    BY <1>5 DEF CL_SendCmd, bounds
  <2>2. \A m \in net' : m \in net \/ m \in ClientPackets
    BY <1>5, <2>1, ClientPacket DEF CL_SendCmd
  <2> QED BY <1>t, <2>1, <2>2 DEF NetTypeOK
<1>6. ASSUME NEW c \in Clients, S2C_CHALLENGE(c) PROVE Goal
  <2>1. [type |-> "connect", of |-> c] \in Handshake
    BY DEF Handshake
  <2>2. PICK m \in net : \E A \in SUBSET {[type |-> "connect", of |-> c]} : Exchange(m, A)
    BY <1>6 DEF S2C_CHALLENGE
  <2> QED BY <2>1, <2>2, ExchangeType
<1>7. ASSUME NEW c \in Clients, S2C_CONNECTION(c) PROVE Goal
  BY <1>7, ExchangeType DEF S2C_CONNECTION
<1>8. ASSUME NEW c \in Clients, Challenge(c) PROVE Goal
  <2>1. [type |-> "challenge", of |-> c] \in Handshake
    BY DEF Handshake
  <2> QED BY <1>8, <2>1, ExchangeType DEF Challenge
<1>9. ASSUME NEW c \in Clients, SVC_DirectConnect(c) PROVE Goal
  <2>1. [type |-> "connection", of |-> c] \in Handshake
    BY DEF Handshake
  <2>2. PICK m \in net : \E A \in SUBSET {[type |-> "connection", of |-> c]} : Exchange(m, A)
    BY <1>9 DEF SVC_DirectConnect
  <2> QED BY <2>1, <2>2, ExchangeType
<1>10. ASSUME NEW m \in net, CL_ReadPacket(m) PROVE Goal
  <2>1. m.of \in Clients
    BY PacketTypes
  <2>2. Exchange(m, {}) \/ Exchange(m, Drops(m.of))
    BY <1>10 DEF CL_ReadPacket
  <2> QED BY <2>1, <2>2, ExchangeType, DropsType
<1>11. ASSUME NEW m \in net, SV_ReadPacket(m) PROVE Goal
  <2>1. CASE Exchange(m, {}) /\ UNCHANGED server
    BY <2>1, ExchangeType
  <2>2. CASE ~(Exchange(m, {}) /\ UNCHANGED server)
    <3>1. PICK s \in Slots, st \in Taken, game \in BOOLEAN, n \in 0 .. 3, a \in 0 .. 3,
               o \in 0 .. Any, b \in BOOLEAN : Command(m, s, st, game, n, a, o, b)
      BY <1>11, <2>2, ReadPacketSlot
    <3>2. got'[s] = n /\ answer'[s] = a /\ bye'[s] = b
      BY <3>1 DEF Command, TypeOK, ServerTypeOK
    <3>3. m \in ClientPackets
      BY <1>11, PacketTypes DEF SV_ReadPacket
    <3>4. [type |-> "svc", of |-> m.of, session |-> m.session, heard |-> got'[s],
           answer |-> answer'[s], bye |-> bye'[s]] \in ServerPackets
      BY <3>2, <3>3 DEF ClientPackets, ServerPackets, Commands
    <3> QED BY <3>1, <3>4, ExchangeType DEF Command
  <2> QED BY <2>1, <2>2
<1>12. ASSUME NEW m \in net, Lose(m) PROVE Goal
  BY <1>12, <1>t, FaultType DEF Lose, NetTypeOK
<1>13. ASSUME NEW s \in Slots, SV_DropClient(s) PROVE Goal
  BY <1>13, <1>t, FaultType DEF SV_DropClient, NetTypeOK
<1>14. ASSUME NEW s \in Slots, ServerGivesUp(s) PROVE Goal
  BY <1>14, <1>t, FaultType DEF ServerGivesUp, NetTypeOK
<1>15. CASE UNCHANGED <<net, faults>>
  BY <1>1, <1>15
<1> QED
  BY <1>2, <1>3, <1>4, <1>5, <1>6, <1>7, <1>8, <1>9, <1>10, <1>11, <1>12, <1>13, <1>14, <1>15
  DEF Next, SV_CheckTimeouts, OtherPlayer, bounds, vars

(* Wishes stay within their bound, and overtaken a truth value.            *)
LEMMA WishesType ==
    TypeOK /\ [Next]_vars =>
        wishes' \in [Clients -> 0 .. MaxWishes] /\ overtaken' \in [Clients -> BOOLEAN]
<1> SUFFICES ASSUME TypeOK, [Next]_vars
             PROVE  wishes' \in [Clients -> 0 .. MaxWishes] /\ overtaken' \in [Clients -> BOOLEAN]
  OBVIOUS
<1>t. wishes \in [Clients -> 0 .. MaxWishes] /\ overtaken \in [Clients -> BOOLEAN]
  BY DEF TypeOK, BoundsTypeOK
<1>1. CASE UNCHANGED <<wishes, overtaken>>
  BY <1>1, <1>t
<1>2. ASSUME NEW c \in Clients, CL_Connect_f(c) PROVE wishes' \in [Clients -> 0 .. MaxWishes]
  <2>1. wishes[c] + 1 \in 0 .. MaxWishes /\ wishes' = [wishes EXCEPT ![c] = wishes[c] + 1]
    BY <1>2, <1>t, ConnectionAssumption DEF CL_Connect_f
  <2> QED BY <1>t, <2>1, Update
<1>3. ASSUME NEW c \in Clients, S2C_CONNECTION(c) PROVE overtaken' \in [Clients -> BOOLEAN]
  BY <1>3, <1>t, Update DEF S2C_CONNECTION
<1>4. ASSUME NEW c \in Clients, SVC_DirectConnect(c) PROVE overtaken' \in [Clients -> BOOLEAN]
  <2>1. PICK b \in BOOLEAN : overtaken' = overtaken \/ overtaken' = [overtaken EXCEPT ![c] = b]
    <3>1. overtaken' = overtaken \/ overtaken' = [overtaken EXCEPT ![c] = @ \/ Connected(c)]
      BY <1>4 DEF SVC_DirectConnect
    <3>2. (overtaken[c] \/ Connected(c)) \in BOOLEAN
      OBVIOUS
    <3> QED BY <3>1, <3>2
  <2> QED BY <1>t, <2>1, Update
<1>5. ASSUME NEW c \in Clients, CL_Connect_f(c) PROVE overtaken' = overtaken
  BY <1>5 DEF CL_Connect_f
<1>6. ASSUME NEW c \in Clients, S2C_CONNECTION(c) \/ SVC_DirectConnect(c) PROVE wishes' = wishes
  BY <1>6 DEF S2C_CONNECTION, SVC_DirectConnect
<1> QED
  BY <1>t, <1>1, <1>2, <1>3, <1>4, <1>5, <1>6
  DEF Next, CL_Disconnect_f, CL_CheckForResend, CL_SendCmd, CL_Timeout, S2C_CHALLENGE,
      Challenge, CL_ReadPacket, SV_ReadPacket, Lose, SV_CheckTimeouts, SV_DropClient,
      ServerGivesUp, OtherPlayer, bounds, vars

-----------------------------------------------------------------------------
(* The theorems                                                            *)

(* No client holds two slots, whatever of its connects is late or repeated *)
(* (CheckReConnect, SVC_DirectConnect).                                    *)
THEOREM NoSecondSlot == Spec => []ConnectionInv
<1>1. ConnectionInv /\ [Next]_vars => ConnectionInv'
  <2> SUFFICES ASSUME ConnectionInv, [Next]_vars PROVE ConnectionInv'
    OBVIOUS
  <2>1. ClientTypeOK' /\ ServerTypeOK' /\ SessionsInv' /\ SlotsInv'
    BY ClientType, ServerType, NextSessions, NextSlots DEF ConnectionInv
  <2>2. NetTypeOK' /\ BoundsTypeOK'
    BY NetType, WishesType DEF ConnectionInv, BoundsTypeOK
  <2> QED BY <2>1, <2>2 DEF ConnectionInv, TypeOK
<1> QED BY <1>1, InitInv, PTL DEF Spec

(* Every variable keeps its type (cl_main.c, sv_main.c).                   *)
THEOREM TypeCorrect == Spec => []TypeOK
<1>1. ConnectionInv => TypeOK
  BY DEF ConnectionInv
<1> QED BY <1>1, NoSecondSlot, PTL

(* The game knows exactly the spawned clients (Cmd_Begin_f, SV_DropClient, *)
(* CheckReConnect).                                                        *)
THEOREM GameKnowsTheSpawned == Spec => []GameMatchesSlots
<1>1. TypeOK /\ GameMatchesSlots /\ [Next]_vars => GameMatchesSlots'
  BY NextGame
<1> QED BY <1>1, InitInv, TypeCorrect, PTL DEF Spec
============================================================================
