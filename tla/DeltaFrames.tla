----------------------------- MODULE DeltaFrames -----------------------------
(***************************************************************************)
(* What a spawned client and the server say in every packet: the player's  *)
(* commands one way, the visible entities the other (cl_input.c, sv_user.c,*)
(* sv_ents.c, cl_ents.c).                                                  *)
(*                                                                         *)
(* The server sends entities as changes to a frame the client has asked it *)
(* to start from, the client sends each command three times, and both keep *)
(* their last UPDATE_BACKUP frames in rings.  A frame is a function from   *)
(* the visible entities to their fields: the merge of two sorted arrays is *)
(* a case for each entity.  The reply to a packet has its number           *)
(* (NetChan).  A packet that is read makes all earlier ones stale, so they *)
(* leave the network with it.                                              *)
(***************************************************************************)
EXTENDS Integers, Sequences, FiniteSets, SequencesExt

CONSTANTS
    Entities,          \* their numbers
    Fields,            \* of an entity, each at its baseline (0) or changed (1)
    UPDATE_BACKUP,     \* frames in a ring
    ByteRange,         \* values of a byte
    MaxExtrapolated,   \* 20: more missing packets are not made up for
    ImpulseBackup,     \* cl_c2sImpulseBackup
    MaxSeq,            \* bound: packets of the client
    MaxImpulse,        \* bound: the number of the command with the impulse
    MaxInFlight,       \* bound: packets in flight, each way
    MaxFaults          \* bound: impulses, chokes, overflows and requests for no delta

ASSUME DeltaFramesAssumption ==
    /\ Entities \subseteq Nat /\ IsFiniteSet(Fields)
    /\ UPDATE_BACKUP \in Nat /\ UPDATE_BACKUP >= 4
    /\ ByteRange \in Nat \ {0} /\ ByteRange % UPDATE_BACKUP = 0
    /\ {MaxExtrapolated, ImpulseBackup, MaxSeq, MaxImpulse, MaxInFlight, MaxFaults} \subseteq Nat

Slot(n) == n % UPDATE_BACKUP
Slots == 0 .. (UPDATE_BACKUP - 1)
Numbers == 0 .. MaxSeq
NoDelta == -1

States == [Fields -> {0, 1}]
Baseline == [f \in Fields |-> 0]
Frames == UNION {[S -> States] : S \in SUBSET Entities}
Empty == [e \in {} |-> Baseline]

VARIABLES
    outgoing_sequence,  \* client: number of the next packet
    validsequence,      \* client: of the frame it shows, 0 for none
    cl_delta_sequence,  \* client: of the frame to start from, 0 for none
    active,             \* client: ca_active
    dropcount,          \* client: packets it has left out in a row
    cmds,               \* client: command in each slot, as the number of its packet
    requested,          \* client: what the packet of each slot has asked for
    cl_entities,        \* client: entities of the frame in each slot
    received,           \* server: number of the last packet it has read
    send_message,       \* server: the packet has not been answered
    sv_delta_sequence,  \* server: what the packet has asked for
    sv_entities,        \* server: entities of the frame in each slot
    lastcmd,            \* server: last command
    commands, replies,  \* packets in flight
    faults,
    impulse,            \* history: the command with the impulse, 0 before
    copies,             \* history: packets with it that have left the client
    arrived             \* history: the server has executed it

asks == <<outgoing_sequence, dropcount, cmds, requested, impulse, copies>>
shows == <<active, cl_entities>>
client == <<asks, shows, validsequence, cl_delta_sequence>>
executed == <<lastcmd, arrived>>
server == <<received, send_message, sv_delta_sequence, sv_entities, executed>>
vars == <<client, server, commands, replies, faults>>

-----------------------------------------------------------------------------
(* The packets *)

Bytes == 0 .. (ByteRange - 1)

(* A packet of the client names the frame it asks for by its last byte.    *)
CommandPackets ==
    [seq : 1 .. MaxSeq, delta : Bytes \cup {NoDelta}, cmds : [1 .. 3 -> Numbers]]

(* An update says what has changed, from which frame, and what is gone.    *)
Changes == UNION {[F -> {0, 1}] : F \in SUBSET Fields}
Updates ==
    [from : Bytes \cup {NoDelta}, removed : SUBSET Entities,
     changed : UNION {[S -> Changes] : S \in SUBSET Entities}]
NoUpdate == [from |-> NoDelta]

(* The server has accepted begin, the client waits for its first frame.    *)
Init ==
    /\ outgoing_sequence = 1
    /\ validsequence = 0 /\ cl_delta_sequence = 0
    /\ active = FALSE
    /\ dropcount = 0
    /\ cmds = [s \in Slots |-> 0]
    /\ requested = [s \in Slots |-> 0]
    /\ cl_entities = [s \in Slots |-> Empty]
    /\ received = 0 /\ send_message = FALSE
    /\ sv_delta_sequence = NoDelta
    /\ sv_entities = [s \in Slots |-> Empty]
    /\ lastcmd = 0
    /\ commands = {} /\ replies = {}
    /\ faults = 0
    /\ impulse = 0 /\ copies = 0 /\ arrived = FALSE

Disturb(k) == faults' = faults + k /\ faults + k <= MaxFaults

-----------------------------------------------------------------------------
(* The client sends *)

(* Frame d can no longer be asked for when packet n is sent.               *)
Outdated(n, d) == n - d >= UPDATE_BACKUP - 1

(* Mutant: the command is taken for safe one packet too early. *)
Guarded_Fewer(n) ==
    (IF ImpulseBackup >= 1 THEN {Slot(n)} ELSE {}) \cup
    (IF ImpulseBackup >= 3 THEN {Slot(n - 2)} ELSE {}) \cup
    (IF ImpulseBackup >= 4 THEN {Slot(n - 1)} ELSE {})

(* The slots of the commands that keep packet n from being left out.       *)
Guarded(n) ==
    (IF ImpulseBackup >= 1 THEN {Slot(n)} ELSE {}) \cup
    (IF ImpulseBackup >= 2 THEN {Slot(n - 2)} ELSE {}) \cup
    (IF ImpulseBackup >= 3 THEN {Slot(n - 1)} ELSE {})

(* CL_SendCmd: the command of this frame with the two before it, and the   *)
(* frame the answer may start from.  Under cl_c2spps the packet may be     *)
(* numbered and left out.                                                  *)
CL_SendCmd(fire, nodelta, drop) ==
    LET n == outgoing_sequence
        late == Outdated(n, validsequence)
        base == IF late THEN 0 ELSE cl_delta_sequence
        ask == IF base # 0 /\ ~nodelta /\ active THEN base ELSE NoDelta
        packet == [seq |-> n,
                   delta |-> IF ask = NoDelta THEN NoDelta ELSE ask % ByteRange,
                   cmds |-> [i \in 1 .. 3 |-> cmds'[Slot(n - 3 + i)]]]
    IN  /\ n <= MaxSeq
        /\ Disturb((IF nodelta THEN 1 ELSE 0) + (IF fire THEN 1 ELSE 0))
        /\ fire => impulse = 0 /\ n <= MaxImpulse
        /\ impulse' = IF fire THEN n ELSE impulse
        /\ cmds' = [cmds EXCEPT ![Slot(n)] = n]
        /\ validsequence' = IF late THEN 0 ELSE validsequence
        /\ cl_delta_sequence' = base
        /\ requested' = [requested EXCEPT ![Slot(n)] = ask]
        /\ outgoing_sequence' = n + 1
        /\ IF drop
           THEN /\ dropcount < 2
                /\ \A s \in Guarded(n) : cmds'[s] = 0 \/ cmds'[s] # impulse'
                /\ dropcount' = dropcount + 1
                /\ UNCHANGED <<commands, copies>>
           ELSE /\ Cardinality(commands) < MaxInFlight
                /\ dropcount' = 0
                /\ commands' = commands \cup {packet}
                /\ copies' = IF impulse' # 0 /\ impulse' >= n - 2 THEN copies + 1 ELSE copies
        /\ UNCHANGED <<shows, server, replies>>

-----------------------------------------------------------------------------
(* The server *)

(* Mutant: the commands a packet repeats come after one more of the last.  *)
SV_ExecuteClientMove_OneMore(m, missing) ==
    [again |-> IF missing < MaxExtrapolated /\ missing > 1 THEN missing - 1 ELSE 0,
     own |-> SubSeq(m.cmds, IF missing > 1 THEN 1 ELSE IF missing > 0 THEN 2 ELSE 3, 3)]

(* SV_ExecuteClientMove for packet m after missing ones: how often the     *)
(* last command is executed again, and the commands of m after that.  What *)
(* m does not repeat is made up for by the last one, unless far too much   *)
(* is missing.                                                             *)
SV_ExecuteClientMove(m, missing) ==
    [again |-> IF missing < MaxExtrapolated /\ missing > 2 THEN missing - 2 ELSE 0,
     own |-> SubSeq(m.cmds, IF missing > 1 THEN 1 ELSE IF missing > 0 THEN 2 ELSE 3, 3)]

Missing(m) == m.seq - (received + 1)

(* Mutant: a packet that requests no delta leaves the earlier request.     *)
SV_ExecuteClientMessage_KeepsDelta(m) ==
    /\ commands' = {k \in commands : k.seq > m.seq}
    /\ received' = m.seq
    /\ send_message' = TRUE
    /\ arrived' = (arrived \/ \E k \in ToSet(SV_ExecuteClientMove(m, Missing(m)).own) :
                                 k = impulse /\ k # 0)
    /\ lastcmd' = m.cmds[3]
    /\ sv_delta_sequence' = IF m.delta = NoDelta THEN sv_delta_sequence ELSE m.delta
    /\ UNCHANGED <<client, sv_entities, replies, faults>>

(* SV_ExecuteClientMessage: no delta unless this packet requests it.       *)
SV_ExecuteClientMessage(m) ==
    /\ commands' = {k \in commands : k.seq > m.seq}
    /\ received' = m.seq
    /\ send_message' = TRUE
    /\ arrived' = (arrived \/ \E k \in ToSet(SV_ExecuteClientMove(m, Missing(m)).own) :
                                 k = impulse /\ k # 0)
    /\ lastcmd' = m.cmds[3]
    /\ sv_delta_sequence' = m.delta
    /\ UNCHANGED <<client, sv_entities, replies, faults>>

(* SV_WriteDelta for an entity that is in state old on the client and new  *)
(* now: what is written, if anything.  When there is no room for it the    *)
(* server acts as if nothing had changed.                                  *)
Difference(old, new) == [f \in {g \in Fields : new[g] # old[g]} |-> new[f]]

(* SV_WriteEntitiesToClient and SV_EmitPacketEntities: the frame of the    *)
(* visible entities and the update that leads to it, with room for the     *)
(* entities up to number room.                                             *)
SV_WriteEntitiesToClient(visible, room) ==
    LET base == IF sv_delta_sequence = NoDelta THEN Empty
                ELSE [sv_entities EXCEPT ![Slot(received)] = visible][Slot(sv_delta_sequence)]
        old(e) == IF e \in DOMAIN base THEN base[e] ELSE Baseline
        written == {e \in DOMAIN visible : e <= room /\ (e \notin DOMAIN base \/ visible[e] # base[e])}
    IN  [frame |-> [e \in DOMAIN visible |-> IF e <= room THEN visible[e] ELSE old(e)],
         update |-> [from |-> sv_delta_sequence,
                     removed |-> DOMAIN base \ DOMAIN visible,
                     changed |-> [e \in written |-> Difference(old(e), visible[e])]]]

(* SV_SendClientDatagram: what the client may see now is its answer.  With *)
(* an overflow nothing of it is sent but the number.                       *)
SV_SendClientDatagram(visible, room, overflowed) ==
    LET out == SV_WriteEntitiesToClient(visible, room)
    IN  /\ send_message
        /\ Cardinality(replies) < MaxInFlight
        /\ send_message' = FALSE
        /\ Disturb(IF overflowed \/ ~(DOMAIN visible \subseteq 0 .. room) THEN 1 ELSE 0)
        /\ sv_entities' = [sv_entities EXCEPT ![Slot(received)] = out.frame]
        /\ replies' = replies \cup
               {[seq |-> received, update |-> IF overflowed THEN NoUpdate ELSE out.update]}
        /\ UNCHANGED <<client, received, sv_delta_sequence, executed, commands>>

(* The rate allows no answer now.                                          *)
SV_ChokeClient ==
    /\ send_message
    /\ Disturb(1)
    /\ send_message' = FALSE
    /\ UNCHANGED <<client, received, sv_delta_sequence, sv_entities, executed, commands, replies>>

-----------------------------------------------------------------------------
(* The client reads *)

(* FlushEntityPacket: the next packet asks for no delta.                   *)
FlushEntityPacket(valid) ==
    /\ cl_delta_sequence' = 0
    /\ validsequence' = valid
    /\ UNCHANGED <<active, cl_entities>>

(* The frame that update u makes of frame old.                             *)
Merge(old, u) ==
    [e \in (DOMAIN old \ u.removed) \cup DOMAIN u.changed |->
        IF e \notin DOMAIN u.changed THEN old[e]
        ELSE [f \in Fields |->
                 IF f \in DOMAIN u.changed[e] THEN u.changed[e][f]
                 ELSE IF e \in DOMAIN old THEN old[e][f] ELSE Baseline[f]]]

ParseFrame(n, old, u) ==
    /\ cl_entities' = [cl_entities EXCEPT ![Slot(n)] = Merge(old, u)]
    /\ validsequence' = n
    /\ cl_delta_sequence' = n
    /\ active' = TRUE

(* Mutant: the update is applied to the frame shown last.                  *)
CL_ParsePacketEntities_FromShown(n, u) ==
    LET asked == requested[Slot(n)]
    IN  IF u.from = NoDelta
        THEN ParseFrame(n, Empty, u)
        ELSE IF Outdated(outgoing_sequence, n) \/ Slot(u.from) # Slot(asked)
        THEN FlushEntityPacket(0)
        ELSE IF Outdated(outgoing_sequence, asked)
        THEN FlushEntityPacket(validsequence)
        ELSE ParseFrame(n, cl_entities[Slot(validsequence)], u)

(* CL_ParsePacketEntities: update u in reply n.  A delta is only good for  *)
(* the frame the client asked for, while that is in the ring.              *)
CL_ParsePacketEntities(n, u) ==
    LET asked == requested[Slot(n)]
    IN  IF u.from = NoDelta
        THEN ParseFrame(n, Empty, u)
        ELSE IF Outdated(outgoing_sequence, n) \/ Slot(u.from) # Slot(asked)
        THEN FlushEntityPacket(0)
        ELSE IF Outdated(outgoing_sequence, asked)
        THEN FlushEntityPacket(validsequence)
        ELSE ParseFrame(n, cl_entities[Slot(asked)], u)

CL_ReadPacket(m) ==
    /\ replies' = {k \in replies : k.seq > m.seq}
    /\ IF m.update = NoUpdate
       THEN UNCHANGED <<validsequence, cl_delta_sequence, active, cl_entities>>
       ELSE CL_ParsePacketEntities(m.seq, m.update)
    /\ UNCHANGED <<asks, server, commands, faults>>

(* The network loses a packet.                                             *)
Lose ==
    /\ \/ \E m \in commands : commands' = commands \ {m} /\ UNCHANGED replies
       \/ \E m \in replies : replies' = replies \ {m} /\ UNCHANGED commands
    /\ UNCHANGED <<client, server, faults>>

Next ==
    \/ \E fire, nodelta, drop \in BOOLEAN : CL_SendCmd(fire, nodelta, drop)
    \/ \E m \in commands : SV_ExecuteClientMessage(m)
    \/ \E visible \in Frames, room \in Entities \cup {0}, overflowed \in BOOLEAN :
          SV_SendClientDatagram(visible, room, overflowed)
    \/ SV_ChokeClient
    \/ \E m \in replies : CL_ReadPacket(m)
    \/ Lose

Spec == Init /\ [][Next]_vars

-----------------------------------------------------------------------------
(* Every variable keeps its type.                                          *)
ClientTypeOK ==
    /\ outgoing_sequence \in 1 .. MaxSeq + 1
    /\ validsequence \in Numbers /\ cl_delta_sequence \in Numbers
    /\ active \in BOOLEAN /\ dropcount \in 0 .. 2
    /\ cmds \in [Slots -> Numbers] /\ requested \in [Slots -> Numbers \cup {NoDelta}]
    /\ cl_entities \in [Slots -> Frames]
    /\ impulse \in Numbers /\ copies \in 0 .. 3 /\ arrived \in BOOLEAN
ServerTypeOK ==
    /\ received \in Numbers /\ send_message \in BOOLEAN
    /\ sv_delta_sequence \in Bytes \cup {NoDelta}
    /\ sv_entities \in [Slots -> Frames]
    /\ lastcmd \in Numbers
    /\ faults \in 0 .. MaxFaults
PacketsTypeOK ==
    /\ commands \subseteq CommandPackets
    /\ \A m \in replies : m.seq \in 1 .. MaxSeq /\ m.update \in Updates \cup {NoUpdate}
TypeOK == ClientTypeOK /\ ServerTypeOK /\ PacketsTypeOK

(* A delta that reaches the client in time is one it has asked for: the    *)
(* warning for another one is never given.                                 *)
AnswersWhatWasAsked ==
    \A m \in replies :
        m.update # NoUpdate /\ m.update.from # NoDelta /\ ~Outdated(outgoing_sequence, m.seq)
            => Slot(m.update.from) = Slot(requested[Slot(m.seq)])

(* Type correctness and the request behind every delta.                    *)
DeltaInv == TypeOK /\ AnswersWhatWasAsked

(* What the client shows is what the server has meant, but for entities    *)
(* the server did not have the room to introduce: as long as such an       *)
(* entity stays at its baseline, nothing more is sent of it.               *)
Matches(shown, meant) ==
    /\ DOMAIN shown \subseteq DOMAIN meant
    /\ \A e \in DOMAIN shown : shown[e] = meant[e]
    /\ \A e \in DOMAIN meant \ DOMAIN shown : meant[e] = Baseline

(* After any losses the frame the client shows, and goes on from, is the   *)
(* one the server has under that number.                                   *)
SameFrame ==
    validsequence # 0 /\ ~Outdated(outgoing_sequence, validsequence) =>
        Matches(cl_entities[Slot(validsequence)], sv_entities[Slot(validsequence)])

(* A packet makes the server execute the commands it has missed, each once *)
(* and in turn, as far as the packet repeats them; the last one again      *)
(* makes up for the others, so that the player has moved as often as he    *)
(* has commanded, unless far too much is missing.                          *)
CommandsOnce ==
    [][\A m \in commands : received' = m.seq =>
         LET moves == SV_ExecuteClientMove(m, Missing(m))
             own == moves.own
         IN  /\ own[Len(own)] = m.seq
             /\ \A i \in DOMAIN own : own[i] > received
             /\ \A i, j \in DOMAIN own : i < j => own[i] < own[j]
             /\ Missing(m) < MaxExtrapolated => moves.again + Len(own) = Missing(m) + 1
             /\ Missing(m) <= 2 => moves.again = 0]_received

(* An impulse that the server passes over was lost by the network as often *)
(* as cl_c2sImpulseBackup says, but three times at most, as only three     *)
(* packets carry a command: thinning them out is no reason.                *)
ImpulseArrives ==
    impulse # 0 /\ received >= impulse =>
        arrived \/ copies >= (IF ImpulseBackup <= 3 THEN ImpulseBackup ELSE 3)
==============================================================================
