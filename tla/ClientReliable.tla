--------------------------- MODULE ClientReliable ---------------------------
(***************************************************************************)
(* The reliable stream the server keeps for one client: what the game      *)
(* writes goes to netchan.message, or, once a block no longer fits there,  *)
(* to a row of back buffers that SV_SendClientMessages pours into          *)
(* netchan.message one per frame (sv_nchan.c, sv_send.c).  The answers to  *)
(* the commands of a client that signs on are written to netchan.message   *)
(* directly (sv_user.c).  A client's buffers are as large as its mtu; a    *)
(* block for all clients may be larger.                                    *)
(*                                                                         *)
(* Bytes are numbered in the order they are written, 0 is a byte of a      *)
(* buffer nobody has written to, MaxWritten + 1 that of an svc_disconnect  *)
(* and MaxWritten + 2 that of a line printed at a drop.  The netchan       *)
(* below is the one of NetChan, seen from the server: it takes the message *)
(* when its reliable buffer is free.                                       *)
(***************************************************************************)
EXTENDS Integers, Sequences, FiniteSets

CONSTANTS MaxSize,           \* netchan.message.maxsize, which follows the client's mtu
          MAX_BACK_BUFFERS,
          BlockSizes,        \* sizes of the blocks the game writes
          ReplySizes,        \* sizes of what is written to the message directly
          ListLimit,         \* MAX_MSGLEN / 2
          MaxWritten,        \* bound: bytes written
          MaxDrops           \* bound: times the game drops the client

ASSUME ClientReliableAssumption ==
    /\ MaxSize \in Nat \ {0} /\ MAX_BACK_BUFFERS \in Nat \ {0}
    /\ BlockSizes \subseteq Nat
    /\ ReplySizes \subseteq Nat \ {0}
    /\ ListLimit \in Nat
    /\ MaxWritten \in Nat /\ MaxDrops \in Nat

svc_disconnect == MaxWritten + 1
svc_print == MaxWritten + 2

(* The blocks that fit an empty message: what the signon commands write    *)
(* through the back buffers are such ones.                                 *)
Lines == BlockSizes \cap 1 .. MaxSize

VARIABLES
    state,          \* cs_preconnected, then cs_connected, cs_spawned; cs_zombie
    message,        \* netchan.message
    overflowed,     \* netchan.message.overflowed
    num_backbuf, backbuf_size, backbuf_data,
    backbuf,        \* the sizebuf_t writes go to while num_backbuf # 0
    reliable_buf,   \* the netchan's reliable message in flight
    send_message,   \* a reply is owed
    sys_error,      \* the Sys_Error the server has stopped in, or "none"
    out,            \* history: what the netchan has taken
    log,            \* history: what it ought to take, in order
    lost,           \* history: the stream has lost its order, or bytes of the log
    forgiven,       \* history: by a spawn or modellist command that nobody is dropped for
    written,        \* bytes written
    drops           \* drops by the game

queue == <<num_backbuf, backbuf_size, backbuf_data, backbuf>>
vars == <<state, message, overflowed, queue, reliable_buf, send_message,
          sys_error, out, log, lost, forgiven, written, drops>>

Bytes == 0 .. MaxWritten + 2
Buffers == 1 .. MAX_BACK_BUFFERS

States == {"cs_preconnected", "cs_connected", "cs_spawned", "cs_zombie"}

(* SZ_GetSpace stops the server when a buffer may not overflow, and when   *)
(* one write is larger than the buffer.                                    *)
SysErrors == {"none", "no allowoverflow", "over maxsize"}

TypeOK ==
    /\ state \in States
    /\ message \in Seq(Bytes) /\ Len(message) <= MaxSize
    /\ overflowed \in BOOLEAN
    /\ num_backbuf \in 0 .. MAX_BACK_BUFFERS
    /\ backbuf_size \in [Buffers -> 0 .. MaxSize]
    /\ backbuf_data \in [Buffers -> [1 .. MaxSize -> Bytes]]
    /\ backbuf \in [data : Buffers, cursize : 0 .. MaxSize,
                    allowoverflow : BOOLEAN, overflowed : BOOLEAN]
    /\ reliable_buf \in Seq(Bytes) /\ Len(reliable_buf) <= MaxSize
    /\ send_message \in BOOLEAN
    /\ sys_error \in SysErrors
    /\ out \in Seq(Bytes) /\ log \in Seq(Bytes)
    /\ lost \in BOOLEAN /\ forgiven \in BOOLEAN
    /\ written \in 0 .. MaxWritten
    /\ drops \in 0 .. MaxDrops

Init ==
    /\ state = "cs_preconnected"
    /\ message = <<>> /\ overflowed = FALSE
    /\ num_backbuf = 0
    /\ backbuf_size = [i \in Buffers |-> 0]
    /\ backbuf_data = [i \in Buffers |-> [j \in 1 .. MaxSize |-> 0]]
    /\ backbuf = [data |-> 1, cursize |-> 0, allowoverflow |-> FALSE, overflowed |-> FALSE]
    /\ reliable_buf = <<>>
    /\ send_message = FALSE /\ sys_error = "none"
    /\ out = <<>> /\ log = <<>> /\ lost = FALSE /\ forgiven = FALSE
    /\ written = 0 /\ drops = 0

-----------------------------------------------------------------------------
(* The bytes of a write of n, and of one that follows a line of v.         *)
NextBytes(n) == [i \in 1 .. n |-> written + i]
BytesBehind(v, n) == [i \in 1 .. n |-> written + v + i]

(* A write that is made in parts and overflows its buffer empties it and   *)
(* leaves the last k bytes there.                                          *)
LastParts(n) == IF n = 0 THEN {0} ELSE {k \in 1 .. n : k <= MaxSize}
LastPart(b, k) == SubSeq(b, Len(b) - k + 1, Len(b))

(* The stream: all that writing to it changes, and its history.            *)
Stream == [message |-> message, overflowed |-> overflowed,
           num |-> num_backbuf, size |-> backbuf_size, data |-> backbuf_data,
           cur |-> backbuf, lost |-> lost, forgiven |-> forgiven, error |-> sys_error]

Commit(s) ==
    /\ message' = s.message /\ overflowed' = s.overflowed
    /\ num_backbuf' = s.num /\ backbuf_size' = s.size /\ backbuf_data' = s.data
    /\ backbuf' = s.cur /\ sys_error' = s.error
    /\ lost' = s.lost /\ forgiven' = s.forgiven

(* SZ_Write on netchan.message, which allows overflow.                     *)
DirectWrite(s, b, k) ==
    IF Len(s.message) + Len(b) <= MaxSize
    THEN [s EXCEPT !.message = @ \o b]
    ELSE [s EXCEPT !.message = LastPart(b, k), !.overflowed = TRUE, !.lost = TRUE]

(* The writes move on to a back buffer of their own.                       *)
NewBackbuf(s) ==
    [s EXCEPT !.cur = [data |-> s.num + 1, cursize |-> 0,
                       allowoverflow |-> TRUE, overflowed |-> FALSE],
              !.size[s.num + 1] = 0,
              !.num = @ + 1]

(* Mutants of CheckBlock: room is looked for in the message, also when the *)
(* block goes to a back buffer; running out of back buffers goes unnoticed.*)
CheckBlock_WrongBuffer(s, n) ==
    IF Len(s.message) <= MaxSize - n - 1 THEN s
    ELSE IF s.num = MAX_BACK_BUFFERS
    THEN [s EXCEPT !.cur.cursize = 0, !.overflowed = TRUE, !.lost = TRUE]
    ELSE NewBackbuf(s)

CheckBlock_Silent(s, n) ==
    IF \/ s.num = 0 /\ Len(s.message) <= MaxSize - n - 1
       \/ s.num # 0 /\ s.cur.cursize <= MaxSize - n - 1
    THEN s
    ELSE IF s.num = MAX_BACK_BUFFERS
    THEN [s EXCEPT !.cur.cursize = 0, !.lost = TRUE]
    ELSE NewBackbuf(s)

(* ClientReliableCheckBlock: make sure a block of n bytes will fit.        *)
CheckBlock(s, n) ==
    IF \/ s.num = 0 /\ Len(s.message) <= MaxSize - n - 1
       \/ s.num # 0 /\ s.cur.cursize <= MaxSize - n - 1
    THEN s
    ELSE IF s.num = MAX_BACK_BUFFERS
    THEN [s EXCEPT !.cur.cursize = 0, !.overflowed = TRUE, !.lost = TRUE]
    ELSE NewBackbuf(s)

(* SZ_GetSpace on the back buffer, the bytes, ClientReliable_FinishWrite.  *)
BackbufWrite(s, b, k) ==
    LET full == s.cur.cursize + Len(b) > MaxSize
        at   == IF full THEN 0 ELSE s.cur.cursize
        c    == IF full THEN LastPart(b, k) ELSE b
        over == s.cur.overflowed \/ full
    IN  IF full /\ ~s.cur.allowoverflow THEN [s EXCEPT !.error = "no allowoverflow"]
        ELSE [s EXCEPT
                !.data[s.cur.data] = [j \in 1 .. MaxSize |->
                    IF j \in at + 1 .. at + Len(c) THEN c[j - at] ELSE @[j]],
                !.cur.cursize = at + Len(c),
                !.cur.overflowed = over,
                !.size[s.num] = at + Len(c),
                !.overflowed = @ \/ over,
                !.lost = @ \/ full]

(* Mutant: a block that fits the message overtakes the back buffers.       *)
ReliableWrite_Overtakes(s, b, k) ==
    IF Len(s.message) + Len(b) < MaxSize THEN DirectWrite(s, b, k)
    ELSE BackbufWrite(CheckBlock(s, Len(b)), b, k)

(* ClientReliableWrite_Begin and the writes that follow it.                *)
ReliableWrite(s, b, k) ==
    LET t == CheckBlock(s, Len(b))
    IN  IF t.num # 0 THEN BackbufWrite(t, b, k) ELSE DirectWrite(t, b, k)

SZ_Clear(s) == [s EXCEPT !.message = <<>>, !.overflowed = FALSE]

(* Whatever had gone wrong went wrong in what is now thrown away.          *)
SV_ClearReliable(s) ==
    [SZ_Clear(s) EXCEPT !.num = 0, !.lost = FALSE, !.forgiven = FALSE]

(* What is in the message of the stream s has left the back buffers: bytes *)
(* that are written to it directly go between the parts of the log l that  *)
(* have and have not.                                                      *)
Passed(l, s) == SubSeq(l, 1, Len(out) + Len(s.message))
Waiting(l, s) == SubSeq(l, Len(out) + Len(s.message) + 1, Len(l))
Ahead(l, s, b) == IF s.lost THEN l ELSE Passed(l, s) \o b \o Waiting(l, s)

(* The stream s after a line of v bytes, if there is one.                  *)
Spoken(s, v) == IF v = 0 THEN s ELSE ReliableWrite(s, NextBytes(v), v)

Line(v) == Spoken(Stream, v)
LineLog(v) == log \o NextBytes(v)

(* n bytes are written.                                                    *)
Writes(n) ==
    /\ sys_error = "none"
    /\ written + n <= MaxWritten
    /\ written' = written + n

-----------------------------------------------------------------------------
(* The game writes a block for the client.                                 *)
ClientReliableWrite(n) ==
    /\ state # "cs_zombie"
    /\ Writes(n)
    /\ \E k \in LastParts(n) : Commit(ReliableWrite(Stream, NextBytes(n), k))
    /\ log' = LineLog(n)
    /\ UNCHANGED <<state, reliable_buf, send_message, out, drops>>

(* A block that is larger than the client's buffers is written at once.    *)
WriteTooLarge(n) ==
    /\ sys_error = "none"
    /\ state # "cs_zombie"
    /\ n > MaxSize
    /\ sys_error' = "over maxsize"
    /\ UNCHANGED <<state, message, overflowed, queue, reliable_buf, send_message,
                   out, log, lost, forgiven, written, drops>>

(* A prompt goes to the message whatever the back buffers hold: the answer *)
(* to pext, and to new before the client's extensions and address are      *)
(* known, a login, a name that is set back.                                *)
Prompt(n) ==
    /\ Writes(n)
    /\ \E k \in LastParts(n) : Commit(DirectWrite(Stream, NextBytes(n), k))
    /\ log' = Ahead(log, Stream, NextBytes(n))
    /\ UNCHANGED <<state, reliable_buf, send_message, out, drops>>

(* A command is answered in n bytes behind a line of v: directly in the    *)
(* stream u, in which the back buffers, if there were any, are thrown away *)
(* with what is queued in front of them.                                   *)
Cleared(v) == IF Line(v).num # 0 THEN SV_ClearReliable(Line(v)) ELSE Line(v)

DirectAnswer(v, n, u) ==
    /\ Writes(v + n)
    /\ \E k \in LastParts(n) : Commit(DirectWrite(u, BytesBehind(v, n), k))
    /\ log' = (IF Line(v).num # 0 THEN out ELSE LineLog(v)) \o BytesBehind(v, n)
    /\ UNCHANGED <<reliable_buf, send_message, out, drops>>

(* Cmd_New_f is open to every client that has not spawned.  It is done     *)
(* with a prompt, or with a login's line, or goes on to the server data.   *)
Connected == IF state = "cs_preconnected" THEN "cs_connected" ELSE state

Cmd_New(v, n) ==
    /\ state # "cs_spawned"
    /\ \/ v = 0 /\ Prompt(n)
       \/ /\ Writes(v)
          /\ Commit(Line(v))
          /\ log' = LineLog(v)
          /\ state' = Connected
          /\ UNCHANGED <<reliable_buf, send_message, out, drops>>
       \/ /\ state' \in {state, Connected}
          /\ DirectAnswer(v, n, Cleared(v))

(* Cmd_Soundlist_f and Cmd_Modellist_f write entry after entry until the   *)
(* message has ListLimit bytes, but never less than an empty list.         *)
ListAnswer(v, n, u) ==
    /\ n = 1 \/ Len(u.message) + n <= ListLimit + 1
    /\ DirectAnswer(v, n, u)

Cmd_Soundlist(n) ==
    /\ state = "cs_connected"
    /\ ListAnswer(0, n, Cleared(0))
    /\ UNCHANGED state

(* Cmd_Modellist_f: the vwep line goes first, through the back buffers;    *)
(* then num_backbuf is set to 1, not 0, so that an old back buffer stays   *)
(* queued behind the list, out of order, and nobody is dropped for it.     *)
ClearedButOne(v) ==
    IF Line(v).num # 0
    THEN [SZ_Clear(Line(v)) EXCEPT !.num = 1, !.lost = TRUE, !.forgiven = TRUE]
    ELSE Line(v)

Cmd_Modellist(v, n) ==
    /\ state = "cs_connected"
    /\ ListAnswer(v, n, ClearedButOne(v))
    /\ UNCHANGED state

(* Cmd_PreSpawn_f, which a client that skips the level answers by a prompt.*)
Cmd_PreSpawn(n) ==
    /\ state = "cs_connected"
    /\ Prompt(n) \/ DirectAnswer(0, n, Cleared(0))
    /\ UNCHANGED state

(* Cmd_Spawn_f: netchan.message is emptied, the back buffers are kept, and *)
(* the names, light styles and stats go through them; when the message is  *)
(* half full the client is sent directly to ask for the rest.              *)
Cmd_Spawn(v, n) ==
    LET s == [SZ_Clear(Stream) EXCEPT !.forgiven = @ \/ overflowed]
        t == ReliableWrite(s, NextBytes(v), v)
        l == (out \o Waiting(log, Stream)) \o NextBytes(v)
    IN  /\ state = "cs_connected"
        /\ Writes(v + n)
        /\ \/ n = 0 /\ Commit(t) /\ log' = l
           \/ /\ n # 0 /\ Len(t.message) >= ListLimit
              /\ \E k \in LastParts(n) : Commit(DirectWrite(t, BytesBehind(v, n), k))
              /\ log' = Ahead(l, t, BytesBehind(v, n))
        /\ UNCHANGED <<state, reliable_buf, send_message, out, drops>>

(* Any of them, for another level than the present one: as Cmd_New_f.      *)
Cmd_OldLevel(n) ==
    /\ state # "cs_spawned"
    /\ state' \in {state, Connected}
    /\ Writes(n)
    /\ \E k \in LastParts(n) : Commit(DirectWrite(SV_ClearReliable(Stream), NextBytes(n), k))
    /\ log' = out \o NextBytes(n)
    /\ UNCHANGED <<reliable_buf, send_message, out, drops>>

(* A soundlist or modellist command with a wrong index: all is cleared, a  *)
(* line says why, and the client is dropped.                               *)
Cmd_BadIndex(v) ==
    LET t == ReliableWrite(SV_ClearReliable(Stream), NextBytes(v), v)
    IN  /\ state = "cs_connected"
        /\ drops < MaxDrops
        /\ Writes(v)
        /\ Commit(DirectWrite(t, <<svc_disconnect>>, 1))
        /\ log' = Ahead(out \o NextBytes(v), t, <<svc_disconnect>>)
        /\ state' = "cs_zombie"
        /\ drops' = drops + 1
        /\ UNCHANGED <<reliable_buf, send_message, out>>

(* Cmd_Begin_f, open to whoever has not spawned: the game may write, and   *)
(* in a loaded game the view angles go to the message directly.            *)
Cmd_Begin(v, n) ==
    LET t == Line(v)
    IN  /\ state # "cs_spawned"
        /\ Writes(v + n)
        /\ \/ n = 0 /\ Commit(t) /\ log' = LineLog(v)
           \/ /\ n # 0
              /\ \E k \in LastParts(n) : Commit(DirectWrite(t, BytesBehind(v, n), k))
              /\ log' = Ahead(LineLog(v), t, BytesBehind(v, n))
        /\ state' = "cs_spawned"
        /\ UNCHANGED <<reliable_buf, send_message, out, drops>>

(* SV_DropClient on behalf of the game: the disconnect does not pass       *)
(* through the back buffers but goes ahead of what waits in them; of a     *)
(* client that has spawned the game may take leave in a line of v.         *)
SV_DropClient(v) ==
    /\ state # "cs_zombie"
    /\ v # 0 => state = "cs_spawned"
    /\ drops < MaxDrops
    /\ Writes(v)
    /\ drops' = drops + 1
    /\ state' = "cs_zombie"
    /\ Commit(Spoken(DirectWrite(Stream, <<svc_disconnect>>, 1), v))
    /\ log' = Ahead(log, Stream, <<svc_disconnect>>) \o NextBytes(v)
    /\ UNCHANGED <<reliable_buf, send_message, out>>

-----------------------------------------------------------------------------
(* Mutant: the room in the message is taken for one byte less.             *)
Drain_Short(s) ==
    IF s.num = 1 /\ Len(s.message) + s.size[1] < MaxSize - 1
    THEN [s EXCEPT !.message = @ \o SubSeq(s.data[1], 1, s.size[1]), !.num = 0]
    ELSE s

(* The first back buffer goes to the message if it fits, the others move   *)
(* up, and the one that is written to is set up anew.                      *)
Drain(s) ==
    IF ~(s.num # 0 /\ Len(s.message) + s.size[1] < MaxSize) THEN s
    ELSE LET num == s.num - 1
             data == [i \in Buffers |->
                        IF i <= num
                        THEN [j \in 1 .. MaxSize |->
                                IF j <= s.size[i + 1] THEN s.data[i + 1][j] ELSE s.data[i][j]]
                        ELSE s.data[i]]
             size == [i \in Buffers |-> IF i <= num THEN s.size[i + 1] ELSE s.size[i]]
         IN  [s EXCEPT
                !.message = @ \o SubSeq(s.data[1], 1, s.size[1]),
                !.num = num, !.data = data, !.size = size,
                !.cur = IF num = 0 THEN @
                        ELSE [data |-> num, cursize |-> size[num],
                              allowoverflow |-> FALSE, overflowed |-> FALSE]]

Printed(s, prints) == IF prints THEN ReliableWrite(s, <<svc_print>>, 1) ELSE s

(* A client whose message has overflowed is dropped.  If it has connected  *)
(* it is told so first: SV_BroadcastPrintf writes to it as to all others;  *)
(* if it has spawned the game may take leave of it.  Either may overflow   *)
(* its message again.                                                      *)
Dropped(s, notice, parting) ==
    LET told == DirectWrite(Printed(SZ_Clear(s), notice), <<svc_disconnect>>, 1)
    IN  [Printed(told, parting) EXCEPT !.lost = TRUE]

(* SV_SendClientMessages for this client.  Netchan_Transmit takes nothing  *)
(* from a message that has overflowed.                                     *)
SV_SendClientMessages(choked, notice, parting) ==
    LET s == Drain(Stream)
        dropping == s.overflowed
        t == IF dropping THEN Dropped(s, notice, parting) ELSE s
        sends == dropping \/ (send_message /\ ~choked)
        taken == sends /\ ~t.overflowed /\ reliable_buf = <<>> /\ t.message # <<>>
    IN  /\ sys_error = "none"
        /\ num_backbuf # 0 \/ overflowed \/ send_message
        /\ notice => overflowed /\ state \in {"cs_connected", "cs_spawned"}
        /\ parting => overflowed /\ state = "cs_spawned"
        /\ Commit(IF taken THEN [t EXCEPT !.message = <<>>] ELSE t)
        /\ state' = IF dropping THEN "cs_zombie" ELSE state
        /\ send_message' = FALSE
        /\ reliable_buf' = IF taken THEN t.message ELSE reliable_buf
        /\ out' = IF taken THEN out \o t.message ELSE out
        /\ UNCHANGED <<log, written, drops>>

(* A packet of the client: a reply is owed, and the reliable message may   *)
(* have been acknowledged.                                                 *)
ClientPacket(acked) ==
    /\ sys_error = "none"
    /\ ~send_message \/ (acked /\ reliable_buf # <<>>)
    /\ send_message' = TRUE
    /\ reliable_buf' = IF acked THEN <<>> ELSE reliable_buf
    /\ UNCHANGED <<state, message, overflowed, queue, sys_error, out, log, lost,
                   forgiven, written, drops>>

Next ==
    \/ \E n \in BlockSizes : ClientReliableWrite(n)
    \/ \E n \in BlockSizes \cup ReplySizes : WriteTooLarge(n)
    \/ \E n \in ReplySizes :
          Prompt(n) \/ Cmd_Soundlist(n) \/ Cmd_PreSpawn(n) \/ Cmd_OldLevel(n)
    \/ \E v \in Lines \cup {0}, n \in ReplySizes : Cmd_New(v, n) \/ Cmd_Modellist(v, n)
    \/ \E v \in Lines \cup {0}, n \in ReplySizes \cup {0} : Cmd_Begin(v, n)
    \/ \E n \in Lines : Cmd_BadIndex(n)
    \/ \E v \in Lines, n \in ReplySizes \cup {0} : Cmd_Spawn(v, n)
    \/ \E v \in Lines \cup {0} : SV_DropClient(v)
    \/ \E choked, notice, parting \in BOOLEAN : SV_SendClientMessages(choked, notice, parting)
    \/ \E acked \in BOOLEAN : ClientPacket(acked)

Spec == Init /\ [][Next]_vars

(* The frame loop runs, time clears a choke, and the client answers.       *)
FairSpec ==
    /\ Spec
    /\ SF_vars(\E notice, parting \in BOOLEAN : SV_SendClientMessages(FALSE, notice, parting))
    /\ WF_vars(ClientPacket(TRUE))

-----------------------------------------------------------------------------
(* The bytes in the back buffers, in order.                                *)
Queued ==
    LET bytes[i \in 0 .. MAX_BACK_BUFFERS] ==
          IF i = 0 THEN <<>>
          ELSE bytes[i - 1] \o SubSeq(backbuf_data[i], 1, backbuf_size[i])
    IN  bytes[num_backbuf]

(* The order of a client's stream survives the back buffers: what was      *)
(* sent, what is in the message and what the buffers hold is, in this      *)
(* order, what was written and not thrown away; only what is written to    *)
(* the message directly goes ahead of what the buffers still hold          *)
(* (sv_nchan.c, SV_SendClientMessages and the signon commands together).   *)
InOrder == ~lost => out \o message \o Queued = log

DropUnderWay ==
    overflowed \/ \E i \in DOMAIN (out \o message) : (out \o message)[i] = svc_disconnect

(* A client whose stream has lost bytes to an overflow is dropped: the     *)
(* overflow is pending, be it for what is said of another one, or a        *)
(* disconnect is on its way (sv_nchan.c and SV_SendClientMessages), unless *)
(* its spawn command has taken the overflow back or its modellist command  *)
(* has cleared the wrong half.                                             *)
OverflowDropsClient == lost => DropUnderWay \/ forgiven

(* "don't overflow without allowoverflow set" (sv_nchan.c): whatever is    *)
(* written, and a block may be larger than the client's buffers, no        *)
(* overflow meets a back buffer that SV_SendClientMessages has set up      *)
(* again without allowoverflow, which would stop the server.               *)
NoBackbufOverflow == sys_error # "no allowoverflow"

(* The types and the sizes in them, for the same reason.                   *)
BackbufInv == TypeOK /\ NoBackbufOverflow

(* A back buffer that is full to the last byte does not fit the message.   *)
HeadIsFull == num_backbuf # 0 /\ backbuf_size[1] = MaxSize

(* A dropped client may begin again, be dropped again, and so on.          *)
BeginsAgain == state = "cs_zombie" /\ state' = "cs_spawned"

(* "we would probably overflow the buffer, save it for next" (sv_nchan.c): *)
(* whatever is queued for a client is sent in the end, unless a block of   *)
(* just the size of a buffer blocks the row, a larger one stops the        *)
(* server, or the client begins again without end.                         *)
Drains ==
    \/ num_backbuf # 0 \/ message # <<>> ~>
          \/ num_backbuf = 0 /\ message = <<>>
          \/ HeadIsFull \/ sys_error = "over maxsize"
    \/ []<><<BeginsAgain>>_vars
=============================================================================
