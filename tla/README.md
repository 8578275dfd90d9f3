# ezQuake-Vulkan: a verification development

TLA+ modules that model the network core, the threads and the frame loop of this
engine, TLC configurations that check them on small instances, and proofs that
TLAPS checks. Source paths below
are relative to `src/` of the repository.

Run `tlc -config X.cfg M` for the pairs in the table of runs, and
`tlapm M.tla` for the proofs of a module `M` named `*Proofs`.

## 1. The system

One executable holds a QuakeWorld client, a QuakeWorld server (for local games
and friends' games), three renderers, a demo player and recorder, and a worker
thread that carries a game between friends over ICE and DTLS. Everything but that
worker, the server browser, the HTTP downloads and the sound callback runs in one
thread, in the order of `Host_Frame`: `Friends_Frame`, then `CL_Frame`, which
reads packets, runs commands, calls `SV_Frame` and sends.

| Component | Code | State | Operations | Interacts with |
|---|---|---|---|---|
| netchan | `net_chan.c` | six sequence words and two even/odd bits per end, `message_buf`, `reliable_buf` | `Netchan_Setup`, `_Transmit`, `_Process`, `_CanPacket` | both programs write into `message`; UDP below |
| client reliable stream | `sv_nchan.c`, `sv_send.c` | `num_backbuf`, `backbuf_data`, `backbuf`, `netchan.message` | `ClientReliableWrite_*`, the drain and the overflow drop in `SV_SendClientMessages` | game code and signon write, netchan takes |
| signon | `sv_user.c`, `sv_init.c`, `cl_parse.c` | `client_t.state`, `svs.spawncount`, the lists sent so far | `new`, `soundlist`, `modellist`, `prespawn`, `spawn`, `begin`, `drop` | reliable stream, map changes |
| connection | `sv_main.c`, `cl_main.c` | client slots, challenges, `cls.state`, `qport` | `getchallenge`, `connect`, `CheckReConnect`, `SV_DropClient`, `SV_CheckTimeouts` | netchan set-up, signon |
| packet delay | `sv_main.c`, `net.c` | pool of 1024 held packets of the server, two queues of the client | `sv_minping`, `cl_delay_packet` | between UDP and netchan |
| delta entities, user commands | `sv_ents.c`, `cl_ents.c`, `cl_input.c` | a ring of 64 frames at each side, `validsequence`, `delta_sequence` | `SV_EmitPacketEntities`, `CL_ParsePacketEntities` | numbered by the netchan |
| downloads, uploads, voice | `cl_parse.c`, `sv_user.c`, `snd_voip.c` | chunk maps, a ring of 512 voice packets | chunk requests, relay | reliable and unreliable data |
| MVD, QTV | `sv_demo*.c`, `cl_demo.c`, `qtv.c` | frame ring of the recorder, per-stream caches | record, flush, stream | copies of reliable data |
| commands and cvars | `cmd.c`, `cvar.c` | three text buffers, aliases, `cbuf_current` | insert, append, execute, `wait` | remote text from the server |
| friends transport | `friends/`, `friends.c`, `tools/friends-probe` | command queue, published status, peers, the two datagram queues | host, join, stop, accept, rotate, drop | main thread through a mutex; broker, ICE, DTLS |
| server browser, ping probe | `EX_browser*.c`, `cl_main.c` | server list, worker states | ping, sort, find routes | semaphores, `connect` waits for the probe, which queues a `connect` line |
| Vulkan frame loop | `vk_main.c`, `vk_swapchain.c`, `vk_texture.c` | frames in flight, fences, deferred uploads | begin, end, recreate | window events |
| everything else | renderers, physics, virtual machines, file system, sound, HUD, menus | | | |

What is hard in it:

* **Loss, repetition, reordering.** The netchan keeps one reliable message in
  flight each way under a single bit. Correctness depends on every packet
  carrying the bit and on stale packets being thrown away.
* **Buffers at their limit.** A client's reliable data passes through three
  buffers with three overflow policies: empty the buffer and mark it, drop the
  client, or stop the server.
* **Paths that bypass each other.** Signon replies and disconnects go straight
  to `netchan.message`, everything else queues behind the back buffers.
* **Level changes and reconnections** in the middle of a signon or of a
  handshake, answered by commands that carry an old `spawncount`.
* **Threads** in the friends transport, the browser and the port probe, with a
  status, a queue or nothing at all between them and the main thread.
* **Two clocks of one frame.** The graphics processor reads what the processor
  wrote some frames ago; a resize or a lost surface may come at any point of it.
* **A pool and lists linked by hand**, cleared around their owner.

What makes each part correct, in one line each: netchan, exactly-once in-order
delivery and no needless retransmission; reliable stream, order, no loss without
a drop, no stop of the server, and everything queued is sent in the end; signon,
a client in the game has loaded the level the server runs; connection, one slot
per client, the game's connects and disconnects alternate, slots are freed;
delta entities, a delta is only ever applied to the frame it was made from;
friends, a join ends in a connection or a refusal, a closed room admits nobody,
nobody inside is put out; packet delay, lists that never mix, order kept, nothing
held for ever; port probe, the client connects where the player asked last, and
an abort is answered; Vulkan, nothing is rewritten while the graphics processor
reads it, nothing acquired is lost, what is drawn is what was loaded last.

## 2. What is modelled

### `ReliableStream.tla`: what a netchan promises

Two streams, `sent` and `rcvd`. Data is submitted, may be taken back while no
packet has carried it, and is delivered in order, each datum once.

### `NetChan.tla`: one client and the server

Every sequencing field of `netchan_t` is a variable, a function of the endpoint
(`NS_CLIENT`, `NS_SERVER`), under its name in the code. A buffer is the sequence
of the bytes in it; byte `n` is the `n`-th its endpoint wrote. What is said of a
client that is dropped for its overflow is `Farewell`: the notice that
`SV_BroadcastPrintf` writes to it as to all others once it has connected, the
disconnect, and the game's own line.

| Action | Code |
|---|---|
| `Write` | any `MSG_Write*` to `netchan.message`, with the overflow of `SZ_GetSpace` |
| `Netchan_Transmit` | the whole function: `RemoteDropped`, the copy to `reliable_buf`, the header, `last_reliable_sequence` |
| `CL_SendCmd`, `CL_DropCmd` | a client frame, and one that `cl_c2spps` leaves out |
| `SV_SendClientMessages`, `SV_ChokeClient`, `SV_SendMessagesToAll` | the reply, a reply the rate chokes, and one nobody asked for |
| `ReadPacket` | stale check, `Netchan_Process`, and on the server the slip of `outgoing_sequence` to the packet's number in `SV_ExecuteClientMessage` |
| `Lose`, and reading out of order or leaving a copy | the network |

The four history variables say what was written, put in flight and delivered.
The unreliable part of a packet is left out because nothing reliable depends on
it. Rates are left out but for their effect, a choked reply.

### `MCNetChan.tla`: the same at the pace of the main loops

For liveness. The client sends only while something is outstanding and is at most
`MaxLag` packets ahead of its acknowledgements, a lag that every fault may extend.

### `ClientReliable.tla`: the server's side of one client's stream

`message`, the row of back buffers with the `sizebuf_t` that is written to, and
the netchan's `reliable_buf`. `CheckBlock`, `BackbufWrite`, `Drain` and
`SZ_Clear` are the C functions as operators over a record of all that writing
changes; each action applies them in the order of its function.

| Action | Code |
|---|---|
| `ClientReliableWrite`, `WriteTooLarge` | the game's blocks, and those for all clients; one larger than the client's buffers stops the server (`sys_error`) |
| `Prompt` | a direct write that leaves the back buffers alone: the answers to `pext` and `realip`, a login, a name set back, the end of a skipped level |
| `Cmd_New`, `Cmd_Soundlist`, `Cmd_Modellist`, `Cmd_PreSpawn` | a line through the back buffers if there is one, then the answer in the emptied message |
| `Cmd_Spawn`, `Cmd_Begin` | the names and stats through the back buffers; the request for the rest, and the view angles, directly |
| `Cmd_OldLevel`, `Cmd_BadIndex` | any of them from another level; an index out of range, which drops the client |
| `SV_DropClient` | the disconnect, and what the game says to it |
| `SV_SendClientMessages` | the drain, the drop of an overflowed client with its notice (`Dropped`), the reply |
| `ClientPacket` | a packet read: a reply is owed, and the message in flight may be acknowledged |

`log` is what the client ought to get, `out` what the netchan took. Commands that
throw away data shorten `log` by it. What is written directly takes its place in
it behind what is in the message and ahead of what waits in the back buffers
(`Ahead`): the code lets it pass them, and `InOrder` says that nothing else
passes. `lost` says that an overflow has thrown away bytes, `forgiven` that a spawn
command has cleared the flag of one, or that the modellist command has left an old
back buffer behind. Of a write that overflows, any tail may stay, as the code
writes a block in parts.

### `FriendsWorker.tla`: the Friends service and the main thread

Main thread: the flags of `friends.c`, its copy `status`, `com_serveractive`, the
peer its game client talks to and the peers that hold a slot of its server.
Shared, under the mutex of `Service`: the queue, the status it publishes, the set
`live`. Worker: `pc`, the batch `work` it has taken, and the service's own flags
and peers in the record `service`.

| Action | Code |
|---|---|
| `Refresh`, `Friends_Frame` | the two halves of `Friends_Frame`: the copy, and what is decided by it, with the second look that `CL_BeginServerConnect` takes |
| `Join`, `NF_Join` | `Join`, cut where the worker may take the queue |
| `Disconnect`, `SV_Map` | `Host_EndGame`, with `Friends_ServerClosed` and `Friends_Disconnected` |
| `Friends_Host`, `Friends_Accept`, `Friends_Control`, `RemoveGuest`, `Quit` | the menu |
| `ClientsChange` | the game server's slots, as far as they hold peers |
| `Take`, `ExecuteStart`, `Start`, `Open`, `Execute`, `RotateFails` | the loop over the batch; a start command is three steps, and any throw loses the rest |
| `JoinTimeout`, `Tick`, `Wait`, `Exit` | the rest of the loop |

The peers' handshake is reduced to what it comes to: a peer appears, is admitted,
goes. Messages to the player, the datagram queues, and `connect friends` typed at
the console are left out. Reading the status and queueing a command by it
(`Friends_Host`) is one action: the command is executed later in any case.

### `Connection.tla`: handshake, slots and the end of connections

Of each client `cls.state`, whether it wants to connect (`connect_time`), the
number of its channel and how far its signon has got; of each slot its state, its
address, the last command executed and answered, and whether the game knows the
player. `net` is the set of datagrams under way, read in any order, lost or kept
for another time.

| Action | Code |
|---|---|
| `CL_Connect_f`, `CL_Disconnect_f`, `CL_CheckForResend` | the player's commands (with the drops of `CL_Disconnect`) and the repetition every five seconds |
| `Challenge`, `S2C_CHALLENGE`, `SVC_DirectConnect`, `S2C_CONNECTION` | the handshake; a connect frees the slot of the same address first (`CheckReConnect`), or is refused if that is too young (`sv_reconnectlimit`) |
| `CL_SendCmd`, `SV_ReadPacket`, `CL_ReadPacket` | the channel, on which `new`, the signon commands and `begin` are sent until they are answered |
| `SV_CheckTimeouts`, `CL_Timeout`, `ServerGivesUp` | silence, zombies, an outage |
| `SV_DropClient`, `OtherPlayer`, `Lose` | kicks, the other players, the network |

The channel itself is what `NetChan` establishes: a command is executed once, its
answer arrives. What `NetChan` starts from is modelled here: the ends are set up
at different times, and a packet of an earlier session has a larger sequence
number than those of the present one, so that whoever accepts it is deaf until
the session ends (`oldest`, `sv_oldest`). `spawn` stands for the commands from
`soundlist` to `spawn`, which are guarded alike. Passwords, bans, spectators, real
addresses, logins and the server of the same program are left out.

### `DeltaFrames.tla`: entities and commands in every packet

The rings of `UPDATE_BACKUP` frames of both sides, `validsequence` and
`delta_sequence`, and what each packet of the client has asked for. A frame is a
function from the visible entities to their fields, so that the merge of two
sorted arrays (`Merge`) has one case for each entity.

| Action | Code |
|---|---|
| `CL_SendCmd` | three commands and the request for a delta; with `cl_c2spps` the packet may be left out (`drop`) |
| `SV_ExecuteClientMessage` | reads the request and executes the commands (`SV_ExecuteClientMove`: those repeated, and the last one again for the rest) |
| `SV_SendClientDatagram` | writes the visible entities as changes (`SV_WriteEntitiesToClient`), with room for all or some; an overflow leaves an empty answer |
| `SV_ChokeClient` | the rate allows no answer |
| `CL_ReadPacket` | `CL_ParsePacketEntities`: a full update, a delta, or `FlushEntityPacket` |

A command is the number of the packet it was made for. `impulse`, `copies` and
`arrived` are history. That an answer has the number of the packet it answers is
what the channel does (`NetChan`).

### `DelayedPackets.tla`, `DelayQueues.tla`: packets the server holds back

The pool and the lists with the pointers of the code: `packets`, `last_packet`
and `free_packets` are heads and tails, `next` is the link of each block.
`SV_Frame` starts a frame; `ReleaseDelayed` and `NextDelayed` are the first loop of
`SV_ReadPackets`, `ReadConnect`, `ReadData` and `SocketEmpty` the second. What
executing a packet may do to delay, slot and pause is a choice. `SV_Shutdown` and
`SVC_DirectConnect` clear slots around their lists. The properties read the lists off
the links: `List(next, p)` is the one sequence of different blocks that starts at
`p`, follows the links and ends with a null; `Waiting(s)` are the packets in the
list of a slot.

`DelayQueues` is what this is for: a queue for each slot, all on one number of
places. A packet is held behind all others or, when none waits, executed; the
oldest is released; a cleared queue loses its packets and its places.
`ImplementsQueues` maps `Waiting`, `executed` and the length of the pool to it.

### `PortProbe.tla`: the port ping probe

Main thread, orchestrator thread and workers, each cut where it reads or writes
what another one uses: the atomic status, the command buffer, the memory of the
results. `cbuf` holds the lines not executed yet, `own` marks the one a probe has
queued, and `asked`, `overtaken` and `late` are history.

### `VkLimits.tla`, `FrameRing.tla`, `VkFrames.tla`: the frame loop

`FrameRing` is what every per-frame buffer relies on: the processor writes the
copy of `currentFrame` only while no submitted frame reads it. `VkFrames` is
`VK_BeginFrame`, cut at its waits, `VK_RecreateSwapChain`, `R_EndRendering` with
`VK_EndFrame`, and the restart of the renderer in the middle of a frame, beside a
graphics processor that executes submitted frames in order and an engine that
lends out images. Every fence and semaphore is a variable. `VkLimits` holds the
number of frames in flight for this module and the next.

### `VkTextures.tla`, `MCVkTextures.tla`: textures between two frames

An object is a Vulkan image with its view and descriptor set. The deferred queues
of `vk_texture.c` (frees, uploads, descriptor refreshes, bindless slots, pending
copies) are variables; `VK_BeginFrame` waits for the frame and empties them in the
order of `VK_TextureApplyDeferredUploads`, one action for each part. `want` is the
picture asked for last; a copy that cannot be made leaves it at `LostPicture`, and
one that an older copy or upload may follow, at `AnyPicture`.

### `*Proofs.tla`

See section 5.

## 3. Runs

| Run | Module, cfg | Shows |
|---|---|---|
| `netchan_safety` | `NetChan`, `NetChan.cfg` | types, the inductive invariant, exactly-once delivery, no needless retransmission, refinement of `ReliableStream`; writes may overflow, and nothing but the notice of it comes between the gap and the disconnect |
| `netchan_live` | `MCNetChan`, `NetChan_live.cfg` | a reliable message arrives and is known to have arrived |
| `netchan_header` (violation) | `NetChan`, `NetChan_header.cfg` | a client's largest messages do not fit its send buffer |
| `reliable` | `ClientReliable`, `ClientReliable.cfg` | order through all paths; no back buffer that may not is overflown; who lost bytes is dropped, if he does not spawn meanwhile; what is queued is sent in the end, unless a block of just the size of a buffer is in front of it |
| `friends` | `FriendsWorker`, `FriendsWorker.cfg` | the game only connects to a peer of the join asked for last; a join is answered but in two cases; no wakeup is lost, the program can quit; rooms close with their game, guests without a link lose their slot |
| `connection` | `Connection`, `Connection.cfg` | a client never holds two slots; the game knows exactly the spawned clients; who wants to play plays or is told that he does not; no half-open connection stays |
| `delta_frames` | `DeltaFrames`, `DeltaFrames.cfg` | the client shows the frame the server means; commands run once and in turn; an impulse is only lost by the network |
| `delayed_packets` | `DelayedPackets`, `DelayedPackets.cfg` | the lists stay apart and implement `DelayQueues`; order of arrival; blocks are lost only with their slot; what is held is released, what has arrived is read |
| `port_probe` | `PortProbe`, `PortProbe.cfg` | results live as long as the workers; probes do not overlap; the client goes where it was sent last; a timely abort is answered |
| `port_probe_hang` (violation) | `PortProbe`, `PortProbe_hang.cfg` | an abort that comes too late hangs the program |
| `vk_frames` | `VkFrames`, `VkFrames.cfg` | semaphores are used up before they are used again; no image is lost; refinement of `FrameRing`; `VK_BeginFrame` returns |
| `vk_textures` | `MCVkTextures`, `MCVkTextures.cfg` | every object has one owner; the latest picture wins, unless its copy could not be made; no descriptor set is changed while it is read, but by a full queue of frees |

Bounds. `MaxSeq` packet numbers each way allow a message to be sent, lost, sent
again and acknowledged by a late packet, and a second one to follow under the
other bit; two messages are enough because the bit repeats with the second.
`MaxFaults` counts everything the network and the programs do amiss together;
the worst known interplay (a lost packet and a late old answer) takes two.
`MaxSize` of two or three bytes with blocks of one to three gives every relation
of a block to the space left: fits, fits exactly, does not fit. `MAX_BACK_BUFFERS`
is 2 (128 in the code), the fewest with a first, a last and a move up. A
client's buffers have 1350 to 1450 bytes, as its mtu says (`net_chan.c:212`,
`sv_main.c:1385`), a block for all clients may have up to 1450 (`MAX_MSGLEN`), and
the lists of a signon stop at 725 (`ListLimit`). So `MaxSize` is three in `reliable`,
and blocks have one, three or four bytes: two fit a buffer and a third needs the next one, one
fills a buffer to its last byte, one is larger. In `netchan_safety` six bytes in blocks of two and three
fill the message in part or to its end, or overflow it, and leave room beside the
notice for the disconnect, and for one more line or not. A fault bound is what "the
network loses finitely often" means.
In `FriendsWorker` two requests are an old and a new one, and two peers one of
each; a room may instead be followed by any one command of its menu. The queue of
16 is never full within these bounds, so that `RoomCloses` says nothing of what
a full one drops (the hazard at `transport.cpp:191`: with a queue of one TLC finds
it violated). `Failures` says which calls may fail; the run has them
all. `JoinSettlesOrIsLost` excepts two cases: `Discarded`, the request is gone
from queue, batch and service, and `Stranded`, the service has let the guest in
and has no peer any more.
In `Connection` the one client gives two connect commands, so that everything of
the first may be late for the second; a second slot lets a reconnection move, and
the other players fill it. `MaxFaults` counts losses, repetitions, outages and
kicks together. In `DeltaFrames` the ring has five frames: with four, a client
that sends two packets before it reads an answer already finds its request too
old. Six packets write over the first slot. `MaxExtrapolated` is 4 (20 in the
code), so that both sides of it are reached. In `DelayedPackets` two blocks are shared by two slots, so that
either may starve the other, and the delay takes three values: none, one frame,
two. In `PortProbe` two workers and two servers are the fewest of which one may be
ahead, and one wrong; each worker probes twice, so that an abort may come
between two probes. `VkFrames` has the three frames in flight of the code and one
image more, so that index by frame and index by image differ. `MCVkTextures`
has two textures with one bindless slot between them, three objects, so that each
texture may have an old one, and deferred queues of one entry, so that each of
them runs full. A batch of one copy is full with it, so that the next
one is made at once and overtakes it; that longer ones keep their order is proved
(`LatestPicture`). Two frames are in flight, so that the one that is executed and the
one that is recorded may use different sets.

Deadlock is not checked in the runs: a bounded instance stops when its bounds are
used up.

Fairness. Both programs run their frame loops (`Host_Frame`), so reading what has
arrived and sending what is due are weakly fair. In `ClientReliable` the send is
strongly fair, since a rate can choke any one reply but not all: `cleartime` is
passed with time. `ClientPacket(TRUE)` is fair: the client answers, which
`netchan_live` shows the netchan brings about. In `FriendsWorker` the main loop
calls `Friends_Frame` and the worker is a thread, so the steps of each are weakly
fair, and a waiting guest's clock goes on; nothing is assumed of the player, the
broker or the peers. `Connection` is weakly fair for each handler of a datagram
that is sent again and again, for both programs' repetitions and for the timeouts.
`PortProbe` and `VkFrames` are weakly fair for each thread, and for the device,
which executes and shows what it is given; `DelayedPackets` for the frames of the
server.

## 4. Findings

Each is a run that TLC refutes, and the text it contradicts is quoted in
`PROJECT.json`.

* `netchan_header`: `Netchan_Transmit` sizes its buffer for an 8-byte header; the
  client's is 10. A message of `maxsize - 1` or `maxsize` bytes stops the client.
* `port_probe_hang`: `CL_Connect_f` and `CL_Disconnect_f` write `ABORT` after they
  have read `PROBING`, and wait for `READY`. If the orchestrator has looked for the
  last time in between, or has ended, or never started, nobody writes `READY`: the
  main loop spins for ever (`cl_main.c:994`, `1548`).

Observed besides, without a run of their own. The models take these steps as the
code does, and the properties that would fail name them as exceptions.

Channel and reliable stream:

* `last_reliable_sequence` is one above the packet it names (`net_chan.c:333`), so
  the rule the file's header states takes one packet more to see a loss.
* `Cmd_Spawn_f` clears `message.overflowed` and with it the drop of a client whose
  back buffers ran out (`sv_user.c:848`; `forgiven`).
* `num_backbuf = 1` in `Cmd_Modellist_f` where all its siblings write 0
  (`sv_user.c:620`): an old back buffer is sent after the emptied message.
* A block that does not fit is to be saved "for next" (`sv_nchan.c:32`). One of just
  the size of a buffer fills a back buffer to its last byte; `sv_send.c:1120` asks for
  one byte more than there can be, so that it is never sent, nor what is behind it,
  until a signon command throws it away (`HeadIsFull`).
* A block that is larger than a client's buffers stops the server
  (`WriteTooLarge`, `q_shared.c:858`): `sv.reliable_datagram` has room for `MAX_MSGLEN`
  bytes and goes to every client whole (`sv_send.c:1051`), also to one whose mtu is smaller.
* `Cmd_PreSpawn_f` writes a signon buffer without looking at what is in the
  message, and overflows it (`sv_user.c:790`); the client is dropped.

Friends transport:

* `reset()` publishes the new request with mode 0 before `publish()` sets the mode
  (`friends/transport.cpp:81`); `Friends_Frame` may take that for a failed join.
* An exception in one command loses those taken with it
  (`friends/transport.cpp:161`), and a lost join is waited for without limit; the
  same happens to a guest that is let in, which ends its 60 seconds, and lost
  before the main thread sees it (`:171`).
* `Friends_Frame` clears `connected` before `CL_Disconnect`, which then does not
  stop the worker (`friends.c:136`).
* A new invitation that cannot be saved closes the room and puts out the guests
  (`RotateFails`, `friends/transport.cpp:90`).
* Opening the invitations of a room that has lost its broker starts it anew and
  puts out the guests (`friends.c:38`).

Connection and held packets:

* A late or repeated connect sets the client's slot up anew after the client's
  `new` has been acknowledged: neither side speaks of it again, and the signon
  waits for ever without a timeout (`overtaken` in `PlaysOrIsTold`).
* `CL_SendConnectPacket` takes `cls.qport` back to the cvar's value
  (`cl_main.c:768`), so that the increment of `CL_Disconnect` separates nothing: a
  late packet of the earlier connection is accepted and makes the new channel deaf
  (`cl_main.c:1866`). A connection message that answers an earlier wish sets up a
  channel before that, with a qport the server does not know.
* `Cmd_Begin_f` makes a zombie spawn (`sv_user.c:957`; the check at `4366` is
  commented out).
* `SV_FreeDelayedPackets` is never called: what is held for a slot that is given
  away is lost to the pool for good, also over `SV_Shutdown`.
* When the pool is empty the frame stops reading, for all clients
  (`sv_main.c:3009`). A client that becomes a spectator keeps its delay.

Entities and commands:

* The comment at `sv_ents.c:178` says of an entity for which there is no room "not
  sending means nothing changes". For an entity that is new to the client the
  server's frame then has it at its baseline, the client not at all, and nothing is
  sent of it until it leaves its baseline (`Matches`).
* `lastcmd.buttons` is cleared "to avoid multiple fires on lag", `lastcmd.impulse`
  is not (`sv_user.c:4637`): an impulse is repeated when three to nineteen packets
  are missing after it.
* `SV_SendMessagesToAll` sends a client's answer under a number one ahead of the
  frame it is kept in ("FIXME: does this sequence right?", `sv_send.c:1442`).

Port probe:

* `cl_portpingprobe_probes` is read anew while the orchestrator loops over results
  allocated for its old value (`net.c:1933`).
* A `connect` with a probe first does not end a handshake with another server that
  has not been answered yet (`cl_main.c:985`).
* A line a probe has queued is executed after a later command of the player, if
  that came after the probe's last look (`overtaken`).

Renderer:

* The comment at `vk_main.c:524-530` promises a failed surface "another real
  chance"; the request is cleared first, and with a null handle
  `VK_BeginFrame` returns before it asks again (`:544`). A lost surface and a
  change of `vid_vsync` end in `VK_RecreateSwapChain` returning at once, each time
  (`:437`).
* A swapchain made in part leaves null fences to wait for.
* A full queue of descriptor refreshes calls `VK_TextureUpdateDescriptor`, which
  in an active frame calls the queue again (`vk_texture.c:232`, `735`).
* An upload that was put off for a texture deleted since still runs (`:1441`);
  filtering set after an upload was put off is lost (`:1261`), as is a sub-image
  update before it (`:313`, `:1653`); a full batch lets a copy overtake
  (`:1690`); an image may be destroyed in the middle of a frame after it was drawn
  (`:333`), and a bindless element be rewritten while frames in flight read it
  (`:826`).
* When the staging buffer, its mapping or the command buffer of a copy cannot be had,
  the texture counts as loaded and keeps nothing in its image (`:942`, `:1102`, `:1129`),
  or what it had before (`:1682`); the copy is not tried again (`LostPicture`).

## 5. Proofs

`NetChanProofs.tla` proves for every buffer size, every set of block sizes and
every bound (`NetChanAssumption` only asks for natural numbers and blocks that
fit an empty buffer):

* `TypeCorrect`: `Spec => []TypeOK`.
* `ChannelInvariant`: `Spec => [](TypeOK /\ ChannelInv /\ ExactlyOnce)`.
* `ChannelCorrect`: `Spec => []NetChanInv`.
* `ReliableExactlyOnce`: `Spec => []ExactlyOnce`.
* `ResendOnlyTheMissing`: `Spec => NoSpuriousResend`.
* `NothingSkipped`: `Spec => []NoSilentGap`.
* `ChannelImplementsStream`: `Spec => ImplementsStream`.

The argument. `ExactlyOnce` says that what was put in flight is what was
delivered followed by what is pending, where a message is pending while the two
bits differ. It is not inductive: a stray packet with the reliable mark would
flip the receiver's bit twice. `ChannelInv` is the strengthening, for each end:
`NumbersInv`, no number runs ahead of what was sent or read; `ReliableInv`, a
reliable packet that can still be processed carries the message the peer lacks
and is the last reliable one, so after it has been read no other can be;
`AckInv`, an answer that can still be processed only has the right bit if the
peer has the message, a later one keeps it, and one that acknowledges a packet
at or above `last_reliable_sequence` with the wrong bit proves that the message
was dropped. The proof has one lemma for a transmission, one for a packet
processed, one for all other steps.

`NothingSkipped` rests on `LinesInv`: without an overflow, what is in flight and what
waits behind it form a line that is all that was written, or that is so up to a
farewell (`Told`: the disconnect, perhaps behind the notice of the overflow). Once the
buffer has overflowed nothing of it goes out: the farewell the server puts in its
place comes first (`PlainFarewell`), and what follows it is not read as a stream any
more (`ToldConcat`). `ChannelImplementsStream` follows from `ExactlyOnce`, by which the stream of an end
starts with what its peer has been given (`StreamInv`), and has a lemma for
each abstract step: a write or a disconnect submits, an overflow withdraws what no
packet has carried, a packet that is processed delivers what was in flight;
everything else is a stutter.

`PortProbeProofs.tla` proves, for any servers, any finite set of workers, any number
of rounds and any size of the command buffer, `TypeCorrect`, `ProbeInvariant`
(`Spec => []ProbeInv`), `NoTwoProbes` (`Spec => ProbesDoNotOverlap`) and
`ConnectsWhereAsked` (`Spec => GoesWhereAsked`). `ThreadsInv` says that workers only
run while the orchestrator spawns or joins, and that READY and COMPLETED are read
by the main thread only when the orchestrator has ended: so a probe that is
started finds no thread of the last. `AskedInv` follows what the player asked for
last through the command line, the command buffer and the probe. It needs `Stuck`:
once the main thread waits for a READY that nobody will write (the hang of section
4), an old line may lie in the command buffer, and only that wait keeps the client
from going where it was not sent.

`VkProofs.tla` proves both Vulkan modules. Of `VkFrames`, for any number of frames in
flight and of images, it has `FramesTypes`, `FramesInvariant`, `SemaphoresUsedUpOnce` (`FramesSpec => []FrameInv`),
`NoImageLost` (`FramesSpec => []ImagesNotLost`) and `ImplementsFrameRing`
(`FramesSpec => ImplementsRing`). The inductive invariant `FramesInv` is in the proof
module: `ChainInv`, nothing is in flight without a swapchain; `FencesInv`, frames in
flight have different slots with unsignaled fences, and a semaphore of an acquire
has somebody to wait for it; `PresentsInv`, every submitted image waits to be
presented on its own semaphore, once; `OwnersInv`, the one image that is lent is
the one of the frame. Two submitted frames with one image would break the second
clause: the proof is that an image is acquired only when it is free, and returns
to that only through its present. The refinement has one lemma for each step that
changes the ring; every other step is a stutter.

Of `VkTextures`, for any textures, objects, pictures and lengths of the
queues, `VkProofs.tla` has `TexturesInvariant`, `TexturesCorrect` (`TexturesSpec => []TextureInv`),
`NoSetInUseTouched` (`TexturesSpec => SetsUntouched`) and `LatestPicture`
(`TexturesSpec => []LatestPictureWins`). `TexturesInv` adds to the ownership of the objects
`UsesInv`, while the queue of frees has room every set in use is still there; `ElementsInv`, a
bindless element is current in every stage, not only between frames, or queued;
`UploadsInv`, one upload at most is put off for a texture, and of the picture asked
for last; `PictureInv`, the last pending copy of a texture is of that picture, or
none is pending and the image holds it. A copy is thus never overtaken by an older
one, whatever queue runs full, but where `want` records that it could not be made or
that anything may be shown.

`ConnectionProofs.tla` proves, for any finite set of clients, any number of slots
and any bounds, `TypeCorrect`, `NoSecondSlot` (`Spec => []ConnectionInv`) and
`GameKnowsTheSpawned` (`Spec => []GameMatchesSlots`).
`SessionsInv` keeps the numbers of the sessions within the wishes: a client that
wants to connect can set up one channel more. `SlotsInv` is what makes the slot
search of `SVC_DirectConnect` right: a free slot is nobody's and no address is in two, so the
slot of a reconnecting client is the only one, and a new client's first free slot
is not a second one. That there is a first slot is the well-foundedness of `<` on
the natural numbers.

`DeltaFramesProofs.tla` proves, for any finite or infinite set of entities, any size of the
rings from four that divides the range of a byte, and any bounds, `TypeCorrect`, `DeltasInvariant`,
`DeltasAnswerRequests` (`Spec => []DeltaInv`) and `FramesAgree` (`Spec => []SameFrame`).
The inductive invariant `DeltasInv` is in the proof module: `CopiesInv` bounds the history,
`NumbersInv` orders the numbers on both sides, `RequestsInv` ties the byte in a packet,
on the server and in an answer to the frame the client remembers having asked for, as
long as its ring keeps that, and `FramesInv` says that every frame asked for and still
in the ring is the same on both sides, and that every answer under way leads from it to the
server's frame. Three facts carry the argument: two numbers less than a ring apart have different
slots (`SlotsDiffer`), a number and its last byte have the same slot (`SlotOfByte`), and
an update made from the server's frame makes of the client's frame the server's next
one (`MergeMatches`). The server may write a frame while the client still asks for
an older one; that this never overwrites a frame in use is `NotOverwritten`, and rests on
`Outdated` giving up one frame before the ring does.

The commands of the packets have an invariant of their own, `CommandsInv`: the ring
and every packet hold the last three commands (`RepeatsInv`), and the copies of
an impulse that have left follow `cl_c2sImpulseBackup` (`ImpulseInv`); with it
`ImpulsesArrive` (`Spec => []ImpulseArrives`) and `CommandsExecutedOnce`
(`Spec => CommandsOnce`). The proof found the first property wrong as it stood: the
menu offers 4 and 6 copies (`menu_options.c:248`), but only three packets carry a
command, so that more than three are never sent; the run has three.

`ClientReliableProofs.tla` proves, for any size of the message, any number of back
buffers and blocks of any sizes, those larger than the buffers included, `StreamInvariant`, `BackBuffersFit`
(`Spec => []BackbufInv`), `LossesDropClient` (`Spec => []OverflowDropsClient`) and
`StreamInOrder` (`Spec => []InOrder`). `StreamInv` has two parts besides the sizes
(`BackbufInv`). `RowInv`: the last buffer of a full row may overflow, so that the
one write `CheckBlock` cannot make room for never meets one that may not. `Owed`: a
loss that nobody forgave has an overflow pending, or, once the client no
longer signs on, a disconnect among what was sent or in the message; without a
loss the back buffers hold some `q` with `log = out \o message \o q`, where `Holds`
says it by the offset of each buffer, so that the writes, the drain that moves the
buffers up and the signon commands that empty the message each have a lemma on
records (`HoldsWritten`, `HoldsDrained`, `ClearFacts`, and `AheadOwed` for what is
written directly). That such a `q` is `Queued`, a
recursive function, is shown last (`QueuedFacts`), by induction on the buffers
in the form this prover has (`UpTo`: a least counterexample). The proof changed the model in
three places: it needs `MaxSize > 0`, or a disconnect would not fit the message
it is written to; the disconnect has a number of its own, since the 0 of a buffer
nobody has written to was taken for one; and it is part of `log`, at its place
ahead of what waits in the back buffers.

`FriendsWorkerProofs.tla` proves, for any number of peers, calls and queued commands,
`FriendsInvariant` and `JoinsConnectRight` (`Spec => []WorkerInv`). That the game only
connects to a peer of the last join is an inequality: a status is never of a
later request than the worker's (`MainInv`), the worker's is never later than any it
still has to execute (`QueueInv`), and the one a player waits for is the last of all, so
that a status with its number is of the request the worker has now, whose peers
are all its own (`ServiceInv`). For this the starts in the batch and in the queue are in
the order of their numbers, also when the queue drops some, and a full queue uses
up no number. The second look of `Friends_Address`, at a later status than the one the
decision was taken by, is covered: the number cannot have changed in between.

`DelayedPacketsProofs.tla` proves, for any number of slots and of blocks, any addresses
and any bounds, `TypeCorrect`, `ListsCorrect` (`Spec => []ListsInv`), `ArrivalOrderKept`
(`Spec => []InArrivalOrder`), `BlocksLostOnlyWithSlot` (`Spec => LostOnlyWithSlot`) and
`PacketsAreQueued` (`Spec => ImplementsQueues`). `Linked(next, p, q)` says that `q` are the blocks
from `p` on. Two such sequences are equal (`OneWay`: the first cannot go on where
the second ends), so that `List` is a function of the links (`ListIs`) although nothing
recursive is used; and it only depends on the links of its own blocks
(`SameLinks`). Each operation then has a lemma in terms of sequences:
`SV_FreeHeadDelayedPacket` takes the head of one list and puts it before the pool
(`ReleaseLists`), `HoldPacket` takes the head of the pool and puts it behind a list
(`HoldLists`), a cleared slot has the empty list (`ClearLists`). They hold because the lists
are apart, and keep them so: `ListsInv` is inductive as it stands. `last_packet` may point
anywhere while a list is empty; that it is the end of a list that is not, is what
`EndFacts` needs.
The order of arrival is not inductive alone. `Numbered` says that the socket is in
order and nothing has a number that was not given out yet; `OnlyDelayedWait`, that a slot
which the first loop has passed by has a delay if packets still wait for it. It is why a packet
from the socket never overtakes: where packets wait, it is held as well. A release, a
packet held, one executed at once and a connect are then steps of `DelayQueues`, all others
stutter. The proof found the model wrong in one place: `SV_CheckTimeouts`
may end a pause.

Only model-checked: liveness, which this prover cannot do, so that
`ReliableArrives`, `Drains`, `JoinSettlesOrIsLost`, `CommandsTaken`, `ShutdownEnds`,
`RoomCloses`, `LinklessGuestsLeave`, `PlaysOrIsTold`, `HalfOpenEnds`, `AbortEndsInTime`,
`BeginFrameReturns` and `PacketsMoveOn` stay with TLC. Every invariant, every
action property and every refinement that a run checks is a theorem.

## 6. Not modelled, and the plan

`PROJECT.json` lists every component with its status. In this order:

1. `FriendsRoom`: admission of guests to a host over a broker that reuses its
   slots, with the service of `FriendsWorker` at both ends; `FriendsAssembly`:
   fragments.
2. `Download`, `Cbuf`, and the client's own delay queues (`net.c`).
3. Signon from both sides across a level change, composed with `Connection`.
4. MVD and QTV caches, the voice ring, the browser's list and its threads.

These parts keep state of their own and can be modelled; they are left for later
only because of their order. Each would bring a run of its own.

Out of reach: rendering, physics and sound (numerical), the virtual machines
(bytecode), file formats, and the operating system's side of link registration.
