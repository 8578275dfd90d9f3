---------------------------- MODULE FriendsWorker ----------------------------
(***************************************************************************)
(* The Friends connection service: the thread that talks to the broker and *)
(* to the peers (Service in friends/transport.cpp) and the main thread     *)
(* that drives it (friends.c).  The main thread queues commands and reads  *)
(* a copy of the status the worker publishes; both under one mutex, and    *)
(* nothing else is shared.                                                 *)
(*                                                                         *)
(* An action is what one thread does between two looks at the shared data. *)
(* The worker executes a start command in three of them, because reset()   *)
(* and publish() take the mutex separately and the opening of the broker   *)
(* connection blocks in between.  A peer is its token; how one is admitted *)
(* and the datagrams are left out, what befalls a peer is an event of the  *)
(* worker's loop.  A loop that handles several events is several loops.    *)
(***************************************************************************)
EXTENDS Integers, Sequences, FiniteSets

CONSTANTS MaxCommands,   \* commands the queue holds
          MaxPeers,      \* bound: peers created
          MaxCalls,      \* bound: commands the player has queued
          Uses,          \* what the player does: subset of {"host", "join"}
          Failures       \* what may fail: subset of {"open", "rotate", "broker", "peer"}

ASSUME FriendsWorkerAssumption ==
    /\ MaxCommands \in Nat \ {0}
    /\ MaxPeers \in Nat /\ MaxCalls \in Nat
    /\ Uses \subseteq {"host", "join"}
    /\ Failures \subseteq {"open", "rotate", "broker", "peer"}

VARIABLES
    \* the main thread
    main,            \* "idle", "frame" after Refresh in Friends_Frame,
                     \* "join" between Host_EndGame and NF_Join, "quit"
    private_game, joining, connected, join_request, status,
    serveractive,    \* com_serveractive
    server_adr,      \* the peer the game client talks to, 0 for none
    clients,         \* the peers that hold a slot of the game server
    ops,             \* calls that got no request number
    \* shared
    commands, nextRequest, exiting,
    pending,         \* of the WakeEvent
    published,       \* Service::status
    live,
    \* the worker
    pc, work, activeRequest,
    service,         \* host, active, announced, accepting, brokerAlive, and
                     \* the peers and those of them that are admitted
    late,            \* a guest has waited for 60 seconds
    nextToken,
    owner            \* history: the request a peer was created for

game == <<serveractive, server_adr, clients>>
mainVars == <<main, private_game, joining, connected, join_request, status, game, ops>>
workerVars == <<pc, work, activeRequest, service, late, nextToken, owner>>
vars == <<mainVars, commands, nextRequest, exiting, pending, published, live, workerVars>>

Peers == 1 .. MaxPeers
Requests == 0 .. MaxCalls
StatusType == [mode : 0 .. 2, request : Requests, ready : BOOLEAN, client_peer : 0 .. MaxPeers]
Command(kind, value) == [kind |-> kind, value |-> value]
CommandType == [kind : {"host", "join", "stop", "accept", "rotate", "drop"}, value : Nat]
ServiceType == [host : BOOLEAN, active : BOOLEAN, announced : BOOLEAN, accepting : BOOLEAN,
                brokerAlive : BOOLEAN, peers : SUBSET Peers, admitted : SUBSET Peers]

(* Every variable keeps its type, an admitted peer is one of the worker's, *)
(* a guest has one peer at most, and no peer is known before its creation. *)
TypeOK ==
    /\ main \in {"idle", "frame", "join", "quit"}
    /\ private_game \in BOOLEAN /\ joining \in BOOLEAN /\ connected \in BOOLEAN
    /\ join_request \in Requests /\ status \in StatusType
    /\ serveractive \in BOOLEAN /\ server_adr \in 0 .. MaxPeers
    /\ clients \subseteq Peers /\ ops \in 0 .. MaxCalls
    /\ commands \in Seq(CommandType) /\ Len(commands) <= MaxCommands
    /\ nextRequest \in 1 .. MaxCalls + 1 /\ exiting \in BOOLEAN
    /\ pending \in BOOLEAN /\ published \in StatusType
    /\ pc \in {"take", "execute", "start", "open", "wait", "stopped"}
    /\ work \in Seq(CommandType) /\ activeRequest \in Requests
    /\ service \in ServiceType
    /\ service.admitted \subseteq service.peers
    /\ ~service.host => Cardinality(service.peers) <= 1
    /\ late \in BOOLEAN /\ nextToken \in 1 .. MaxPeers + 1
    /\ live \cup clients \cup service.peers \subseteq 1 .. nextToken - 1
    /\ owner \in [Peers -> Requests]

Stopped(request) == [mode |-> 0, request |-> request, ready |-> FALSE, client_peer |-> 0]

Init ==
    /\ main = "idle" /\ private_game = FALSE
    /\ joining = FALSE /\ connected = FALSE /\ join_request = 0
    /\ status = Stopped(0)
    /\ serveractive = FALSE /\ server_adr = 0 /\ clients = {} /\ ops = 0
    /\ commands = <<>> /\ nextRequest = 1 /\ exiting = FALSE /\ pending = FALSE
    /\ published = Stopped(0) /\ live = {}
    /\ pc = "take" /\ work = <<>> /\ activeRequest = 0
    /\ service = [host |-> FALSE, active |-> FALSE, announced |-> FALSE, accepting |-> FALSE,
                  brokerAlive |-> FALSE, peers |-> {}, admitted |-> {}]
    /\ late = FALSE /\ nextToken = 1 /\ owner = [p \in Peers |-> 0]

-----------------------------------------------------------------------------
(* The main thread.  Its actions leave the worker and what it publishes    *)
(* alone: see Main.                                                        *)

Full == Len(commands) >= MaxCommands
MayCall == ops + nextRequest <= MaxCalls

(* Service::command for each of cs: what does not fit is dropped, and only *)
(* a command that is queued signals the worker.                            *)
Send(cs) ==
    LET all == commands \o cs IN
    /\ commands' = IF Len(all) <= MaxCommands THEN all ELSE SubSeq(all, 1, MaxCommands)
    /\ pending' = (pending \/ (cs # <<>> /\ ~Full))

StopIf(condition) == IF condition THEN <<Command("stop", 0)>> ELSE <<>>

(* Mutant of ServerClosed: a room is only closed if it is known to be up.  *)
ServerClosed_OnlyReady == private_game /\ status.mode = 1

(* What Friends_ServerClosed and Friends_Disconnected ask before NF_Stop.  *)
ServerClosed == private_game
Disconnected == joining \/ connected

(* Host_EndGame: SV_Shutdown if a server is running, and CL_Disconnect.    *)
Host_EndGame ==
    /\ Send(StopIf(serveractive /\ ServerClosed) \o StopIf(Disconnected))
    /\ private_game' = (private_game /\ ~serveractive)
    /\ joining' = FALSE /\ connected' = FALSE
    /\ server_adr' = 0 /\ clients' = {}
    /\ UNCHANGED <<join_request, status, ops, nextRequest, exiting>>

(* The disconnect command, and whatever else ends the game.                *)
Disconnect ==
    /\ main = "idle"
    /\ serveractive \/ Disconnected
    /\ Host_EndGame
    /\ serveractive' = FALSE
    /\ UNCHANGED main

(* Starting a map while no server is running.                              *)
SV_Map ==
    /\ main = "idle" /\ "host" \in Uses
    /\ ~serveractive
    /\ Host_EndGame
    /\ serveractive' = TRUE
    /\ UNCHANGED main

(* Open invitations: a room that is ready by the status of now only        *)
(* accepts again, any other is opened anew.                                *)
Friends_Accept ==
    /\ main = "idle" /\ serveractive /\ MayCall
    /\ private_game /\ published.mode = 1 /\ published.ready
    /\ status' = published
    /\ Send(<<Command("accept", 1)>>)
    /\ ops' = ops + 1
    /\ UNCHANGED <<main, private_game, joining, connected, join_request, game,
                   nextRequest, exiting>>

Friends_Host ==
    /\ main = "idle" /\ serveractive /\ MayCall
    /\ ~(private_game /\ published.mode = 1 /\ published.ready)
    /\ status' = published
    /\ Send(<<Command("host", nextRequest)>>)
    /\ nextRequest' = IF Full THEN nextRequest ELSE nextRequest + 1
    /\ private_game' = (private_game \/ ~Full)
    /\ UNCHANGED <<main, joining, connected, join_request, game, ops, exiting>>

(* Close and Change invitation: these look at nothing.  There is a service *)
(* once a room or a join has been asked for.                               *)
Friends_Control ==
    /\ main = "idle" /\ nextRequest > 1 /\ MayCall
    /\ Send(<<Command("accept", 0)>>) \/ Send(<<Command("rotate", 0)>>)
    /\ ops' = ops + 1
    /\ UNCHANGED <<main, private_game, joining, connected, join_request, status,
                   game, nextRequest, exiting>>

(* Remove selected guest: the link and the slot.                           *)
RemoveGuest ==
    /\ main = "idle" /\ private_game /\ MayCall
    /\ \E p \in clients : Send(<<Command("drop", p)>>) /\ clients' = clients \ {p}
    /\ ops' = ops + 1
    /\ UNCHANGED <<main, private_game, joining, connected, join_request, status,
                   serveractive, server_adr, nextRequest, exiting>>

(* Join: the current game ends, then the request is made.                  *)
Join ==
    /\ main = "idle" /\ "join" \in Uses /\ MayCall
    /\ Host_EndGame
    /\ serveractive' = FALSE
    /\ main' = "join"

NF_Join ==
    /\ main = "join"
    /\ Send(<<Command("join", nextRequest)>>)
    /\ join_request' = IF Full THEN 0 ELSE nextRequest
    /\ joining' = (joining \/ ~Full)
    /\ nextRequest' = IF Full THEN nextRequest ELSE nextRequest + 1
    /\ main' = "idle"
    /\ UNCHANGED <<private_game, connected, status, game, ops, exiting>>

(* Friends_Frame begins with Refresh.                                      *)
Refresh ==
    /\ main = "idle"
    /\ status' = published
    /\ main' = "frame"
    /\ UNCHANGED <<private_game, joining, connected, join_request, game, ops,
                   commands, nextRequest, exiting, pending>>

(* Mutants of JoinAnswered and LostGuests: the request is not compared;    *)
(* the slots of guests without a link stay.                                *)
JoinAnswered_AnyRequest == joining
LostGuests_None == {}

JoinAnswered == joining /\ status.request = join_request

(* The guests whose link has gone, by NF_Alive.                            *)
LostGuests == IF private_game /\ serveractive THEN clients \ live ELSE {}

(* The join has a peer: CL_BeginServerConnect looks its address up, with a *)
(* Refresh of its own (Friends_Address).                                   *)
JoinConnects ==
    /\ JoinAnswered /\ status.client_peer # 0
    /\ joining' = FALSE /\ connected' = TRUE
    /\ status' = published /\ server_adr' = published.client_peer
    /\ UNCHANGED <<commands, pending>>

JoinFails ==
    /\ JoinAnswered /\ status.client_peer = 0 /\ status.mode = 0
    /\ joining' = FALSE
    /\ UNCHANGED <<connected, status, server_adr, commands, pending>>

(* The link is gone: connected is cleared, and then CL_Disconnect, whose   *)
(* Friends_Disconnected finds only joining to stop by.                     *)
LinkGone ==
    /\ connected /\ status.client_peer = 0
    /\ ~(JoinAnswered /\ status.mode = 0)
    /\ connected' = FALSE
    /\ Send(StopIf(joining)) /\ joining' = FALSE
    /\ server_adr' = 0
    /\ UNCHANGED status

NoNews ==
    /\ ~(JoinAnswered /\ (status.client_peer # 0 \/ status.mode = 0))
    /\ ~(connected /\ status.client_peer = 0)
    /\ UNCHANGED <<joining, connected, status, server_adr, commands, pending>>

Friends_Frame ==
    /\ main = "frame"
    /\ JoinConnects \/ JoinFails \/ LinkGone \/ NoNews
    /\ clients' = clients \ LostGuests
    /\ main' = "idle"
    /\ UNCHANGED <<private_game, join_request, serveractive, ops, nextRequest, exiting>>

(* The game server reads a connect packet from a live peer, or a guest     *)
(* leaves the game by itself.                                              *)
ClientsChange ==
    /\ main = "idle" /\ serveractive
    /\ \/ /\ published.mode = 1
          /\ \E p \in live \ clients : clients' = clients \cup {p}
       \/ \E p \in clients : clients' = clients \ {p}
    /\ UNCHANGED <<main, private_game, joining, connected, join_request, status, serveractive,
                   server_adr, ops, commands, nextRequest, exiting, pending>>

(* Mutant of NF_Shutdown: the worker is not woken.                         *)
NF_Shutdown_Silent == exiting' = TRUE /\ UNCHANGED pending

(* The worker is told to end, and joined.                                  *)
NF_Shutdown == exiting' = TRUE /\ pending' = TRUE

Quit ==
    /\ main = "idle"
    /\ NF_Shutdown
    /\ main' = "quit"
    /\ UNCHANGED <<private_game, joining, connected, join_request, status, game, ops,
                   commands, nextRequest>>

-----------------------------------------------------------------------------
(* The worker.  Only Take changes the queue, and no action the main        *)
(* thread: see Worker.                                                     *)

(* What publish() makes of the service: only a guest has a client_peer,    *)
(* and it has one peer.                                                    *)
Publish(s) ==
    /\ service' = s
    /\ published' =
          [mode |-> IF ~s.active THEN 0 ELSE IF s.host THEN 1 ELSE 2,
           request |-> activeRequest,
           ready |-> s.brokerAlive /\ s.announced,
           client_peer |-> IF s.host \/ s.admitted = {} THEN 0
                           ELSE CHOOSE p \in s.admitted : TRUE]
    /\ live' = s.admitted

Cleared ==
    [service EXCEPT !.active = FALSE, !.announced = FALSE, !.accepting = FALSE,
                    !.brokerAlive = FALSE, !.peers = {}, !.admitted = {}]

(* Mutants of Reset: the request is not carried into the empty status; the *)
(* event is reset as well.                                                 *)
Reset_NoRequest(request) ==
    /\ service' = Cleared /\ live' = {}
    /\ published' = Stopped(0) /\ UNCHANGED pending
Reset_ClearsEvent(request) ==
    /\ service' = Cleared /\ live' = {}
    /\ published' = Stopped(request) /\ pending' = FALSE

(* reset(), with request active: host keeps its value.                     *)
Reset(request) ==
    /\ service' = Cleared /\ live' = {}
    /\ published' = Stopped(request) /\ UNCHANGED pending

(* An exception out of the loop's body: what is left of the batch is lost. *)
Throw ==
    /\ Reset(activeRequest)
    /\ work' = <<>> /\ pc' = "wait"
    /\ UNCHANGED <<commands, activeRequest, late, nextToken, owner>>

(* The loop: the queued commands are taken all at once, until it exits.    *)
Take ==
    /\ pc = "take" /\ ~exiting
    /\ work' = commands /\ commands' = <<>>
    /\ pc' = "execute"
    /\ UNCHANGED <<pending, published, live, activeRequest, service, late, nextToken, owner>>

Exit ==
    /\ pc = "take" /\ exiting
    /\ Reset(activeRequest)
    /\ pc' = "stopped"
    /\ UNCHANGED <<commands, work, activeRequest, late, nextToken, owner>>

Executing(kinds) == pc = "execute" /\ work # <<>> /\ Head(work).kind \in kinds

(* A start command: the request before is reset under the new number ...   *)
ExecuteStart ==
    /\ Executing({"host", "join"})
    /\ activeRequest' = Head(work).value
    /\ Reset(activeRequest')
    /\ pc' = "start"
    /\ UNCHANGED <<commands, work, late, nextToken, owner>>

(* ... the new one is published ...                                        *)
Start ==
    /\ pc = "start"
    /\ LET hosting == Head(work).kind = "host" IN
       Publish([service EXCEPT !.host = hosting, !.active = TRUE, !.accepting = hosting])
    /\ late' = FALSE
    /\ pc' = "open"
    /\ UNCHANGED <<commands, pending, work, activeRequest, nextToken, owner>>

(* ... and the identity or the invitation is read and the broker called.   *)
Open ==
    /\ pc = "open"
    /\ \/ /\ Publish([service EXCEPT !.brokerAlive = TRUE])
          /\ work' = Tail(work) /\ pc' = "execute"
          /\ UNCHANGED <<commands, pending, activeRequest, late, nextToken, owner>>
       \/ "open" \in Failures /\ Throw

(* The commands that take one step, and end with publish().                *)
ExecuteStop == Executing({"stop"}) /\ Reset(activeRequest)

ExecuteAccept ==
    /\ Executing({"accept"})
    /\ Publish(IF service.active /\ service.host
               THEN [service EXCEPT !.accepting = Head(work).value = 1] ELSE service)
    /\ UNCHANGED pending

ExecuteDrop ==
    /\ Executing({"drop"})
    /\ Publish([service EXCEPT !.peers = @ \ {Head(work).value},
                               !.admitted = @ \ {Head(work).value}])
    /\ UNCHANGED pending

Rotated == Executing({"rotate"}) /\ Publish(service) /\ UNCHANGED pending

Execute ==
    /\ ExecuteStop \/ ExecuteAccept \/ ExecuteDrop \/ Rotated
    /\ work' = Tail(work)
    /\ UNCHANGED <<commands, pc, activeRequest, late, nextToken, owner>>

(* StoredIdentity::rotate cannot save the file.                            *)
RotateFails ==
    /\ Executing({"rotate"}) /\ "rotate" \in Failures
    /\ service.host /\ service.active
    /\ Throw

(* The clock, as far as it matters: to a guest that has not been let in.   *)
SixtySeconds ==
    /\ service.active /\ ~service.host /\ ~service.announced
    /\ ~late /\ late' = TRUE
    /\ UNCHANGED <<commands, pending, published, live, pc, work, activeRequest, service,
                   nextToken, owner>>

(* The rest of the loop, while the service is active.  The guest gives up: *)
Overdue == ~service.host /\ ~service.announced /\ late

Looping == pc = "execute" /\ work = <<>> /\ service.active

JoinTimeout == Looping /\ Overdue /\ Throw

(* Broker::poll and signal().                                              *)
Greeting ==
    /\ service.host /\ service.brokerAlive
    /\ Publish([service EXCEPT !.announced = TRUE])
    /\ UNCHANGED <<nextToken, owner>>

BrokerFails ==
    /\ service.brokerAlive /\ "broker" \in Failures
    /\ Publish([service EXCEPT !.brokerAlive = FALSE, !.accepting = FALSE])
    /\ UNCHANGED <<nextToken, owner>>

NewPeer ==
    /\ service.brokerAlive /\ nextToken <= MaxPeers
    /\ IF service.host THEN service.accepting /\ Cardinality(service.peers) < 15
       ELSE service.peers = {}
    /\ Publish([service EXCEPT !.peers = @ \cup {nextToken}])
    /\ nextToken' = nextToken + 1
    /\ owner' = [owner EXCEPT ![nextToken] = activeRequest]

(* tickPeer: a host admits a guest while it accepts any, a guest is let in *)
(* by the host's answer; what fails or stays silent is erased.             *)
Admit ==
    /\ service.host => service.accepting
    /\ \E p \in service.peers \ service.admitted :
          Publish([service EXCEPT !.admitted = @ \cup {p}, !.announced = @ \/ ~service.host])
    /\ UNCHANGED <<nextToken, owner>>

PeerGone ==
    /\ \E p \in service.peers :
          /\ p \in service.admitted => "peer" \in Failures
          /\ Publish([service EXCEPT !.peers = @ \ {p}, !.admitted = @ \ {p}])
    /\ UNCHANGED <<nextToken, owner>>

Quiet == Publish(service) /\ UNCHANGED <<nextToken, owner>>

Tick ==
    /\ Looping /\ ~Overdue
    /\ Greeting \/ BrokerFails \/ NewPeer \/ Admit \/ PeerGone \/ Quiet
    /\ pc' = "wait"
    /\ UNCHANGED <<commands, pending, work, activeRequest, late>>

(* WakeEvent::wait: with a timeout while active.                           *)
Wait ==
    /\ pc = "wait" \/ (pc = "execute" /\ work = <<>> /\ ~service.active)
    /\ service.active \/ pending
    /\ pending' = FALSE
    /\ pc' = "take"
    /\ UNCHANGED <<commands, published, live, work, activeRequest, service, late,
                   nextToken, owner>>

-----------------------------------------------------------------------------
Main == UNCHANGED <<published, live, workerVars>>
Bridge == (Refresh \/ Friends_Frame \/ NF_Join) /\ Main
User ==
    /\ \/ Disconnect \/ SV_Map \/ Friends_Accept \/ Friends_Host \/ Friends_Control
       \/ RemoveGuest \/ Join \/ ClientsChange \/ Quit
    /\ Main

Background == UNCHANGED <<mainVars, nextRequest, exiting>>
Worker ==
    /\ \/ Take \/ Exit \/ ExecuteStart \/ Start \/ Open \/ Execute \/ RotateFails
       \/ JoinTimeout \/ Tick \/ Wait
    /\ Background
Clock == SixtySeconds /\ Background

Next == Bridge \/ User \/ Worker \/ Clock

Spec == Init /\ [][Next]_vars

(* The main loop calls Friends_Frame and the worker is a thread: both go   *)
(* on, and time passes.                                                    *)
FairSpec == Spec /\ WF_vars(Bridge) /\ WF_vars(Worker) /\ WF_vars(Clock)

-----------------------------------------------------------------------------
(* The game connection goes to a peer of the join asked for last, however  *)
(* long the worker takes to leave the one before: a status that is still   *)
(* of an earlier request does not connect (friends.c, Friends_Frame).      *)
ConnectsToOwnJoin == server_adr # 0 => owner[server_adr] = join_request

(* The types, the service's own consistency, and the right connection.     *)
WorkerInv == TypeOK /\ ConnectsToOwnJoin

(* The two ways in which a join stays unanswered for ever: an exception    *)
(* has thrown the request away, or the peer was admitted and lost before   *)
(* the main thread saw it, which ends the time limit.                      *)
Waiting(cs) == \E i \in DOMAIN cs : cs[i] = Command("join", join_request)
Discarded == ~Waiting(commands) /\ ~Waiting(work) /\ activeRequest # join_request
Stranded == activeRequest = join_request /\ service.announced /\ service.admitted = {}

(* In every other case a join comes to an end: the game connects or the    *)
(* player is told (friends.c, Friends_Frame, with the time limit in        *)
(* Service::loop).                                                         *)
JoinSettlesOrIsLost == joining ~> (~joining \/ main = "quit" \/ Discarded \/ Stranded)

Hosting == service.active /\ service.host

(* The room does not outlive the game: after the private game the worker   *)
(* stops hosting, unless it is to host the next one.                       *)
RoomCloses == (~private_game /\ Hosting) ~> (private_game \/ ~Hosting)

(* A guest whose link has gone loses its slot in the game.                 *)
LinklessGuestsLeave ==
    \A p \in Peers :
        (private_game /\ p \in clients /\ p \notin live)
        ~> (p \notin clients \/ ~private_game \/ main = "quit")

(* Queued commands are taken: no wakeup is lost (friends/event.h).         *)
CommandsTaken == commands # <<>> ~> commands = <<>> \/ exiting

(* The worker ends, so that the main thread, which joins it, can quit.     *)
ShutdownEnds == main = "quit" ~> pc = "stopped"
=============================================================================
