----------------------------- MODULE PortProbe -----------------------------
(***************************************************************************)
(* The port ping probe: before it connects, the client may try many source *)
(* ports against the server and keep the best one.  A detached             *)
(* orchestrator thread (NET_PortPingProbeOrchestrator) starts worker       *)
(* threads, waits for them and queues the "connect" line for the main      *)
(* thread.  The two sides only share the atomic portpingprobe_status and,  *)
(* without any lock, the command buffer.                                   *)
(*                                                                         *)
(* A thread is cut where it reads or writes what another one uses.  The    *)
(* ping itself, the ports and their round trip times are left out, as is   *)
(* the progress counter, which is only drawn.                              *)
(***************************************************************************)
EXTENDS Naturals, Sequences, FiniteSets

CONSTANTS Servers,    \* addresses a player may connect to
          Workers,    \* worker threads of one probe
          MaxProbes,  \* probes of one worker
          MaxCbuf     \* lines waiting in the command buffer

ASSUME PortProbeAssumption ==
  /\ IsFiniteSet(Workers) /\ Workers # {}
  /\ MaxProbes \in Nat \ {0} /\ MaxCbuf \in Nat

NoServer == "none"
READY == "ready"
PROBING == "probing"
COMPLETED == "completed"
ABORT == "abort"
Statuses == {READY, PROBING, COMPLETED, ABORT}

\* A line of the command buffer: "connect <to>", or "disconnect" if to is
\* NoServer; own marks the line a probe has queued.
Lines == [to : Servers \cup {NoServer}, own : BOOLEAN]

VARIABLES
  status,    \* portpingprobe_status
  enabled,   \* cl_portpingprobe_enable
  cbuf,      \* cbuf_main
  game, up,  \* server the client connects to, and cls.state # ca_disconnected
  mpc, line, seen,         \* main thread: place, line it executes, status read
  opc, target, ret,        \* orchestrator: place, args->original_addr, status
  alloc,                   \* results have been allocated
  wpc, left,               \* workers: place, and probes to go
  asked,     \* history: server of the last line of the player executed
  overtaken, \* history: the player has asked for something else too late for
             \* the probe to see
  late       \* history: the last abort came when nobody would set READY any more

mainVars == <<mpc, line, seen>>
orchVars == <<opc, target, ret, alloc>>
workVars == <<wpc, left>>
gameVars == <<game, up>>
history  == <<asked, overtaken, late>>
vars == <<status, enabled, cbuf, gameVars, mainVars, orchVars, workVars, history>>

\* The orchestrator has taken its last look at the status and goes on to
\* connect, or its line is waiting.
Decided == \/ opc \in {"queue", "finish"} /\ ret = COMPLETED
           \/ \E i \in DOMAIN cbuf : cbuf[i].own

Init ==
  /\ status = READY /\ enabled \in BOOLEAN /\ cbuf = <<>>
  /\ game = NoServer /\ up = FALSE
  /\ mpc = "idle" /\ line = [to |-> NoServer, own |-> FALSE] /\ seen = READY
  /\ opc = "none" /\ target = NoServer /\ ret = READY /\ alloc = FALSE
  /\ wpc = [w \in Workers |-> "none"] /\ left = [w \in Workers |-> 0]
  /\ asked = NoServer /\ overtaken = FALSE /\ late = FALSE

-----------------------------------------------------------------------------
(* The player, and the server's answer to the handshake *)

PlayerAsks ==
  /\ Len(cbuf) < MaxCbuf
  /\ \E s \in Servers \cup {NoServer} :
       cbuf' = Append(cbuf, [to |-> s, own |-> FALSE])
  /\ UNCHANGED <<status, enabled, gameVars, mainVars, orchVars, workVars, history>>

PlayerSetsEnable ==
  /\ mpc = "idle" /\ enabled' = ~enabled
  /\ UNCHANGED <<status, cbuf, gameVars, mainVars, orchVars, workVars, history>>

ServerAnswers ==
  /\ game # NoServer /\ mpc = "idle" /\ up' = TRUE
  /\ UNCHANGED <<status, enabled, cbuf, game, mainVars, orchVars, workVars, history>>

-----------------------------------------------------------------------------
(* Main thread: CL_Connect_f and CL_Disconnect_f *)

Host_EndGame == game' = NoServer /\ up' = FALSE
CL_BeginServerConnect(s) == game' = s /\ up' = FALSE

\* The history of a line taken from the buffer.
Note(l) ==
  IF l.own THEN UNCHANGED history
  ELSE /\ asked' = l.to
       /\ overtaken' = (overtaken \/ Decided \/ (~enabled /\ opc # "none"))
       /\ UNCHANGED late

\* Cbuf_Execute takes a line; both commands first look at the status, connect
\* after it has left the server it is on.
TakeLine(l) ==
  /\ line' = l /\ cbuf' = Tail(cbuf) /\ Note(l)
  /\ UNCHANGED <<status, enabled, orchVars, workVars>>

CL_Connect_f ==
  /\ mpc = "idle" /\ cbuf # <<>> /\ Head(cbuf).to # NoServer
  /\ TakeLine(Head(cbuf))
  /\ IF enabled
       THEN /\ IF up THEN Host_EndGame ELSE UNCHANGED gameVars
            /\ seen' = status
            /\ mpc' = IF status = PROBING THEN "abort" ELSE "decide"
       ELSE /\ CL_BeginServerConnect(Head(cbuf).to)
            /\ UNCHANGED <<mpc, seen>>

\* Mutant: "disconnect" leaves the probe alone.
CL_Disconnect_f_NoAbort ==
  /\ mpc = "idle" /\ cbuf # <<>> /\ Head(cbuf).to = NoServer
  /\ TakeLine(Head(cbuf))
  /\ Host_EndGame /\ UNCHANGED <<mpc, seen>>

CL_Disconnect_f ==
  /\ mpc = "idle" /\ cbuf # <<>> /\ Head(cbuf).to = NoServer
  /\ TakeLine(Head(cbuf))
  /\ IF enabled /\ status = PROBING
       THEN mpc' = "abort" /\ seen' = status /\ UNCHANGED gameVars
       ELSE Host_EndGame /\ UNCHANGED <<mpc, seen>>

Abort ==
  /\ mpc = "abort" /\ mpc' = "wait" /\ status' = ABORT
  /\ late' = (opc = "none" \/ ret = COMPLETED)
  /\ UNCHANGED <<enabled, cbuf, gameVars, line, seen, orchVars, workVars, asked, overtaken>>

\* Mutant: The main thread does not wait, but takes the status back itself.
AbortWait_NoWait ==
  /\ mpc = "wait" /\ status' = READY /\ seen' = READY
  /\ IF line.to = NoServer THEN mpc' = "idle" /\ Host_EndGame
                           ELSE mpc' = "decide" /\ UNCHANGED gameVars
  /\ UNCHANGED <<enabled, cbuf, line, orchVars, workVars, history>>

\* The loop around Sys_MSleep(10): nothing else is done until READY is read.
AbortWait ==
  /\ mpc = "wait" /\ status = READY /\ seen' = READY
  /\ IF line.to = NoServer THEN mpc' = "idle" /\ Host_EndGame
                           ELSE mpc' = "decide" /\ UNCHANGED gameVars
  /\ UNCHANGED <<status, enabled, cbuf, line, orchVars, workVars, history>>

\* NET_PortPingProbe; the orchestrator thread may fail to start.
NET_PortPingProbe ==
  /\ mpc = "decide" /\ seen = READY /\ mpc' = "idle"
  /\ IF status # READY THEN UNCHANGED <<status, orchVars, overtaken>>
     ELSE /\ status' = PROBING
          /\ overtaken' = (overtaken /\ (line.own \/ Decided))
          /\ \/ opc' = "init" /\ target' = line.to /\ ret' = READY /\ alloc' = FALSE
             \/ UNCHANGED orchVars
  /\ UNCHANGED <<enabled, cbuf, gameVars, line, seen, workVars, asked, late>>

\* Any other status: connect now.
ConnectNow ==
  /\ mpc = "decide" /\ seen # READY /\ mpc' = "idle"
  /\ status' = IF seen = COMPLETED THEN READY ELSE status
  /\ CL_BeginServerConnect(line.to)
  /\ UNCHANGED <<enabled, cbuf, line, seen, orchVars, workVars, history>>

-----------------------------------------------------------------------------
(* Orchestrator *)

Running(w) == wpc[w] \in {"probe", "look"}

\* NET_StringToAdr, and the array of results.
Orch_Init ==
  /\ opc = "init"
  /\ \/ opc' = "finish" /\ UNCHANGED alloc
     \/ opc' = "spawn" /\ alloc' = TRUE
  /\ UNCHANGED <<status, enabled, cbuf, gameVars, mainVars, target, ret, workVars, history>>

\* NET_PortPingProbeInitWorkers: threads are created one by one; if one cannot
\* be, those before it are told to stop.
Orch_Spawn ==
  /\ opc = "spawn"
  /\ \/ \E w \in Workers :
          /\ wpc[w] = "none"
          /\ wpc' = [wpc EXCEPT ![w] = "probe"]
          /\ left' = [left EXCEPT ![w] = MaxProbes]
          /\ opc' = IF \A v \in Workers \ {w} : wpc[v] # "none" THEN "join" ELSE "spawn"
          /\ UNCHANGED status
     \/ /\ opc' = "unwind"
        /\ status' = IF \E w \in Workers : wpc[w] # "none" THEN ABORT ELSE status
        /\ UNCHANGED workVars
  /\ UNCHANGED <<enabled, cbuf, gameVars, mainVars, target, ret, alloc, history>>

\* SDL_WaitThread for every thread started.
Joined == \A w \in Workers : ~Running(w)

\* Mutant: The status is set before the workers of an aborted probe are over.
Orch_Unwind_NoWait ==
  /\ opc = "unwind" /\ opc' = "finish"
  /\ UNCHANGED <<status, enabled, cbuf, gameVars, mainVars, target, ret, alloc, workVars, history>>

Orch_Unwind ==
  /\ opc = "unwind" /\ Joined /\ opc' = "finish"
  /\ UNCHANGED <<status, enabled, cbuf, gameVars, mainVars, target, ret, alloc, workVars, history>>

\* All workers are over; the last look at the status.
Orch_Join ==
  /\ opc = "join" /\ Joined
  /\ IF status = ABORT THEN opc' = "finish" /\ UNCHANGED ret
                       ELSE opc' = "queue" /\ ret' = COMPLETED
  /\ UNCHANGED <<status, enabled, cbuf, gameVars, mainVars, target, alloc, workVars, history>>

\* Cbuf_AddText from this thread: the main thread uses the buffer without a
\* lock, so that the line may be lost as well.
Orch_Queue ==
  /\ opc = "queue" /\ opc' = "finish"
  /\ cbuf' \in {Append(cbuf, [to |-> target, own |-> TRUE]), cbuf}
  /\ UNCHANGED <<status, enabled, gameVars, mainVars, target, ret, alloc, workVars, history>>

\* Mutant: An aborted probe does not set the status.
Orch_Finish_OnlyCompleted ==
  /\ opc = "finish" /\ opc' = "none" /\ alloc' = FALSE
  /\ status' = IF ret = COMPLETED THEN ret ELSE status
  /\ wpc' = [w \in Workers |-> IF Running(w) THEN wpc[w] ELSE "none"]
  /\ UNCHANGED <<enabled, cbuf, gameVars, mainVars, target, ret, left, history>>

\* cleanup: frees everything and sets the status last.
Orch_Finish ==
  /\ opc = "finish" /\ opc' = "none" /\ alloc' = FALSE /\ status' = ret
  /\ wpc' = [w \in Workers |-> IF Running(w) THEN wpc[w] ELSE "none"]
  /\ UNCHANGED <<enabled, cbuf, gameVars, mainVars, target, ret, left, history>>

-----------------------------------------------------------------------------
(* Workers: NET_PortPingProbeWorker *)

\* NET_PortPing, then the result is written.
Worker_Probe(w) ==
  /\ wpc[w] = "probe" /\ wpc' = [wpc EXCEPT ![w] = "look"]
  /\ left' = [left EXCEPT ![w] = @ - 1]
  /\ UNCHANGED <<status, enabled, cbuf, gameVars, mainVars, orchVars, history>>

Worker_Look(w) ==
  /\ wpc[w] = "look"
  /\ wpc' = [wpc EXCEPT ![w] = IF status = ABORT \/ left[w] = 0 THEN "done" ELSE "probe"]
  /\ UNCHANGED <<status, enabled, cbuf, gameVars, mainVars, orchVars, left, history>>

-----------------------------------------------------------------------------
Main == \/ CL_Connect_f \/ CL_Disconnect_f \/ Abort \/ AbortWait
        \/ NET_PortPingProbe \/ ConnectNow
Orchestrator == \/ Orch_Init \/ Orch_Spawn \/ Orch_Unwind \/ Orch_Join
                \/ Orch_Queue \/ Orch_Finish
Worker(w) == Worker_Probe(w) \/ Worker_Look(w)

Next == \/ PlayerAsks \/ PlayerSetsEnable \/ ServerAnswers
        \/ Main \/ Orchestrator \/ \E w \in Workers : Worker(w)

Spec == Init /\ [][Next]_vars

\* All of them are threads that run; nothing is assumed of player and server.
FairSpec == /\ Spec /\ WF_vars(Main) /\ WF_vars(Orchestrator)
            /\ \A w \in Workers : WF_vars(Worker(w))
-----------------------------------------------------------------------------
(* Properties *)

MainTypeOK ==
  /\ enabled \in BOOLEAN
  /\ cbuf \in Seq(Lines)
  /\ game \in Servers \cup {NoServer} /\ up \in BOOLEAN
  /\ mpc \in {"idle", "abort", "wait", "decide"}
  /\ line \in Lines /\ seen \in Statuses

ProbeTypeOK ==
  /\ status \in Statuses
  /\ opc \in {"none", "init", "spawn", "unwind", "join", "queue", "finish"}
  /\ target \in Servers \cup {NoServer} /\ ret \in {READY, COMPLETED}
  /\ alloc \in BOOLEAN

WorkersTypeOK ==
  /\ wpc \in [Workers -> {"none", "probe", "look", "done"}]
  /\ left \in [Workers -> 0..MaxProbes]
  /\ \A w \in Workers : wpc[w] = "probe" => left[w] # 0

HistoryTypeOK ==
  /\ asked \in Servers \cup {NoServer} /\ overtaken \in BOOLEAN /\ late \in BOOLEAN

TypeOK == MainTypeOK /\ ProbeTypeOK /\ WorkersTypeOK /\ HistoryTypeOK

\* A worker writes results only while the orchestrator that has allocated them
\* is there to free them, also when a thread could not be started (net.c:1849).
ResultsLive == \A w \in Workers : Running(w) => alloc /\ opc # "none"

\* The workers run within the orchestrator, and READY and COMPLETED are only
\* read when that is over.
ThreadsInv ==
  /\ opc \in {"spawn", "unwind", "join"} => alloc
  /\ \A w \in Workers : Running(w) => opc \in {"spawn", "unwind", "join"}
  /\ status \in {READY, COMPLETED} => opc = "none"
  /\ mpc = "decide" /\ seen \in {READY, COMPLETED} => opc = "none"
  /\ opc \in {"init", "spawn", "unwind", "join"} => ret = READY
  /\ opc = "queue" => ret = COMPLETED

\* The main thread waits for a READY that nobody will write any more.
Stuck ==
  /\ mpc \in {"abort", "wait"}
  /\ \/ opc \in {"queue", "finish"} /\ ret = COMPLETED
     \/ opc = "none" /\ status # READY

\* The probe has not been told to stop, and its line is not queued yet.
Undisturbed ==
  \/ opc \in {"init", "spawn", "join"} /\ status # ABORT /\ mpc # "abort"
  \/ opc = "queue"

\* What the line in hand, a line of a probe or the probe itself aims at is what
\* the player has asked for last.
AskedInv ==
  /\ mpc # "idle" => line.to = asked \/ (line.own /\ overtaken)
  /\ mpc = "wait" => status # PROBING
  /\ \A i \in DOMAIN cbuf : cbuf[i].own => cbuf[i].to = asked \/ overtaken \/ Stuck
  /\ Undisturbed => target = asked \/ overtaken \/ Stuck

\* The types, no worker without its memory (NET_PortPingProbe), and what the
\* two action properties rest on: the inductive invariant of the module.
ProbeInv == TypeOK /\ ResultsLive /\ ThreadsInv /\ AskedInv

\* A probe is only started when the one before is over with all its workers:
\* they have one status between them, the second would take the first one's.
ProbesDoNotOverlap ==
  [][(opc' = "init" /\ orchVars' # orchVars)
       => opc = "none" /\ \A w \in Workers : ~Running(w)]_vars

\* The client connects to the server the player has asked for last.  Only a
\* request that came after the probe's last look at the status, or while the
\* probes were switched off, can be followed by the connect of the old probe.
GoesWhereAsked ==
  [][game' # game /\ game' # NoServer => game' = asked' \/ overtaken']_vars

\* The wait for an aborted probe ends (cl_main.c:994, 1548), unless the abort
\* came after the orchestrator's last look, after its end, or for one that never
\* started: then nobody is left to set READY.
AbortEndsInTime == mpc = "wait" /\ ~late ~> mpc # "wait"

\* What the comment at cl_main.c:989-990 says: the probe is aborted and the
\* main thread waits for its thread to stop before it proceeds.
AbortEnds == mpc = "wait" ~> mpc # "wait"
=============================================================================
