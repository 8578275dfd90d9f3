-------------------------- MODULE PortProbeProofs --------------------------
(***************************************************************************)
(* Theorems about PortProbe for any servers, number of worker threads and  *)
(* length of a probe: the types, the life of the results, that two probes  *)
(* never run together, and that the client goes where the player has asked *)
(* it to go (net.c, cl_main.c).                                            *)
(***************************************************************************)
EXTENDS PortProbe, TLAPS

-----------------------------------------------------------------------------
(* Types *)

\* The types hold when the program starts (NET_Init).
LEMMA InitType == Init => TypeOK
<1> USE DEF READY, PROBING, COMPLETED, ABORT, Statuses
<1> SUFFICES ASSUME Init PROVE TypeOK
  OBVIOUS
<1>1. MainTypeOK
  <2>1. line \in Lines /\ cbuf \in Seq(Lines)
    BY DEF Init, Lines
  <2> QED BY <2>1 DEF Init, MainTypeOK
<1>2. ProbeTypeOK
  BY DEF Init, ProbeTypeOK
<1>3. WorkersTypeOK
  BY PortProbeAssumption DEF Init, WorkersTypeOK
<1>4. HistoryTypeOK
  BY DEF Init, HistoryTypeOK
<1> QED BY <1>1, <1>2, <1>3, <1>4 DEF TypeOK

\* A line taken from the buffer is one, and so are those behind it.
LEMMA LineTaken ==
  ASSUME TypeOK, CL_Connect_f \/ CL_Disconnect_f
  PROVE  /\ Head(cbuf) \in Lines
         /\ Head(cbuf).to \in Servers \cup {NoServer} /\ Head(cbuf).own \in BOOLEAN
         /\ TakeLine(Head(cbuf))
         /\ cbuf' \in Seq(Lines)
         /\ line' \in Lines
<1>1. cbuf # <<>> /\ TakeLine(Head(cbuf))
  BY DEF CL_Connect_f, CL_Disconnect_f
<1>2. Head(cbuf) \in Lines /\ Tail(cbuf) \in Seq(Lines)
  BY <1>1 DEF TypeOK, MainTypeOK
<1>3. line' = Head(cbuf) /\ cbuf' = Tail(cbuf)
  BY <1>1 DEF TakeLine
<1> QED BY <1>1, <1>2, <1>3 DEF Lines

\* No step gives what the main thread uses a wrong type.
LEMMA MainType == TypeOK /\ [Next]_vars => MainTypeOK'
<1> USE DEF READY, PROBING, COMPLETED, ABORT, Statuses
<1> SUFFICES ASSUME TypeOK, [Next]_vars PROVE MainTypeOK'
  OBVIOUS
<1>t. line.to \in Servers \cup {NoServer}
  BY DEF TypeOK, MainTypeOK, Lines
<1>1. CASE PlayerAsks
  <2>1. cbuf' \in Seq(Lines)
    BY <1>1 DEF PlayerAsks, TypeOK, MainTypeOK, Lines
  <2> QED BY <1>1, <2>1 DEF PlayerAsks, TypeOK, MainTypeOK, gameVars, mainVars
<1>2. CASE PlayerSetsEnable
  BY <1>2 DEF PlayerSetsEnable, TypeOK, MainTypeOK, gameVars, mainVars
<1>3. CASE ServerAnswers
  BY <1>3 DEF ServerAnswers, TypeOK, MainTypeOK, mainVars
<1>4. CASE CL_Connect_f \/ CL_Disconnect_f
  <2>1. game' \in Servers \cup {NoServer} /\ up' \in BOOLEAN
    BY <1>4, LineTaken DEF CL_Connect_f, CL_Disconnect_f, Host_EndGame, CL_BeginServerConnect,
                           gameVars, TypeOK, MainTypeOK
  <2>2. seen' \in Statuses /\ mpc' \in {"idle", "abort", "wait", "decide"}
    BY <1>4 DEF CL_Connect_f, CL_Disconnect_f, TypeOK, MainTypeOK, ProbeTypeOK
  <2>3. enabled' = enabled
    BY <1>4, LineTaken DEF TakeLine
  <2> QED BY <1>4, <2>1, <2>2, <2>3, LineTaken DEF TypeOK, MainTypeOK
<1>5. CASE Abort
  BY <1>5 DEF Abort, TypeOK, MainTypeOK, gameVars
<1>6. CASE AbortWait
  BY <1>6 DEF AbortWait, TypeOK, MainTypeOK, Host_EndGame, gameVars
<1>7. CASE NET_PortPingProbe
  BY <1>7 DEF NET_PortPingProbe, TypeOK, MainTypeOK, gameVars
<1>8. CASE ConnectNow
  <2>1. game' = line.to /\ up' = FALSE /\ mpc' = "idle"
    BY <1>8 DEF ConnectNow, CL_BeginServerConnect
  <2>2. enabled' = enabled /\ cbuf' = cbuf /\ line' = line /\ seen' = seen
    BY <1>8 DEF ConnectNow
  <2> QED BY <1>t, <2>1, <2>2 DEF TypeOK, MainTypeOK
<1>9. CASE Orchestrator
  <2>1. cbuf' \in Seq(Lines)
    <3>1. [to |-> target, own |-> TRUE] \in Lines
      BY DEF TypeOK, ProbeTypeOK, Lines
    <3>2. cbuf' = cbuf \/ cbuf' = Append(cbuf, [to |-> target, own |-> TRUE])
      BY <1>9 DEF Orchestrator, Orch_Init, Orch_Spawn, Orch_Unwind, Orch_Join, Orch_Queue,
                  Orch_Finish
    <3> QED BY <3>1, <3>2 DEF TypeOK, MainTypeOK
  <2>2. UNCHANGED <<enabled, gameVars, mainVars>>
    BY <1>9 DEF Orchestrator, Orch_Init, Orch_Spawn, Orch_Unwind, Orch_Join, Orch_Queue,
                Orch_Finish
  <2> QED BY <2>1, <2>2 DEF TypeOK, MainTypeOK, gameVars, mainVars
<1>10. ASSUME NEW w \in Workers, Worker(w) PROVE MainTypeOK'
  BY <1>10 DEF Worker, Worker_Probe, Worker_Look, TypeOK, MainTypeOK, gameVars, mainVars
<1>11. CASE UNCHANGED vars
  BY <1>11 DEF vars, TypeOK, MainTypeOK, gameVars, mainVars
<1> QED BY <1>1, <1>2, <1>3, <1>4, <1>5, <1>6, <1>7, <1>8, <1>9, <1>10, <1>11 DEF Next, Main

\* No step gives the status or the orchestrator's variables a wrong type.
LEMMA ProbeType == TypeOK /\ [Next]_vars => ProbeTypeOK'
<1> USE DEF READY, PROBING, COMPLETED, ABORT, Statuses
<1> SUFFICES ASSUME TypeOK, [Next]_vars PROVE ProbeTypeOK'
  OBVIOUS
<1>1. CASE PlayerAsks \/ PlayerSetsEnable \/ ServerAnswers
  BY <1>1 DEF PlayerAsks, PlayerSetsEnable, ServerAnswers, TypeOK, ProbeTypeOK, orchVars
<1>2. CASE CL_Connect_f \/ CL_Disconnect_f
  BY <1>2, LineTaken DEF TakeLine, TypeOK, ProbeTypeOK, orchVars
<1>3. CASE Abort \/ AbortWait \/ ConnectNow
  BY <1>3 DEF Abort, AbortWait, ConnectNow, TypeOK, ProbeTypeOK, orchVars
<1>4. CASE NET_PortPingProbe
  <2>1. line.to \in Servers \cup {NoServer}
    BY DEF TypeOK, MainTypeOK, Lines
  <2> QED BY <1>4, <2>1 DEF NET_PortPingProbe, TypeOK, ProbeTypeOK, orchVars
<1>5. CASE Orchestrator
  BY <1>5 DEF Orchestrator, Orch_Init, Orch_Spawn, Orch_Unwind, Orch_Join, Orch_Queue,
              Orch_Finish, TypeOK, ProbeTypeOK
<1>6. ASSUME NEW w \in Workers, Worker(w) PROVE ProbeTypeOK'
  BY <1>6 DEF Worker, Worker_Probe, Worker_Look, TypeOK, ProbeTypeOK, orchVars
<1>7. CASE UNCHANGED vars
  BY <1>7 DEF vars, TypeOK, ProbeTypeOK, orchVars
<1> QED BY <1>1, <1>2, <1>3, <1>4, <1>5, <1>6, <1>7 DEF Next, Main

\* No step gives a worker a wrong place, nor less than no probes to go.
LEMMA WorkersType == TypeOK /\ [Next]_vars => WorkersTypeOK'
<1> SUFFICES ASSUME TypeOK, [Next]_vars PROVE WorkersTypeOK'
  OBVIOUS
<1>1. CASE UNCHANGED workVars
  BY <1>1 DEF TypeOK, WorkersTypeOK, workVars
<1>2. CASE Orch_Spawn
  BY <1>2, PortProbeAssumption DEF Orch_Spawn, TypeOK, WorkersTypeOK, workVars
<1>3. CASE Orch_Finish
  BY <1>3 DEF Orch_Finish, TypeOK, WorkersTypeOK, Running
<1>4. ASSUME NEW w \in Workers, Worker_Probe(w) PROVE WorkersTypeOK'
  <2>1. left[w] \in 0 .. MaxProbes /\ left[w] # 0
    BY <1>4 DEF Worker_Probe, TypeOK, WorkersTypeOK
  <2> QED BY <1>4, <2>1, PortProbeAssumption DEF Worker_Probe, TypeOK, WorkersTypeOK
<1>5. ASSUME NEW w \in Workers, Worker_Look(w) PROVE WorkersTypeOK'
  BY <1>5 DEF Worker_Look, TypeOK, WorkersTypeOK
<1>6. CASE CL_Connect_f \/ CL_Disconnect_f
  BY <1>1, <1>6, LineTaken DEF TakeLine
<1> QED
  BY <1>1, <1>2, <1>3, <1>4, <1>5, <1>6
  DEF Next, Main, Orchestrator, Worker, PlayerAsks, PlayerSetsEnable, ServerAnswers, Abort,
      AbortWait, NET_PortPingProbe, ConnectNow, Orch_Init, Orch_Unwind, Orch_Join, Orch_Queue,
      vars

\* The history stays what it is.
LEMMA HistoryType == TypeOK /\ [Next]_vars => HistoryTypeOK'
<1> SUFFICES ASSUME TypeOK, [Next]_vars PROVE HistoryTypeOK'
  OBVIOUS
<1>1. CASE UNCHANGED history
  BY <1>1 DEF TypeOK, HistoryTypeOK, history
<1>2. CASE CL_Connect_f \/ CL_Disconnect_f
  BY <1>2, LineTaken DEF TakeLine, Note, TypeOK, HistoryTypeOK, history
<1>3. CASE Abort
  BY <1>3 DEF Abort, TypeOK, HistoryTypeOK
<1>4. CASE NET_PortPingProbe
  BY <1>4 DEF NET_PortPingProbe, TypeOK, HistoryTypeOK
<1> QED
  BY <1>1, <1>2, <1>3, <1>4
  DEF Next, Main, Orchestrator, Worker, PlayerAsks, PlayerSetsEnable, ServerAnswers,
      AbortWait, ConnectNow, Orch_Init, Orch_Spawn, Orch_Unwind, Orch_Join, Orch_Queue,
      Orch_Finish, Worker_Probe, Worker_Look, vars

\* No step breaks a type.
LEMMA NextType == TypeOK /\ [Next]_vars => TypeOK'
BY MainType, ProbeType, WorkersType, HistoryType DEF TypeOK

\* Every variable of the probe keeps its type (net.c, cl_main.c).
THEOREM TypeCorrect == Spec => []TypeOK
BY InitType, NextType, PTL DEF Spec

-----------------------------------------------------------------------------
(* The threads *)

\* No step lets a worker outlive its orchestrator, or the orchestrator run on
\* under a status that says it does not.
LEMMA NextThreads ==
  ASSUME TypeOK, ResultsLive, ThreadsInv, [Next]_vars
  PROVE  ThreadsInv'
<1> USE DEF READY, PROBING, COMPLETED, ABORT, Statuses, ThreadsInv, Running
<1>1. CASE PlayerAsks \/ PlayerSetsEnable \/ ServerAnswers
  BY <1>1 DEF PlayerAsks, PlayerSetsEnable, ServerAnswers, mainVars, orchVars, workVars
<1>2. CASE CL_Connect_f \/ CL_Disconnect_f
  BY <1>2, LineTaken DEF CL_Connect_f, CL_Disconnect_f, TakeLine, orchVars, workVars
<1>3. CASE Abort \/ AbortWait \/ ConnectNow
  BY <1>3 DEF Abort, AbortWait, ConnectNow, orchVars, workVars
<1>4. CASE NET_PortPingProbe
  BY <1>4 DEF NET_PortPingProbe, orchVars, workVars
<1>5. CASE Orch_Init \/ Orch_Spawn \/ Orch_Unwind \/ Orch_Join \/ Orch_Queue \/ Orch_Finish
  BY <1>5 DEF Orch_Init, Orch_Spawn, Orch_Unwind, Orch_Join, Orch_Queue, Orch_Finish, Joined,
              mainVars, workVars, TypeOK, ProbeTypeOK, WorkersTypeOK
<1>6. ASSUME NEW w \in Workers, Worker(w) PROVE ThreadsInv'
  BY <1>6 DEF Worker, Worker_Probe, Worker_Look, mainVars, orchVars, TypeOK, WorkersTypeOK
<1>7. CASE UNCHANGED vars
  BY <1>7 DEF vars, mainVars, orchVars, workVars
<1> QED BY <1>1, <1>2, <1>3, <1>4, <1>5, <1>6, <1>7 DEF Next, Main, Orchestrator

-----------------------------------------------------------------------------
(* Where the client goes *)

\* Everything in AskedInv but the lines of the buffer depends on this.
LEMMA SameAsked ==
  ASSUME AskedInv, UNCHANGED <<status, cbuf, mainVars, opc, target, ret, asked, overtaken>>
  PROVE  AskedInv'
BY DEF AskedInv, Stuck, Undisturbed, mainVars

\* A line the player adds aims at nothing yet.
LEMMA AskAsked ==
  ASSUME TypeOK, AskedInv, PlayerAsks
  PROVE  AskedInv'
<1>1. PICK to \in Servers \cup {NoServer} : cbuf' = Append(cbuf, [to |-> to, own |-> FALSE])
  BY DEF PlayerAsks
<1>2. UNCHANGED <<status, mainVars, opc, target, ret, asked, overtaken>>
  BY DEF PlayerAsks, orchVars, history
<1>3. \A i \in DOMAIN cbuf' : cbuf'[i].own => i \in DOMAIN cbuf /\ cbuf'[i] = cbuf[i]
  BY <1>1 DEF TypeOK, MainTypeOK, Lines
<1> QED BY <1>2, <1>3 DEF AskedInv, Stuck, Undisturbed, mainVars

\* Taking a line: a line of a probe aims at what was asked for last, one of the
\* player's is that, and if a probe is past stopping this is noted.
LEMMA TakeAsked ==
  ASSUME TypeOK, ThreadsInv, AskedInv, CL_Connect_f \/ CL_Disconnect_f
  PROVE  /\ AskedInv'
         /\ line'.to = asked' \/ overtaken'
<1> USE DEF READY, PROBING, COMPLETED, ABORT, Statuses
<1>1. mpc = "idle" /\ cbuf # <<>> /\ ~Stuck
  BY DEF CL_Connect_f, CL_Disconnect_f, Stuck
<1>2. /\ line' = Head(cbuf) /\ cbuf' = Tail(cbuf) /\ Note(Head(cbuf))
      /\ UNCHANGED <<status, enabled, opc, target, ret>>
  BY LineTaken DEF TakeLine, orchVars
<1>3. Head(cbuf) = cbuf[1] /\ 1 \in DOMAIN cbuf
  BY <1>1 DEF TypeOK, MainTypeOK
<1>4. \A i \in DOMAIN cbuf' : i + 1 \in DOMAIN cbuf /\ cbuf'[i] = cbuf[i + 1]
  BY <1>1, <1>2 DEF TypeOK, MainTypeOK
<1>5. CASE Head(cbuf).own
  <2>1. UNCHANGED <<asked, overtaken>>
    BY <1>2, <1>5 DEF Note, history
  <2>2. line'.to = asked' \/ overtaken'
    BY <1>1, <1>2, <1>3, <1>5, <2>1 DEF AskedInv
  <2>3. \A i \in DOMAIN cbuf' : cbuf'[i].own => cbuf'[i].to = asked' \/ overtaken'
    BY <1>1, <1>4, <2>1 DEF AskedInv
  <2>4. mpc' # "wait"
    BY DEF CL_Connect_f, CL_Disconnect_f
  <2>5. Undisturbed' => Undisturbed
    BY <1>1, <1>2 DEF Undisturbed
  <2> QED BY <1>1, <1>2, <1>5, <2>1, <2>2, <2>3, <2>4, <2>5 DEF AskedInv
<1>6. CASE ~Head(cbuf).own
  <2>1. /\ asked' = line'.to
        /\ overtaken' = (overtaken \/ Decided \/ (~enabled /\ opc # "none"))
    BY <1>2, <1>6 DEF Note
  <2>2. \A i \in DOMAIN cbuf' : cbuf'[i].own => overtaken'
    BY <1>4, <2>1 DEF Decided
  <2>3. mpc' # "wait"
    BY DEF CL_Connect_f, CL_Disconnect_f
  <2>4. ASSUME Undisturbed' PROVE overtaken'
    <3>1. CASE opc = "queue"
      BY <2>1, <3>1 DEF Decided, ThreadsInv
    <3>2. CASE opc # "queue"
      <4>1. opc \in {"init", "spawn", "join"} /\ status # ABORT /\ mpc' # "abort"
        BY <1>2, <2>4, <3>2 DEF Undisturbed
      <4>2. status = PROBING
        BY <4>1 DEF ThreadsInv, TypeOK, ProbeTypeOK
      <4>3. ~enabled
        BY <4>1, <4>2 DEF CL_Connect_f, CL_Disconnect_f
      <4> QED BY <2>1, <4>1, <4>3
    <3> QED BY <3>1, <3>2
  <2> QED BY <2>1, <2>2, <2>3, <2>4 DEF AskedInv
<1> QED BY <1>2, <1>5, <1>6, LineTaken

\* The orchestrator's last look at the status comes before a stop that is under
\* way, or never sees one; then the main thread waits in vain.
LEMMA OrchestratorAsked ==
  ASSUME TypeOK, ThreadsInv, AskedInv, Orchestrator
  PROVE  AskedInv'
<1> USE DEF READY, PROBING, COMPLETED, ABORT, Statuses
<1>1. UNCHANGED <<mpc, line, seen, target, asked, overtaken>>
  BY DEF Orchestrator, Orch_Init, Orch_Spawn, Orch_Unwind, Orch_Join, Orch_Queue, Orch_Finish,
         mainVars, history
<1>2. mpc' = "wait" => status' # PROBING
  BY <1>1 DEF Orchestrator, Orch_Init, Orch_Spawn, Orch_Unwind, Orch_Join, Orch_Queue,
              Orch_Finish, AskedInv, TypeOK, ProbeTypeOK
<1>3. Stuck => Stuck'
  BY <1>1 DEF Orchestrator, Orch_Init, Orch_Spawn, Orch_Unwind, Orch_Join, Orch_Queue,
              Orch_Finish, Stuck
<1>4. Undisturbed' => target = asked \/ overtaken \/ Stuck'
  <2>1. CASE Orch_Init \/ Orch_Spawn \/ Orch_Unwind \/ Orch_Queue \/ Orch_Finish
    <3>1. Undisturbed' => Undisturbed
      BY <1>1, <2>1 DEF Undisturbed, Orch_Init, Orch_Spawn, Orch_Unwind, Orch_Queue, Orch_Finish
    <3> QED BY <1>3, <3>1 DEF AskedInv
  <2>2. CASE Orch_Join
    <3>1. CASE Undisturbed
      BY <1>3, <3>1 DEF AskedInv
    <3>2. CASE ~Undisturbed /\ opc' = "queue"
      <4>1. ret' = COMPLETED /\ mpc = "abort"
        BY <2>2, <3>2 DEF Orch_Join, Undisturbed
      <4> QED BY <1>1, <3>2, <4>1 DEF Stuck
    <3> QED BY <2>2, <3>1, <3>2 DEF Undisturbed, Orch_Join
  <2> QED BY <2>1, <2>2 DEF Orchestrator
<1>5. \A i \in DOMAIN cbuf' : cbuf'[i].own => cbuf'[i].to = asked \/ overtaken \/ Stuck'
  <2>1. CASE Orch_Queue /\ cbuf' # cbuf
    <3>1. cbuf' = Append(cbuf, [to |-> target, own |-> TRUE])
      BY <2>1 DEF Orch_Queue
    <3>2. target = asked \/ overtaken \/ Stuck
      BY <2>1 DEF Orch_Queue, Undisturbed, AskedInv
    <3>3. \A i \in DOMAIN cbuf' : cbuf'[i].to = target \/ (i \in DOMAIN cbuf /\ cbuf'[i] = cbuf[i])
      BY <3>1 DEF TypeOK, MainTypeOK
    <3> QED BY <1>3, <3>2, <3>3 DEF AskedInv
  <2>2. CASE cbuf' = cbuf
    BY <1>3, <2>2 DEF AskedInv
  <2> QED BY <2>1, <2>2 DEF Orchestrator, Orch_Init, Orch_Spawn, Orch_Unwind, Orch_Join, Orch_Finish
<1> QED BY <1>1, <1>2, <1>4, <1>5 DEF AskedInv

\* Starting a probe for the line in hand, which forgets what was noted if no
\* earlier probe can come back to it.
LEMMA StartAsked ==
  ASSUME TypeOK, ThreadsInv, AskedInv, NET_PortPingProbe
  PROVE  AskedInv'
<1> USE DEF READY, PROBING, COMPLETED, ABORT, Statuses
<1>1. mpc = "decide" /\ mpc' = "idle" /\ opc = "none"
  BY DEF NET_PortPingProbe, ThreadsInv
<1>2. UNCHANGED <<cbuf, line, asked>>
  BY DEF NET_PortPingProbe
<1>3. ~Stuck
  BY <1>1 DEF Stuck
<1>4. line.to = asked \/ (line.own /\ overtaken)
  BY <1>1 DEF AskedInv
<1>5. overtaken' = overtaken \/ (~line.own /\ ~Decided /\ overtaken' = FALSE)
  BY DEF NET_PortPingProbe, TypeOK, HistoryTypeOK, MainTypeOK, Lines
<1>6. ASSUME NEW i \in DOMAIN cbuf, cbuf[i].own PROVE cbuf[i].to = asked \/ overtaken'
  BY <1>3, <1>5, <1>6 DEF AskedInv, Decided
<1>7. Undisturbed' => target' = asked \/ overtaken'
  <2>1. CASE opc' = "init" /\ target' = line.to
    BY <1>4, <1>5, <2>1
  <2>2. CASE UNCHANGED orchVars
    BY <1>1, <2>2 DEF orchVars, Undisturbed
  <2> QED BY <2>1, <2>2 DEF NET_PortPingProbe
<1> QED BY <1>1, <1>2, <1>6, <1>7 DEF AskedInv

\* Everything the main thread does apart from starting a probe.
LEMMA MainAsked ==
  ASSUME TypeOK, ThreadsInv, AskedInv, Abort \/ AbortWait \/ ConnectNow
  PROVE  AskedInv'
<1> USE DEF READY, PROBING, COMPLETED, ABORT, Statuses, AskedInv, Stuck, Undisturbed, orchVars
<1>1. CASE Abort
  BY <1>1 DEF Abort
<1>2. CASE AbortWait
  BY <1>2 DEF AbortWait, ThreadsInv, history
<1>3. CASE ConnectNow
  BY <1>3 DEF ConnectNow, ThreadsInv, history
<1> QED BY <1>1, <1>2, <1>3

\* No step takes the client's aim from what the player has asked for.
LEMMA NextAsked ==
  ASSUME TypeOK, ThreadsInv, AskedInv, [Next]_vars
  PROVE  AskedInv'
<1>1. CASE PlayerSetsEnable \/ ServerAnswers \/ UNCHANGED vars
  BY <1>1, SameAsked DEF PlayerSetsEnable, ServerAnswers, vars, orchVars, history
<1>2. ASSUME NEW w \in Workers, Worker(w) PROVE AskedInv'
  BY <1>2, SameAsked DEF Worker, Worker_Probe, Worker_Look, orchVars, history
<1> QED
  BY <1>1, <1>2, AskAsked, TakeAsked, OrchestratorAsked, StartAsked, MainAsked DEF Next, Main

-----------------------------------------------------------------------------
(* The theorems *)

\* Workers write only to memory that lives, the status says READY or COMPLETED
\* only when nothing of a probe runs, and everything aims where the player has
\* asked to go (NET_PortPingProbe, CL_Connect_f).
THEOREM ProbeInvariant == Spec => []ProbeInv
<1>1. Init => ProbeInv
  BY InitType DEF Init, ProbeInv, ResultsLive, ThreadsInv, AskedInv, Stuck, Undisturbed, Running,
     READY, PROBING, COMPLETED, ABORT
<1>2. ProbeInv /\ [Next]_vars => ProbeInv'
  <2> SUFFICES ASSUME ProbeInv, [Next]_vars PROVE ProbeInv'
    OBVIOUS
  <2>1. TypeOK' /\ ThreadsInv' /\ AskedInv'
    BY NextType, NextThreads, NextAsked DEF ProbeInv
  <2>2. ResultsLive'
    BY <2>1 DEF ThreadsInv, ResultsLive
  <2> QED BY <2>1, <2>2 DEF ProbeInv
<1> QED BY <1>1, <1>2, PTL DEF Spec

\* A probe is started only when the one before is over with all its workers
\* (NET_PortPingProbe).
THEOREM NoTwoProbes == Spec => ProbesDoNotOverlap
<1>1. ProbeInv /\ [Next]_vars
        => [(opc' = "init" /\ orchVars' # orchVars)
              => opc = "none" /\ \A w \in Workers : ~Running(w)]_vars
  <2> SUFFICES ASSUME ProbeInv, [Next]_vars, opc' = "init", orchVars' # orchVars
               PROVE  opc = "none" /\ \A w \in Workers : ~Running(w)
    OBVIOUS
  <2>1. NET_PortPingProbe
    <3>1. CASE CL_Connect_f \/ CL_Disconnect_f
      BY <3>1, LineTaken DEF TakeLine, ProbeInv
    <3>2. CASE UNCHANGED vars
      BY <3>2 DEF vars
    <3> QED
      BY <3>1, <3>2
      DEF Next, Main, Orchestrator, Worker, PlayerAsks, PlayerSetsEnable, ServerAnswers, Abort,
          AbortWait, ConnectNow, Orch_Init, Orch_Spawn, Orch_Unwind, Orch_Join, Orch_Queue,
          Orch_Finish, Worker_Probe, Worker_Look
  <2>2. opc = "none"
    BY <2>1 DEF NET_PortPingProbe, ProbeInv, ThreadsInv, READY, COMPLETED
  <2> QED BY <2>2 DEF ProbeInv, ThreadsInv
<1> QED BY <1>1, ProbeInvariant, PTL DEF Spec, ProbesDoNotOverlap

\* The client begins to connect only to the server the player has asked for
\* last, unless that came after the probe's last look at the status
\* (CL_Connect_f, NET_PortPingProbeOrchestrator).
THEOREM ConnectsWhereAsked == Spec => GoesWhereAsked
<1>1. ProbeInv /\ [Next]_vars
        => [game' # game /\ game' # NoServer => game' = asked' \/ overtaken']_vars
  <2> SUFFICES ASSUME ProbeInv, [Next]_vars, game' # game, game' # NoServer
               PROVE  game' = asked' \/ overtaken'
    OBVIOUS
  <2>1. CASE CL_Connect_f
    <3>1. game' = line'.to
      BY <2>1, LineTaken DEF CL_Connect_f, TakeLine, Host_EndGame, CL_BeginServerConnect,
                             gameVars, ProbeInv
    <3> QED BY <2>1, <3>1, TakeAsked DEF ProbeInv
  <2>2. CASE ConnectNow
    BY <2>2 DEF ConnectNow, CL_BeginServerConnect, history, ProbeInv, AskedInv
  <2>3. CL_Connect_f \/ ConnectNow
    <3>1. CASE UNCHANGED vars
      BY <3>1 DEF vars, gameVars
    <3> QED
      BY <3>1
      DEF Next, Main, Orchestrator, Worker, PlayerAsks, PlayerSetsEnable, ServerAnswers,
          CL_Disconnect_f, Abort, AbortWait, NET_PortPingProbe, Orch_Init, Orch_Spawn,
          Orch_Unwind, Orch_Join, Orch_Queue, Orch_Finish, Worker_Probe, Worker_Look,
          Host_EndGame, gameVars
  <2> QED BY <2>1, <2>2, <2>3
<1> QED BY <1>1, ProbeInvariant, PTL DEF Spec, GoesWhereAsked
=============================================================================
