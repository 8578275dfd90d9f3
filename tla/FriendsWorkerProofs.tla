------------------------- MODULE FriendsWorkerProofs -------------------------
(***************************************************************************)
(* A theorem about FriendsWorker for any number of peers, calls and        *)
(* queued commands: the types, and that the game connects to a peer of     *)
(* the join asked for last.                                                *)
(***************************************************************************)
EXTENDS FriendsWorker, TLAPS, SequenceTheorems, FiniteSetTheorems

-----------------------------------------------------------------------------
IsStart(c) == c.kind \in {"host", "join"}

(* The starts of cs are between the request lo and the request hi, in the  *)
(* order of their numbers.                                                 *)
InOrder(cs, lo, hi) ==
    /\ \A i \in DOMAIN cs : IsStart(cs[i]) => lo <= cs[i].value /\ cs[i].value < hi
    /\ \A i, j \in DOMAIN cs :
          i < j /\ IsStart(cs[i]) /\ IsStart(cs[j]) => cs[i].value <= cs[j].value

(* Requests are executed in the order of their numbers.                    *)
QueueInv ==
    /\ InOrder(work, activeRequest, nextRequest)
    /\ InOrder(commands, activeRequest, nextRequest)
    /\ \A i \in DOMAIN work, j \in DOMAIN commands :
          IsStart(work[i]) /\ IsStart(commands[j]) => work[i].value <= commands[j].value
    /\ activeRequest < nextRequest

(* What is published is what the worker has, and its peers are those of    *)
(* its request.                                                            *)
ServiceInv ==
    /\ published.request = activeRequest
    /\ live = service.admitted
    /\ published.client_peer \in {0} \cup service.admitted
    /\ \A p \in service.peers : owner[p] = activeRequest
    /\ pc \in {"take", "wait", "stopped"} => work = <<>>
    /\ pc \in {"start", "open"} => work # <<>>
    /\ pc = "start" => service.peers = {}

(* A join that is waited for is the last request.                          *)
MainInv ==
    /\ status.request <= activeRequest
    /\ joining => join_request = nextRequest - 1 /\ ~serveractive
    /\ main = "join" =>
          /\ ~serveractive /\ server_adr = 0 /\ ~joining
          /\ ops + nextRequest <= MaxCalls
    /\ server_adr < nextToken
    /\ ops + nextRequest <= MaxCalls + 1

(* The inductive invariant.                                                *)
FriendsInv == WorkerInv /\ QueueInv /\ ServiceInv /\ MainInv

-----------------------------------------------------------------------------
(* The parts of TypeOK: the main thread, the queue, the worker.            *)
MainTypes ==
    /\ main \in {"idle", "frame", "join", "quit"}
    /\ private_game \in BOOLEAN /\ joining \in BOOLEAN /\ connected \in BOOLEAN
    /\ join_request \in Requests /\ status \in StatusType
    /\ serveractive \in BOOLEAN /\ server_adr \in 0 .. MaxPeers
    /\ ops \in 0 .. MaxCalls
    /\ nextRequest \in 1 .. MaxCalls + 1 /\ exiting \in BOOLEAN

QueueTypes ==
    /\ commands \in Seq(CommandType) /\ Len(commands) <= MaxCommands /\ pending \in BOOLEAN

ServiceOK(s) ==
    /\ s \in ServiceType /\ s.admitted \subseteq s.peers
    /\ ~s.host => Cardinality(s.peers) <= 1

WorkerTypes ==
    /\ published \in StatusType
    /\ pc \in {"take", "execute", "start", "open", "wait", "stopped"}
    /\ work \in Seq(CommandType) /\ activeRequest \in Requests
    /\ ServiceOK(service)
    /\ late \in BOOLEAN /\ nextToken \in 1 .. MaxPeers + 1
    /\ owner \in [Peers -> Requests]

Tokens == live \cup clients \cup service.peers \subseteq 1 .. nextToken - 1

(* The bounds are numbers, and a peer is one.                              *)
LEMMA Bounds ==
    /\ MaxCommands \in Nat /\ MaxCommands >= 1 /\ MaxPeers \in Nat /\ MaxCalls \in Nat
    /\ \A p \in Peers : p \in Nat /\ p >= 1 /\ p <= MaxPeers
    /\ \A r \in Requests : r \in Nat /\ r <= MaxCalls
<1>1. MaxCommands \in Nat \ {0} /\ MaxPeers \in Nat /\ MaxCalls \in Nat
  BY FriendsWorkerAssumption
<1> QED BY <1>1 DEF Peers, Requests

(* TypeOK is its parts.                                                    *)
LEMMA TypeParts ==
    /\ TypeOK => MainTypes /\ QueueTypes /\ WorkerTypes /\ Tokens /\ clients \subseteq Peers
    /\ MainTypes /\ QueueTypes /\ WorkerTypes /\ Tokens => TypeOK
<1>1. TypeOK => MainTypes /\ QueueTypes /\ WorkerTypes /\ Tokens /\ clients \subseteq Peers
  BY DEF TypeOK, MainTypes, QueueTypes, WorkerTypes, Tokens, ServiceOK
<1>2. ASSUME MainTypes, QueueTypes, WorkerTypes, Tokens PROVE TypeOK
  <2>1. clients \subseteq Peers
    <3>1. nextToken \in 1 .. MaxPeers + 1
      BY <1>2 DEF WorkerTypes
    <3>2. \A p \in 1 .. nextToken - 1 : p \in 1 .. MaxPeers
      BY <3>1, Bounds
    <3> QED BY <1>2, <3>2 DEF Tokens, Peers
  <2> QED BY <1>2, <2>1 DEF TypeOK, MainTypes, QueueTypes, WorkerTypes, Tokens, ServiceOK
<1> QED BY <1>1, <1>2

-----------------------------------------------------------------------------
(* The queue                                                               *)

(* A command that Send appends is behind the others, and a full queue      *)
(* takes none.                                                             *)
LEMMA SendFacts ==
    ASSUME QueueTypes, NEW cs \in Seq(CommandType), Send(cs)
    PROVE  /\ QueueTypes'
           /\ \A i \in DOMAIN commands' :
                 \/ i \in DOMAIN commands /\ commands'[i] = commands[i]
                 \/ /\ ~Full /\ i - Len(commands) \in DOMAIN cs
                    /\ commands'[i] = cs[i - Len(commands)]
           /\ \A i \in DOMAIN commands' : i \in 1 .. Len(commands) + Len(cs)
<1>0. MaxCommands \in Nat
  BY Bounds
<1>1. PICK q \in Seq(CommandType), n \in Nat : q = commands /\ n = Len(q) /\ n <= MaxCommands
  BY DEF QueueTypes
<1>2. PICK k \in Nat : k = Len(cs)
  OBVIOUS
<1>3. PICK all \in Seq(CommandType) :
         /\ all = q \o cs /\ Len(all) = n + k
         /\ \A i \in 1 .. n + k : all[i] = IF i <= n THEN q[i] ELSE cs[i - n]
  <2>1. /\ q \o cs \in Seq(CommandType) /\ Len(q \o cs) = Len(q) + Len(cs)
        /\ \A i \in 1 .. Len(q) + Len(cs) : (q \o cs)[i] = IF i <= Len(q) THEN q[i] ELSE cs[i - Len(q)]
    BY ConcatProperties
  <2> QED BY <1>1, <1>2, <2>1
<1>4. PICK c : c = commands'
  OBVIOUS
<1>5. c = IF n + k <= MaxCommands THEN all ELSE SubSeq(all, 1, MaxCommands)
  BY <1>1, <1>3, <1>4 DEF Send
<1>6. PICK m \in Nat : /\ c \in Seq(CommandType) /\ Len(c) = m /\ m <= MaxCommands /\ m <= n + k
                       /\ \A i \in 1 .. m : c[i] = all[i]
  <2>1. CASE n + k <= MaxCommands
    BY <1>3, <1>5, <2>1
  <2>2. CASE ~(n + k <= MaxCommands)
    <3>1. \A i \in 1 .. MaxCommands : i \in 1 .. n + k
      BY <1>0, <2>2
    <3>2. \A i \in 1 .. MaxCommands : all[i] \in CommandType
      BY <1>3, <3>1
    <3>3. c = [i \in 1 .. MaxCommands |-> all[i]]
      BY <1>0, <1>5, <2>2
    <3>4. c \in Seq(CommandType) /\ Len(c) = MaxCommands /\ \A i \in 1 .. MaxCommands : c[i] = all[i]
      BY <1>0, <3>2, <3>3
    <3> QED BY <1>0, <2>2, <3>4
  <2> QED BY <2>1, <2>2
<1>7. DOMAIN c = 1 .. m /\ DOMAIN q = 1 .. n /\ DOMAIN cs = 1 .. k
  BY <1>1, <1>2, <1>6
<1>8. ASSUME NEW i \in 1 .. m
      PROVE  /\ \/ i \in 1 .. n /\ c[i] = q[i]
                \/ n < MaxCommands /\ i - n \in 1 .. k /\ c[i] = cs[i - n]
             /\ i \in 1 .. n + k
  <2>1. i \in 1 .. n + k
    BY <1>6
  <2>2. CASE i <= n
    <3>1. i \in 1 .. n /\ c[i] = all[i] /\ all[i] = q[i]
      BY <1>3, <1>6, <2>1, <2>2
    <3> QED BY <2>1, <3>1
  <2>3. CASE ~(i <= n)
    <3>1. i - n \in 1 .. k /\ n < MaxCommands
      BY <1>0, <1>6, <2>1, <2>3
    <3> QED BY <1>3, <1>6, <2>1, <2>3, <3>1
  <2> QED BY <2>1, <2>2, <2>3
<1>9. QueueTypes'
  BY <1>4, <1>6 DEF QueueTypes, Send
<1> QED BY <1>0, <1>1, <1>2, <1>4, <1>7, <1>8, <1>9 DEF Full

(* A queue that grows by the next request only, or by no start, keeps the  *)
(* order.                                                                  *)
LEMMA QueueStep ==
    ASSUME QueueInv, UNCHANGED <<work, activeRequest>>,
           nextRequest \in Nat, activeRequest \in Nat,
           nextRequest' = nextRequest \/ nextRequest' = nextRequest + 1,
           \A i \in DOMAIN commands' :
              \/ i \in DOMAIN commands /\ commands'[i] = commands[i]
              \/ ~IsStart(commands'[i])
              \/ /\ commands'[i].value = nextRequest /\ nextRequest' = nextRequest + 1
                 /\ \A j \in DOMAIN commands' : j <= i,
           \A i \in DOMAIN commands' : i \in Nat,
           commands \in Seq(CommandType), work \in Seq(CommandType)
    PROVE  QueueInv'
<1>0. /\ \A i \in DOMAIN commands : commands[i].value \in Nat /\ i \in Nat
      /\ \A i \in DOMAIN work : work[i].value \in Nat
  <2>1. ASSUME NEW cs \in Seq(CommandType), NEW i \in DOMAIN cs PROVE cs[i].value \in Nat /\ i \in Nat
    <3>1. cs[i] \in CommandType
      OBVIOUS
    <3> QED BY <3>1 DEF CommandType
  <2> QED BY <2>1
<1>1. InOrder(work, activeRequest, nextRequest)'
  <2>1. \A i \in DOMAIN work : IsStart(work[i]) => work[i].value < nextRequest'
    BY <1>0 DEF QueueInv, InOrder
  <2> QED BY <2>1 DEF QueueInv, InOrder
<1>2. ASSUME NEW i \in DOMAIN commands', IsStart(commands'[i])
      PROVE  /\ activeRequest <= commands'[i].value /\ commands'[i].value < nextRequest'
             /\ \/ i \in DOMAIN commands /\ commands'[i] = commands[i]
                \/ commands'[i].value = nextRequest /\ \A j \in DOMAIN commands' : j <= i
  <2>1. CASE i \in DOMAIN commands /\ commands'[i] = commands[i]
    BY <1>0, <1>2, <2>1 DEF QueueInv, InOrder
  <2>2. CASE /\ commands'[i].value = nextRequest /\ nextRequest' = nextRequest + 1
             /\ \A j \in DOMAIN commands' : j <= i
    BY <2>2 DEF QueueInv
  <2> QED BY <1>2, <2>1, <2>2
<1>3. ASSUME NEW i \in DOMAIN commands', NEW j \in DOMAIN commands', i < j,
             IsStart(commands'[i]), IsStart(commands'[j])
      PROVE  commands'[i].value <= commands'[j].value
  <2>1. ~(j <= i)
    BY <1>3
  <2>2. i \in DOMAIN commands /\ commands'[i] = commands[i]
    BY <1>2, <1>3, <2>1
  <2>3. CASE j \in DOMAIN commands /\ commands'[j] = commands[j]
    BY <1>3, <2>2, <2>3 DEF QueueInv, InOrder
  <2>4. CASE commands'[j].value = nextRequest
    BY <1>0, <1>3, <2>2, <2>4 DEF QueueInv, InOrder
  <2> QED BY <1>2, <1>3, <2>3, <2>4
<1>4. ASSUME NEW i \in DOMAIN work, NEW j \in DOMAIN commands',
             IsStart(work[i]), IsStart(commands'[j])
      PROVE  work[i].value <= commands'[j].value
  <2>1. CASE j \in DOMAIN commands /\ commands'[j] = commands[j]
    BY <1>4, <2>1 DEF QueueInv
  <2>2. CASE commands'[j].value = nextRequest
    BY <1>0, <1>4, <2>2 DEF QueueInv, InOrder
  <2> QED BY <1>2, <1>4, <2>1, <2>2
<1>5. InOrder(commands, activeRequest, nextRequest)'
  BY <1>2, <1>3 DEF InOrder
<1>6. activeRequest' < nextRequest'
  BY DEF QueueInv
<1> QED BY <1>1, <1>4, <1>5, <1>6 DEF QueueInv

(* Part of a queue that is in order is in order.                           *)
LEMMA TailInOrder ==
    ASSUME NEW cs \in Seq(CommandType), cs # <<>>, NEW lo, NEW hi, InOrder(cs, lo, hi)
    PROVE  /\ Tail(cs) \in Seq(CommandType) /\ InOrder(Tail(cs), lo, hi)
           /\ \A i \in DOMAIN Tail(cs) : i + 1 \in DOMAIN cs /\ Tail(cs)[i] = cs[i + 1]
           /\ 1 \in DOMAIN cs /\ Head(cs) = cs[1] /\ Head(cs) \in CommandType
<1>1. PICK n \in Nat : n = Len(cs) /\ n >= 1 /\ DOMAIN cs = 1 .. n
  <2>1. Len(cs) \in Nat \ {0}
    BY EmptySeq
  <2> QED BY <2>1
<1>2. PICK t \in Seq(CommandType) :
         t = Tail(cs) /\ DOMAIN t = 1 .. n - 1 /\ \A i \in 1 .. n - 1 : t[i] = cs[i + 1]
  <2>1. /\ Tail(cs) \in Seq(CommandType) /\ Len(Tail(cs)) = Len(cs) - 1
        /\ \A i \in 1 .. Len(Tail(cs)) : Tail(cs)[i] = cs[i + 1]
    BY HeadTailProperties
  <2>2. PICK t \in Seq(CommandType) :
           t = Tail(cs) /\ Len(t) = n - 1 /\ \A i \in 1 .. Len(t) : t[i] = cs[i + 1]
    BY <1>1, <2>1
  <2>3. DOMAIN t = 1 .. n - 1
    BY <2>2
  <2> QED BY <2>2, <2>3
<1>3. \A i \in 1 .. n - 1 : i + 1 \in 1 .. n
  BY <1>1
<1>4. \A i, j \in 1 .. n - 1 : i < j => i + 1 < j + 1
  BY <1>1
<1>5. InOrder(t, lo, hi)
  BY <1>1, <1>2, <1>3, <1>4 DEF InOrder
<1>6. 1 \in DOMAIN cs /\ Head(cs) = cs[1] /\ Head(cs) \in CommandType
  BY <1>1
<1> QED BY <1>1, <1>2, <1>3, <1>5, <1>6

(* The worker executes the head of its work.                               *)
LEMMA WorkStep ==
    ASSUME QueueInv, work \in Seq(CommandType),
           UNCHANGED <<commands, activeRequest, nextRequest>>,
           work' = work \/ work' = <<>> \/ (work # <<>> /\ work' = Tail(work))
    PROVE  QueueInv' /\ work' \in Seq(CommandType)
<1>1. CASE work' = work
  BY <1>1 DEF QueueInv, InOrder
<1>2. CASE work' = <<>>
  BY <1>2 DEF QueueInv, InOrder
<1>3. CASE work # <<>> /\ work' = Tail(work)
  <2>1. /\ work' \in Seq(CommandType) /\ InOrder(work', activeRequest, nextRequest)
        /\ \A i \in DOMAIN work' : i + 1 \in DOMAIN work /\ work'[i] = work[i + 1]
    BY <1>3, TailInOrder DEF QueueInv
  <2>2. InOrder(work, activeRequest, nextRequest)'
    BY <2>1 DEF InOrder
  <2>3. InOrder(commands, activeRequest, nextRequest)'
    BY DEF QueueInv, InOrder
  <2> QED BY <2>1, <2>2, <2>3 DEF QueueInv
<1> QED BY <1>1, <1>2, <1>3

-----------------------------------------------------------------------------
(* The main thread                                                         *)

(* It leaves the worker alone.                                             *)
LEMMA MainStep ==
    ASSUME FriendsInv, Main, MainTypes', QueueTypes', QueueInv', MainInv',
           clients' \subseteq 1 .. nextToken - 1, ConnectsToOwnJoin'
    PROVE  FriendsInv'
<1>1. WorkerTypes /\ Tokens /\ ServiceInv
  BY TypeParts DEF FriendsInv, WorkerInv
<1>2. WorkerTypes' /\ ServiceInv'
  BY <1>1 DEF Main, workerVars, WorkerTypes, ServiceInv, ServiceOK
<1>3. Tokens'
  BY <1>1 DEF Main, workerVars, Tokens
<1>4. TypeOK'
  <2>1. clients' \subseteq Peers
    <3>1. nextToken \in 1 .. MaxPeers + 1
      BY <1>1 DEF WorkerTypes
    <3>2. \A p \in 1 .. nextToken - 1 : p \in 1 .. MaxPeers
      BY <3>1, Bounds
    <3> QED BY <3>2 DEF Peers
  <2> QED BY <1>2, <1>3, <2>1 DEF TypeOK, MainTypes, QueueTypes, WorkerTypes, Tokens, ServiceOK
<1> QED BY <1>2, <1>4 DEF FriendsInv, WorkerInv

(* What holds when it acts.                                                *)
LEMMA MainFacts ==
    ASSUME FriendsInv
    PROVE  /\ MainTypes /\ QueueTypes /\ WorkerTypes /\ Tokens /\ clients \subseteq Peers
           /\ QueueInv /\ ServiceInv /\ MainInv /\ ConnectsToOwnJoin
           /\ clients \subseteq 1 .. nextToken - 1
           /\ nextRequest \in Nat /\ ops \in Nat /\ activeRequest \in Nat /\ nextToken \in Nat
           /\ server_adr \in Nat /\ MaxCalls \in Nat
<1>1. /\ MainTypes /\ QueueTypes /\ WorkerTypes /\ Tokens /\ clients \subseteq Peers
  BY TypeParts DEF FriendsInv, WorkerInv
<1>2. nextRequest \in Nat /\ ops \in Nat /\ activeRequest \in Nat /\ nextToken \in Nat /\ server_adr \in Nat
  BY <1>1, Bounds DEF MainTypes, WorkerTypes
<1> QED BY <1>1, <1>2, Bounds DEF FriendsInv, WorkerInv, Tokens

(* A call that is no start.                                                *)
LEMMA NoStartStep ==
    ASSUME FriendsInv, NEW cs \in Seq(CommandType), \A i \in DOMAIN cs : ~IsStart(cs[i]),
           Send(cs), UNCHANGED <<work, activeRequest, nextRequest>>
    PROVE  QueueTypes' /\ QueueInv'
<1>1. QueueTypes /\ WorkerTypes /\ QueueInv /\ nextRequest \in Nat /\ activeRequest \in Nat
  BY MainFacts
<1>2. /\ QueueTypes'
      /\ \A i \in DOMAIN commands' :
            \/ i \in DOMAIN commands /\ commands'[i] = commands[i]
            \/ /\ ~Full /\ i - Len(commands) \in DOMAIN cs
               /\ commands'[i] = cs[i - Len(commands)]
      /\ \A i \in DOMAIN commands' : i \in 1 .. Len(commands) + Len(cs)
  BY <1>1, SendFacts
<1>3. \A i \in DOMAIN commands' :
         \/ i \in DOMAIN commands /\ commands'[i] = commands[i]
         \/ ~IsStart(commands'[i])
  BY <1>2
<1>4. commands \in Seq(CommandType) /\ work \in Seq(CommandType) /\ \A i \in DOMAIN commands' : i \in Nat
  BY <1>1, <1>2 DEF QueueTypes, WorkerTypes
<1>5. QueueInv'
  BY <1>1, <1>3, <1>4, QueueStep
<1> QED BY <1>2, <1>5

(* A start takes the next number, if the queue takes it.                   *)
LEMMA StartStep ==
    ASSUME FriendsInv, NEW kind \in {"host", "join"}, Send(<<Command(kind, nextRequest)>>),
           nextRequest' = IF Full THEN nextRequest ELSE nextRequest + 1,
           UNCHANGED <<work, activeRequest>>
    PROVE  QueueTypes' /\ QueueInv'
<1>1. QueueTypes /\ WorkerTypes /\ QueueInv /\ nextRequest \in Nat /\ activeRequest \in Nat
  BY MainFacts
<1>2. PICK c \in CommandType : c = Command(kind, nextRequest) /\ c.value = nextRequest
  BY <1>1 DEF Command, CommandType
<1>3. PICK cs \in Seq(CommandType) : cs = <<c>> /\ Len(cs) = 1 /\ DOMAIN cs = {1} /\ cs[1] = c
  <2>1. <<c>> \in Seq(CommandType) /\ Len(<<c>>) = 1 /\ DOMAIN <<c>> = {1} /\ <<c>>[1] = c
    OBVIOUS
  <2> QED BY <2>1
<1>4. Send(cs)
  BY <1>2, <1>3
<1>5. /\ QueueTypes'
      /\ \A i \in DOMAIN commands' :
            \/ i \in DOMAIN commands /\ commands'[i] = commands[i]
            \/ /\ ~Full /\ i - Len(commands) \in DOMAIN cs
               /\ commands'[i] = cs[i - Len(commands)]
      /\ \A i \in DOMAIN commands' : i \in 1 .. Len(commands) + Len(cs)
  BY <1>1, <1>4, SendFacts
<1>6. PICK n \in Nat : n = Len(commands)
  BY <1>1 DEF QueueTypes
<1>7. ASSUME NEW i \in DOMAIN commands'
      PROVE  \/ i \in DOMAIN commands /\ commands'[i] = commands[i]
             \/ /\ commands'[i].value = nextRequest /\ nextRequest' = nextRequest + 1
                /\ \A j \in DOMAIN commands' : j <= i
  <2>1. CASE ~Full /\ i - n \in DOMAIN cs /\ commands'[i] = cs[i - n]
    <3>1. i - n = 1 /\ commands'[i] = c
      BY <1>3, <2>1
    <3>2. \A j \in DOMAIN commands' : j \in 1 .. n + 1
      BY <1>3, <1>5, <1>6
    <3>3. i \in 1 .. n + 1
      BY <3>2
    <3>4. \A j \in DOMAIN commands' : j <= i
      BY <3>1, <3>2, <3>3
    <3> QED BY <1>2, <2>1, <3>1, <3>4
  <2> QED BY <1>5, <1>6, <2>1
<1>8. commands \in Seq(CommandType) /\ work \in Seq(CommandType) /\ \A i \in DOMAIN commands' : i \in Nat
  BY <1>1, <1>5 DEF QueueTypes, WorkerTypes
<1>9. nextRequest' = nextRequest \/ nextRequest' = nextRequest + 1
  OBVIOUS
<1>10. QueueInv'
  BY <1>1, <1>7, <1>8, <1>9, QueueStep
<1> QED BY <1>5, <1>10

(* Whether a stop is sent or not, it is no start.                          *)
LEMMA StopFacts ==
    ASSUME NEW a, NEW b
    PROVE  /\ StopIf(a) \in Seq(CommandType) /\ StopIf(a) \o StopIf(b) \in Seq(CommandType)
           /\ \A i \in DOMAIN StopIf(a) : ~IsStart(StopIf(a)[i])
           /\ \A i \in DOMAIN (StopIf(a) \o StopIf(b)) : ~IsStart((StopIf(a) \o StopIf(b))[i])
<1>1. Command("stop", 0) \in CommandType /\ ~IsStart(Command("stop", 0))
  BY DEF Command, CommandType, IsStart
<1>2. PICK c \in CommandType : c = Command("stop", 0) /\ ~IsStart(c)
  BY <1>1
<1>3. \A x : StopIf(x) = <<>> \/ StopIf(x) = <<c>>
  BY <1>2 DEF StopIf
<1>4. \A x : StopIf(x) \in Seq(CommandType) /\ \A i \in DOMAIN StopIf(x) : StopIf(x)[i] = c
  <2>1. <<>> \in Seq(CommandType) /\ \A i \in DOMAIN <<>> : <<>>[i] = c
    OBVIOUS
  <2>2. <<c>> \in Seq(CommandType) /\ \A i \in DOMAIN <<c>> : <<c>>[i] = c
    OBVIOUS
  <2> QED BY <1>3, <2>1, <2>2
<1>5. PICK s \in Seq(CommandType), t \in Seq(CommandType) : s = StopIf(a) /\ t = StopIf(b)
  BY <1>4
<1>6. /\ s \o t \in Seq(CommandType) /\ Len(s \o t) = Len(s) + Len(t)
      /\ \A i \in 1 .. Len(s) + Len(t) : (s \o t)[i] = IF i <= Len(s) THEN s[i] ELSE t[i - Len(s)]
  BY ConcatProperties
<1>7. PICK m \in Nat, n \in Nat : m = Len(s) /\ n = Len(t)
  OBVIOUS
<1>7b. PICK u \in Seq(CommandType) :
         /\ u = s \o t /\ Len(u) = m + n
         /\ \A i \in 1 .. m + n : u[i] = IF i <= m THEN s[i] ELSE t[i - m]
  BY <1>6, <1>7
<1>8. \A i \in 1 .. m + n : IF i <= m THEN i \in 1 .. m ELSE i - m \in 1 .. n
  OBVIOUS
<1>9. DOMAIN u = 1 .. m + n /\ DOMAIN s = 1 .. m /\ DOMAIN t = 1 .. n
  BY <1>7, <1>7b
<1>10. \A i \in DOMAIN u : u[i] = c
  BY <1>4, <1>5, <1>7b, <1>8, <1>9
<1> QED BY <1>2, <1>4, <1>5, <1>7b, <1>10

(* Ending the game.                                                        *)
LEMMA EndGameStep ==
    ASSUME FriendsInv, Main, Host_EndGame, serveractive' \in BOOLEAN,
           main' \in {"idle", "frame", "join", "quit"},
           main' = "join" => ~serveractive' /\ ops + nextRequest <= MaxCalls
    PROVE  FriendsInv'
<1>1. /\ MainTypes /\ clients \subseteq Peers /\ MainInv /\ ConnectsToOwnJoin /\ MaxPeers \in Nat
      /\ nextToken \in Nat /\ nextToken >= 1
  BY MainFacts, Bounds DEF WorkerTypes
<1>2. PICK cs \in Seq(CommandType) : Send(cs) /\ \A i \in DOMAIN cs : ~IsStart(cs[i])
  BY StopFacts DEF Host_EndGame
<1>3. UNCHANGED <<work, activeRequest, nextRequest, nextToken, owner>>
  BY DEF Host_EndGame, Main, workerVars
<1>4. QueueTypes' /\ QueueInv'
  BY <1>2, <1>3, NoStartStep
<1>5. /\ private_game' \in BOOLEAN /\ joining' = FALSE /\ connected' = FALSE
      /\ server_adr' = 0 /\ clients' = {}
      /\ UNCHANGED <<join_request, status, ops, nextRequest, exiting>>
  BY <1>1 DEF Host_EndGame, MainTypes
<1>6. 0 \in 0 .. MaxPeers
  BY <1>1
<1>7. MainTypes'
  BY <1>1, <1>5, <1>6 DEF MainTypes
<1>8. MainInv'
  BY <1>1, <1>3, <1>5 DEF MainInv
<1>9. clients' \subseteq 1 .. nextToken - 1 /\ ConnectsToOwnJoin'
  BY <1>5 DEF ConnectsToOwnJoin
<1> QED BY <1>4, <1>7, <1>8, <1>9, MainStep

(* A call of the player with no request number, in an idle moment.         *)
LEMMA CallStep ==
    ASSUME FriendsInv, Main, main = "idle", MayCall,
           NEW kind \in {"stop", "accept", "rotate", "drop"}, NEW value \in Nat,
           Send(<<Command(kind, value)>>), ops' = ops + 1,
           status' = status \/ status' = published, clients' \subseteq clients,
           UNCHANGED <<main, private_game, joining, connected, join_request, serveractive,
                       server_adr, nextRequest, exiting>>
    PROVE  FriendsInv'
<1>1. /\ MainTypes /\ WorkerTypes /\ MainInv /\ ServiceInv /\ ConnectsToOwnJoin
      /\ clients \subseteq 1 .. nextToken - 1
      /\ nextRequest \in Nat /\ ops \in Nat /\ activeRequest \in Nat /\ MaxCalls \in Nat
  BY MainFacts
<1>2. PICK c \in CommandType : c = Command(kind, value) /\ ~IsStart(c)
  BY DEF Command, CommandType, IsStart
<1>3. PICK cs \in Seq(CommandType) : cs = <<c>> /\ \A i \in DOMAIN cs : cs[i] = c
  <2>1. <<c>> \in Seq(CommandType) /\ \A i \in DOMAIN <<c>> : <<c>>[i] = c
    OBVIOUS
  <2> QED BY <2>1
<1>4. UNCHANGED <<work, activeRequest, nextToken, owner>>
  BY DEF Main, workerVars
<1>5. QueueTypes' /\ QueueInv'
  <2>1. Send(cs) /\ \A i \in DOMAIN cs : ~IsStart(cs[i])
    BY <1>2, <1>3
  <2> QED BY <1>4, <2>1, NoStartStep
<1>6. ops + 1 \in 0 .. MaxCalls /\ ops + 1 + nextRequest <= MaxCalls + 1
  <2>1. ops + nextRequest <= MaxCalls /\ nextRequest >= 1
    BY <1>1 DEF MayCall, MainTypes
  <2> QED BY <1>1, <2>1
<1>7. MainTypes'
  BY <1>1, <1>6 DEF MainTypes, WorkerTypes
<1>8. MainInv'
  <2>1. status'.request <= activeRequest
    BY <1>1 DEF MainInv, ServiceInv
  <2> QED BY <1>1, <1>4, <1>6, <2>1 DEF MainInv
<1>9. clients' \subseteq 1 .. nextToken - 1 /\ ConnectsToOwnJoin'
  BY <1>1, <1>4 DEF ConnectsToOwnJoin
<1> QED BY <1>5, <1>7, <1>8, <1>9, MainStep

(* Opening the invitations anew.                                           *)
LEMMA HostStep ==
    ASSUME FriendsInv, Main, Friends_Host
    PROVE  FriendsInv'
<1>1. /\ MainTypes /\ WorkerTypes /\ MainInv /\ ServiceInv /\ ConnectsToOwnJoin
      /\ clients \subseteq 1 .. nextToken - 1
      /\ nextRequest \in Nat /\ ops \in Nat /\ activeRequest \in Nat /\ MaxCalls \in Nat
  BY MainFacts
<1>2. /\ main = "idle" /\ serveractive /\ ops + nextRequest <= MaxCalls
      /\ status' = published /\ Send(<<Command("host", nextRequest)>>)
      /\ nextRequest' = (IF Full THEN nextRequest ELSE nextRequest + 1)
      /\ private_game' = (private_game \/ ~Full)
      /\ UNCHANGED <<main, joining, connected, join_request, game, ops, exiting>>
  BY DEF Friends_Host, MayCall
<1>3. UNCHANGED <<work, activeRequest, nextToken, owner>>
  BY DEF Main, workerVars
<1>4. QueueTypes' /\ QueueInv'
  BY <1>2, <1>3, StartStep
<1>5. nextRequest' \in 1 .. MaxCalls + 1 /\ ops + nextRequest' <= MaxCalls + 1
  <2>1. nextRequest >= 1
    BY <1>1 DEF MainTypes
  <2> QED BY <1>1, <1>2, <2>1
<1>6. MainTypes'
  BY <1>1, <1>2, <1>5 DEF MainTypes, WorkerTypes, game, Full
<1>7. MainInv'
  <2>1. ~joining
    BY <1>1, <1>2 DEF MainInv
  <2>2. status'.request <= activeRequest
    BY <1>1, <1>2 DEF ServiceInv
  <2> QED BY <1>1, <1>2, <1>3, <1>5, <2>1, <2>2 DEF MainInv, game
<1>8. clients' \subseteq 1 .. nextToken - 1 /\ ConnectsToOwnJoin'
  BY <1>1, <1>2, <1>3 DEF ConnectsToOwnJoin, game
<1> QED BY <1>4, <1>6, <1>7, <1>8, MainStep

(* The request of a join.                                                  *)
LEMMA JoinStep ==
    ASSUME FriendsInv, Main, NF_Join
    PROVE  FriendsInv'
<1>1. /\ MainTypes /\ WorkerTypes /\ MainInv /\ ServiceInv /\ QueueInv
      /\ clients \subseteq 1 .. nextToken - 1
      /\ nextRequest \in Nat /\ ops \in Nat /\ activeRequest \in Nat /\ MaxCalls \in Nat
  BY MainFacts
<1>2. /\ main = "join" /\ Send(<<Command("join", nextRequest)>>)
      /\ join_request' = (IF Full THEN 0 ELSE nextRequest)
      /\ joining' = (joining \/ ~Full)
      /\ nextRequest' = (IF Full THEN nextRequest ELSE nextRequest + 1)
      /\ main' = "idle"
      /\ UNCHANGED <<private_game, connected, status, game, ops, exiting>>
  BY DEF NF_Join
<1>3. UNCHANGED <<work, activeRequest, nextToken, owner>>
  BY DEF Main, workerVars
<1>4. QueueTypes' /\ QueueInv'
  BY <1>2, <1>3, StartStep
<1>5. ~serveractive /\ server_adr = 0 /\ ~joining /\ ops + nextRequest <= MaxCalls
  BY <1>1, <1>2 DEF MainInv
<1>6. /\ nextRequest' \in 1 .. MaxCalls + 1 /\ ops + nextRequest' <= MaxCalls + 1
      /\ join_request' \in Requests
  <2>1. nextRequest >= 1 /\ nextRequest <= MaxCalls
    BY <1>1, <1>5 DEF MainTypes
  <2> QED BY <1>1, <1>2, <1>5, <2>1 DEF Requests
<1>7. MainTypes'
  BY <1>1, <1>2, <1>6 DEF MainTypes, game, Full
<1>8. MainInv'
  <2>1. joining' => join_request' = nextRequest' - 1
    <3>1. CASE Full
      BY <1>2, <1>5, <3>1
    <3>2. CASE ~Full
      BY <1>1, <1>2, <3>2
    <3> QED BY <3>1, <3>2
  <2> QED BY <1>1, <1>2, <1>3, <1>5, <1>6, <2>1 DEF MainInv, game
<1>9. clients' \subseteq 1 .. nextToken - 1 /\ ConnectsToOwnJoin'
  BY <1>1, <1>2, <1>5 DEF ConnectsToOwnJoin, game
<1> QED BY <1>4, <1>7, <1>8, <1>9, MainStep

(* What Friends_Frame and ClientsChange do to the slots, and what the      *)
(* frame leaves alone.                                                     *)
LEMMA FrameStep ==
    ASSUME FriendsInv, Main, main' \in {"idle", "frame", "quit"}, exiting' \in BOOLEAN,
           joining' \in BOOLEAN, connected' \in BOOLEAN, joining' => joining,
           status' = status \/ status' = published,
           server_adr' \in {0, server_adr, published.client_peer},
           clients' \subseteq 1 .. nextToken - 1, ConnectsToOwnJoin',
           QueueTypes', QueueInv',
           UNCHANGED <<private_game, join_request, serveractive, ops, nextRequest>>
    PROVE  FriendsInv'
<1>1. /\ MainTypes /\ WorkerTypes /\ MainInv /\ ServiceInv /\ Tokens
      /\ activeRequest \in Nat /\ nextToken \in Nat /\ MaxPeers \in Nat
  BY MainFacts, Bounds
<1>2. UNCHANGED <<activeRequest, nextToken>>
  BY DEF Main, workerVars
<1>3. server_adr' \in 0 .. MaxPeers /\ server_adr' < nextToken
  <2>1. server_adr \in 0 .. MaxPeers /\ server_adr < nextToken /\ published.client_peer \in 0 .. MaxPeers
    BY <1>1 DEF MainTypes, WorkerTypes, MainInv, StatusType
  <2>2. nextToken >= 1
    BY <1>1 DEF WorkerTypes
  <2>3. published.client_peer < nextToken
    <3>1. published.client_peer \in {0} \cup (1 .. nextToken - 1)
      BY <1>1 DEF ServiceInv, Tokens
    <3> QED BY <1>1, <2>2, <3>1
  <2>4. 0 \in 0 .. MaxPeers /\ 0 < nextToken
    BY <1>1, <2>2
  <2> QED BY <2>1, <2>3, <2>4
<1>4. status'.request <= activeRequest /\ status' \in StatusType
  BY <1>1 DEF MainInv, ServiceInv, MainTypes, WorkerTypes
<1>5. MainTypes'
  BY <1>1, <1>3, <1>4 DEF MainTypes
<1>6. MainInv'
  BY <1>1, <1>2, <1>3, <1>4 DEF MainInv
<1> QED BY <1>5, <1>6, MainStep

(* The queue is not touched.                                               *)
LEMMA QueueKept ==
    ASSUME FriendsInv, UNCHANGED <<commands, pending, work, activeRequest, nextRequest>>
    PROVE  QueueTypes' /\ QueueInv'
<1>1. QueueTypes /\ QueueInv
  BY MainFacts
<1>2. QueueTypes'
  BY <1>1 DEF QueueTypes
<1>3. QueueInv'
  BY <1>1 DEF QueueInv, InOrder
<1> QED BY <1>2, <1>3

(* Friends_Frame: a status of the last request is of the active request,   *)
(* and so is the peer the game connects to.                                *)
LEMMA FriendsFrameStep ==
    ASSUME FriendsInv, Main, Friends_Frame
    PROVE  FriendsInv'
<1>1. /\ MainTypes /\ WorkerTypes /\ MainInv /\ ServiceInv /\ QueueInv /\ ConnectsToOwnJoin
      /\ clients \subseteq 1 .. nextToken - 1
      /\ nextRequest \in Nat /\ activeRequest \in Nat
  BY MainFacts
<1>2. UNCHANGED <<work, activeRequest, nextToken, owner>>
  BY DEF Main, workerVars
<1>3. /\ main' = "idle" /\ clients' \subseteq 1 .. nextToken - 1 /\ exiting' \in BOOLEAN
      /\ UNCHANGED <<private_game, join_request, serveractive, ops, nextRequest>>
  BY <1>1 DEF Friends_Frame, MainTypes
<1>4. joining \in BOOLEAN /\ connected \in BOOLEAN
  BY <1>1 DEF MainTypes
<1>5. CASE JoinConnects
  <2>1. /\ joining /\ status.request = join_request
        /\ joining' = FALSE /\ connected' = TRUE
        /\ status' = published /\ server_adr' = published.client_peer
        /\ UNCHANGED <<commands, pending>>
    BY <1>5 DEF JoinConnects, JoinAnswered
  <2>2. activeRequest = join_request
    <3>1. status.request <= activeRequest /\ join_request = nextRequest - 1 /\ activeRequest < nextRequest
      BY <1>1, <2>1 DEF MainInv, QueueInv
    <3> QED BY <1>1, <2>1, <3>1
  <2>3. server_adr' # 0 => owner[server_adr'] = join_request
    <3>1. published.client_peer # 0 => published.client_peer \in service.peers
      BY <1>1 DEF ServiceInv, WorkerTypes, ServiceOK
    <3> QED BY <1>1, <2>1, <2>2, <3>1 DEF ServiceInv
  <2>4. ConnectsToOwnJoin'
    BY <1>2, <1>3, <2>3 DEF ConnectsToOwnJoin
  <2>5. QueueTypes' /\ QueueInv'
    BY <1>2, <1>3, <2>1, QueueKept
  <2> QED BY <1>3, <2>1, <2>4, <2>5, FrameStep
<1>6. CASE JoinFails \/ NoNews
  <2>1. /\ joining' = joining \/ joining' = FALSE
        /\ UNCHANGED <<connected, status, server_adr, commands, pending>>
    BY <1>6 DEF JoinFails, NoNews
  <2>2. ConnectsToOwnJoin'
    BY <1>1, <1>2, <1>3, <2>1 DEF ConnectsToOwnJoin
  <2>3. QueueTypes' /\ QueueInv'
    BY <1>2, <1>3, <2>1, QueueKept
  <2>4. joining' \in BOOLEAN /\ (joining' => joining)
    <3>1. CASE joining' = joining
      BY <1>4, <3>1
    <3>2. CASE joining' = FALSE
      BY <3>2
    <3> QED BY <2>1, <3>1, <3>2
  <2>5. connected' \in BOOLEAN
    BY <1>4, <2>1
  <2> QED BY <1>3, <2>1, <2>2, <2>3, <2>4, <2>5, FrameStep
<1>7. CASE LinkGone
  <2>1. /\ connected' = FALSE /\ Send(StopIf(joining)) /\ joining' = FALSE
        /\ server_adr' = 0 /\ UNCHANGED status
    BY <1>7 DEF LinkGone
  <2>2. ConnectsToOwnJoin'
    BY <2>1 DEF ConnectsToOwnJoin
  <2>3. PICK cs \in Seq(CommandType) : Send(cs) /\ \A i \in DOMAIN cs : ~IsStart(cs[i])
    BY <2>1, StopFacts
  <2>4. QueueTypes' /\ QueueInv'
    BY <1>2, <1>3, <2>3, NoStartStep
  <2> QED BY <1>3, <2>1, <2>2, <2>4, FrameStep
<1> QED BY <1>5, <1>6, <1>7 DEF Friends_Frame

(* Refresh, the slots of the game server, and the end.                     *)
LEMMA QuietMainStep ==
    ASSUME FriendsInv, Main, Refresh \/ ClientsChange
    PROVE  FriendsInv'
<1>1. /\ MainTypes /\ WorkerTypes /\ ServiceInv /\ Tokens /\ ConnectsToOwnJoin
      /\ clients \subseteq 1 .. nextToken - 1
  BY MainFacts
<1>2. UNCHANGED <<work, activeRequest, nextToken, owner>>
  BY DEF Main, workerVars
<1>3. /\ main' \in {"idle", "frame"} /\ status' \in {status, published}
      /\ UNCHANGED <<private_game, joining, connected, join_request, serveractive, server_adr,
                     ops, commands, nextRequest, exiting, pending>>
  BY DEF Refresh, ClientsChange, game
<1>4. clients' \subseteq 1 .. nextToken - 1
  BY <1>1 DEF Refresh, ClientsChange, game, Tokens
<1>5. QueueTypes' /\ QueueInv'
  BY <1>2, <1>3, QueueKept
<1>6. ConnectsToOwnJoin'
  BY <1>1, <1>2, <1>3 DEF ConnectsToOwnJoin
<1>7. joining' \in BOOLEAN /\ connected' \in BOOLEAN /\ exiting' \in BOOLEAN /\ (joining' => joining)
  BY <1>1, <1>3 DEF MainTypes
<1> QED BY <1>3, <1>4, <1>5, <1>6, <1>7, FrameStep

(* The end: the flag and the wakeup.                                       *)
LEMMA QuitStep ==
    ASSUME FriendsInv, Main, Quit
    PROVE  FriendsInv'
<1>1. /\ MainTypes /\ QueueTypes /\ QueueInv /\ ConnectsToOwnJoin
      /\ clients \subseteq 1 .. nextToken - 1
  BY MainFacts
<1>2. UNCHANGED <<work, activeRequest, nextToken, owner>>
  BY DEF Main, workerVars
<1>3. /\ main' = "quit" /\ exiting' = TRUE /\ pending' = TRUE
      /\ UNCHANGED <<private_game, joining, connected, join_request, status, serveractive,
                     server_adr, clients, ops, commands, nextRequest>>
  BY DEF Quit, NF_Shutdown, game
<1>4. QueueTypes' /\ QueueInv'
  BY <1>1, <1>2, <1>3 DEF QueueTypes, QueueInv, InOrder
<1>5. ConnectsToOwnJoin'
  BY <1>1, <1>2, <1>3 DEF ConnectsToOwnJoin
<1>6. joining' \in BOOLEAN /\ connected' \in BOOLEAN /\ exiting' \in BOOLEAN /\ (joining' => joining)
  BY <1>1, <1>3 DEF MainTypes
<1> QED BY <1>1, <1>3, <1>4, <1>5, <1>6, FrameStep

(* Every step of the main thread.                                          *)
LEMMA MainThreadStep ==
    ASSUME FriendsInv, Bridge \/ User
    PROVE  FriendsInv'
<1>1. Main
  BY DEF Bridge, User
<1>2. serveractive \in BOOLEAN /\ clients \subseteq 1 .. nextToken - 1 /\ nextToken \in Nat
  BY MainFacts DEF MainTypes
<1>3. CASE Disconnect
  <2>1. Host_EndGame /\ serveractive' \in BOOLEAN /\ main' = "idle"
    BY <1>3 DEF Disconnect
  <2> QED BY <1>1, <2>1, EndGameStep
<1>4. CASE SV_Map
  <2>1. Host_EndGame /\ serveractive' \in BOOLEAN /\ main' = "idle"
    BY <1>4 DEF SV_Map
  <2> QED BY <1>1, <2>1, EndGameStep
<1>5. CASE Join
  <2>1. Host_EndGame /\ serveractive' = FALSE /\ main' = "join" /\ ops + nextRequest <= MaxCalls
    BY <1>5 DEF Join, MayCall
  <2> QED BY <1>1, <2>1, EndGameStep
<1>6. CASE Friends_Accept
  <2>1. Send(<<Command("accept", 1)>>) /\ 1 \in Nat /\ clients' \subseteq clients
    BY <1>6 DEF Friends_Accept, game
  <2> QED BY <1>1, <1>6, <2>1, CallStep DEF Friends_Accept, game
<1>7. CASE Friends_Control
  <2>1. PICK kind \in {"accept", "rotate"} : Send(<<Command(kind, 0)>>)
    BY <1>7 DEF Friends_Control
  <2>2. kind \in {"stop", "accept", "rotate", "drop"} /\ 0 \in Nat /\ clients' \subseteq clients
    BY <1>7 DEF Friends_Control, game
  <2> QED BY <1>1, <1>7, <2>1, <2>2, CallStep DEF Friends_Control, game
<1>8. CASE RemoveGuest
  <2>1. PICK p \in clients : Send(<<Command("drop", p)>>) /\ clients' = clients \ {p}
    BY <1>8 DEF RemoveGuest
  <2>2. p \in Nat /\ clients' \subseteq clients
    BY <1>2, <2>1
  <2> QED BY <1>1, <1>8, <2>1, <2>2, CallStep DEF RemoveGuest
<1> QED
  BY <1>1, <1>3, <1>4, <1>5, <1>6, <1>7, <1>8, HostStep, JoinStep, FriendsFrameStep,
     QuietMainStep, QuitStep
  DEF Bridge, User

-----------------------------------------------------------------------------
(* The worker                                                              *)

(* Intervals with the same beginning.                                      *)
LEMMA Interval ==
    ASSUME NEW a \in Nat, NEW b \in Nat, a <= b
    PROVE  /\ \A p \in 1 .. a - 1 : p \in 1 .. b - 1
           /\ \A p \in 1 .. a : p \in 1 .. b
OBVIOUS

(* It leaves the main thread alone, its requests and its peers only grow   *)
(* in number, and a peer stays with the request it was created for.        *)
LEMMA WorkerStep ==
    ASSUME FriendsInv, Background, QueueTypes', WorkerTypes', QueueInv', ServiceInv',
           service'.peers \subseteq 1 .. nextToken' - 1,
           activeRequest <= activeRequest', nextToken <= nextToken',
           \A p \in 1 .. nextToken - 1 : owner'[p] = owner[p]
    PROVE  FriendsInv'
<1>1. /\ MainTypes /\ clients \subseteq Peers /\ MainInv /\ ConnectsToOwnJoin
      /\ clients \subseteq 1 .. nextToken - 1
      /\ nextToken \in Nat /\ activeRequest \in Nat /\ server_adr \in Nat
  BY MainFacts
<1>2. /\ UNCHANGED <<main, private_game, joining, connected, join_request, status, serveractive,
                     server_adr, clients, ops, nextRequest, exiting>>
  BY DEF Background, mainVars, game
<1>3. nextToken' \in Nat /\ activeRequest' \in Nat /\ status.request \in Nat
  BY <1>1, Bounds DEF WorkerTypes, MainTypes, StatusType
<1>4. MainTypes'
  BY <1>1, <1>2 DEF MainTypes
<1>5. MainInv'
  <2>1. status'.request <= activeRequest'
    BY <1>1, <1>2, <1>3 DEF MainInv
  <2>2. server_adr' < nextToken'
    BY <1>1, <1>2, <1>3 DEF MainInv
  <2> QED BY <1>1, <1>2, <2>1, <2>2 DEF MainInv
<1>6. Tokens'
  <2>1. \A p \in 1 .. nextToken - 1 : p \in 1 .. nextToken' - 1
    BY <1>1, <1>3, Interval
  <2>2. clients' \subseteq 1 .. nextToken' - 1
    BY <1>1, <1>2, <2>1
  <2>3. live' \subseteq service'.peers
    BY DEF ServiceInv, WorkerTypes, ServiceOK
  <2> QED BY <2>2, <2>3 DEF Tokens
<1>7. ConnectsToOwnJoin'
  <2>1. CASE server_adr = 0
    BY <1>2, <2>1 DEF ConnectsToOwnJoin
  <2>2. CASE server_adr # 0
    <3>1. server_adr \in 1 .. nextToken - 1
      BY <1>1, <2>2 DEF MainInv
    <3> QED BY <1>1, <1>2, <2>2, <3>1 DEF ConnectsToOwnJoin
  <2> QED BY <2>1, <2>2
<1>8. TypeOK'
  <2>1. \A p \in 1 .. nextToken' - 1 : p \in Peers
    <3>1. nextToken' <= MaxPeers + 1 /\ MaxPeers + 1 \in Nat
      BY <1>3, Bounds DEF WorkerTypes
    <3>2. \A p \in 1 .. nextToken' - 1 : p \in 1 .. (MaxPeers + 1) - 1
      BY <1>3, <3>1, Interval
    <3>3. (MaxPeers + 1) - 1 = MaxPeers
      BY Bounds
    <3> QED BY <3>2, <3>3 DEF Peers
  <2>2. clients' \subseteq Peers
    BY <1>6, <2>1 DEF Tokens
  <2> QED BY <1>4, <1>6, <2>2 DEF TypeOK, MainTypes, QueueTypes, WorkerTypes, Tokens, ServiceOK
<1> QED BY <1>5, <1>7, <1>8 DEF FriendsInv, WorkerInv

(* What is known of the worker.                                            *)
LEMMA WorkerFacts ==
    ASSUME FriendsInv
    PROVE  /\ QueueTypes /\ QueueInv /\ ServiceInv /\ ServiceOK(service)
           /\ published \in StatusType /\ work \in Seq(CommandType) /\ activeRequest \in Requests
           /\ late \in BOOLEAN /\ pending \in BOOLEAN /\ commands \in Seq(CommandType)
           /\ nextToken \in 1 .. MaxPeers + 1 /\ nextToken \in Nat
           /\ owner \in [Peers -> Requests]
           /\ service.peers \subseteq 1 .. nextToken - 1
           /\ activeRequest \in Nat
BY MainFacts DEF WorkerTypes, QueueTypes, Tokens

(* What others see of a service s whose request is r.                      *)
Shown(s, r) ==
    /\ service' = s /\ live' = s.admitted
    /\ published' \in StatusType /\ published'.request = r
    /\ published'.client_peer \in {0} \cup s.admitted

(* A service with fewer peers is one.                                      *)
LEMMA FewerPeers ==
    ASSUME NEW s, NEW t, ServiceOK(s), t \in ServiceType, t.admitted \subseteq t.peers,
           t.peers \subseteq s.peers, t.host = s.host \/ t.peers = {}
    PROVE  ServiceOK(t)
<1>1. s.peers \subseteq 1 .. MaxPeers /\ MaxPeers \in Nat
  BY Bounds DEF ServiceOK, ServiceType, Peers
<1>2. IsFiniteSet(s.peers)
  <2>1. IsFiniteSet(1 .. MaxPeers)
    BY <1>1, FS_Interval
  <2> QED BY <1>1, <2>1, FS_Subset
<1>3. Cardinality(t.peers) \in Nat /\ Cardinality(s.peers) \in Nat
      /\ Cardinality(t.peers) <= Cardinality(s.peers)
  <2>1. IsFiniteSet(t.peers) /\ Cardinality(t.peers) <= Cardinality(s.peers)
    BY <1>2, FS_Subset
  <2> QED BY <1>2, <2>1, FS_CardinalityType
<1>4. CASE t.peers = {}
  BY <1>4, FS_EmptySet DEF ServiceOK
<1>5. CASE t.host = s.host
  BY <1>3, <1>5 DEF ServiceOK
<1> QED BY <1>4, <1>5

(* publish() shows the service under the request of now.                   *)
LEMMA PublishFacts ==
    ASSUME FriendsInv, NEW s, s \in ServiceType, Publish(s)
    PROVE  Shown(s, activeRequest)
<1>1. activeRequest \in Requests /\ MaxPeers \in Nat
  BY WorkerFacts, Bounds
<1>2. PICK peer : /\ peer = (IF s.host \/ s.admitted = {} THEN 0
                             ELSE CHOOSE p \in s.admitted : TRUE)
                  /\ peer \in {0} \cup s.admitted
  OBVIOUS
<1>3. peer \in 0 .. MaxPeers
  <2>1. s.admitted \subseteq 1 .. MaxPeers
    BY DEF ServiceType, Peers
  <2> QED BY <1>1, <1>2, <2>1
<1>4. PICK mode \in 0 .. 2 : mode = IF ~s.active THEN 0 ELSE IF s.host THEN 1 ELSE 2
  OBVIOUS
<1>5. PICK ready \in BOOLEAN : ready = (s.brokerAlive /\ s.announced)
  OBVIOUS
<1>6. published' = [mode |-> mode, request |-> activeRequest, ready |-> ready, client_peer |-> peer]
  BY <1>2, <1>4, <1>5 DEF Publish
<1>7. published' \in StatusType
  BY <1>1, <1>3, <1>6 DEF StatusType
<1> QED BY <1>2, <1>6, <1>7 DEF Shown, Publish

(* reset() leaves a service without peers.                                 *)
LEMMA ResetFacts ==
    ASSUME FriendsInv, NEW r \in Requests, Reset(r)
    PROVE  Shown(Cleared, r) /\ ServiceOK(Cleared) /\ Cleared.peers = {}
<1>1. service \in ServiceType /\ ServiceOK(service) /\ MaxPeers \in Nat
  BY WorkerFacts, Bounds DEF ServiceOK
<1>2. Cleared \in ServiceType /\ Cleared.peers = {} /\ Cleared.admitted = {}
  BY <1>1 DEF ServiceType, Cleared
<1>3. ServiceOK(Cleared)
  BY <1>1, <1>2, FewerPeers
<1>4. Stopped(r) \in StatusType /\ Stopped(r).request = r /\ Stopped(r).client_peer = 0
  <2>1. 0 \in 0 .. 2 /\ 0 \in 0 .. MaxPeers
    BY <1>1
  <2> QED BY <2>1 DEF Stopped, StatusType
<1>5. Shown(Cleared, r)
  BY <1>2, <1>4 DEF Reset, Shown
<1> QED BY <1>2, <1>3, <1>5

(* A step that shows a service whose peers are those of the request.       *)
LEMMA ShownStep ==
    ASSUME FriendsInv, Background, NEW s, ServiceOK(s), Shown(s, activeRequest'),
           s.peers \subseteq 1 .. nextToken' - 1,
           \A p \in s.peers : owner'[p] = activeRequest',
           activeRequest' \in Requests, activeRequest <= activeRequest',
           nextToken' \in 1 .. MaxPeers + 1, nextToken <= nextToken',
           owner' \in [Peers -> Requests], \A p \in 1 .. nextToken - 1 : owner'[p] = owner[p],
           pc' \in {"take", "execute", "start", "open", "wait", "stopped"},
           late' \in BOOLEAN, pending' \in BOOLEAN,
           UNCHANGED commands, work' \in Seq(CommandType), QueueInv',
           pc' \in {"take", "wait", "stopped"} => work' = <<>>,
           pc' \in {"start", "open"} => work' # <<>>,
           pc' = "start" => s.peers = {}
    PROVE  FriendsInv'
<1>1. QueueTypes'
  BY WorkerFacts DEF QueueTypes
<1>2. WorkerTypes'
  BY DEF WorkerTypes, Shown
<1>3. ServiceInv'
  BY DEF ServiceInv, Shown
<1>4. service'.peers \subseteq 1 .. nextToken' - 1
  BY DEF Shown
<1> QED BY <1>1, <1>2, <1>3, <1>4, WorkerStep

(* The same, for a request that goes on without a new peer.                *)
LEMMA KeepStep ==
    ASSUME FriendsInv, Background, NEW s, ServiceOK(s), Shown(s, activeRequest),
           s.peers \subseteq service.peers,
           UNCHANGED <<commands, activeRequest, nextToken, owner>>,
           work' = work \/ work' = <<>> \/ (work # <<>> /\ work' = Tail(work)),
           pc' \in {"take", "execute", "open", "wait", "stopped"},
           late' \in BOOLEAN, pending' \in BOOLEAN,
           pc' \in {"take", "wait", "stopped"} => work' = <<>>,
           pc' = "open" => work' # <<>>
    PROVE  FriendsInv'
<1>1. /\ QueueInv /\ ServiceInv /\ work \in Seq(CommandType) /\ activeRequest \in Requests
      /\ nextToken \in 1 .. MaxPeers + 1 /\ owner \in [Peers -> Requests]
      /\ service.peers \subseteq 1 .. nextToken - 1 /\ activeRequest \in Nat /\ nextToken \in Nat
  BY WorkerFacts
<1>2. UNCHANGED nextRequest
  BY DEF Background
<1>3. QueueInv' /\ work' \in Seq(CommandType)
  BY <1>1, <1>2, WorkStep
<1>4. \A p \in s.peers : owner'[p] = activeRequest'
  BY <1>1 DEF ServiceInv
<1>5. activeRequest <= activeRequest' /\ nextToken <= nextToken'
  BY <1>1
<1> QED BY <1>1, <1>3, <1>4, <1>5, ShownStep

(* The parts of a service.                                                 *)
LEMMA ServiceParts ==
    ASSUME NEW s, s \in ServiceType
    PROVE  /\ s.host \in BOOLEAN /\ s.active \in BOOLEAN /\ s.announced \in BOOLEAN
           /\ s.accepting \in BOOLEAN /\ s.brokerAlive \in BOOLEAN
           /\ s.peers \subseteq Peers /\ s.admitted \subseteq Peers
BY DEF ServiceType

(* An exception loses the batch and the service.                           *)
LEMMA ThrowStep ==
    ASSUME FriendsInv, Background, Throw
    PROVE  FriendsInv'
<1>1. activeRequest \in Requests /\ late \in BOOLEAN /\ pending \in BOOLEAN
  BY WorkerFacts
<1>2. /\ Reset(activeRequest) /\ work' = <<>> /\ pc' = "wait"
      /\ UNCHANGED <<commands, activeRequest, late, nextToken, owner>>
  BY DEF Throw
<1>3. UNCHANGED pending
  BY <1>2 DEF Reset
<1>4. Shown(Cleared, activeRequest) /\ ServiceOK(Cleared) /\ Cleared.peers \subseteq service.peers
  BY <1>1, <1>2, ResetFacts
<1> QED BY <1>1, <1>2, <1>3, <1>4, KeepStep

(* The batch is taken when the one before has been executed.               *)
LEMMA TakeStep ==
    ASSUME FriendsInv, Background, Take
    PROVE  FriendsInv'
<1>1. /\ QueueTypes /\ QueueInv /\ ServiceInv /\ WorkerTypes /\ commands \in Seq(CommandType)
      /\ service.peers \subseteq 1 .. nextToken - 1 /\ activeRequest \in Nat /\ nextToken \in Nat
      /\ MaxCommands \in Nat
  BY WorkerFacts, MainFacts, Bounds
<1>2. /\ pc = "take" /\ work' = commands /\ commands' = <<>> /\ pc' = "execute"
      /\ UNCHANGED <<pending, published, live, activeRequest, service, late, nextToken, owner,
                     nextRequest>>
  BY DEF Take, Background
<1>3. <<>> \in Seq(CommandType) /\ Len(<<>>) = 0 /\ DOMAIN <<>> = {}
  OBVIOUS
<1>4. QueueTypes'
  BY <1>1, <1>2, <1>3 DEF QueueTypes
<1>5. WorkerTypes'
  BY <1>1, <1>2 DEF WorkerTypes
<1>6. QueueInv'
  <2>1. InOrder(work', activeRequest', nextRequest') /\ InOrder(commands', activeRequest', nextRequest')
    BY <1>1, <1>2, <1>3 DEF QueueInv, InOrder
  <2> QED BY <1>1, <1>2, <1>3, <2>1 DEF QueueInv
<1>7. ServiceInv'
  BY <1>1, <1>2 DEF ServiceInv
<1>8. /\ service'.peers \subseteq 1 .. nextToken' - 1
      /\ activeRequest <= activeRequest' /\ nextToken <= nextToken'
      /\ \A p \in 1 .. nextToken - 1 : owner'[p] = owner[p]
  BY <1>1, <1>2
<1> QED BY <1>4, <1>5, <1>6, <1>7, <1>8, WorkerStep

(* A step of the worker that shows nothing new.                            *)
LEMMA SilentStep ==
    ASSUME FriendsInv, Background,
           UNCHANGED <<commands, published, live, work, activeRequest, service, nextToken, owner>>,
           pending' \in BOOLEAN, late' \in BOOLEAN,
           pc' = pc \/ (pc' = "take" /\ work = <<>>)
    PROVE  FriendsInv'
<1>1. /\ QueueTypes /\ QueueInv /\ ServiceInv /\ WorkerTypes
      /\ service.peers \subseteq 1 .. nextToken - 1 /\ activeRequest \in Nat /\ nextToken \in Nat
  BY WorkerFacts, MainFacts
<1>2. UNCHANGED nextRequest
  BY DEF Background
<1>3. QueueTypes'
  BY <1>1 DEF QueueTypes
<1>4. WorkerTypes'
  BY <1>1 DEF WorkerTypes
<1>5. QueueInv'
  BY <1>1, <1>2 DEF QueueInv, InOrder
<1>6. ServiceInv'
  BY <1>1 DEF ServiceInv
<1>7. /\ service'.peers \subseteq 1 .. nextToken' - 1
      /\ activeRequest <= activeRequest' /\ nextToken <= nextToken'
      /\ \A p \in 1 .. nextToken - 1 : owner'[p] = owner[p]
  BY <1>1
<1> QED BY <1>3, <1>4, <1>5, <1>6, <1>7, WorkerStep

(* The end of the loop.                                                    *)
LEMMA ExitStep ==
    ASSUME FriendsInv, Background, Exit
    PROVE  FriendsInv'
<1>1. activeRequest \in Requests /\ late \in BOOLEAN /\ pending \in BOOLEAN /\ ServiceInv
  BY WorkerFacts
<1>2. /\ pc = "take" /\ Reset(activeRequest) /\ pc' = "stopped"
      /\ UNCHANGED <<commands, work, activeRequest, late, nextToken, owner>>
  BY DEF Exit
<1>3. UNCHANGED pending /\ work = <<>>
  BY <1>1, <1>2 DEF Reset, ServiceInv
<1>4. Shown(Cleared, activeRequest) /\ ServiceOK(Cleared) /\ Cleared.peers \subseteq service.peers
  BY <1>1, <1>2, ResetFacts
<1> QED BY <1>1, <1>2, <1>3, <1>4, KeepStep

(* A start is of a later request than all before, and leaves no peer.      *)
LEMMA ExecuteStartStep ==
    ASSUME FriendsInv, Background, ExecuteStart
    PROVE  FriendsInv'
<1>1. /\ MainTypes /\ QueueInv /\ work \in Seq(CommandType) /\ commands \in Seq(CommandType)
      /\ late \in BOOLEAN /\ pending \in BOOLEAN
      /\ nextToken \in 1 .. MaxPeers + 1 /\ nextToken \in Nat /\ owner \in [Peers -> Requests]
      /\ activeRequest \in Nat /\ nextRequest \in Nat /\ MaxCalls \in Nat
  BY WorkerFacts, MainFacts
<1>2. /\ work # <<>> /\ Head(work).kind \in {"host", "join"}
      /\ activeRequest' = Head(work).value /\ Reset(activeRequest') /\ pc' = "start"
      /\ UNCHANGED <<commands, work, late, nextToken, owner, nextRequest>>
  BY DEF ExecuteStart, Executing, Background
<1>3. PICK r : r = Head(work).value
  OBVIOUS
<1>4. 1 \in DOMAIN work /\ work[1] = Head(work) /\ r \in Nat /\ IsStart(work[1]) /\ work[1].value = r
  <2>1. 1 \in DOMAIN work /\ Head(work) = work[1] /\ Head(work) \in CommandType
    BY <1>1, <1>2, TailInOrder DEF QueueInv
  <2> QED BY <1>2, <1>3, <2>1 DEF CommandType, IsStart
<1>5. activeRequest <= r /\ r < nextRequest
  BY <1>1, <1>4 DEF QueueInv, InOrder
<1>6. r \in Requests
  BY <1>1, <1>4, <1>5 DEF MainTypes, Requests
<1>7. \A i \in DOMAIN work : i = 1 \/ 1 < i
  BY <1>1
<1>8. \A i \in DOMAIN work : IsStart(work[i]) => r <= work[i].value
  BY <1>1, <1>4, <1>7 DEF QueueInv, InOrder
<1>9. \A j \in DOMAIN commands : IsStart(commands[j]) => r <= commands[j].value
  BY <1>1, <1>4 DEF QueueInv
<1>10. InOrder(work, r, nextRequest) /\ InOrder(commands, r, nextRequest)
  BY <1>1, <1>8, <1>9 DEF QueueInv, InOrder
<1>11. QueueInv'
  BY <1>1, <1>2, <1>3, <1>5, <1>10 DEF QueueInv
<1>12. Shown(Cleared, r) /\ ServiceOK(Cleared) /\ Cleared.peers = {}
  BY <1>2, <1>3, <1>6, ResetFacts
<1>13. UNCHANGED pending
  BY <1>2 DEF Reset
<1>14. /\ Shown(Cleared, activeRequest') /\ Cleared.peers \subseteq 1 .. nextToken' - 1
       /\ activeRequest' \in Requests /\ activeRequest <= activeRequest' /\ nextToken <= nextToken'
       /\ \A p \in Cleared.peers : owner'[p] = activeRequest'
       /\ \A p \in 1 .. nextToken - 1 : owner'[p] = owner[p]
  BY <1>1, <1>2, <1>3, <1>5, <1>6, <1>12
<1> QED BY <1>1, <1>2, <1>11, <1>12, <1>13, <1>14, ShownStep

(* The new service has no peer yet.                                        *)
LEMMA StartServiceStep ==
    ASSUME FriendsInv, Background, Start
    PROVE  FriendsInv'
<1>1. /\ ServiceInv /\ ServiceOK(service) /\ service \in ServiceType /\ pending \in BOOLEAN
  BY WorkerFacts DEF ServiceOK
<1>2. PICK hosting \in BOOLEAN : hosting = (Head(work).kind = "host")
  OBVIOUS
<1>3. PICK s : s = [service EXCEPT !.host = hosting, !.active = TRUE, !.accepting = hosting]
  OBVIOUS
<1>4. /\ pc = "start" /\ Publish(s) /\ late' = FALSE /\ pc' = "open"
      /\ UNCHANGED <<commands, pending, work, activeRequest, nextToken, owner>>
  BY <1>2, <1>3 DEF Start
<1>5. service.peers = {} /\ work # <<>>
  BY <1>1, <1>4 DEF ServiceInv
<1>6. s \in ServiceType /\ s.peers = service.peers /\ s.admitted = service.admitted
  BY <1>1, <1>3 DEF ServiceType
<1>7. ServiceOK(s)
  BY <1>1, <1>5, <1>6, FewerPeers DEF ServiceOK
<1>8. Shown(s, activeRequest)
  BY <1>4, <1>6, PublishFacts
<1> QED BY <1>1, <1>4, <1>5, <1>6, <1>7, <1>8, KeepStep

(* A service that keeps its kind and its peers.                            *)
SameService(s) ==
    /\ s \in ServiceType /\ s.host = service.host
    /\ s.peers \subseteq service.peers /\ s.admitted \subseteq s.peers

(* The opening of the broker connection.                                   *)
LEMMA OpenStep ==
    ASSUME FriendsInv, Background, Open
    PROVE  FriendsInv'
<1>1. /\ ServiceInv /\ ServiceOK(service) /\ service \in ServiceType
      /\ pending \in BOOLEAN /\ late \in BOOLEAN
  BY WorkerFacts DEF ServiceOK
<1>2. CASE Throw
  BY <1>2, ThrowStep
<1>3. CASE /\ Publish([service EXCEPT !.brokerAlive = TRUE])
           /\ work' = Tail(work) /\ pc' = "execute"
           /\ UNCHANGED <<commands, pending, activeRequest, late, nextToken, owner>>
  <2>1. PICK s : s = [service EXCEPT !.brokerAlive = TRUE]
    OBVIOUS
  <2>2. /\ s \in ServiceType /\ s.peers = service.peers /\ s.admitted = service.admitted
        /\ s.host = service.host
    BY <1>1, <2>1 DEF ServiceType
  <2>3. ServiceOK(s)
    BY <1>1, <2>2, FewerPeers DEF ServiceOK
  <2>4. Shown(s, activeRequest)
    BY <1>3, <2>1, <2>2, PublishFacts
  <2>5. work # <<>>
    BY <1>1 DEF ServiceInv, Open
  <2> QED BY <1>1, <1>3, <2>2, <2>3, <2>4, <2>5, KeepStep
<1> QED BY <1>2, <1>3 DEF Open

(* ... is one.                                                             *)
LEMMA SameServiceOK ==
    ASSUME FriendsInv, NEW s, SameService(s)
    PROVE  ServiceOK(s) /\ s.peers \subseteq service.peers /\ s \in ServiceType
BY WorkerFacts, FewerPeers DEF SameService

(* The commands that take one step.                                        *)
LEMMA ExecuteStep ==
    ASSUME FriendsInv, Background, Execute
    PROVE  FriendsInv'
<1>1. /\ ServiceInv /\ ServiceOK(service) /\ service \in ServiceType /\ activeRequest \in Requests
      /\ pending \in BOOLEAN /\ late \in BOOLEAN /\ service.admitted \subseteq service.peers
  BY WorkerFacts DEF ServiceOK
<1>2. /\ pc = "execute" /\ work # <<>> /\ work' = Tail(work)
      /\ UNCHANGED <<commands, pc, activeRequest, late, nextToken, owner>>
  BY DEF Execute, ExecuteStop, ExecuteAccept, ExecuteDrop, Rotated, Executing
<1>3. CASE ExecuteStop
  <2>1. Reset(activeRequest) /\ UNCHANGED pending
    BY <1>3 DEF ExecuteStop, Reset
  <2>2. Shown(Cleared, activeRequest) /\ ServiceOK(Cleared) /\ Cleared.peers \subseteq service.peers
    BY <1>1, <2>1, ResetFacts
  <2> QED BY <1>1, <1>2, <2>1, <2>2, KeepStep
<1>4. ASSUME NEW s, SameService(s), Publish(s), UNCHANGED pending PROVE FriendsInv'
  <2>1. ServiceOK(s) /\ s.peers \subseteq service.peers /\ s \in ServiceType
    BY <1>4, SameServiceOK
  <2>2. Shown(s, activeRequest)
    BY <1>4, <2>1, PublishFacts
  <2> QED BY <1>1, <1>2, <1>4, <2>1, <2>2, KeepStep
<1>5. SameService(service)
  BY <1>1 DEF SameService
<1>6. CASE ExecuteAccept
  <2>1. PICK open \in BOOLEAN : open = (Head(work).value = 1)
    OBVIOUS
  <2>2. PICK s : s = [service EXCEPT !.accepting = open]
    OBVIOUS
  <2>3. SameService(s)
    BY <1>1, <2>2 DEF SameService, ServiceType
  <2>4. UNCHANGED pending /\ (Publish(s) \/ Publish(service))
    BY <1>6, <2>1, <2>2 DEF ExecuteAccept
  <2> QED BY <1>4, <1>5, <2>3, <2>4
<1>7. CASE ExecuteDrop
  <2>1. PICK s : s = [service EXCEPT !.peers = @ \ {Head(work).value},
                                     !.admitted = @ \ {Head(work).value}]
    OBVIOUS
  <2>2. SameService(s)
    BY <1>1, <2>1 DEF SameService, ServiceType
  <2> QED BY <1>4, <1>7, <2>1, <2>2 DEF ExecuteDrop
<1>8. CASE Rotated
  BY <1>4, <1>5, <1>8 DEF Rotated
<1> QED BY <1>3, <1>6, <1>7, <1>8 DEF Execute

(* A new peer is of the request that is active.                            *)
LEMMA NewPeerStep ==
    ASSUME FriendsInv, Background, NewPeer, work = <<>>, pc' = "wait",
           UNCHANGED <<commands, pending, work, activeRequest, late>>
    PROVE  FriendsInv'
<1>1. /\ QueueInv /\ ServiceInv /\ ServiceOK(service) /\ service \in ServiceType
      /\ work \in Seq(CommandType) /\ activeRequest \in Requests
      /\ late \in BOOLEAN /\ pending \in BOOLEAN
      /\ nextToken \in 1 .. MaxPeers + 1 /\ nextToken \in Nat /\ owner \in [Peers -> Requests]
      /\ service.peers \subseteq 1 .. nextToken - 1 /\ activeRequest \in Nat /\ MaxPeers \in Nat
      /\ service.admitted \subseteq service.peers
  BY WorkerFacts, Bounds DEF ServiceOK
<1>2. PICK s : s = [service EXCEPT !.peers = @ \cup {nextToken}]
  OBVIOUS
<1>3. /\ nextToken <= MaxPeers /\ Publish(s) /\ (~service.host => service.peers = {})
      /\ nextToken' = nextToken + 1 /\ owner' = [owner EXCEPT ![nextToken] = activeRequest]
  BY <1>2 DEF NewPeer
<1>4. nextToken \in Peers
  BY <1>1, <1>3 DEF Peers
<1>5. /\ s \in ServiceType /\ s.host = service.host /\ s.peers = service.peers \cup {nextToken}
      /\ s.admitted = service.admitted
  BY <1>1, <1>2, <1>4 DEF ServiceType
<1>6. ServiceOK(s)
  <2>1. ~s.host => Cardinality(s.peers) <= 1
    <3>1. ~s.host => s.peers = {nextToken}
      BY <1>3, <1>5
    <3>2. Cardinality({nextToken}) = 1
      BY FS_Singleton
    <3> QED BY <3>1, <3>2
  <2> QED BY <1>1, <1>5, <2>1 DEF ServiceOK
<1>7. Shown(s, activeRequest)
  BY <1>3, <1>5, PublishFacts
<1>8. nextToken' \in 1 .. MaxPeers + 1 /\ nextToken <= nextToken' /\ nextToken' \in Nat
  BY <1>1, <1>3
<1>9. s.peers \subseteq 1 .. nextToken' - 1
  <2>1. \A p \in 1 .. nextToken - 1 : p \in 1 .. nextToken' - 1
    BY <1>1, <1>8, Interval
  <2>2. nextToken \in 1 .. nextToken' - 1
    BY <1>1, <1>3
  <2> QED BY <1>1, <1>5, <2>1, <2>2
<1>10. /\ owner' \in [Peers -> Requests] /\ owner'[nextToken] = activeRequest
       /\ \A p \in Peers : p # nextToken => owner'[p] = owner[p]
  BY <1>1, <1>3, <1>4
<1>11. \A p \in 1 .. nextToken - 1 : p \in Peers /\ p # nextToken
  <2>1. \A p \in 1 .. nextToken - 1 : p # nextToken
    BY <1>1
  <2>2. \A p \in 1 .. nextToken - 1 : p \in 1 .. (MaxPeers + 1) - 1
    BY <1>1, <1>3, Interval
  <2>3. (MaxPeers + 1) - 1 = MaxPeers
    BY <1>1
  <2> QED BY <2>1, <2>2, <2>3 DEF Peers
<1>12. \A p \in 1 .. nextToken - 1 : owner'[p] = owner[p]
  BY <1>10, <1>11
<1>13. \A p \in s.peers : owner'[p] = activeRequest
  <2>1. \A p \in service.peers : owner'[p] = owner[p] /\ owner[p] = activeRequest
    BY <1>1, <1>12 DEF ServiceInv
  <2> QED BY <1>5, <1>10, <2>1
<1>14. QueueInv'
  <2>1. UNCHANGED nextRequest
    BY DEF Background
  <2> QED BY <1>1, <2>1 DEF QueueInv, InOrder
<1>15. activeRequest <= activeRequest'
  BY <1>1
<1> QED BY <1>1, <1>6, <1>7, <1>8, <1>9, <1>10, <1>12, <1>13, <1>14, <1>15, ShownStep

(* What happens to the broker connection and to the peers.                 *)
LEMMA TickStep ==
    ASSUME FriendsInv, Background, Tick
    PROVE  FriendsInv'
<1>1. /\ ServiceInv /\ ServiceOK(service) /\ service \in ServiceType
      /\ pending \in BOOLEAN /\ late \in BOOLEAN /\ service.admitted \subseteq service.peers
  BY WorkerFacts DEF ServiceOK
<1>2. /\ work = <<>> /\ pc' = "wait"
      /\ UNCHANGED <<commands, pending, work, activeRequest, late>>
  BY DEF Tick, Looping
<1>3. CASE NewPeer
  BY <1>2, <1>3, NewPeerStep
<1>4. ASSUME NEW s, SameService(s), Publish(s), UNCHANGED <<nextToken, owner>> PROVE FriendsInv'
  <2>1. ServiceOK(s) /\ s.peers \subseteq service.peers /\ s \in ServiceType
    BY <1>4, SameServiceOK
  <2>2. Shown(s, activeRequest)
    BY <1>4, <2>1, PublishFacts
  <2> QED BY <1>1, <1>2, <1>4, <2>1, <2>2, KeepStep
<1>5. CASE Greeting
  <2>1. PICK s : s = [service EXCEPT !.announced = TRUE]
    OBVIOUS
  <2>2. SameService(s)
    BY <1>1, <2>1 DEF SameService, ServiceType
  <2> QED BY <1>4, <1>5, <2>1, <2>2 DEF Greeting
<1>6. CASE BrokerFails
  <2>1. PICK s : s = [service EXCEPT !.brokerAlive = FALSE, !.accepting = FALSE]
    OBVIOUS
  <2>2. SameService(s)
    BY <1>1, <2>1 DEF SameService, ServiceType
  <2> QED BY <1>4, <1>6, <2>1, <2>2 DEF BrokerFails
<1>7. CASE Admit
  <2>1. PICK p \in service.peers \ service.admitted :
           /\ Publish([service EXCEPT !.admitted = @ \cup {p}, !.announced = @ \/ ~service.host])
           /\ UNCHANGED <<nextToken, owner>>
    BY <1>7 DEF Admit
  <2>2. PICK announced \in BOOLEAN : announced = (service.announced \/ ~service.host)
    OBVIOUS
  <2>3. PICK s : s = [service EXCEPT !.admitted = @ \cup {p}, !.announced = announced]
    OBVIOUS
  <2>4. Publish(s)
    BY <2>1, <2>2, <2>3
  <2>5. SameService(s)
    BY <1>1, <2>1, <2>3 DEF SameService, ServiceType
  <2> QED BY <1>4, <2>1, <2>4, <2>5
<1>8. CASE PeerGone
  <2>1. PICK p \in service.peers :
           /\ Publish([service EXCEPT !.peers = @ \ {p}, !.admitted = @ \ {p}])
           /\ UNCHANGED <<nextToken, owner>>
    BY <1>8 DEF PeerGone
  <2>2. PICK s : s = [service EXCEPT !.peers = @ \ {p}, !.admitted = @ \ {p}]
    OBVIOUS
  <2>3. SameService(s)
    BY <1>1, <2>2 DEF SameService, ServiceType
  <2> QED BY <1>4, <2>1, <2>2, <2>3
<1>9. CASE Quiet
  <2>1. SameService(service)
    BY <1>1 DEF SameService
  <2> QED BY <1>4, <1>9, <2>1 DEF Quiet
<1> QED BY <1>3, <1>5, <1>6, <1>7, <1>8, <1>9 DEF Tick

(* Every step of the worker, and the clock.                                *)
LEMMA BackgroundStep ==
    ASSUME FriendsInv, Worker \/ Clock
    PROVE  FriendsInv'
<1>1. Background
  BY DEF Worker, Clock
<1>2. pending \in BOOLEAN /\ late \in BOOLEAN /\ ServiceInv
  BY WorkerFacts
<1>3. CASE RotateFails \/ JoinTimeout
  BY <1>1, <1>3, ThrowStep DEF RotateFails, JoinTimeout
<1>4. CASE Wait
  <2>1. /\ work = <<>> /\ pc' = "take" /\ pending' = FALSE
        /\ UNCHANGED <<commands, published, live, work, activeRequest, service, late,
                       nextToken, owner>>
    BY <1>2, <1>4 DEF Wait, ServiceInv
  <2> QED BY <1>1, <1>2, <2>1, SilentStep
<1>5. CASE Clock
  <2>1. /\ late' = TRUE
        /\ UNCHANGED <<commands, pending, published, live, pc, work, activeRequest, service,
                       nextToken, owner>>
    BY <1>5 DEF Clock, SixtySeconds
  <2> QED BY <1>1, <1>2, <2>1, SilentStep
<1> QED
  BY <1>1, <1>3, <1>4, <1>5, TakeStep, ExitStep, ExecuteStartStep, StartServiceStep, OpenStep,
     ExecuteStep, TickStep
  DEF Worker

-----------------------------------------------------------------------------
(* A step in which nothing happens.                                        *)
LEMMA Stutter ==
    ASSUME FriendsInv, UNCHANGED vars
    PROVE  FriendsInv'
<1>1. /\ UNCHANGED <<main, private_game, joining, connected, join_request, status, serveractive,
                     server_adr, clients, ops, commands, nextRequest, exiting, pending,
                     published, live, pc, work, activeRequest, service, late, nextToken, owner>>
  BY DEF vars, mainVars, game, workerVars
<1>2. Background
  BY <1>1 DEF Background, mainVars, game
<1>3. pending \in BOOLEAN /\ late \in BOOLEAN
  BY WorkerFacts
<1> QED BY <1>1, <1>2, <1>3, SilentStep

(* The initial state.                                                      *)
LEMMA Beginning ==
    ASSUME Init
    PROVE  FriendsInv
<1>1. /\ MaxCommands \in Nat /\ MaxPeers \in Nat /\ MaxCalls \in Nat
      /\ 0 \in 0 .. MaxPeers /\ 0 \in 0 .. MaxCalls /\ 0 \in Requests /\ 0 \in 0 .. 2
      /\ 1 \in 1 .. MaxCalls + 1 /\ 1 \in 1 .. MaxPeers + 1 /\ 0 <= MaxCommands
  BY Bounds DEF Requests
<1>2. <<>> \in Seq(CommandType) /\ Len(<<>>) = 0 /\ DOMAIN <<>> = {}
  OBVIOUS
<1>3. Stopped(0) \in StatusType /\ Stopped(0).request = 0 /\ Stopped(0).client_peer = 0
  BY <1>1 DEF Stopped, StatusType
<1>4. MainTypes
  <2>1. /\ main = "idle" /\ private_game = FALSE /\ joining = FALSE /\ connected = FALSE
        /\ join_request = 0 /\ status = Stopped(0) /\ serveractive = FALSE /\ server_adr = 0
        /\ ops = 0 /\ nextRequest = 1 /\ exiting = FALSE
    BY DEF Init
  <2> QED BY <1>1, <1>3, <2>1 DEF MainTypes
<1>5. QueueTypes
  <2>1. commands = <<>> /\ pending = FALSE
    BY DEF Init
  <2> QED BY <1>1, <1>2, <2>1 DEF QueueTypes
<1>6. ServiceOK(service) /\ service.peers = {} /\ service.admitted = {}
  BY FS_EmptySet DEF Init, ServiceOK, ServiceType
<1>7. WorkerTypes
  <2>1. /\ published = Stopped(0) /\ pc = "take" /\ work = <<>> /\ activeRequest = 0
        /\ late = FALSE /\ nextToken = 1 /\ owner = [p \in Peers |-> 0]
    BY DEF Init
  <2> QED BY <1>1, <1>2, <1>3, <1>6, <2>1 DEF WorkerTypes
<1>8. Tokens
  BY <1>6 DEF Init, Tokens
<1>9. QueueInv
  BY <1>2 DEF Init, QueueInv, InOrder
<1>10. ServiceInv
  BY <1>3, <1>6 DEF Init, ServiceInv
<1>11. MainInv
  BY <1>1, <1>3 DEF Init, MainInv
<1>12. ConnectsToOwnJoin
  BY DEF Init, ConnectsToOwnJoin
<1> QED BY <1>4, <1>5, <1>7, <1>8, <1>9, <1>10, <1>11, <1>12, TypeParts DEF FriendsInv, WorkerInv

(* The inductive invariant holds: the requests are executed in order, and  *)
(* what the main thread reads of the worker is of one request, never of a  *)
(* later one than the worker has begun (friends/transport.cpp, loop).      *)
THEOREM FriendsInvariant == Spec => []FriendsInv
<1>1. FriendsInv /\ [Next]_vars => FriendsInv'
  BY MainThreadStep, BackgroundStep, Stutter DEF Next
<1> QED BY Beginning, <1>1, PTL DEF Spec

(* The game connection goes to a peer of the join asked for last, however  *)
(* late the worker is (friends.c, Friends_Frame), and the service keeps    *)
(* its types.                                                              *)
THEOREM JoinsConnectRight == Spec => []WorkerInv
<1>1. FriendsInv => WorkerInv
  BY DEF FriendsInv
<1> QED BY FriendsInvariant, <1>1, PTL
=============================================================================
